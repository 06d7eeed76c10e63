--------------------------- MODULE SidecarRuntime ---------------------------
(***************************************************************************)
(* A specialist sidecar at work: sidecar.Run with its request handlers, the *)
(* tool loop RunAgentLoop that brain/execute runs in the code, browser,     *)
(* verifier and fault brains, DispatchToolCall, and the kernel's LLM proxy  *)
(* on the other end of the reverse call llm.complete.                       *)
(*                                                                         *)
(* A content block crosses the wire twice a turn as JSON.  The kernel's     *)
(* type has no field tags, the sidecar's type has snake_case tags, and the  *)
(* decoder of encoding/json matches names up to letter case only, so a      *)
(* field whose two names differ by an underscore arrives as its zero value. *)
(* The names are written here in lower case.                                *)
(***************************************************************************)
EXTENDS Integers, Sequences, FiniteSets

CONSTANTS
    ScRequests,     \* brain/execute requests, each handled by its own goroutine
    ScTools,        \* the registered tools
    ScAnswers,      \* what a provider may answer: [calls |-> Seq(names), stop]
    ScMaxTurns      \* the turn budget of a request

\* An answer names its calls in an order; a budget is a number of turns.
ASSUME ScAssumption ==
    ScMaxTurns \in Nat /\ \A a \in ScAnswers : a.calls \in Seq(STRING)

VARIABLES
    scUp,           \* the RPC session is open
    scAt,           \* request -> where its handler is
    scTurn,         \* request -> the loop's turn counter
    scMessages,     \* request -> the history RunAgentLoop keeps
    scResults,      \* request -> tool results gathered in this turn
    scReply,        \* request -> the ExecuteResult, or ScNone
    scAnswered,     \* request -> answers of the provider (history variable)
    scAsked,        \* request -> tools the provider asked for (history variable)
    scRan           \* request -> tools executed (history variable)

scVars == <<scUp, scAt, scTurn, scMessages, scResults, scReply,
            scAnswered, scAsked, scRan>>

ScNone == [status |-> "none", turns |-> 0]

(***************************************************************************)
(* The JSON names of the fields of a block on either side.                  *)
(***************************************************************************)
ScKernelKeys == [type |-> "type", id |-> "tooluseid", name |-> "toolname"]

ScSidecarKeys == [type |-> "type", id |-> "tool_use_id", name |-> "tool_name"]

ScZero == [type |-> "", id |-> 0, name |-> ""]

\* encoding/json: a field survives if its two names agree up to case.
ScDecode(block, from, to) ==
    [f \in DOMAIN block |-> IF from[f] = to[f] THEN block[f] ELSE ScZero[f]]

\* The tool_use blocks of an answer as the provider wrote them, ids from 1.
ScUses(a) ==
    [i \in DOMAIN a.calls |-> [type |-> "tool_use", id |-> i, name |-> a.calls[i]]]

\* The same blocks as the sidecar reads them.
ScReceived(a) ==
    [i \in DOMAIN a.calls |-> ScDecode(ScUses(a)[i], ScKernelKeys, ScSidecarKeys)]

ScInit ==
    /\ scUp = TRUE
    /\ scAt = [r \in ScRequests |-> "new"]
    /\ scTurn = [r \in ScRequests |-> 0]
    /\ scMessages = [r \in ScRequests |-> <<>>]
    /\ scResults = [r \in ScRequests |-> <<>>]
    /\ scReply = [r \in ScRequests |-> ScNone]
    /\ scAnswered = [r \in ScRequests |-> 0]
    /\ scAsked = [r \in ScRequests |-> {}]
    /\ scRan = [r \in ScRequests |-> {}]

\* The handler's return: the result is sent unless the session is closed.
ScReturn(r, status, turns) ==
    /\ scReply' = [scReply EXCEPT ![r] = [status |-> status, turns |-> turns]]
    /\ scAt' = [scAt EXCEPT ![r] = "done"]

(***************************************************************************)
(* handleExecute: a request that does not parse, or whose registry cannot   *)
(* be built, fails; without a kernel caller the brain reports itself ready; *)
(* otherwise the loop starts with the instruction as its only message.      *)
(***************************************************************************)
ScExecute(r) ==
    /\ scUp
    /\ scAt[r] = "new"
    /\ \/ ScReturn(r, "failed", 0) /\ UNCHANGED scMessages
       \/ ScReturn(r, "completed", 0) /\ UNCHANGED scMessages
       \/ /\ scAt' = [scAt EXCEPT ![r] = "llm"]
          /\ scMessages' = [scMessages EXCEPT ![r] = <<[role |-> "user", blocks |-> <<>>]>>]
          /\ UNCHANGED scReply
    /\ UNCHANGED <<scUp, scTurn, scResults, scAnswered, scAsked, scRan>>

\* for turn := 0; turn < maxTurns; turn++
ScMayTurn(r) == scTurn[r] < ScMaxTurns

\* llm.complete fails: no provider for the kind, a provider error, a closed session.
ScCompleteFails(r) ==
    /\ scAt[r] = "llm"
    /\ ScMayTurn(r)
    /\ ScReturn(r, "failed", scTurn[r])
    /\ UNCHANGED <<scUp, scTurn, scMessages, scResults, scAnswered, scAsked, scRan>>

\* llm.complete succeeds: the answer is appended; without calls, or with
\* stop reason end_turn, the loop is over.
ScComplete(r, a) ==
    /\ scUp
    /\ scAt[r] = "llm"
    /\ ScMayTurn(r)
    /\ scMessages' = [scMessages EXCEPT ![r] =
                        Append(@, [role |-> "assistant", blocks |-> ScReceived(a)])]
    /\ scAnswered' = [scAnswered EXCEPT ![r] = @ + 1]
    /\ IF a.calls = <<>> \/ a.stop = "end_turn"
       THEN ScReturn(r, "completed", scTurn[r] + 1) /\ UNCHANGED scAsked
       ELSE /\ scAt' = [scAt EXCEPT ![r] = "tools"]
            /\ scAsked' = [scAsked EXCEPT ![r] = @ \union {a.calls[i] : i \in DOMAIN a.calls}]
            /\ UNCHANGED scReply
    /\ scResults' = [scResults EXCEPT ![r] = <<>>]
    /\ UNCHANGED <<scUp, scTurn, scRan>>

ScCalls(r) == scMessages[r][Len(scMessages[r])].blocks

\* The next call of the batch: a result is appended whether the tool is
\* missing, fails or succeeds.
ScTool(r) ==
    LET call == ScCalls(r)[Len(scResults[r]) + 1]
    IN  /\ scAt[r] = "tools"
        /\ Len(scResults[r]) < Len(ScCalls(r))
        /\ scRan' = [scRan EXCEPT ![r] = @ \union ({call.name} \intersect ScTools)]
        /\ scResults' = [scResults EXCEPT ![r] = Append(@,
              [type |-> "tool_result", id |-> call.id, name |-> ""])]
        /\ UNCHANGED <<scUp, scAt, scTurn, scMessages, scReply, scAnswered, scAsked>>

\* Only tools that were found get a result.
ScAppendFound(r) ==
    LET found == {i \in DOMAIN ScCalls(r) : ScCalls(r)[i].name \in ScTools}
    IN  /\ scAt[r] = "tools"
        /\ Len(scResults[r]) = Len(ScCalls(r))
        /\ scMessages' = [scMessages EXCEPT ![r] =
              Append(@, [role |-> "user", blocks |-> SubSeq(scResults[r], 1, Cardinality(found))])]
        /\ scTurn' = [scTurn EXCEPT ![r] = @ + 1]
        /\ scAt' = [scAt EXCEPT ![r] = "llm"]
        /\ UNCHANGED <<scUp, scResults, scReply, scAnswered, scAsked, scRan>>

\* All calls answered: one user message holds the results; next turn.
ScAppend(r) ==
    /\ scAt[r] = "tools"
    /\ Len(scResults[r]) = Len(ScCalls(r))
    /\ scMessages' = [scMessages EXCEPT ![r] =
                        Append(@, [role |-> "user", blocks |-> scResults[r]])]
    /\ scTurn' = [scTurn EXCEPT ![r] = @ + 1]
    /\ scAt' = [scAt EXCEPT ![r] = "llm"]
    /\ UNCHANGED <<scUp, scResults, scReply, scAnswered, scAsked, scRan>>

\* The loop has used its turns: reported as completed.
ScExhausted(r) ==
    /\ scAt[r] = "llm"
    /\ ~ScMayTurn(r)
    /\ ScReturn(r, "completed", ScMaxTurns)
    /\ UNCHANGED <<scUp, scTurn, scMessages, scResults, scAnswered, scAsked, scRan>>

\* A signal (or $/shutdown, which the kernel never sends under that name)
\* cancels the context: Run closes the session and returns.
ScShutdown ==
    /\ scUp
    /\ scUp' = FALSE
    /\ UNCHANGED <<scAt, scTurn, scMessages, scResults, scReply, scAnswered, scAsked, scRan>>

ScNext ==
    \/ ScShutdown
    \/ \E r \in ScRequests :
         \/ ScExecute(r) \/ ScCompleteFails(r) \/ ScTool(r) \/ ScAppend(r) \/ ScExhausted(r)
         \/ \E a \in ScAnswers : ScComplete(r, a)

ScSpec == ScInit /\ [][ScNext]_scVars

(***************************************************************************)
(* Properties                                                              *)
(***************************************************************************)
\* RunAgentLoop (sidecar/loop.go): whenever the history is sent to the
\* provider, every assistant message with calls is followed by a user message
\* that answers the same calls in the same order, whichever tools failed; and
\* the turns an ExecuteResult reports are the answers the provider gave, never
\* more than the budget.
ScTranscriptSound ==
    \A r \in ScRequests :
        /\ scAt[r] = "llm" =>
             \A i \in DOMAIN scMessages[r] :
                scMessages[r][i].role = "assistant" =>
                    /\ i < Len(scMessages[r])
                    /\ scMessages[r][i + 1].role = "user"
                    /\ Len(scMessages[r][i + 1].blocks) = Len(scMessages[r][i].blocks)
                    /\ \A j \in DOMAIN scMessages[r][i].blocks :
                         scMessages[r][i + 1].blocks[j].id = scMessages[r][i].blocks[j].id
        /\ scReply[r] # ScNone =>
             /\ scReply[r].turns = scAnswered[r]
             /\ scReply[r].turns <= ScMaxTurns

\* What the comment of RunAgentLoop promises ("Execute tools locally"): when
\* the loop turns to the provider again, every registered tool it asked for
\* has been executed.
ScAskedToolsRun ==
    \A r \in ScRequests :
        scAt[r] = "llm" => (scAsked[r] \intersect ScTools) \subseteq scRan[r]
=============================================================================
