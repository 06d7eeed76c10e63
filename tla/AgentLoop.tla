----------------------------- MODULE AgentLoop -----------------------------
(***************************************************************************)
(* loop/runner.go, Runner.Execute: one run through its turns, the provider *)
(* and the tools it calls, the budget (Budget) and the optional loop       *)
(* detector (LoopDetector).  The run itself is sequential; what it races   *)
(* with is its context (cancelled or past its deadline at any moment), the *)
(* wall clock, and a provider whose stream may break off.                  *)
(*                                                                         *)
(* A tool call is its signature (name and input); a message is a role and  *)
(* the tool_use or tool_result blocks in it.                               *)
(***************************************************************************)
EXTENDS Integers, Sequences, FiniteSets, Budget, LoopDetector

CONSTANTS
    Sigs,       \* signatures of tool calls
    MaxBatch,   \* bound on the tool_use blocks in one answer
    Costs,      \* what one LLM call may cost
    Streaming,  \* RunOptions.Stream
    Detecting   \* Runner.LoopDetector is set

ASSUME AnswersAssumption ==
    MaxBatch \in Nat /\ Costs \subseteq Nat /\ Streaming \in BOOLEAN /\ Detecting \in BOOLEAN

VARIABLES
    state,     \* Run.State
    step,      \* where Execute is
    used,      \* the counters of Run.Budget
    messages,  \* the conversation so far
    uses,      \* the tool_use blocks of the current answer
    results,   \* the tool_result blocks gathered for them
    idx,       \* blocks of uses dispatched, then observed
    detector,  \* the detector's bookkeeping for the run
    ctx,       \* "live", "canceled" or "deadline"
    overtime   \* MaxDuration has passed

vars == <<state, step, used, messages, uses, results, idx, detector, ctx, overtime>>

Batches == UNION {[1 .. n -> Sigs] : n \in 0 .. MaxBatch}

\* What the provider may answer: a finished message, or, from a stream that
\* broke off after some data, what drainStream gathered, without a stop reason.
Answers ==
    [uses : Batches, stop : {"tool_use", "end_turn"} \cup IF Streaming THEN {""} ELSE {}]

Terminal == {"completed", "failed", "canceled"}

Init ==
    /\ state = "pending" /\ step = "start"
    /\ used = [turns |-> 0, cost |-> 0, llmCalls |-> 0, toolCalls |-> 0]
    /\ messages = <<[role |-> "user", blocks |-> <<>>]>>
    /\ uses = <<>> /\ results = <<>> /\ idx = 0
    /\ detector = FreshLoopState
    /\ ctx = "live" /\ overtime = FALSE

-----------------------------------------------------------------------------
(* Environment.                                                            *)

CtxEnd ==
    /\ ctx = "live" /\ step # "end"
    /\ ctx' \in {"canceled", "deadline"}
    /\ UNCHANGED <<state, step, used, messages, uses, results, idx, detector, overtime>>

TimeUp ==
    /\ ~overtime /\ step # "end"
    /\ overtime' = TRUE
    /\ UNCHANGED <<state, step, used, messages, uses, results, idx, detector, ctx>>

-----------------------------------------------------------------------------
(* The transitions of Run (loop/run_helper.go): an illegal one is an error *)
(* that Execute drops and that leaves the state alone.                     *)

\* Complete, Fail and Cancel, and the end of the loop that follows each.
End(to) ==
    /\ step' = "end"
    /\ state' = IF \/ state \in {"running", "waiting_tool"}
                   \/ state = "paused" /\ to # "completed"
                   \/ state = "pending" /\ to = "canceled"
                THEN to ELSE state

\* Run.Start.
Start ==
    /\ step = "start" /\ state = "pending"
    /\ state' = "running" /\ step' = "top"
    /\ UNCHANGED <<used, messages, uses, results, idx, detector, ctx, overtime>>

-----------------------------------------------------------------------------
(* The top of a turn.                                                      *)

BudgetExhausted ==
    /\ step = "top" /\ ~CheckTurn(used, overtime)
    /\ End("failed")
    /\ UNCHANGED <<used, messages, uses, results, idx, detector, ctx, overtime>>

ContextEnded ==
    /\ step = "top" /\ CheckTurn(used, overtime) /\ ctx # "live"
    /\ End("canceled")
    /\ UNCHANGED <<used, messages, uses, results, idx, detector, ctx, overtime>>

\* The turn begins and the request goes out.
CallLLM ==
    /\ step = "top" /\ CheckTurn(used, overtime) /\ ctx = "live"
    /\ step' = "llm"
    /\ UNCHANGED <<state, used, messages, uses, results, idx, detector, ctx, overtime>>

\* The provider fails; a cancellation, of the run or reported by the
\* provider, cancels the run, anything else (a deadline too) fails it.
LLMError ==
    /\ step = "llm"
    /\ used' = [used EXCEPT !.llmCalls = @ + 1]
    /\ \E canceled \in BOOLEAN :
          End(IF ctx = "canceled" \/ canceled THEN "canceled" ELSE "failed")
    /\ UNCHANGED <<messages, uses, results, idx, detector, ctx, overtime>>

\* The counters after an answer that cost c.
Charge(c) ==
    [used EXCEPT !.llmCalls = @ + 1, !.cost = @ + c, !.turns = @ + 1]

\* The answer exhausts the cost or LLM-call axis: the run fails and the
\* answer does not enter the history.
AnswerOverBudget ==
    /\ step = "llm"
    /\ \E c \in Costs : used' = Charge(c)
    /\ ~CheckCost(used')
    /\ End("failed")
    /\ UNCHANGED <<messages, uses, results, idx, detector, ctx, overtime>>

Said(a) == Append(messages, [role |-> "assistant", blocks |-> a.uses])

\* An answer without tool calls, or with another stop reason, ends the run.
AnswerFinal ==
    /\ step = "llm"
    /\ \E c \in Costs : used' = Charge(c)
    /\ CheckCost(used')
    /\ \E a \in Answers :
          /\ Len(a.uses) = 0 \/ a.stop # "tool_use"
          /\ messages' = Said(a)
    /\ End("completed")
    /\ UNCHANGED <<uses, results, idx, detector, ctx, overtime>>

\* An answer that asks for tools.
AnswerTools ==
    /\ step = "llm"
    /\ \E c \in Costs : used' = Charge(c)
    /\ CheckCost(used')
    /\ \E a \in Answers :
          /\ Len(a.uses) > 0 /\ a.stop = "tool_use"
          /\ messages' = Said(a)
          /\ uses' = a.uses
    /\ idx' = 0 /\ results' = <<>>
    /\ state' = "waiting_tool" /\ step' = "tools"
    /\ UNCHANGED <<detector, ctx, overtime>>

-----------------------------------------------------------------------------
(* dispatchTools and the loop detector.                                    *)

\* Mutants of DispatchTool: a cancelled run blocks before its next tool; a
\* tool that is not in the registry gets no result.
DispatchToolBlocked ==
    /\ step = "tools" /\ idx < Len(uses) /\ ctx = "live"
    /\ idx' = idx + 1
    /\ results' = Append(results, uses[idx + 1])
    /\ UNCHANGED <<state, step, used, messages, uses, detector, ctx, overtime>>

DispatchToolSkips ==
    /\ step = "tools" /\ idx < Len(uses)
    /\ idx' = idx + 1
    /\ results' \in {results, Append(results, uses[idx + 1])}
    /\ UNCHANGED <<state, step, used, messages, uses, detector, ctx, overtime>>

\* One block: whether the tool is missing, fails, or its result does not pass
\* the sanitizer, exactly one result with the block's id is appended.
DispatchTool ==
    /\ step = "tools" /\ idx < Len(uses)
    /\ idx' = idx + 1
    /\ results' = Append(results, uses[idx + 1])
    /\ UNCHANGED <<state, step, used, messages, uses, detector, ctx, overtime>>

\* The batch is done: count it, append the results, run again.
ToolsDone ==
    /\ step = "tools" /\ idx = Len(uses)
    /\ used' = [used EXCEPT !.toolCalls = @ + Len(uses)]
    /\ messages' = Append(messages, [role |-> "user", blocks |-> results])
    /\ state' = "running"
    /\ idx' = 0
    /\ step' = IF Detecting THEN "observe" ELSE "top"
    /\ UNCHANGED <<uses, results, detector, ctx, overtime>>

ToolCallEvent(sig) == [type |-> "tool_call", name |-> sig, hash |-> sig]

\* Mutant of ObserveCall: only the first call of a batch is observed.
ObserveFirstCall ==
    /\ step = "observe" /\ idx < Len(uses)
    /\ LET e == ToolCallEvent(uses[idx + 1])
           s == IF ctx = "live" /\ idx = 0 THEN Observe(detector, e) ELSE detector
       IN  /\ detector' = s
           /\ IF ctx = "live" /\ idx = 0 /\ Verdict(s, e) # "none"
              THEN End("failed") /\ UNCHANGED idx
              ELSE idx' = idx + 1 /\ UNCHANGED <<state, step>>
    /\ UNCHANGED <<used, messages, uses, results, ctx, overtime>>

\* One call of the batch is shown to the detector; a verdict fails the run.
\* With an ended context Observe returns an error, which is skipped.
ObserveCall ==
    /\ step = "observe" /\ idx < Len(uses)
    /\ LET e == ToolCallEvent(uses[idx + 1])
           s == IF ctx = "live" THEN Observe(detector, e) ELSE detector
       IN  /\ detector' = s
           /\ IF ctx = "live" /\ Verdict(s, e) # "none"
              THEN End("failed") /\ UNCHANGED idx
              ELSE idx' = idx + 1 /\ UNCHANGED <<state, step>>
    /\ UNCHANGED <<used, messages, uses, results, ctx, overtime>>

\* The turn ends without a verdict.
EndTurn ==
    /\ step = "observe" /\ idx = Len(uses)
    /\ step' = "top"
    /\ UNCHANGED <<state, used, messages, uses, results, idx, detector, ctx, overtime>>

-----------------------------------------------------------------------------
Execute ==
    \/ Start \/ BudgetExhausted \/ ContextEnded \/ CallLLM
    \/ LLMError \/ AnswerOverBudget \/ AnswerFinal \/ AnswerTools
    \/ DispatchTool \/ ToolsDone \/ ObserveCall \/ EndTurn

Next == Execute \/ CtxEnd \/ TimeUp

Spec == Init /\ [][Next]_vars

\* The run's goroutine keeps running; a provider answers or fails and a tool
\* returns (both are given the context, which bounds them).
FairSpec == Spec /\ WF_vars(Execute)

-----------------------------------------------------------------------------
(* Properties.                                                             *)

Counters == [turns : Nat, cost : Nat, llmCalls : Nat, toolCalls : Nat]

\* Every variable stays in its range and the run's state agrees with where
\* Execute is.
TypeOK ==
    /\ state \in {"pending", "running", "waiting_tool"} \cup Terminal
    /\ step \in {"start", "top", "llm", "tools", "observe", "end"}
    /\ used \in Counters
    /\ messages \in Seq([role : {"user", "assistant"}, blocks : Seq(Sigs)])
    /\ uses \in Seq(Sigs) /\ Len(uses) <= MaxBatch
    /\ results \in Seq(Sigs)
    /\ idx \in 0 .. Len(uses)
    /\ overtime \in BOOLEAN
    /\ ctx \in {"live", "canceled", "deadline"}
    /\ state = CASE step = "start" -> "pending"
                 [] step = "tools" -> "waiting_tool"
                 [] step = "end"   -> state
                 [] OTHER          -> "running"
    /\ (step = "end") <=> (state \in Terminal)

\* The run never goes past its limits: turns and LLM calls stay within theirs,
\* and tool calls exceed theirs by less than one batch, since CheckTurn looks
\* at the counter only between turns.
WithinBudget ==
    /\ MaxTurns > 0 => used.turns <= MaxTurns
    /\ MaxLLMCalls > 0 => used.llmCalls <= MaxLLMCalls
    /\ MaxToolCalls > 0 => used.toolCalls < MaxToolCalls + MaxBatch

\* "the Runner has delivered a final assistant message and Budget headroom
\* remained" (run.go, StateCompleted), its second half on the axes CheckCost
\* looks at: a completed run has cost and LLM calls to spare.
CompletedHasHeadroom ==
    state = "completed" =>
        ~Exhausted(used.cost, MaxCost) /\ ~Exhausted(used.llmCalls, MaxLLMCalls)

\* Whenever a request goes to the provider, every assistant message that asked
\* for tools is followed by the results of exactly those calls, in their order,
\* and the history ends with a user message: cancelled or failing tools never
\* leave an unanswered tool_use behind.
HistoryPaired ==
    step = "llm" =>
        /\ messages[Len(messages)].role = "user"
        /\ \A i \in 1 .. Len(messages) - 1 :
              messages[i].role = "assistant" =>
                  /\ messages[i + 1].role = "user"
                  /\ messages[i + 1].blocks = messages[i].blocks

\* All the tool calls of the run, in order.
Calls ==
    LET f[i \in 0 .. Len(messages)] ==
            IF i = 0 THEN <<>>
            ELSE IF messages[i].role = "assistant" THEN f[i - 1] \o messages[i].blocks
            ELSE f[i - 1]
    IN  f[Len(messages)]

\* With the detector on, the provider is never asked again once the last calls
\* of the run, over all its turns, repeat the same call up to the threshold.
RepetitionCaught ==
    Detecting /\ step = "llm" /\ RepeatedToolCallThreshold > 0
    /\ Len(Calls) >= RepeatedToolCallThreshold =>
        \E i \in Len(Calls) - RepeatedToolCallThreshold + 1 .. Len(Calls) :
            Calls[i] # Calls[Len(Calls)]

\* A run with a turn limit that was started ends for good, in one of the three
\* terminal states, whatever the provider answers.
Terminates == MaxTurns > 0 => <>[](step \in {"start", "end"})

-----------------------------------------------------------------------------
(* What the comments say of the run.                                       *)

\* budget.go, MaxToolCalls: "the hard upper bound on the number of tool
\* invocations allowed across all Turns of the Run."
ToolCallsBounded == MaxToolCalls > 0 => used.toolCalls <= MaxToolCalls
=============================================================================
