---------------------------- MODULE ChatSession ----------------------------
(***************************************************************************)
(* `brain chat` on a terminal.  One goroutine runs the loop of runChat; it *)
(* starts every AI run in a goroutine of its own (startChatRun), which may *)
(* ask for the approval of a tool call and finally sends its result.  The  *)
(* user types, presses Escape, answers prompts and uses slash commands.    *)
(*                                                                         *)
(* A message is the number of the input it answers: the conversation is    *)
(* the sequence of the inputs whose turns it contains.  Rendering is left  *)
(* out; the mode only selects the tools of later runs (see ToolGuard).    *)
(***************************************************************************)
EXTENDS Integers, Sequences, FiniteSets

CONSTANTS
    ChMaxInputs,    \* bound: messages the user types or selects
    ChMaxEscapes,   \* bound: uses of Escape and of /clear
    ChMaxAsks       \* bound: approval requests of one run

VARIABLES
    chRunning,      \* the local variable `running` of runChat
    chMessages,     \* state.messages
    chQueue,        \* state.inputQueue
    chCancel,       \* the run whose cancel function state.cancelRun holds, 0: nil
    chRuns,         \* the runs in the order of startChatRun; the position is the generation
    chResults,      \* resultCh, of capacity 1
    chAt,           \* where the loop is: "select", "approve", "choose", "quit"
    chTyped,        \* inputs so far
    chEscapes       \* Escape and /clear so far

chVars == <<chRunning, chMessages, chQueue, chCancel, chRuns, chResults, chAt,
            chTyped, chEscapes>>

ChInit ==
    /\ chRunning = FALSE
    /\ chMessages = <<>>
    /\ chQueue = <<>>
    /\ chCancel = 0
    /\ chRuns = <<>>
    /\ chResults = <<>>
    /\ chAt = [what |-> "select", run |-> 0]
    /\ chTyped = 0
    /\ chEscapes = 0

ChSelecting == [what |-> "select", run |-> 0]

(* The generation that setCancelRun handed out last. *)
ChGen == Len(chRuns)

(* startChatRun copies the conversation and stores its cancel function.      *)
ChStart(input, base) ==
    /\ chRuns' = Append(chRuns, [base |-> base, input |-> input, at |-> "works",
                                 cancelled |-> FALSE, asks |-> 0,
                                 result |-> "none"])
    /\ chCancel' = ChGen + 1
    /\ chRunning' = TRUE

(* The top of the loop starts the oldest queued message before it selects.   *)
ChMustDequeue == ~chRunning /\ chQueue # <<>>

ChDequeue ==
    /\ chAt = ChSelecting
    /\ ChMustDequeue
    /\ ChStart(Head(chQueue), chMessages)
    /\ chQueue' = Tail(chQueue)
    /\ UNCHANGED <<chMessages, chResults, chAt, chTyped, chEscapes>>

ChSelect == chAt = ChSelecting /\ ~ChMustDequeue

(* Enter: a message typed while `running` holds is queued.                   *)
ChEnter ==
    /\ ChSelect
    /\ chTyped < ChMaxInputs
    /\ chTyped' = chTyped + 1
    /\ \/ /\ chRunning
          /\ chQueue' = Append(chQueue, chTyped')
          /\ UNCHANGED <<chRuns, chCancel, chRunning>>
       \/ /\ ~chRunning
          /\ ChStart(chTyped', chMessages)
          /\ UNCHANGED chQueue
    /\ UNCHANGED <<chMessages, chResults, chAt, chEscapes>>

(* Escape on an empty line: cancelCurrentRun, which also drops the queue.    *)
(* The loop does not wait for the run.                                       *)
ChEscape ==
    /\ ChSelect
    /\ chRunning
    /\ chEscapes < ChMaxEscapes
    /\ chEscapes' = chEscapes + 1
    /\ chRuns' = [r \in DOMAIN chRuns |->
                    [chRuns[r] EXCEPT !.cancelled = @ \/ r = chCancel]]
    /\ chCancel' = 0
    /\ chQueue' = <<>>
    /\ chRunning' = FALSE
    /\ UNCHANGED <<chMessages, chResults, chAt, chTyped>>

(* The slash command /clear; the others change no conversation.              *)
ChClear ==
    /\ ChSelect
    /\ chMessages # <<>>
    /\ chEscapes < ChMaxEscapes
    /\ chEscapes' = chEscapes + 1
    /\ chMessages' = <<>>
    /\ UNCHANGED <<chRunning, chQueue, chCancel, chRuns, chResults, chAt, chTyped>>

(* Ctrl-D, /exit or the end of the input.                                    *)
ChQuit ==
    /\ ChSelect
    /\ chAt' = [what |-> "quit", run |-> 0]
    /\ UNCHANGED <<chRunning, chMessages, chQueue, chCancel, chRuns, chResults,
                   chTyped, chEscapes>>

(* A result arrives.  handleChatRunResult ignores the messages of a run that *)
(* was cancelled or failed; otherwise they become the conversation, and the  *)
(* reply may offer a choice of follow-ups.                                   *)
ChResult ==
    /\ ChSelect
    /\ chResults # <<>>
    /\ chResults' = Tail(chResults)
    /\ chRunning' = FALSE
    /\ LET run == chRuns[Head(chResults)] IN
       \/ /\ run.result # "done"
          /\ UNCHANGED <<chMessages, chAt>>
       \/ /\ run.result = "done"
          /\ chMessages' = Append(run.base, run.input)
          /\ chAt' \in {ChSelecting, [what |-> "choose", run |-> 0]}
    /\ UNCHANGED <<chQueue, chCancel, chRuns, chTyped, chEscapes>>

(* showResponseSelector: skipped, or a follow-up that is started at once.    *)
ChChoose ==
    /\ chAt.what = "choose"
    /\ chAt' = ChSelecting
    /\ \/ UNCHANGED <<chRuns, chCancel, chRunning, chTyped>>
       \/ /\ chTyped < ChMaxInputs
          /\ chTyped' = chTyped + 1
          /\ ChStart(chTyped', chMessages)
    /\ UNCHANGED <<chMessages, chQueue, chResults, chEscapes>>

(* requestApproval of a run: approvalCh is unbuffered, so the request is     *)
(* taken by the select of the loop or given up when the context ends.        *)
ChAsk(r) ==
    /\ chRuns[r].at = "works"
    /\ chRuns[r].asks < ChMaxAsks
    /\ chRuns' = [chRuns EXCEPT ![r] = [@ EXCEPT !.at = "asks", !.asks = chRuns[r].asks + 1]]
    /\ UNCHANGED <<chRunning, chMessages, chQueue, chCancel, chResults, chAt,
                   chTyped, chEscapes>>

ChTakeRequest(r) ==
    /\ ChSelect
    /\ chRuns[r].at = "asks"
    /\ chRuns' = [chRuns EXCEPT ![r].at = "waits"]
    /\ chAt' = [what |-> "approve", run |-> r]
    /\ UNCHANGED <<chRunning, chMessages, chQueue, chCancel, chResults, chTyped,
                   chEscapes>>

(* The user answers.  The answer channel has room, so a run that gave up in  *)
(* the meantime does not block the loop.                                     *)
ChAnswer ==
    /\ chAt.what = "approve"
    /\ chAt' = ChSelecting
    /\ chRuns' = [chRuns EXCEPT ![chAt.run].at = IF @ = "waits" THEN "works" ELSE @]
    /\ UNCHANGED <<chRunning, chMessages, chQueue, chCancel, chResults, chTyped,
                   chEscapes>>

(* The context ends: it was cancelled or its timeout, at any time, passed.   *)
ChGiveUp(r) ==
    /\ chRuns[r].at \in {"asks", "waits"}
    /\ chRuns' = [chRuns EXCEPT ![r].at = "works"]
    /\ UNCHANGED <<chRunning, chMessages, chQueue, chCancel, chResults, chAt,
                   chTyped, chEscapes>>

(* runChatTurn returns; the result records whether the context was cancelled *)
(* by then.  A run may end with an error of its own or at its timeout.       *)
ChTurnEnds(r) ==
    /\ chRuns[r].at = "works"
    /\ \E result \in {"done", "failed"} :
          chRuns' = [chRuns EXCEPT ![r] =
                       [@ EXCEPT !.at = "sends",
                                 !.result = IF chRuns[r].cancelled THEN "cancelled"
                                                                   ELSE result]]
    /\ UNCHANGED <<chRunning, chMessages, chQueue, chCancel, chResults, chAt,
                   chTyped, chEscapes>>

ChSend(r) ==
    /\ chRuns[r].at = "sends"
    /\ Len(chResults) < 1
    /\ chResults' = Append(chResults, r)
    /\ chRuns' = [chRuns EXCEPT ![r].at = "clears"]
    /\ UNCHANGED <<chRunning, chMessages, chQueue, chCancel, chAt, chTyped,
                   chEscapes>>

(* The deferred clearCancelRun compares generations.  ChClearsAny is a form  *)
(* without the comparison.                                                   *)
ChClearsAny(r) == TRUE

ChOwnsCancel(r) == r = ChGen

ChClearCancel(r) ==
    /\ chRuns[r].at = "clears"
    /\ chRuns' = [chRuns EXCEPT ![r].at = "over"]
    /\ chCancel' = IF ChOwnsCancel(r) THEN 0 ELSE chCancel
    /\ UNCHANGED <<chRunning, chMessages, chQueue, chResults, chAt, chTyped,
                   chEscapes>>

ChRunStep(r) ==
    \/ ChAsk(r) \/ ChGiveUp(r) \/ ChTurnEnds(r) \/ ChSend(r) \/ ChClearCancel(r)
    \/ ChTakeRequest(r)

ChNext ==
    \/ ChDequeue \/ ChEnter \/ ChEscape \/ ChClear \/ ChQuit \/ ChResult
    \/ ChChoose \/ ChAnswer
    \/ chAt.what # "quit" /\ \E r \in DOMAIN chRuns : ChRunStep(r)

ChSpec == ChInit /\ [][ChNext]_chVars

-----------------------------------------------------------------------------
ChExecuting(r) == chRuns[r].at \in {"works", "asks", "waits"}

(* As long as the newest run works and nobody has cancelled it, the stored   *)
(* cancel function is its own, however late the goroutines of earlier runs   *)
(* clean up (clearCancelRun, chat_state.go).                                 *)
ChCancelKept ==
    ChGen > 0 /\ ChExecuting(ChGen) /\ ~chRuns[ChGen].cancelled
        => chCancel = ChGen
=============================================================================
