---------------------------- MODULE CentralBrain ----------------------------
(***************************************************************************)
(* The central brain's control and review state and its store. A handler   *)
(* applies its request to the state, then persistState reads the review    *)
(* state and the control state (each under its own lock) and saves both.   *)
(* The sidecar runtime serves every request on a goroutine of its own, so  *)
(* handlers may overlap (CeOverlap). Reasons, scopes and time are left out.*)
(***************************************************************************)
EXTENDS Integers, FiniteSets

CONSTANTS CeSymbols, CeHandlers,
          CeOverlap,               \* handlers may run at the same time
          CeMaxRequests, CeMaxFailures, CeMaxRestarts   \* bounds of the model

VARIABLES ceControl,   \* control.State: [paused, stopped, outcome]
          ceReview,    \* review.State: the last decision
          ceStore,     \* what the state store holds: a set of at most one record
          ceCall,      \* handler -> [pc, op, review, control]
          ceLast,      \* history: field -> [value, ok] of the last action on it
          ceCount      \* [requests, failures, restarts] so far

ceVars == <<ceControl, ceReview, ceStore, ceCall, ceLast, ceCount>>

CeFresh == [paused |-> FALSE, stopped |-> {}, outcome |-> "none"]
CeNoOp == [name |-> "none", field |-> "none", value |-> FALSE]
CeIdle == [pc |-> "idle", op |-> CeNoOp, review |-> "none", control |-> CeFresh]
CeFields == {"trading"} \cup CeSymbols

\* No instrument is named like a word of the protocol.
ASSUME CeSymbolsAssumption ==
    CeSymbols \cap {"trading", "none", "approved", "rejected"} = {} /\ CeOverlap \in BOOLEAN

CeInit == /\ ceControl = CeFresh
          /\ ceReview = "none"
          /\ ceStore = {}
          /\ ceCall = [h \in CeHandlers |-> CeIdle]
          /\ ceLast = [f \in CeFields |-> [value |-> FALSE, ok |-> TRUE]]
          /\ ceCount = [requests |-> 0, failures |-> 0, restarts |-> 0]

----------------------------------------------------------------------------
CeOp(name, field, value) == [name |-> name, field |-> field, value |-> value]

\* A critical alert pauses its instrument, or all trading when it names none.
CeDataAlert(level, s) ==
    IF level = "critical" THEN CeOp("data_alert", IF s = "" THEN "trading" ELSE s, TRUE)
    ELSE CeOp("data_alert", "none", FALSE)

CeAccountError(recovering) ==
    IF recovering THEN CeOp("account_error", "none", FALSE)
    ELSE CeOp("account_error", "trading", TRUE)

\* pause/resume of trading or of a named instrument; anything else is refused
\* (OK = false) without touching the state, and the state is saved all the same.
CeEmergency(action, s) ==
    CASE action = "pause_trading" -> CeOp("emergency", "trading", TRUE)
      [] action = "resume_trading" -> CeOp("emergency", "trading", FALSE)
      [] action = "pause_instrument" /\ s # "" -> CeOp("emergency", s, TRUE)
      [] action = "resume_instrument" /\ s # "" -> CeOp("emergency", s, FALSE)
      [] OTHER -> CeOp("emergency", "none", FALSE)

\* Evaluate: a request without symbol, direction or candidates is refused,
\* every other one approved.
CeEvaluate(wellFormed) == IF wellFormed THEN "approved" ELSE "rejected"

\* Arguments that do not parse: the answer is a failure and nothing is applied.
CeMalformed == CeOp("malformed", "none", FALSE)

\* handleQuantControlTool.
CeDataAlerts(s) == {CeDataAlert(l, s) : l \in {"critical", "info"}}
CeControlTools ==
    (UNION {CeDataAlerts(s) : s \in CeSymbols \cup {""}})
      \cup {CeAccountError(r) : r \in BOOLEAN}
      \cup {CeOp("macro_event", "none", FALSE), CeMalformed}

\* handleReviewTrade; the daily review runs the same runner.
CeReviewTool == {CeOp("review", CeEvaluate(w), FALSE) : w \in BOOLEAN} \cup {CeMalformed}

\* handleCentralInstruction.
CeEmergencies(s) == {CeEmergency(a, s) : a \in {"pause_trading", "resume_trading",
                         "pause_instrument", "resume_instrument", "other"}}
CeInstructions ==
    (UNION {CeEmergencies(s) : s \in CeSymbols \cup {""}})
      \cup {CeOp("update_config", "none", FALSE), CeMalformed}

\* handleExecute: health checks read, unknown instructions fail.
CeExecute == CeInstructions \cup CeReviewTool

CeOps == CeControlTools \cup CeReviewTool \cup CeExecute

\* control.record: the state change of an operation, under the lock.
CeRecord(c, op) ==
    CASE op.field = "trading" -> [c EXCEPT !.paused = op.value]
      [] op.field \in CeSymbols -> [c EXCEPT !.stopped =
                                       IF op.value THEN @ \cup {op.field} ELSE @ \ {op.field}]
      [] op.name = "review" -> [c EXCEPT !.outcome = op.field]
      [] OTHER -> c

CeGoto(h, pc) == ceCall' = [ceCall EXCEPT ![h].pc = pc]

CeNoteApplied(op) ==
    ceLast' = IF op.field \in CeFields
              THEN [ceLast EXCEPT ![op.field] = [value |-> op.value, ok |-> FALSE]] ELSE ceLast

\* A request arrives. A review records its decision first and the outcome in
\* the control state after it; the other handlers have only the second step.
CeStart(h) ==
    /\ ceCall[h].pc = "idle"
    /\ CeOverlap \/ \A o \in CeHandlers : ceCall[o].pc = "idle"
    /\ ceCount.requests < CeMaxRequests
    /\ ceCount' = [ceCount EXCEPT !.requests = @ + 1]
    /\ \E op \in CeOps :
         /\ ceCall' = IF op = CeMalformed THEN ceCall
                      ELSE [ceCall EXCEPT ![h] = [CeIdle EXCEPT !.pc = "control", !.op = op]]
         /\ ceReview' = IF op.name = "review" THEN op.field ELSE ceReview
    /\ UNCHANGED <<ceControl, ceStore, ceLast>>

CeApply(h) ==
    /\ ceCall[h].pc = "control"
    /\ ceControl' = CeRecord(ceControl, ceCall[h].op)
    /\ CeNoteApplied(ceCall[h].op)
    /\ CeGoto(h, "read_review")
    /\ UNCHANGED <<ceReview, ceStore, ceCount>>

\* State(): two reads.
CeReadReview(h) ==
    /\ ceCall[h].pc = "read_review"
    /\ ceCall' = [ceCall EXCEPT ![h].pc = "read_control", ![h].review = ceReview]
    /\ UNCHANGED <<ceControl, ceReview, ceStore, ceLast, ceCount>>

CeReadControl(h) ==
    /\ ceCall[h].pc = "read_control"
    /\ ceCall' = [ceCall EXCEPT ![h].pc = "save", ![h].control = ceControl]
    /\ UNCHANGED <<ceControl, ceReview, ceStore, ceLast, ceCount>>

\* encodeStoredState and decodeStoredState: the row of the store.
CeEncode(review, control) ==
    [tradingPaused |-> control.paused, pausedInstruments |-> control.stopped,
     lastReviewOutcome |-> control.outcome, lastDecision |-> review]

CeDecode(row) ==
    [review |-> row.lastDecision,
     control |-> [paused |-> row.tradingPaused, stopped |-> row.pausedInstruments,
                  outcome |-> row.lastReviewOutcome]]

\* Mutant: the handler answers before the state is saved.
CeSkipSave(h) ==
    /\ ceCall[h].pc = "save"
    /\ ceLast' = IF ceCall[h].op.field \in CeFields
                 THEN [ceLast EXCEPT ![ceCall[h].op.field].ok = TRUE] ELSE ceLast
    /\ ceCall' = [ceCall EXCEPT ![h] = CeIdle]
    /\ UNCHANGED <<ceControl, ceReview, ceStore, ceCount>>

\* Save and the answer.
CeSave(h) ==
    /\ ceCall[h].pc = "save"
    /\ ceStore' = {CeEncode(ceCall[h].review, ceCall[h].control)}
    /\ ceLast' = IF ceCall[h].op.field \in CeFields
                 THEN [ceLast EXCEPT ![ceCall[h].op.field].ok = TRUE] ELSE ceLast
    /\ ceCall' = [ceCall EXCEPT ![h] = CeIdle]
    /\ UNCHANGED <<ceControl, ceReview, ceCount>>

\* Save fails: the caller gets an error, the state stays as applied.
CeSaveFails(h) ==
    /\ ceCall[h].pc = "save"
    /\ ceCount.failures < CeMaxFailures
    /\ ceCount' = [ceCount EXCEPT !.failures = @ + 1]
    /\ ceCall' = [ceCall EXCEPT ![h] = CeIdle]
    /\ UNCHANGED <<ceControl, ceReview, ceStore, ceLast>>

\* The sidecar dies at any moment; the next one restores what was saved.
CeRestart ==
    /\ ceCount.restarts < CeMaxRestarts
    /\ ceCount' = [ceCount EXCEPT !.restarts = @ + 1]
    /\ ceCall' = [h \in CeHandlers |-> CeIdle]
    /\ \/ /\ ceStore = {}
          /\ ceControl' = CeFresh /\ ceReview' = "none"
       \/ \E row \in ceStore : /\ ceControl' = CeDecode(row).control
                             /\ ceReview' = CeDecode(row).review
    /\ UNCHANGED <<ceStore, ceLast>>

CeNext == \/ \E h \in CeHandlers : \/ CeStart(h) \/ CeApply(h) \/ CeReadReview(h)
                                   \/ CeReadControl(h) \/ CeSave(h) \/ CeSaveFails(h)
          \/ CeRestart

CeSpec == CeInit /\ [][CeNext]_ceVars

----------------------------------------------------------------------------
CeValue(c, f) == IF f = "trading" THEN c.paused ELSE f \in c.stopped

\* Between requests, a pause or resume that was answered and not followed by
\* another on the same field holds in the brain and in its store, whatever
\* was saved, failed to be saved or restarted since.
CePausesKept ==
    (\A h \in CeHandlers : ceCall[h].pc = "idle") =>
        \A f \in CeFields : ceLast[f].ok =>
            /\ CeValue(ceControl, f) = ceLast[f].value
            /\ IF ceStore = {} THEN ~ceLast[f].value
               ELSE \A row \in ceStore : CeValue(CeDecode(row).control, f) = ceLast[f].value

\* Answered pauses are kept, and the two halves of the state, read and saved
\* one after the other, agree on the last review between requests.
CeAnsweredDurable ==
    /\ CePausesKept
    /\ (\A h \in CeHandlers : ceCall[h].pc = "idle") => ceControl.outcome = ceReview
=============================================================================
