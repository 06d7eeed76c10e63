---------------------------- MODULE QuantService ----------------------------
(***************************************************************************)
(* The quant brain: trading cycles (BuildPlan, review by the central       *)
(* brain, dispatch to the accounts, recovery), the pause and resume tools, *)
(* and a restart that rebuilds the runtime flags from the audit traces.    *)
(* Signals, prices and risk limits are choices of the environment: a cycle *)
(* may find a direction or not, need a review or not, pass a limit or not. *)
(* The executor's accounts and the paper exchange behind them last as long *)
(* as the process; the audit store lasts longer.                           *)
(***************************************************************************)
EXTENDS Integers, Sequences, FiniteSets, SequencesExt

CONSTANTS QuAccounts,      \* account ids, as a sequence in router order
          QuSymbols,
          QuCycles,        \* goroutines that run a cycle
          QuControls,      \* goroutines that serve a control tool
          QuSerial,        \* TRUE: control tools run one at a time
          QuFallback,      \* reviewMode: TRUE approves when no review comes
          QuMaxTraces, QuMaxRestarts    \* bounds of the model

VARIABLES quPaused, quStopped,  \* runtime.TradingPaused, PausedInstruments
          quRecovered,          \* runtime.LastRecovery is set
          quStatus,             \* account -> AccountStatus
          quHeld,               \* accounts that hold a position
          quTraces,             \* control and recovery traces of the audit store
          quClock,              \* milliseconds: several traces may share one
          quCycle,              \* cycle -> [pc, symbol, todo, banned, at]
          quControl,            \* control call -> [pc, act, symbol, todo]
          quAsked,              \* history: what the answered controls ask for
          quRestarts

quVars == <<quPaused, quStopped, quRecovered, quStatus, quHeld, quTraces, quClock, quCycle,
            quControl, quAsked, quRestarts>>

QuAll == ToSet(QuAccounts)
QuIdleCycle == [pc |-> "idle", symbol |-> "", todo |-> <<>>, banned |-> FALSE, at |-> 0]
QuIdleControl == [pc |-> "idle", act |-> "", symbol |-> "", todo |-> <<>>]
QuNothingAsked == [trading |-> FALSE, stopped |-> {}, recovered |-> FALSE]

\* A new process: accounts are active and hold nothing.
QuInit == /\ quPaused = FALSE /\ quStopped = {} /\ quRecovered = FALSE
          /\ quStatus = [a \in QuAll |-> "active"]
          /\ quHeld = {}
          /\ quTraces = <<>> /\ quClock = 1
          /\ quCycle = [c \in QuCycles |-> QuIdleCycle]
          /\ quControl = [k \in QuControls |-> QuIdleControl]
          /\ quAsked = QuNothingAsked
          /\ quRestarts = 0

----------------------------------------------------------------------------
(* Control tools: the flag, the accounts one by one, the trace.            *)

QuTradingAct(act) == act \in {"pause_trading", "resume_trading", "shutdown_prepare"}

\* setTradingPaused, setInstrumentPaused.
QuSetTrading(flags, paused) == [flags EXCEPT !.trading = paused]
QuSetInstrument(flags, s, paused) ==
    [flags EXCEPT !.stopped = IF paused THEN @ \cup {s} ELSE @ \ {s}]

\* applyRuntimeTrace: a trace repeats what the setter did.
QuApply(flags, act, s) ==
    CASE QuTradingAct(act) -> QuSetTrading(flags, act # "resume_trading")
      [] act \in {"pause_instrument", "resume_instrument"} ->
            QuSetInstrument(flags, s, act = "pause_instrument")
      [] act = "recovery_completed" -> [flags EXCEPT !.recovered = TRUE]
      [] OTHER -> flags

QuNoControl == \A k \in QuControls : quControl[k].pc = "idle"

\* The flag is set first; trading controls then visit the accounts.
QuControlSet(k, act, s) ==
    /\ quControl[k].pc = "idle"
    /\ QuSerial => QuNoControl
    /\ Len(quTraces) < QuMaxTraces
    /\ LET f == QuApply([trading |-> quPaused, stopped |-> quStopped, recovered |-> quRecovered],
                        act, s) IN
       quPaused' = f.trading /\ quStopped' = f.stopped
    /\ quControl' = [quControl EXCEPT ![k] =
           [pc |-> "accounts", act |-> act, symbol |-> s,
            todo |-> IF QuTradingAct(act) THEN QuAccounts ELSE <<>>]]
    /\ UNCHANGED <<quRecovered, quStatus, quHeld, quTraces, quClock, quCycle, quAsked,
                   quRestarts>>

\* pauseTrading, resumeTrading, pauseInstrument, resumeInstrument.
QuControlStart(k) ==
    \E act \in {"pause_trading", "resume_trading", "pause_instrument", "resume_instrument"},
       s \in QuSymbols : QuControlSet(k, act, s)

\* handleExecute: of the instructions only shutdown_prepare changes anything;
\* its trace reads pause_trading.
QuShutdownPrepare(k) == QuControlSet(k, "shutdown_prepare", "control")

\* setStatus overwrites whatever the account was.
QuSetStatus(a, status) == quStatus' = [quStatus EXCEPT ![a] = status]

\* applyAccountAction with PauseAccount or ResumeAccount.
QuControlAccount(k) ==
    /\ quControl[k].pc = "accounts"
    /\ quControl[k].todo # <<>>
    /\ QuSetStatus(Head(quControl[k].todo),
                   IF quControl[k].act = "resume_trading" THEN "active" ELSE "paused")
    /\ quControl' = [quControl EXCEPT ![k].todo = Tail(@)]
    /\ UNCHANGED <<quPaused, quStopped, quRecovered, quHeld, quTraces, quClock, quCycle, quAsked, quRestarts>>

QuTraceOutcome(act) == IF act = "shutdown_prepare" THEN "pause_trading" ELSE act

\* newControlTrace stamps the time, Save appends (its error is dropped; the
\* stores modelled here do not fail), the tool answers.
QuControlTrace(k) ==
    /\ quControl[k].pc = "accounts"
    /\ quControl[k].todo = <<>>
    /\ \E now \in {quClock, quClock + 1} :
         /\ quClock' = now
         /\ quTraces' = Append(quTraces, [act |-> QuTraceOutcome(quControl[k].act),
                                symbol |-> quControl[k].symbol, at |-> now])
    /\ quAsked' = QuApply(quAsked, quControl[k].act, quControl[k].symbol)
    /\ quControl' = [quControl EXCEPT ![k] = QuIdleControl]
    /\ UNCHANGED <<quPaused, quStopped, quRecovered, quStatus, quHeld, quCycle, quRestarts>>

----------------------------------------------------------------------------
(* Cycles.                                                                 *)

\* effectivePortfolioView: the runtime's pauses are merged into the view.
QuEffective == [trading |-> quPaused, stopped |-> quStopped]

\* Mutant: the instrument test is lost.
QuIgnoreStopped(direction, s) ==
    IF direction = "hold" \/ QuEffective.trading THEN <<>> ELSE QuAccounts
\* The plan of BuildDispatchPlan after the control tests: no candidate when
\* trading or the instrument is paused, or no direction was found.
QuCandidates(direction, s) ==
    IF direction = "hold" \/ QuEffective.trading \/ s \in QuEffective.stopped
    THEN <<>> ELSE QuAccounts

\* BuildPlan up to the review: the portfolio is read once, here.
QuBuildPlan(c) ==
    /\ quCycle[c].pc = "idle"
    /\ \E s \in QuSymbols, direction \in {"go", "hold"}, riskOK, review \in BOOLEAN :
         LET plan == IF riskOK THEN QuCandidates(direction, s) ELSE <<>>
             asked == /\ QuNoControl
                      /\ quAsked.trading \/ s \in quAsked.stopped
         IN  quCycle' = [quCycle EXCEPT ![c] =
                IF plan = <<>> THEN QuIdleCycle
                ELSE [pc |-> IF review THEN "review" ELSE "dispatch",
                      symbol |-> s, todo |-> plan, banned |-> asked, at |-> 0]]
    /\ UNCHANGED <<quPaused, quStopped, quRecovered, quStatus, quHeld, quTraces, quClock, quControl,
                   quAsked, quRestarts>>

\* reviewFallbackDecision: what an unusable answer counts as.
QuFallbackDecision == IF QuFallback THEN "approve" ELSE "reject"

\* reviewTrade: central approves, refuses, or there is no usable answer and
\* the fallback decides; then the risk guard looks again.
QuReview(c) ==
    /\ quCycle[c].pc = "review"
    /\ \E answer \in {"approve", "reject", "none"}, riskOK \in BOOLEAN :
         LET decision == IF answer = "none" THEN QuFallbackDecision ELSE answer
             go == decision = "approve" /\ riskOK
         IN  quCycle' = [quCycle EXCEPT ![c] =
                IF go THEN [@ EXCEPT !.pc = "dispatch"] ELSE QuIdleCycle]
    /\ UNCHANGED <<quPaused, quStopped, quRecovered, quStatus, quHeld, quTraces, quClock, quControl,
                   quAsked, quRestarts>>

\* ExecutePlan, one candidate: only a disabled account is passed over. A market
\* order fills, is rejected (no price), or the client fails and the plan stops.
QuExecute(c) ==
    /\ quCycle[c].pc = "dispatch"
    /\ quCycle[c].todo # <<>>
    /\ LET a == Head(quCycle[c].todo) IN
       \E result \in {"filled", "rejected", "error"} :
         /\ quStatus[a] = "disabled" => result = "rejected"
         /\ result = "error" => Len(quTraces) < QuMaxTraces
         /\ quHeld' = IF result = "filled" THEN quHeld \cup {a} ELSE quHeld
         /\ quCycle' = [quCycle EXCEPT ![c] =
                IF result = "error" THEN [@ EXCEPT !.pc = "mark", !.todo = QuAccounts]
                ELSE [@ EXCEPT !.todo = Tail(@)]]
    /\ UNCHANGED <<quPaused, quStopped, quRecovered, quStatus, quTraces, quClock, quControl, quAsked,
                   quRestarts>>

QuCycleDone(c) ==
    /\ quCycle[c].pc = "dispatch"
    /\ quCycle[c].todo = <<>>
    /\ quCycle' = [quCycle EXCEPT ![c] = QuIdleCycle]
    /\ UNCHANGED <<quPaused, quStopped, quRecovered, quStatus, quHeld, quTraces, quClock, quControl,
                   quAsked, quRestarts>>

\* markPlanAccountsRecovering; the plan held every account.
QuMarkRecovering(c) ==
    /\ quCycle[c].pc = "mark"
    /\ quCycle[c].todo # <<>>
    /\ QuSetStatus(Head(quCycle[c].todo), "recovering")
    /\ quCycle' = [quCycle EXCEPT ![c].todo = Tail(@)]
    /\ UNCHANGED <<quPaused, quStopped, quRecovered, quHeld, quTraces, quClock, quControl, quAsked, quRestarts>>

\* Mutant: only accounts with a position are looked at.
QuNeedsHeld(a) == a \in quHeld
\* needsRecovery, on the list Reconcile takes at its start.
QuNeedsRecovery(a) == quStatus[a] \in {"recovering", "paused", "disabled"} \/ a \in quHeld

QuRecoverList(c) ==
    /\ quCycle[c].pc = "mark"
    /\ quCycle[c].todo = <<>>
    /\ quCycle' = [quCycle EXCEPT ![c].pc = "reconcile",
                                  ![c].todo = SelectSeq(QuAccounts, QuNeedsRecovery)]
    /\ UNCHANGED <<quPaused, quStopped, quRecovered, quStatus, quHeld, quTraces, quClock, quControl,
                   quAsked, quRestarts>>

\* RecordReconcile makes a recovering account active.
QuRecordReconcile(a) ==
    quStatus' = [quStatus EXCEPT ![a] = IF @ = "recovering" THEN "active" ELSE @]

\* ReconcileAccount.
QuReconcile(c) ==
    /\ quCycle[c].pc = "reconcile"
    /\ quCycle[c].todo # <<>>
    /\ QuRecordReconcile(Head(quCycle[c].todo))
    /\ quCycle' = [quCycle EXCEPT ![c].todo = Tail(@)]
    /\ UNCHANGED <<quPaused, quStopped, quRecovered, quHeld, quTraces, quClock, quControl, quAsked, quRestarts>>

\* Recover: the report's time is taken, recordRecovery sets the flag ...
QuRecordRecovery(c) ==
    /\ quCycle[c].pc = "reconcile"
    /\ quCycle[c].todo = <<>>
    /\ quRecovered' = TRUE
    /\ quCycle' = [quCycle EXCEPT ![c].pc = "trace", ![c].at = quClock]
    /\ UNCHANGED <<quPaused, quStopped, quStatus, quHeld, quTraces, quClock, quControl, quAsked, quRestarts>>

\* ... and the recovery trace is saved under that time.
QuRecoveryTrace(c) ==
    /\ quCycle[c].pc = "trace"
    /\ quTraces' = Append(quTraces, [act |-> "recovery_completed", symbol |-> "control",
                                     at |-> quCycle[c].at])
    /\ quAsked' = QuApply(quAsked, "recovery_completed", "control")
    /\ quCycle' = [quCycle EXCEPT ![c] = QuIdleCycle]
    /\ UNCHANGED <<quPaused, quStopped, quRecovered, quStatus, quHeld, quClock, quControl,
                   quRestarts>>

----------------------------------------------------------------------------
\* RestoreRuntime sorts the traces by time (ties by the store's ids, which
\* grow) and applies them; Query delivers them newest first.
QuReplayOrder == SetToSortSeq(1 .. Len(quTraces), LAMBDA i, j :
                     \/ quTraces[i].at < quTraces[j].at
                     \/ quTraces[i].at = quTraces[j].at /\ i < j)

QuRestored == FoldLeft(LAMBDA f, i : QuApply(f, quTraces[i].act, quTraces[i].symbol),
                       QuNothingAsked, QuReplayOrder)

\* The process dies and a new one restores the flags before it serves.
QuRestart ==
    /\ quRestarts < QuMaxRestarts
    /\ quRestarts' = quRestarts + 1
    /\ quPaused' = QuRestored.trading /\ quStopped' = QuRestored.stopped
    /\ quRecovered' = QuRestored.recovered
    /\ quStatus' = [a \in QuAll |-> "active"]
    /\ quHeld' = {}
    /\ quCycle' = [c \in QuCycles |-> QuIdleCycle]
    /\ quControl' = [k \in QuControls |-> QuIdleControl]
    /\ UNCHANGED <<quTraces, quClock, quAsked>>

QuNext == \/ \E k \in QuControls : \/ QuControlStart(k) \/ QuShutdownPrepare(k)
                                   \/ QuControlAccount(k) \/ QuControlTrace(k)
          \/ \E c \in QuCycles : \/ QuBuildPlan(c) \/ QuReview(c) \/ QuExecute(c)
                                 \/ QuMarkRecovering(c) \/ QuRecoverList(c) \/ QuReconcile(c)
                                 \/ QuRecordRecovery(c) \/ QuRecoveryTrace(c) \/ QuCycleDone(c)
          \/ QuRestart

----------------------------------------------------------------------------
\* While no control tool is being served the flags are what the answered tools
\* asked for, through every restart and whatever recovery traces were saved
\* among theirs; a recovery that was recorded stays known; and no cycle that
\* read the portfolio under such a pause sends an order.
QuPauseSurvives ==
    /\ QuNoControl => /\ quPaused = quAsked.trading
                      /\ quStopped = quAsked.stopped
    /\ quAsked.recovered => quRecovered
    /\ \A c \in QuCycles : ~quCycle[c].banned

\* Once the cycles are over no account is left recovering, however their
\* markings and reconciliations interleave with each other and with pauses.
QuNoAccountStuck ==
    (\A c \in QuCycles : quCycle[c].pc = "idle")
        => \A a \in QuAll : quStatus[a] # "recovering"
=============================================================================
