----------------------------- MODULE ServeRuns -----------------------------
(***************************************************************************)
(* The run manager of `brain serve' (cmd/cmd_serve.go) and the part of     *)
(* executeManagedRun (cmd/run_executor.go) and runtimeStore                *)
(* (cmd/runtime_store.go) it drives.                                       *)
(*                                                                         *)
(* A POST /v1/runs handler reserves a slot, creates the persisted record   *)
(* and launches a goroutine that executes the run; a DELETE handler looks  *)
(* the run up, marks its entry cancelled, writes the record and puts the   *)
(* entry back into the map; the main goroutine shuts everything down on a  *)
(* signal.  An atomic step is one critical section (an entry's mutex, the  *)
(* launch mutex, the store's mutex) or one sync.Map operation.             *)
(*                                                                         *)
(* A run has three views: the persisted record rec[r] (GET /v1/runs lists  *)
(* it), the entry object entry[r] its executor updates, and whatever entry *)
(* the map holds (GET /v1/runs/{id} shows it): none, the executor's own    *)
(* ("own"), or the copy that a DELETE handler built from the record before *)
(* the run was launched (the handler's name).                              *)
(***************************************************************************)
EXTENDS Integers, FiniteSets

CONSTANTS
  Runs,           \* POST requests, and the run each of them creates
  Cancels,        \* DELETE requests
  MaxConcurrent,  \* --max-concurrent-runs
  MaxFaults       \* bound: how many runs meet a failing disk write

ASSUME ServeAssumption ==
  /\ IsFiniteSet(Runs)
  /\ MaxConcurrent \in Nat
  /\ MaxFaults \in Nat
  /\ Cancels \cap {"none", "own"} = {}

VARIABLES
  handler,   \* where the POST handler of r is
  running,   \* runManager.running
  rec,       \* Status of r's record in the runtimeStore
  entry,     \* Status of the entry object r's executor holds
  inMap,     \* which entry object runManager.runs holds for r
  ended,     \* the run's context is done
  exec,      \* where the goroutine running executeRun is
  outcome,   \* what executeManagedRun is about to return
  faulted,   \* a disk write failed on behalf of r
  cancel,    \* the DELETE handlers
  copy,      \* Status of the entry object a DELETE handler built
  server,    \* where runServe is
  sweep      \* what cancelAll has done with r

svVars == <<handler, running, rec, entry, inMap, ended, exec, outcome, faulted,
          cancel, copy, server, sweep>>

Final == {"completed", "failed", "canceled"}
Status == {"none", "running", "cancelled"} \cup Final

\* The executor still has to write the record.
Unwritten == {"start", "loop", "final", "finish"}
Executing == Unwritten \cup {"entry", "publish", "release"}

IdleCancel == [pc |-> "idle", run |-> "none", obj |-> "none", status |-> "none"]

SvInit ==
  /\ handler = [r \in Runs |-> "idle"]
  /\ running = 0
  /\ rec = [r \in Runs |-> "none"]
  /\ entry = [r \in Runs |-> "none"]
  /\ inMap = [r \in Runs |-> "none"]
  /\ ended = [r \in Runs |-> FALSE]
  /\ exec = [r \in Runs |-> "none"]
  /\ outcome = [r \in Runs |-> "none"]
  /\ faulted = [r \in Runs |-> FALSE]
  /\ cancel = [c \in Cancels |-> IdleCancel]
  /\ copy = [c \in Cancels |-> "none"]
  /\ server = [pc |-> "serving", timedOut |-> FALSE]
  /\ sweep = [r \in Runs |-> "no"]

\* The process has not left runServe.
Up == server.pc \notin {"drained", "exited"}

\* A disk write fails: the file system is the environment's.
Fault(r) ==
  /\ Cardinality({q \in Runs : faulted[q]}) < MaxFaults
  /\ faulted' = [faulted EXCEPT ![r] = TRUE]

-----------------------------------------------------------------------------
(* handleCreateRun *)

\* reserveSlot returns true.
Reserve(r) ==
  /\ server.pc = "serving" /\ handler[r] = "idle"
  /\ running < MaxConcurrent
  /\ running' = running + 1
  /\ handler' = [handler EXCEPT ![r] = "reserved"]
  /\ UNCHANGED <<rec, entry, inMap, ended, exec, outcome, faulted, cancel, copy, server, sweep>>

\* reserveSlot returns false: 429, before any record exists.
Reject(r) ==
  /\ server.pc = "serving" /\ handler[r] = "idle"
  /\ running >= MaxConcurrent
  /\ handler' = [handler EXCEPT ![r] = "rejected"]
  /\ UNCHANGED <<running, rec, entry, inMap, ended, exec, outcome, faulted, cancel, copy, server, sweep>>

\* runtimeStore.create puts the record into memory and flushes it.
CreateOk(r) ==
  /\ Up /\ handler[r] = "reserved"
  /\ rec' = [rec EXCEPT ![r] = "running"]
  /\ handler' = [handler EXCEPT ![r] = "created"]
  /\ UNCHANGED <<running, entry, inMap, ended, exec, outcome, faulted, cancel, copy, server, sweep>>

\* releaseSlot never goes below zero.
Released == IF running > 0 THEN running - 1 ELSE running

\* create fails and the handler answers 500 without giving its slot back.
CreateFailKeepsSlot(r) ==
  /\ Up /\ handler[r] = "reserved" /\ Fault(r)
  /\ rec' = [rec EXCEPT ![r] = "running"]
  /\ handler' = [handler EXCEPT ![r] = "rejected"]
  /\ UNCHANGED <<running, entry, inMap, ended, exec, outcome, cancel, copy, server, sweep>>

\* The flush inside create fails: the record stays in memory as "running", the
\* slot is given back and the client gets a 500.
CreateFail(r) ==
  /\ Up /\ handler[r] = "reserved" /\ Fault(r)
  /\ rec' = [rec EXCEPT ![r] = "running"]
  /\ running' = Released
  /\ handler' = [handler EXCEPT ![r] = "rejected"]
  /\ UNCHANGED <<entry, inMap, ended, exec, outcome, cancel, copy, server, sweep>>

\* launchReserved: the entry enters the map, whatever the map held, and the
\* goroutine starts; the handler answers 202.
Launch(r) ==
  /\ Up /\ handler[r] = "created"
  /\ entry' = [entry EXCEPT ![r] = "running"]
  /\ inMap' = [inMap EXCEPT ![r] = "own"]
  /\ exec' = [exec EXCEPT ![r] = "start"]
  /\ handler' = [handler EXCEPT ![r] = "launched"]
  /\ UNCHANGED <<running, rec, ended, outcome, faulted, cancel, copy, server, sweep>>

-----------------------------------------------------------------------------
(* executeRun and executeManagedRun *)

\* The request's timeout passes.
Deadline(r) ==
  /\ Up /\ exec[r] \in Executing /\ ~ended[r]
  /\ ended' = [ended EXCEPT ![r] = TRUE]
  /\ UNCHANGED <<handler, running, rec, entry, inMap, exec, outcome, faulted, cancel, copy, server, sweep>>

\* The goroutine of r goes from one place to the next.
Go(r, from, to) == Up /\ exec[r] = from /\ exec' = [exec EXCEPT ![r] = to]

\* saveRunCheckpoint("running").
StartCheckpoint(r) ==
  /\ Go(r, "start", "loop")
  /\ UNCHANGED <<handler, running, rec, entry, inMap, ended, outcome, faulted, cancel, copy, server, sweep>>

\* runner.Execute returns; "canceled" only when the context is done, while a run
\* that is cancelled late may still end in another state.
SvLoop(r) ==
  /\ Go(r, "loop", "final")
  /\ \E s \in Final :
       /\ s = "canceled" => ended[r]
       /\ outcome' = [outcome EXCEPT ![r] = s]
  /\ UNCHANGED <<handler, running, rec, entry, inMap, ended, faulted, cancel, copy, server, sweep>>

\* The final checkpoint, the usage rows and the plan are saved.
SaveFinal(r) ==
  /\ Go(r, "final", "finish")
  /\ UNCHANGED <<handler, running, rec, entry, inMap, ended, outcome, faulted, cancel, copy, server, sweep>>

\* One of the checkpoint, usage and plan writes fails: executeManagedRun returns
\* the error at once, before RunStore.finish.
SaveFault(r) ==
  /\ Go(r, "start", "entry") \/ Go(r, "final", "entry")
  /\ Fault(r)
  /\ outcome' = [outcome EXCEPT ![r] = "error"]
  /\ UNCHANGED <<handler, running, rec, entry, inMap, ended, cancel, copy, server, sweep>>

\* The executor returns without RunStore.finish.
FinishSkipped(r) ==
  /\ Go(r, "finish", "entry")
  /\ UNCHANGED <<handler, running, rec, entry, inMap, ended, outcome, faulted, cancel, copy, server, sweep>>

\* RunStore.finish overwrites the status, whatever it was.
Finish(r) ==
  /\ Go(r, "finish", "entry")
  /\ rec' = [rec EXCEPT ![r] = outcome[r]]
  /\ UNCHANGED <<handler, running, entry, inMap, ended, outcome, faulted, cancel, copy, server, sweep>>

\* The flush inside RunStore.finish fails after the record was changed.
FinishFault(r) ==
  /\ Go(r, "finish", "entry") /\ Fault(r)
  /\ rec' = [rec EXCEPT ![r] = outcome[r]]
  /\ outcome' = [outcome EXCEPT ![r] = "error"]
  /\ UNCHANGED <<handler, running, entry, inMap, ended, cancel, copy, server, sweep>>

\* runEntry.finish: a cancelled entry stays cancelled.
FinishedStatus(old, new) == IF old = "cancelled" THEN old ELSE new

\* executeRun reports the outcome to its entry.
EntryFinish(r) ==
  LET failure == IF ended[r] \/ entry[r] = "cancelled" THEN "cancelled" ELSE "failed"
      status == IF outcome[r] = "error" THEN failure ELSE outcome[r]
  IN  /\ Go(r, "entry", "publish")
      /\ entry' = [entry EXCEPT ![r] = FinishedStatus(entry[r], status)]
      /\ UNCHANGED <<handler, running, rec, inMap, ended, outcome, faulted, cancel, copy, server, sweep>>

\* mgr.runs.Store(entry.ID, entry).
Publish(r) ==
  /\ Go(r, "publish", "release")
  /\ inMap' = [inMap EXCEPT ![r] = "own"]
  /\ UNCHANGED <<handler, running, rec, entry, ended, outcome, faulted, cancel, copy, server, sweep>>

\* The deferred releaseSlot and wg.Done.
Release(r) ==
  /\ Go(r, "release", "done")
  /\ running' = Released
  /\ UNCHANGED <<handler, rec, entry, inMap, ended, outcome, faulted, cancel, copy, server, sweep>>

-----------------------------------------------------------------------------
(* handleCancelRun *)

\* runManager.get: the entry in the map, or a new one built from the record,
\* which has no cancel function.
CancelGet(c) ==
  /\ server.pc = "serving" /\ cancel[c].pc = "idle"
  /\ \E r \in Runs :
       /\ rec[r] # "none"
       /\ cancel' = [cancel EXCEPT ![c] =
            [pc |-> "mark", run |-> r, obj |-> IF inMap[r] = "none" THEN c ELSE inMap[r],
             status |-> "none"]]
       /\ copy' = IF inMap[r] = "none" THEN [copy EXCEPT ![c] = rec[r]] ELSE copy
  /\ UNCHANGED <<handler, running, rec, entry, inMap, ended, exec, outcome, faulted, server, sweep>>

\* The status of the entry object obj of run r.
EntryStatus(r, obj) == IF obj = "own" THEN entry[r] ELSE copy[obj]

\* markCancelled that forgets to call the cancel function.
MarkCancelledOnly(r, obj) ==
  IF EntryStatus(r, obj) # "running"
  THEN UNCHANGED <<entry, copy, ended>>
  ELSE /\ entry' = IF obj = "own" THEN [entry EXCEPT ![r] = "cancelled"] ELSE entry
       /\ copy' = IF obj = "own" THEN copy ELSE [copy EXCEPT ![obj] = "cancelled"]
       /\ UNCHANGED ended

\* markCancelled: a running entry becomes cancelled and its context, if the
\* entry carries one, is cancelled.
MarkCancelled(r, obj) ==
  IF EntryStatus(r, obj) # "running"
  THEN UNCHANGED <<entry, copy, ended>>
  ELSE /\ entry' = IF obj = "own" THEN [entry EXCEPT ![r] = "cancelled"] ELSE entry
       /\ copy' = IF obj = "own" THEN copy ELSE [copy EXCEPT ![obj] = "cancelled"]
       /\ ended' = IF obj = "own" THEN [ended EXCEPT ![r] = TRUE] ELSE ended

\* What markCancelled returns.
MarkedStatus(r, obj) ==
  IF EntryStatus(r, obj) = "running" THEN "cancelled" ELSE EntryStatus(r, obj)

CancelMark(c) ==
  /\ Up /\ cancel[c].pc = "mark"
  /\ MarkCancelled(cancel[c].run, cancel[c].obj)
  /\ cancel' = [cancel EXCEPT ![c] =
       [@ EXCEPT !.pc = "store", !.status = MarkedStatus(cancel[c].run, cancel[c].obj)]]
  /\ UNCHANGED <<handler, running, rec, inMap, exec, outcome, faulted, server, sweep>>

\* store.finish(id, "cancelled"), whose error the handler ignores.
CancelStore(c) ==
  /\ Up /\ cancel[c].pc = "store"
  /\ rec' = IF cancel[c].status = "cancelled"
            THEN [rec EXCEPT ![cancel[c].run] = "cancelled"] ELSE rec
  /\ cancel' = [cancel EXCEPT ![c].pc = "publish"]
  /\ UNCHANGED <<handler, running, entry, inMap, ended, exec, outcome, faulted, copy, server, sweep>>

\* mgr.runs.Store(id, entry) and the answer.
CancelPublish(c) ==
  /\ Up /\ cancel[c].pc = "publish"
  /\ inMap' = [inMap EXCEPT ![cancel[c].run] = cancel[c].obj]
  /\ cancel' = [cancel EXCEPT ![c].pc = "answered"]
  /\ UNCHANGED <<handler, running, rec, entry, ended, exec, outcome, faulted, copy, server, sweep>>

-----------------------------------------------------------------------------
(* runServe on a signal *)

HandlersIdle ==
  /\ \A r \in Runs : handler[r] \notin {"reserved", "created"}
  /\ \A c \in Cancels : cancel[c].pc \in {"idle", "answered"}

\* SIGINT or SIGTERM: server.Shutdown stops accepting requests.
Signal ==
  /\ server.pc = "serving"
  /\ server' = [server EXCEPT !.pc = "stopping"]
  /\ UNCHANGED <<handler, running, rec, entry, inMap, ended, exec, outcome, faulted, cancel, copy, sweep>>

\* server.Shutdown returns: its handlers are done, or its 30 seconds are over.
ShutdownReturns ==
  /\ server.pc = "stopping"
  /\ \/ HandlersIdle /\ server' = [server EXCEPT !.pc = "closed"]
     \/ server' = [pc |-> "closed", timedOut |-> TRUE]
  /\ UNCHANGED <<handler, running, rec, entry, inMap, ended, exec, outcome, faulted, cancel, copy, sweep>>

\* cancelAll alone, without serveCancel.
CancelRootSkipped ==
  /\ server.pc = "closed"
  /\ server' = [server EXCEPT !.pc = "sweeping"]
  /\ sweep' = [r \in Runs |-> IF inMap[r] = "none" THEN "no" ELSE "due"]
  /\ UNCHANGED <<handler, running, rec, entry, inMap, ended, exec, outcome, faulted, cancel, copy>>

\* serveCancel ends the context every run's context is derived from, and
\* cancelAll begins to range over the map.
CancelRoot ==
  /\ server.pc = "closed"
  /\ server' = [server EXCEPT !.pc = "sweeping"]
  /\ ended' = [r \in Runs |-> TRUE]
  /\ sweep' = [r \in Runs |-> IF inMap[r] = "none" THEN "no" ELSE "due"]
  /\ UNCHANGED <<handler, running, rec, entry, inMap, exec, outcome, faulted, cancel, copy>>

\* cancelAll marks one entry; an entry stored during the range may be visited too.
SweepMark(r) ==
  /\ server.pc = "sweeping" /\ \A q \in Runs : sweep[q] # "marked"
  /\ sweep[r] \in {"due", "no"} /\ inMap[r] # "none"
  /\ MarkCancelled(r, inMap[r])
  /\ sweep' = [sweep EXCEPT ![r] =
                 IF MarkedStatus(r, inMap[r]) = "cancelled" THEN "marked" ELSE "done"]
  /\ UNCHANGED <<handler, running, rec, inMap, exec, outcome, faulted, cancel, server>>

\* and writes its record.
SweepStore(r) ==
  /\ server.pc = "sweeping" /\ sweep[r] = "marked"
  /\ rec' = [rec EXCEPT ![r] = "cancelled"]
  /\ sweep' = [sweep EXCEPT ![r] = "done"]
  /\ UNCHANGED <<handler, running, entry, inMap, ended, exec, outcome, faulted, cancel, copy, server>>

SweepEnd ==
  /\ server.pc = "sweeping" /\ \A r \in Runs : sweep[r] \in {"no", "done"}
  /\ server' = [server EXCEPT !.pc = "waiting"]
  /\ UNCHANGED <<handler, running, rec, entry, inMap, ended, exec, outcome, faulted, cancel, copy, sweep>>

\* runManager.wait that does not wait for the goroutines.
WaitDoneEarly ==
  /\ server.pc = "waiting"
  /\ server' = [server EXCEPT !.pc = "drained"]
  /\ UNCHANGED <<handler, running, rec, entry, inMap, ended, exec, outcome, faulted, cancel, copy, sweep>>

\* runManager.wait returns nil: every goroutine has called wg.Done.
WaitDone ==
  /\ server.pc = "waiting" /\ \A r \in Runs : exec[r] \notin Executing
  /\ server' = [server EXCEPT !.pc = "drained"]
  /\ UNCHANGED <<handler, running, rec, entry, inMap, ended, exec, outcome, faulted, cancel, copy, sweep>>

\* runManager.wait gives up when the 30 seconds Shutdown shares with it are over.
WaitTimeout ==
  /\ server.pc = "waiting"
  /\ server' = [pc |-> "exited", timedOut |-> TRUE]
  /\ UNCHANGED <<handler, running, rec, entry, inMap, ended, exec, outcome, faulted, cancel, copy, sweep>>

-----------------------------------------------------------------------------
PostStep(r) == CreateOk(r) \/ CreateFail(r) \/ Launch(r)

ExecStep(r) ==
  \/ StartCheckpoint(r) \/ SaveFinal(r) \/ SaveFault(r) \/ Finish(r) \/ FinishFault(r)
  \/ EntryFinish(r) \/ Publish(r) \/ Release(r)

DeleteStep(c) == CancelMark(c) \/ CancelStore(c) \/ CancelPublish(c)

ServerStep ==
  \/ CancelRoot \/ SweepEnd \/ WaitDone
  \/ \E r \in Runs : SweepMark(r) \/ SweepStore(r)

SvNext ==
  \/ \E r \in Runs : \/ Reserve(r) \/ Reject(r) \/ Deadline(r)
                     \/ PostStep(r) \/ ExecStep(r) \/ SvLoop(r)
  \/ \E c \in Cancels : CancelGet(c) \/ DeleteStep(c)
  \/ Signal \/ ShutdownReturns \/ ServerStep \/ WaitTimeout

SvSpec == SvInit /\ [][SvNext]_svVars

(***************************************************************************)
(* Fairness: goroutines that are not blocked are scheduled, a loop whose   *)
(* context is done returns (AgentLoop), and an idle server's Shutdown      *)
(* returns.  A loop whose context is live may take for ever, clients need  *)
(* not send requests, and no timeout is ever obliged to fire.              *)
(***************************************************************************)
SvFairness ==
  /\ \A r \in Runs : /\ WF_svVars(PostStep(r))
                     /\ WF_svVars(ExecStep(r))
                     /\ WF_svVars(SvLoop(r) /\ ended[r])
  /\ \A c \in Cancels : WF_svVars(DeleteStep(c))
  /\ WF_svVars(ShutdownReturns /\ HandlersIdle)
  /\ WF_svVars(ServerStep)

SvFairSpec == SvSpec /\ SvFairness

-----------------------------------------------------------------------------
(* What GET /v1/runs/{id} reports. *)
Shown(r) == IF inMap[r] = "none" THEN rec[r] ELSE EntryStatus(r, inMap[r])

\* The types of the variables: in particular reserveSlot and releaseSlot keep
\* the counter between zero and the configured maximum.
SvTypeOK ==
  /\ handler \in [Runs -> {"idle", "reserved", "created", "launched", "rejected"}]
  /\ running \in 0..MaxConcurrent
  /\ rec \in [Runs -> Status]
  /\ entry \in [Runs -> Status]
  /\ inMap \in [Runs -> {"none", "own"} \cup Cancels]
  /\ ended \in [Runs -> BOOLEAN]
  /\ exec \in [Runs -> Executing \cup {"none", "done"}]
  /\ outcome \in [Runs -> Final \cup {"none", "error"}]
  /\ faulted \in [Runs -> BOOLEAN]
  /\ cancel \in [Cancels -> [pc: {"idle", "mark", "store", "publish", "answered"},
                             run: Runs \cup {"none"},
                             obj: {"none", "own"} \cup Cancels,
                             status: Status]]
  /\ copy \in [Cancels -> Status]
  /\ server \in [pc: {"serving", "stopping", "closed", "sweeping", "waiting", "drained", "exited"},
                 timedOut: BOOLEAN]
  /\ sweep \in [Runs -> {"no", "due", "marked", "done"}]

HoldsSlot(r) == handler[r] \in {"reserved", "created"} \/ exec[r] \in Executing

\* The counter of launchMu is exactly the number of requests between their
\* reserveSlot and their releaseSlot: no error path of handleCreateRun or of the
\* executor leaks a slot or gives one back twice.
SlotsCounted == running = Cardinality({r \in Runs : HoldsSlot(r)})

\* runEntry.finish and markCancelled: once the executor's entry is cancelled, no
\* later step of the executor or of anyone else changes that.
CancelSticks ==
  [][\A r \in Runs : entry[r] = "cancelled" => entry'[r] = "cancelled"]_svVars

\* A record says "running" only while a handler is about to launch the run or an
\* executor is about to finish it, unless a disk write failed for that run: a
\* rejected request leaves no record that says so.
RunningHasOwner ==
  \A r \in Runs : rec[r] = "running" =>
    faulted[r] \/ handler[r] = "created" \/ exec[r] \in Unwritten

\* When the shutdown ends without running out of its 30 seconds, no executor is
\* left, no view of any run says "running" (but for records a failed write
\* orphaned), even of a run whose entry a racing DELETE had replaced in the map.
DrainSettlesRuns ==
  server.pc = "drained" /\ ~server.timedOut =>
    \A r \in Runs : /\ exec[r] \notin Executing
                    /\ Shown(r) = "running" => faulted[r] /\ inMap[r] = "none"
                    /\ rec[r] = "running" => faulted[r]

\* A DELETE that reaches the executor's entry stops the run: its goroutine
\* finishes and gives its slot back, unless the process ends first.  An entry
\* stays cancelled and a goroutine done, so from some moment on it is so for all.
CancelStopsRun ==
  <>[](\A r \in Runs : entry[r] = "cancelled" => exec[r] = "done" \/ ~Up)

\* A signalled server gets out of runServe without any timeout firing, even when
\* the map no longer holds the entry cancelAll would have to cancel.
ShutdownEnds == <>[](server.pc # "serving" => ~Up)
=============================================================================
