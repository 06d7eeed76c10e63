------------------------------ MODULE RunFiles ------------------------------
(***************************************************************************)
(* What the commands brain run, brain cancel and brain resume leave on     *)
(* disk: runs.json (runtimeStore, cmd/runtime_store.go) and the checkpoints *)
(* of store.json (FileCheckpointStore, persistence/file_store.go).         *)
(*                                                                         *)
(* Every command is a process of its own.  It loads both files when it     *)
(* starts, changes its image in memory, and each change rewrites the whole *)
(* file from that image by a rename, so a crash leaves the old file or the *)
(* new one.  Nothing locks the files between processes.  A run is named by *)
(* the process that created it; its StoreRunID, drawn from the counter in  *)
(* runs.json, is the key of its checkpoint.                                *)
(***************************************************************************)
EXTENDS Integers, FiniteSets

CONSTANTS
  Runners,   \* brain run processes, and the runs they create
  Cancels,   \* brain cancel processes
  Forces,    \* brain cancel --force processes
  Resumes,   \* brain resume processes
  Overlap    \* FALSE: no command is in progress while a brain run sets up its record

ASSUME RunFilesAssumption ==
  /\ IsFiniteSet(Runners)
  /\ Overlap \in BOOLEAN

Cancellers == Cancels \cup Forces
Procs == Runners \cup Cancellers \cup Resumes

VARIABLES
  runsFile,   \* runs.json: the id counter, and status and StoreRunID of each run
  storeFile,  \* store.json: the checkpoint stored under each StoreRunID
  runsMem,    \* runtimeStore.db of each process
  storeMem,   \* FileStore.db of each process
  pc,         \* where each process is
  target,     \* the run a process works on
  exit,       \* how a process ended
  outcome     \* the state the agent loop of a process ended in

vars == <<runsFile, storeFile, runsMem, storeMem, pc, target, exit, outcome>>

Final == {"completed", "failed", "canceled"}
Status == {"none", "running", "crashed"} \cup Final
StoreIDs == 1..(Cardinality(Runners) + 1)
NoRun == "none"
NoCheckpoint == [state |-> "none", turn |-> <<NoRun, "none">>]

EmptyRuns == [next |-> 1, status |-> [r \in Runners |-> "none"], sid |-> [r \in Runners |-> 0]]
EmptyStore == [i \in StoreIDs |-> NoCheckpoint]

Init ==
  /\ runsFile = EmptyRuns /\ storeFile = EmptyStore
  /\ runsMem = [p \in Procs |-> EmptyRuns] /\ storeMem = [p \in Procs |-> EmptyStore]
  /\ pc = [p \in Procs |-> "idle"]
  /\ target = [p \in Procs |-> NoRun]
  /\ exit = [p \in Procs |-> "none"]
  /\ outcome = [p \in Procs |-> "none"]

Alive(p) == pc[p] \notin {"idle", "done"}
SettingUp(p) == p \in Runners /\ pc[p] \in {"open", "create"}
Go(p, from, to) == pc[p] = from /\ pc' = [pc EXCEPT ![p] = to]

-----------------------------------------------------------------------------
(* The two stores, as operations of process p. *)

\* update and flushLocked: the image changes and replaces the file.
WriteRuns(p, db) ==
  /\ runsMem' = [runsMem EXCEPT ![p] = db]
  /\ runsFile' = db

\* runtimeStore.create: a new running record under the next StoreRunID.
Create(p) ==
  WriteRuns(p, [next   |-> runsMem[p].next + 1,
                status |-> [runsMem[p].status EXCEPT ![p] = "running"],
                sid    |-> [runsMem[p].sid EXCEPT ![p] = runsMem[p].next]])

\* runtimeStore.finish overwrites the status, whatever it was.
FinishRun(p, r, s) == WriteRuns(p, [runsMem[p] EXCEPT !.status = [@ EXCEPT ![r] = s]])

\* FileCheckpointStore.Save: a turn that is already stored is left alone.
SaveCheckpoint(p, id, cp) ==
  IF storeMem[p][id].turn = cp.turn
  THEN UNCHANGED <<storeMem, storeFile>>
  ELSE /\ storeMem' = [storeMem EXCEPT ![p] = [@ EXCEPT ![id] = cp]]
       /\ storeFile' = storeMem'[p]

\* The checkpoint of run r as p sees it.
Checkpoint(p, r) == storeMem[p][runsMem[p].sid[r]]

-----------------------------------------------------------------------------
(* Starting a process: Open reads store.json, then runs.json. *)

OpenStore(p) ==
  /\ Go(p, "idle", "open")
  /\ Overlap \/ \A q \in Procs : IF p \in Runners THEN ~Alive(q) ELSE ~SettingUp(q)
  /\ storeMem' = [storeMem EXCEPT ![p] = storeFile]
  /\ UNCHANGED <<runsFile, storeFile, runsMem, target, exit, outcome>>

\* A process that starts from an empty run list instead of reading runs.json.
OpenRunsFresh(p) ==
  /\ Go(p, "open", IF p \in Runners THEN "create" ELSE "check")
  /\ runsMem' = [runsMem EXCEPT ![p] = EmptyRuns]
  /\ UNCHANGED <<runsFile, storeFile, storeMem, target, exit, outcome>>

OpenRuns(p) ==
  /\ Go(p, "open", IF p \in Runners THEN "create" ELSE "check")
  /\ runsMem' = [runsMem EXCEPT ![p] = runsFile]
  /\ UNCHANGED <<runsFile, storeFile, storeMem, target, exit, outcome>>

\* The images of a process are gone with it.
LoseImages(p) ==
  /\ runsMem' = [runsMem EXCEPT ![p] = EmptyRuns]
  /\ storeMem' = [storeMem EXCEPT ![p] = EmptyStore]

\* The process is killed; what it had written stays.
Crash(p) ==
  /\ Alive(p)
  /\ pc' = [pc EXCEPT ![p] = "done"]
  /\ exit' = [exit EXCEPT ![p] = "killed"]
  /\ target' = [target EXCEPT ![p] = NoRun]
  /\ outcome' = [outcome EXCEPT ![p] = "none"]
  /\ LoseImages(p)
  /\ UNCHANGED <<runsFile, storeFile>>

-----------------------------------------------------------------------------
(* brain run *)

RunCreate(p) ==
  /\ p \in Runners /\ Go(p, "create", "start")
  /\ Create(p)
  /\ target' = [target EXCEPT ![p] = p]
  /\ UNCHANGED <<storeFile, storeMem, exit, outcome>>

\* saveRunCheckpoint("running") stores the first checkpoint of the run.
RunStart(p) ==
  /\ Go(p, "start", "loop")
  /\ SaveCheckpoint(p, runsMem[p].sid[p], [state |-> "running", turn |-> <<p, "start">>])
  /\ UNCHANGED <<runsFile, runsMem, target, exit, outcome>>

\* setCheckpoint and each appendEvent of the run rewrite runs.json.
RunEvent(p) ==
  /\ p \in Runners /\ pc[p] \in {"start", "loop", "finish"}
  /\ WriteRuns(p, runsMem[p])
  /\ UNCHANGED <<storeFile, storeMem, pc, target, exit, outcome>>

\* runner.Execute returns.  Its error branch needs a run that cannot be started,
\* and executeManagedRun has just made this one.
LoopEnds(p) ==
  /\ Go(p, "loop", "save")
  /\ \E s \in Final : outcome' = [outcome EXCEPT ![p] = s]
  /\ UNCHANGED <<runsFile, storeFile, runsMem, storeMem, target, exit>>

\* The record is finished before the final checkpoint is stored.
RunFinishFirst(p) ==
  /\ p \in Runners /\ pc[p] = "save" /\ pc' = [pc EXCEPT ![p] = "done"]
  /\ FinishRun(p, p, outcome[p])
  /\ exit' = [exit EXCEPT ![p] = "ok"]
  /\ UNCHANGED <<storeFile, storeMem, target, outcome>>

\* The final checkpoint comes before the record; the usage and plan rows that
\* follow rewrite store.json with the same checkpoints.
RunSave(p) ==
  /\ p \in Runners /\ Go(p, "save", "finish")
  /\ SaveCheckpoint(p, runsMem[p].sid[p], [state |-> outcome[p], turn |-> <<p, "last">>])
  /\ UNCHANGED <<runsFile, runsMem, target, exit, outcome>>

\* RunStore.finish records the outcome.
RunFinish(p) ==
  /\ p \in Runners /\ Go(p, "finish", "done")
  /\ FinishRun(p, p, outcome[p])
  /\ exit' = [exit EXCEPT ![p] = "ok"]
  /\ UNCHANGED <<storeFile, storeMem, target, outcome>>

-----------------------------------------------------------------------------
(* brain cancel and brain resume *)

\* The command gives up: the run is unknown, or its state forbids it.
Refuse(p, r) ==
  /\ pc' = [pc EXCEPT ![p] = "done"]
  /\ exit' = [exit EXCEPT ![p] = "refused"]
  /\ target' = [target EXCEPT ![p] = r]
  /\ LoseImages(p)
  /\ UNCHANGED <<runsFile, storeFile, outcome>>

Known(p, r) == runsMem[p].status[r] # "none"

\* runCancel trusts the checkpoint's state, and the record's without one.
CurrentState(p, r) ==
  IF Checkpoint(p, r) = NoCheckpoint THEN runsMem[p].status[r] ELSE Checkpoint(p, r).state

NewState(p) == IF p \in Forces THEN "crashed" ELSE "canceled"

CancelRefused(p) ==
  /\ p \in Cancellers /\ pc[p] = "check"
  /\ \E r \in Runners : /\ Known(p, r) => CurrentState(p, r) \in Final
                        /\ Refuse(p, r)

\* The loaded checkpoint is saved again with the new state and its own turn.
CancelSave(p) ==
  /\ p \in Cancellers /\ Go(p, "check", "cancel")
  /\ \E r \in Runners :
       /\ Known(p, r) /\ CurrentState(p, r) \notin Final
       /\ target' = [target EXCEPT ![p] = r]
       /\ IF Checkpoint(p, r) = NoCheckpoint
          THEN UNCHANGED <<storeMem, storeFile>>
          ELSE SaveCheckpoint(p, runsMem[p].sid[r], [Checkpoint(p, r) EXCEPT !.state = NewState(p)])
  /\ UNCHANGED <<runsFile, runsMem, exit, outcome>>

CancelFinish(p) ==
  /\ Go(p, "cancel", "done")
  /\ FinishRun(p, target[p], NewState(p))
  /\ exit' = [exit EXCEPT ![p] = "ok"]
  /\ UNCHANGED <<storeFile, storeMem, target, outcome>>

\* runResume asks for a checkpoint in state paused or crashed.  No command ever
\* stores one, so the rest of runResume is not reached from these files.
ResumeRefused(p) ==
  /\ p \in Resumes /\ pc[p] = "check"
  /\ \E r \in Runners :
       /\ Known(p, r) => Checkpoint(p, r).state \notin {"paused", "crashed"}
       /\ Refuse(p, r)

Next ==
  \E p \in Procs :
    \/ OpenStore(p) \/ OpenRuns(p) \/ Crash(p)
    \/ RunCreate(p) \/ RunStart(p) \/ RunEvent(p) \/ LoopEnds(p) \/ RunSave(p) \/ RunFinish(p)
    \/ CancelRefused(p) \/ CancelSave(p) \/ CancelFinish(p) \/ ResumeRefused(p)

Spec == Init /\ [][Next]_vars

-----------------------------------------------------------------------------
RunsDB == [next: StoreIDs, status: [Runners -> Status], sid: [Runners -> {0} \cup StoreIDs]]
CheckpointType == [state: Status, turn: (Runners \cup {NoRun}) \X {"none", "start", "last"}]
StoreDB == [StoreIDs -> CheckpointType]

\* The types of the variables.
TypeOK ==
  /\ runsFile \in RunsDB /\ storeFile \in StoreDB
  /\ runsMem \in [Procs -> RunsDB] /\ storeMem \in [Procs -> StoreDB]
  /\ pc \in [Procs -> {"idle", "open", "create", "start", "loop", "save", "finish",
                       "check", "cancel", "done"}]
  /\ target \in [Procs -> Runners \cup {NoRun}]
  /\ exit \in [Procs -> {"none", "ok", "refused", "killed"}]
  /\ outcome \in [Procs -> Final \cup {"none"}]

\* executeManagedRun's order of writes, whatever step a process dies at: a record
\* that says completed or failed has a checkpoint that says the same, so a crash
\* leaves the record behind the checkpoint and never ahead of it.
RecordNotAhead ==
  \A r \in Runners : runsFile.status[r] \in {"completed", "failed"} =>
    /\ storeFile[runsFile.sid[r]].state = runsFile.status[r]
    /\ storeFile[runsFile.sid[r]].turn[1] = r

\* A record that reached runs.json is never lost by a later rewrite of the file,
\* a cancel that loaded its image before the run went on included.
RecordsKept ==
  [][\A r \in Runners : runsFile.status[r] # "none" => runsFile'.status[r] # "none"]_vars

\* cmd_cancel.go: "Update checkpoint to canceled (or crashed if --force)": after a
\* brain cancel that exits with 0, the run's checkpoint, if it has one, says so.
CancelUpdatesCheckpoint ==
  \A p \in Cancellers : exit[p] = "ok" =>
    LET cp == storeFile[runsFile.sid[target[p]]] IN
    cp # NoCheckpoint => cp.state = NewState(p)
=============================================================================
