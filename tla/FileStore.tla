------------------------------ MODULE FileStore ------------------------------
(***************************************************************************)
(* The persistence drivers: plans with their delta journal, checkpoints    *)
(* and the resume coordinator, the usage ledger, artifacts with their      *)
(* metadata, and the id counter of signal traces. A "file" store changes   *)
(* its image under one mutex and rewrites the whole file (flush); flush    *)
(* may fail, and the process may die, after which the file is loaded       *)
(* again. A "mem" store is the same operations without a file, and checks  *)
(* plan versions. Payloads, provenance and timestamps are left out.        *)
(***************************************************************************)
EXTENDS Integers, Sequences, FiniteSets, FiniteSetsExt

CONSTANTS FsKinds,                 \* the drivers: a subset of {"mem", "file"}
          FsCallers, FsRuns, FsTurns, FsKeys, FsRefs,
          FsMaxAttempts,           \* MaxResumeAttempts
          FsTopics,                \* the parts of the store the behaviours exercise
          FsMaxOps, FsMaxFailures, FsMaxCrashes   \* bounds of the model

\* The cap is a positive constant of the code; the callers are goroutines.
ASSUME FsAssumption == FsMaxAttempts \in Nat \ {0} /\ IsFiniteSet(FsCallers)

VARIABLES fsKind, fsTopic,
          fsMem,      \* fileDB: [plans, deltas, cps, usage, meta, traces]
          fsDisk,     \* what the file holds
          fsNext,     \* nextID (idSeq + 1 for the mem store)
          fsFiles,    \* the refs whose content file exists
          fsCall,     \* caller -> [pc, ...] of an operation of several steps
          fsDone,     \* history: what callers were told had succeeded
          fsCount     \* [ops, failures, crashes] so far

fsVars == <<fsKind, fsTopic, fsMem, fsDisk, fsNext, fsFiles, fsCall, fsDone, fsCount>>

FsNoCp == [turn |-> "none", attempts |-> 0, state |-> "none"]
FsEmpty == [plans |-> {}, deltas |-> <<>>, cps |-> [r \in FsRuns |-> FsNoCp],
            usage |-> <<>>, meta |-> [f \in FsRefs |-> -1], traces |-> {}]
FsIdle == [pc |-> "idle", id |-> 0, version |-> 0, run |-> "none", ref |-> "none"]

FsInit == /\ fsKind \in FsKinds /\ fsTopic \in FsTopics
          /\ fsMem = FsEmpty /\ fsDisk = FsEmpty /\ fsNext = 1 /\ fsFiles = {}
          /\ fsCall = [c \in FsCallers |-> FsIdle]
          /\ fsDone = [plans |-> <<>>, deltas |-> <<>>, traces |-> <<>>, usage |-> {},
                       saved |-> {}, resumes |-> [r \in FsRuns |-> 0],
                       puts |-> [f \in FsRefs |-> 0], decs |-> [f \in FsRefs |-> 0]]
          /\ fsCount = [ops |-> 0, failures |-> 0, crashes |-> 0]

----------------------------------------------------------------------------
FsPlan(m, id) == CHOOSE p \in m.plans : p.id = id
FsHasPlan(m, id) == \E p \in m.plans : p.id = id
FsSetPlan(m, p) == [m EXCEPT !.plans = {q \in @ : q.id # p.id} \cup {p}]

\* A mutation that was applied to the image is answered once the file holds
\* it. When flush fails the caller gets an error and the image keeps the change.
FsCommitOr(m, done, failed) ==
    \/ /\ fsMem' = m
       /\ fsDisk' = IF fsKind = "file" THEN m ELSE fsDisk
       /\ fsDone' = done
       /\ fsCount' = [fsCount EXCEPT !.ops = @ + 1]
    \/ /\ fsKind = "file" /\ fsCount.failures < FsMaxFailures
       /\ fsMem' = m
       /\ fsCount' = [fsCount EXCEPT !.ops = @ + 1, !.failures = @ + 1]
       /\ fsDone' = failed
       /\ UNCHANGED fsDisk

FsCommit(m, done) == FsCommitOr(m, done, fsDone)

FsMay(topic) == fsTopic = topic /\ fsCount.ops < FsMaxOps
FsSame == UNCHANGED <<fsKind, fsTopic>>

\* The change that Create makes to the image: the next id, version 1.
FsCreated(m) ==
    [m EXCEPT !.plans = @ \cup {[id |-> fsNext, version |-> 1, archived |-> FALSE, last |-> 0]}]

FsCreate ==
    /\ FsMay("plans")
    /\ fsNext' = fsNext + 1
    /\ FsCommit(FsCreated(fsMem), [fsDone EXCEPT !.plans = Append(@, fsNext)])
    /\ FsSame /\ UNCHANGED <<fsFiles, fsCall>>

\* A caller that wants to change a plan reads it first ...
FsGetPlan(c) ==
    /\ FsMay("plans") /\ fsCall[c].pc = "idle"
    /\ \E p \in fsMem.plans : fsCall' = [fsCall EXCEPT ![c] =
          [FsIdle EXCEPT !.pc = "update", !.id = p.id, !.version = p.version]]
    /\ FsSame /\ UNCHANGED <<fsMem, fsDisk, fsNext, fsFiles, fsDone, fsCount>>

\* Mutant: the version test is left out.
FsAnyVersion(p, version) == TRUE

\* The optimistic lock of MemPlanStore.Update, which FilePlanStore lacks.
FsVersionFits(p, version) == fsKind = "mem" => version = p.version + 1

\* ... and sends a delta for the version it saw. Update refuses an unknown or
\* archived plan, then draws an id, appends the delta and moves the snapshot.
FsUpdate(c) ==
    /\ fsCall[c].pc = "update"
    /\ fsCall' = [fsCall EXCEPT ![c] = FsIdle]
    /\ LET id == fsCall[c].id  v == fsCall[c].version + 1 IN
       IF FsHasPlan(fsMem, id) /\ ~FsPlan(fsMem, id).archived
             /\ FsVersionFits(FsPlan(fsMem, id), v)
       THEN /\ fsNext' = fsNext + 1
            /\ FsCommit([FsSetPlan(fsMem, [FsPlan(fsMem, id) EXCEPT !.version = v, !.last = fsNext])
                            EXCEPT !.deltas = Append(@, [id |-> fsNext, plan |-> id, version |-> v])],
                        [fsDone EXCEPT !.deltas = Append(@, [id |-> fsNext, plan |-> id, version |-> v])])
       ELSE UNCHANGED <<fsMem, fsDisk, fsNext, fsDone, fsCount>>
    /\ FsSame /\ UNCHANGED fsFiles

FsArchive ==
    /\ FsMay("plans")
    /\ \E p \in fsMem.plans : FsCommit(FsSetPlan(fsMem, [p EXCEPT !.archived = TRUE]), fsDone)
    /\ FsSame /\ UNCHANGED <<fsNext, fsFiles, fsCall>>

\* SignalTraceStore.Save of a trace without an id: the counter is advanced
\* first and its new value taken, where Create and Update take the old one.
FsSaveTrace ==
    /\ FsMay("plans") /\ fsKind = "file"
    /\ fsNext' = fsNext + 1
    /\ FsCommit([fsMem EXCEPT !.traces = @ \cup {fsNext + 1}],
                [fsDone EXCEPT !.traces = Append(@, fsNext + 1)])
    /\ FsSame /\ UNCHANGED <<fsFiles, fsCall>>

----------------------------------------------------------------------------
\* Mutant: a replayed key is written again.
FsNeverKnown(rec) == FALSE

\* The idempotency test of the ledger: a key that is in the image is known.
FsKnownKey(rec) == \E i \in 1..Len(fsMem.usage) : fsMem.usage[i].key = rec.key

\* UsageLedger.Record. A known key is answered without a flush.
FsRecord ==
    /\ FsMay("ledger")
    /\ \E k \in FsKeys, r \in FsRuns :
         LET rec == [key |-> k, run |-> r]
             done == [fsDone EXCEPT !.usage = @ \cup {k}]
         IN IF FsKnownKey(rec)
            THEN /\ fsDone' = done
                 /\ fsCount' = [fsCount EXCEPT !.ops = @ + 1]
                 /\ UNCHANGED <<fsMem, fsDisk>>
            ELSE FsCommit([fsMem EXCEPT !.usage = Append(@, rec)], done)
    /\ FsSame /\ UNCHANGED <<fsNext, fsFiles, fsCall>>

----------------------------------------------------------------------------
FsTerminal(state) == state \in {"Completed", "Failed", "Cancelled"}

\* The change of RunCheckpointStore.Save: the turn already stored is a no-op; any
\* other replaces the row, with the resume counter the caller passes (none).
FsSavedCp(m, r, t, st) ==
    IF m.cps[r].turn = t THEN m
    ELSE [m EXCEPT !.cps[r] = [turn |-> t, attempts |-> 0, state |-> st]]

FsSaveCp ==
    /\ FsMay("resume")
    /\ \E r \in FsRuns, t \in FsTurns, st \in {"running", "Completed"} :
         LET done == [fsDone EXCEPT !.saved = {s \in @ : s[1] # r} \cup {<<r, t>>}] IN
         IF fsMem.cps[r].turn = t
         THEN /\ fsDone' = done
              /\ fsCount' = [fsCount EXCEPT !.ops = @ + 1]
              /\ UNCHANGED <<fsMem, fsDisk>>
         ELSE FsCommitOr(FsSavedCp(fsMem, r, t, st),
                         [done EXCEPT !.resumes[r] = 0], [fsDone EXCEPT !.resumes[r] = 0])
    /\ FsSame /\ UNCHANGED <<fsNext, fsFiles, fsCall>>

\* Mutant: the cap is not tested.
FsUncapped(cp) == cp.turn # "none" /\ ~FsTerminal(cp.state)

\* What Resume and CanResume ask of the checkpoint.
FsResumable(cp) == /\ cp.turn # "none" /\ ~FsTerminal(cp.state)
                   /\ cp.attempts < FsMaxAttempts

\* Resume: the read and its tests, then MarkResumeAttempt, which increments the
\* row it finds now.
FsResumeGet(c) ==
    /\ FsMay("resume") /\ fsCall[c].pc = "idle"
    /\ \E r \in FsRuns :
         /\ FsResumable(fsMem.cps[r])
         /\ fsCall' = [fsCall EXCEPT ![c] = [FsIdle EXCEPT !.pc = "mark", !.run = r]]
    /\ FsSame /\ UNCHANGED <<fsMem, fsDisk, fsNext, fsFiles, fsDone, fsCount>>

\* MarkResumeAttempt.
FsMarked(m, r) == [m EXCEPT !.cps[r].attempts = @ + 1]

FsResumeMark(c) ==
    /\ fsCall[c].pc = "mark"
    /\ fsCall' = [fsCall EXCEPT ![c] = FsIdle]
    /\ FsCommit(FsMarked(fsMem, fsCall[c].run),
                [fsDone EXCEPT !.resumes[fsCall[c].run] = @ + 1])
    /\ FsSame /\ UNCHANGED <<fsNext, fsFiles>>

----------------------------------------------------------------------------
\* Mutant: content that is already there is not counted again.
FsPutUncounted(meta, f) == meta

\* IncRefCount.
FsInc(meta, f) == [meta EXCEPT ![f] = @ + 1]

FsPutAcked(f) == [fsDone EXCEPT !.puts[f] = @ + 1]

\* ArtifactStore.Put, under the artifact store's own mutex. Content whose file
\* is there gets one more reference, and an error when it has no metadata row;
\* new content is written to a temporary file and renamed ...
FsPutContent(c) ==
    /\ FsMay("artifacts") /\ fsCall[c].pc = "idle"
    /\ \A d \in FsCallers : fsCall[d].pc # "meta"
    /\ \E f \in FsRefs :
         \/ /\ f \in fsFiles /\ fsMem.meta[f] >= 0
            /\ FsCommit([fsMem EXCEPT !.meta = FsInc(@, f)], FsPutAcked(f))
            /\ UNCHANGED <<fsFiles, fsCall>>
         \/ /\ f \notin fsFiles
            /\ fsFiles' = fsFiles \cup {f}
            /\ fsCall' = [fsCall EXCEPT ![c] = [FsIdle EXCEPT !.pc = "meta", !.ref = f]]
            /\ UNCHANGED <<fsMem, fsDisk, fsDone, fsCount>>
    /\ FsSame /\ UNCHANGED fsNext

\* Put of the metadata: a row that is there keeps its count.
FsMetaPut(m, f) == [m EXCEPT !.meta[f] = IF @ < 0 THEN 1 ELSE @]

\* ... and then gets its row, with one reference, or the count of a row that is
\* there. If that fails the file is removed again.
FsPutMeta(c) ==
    /\ fsCall[c].pc = "meta"
    /\ fsCall' = [fsCall EXCEPT ![c] = FsIdle]
    /\ LET f == fsCall[c].ref IN
       /\ FsCommit(FsMetaPut(fsMem, f), FsPutAcked(f))
       /\ fsFiles' = IF fsCount'.failures > fsCount.failures THEN fsFiles \ {f} ELSE fsFiles
    /\ FsSame /\ UNCHANGED fsNext

\* DecRefCount, refused at zero and without a row.
FsDropped(m, f) == IF m.meta[f] > 0 THEN {[m EXCEPT !.meta[f] = @ - 1]} ELSE {}

FsDec ==
    /\ FsMay("artifacts")
    /\ \E f \in FsRefs :
         \E dropped \in FsDropped(fsMem, f) :
            LET tried == [fsDone EXCEPT !.decs[f] = @ + 1]
            IN FsCommitOr(dropped, tried, tried)
    /\ FsSame /\ UNCHANGED <<fsNext, fsFiles, fsCall>>

----------------------------------------------------------------------------
\* Mutant: the counter starts over at the number of plans.
FsNextByCount(m) == Cardinality(m.plans) + 1

\* The counter after OpenFileStore: one past every id in the file.
FsNextAfterOpen(m) ==
    Max({0} \cup {p.id : p \in m.plans} \cup m.traces
            \cup {m.deltas[i].id : i \in 1..Len(m.deltas)}) + 1

\* The process dies at any moment and OpenFileStore loads the file again.
FsCrash ==
    /\ fsKind = "file" /\ fsCount.crashes < FsMaxCrashes
    /\ fsCount' = [fsCount EXCEPT !.crashes = @ + 1]
    /\ fsMem' = fsDisk
    /\ fsNext' = FsNextAfterOpen(fsDisk)
    /\ fsCall' = [c \in FsCallers |-> FsIdle]
    /\ FsSame /\ UNCHANGED <<fsDisk, fsFiles, fsDone>>

FsNext == \/ FsCreate \/ FsArchive \/ FsSaveTrace \/ FsRecord \/ FsSaveCp \/ FsDec \/ FsCrash
          \/ \E c \in FsCallers : \/ FsGetPlan(c) \/ FsUpdate(c) \/ FsResumeGet(c)
                                  \/ FsResumeMark(c) \/ FsPutContent(c) \/ FsPutMeta(c)

FsSpec == FsInit /\ [][FsNext]_fsVars

----------------------------------------------------------------------------
FsDistinct(s) == \A i, j \in 1..Len(s) : s[i] = s[j] => i = j
FsHeld(m) == {p.id : p \in m.plans} \cup {m.deltas[i].id : i \in 1..Len(m.deltas)}
FsImages == IF fsKind = "file" THEN {fsMem, fsDisk} ELSE {fsMem}

\* No id is given out twice: not to two plans or deltas, not to two traces,
\* whatever flush failed and however often the file was reopened, although
\* failed calls consume ids. What was answered is in the image and the file.
FsIdsFresh ==
    /\ FsDistinct(fsDone.plans \o [i \in 1..Len(fsDone.deltas) |-> fsDone.deltas[i].id])
    /\ FsDistinct(fsDone.traces)
    /\ \A m \in FsImages :
         /\ \A i \in 1..Len(fsDone.plans) : fsDone.plans[i] \in FsHeld(m)
         /\ \A i \in 1..Len(fsDone.deltas) : fsDone.deltas[i].id \in FsHeld(m)
         /\ \A i \in 1..Len(fsDone.traces) : fsDone.traces[i] \in m.traces

\* Journal and snapshot stay in step: a plan's version is that of its last
\* delta. In the mem store no two accepted deltas of a plan have the same
\* version, however the callers' reads and updates interleave.
FsJournalInStep ==
    \A m \in FsImages : \A p \in m.plans :
        LET mine == {i \in 1..Len(m.deltas) : m.deltas[i].plan = p.id} IN
        /\ IF mine = {} THEN p.version = 1
           ELSE /\ p.version = m.deltas[Max(mine)].version
                /\ p.last = m.deltas[Max(mine)].id
        /\ fsKind = "mem" => p.version = 1 + Cardinality(mine)

\* A usage key is counted once, however often its call is replayed, and one
\* that was acknowledged stays counted; a flush that failed voids the second
\* part, since the replay is then answered from the image alone.
FsUsageOnce ==
    \A m \in FsImages :
        /\ \A i, j \in 1..Len(m.usage) : m.usage[i].key = m.usage[j].key => i = j
        /\ fsCount.failures = 0 =>
             /\ \A k \in fsDone.usage : \E i \in 1..Len(m.usage) : m.usage[i].key = k
             /\ \A s \in fsDone.saved : m.cps[s[1]].turn = s[2]

\* Resume hands a checkpoint out at most FsMaxAttempts times per stored turn,
\* plus one for every further caller that tested the counter at the same time.
FsResumesBounded ==
    \A r \in FsRuns : fsDone.resumes[r] <= FsMaxAttempts + Cardinality(FsCallers) - 1

\* Content that was stored is there, and its row counts at least the stored
\* references that nobody tried to drop, in the image and after a crash.
FsRefsHeld ==
    \A f \in FsRefs : fsDone.puts[f] > 0 =>
        /\ f \in fsFiles
        /\ \A m \in FsImages : m.meta[f] >= fsDone.puts[f] - fsDone.decs[f]

\* The stores keep their books, in the image and in the file, through replays,
\* failing flushes, crashes and concurrent callers: ids are fresh, the plan
\* journal agrees with its snapshots, usage is counted once, the attempt cap of
\* Resume is passed only by callers that tested it together, and stored content
\* keeps its references.
FsBooksKept ==
    FsIdsFresh /\ FsJournalInStep /\ FsUsageOnce /\ FsResumesBounded /\ FsRefsHeld
=============================================================================
