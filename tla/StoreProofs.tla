---------------------------- MODULE StoreProofs -----------------------------
(***************************************************************************)
(* What is stored, for every value of the constants. FileStore: any number *)
(* of callers, runs, keys and refs, with failing flushes and crashes.      *)
(* Vault: any number of callers, keys and values.                          *)
(***************************************************************************)
EXTENDS FileStore, Vault, FiniteSetTheorems, WellFoundedInduction, TLAPS

-----------------------------------------------------------------------------
(* The persistence drivers: their books are kept.                          *)

(* What the images, the history and the calls consist of. *)
FsPlanType == [id : Nat, version : Nat, archived : BOOLEAN, last : Nat]
FsDeltaType == [id : Nat, plan : Nat, version : Nat]
FsCpType == [turn : FsTurns \cup {"none"}, attempts : Nat, state : {"none", "running", "Completed"}]
FsImageType == [plans : SUBSET FsPlanType, deltas : Seq(FsDeltaType), cps : [FsRuns -> FsCpType],
                usage : Seq([key : FsKeys, run : FsRuns]), meta : [FsRefs -> Int],
                traces : SUBSET Nat]
FsDoneType == [plans : Seq(Nat), deltas : Seq(FsDeltaType), traces : Seq(Nat),
               usage : SUBSET FsKeys, saved : SUBSET (FsRuns \X FsTurns),
               resumes : [FsRuns -> Nat], puts : [FsRefs -> Nat], decs : [FsRefs -> Nat]]
FsCallType == [pc : {"idle", "update", "mark", "meta"}, id : Nat, version : Nat,
               run : FsRuns \cup {"none"}, ref : FsRefs \cup {"none"}]
FsCountType == [ops : Nat, failures : Nat, crashes : Nat]

\* The ids of an image are below the counter, a plan has one row, and a delta
\* belongs to a plan; what was answered is there.
FsIdsOk(m, done, n) ==
    /\ \A p \in m.plans : p.id < n
    /\ \A p, q \in m.plans : p.id = q.id => p = q
    /\ \A i \in 1 .. Len(m.deltas) : /\ m.deltas[i].id < n
                                     /\ \E p \in m.plans : p.id = m.deltas[i].plan
    /\ \A t \in m.traces : t <= n
    /\ \A i \in 1 .. Len(done.plans) : done.plans[i] \in FsHeld(m)
    /\ \A i \in 1 .. Len(done.deltas) : done.deltas[i].id \in FsHeld(m)
    /\ \A i \in 1 .. Len(done.traces) : done.traces[i] \in m.traces

FsMine(m, p) == {i \in 1 .. Len(m.deltas) : m.deltas[i].plan = p.id}

\* The clause of FsJournalInStep for one plan.
FsInStep(kind, m, p) ==
    /\ IF FsMine(m, p) = {} THEN p.version = 1
       ELSE /\ p.version = m.deltas[Max(FsMine(m, p))].version
            /\ p.last = m.deltas[Max(FsMine(m, p))].id
    /\ kind = "mem" => p.version = 1 + Cardinality(FsMine(m, p))

FsKeysOnce(m) == \A i, j \in 1 .. Len(m.usage) : m.usage[i].key = m.usage[j].key => i = j

\* The resumes that were answered are counted in the row; the row stays below the
\* bound that the callers holding a tested counter can reach.
FsLimit == FsMaxAttempts + Cardinality(FsCallers) - 1
FsAttemptsOk(m, done) ==
    \A r \in FsRuns : done.resumes[r] <= m.cps[r].attempts /\ m.cps[r].attempts <= FsLimit

\* A row counts the stored references but for the dropped ones, at least one of
\* them even when nobody was told.
FsRefsOk(m, done) ==
    \A f \in FsRefs : /\ done.puts[f] > 0 => m.meta[f] >= done.puts[f] - done.decs[f]
                      /\ m.meta[f] >= 0 => m.meta[f] + done.decs[f] >= 1

FsImageOk(kind, m, done, n) ==
    /\ m \in FsImageType
    /\ FsIdsOk(m, done, n)
    /\ \A p \in m.plans : FsInStep(kind, m, p)
    /\ FsKeysOnce(m)
    /\ FsAttemptsOk(m, done)
    /\ FsRefsOk(m, done)

\* The answered ids are distinct.
FsDoneOk(done) ==
    /\ done \in FsDoneType
    /\ FsDistinct(done.plans) /\ FsDistinct(done.traces)
    /\ \A i, j \in 1 .. Len(done.deltas) : done.deltas[i].id = done.deltas[j].id => i = j
    /\ \A i \in 1 .. Len(done.plans), j \in 1 .. Len(done.deltas) :
          done.plans[i] # done.deltas[j].id

\* What the ledger and the checkpoints were told, as long as no flush failed.
FsAcked(m, done) ==
    /\ \A k \in done.usage : \E i \in 1 .. Len(m.usage) : m.usage[i].key = k
    /\ \A s \in done.saved : m.cps[s[1]].turn = s[2]

FsStores ==
    /\ fsNext \in Nat \ {0}
    /\ fsCount \in FsCountType
    /\ FsDoneOk(fsDone)
    /\ \A m \in FsImages : FsImageOk(fsKind, m, fsDone, fsNext)
    /\ fsKind = "file" /\ fsCount.failures = 0 => fsDisk = fsMem
    /\ fsCount.failures = 0 => FsAcked(fsMem, fsDone)

FsMarking(r) == {c \in FsCallers : fsCall[c].pc = "mark" /\ fsCall[c].run = r}

FsCallsOk ==
    /\ fsCall \in [FsCallers -> FsCallType]
    /\ \A c \in FsCallers : fsCall[c].pc = "mark" => fsCall[c].run \in FsRuns
    /\ \A r \in FsRuns : fsMem.cps[r].attempts + Cardinality(FsMarking(r)) <= FsLimit

\* One artifact is stored at a time; what is being stored has its file and was not
\* there before.
FsContentOk ==
    /\ \A c \in FsCallers : fsCall[c].pc = "meta" =>
          /\ fsCall[c].ref \in FsRefs /\ fsCall[c].ref \in fsFiles
          /\ fsDone.puts[fsCall[c].ref] = 0
    /\ \A c, d \in FsCallers : fsCall[c].pc = "meta" /\ fsCall[d].pc = "meta" => c = d
    /\ \A f \in FsRefs : fsDone.puts[f] > 0 => f \in fsFiles

FsInv == FsStores /\ FsCallsOk /\ FsContentOk

\* Every nonempty set of naturals has a least element.
LEMMA FsLeast ==
  ASSUME NEW T, T \subseteq Nat, T # {}
  PROVE  \E x \in T : \A y \in T : x <= y
<1> DEFINE R == {ss \in Nat \X Nat : ss[1] < ss[2]}
<1>1. IsWellFoundedOn(R, Nat)  BY NatLessThanWellFounded, Zenon DEF OpToRel
<1>2. PICK x \in T : \A y \in T : ~(<<y, x>> \in R)
  <2> HIDE DEF R
  <2> QED  BY <1>1, WFMin, Zenon
<1>3. \A y \in T : <<y, x>> \in R <=> y < x  BY Zenon
<1>4. \A y \in T : ~(y < x)
  <2> HIDE DEF R
  <2> QED BY <1>2, <1>3, Zenon
<1>5. \A y \in T : x <= y
  <2> HIDE DEF R
  <2> QED BY <1>4
<1> QED  BY <1>5, Zenon

\* A bounded set of naturals has a maximum.
LEMMA FsMax ==
  ASSUME NEW S, S \subseteq Nat, S # {}, NEW n \in Nat, \A x \in S : x <= n
  PROVE  Max(S) \in S /\ \A x \in S : x <= Max(S)
<1> DEFINE U == {u \in Nat : \A x \in S : x <= u}
<1>1. PICK u \in U : \A y \in U : u <= y
  BY FsLeast, Zenon
<1>2. u \in S
  <2> SUFFICES ASSUME u \notin S PROVE FALSE
    BY Zenon
  <2>1. \A x \in S : x < u
    BY <1>1
  <2>2. PICK x \in S : TRUE
    BY Zenon
  <2>4. u > 0
    BY <1>1, <2>1, <2>2
  <2>5. \A y \in S : y <= u - 1
    BY <1>1, <2>1
  <2>3. u - 1 \in U
    BY <1>1, <2>4, <2>5
  <2> QED BY <1>1, <2>3
<1>3. \A y \in S : u >= y
  BY <1>1, Zenon
<1> QED BY <1>2, <1>3, Zenon DEF Max

\* A commit keeps the stores if the new image agrees with what is answered, and,
\* should flush fail, both images with what is known then.
LEMMA FsCommitKeeps ==
  ASSUME FsStores, FsSame, fsNext' \in Nat \ {0},
         NEW m, NEW done, NEW failed, FsCommitOr(m, done, failed),
         FsDoneOk(done), FsDoneOk(failed),
         FsImageOk(fsKind, m, done, fsNext'), FsImageOk(fsKind, m, failed, fsNext'),
         fsKind = "file" => FsImageOk(fsKind, fsDisk, failed, fsNext'),
         FsAcked(fsMem, fsDone) => FsAcked(m, done)
  PROVE  FsStores'
<1> USE DEF FsStores, FsSame
<1>0. fsCount.failures + 1 # 0 /\ fsCount.failures \in Nat
  BY DEF FsCountType
<1>1. CASE /\ fsMem' = m
           /\ fsDisk' = IF fsKind = "file" THEN m ELSE fsDisk
           /\ fsDone' = done
           /\ fsCount' = [fsCount EXCEPT !.ops = @ + 1]
  <2>1. fsCount' \in FsCountType /\ fsCount'.failures = fsCount.failures
    BY <1>1 DEF FsCountType
  <2>2. \A x \in FsImages' : x = m
    BY <1>1, Zenon DEF FsImages
  <2>3. fsKind' = "file" => fsDisk' = fsMem'
    BY <1>1, Zenon
  <2> QED BY <1>1, <2>1, <2>2, <2>3, Zenon
<1>2. CASE /\ fsKind = "file"
           /\ fsMem' = m
           /\ fsCount' = [fsCount EXCEPT !.ops = @ + 1, !.failures = @ + 1]
           /\ fsDone' = failed
           /\ UNCHANGED fsDisk
  <2>0. fsCount' = [ops |-> fsCount.ops + 1, failures |-> fsCount.failures + 1,
                    crashes |-> fsCount.crashes]
    BY <1>2, Zenon DEF FsCountType
  <2>1. fsCount' \in FsCountType /\ fsCount'.failures = fsCount.failures + 1
    BY <2>0 DEF FsCountType
  <2>2. \A x \in FsImages' : x \in {m, fsDisk}
    BY <1>2, Zenon DEF FsImages
  <2> QED BY <1>0, <1>2, <2>1, <2>2, Zenon
<1> QED BY <1>1, <1>2, Zenon DEF FsCommitOr

\* The counter may only grow.
LEMMA FsLater ==
  ASSUME NEW kind, NEW m, NEW done, NEW n \in Nat, FsImageOk(kind, m, done, n)
  PROVE  FsImageOk(kind, m, done, n + 1)
<1>1. \A p \in m.plans : p.id \in Nat
  BY Zenon DEF FsImageOk, FsImageType, FsPlanType
<1>2. \A i \in 1 .. Len(m.deltas) : m.deltas[i].id \in Nat
  <2>1. m.deltas \in Seq(FsDeltaType)
    BY Zenon DEF FsImageOk, FsImageType
  <2>2. \A i \in 1 .. Len(m.deltas) : m.deltas[i] \in FsDeltaType
    BY <2>1
  <2> QED BY <2>2, Zenon DEF FsDeltaType
<1>3. \A t \in m.traces : t \in Nat
  BY Zenon DEF FsImageOk, FsImageType
<1> QED BY <1>1, <1>2, <1>3 DEF FsImageOk, FsIdsOk

\* A change outside the plans, their journal and the traces leaves the ids and the
\* journal alone.
LEMMA FsFrame ==
  ASSUME NEW kind, NEW m, NEW x, NEW done, NEW n, FsImageOk(kind, m, done, n),
         x.plans = m.plans, x.deltas = m.deltas, x.traces = m.traces
  PROVE  FsIdsOk(x, done, n) /\ \A p \in x.plans : FsInStep(kind, x, p)
<1>1. FsHeld(x) = FsHeld(m)
  BY Zenon DEF FsHeld
<1>2. FsIdsOk(x, done, n)
  BY <1>1, Zenon DEF FsImageOk, FsIdsOk
<1>3. \A p : FsMine(x, p) = FsMine(m, p)
  BY Zenon DEF FsMine
<1> QED BY <1>2, <1>3, Zenon DEF FsImageOk, FsInStep

\* Every answered id is below the counter, and a trace at most the counter.
LEMMA FsBelow ==
  ASSUME NEW kind, NEW m, NEW done, NEW n \in Nat, FsImageOk(kind, m, done, n), FsDoneOk(done)
  PROVE  /\ \A h \in FsHeld(m) : h \in Nat /\ h < n
         /\ \A t \in m.traces : t \in Nat /\ t <= n
         /\ \A i \in 1 .. Len(done.plans) : done.plans[i] < n
         /\ \A i \in 1 .. Len(done.deltas) : done.deltas[i].id < n
         /\ \A i \in 1 .. Len(done.traces) : done.traces[i] <= n
<1>1. \A p \in m.plans : p.id \in Nat /\ p.id < n
  BY Zenon DEF FsImageOk, FsImageType, FsPlanType, FsIdsOk
<1>2. \A i \in 1 .. Len(m.deltas) : m.deltas[i].id \in Nat /\ m.deltas[i].id < n
  <2>1. m.deltas \in Seq(FsDeltaType)
    BY Zenon DEF FsImageOk, FsImageType
  <2>2. \A i \in 1 .. Len(m.deltas) : m.deltas[i] \in FsDeltaType
    BY <2>1
  <2> QED BY <2>2, Zenon DEF FsDeltaType, FsImageOk, FsIdsOk
<1>3. \A h \in FsHeld(m) : h \in Nat /\ h < n
  BY <1>1, <1>2, Zenon DEF FsHeld
<1>4. \A t \in m.traces : t \in Nat /\ t <= n
  BY Zenon DEF FsImageOk, FsImageType, FsIdsOk
<1> QED BY <1>3, <1>4, Zenon DEF FsImageOk, FsIdsOk

\* A new plan id is answered.
LEMMA FsPlanAnswered ==
  ASSUME NEW done, FsDoneOk(done), NEW n \in Nat,
         \A i \in 1 .. Len(done.plans) : done.plans[i] < n,
         \A i \in 1 .. Len(done.deltas) : done.deltas[i].id < n
  PROVE  FsDoneOk([done EXCEPT !.plans = Append(@, n)])
<1> DEFINE D == [done EXCEPT !.plans = Append(@, n)]
           s == done.plans
           t == Append(s, n)
<1>0. t \in Seq(Nat)
  BY DEF FsDoneOk, FsDoneType
<1>1. D \in FsDoneType /\ D.plans = t /\ D.deltas = done.deltas /\ D.traces = done.traces
  <2> HIDE DEF t
  <2>1. D = [done EXCEPT !.plans = t]
    BY Zenon DEF t
  <2> HIDE DEF D
  <2> QED BY <1>0, <2>1, Zenon DEF FsDoneOk, FsDoneType
<1>2. /\ s \in Seq(Nat) /\ Len(t) = Len(s) + 1 /\ t[Len(s) + 1] = n
      /\ \A i \in 1 .. Len(s) : t[i] = s[i]
  BY DEF FsDoneOk, FsDoneType
<1>3. \A i \in 1 .. Len(t) : i \in 1 .. Len(s) \/ i = Len(s) + 1
  BY <1>2
<1>4. \A i \in 1 .. Len(s) : s[i] \in Nat /\ s[i] # n
  BY <1>2
<1>5. \A i \in 1 .. Len(done.deltas) : done.deltas[i].id # n
  OBVIOUS
<1> HIDE DEF D, t
<1>6. FsDistinct(t)
  BY <1>2, <1>3, <1>4, Zenon DEF FsDistinct, FsDoneOk
<1>7. \A i \in 1 .. Len(t), j \in 1 .. Len(done.deltas) : t[i] # done.deltas[j].id
  BY <1>2, <1>3, <1>5, Zenon DEF FsDoneOk
<1>8. FsDoneOk(D)
  BY <1>1, <1>6, <1>7, Zenon DEF FsDoneOk
<1> QED BY <1>8, Zenon DEF D

\* A new delta is answered.
LEMMA FsDeltaAnswered ==
  ASSUME NEW done, FsDoneOk(done), NEW n \in Nat, NEW d \in FsDeltaType, d.id = n,
         \A i \in 1 .. Len(done.plans) : done.plans[i] < n,
         \A i \in 1 .. Len(done.deltas) : done.deltas[i].id < n
  PROVE  FsDoneOk([done EXCEPT !.deltas = Append(@, d)])
<1> DEFINE D == [done EXCEPT !.deltas = Append(@, d)]
           s == done.deltas
           t == Append(s, d)
<1>0. t \in Seq(FsDeltaType)
  BY DEF FsDoneOk, FsDoneType
<1>1. D \in FsDoneType /\ D.deltas = t /\ D.plans = done.plans /\ D.traces = done.traces
  <2> HIDE DEF t
  <2>1. D = [done EXCEPT !.deltas = t]
    BY Zenon DEF t
  <2> HIDE DEF D
  <2> QED BY <1>0, <2>1, Zenon DEF FsDoneOk, FsDoneType
<1>2. /\ s \in Seq(FsDeltaType) /\ Len(t) = Len(s) + 1 /\ t[Len(s) + 1] = d
      /\ \A i \in 1 .. Len(s) : t[i] = s[i]
  BY DEF FsDoneOk, FsDoneType
<1>3. \A i \in 1 .. Len(t) : i \in 1 .. Len(s) \/ i = Len(s) + 1
  BY <1>2
<1>4. \A i \in 1 .. Len(s) : s[i].id # n
  OBVIOUS
<1>5. \A i \in 1 .. Len(done.plans) : done.plans[i] # n
  OBVIOUS
<1> HIDE DEF D, t
<1>6. \A i, j \in 1 .. Len(t) : t[i].id = t[j].id => i = j
  BY <1>2, <1>3, <1>4, Zenon DEF FsDoneOk
<1>7. \A i \in 1 .. Len(done.plans), j \in 1 .. Len(t) : done.plans[i] # t[j].id
  BY <1>2, <1>3, <1>5, Zenon DEF FsDoneOk
<1>8. FsDoneOk(D)
  BY <1>1, <1>6, <1>7 DEF FsDoneOk
<1> QED BY <1>8, Zenon DEF D

\* A new trace is answered.
LEMMA FsTraceAnswered ==
  ASSUME NEW done, FsDoneOk(done), NEW n \in Nat,
         \A i \in 1 .. Len(done.traces) : done.traces[i] <= n
  PROVE  FsDoneOk([done EXCEPT !.traces = Append(@, n + 1)])
<1> DEFINE D == [done EXCEPT !.traces = Append(@, n + 1)]
           s == done.traces
           t == Append(s, n + 1)
<1>0. t \in Seq(Nat)
  BY DEF FsDoneOk, FsDoneType
<1>1. D \in FsDoneType /\ D.traces = t /\ D.deltas = done.deltas /\ D.plans = done.plans
  <2> HIDE DEF t
  <2>1. D = [done EXCEPT !.traces = t]
    BY Zenon DEF t
  <2> HIDE DEF D
  <2> QED BY <1>0, <2>1, Zenon DEF FsDoneOk, FsDoneType
<1>2. /\ s \in Seq(Nat) /\ Len(t) = Len(s) + 1 /\ t[Len(s) + 1] = n + 1
      /\ \A i \in 1 .. Len(s) : t[i] = s[i]
  BY DEF FsDoneOk, FsDoneType
<1>3. \A i \in 1 .. Len(t) : i \in 1 .. Len(s) \/ i = Len(s) + 1
  BY <1>2
<1>4. \A i \in 1 .. Len(s) : s[i] \in Nat /\ s[i] # n + 1
  BY <1>2
<1> HIDE DEF D, t
<1>6. FsDistinct(t)
  BY <1>2, <1>3, <1>4, Zenon DEF FsDistinct, FsDoneOk
<1>8. FsDoneOk(D)
  BY <1>1, <1>6, Zenon DEF FsDoneOk
<1> QED BY <1>8, Zenon DEF D

\* What is in the image may be answered: a plan id, a delta, a trace.
LEMMA FsPlanBacked ==
  ASSUME NEW kind, NEW m, NEW done, NEW n \in Nat, FsImageOk(kind, m, done, n), FsDoneOk(done),
         NEW h, h \in Nat, h \in FsHeld(m)
  PROVE  FsImageOk(kind, m, [done EXCEPT !.plans = Append(@, h)], n)
<1> DEFINE D == [done EXCEPT !.plans = Append(@, h)]
           s == done.plans
           t == Append(s, h)
<1>1. /\ D.plans = t /\ D.deltas = done.deltas /\ D.traces = done.traces
      /\ D.resumes = done.resumes /\ D.puts = done.puts /\ D.decs = done.decs
  BY Zenon DEF FsDoneOk, FsDoneType
<1>2. s \in Seq(Nat) /\ Len(t) = Len(s) + 1 /\ t[Len(s) + 1] = h /\ \A i \in 1 .. Len(s) : t[i] = s[i]
  BY DEF FsDoneOk, FsDoneType
<1>3. \A i \in 1 .. Len(t) : i \in 1 .. Len(s) \/ i = Len(s) + 1
  BY <1>2
<1> HIDE DEF D, t
<1>4. \A i \in 1 .. Len(t) : t[i] \in FsHeld(m)
  BY <1>2, <1>3, Zenon DEF FsImageOk, FsIdsOk
<1>5. FsImageOk(kind, m, D, n)
  BY <1>1, <1>4, Zenon DEF FsImageOk, FsIdsOk, FsAttemptsOk, FsRefsOk
<1> QED BY <1>5, Zenon DEF D

\* The same for a delta.
LEMMA FsDeltaBacked ==
  ASSUME NEW kind, NEW m, NEW done, NEW n \in Nat, FsImageOk(kind, m, done, n), FsDoneOk(done),
         NEW d \in FsDeltaType, d.id \in FsHeld(m)
  PROVE  FsImageOk(kind, m, [done EXCEPT !.deltas = Append(@, d)], n)
<1> DEFINE D == [done EXCEPT !.deltas = Append(@, d)]
           s == done.deltas
           t == Append(s, d)
<1>1. /\ D.deltas = t /\ D.plans = done.plans /\ D.traces = done.traces
      /\ D.resumes = done.resumes /\ D.puts = done.puts /\ D.decs = done.decs
  BY Zenon DEF FsDoneOk, FsDoneType
<1>2. /\ s \in Seq(FsDeltaType) /\ Len(t) = Len(s) + 1 /\ t[Len(s) + 1] = d
      /\ \A i \in 1 .. Len(s) : t[i] = s[i]
  BY DEF FsDoneOk, FsDoneType
<1>3. \A i \in 1 .. Len(t) : i \in 1 .. Len(s) \/ i = Len(s) + 1
  BY <1>2
<1> HIDE DEF D, t
<1>4. \A i \in 1 .. Len(t) : t[i].id \in FsHeld(m)
  BY <1>2, <1>3, Zenon DEF FsImageOk, FsIdsOk
<1>5. FsImageOk(kind, m, D, n)
  BY <1>1, <1>4, Zenon DEF FsImageOk, FsIdsOk, FsAttemptsOk, FsRefsOk
<1> QED BY <1>5, Zenon DEF D

\* The same for a trace.
LEMMA FsTraceBacked ==
  ASSUME NEW kind, NEW m, NEW done, NEW n \in Nat, FsImageOk(kind, m, done, n), FsDoneOk(done),
         NEW h, h \in Nat, h \in m.traces
  PROVE  FsImageOk(kind, m, [done EXCEPT !.traces = Append(@, h)], n)
<1> DEFINE D == [done EXCEPT !.traces = Append(@, h)]
           s == done.traces
           t == Append(s, h)
<1>1. /\ D.traces = t /\ D.deltas = done.deltas /\ D.plans = done.plans
      /\ D.resumes = done.resumes /\ D.puts = done.puts /\ D.decs = done.decs
  BY Zenon DEF FsDoneOk, FsDoneType
<1>2. s \in Seq(Nat) /\ Len(t) = Len(s) + 1 /\ t[Len(s) + 1] = h /\ \A i \in 1 .. Len(s) : t[i] = s[i]
  BY DEF FsDoneOk, FsDoneType
<1>3. \A i \in 1 .. Len(t) : i \in 1 .. Len(s) \/ i = Len(s) + 1
  BY <1>2
<1> HIDE DEF D, t
<1>4. \A i \in 1 .. Len(t) : t[i] \in m.traces
  BY <1>2, <1>3, Zenon DEF FsImageOk, FsIdsOk
<1>5. FsImageOk(kind, m, D, n)
  BY <1>1, <1>4, Zenon DEF FsImageOk, FsIdsOk, FsAttemptsOk, FsRefsOk
<1> QED BY <1>5, Zenon DEF D

\* Create adds a plan whose id no delta names.
LEMMA FsCreatedOk ==
  ASSUME NEW kind, NEW m, NEW done, fsNext \in Nat, FsImageOk(kind, m, done, fsNext), FsDoneOk(done)
  PROVE  FsImageOk(kind, FsCreated(m), done, fsNext + 1) /\ fsNext \in FsHeld(FsCreated(m))
<1> DEFINE p == [id |-> fsNext, version |-> 1, archived |-> FALSE, last |-> 0]
           x == FsCreated(m)
<1>1. p \in FsPlanType /\ p.id = fsNext /\ p.version = 1
  BY Zenon DEF FsPlanType
<1>2. /\ x.plans = m.plans \cup {p} /\ x.deltas = m.deltas /\ x.cps = m.cps /\ x.usage = m.usage
      /\ x.meta = m.meta /\ x.traces = m.traces
  BY Zenon DEF FsCreated, FsImageOk, FsImageType
<1>3. x \in FsImageType
  <2> HIDE DEF p
  <2> QED BY <1>1, Zenon DEF FsCreated, FsImageOk, FsImageType, p
<1>4. FsImageOk(kind, m, done, fsNext + 1)
  BY FsLater, Zenon
<1>5. \A h \in FsHeld(m) : h \in Nat /\ h < fsNext
  BY FsBelow, Zenon
<1>6. \A q \in m.plans : q.id \in Nat /\ q.id < fsNext
  BY <1>5, Zenon DEF FsHeld
<1> HIDE DEF p, x
<1>7. FsHeld(x) = FsHeld(m) \cup {fsNext}
  BY <1>1, <1>2, Zenon DEF FsHeld
<1>8. FsIdsOk(x, done, fsNext + 1)
  <2>1. \A q \in x.plans : q.id < fsNext + 1
    BY <1>1, <1>2, <1>6
  <2>2. \A q, r \in x.plans : q.id = r.id => q = r
    BY <1>1, <1>2, <1>6 DEF FsImageOk, FsIdsOk
  <2> QED BY <1>2, <1>4, <1>7, <2>1, <2>2 DEF FsImageOk, FsIdsOk
<1>9. \A q \in x.plans : FsInStep(kind, x, q)
  <2>1. \A q : FsMine(x, q) = FsMine(m, q)
    BY <1>2, Zenon DEF FsMine
  <2>2. FsMine(m, p) = {}
    <3>1. \A i \in 1 .. Len(m.deltas) : m.deltas[i].plan # fsNext
      BY <1>6 DEF FsImageOk, FsIdsOk
    <3> QED BY <1>1, <3>1, Zenon DEF FsMine
  <2>3. FsInStep(kind, x, p)
    BY <1>1, <2>1, <2>2, FS_EmptySet DEF FsInStep
  <2> QED BY <1>2, <2>1, <2>3, Zenon DEF FsImageOk, FsInStep
<1> QED BY <1>2, <1>3, <1>4, <1>7, <1>8, <1>9, Zenon
    DEF FsImageOk, FsKeysOnce, FsAttemptsOk, FsRefsOk, x

\* A plan's row is replaced by one with the same id.
LEMMA FsReplaced ==
  ASSUME NEW kind, NEW m, NEW done, NEW n \in Nat, FsImageOk(kind, m, done, n),
         NEW p \in m.plans, NEW q \in FsPlanType, q.id = p.id
  PROVE  LET x == FsSetPlan(m, q) IN
         /\ x \in FsImageType
         /\ x.plans = (m.plans \ {p}) \cup {q} /\ x.deltas = m.deltas /\ x.cps = m.cps
         /\ x.usage = m.usage /\ x.meta = m.meta /\ x.traces = m.traces
         /\ FsHeld(x) = FsHeld(m) /\ FsIdsOk(x, done, n)
<1> DEFINE x == FsSetPlan(m, q)
           others == {r \in m.plans : r.id # q.id}
<1>1. others = m.plans \ {p}
  BY Zenon DEF FsImageOk, FsIdsOk
<1>2. m \in FsImageType
  BY Zenon DEF FsImageOk
<1>3. /\ x.plans = others \cup {q} /\ x.deltas = m.deltas /\ x.cps = m.cps /\ x.usage = m.usage
      /\ x.meta = m.meta /\ x.traces = m.traces
  BY <1>2, Zenon DEF FsSetPlan, FsImageType
<1>4. others \cup {q} \in SUBSET FsPlanType
  BY <1>2, Zenon DEF FsImageType
<1>5. x \in FsImageType
  BY <1>2, <1>4, Zenon DEF FsSetPlan, FsImageType
<1> HIDE DEF x, others
<1>6. x.plans = (m.plans \ {p}) \cup {q}
  BY <1>1, <1>3, Zenon
<1>7. \A r \in x.plans : \E o \in m.plans : o.id = r.id
  BY <1>6, Zenon
<1>8. \A o \in m.plans : \E r \in x.plans : o.id = r.id
  BY <1>6, Zenon
<1>9. FsHeld(x) = FsHeld(m)
  <2>1. {r.id : r \in x.plans} = {r.id : r \in m.plans}
    BY <1>7, <1>8
  <2> QED BY <1>3, <2>1, Zenon DEF FsHeld
<1>10. \A r, o \in x.plans : r.id = o.id => r = o
  BY <1>6, Zenon DEF FsImageOk, FsIdsOk
<1>11. \A r \in x.plans : r.id < n
  BY <1>7, Zenon DEF FsImageOk, FsIdsOk
<1>12. \A i \in 1 .. Len(x.deltas) : /\ x.deltas[i].id < n
                                     /\ \E r \in x.plans : r.id = x.deltas[i].plan
  BY <1>3, <1>8 DEF FsImageOk, FsIdsOk
<1>13. FsIdsOk(x, done, n)
  BY <1>3, <1>9, <1>10, <1>11, <1>12, Zenon DEF FsImageOk, FsIdsOk
<1> QED BY <1>3, <1>5, <1>6, <1>9, <1>13, Zenon DEF x

\* Archive leaves id, version and last delta as they are.
LEMMA FsArchivedOk ==
  ASSUME NEW kind, NEW m, NEW done, NEW n \in Nat, FsImageOk(kind, m, done, n), NEW p \in m.plans
  PROVE  FsImageOk(kind, FsSetPlan(m, [p EXCEPT !.archived = TRUE]), done, n)
<1> DEFINE q == [p EXCEPT !.archived = TRUE]
           x == FsSetPlan(m, q)
<1>1. q \in FsPlanType /\ q.id = p.id /\ q.version = p.version /\ q.last = p.last
  BY Zenon DEF FsPlanType, FsImageOk, FsImageType
<1> HIDE DEF q
<1>2. /\ x \in FsImageType
      /\ x.plans = (m.plans \ {p}) \cup {q} /\ x.deltas = m.deltas /\ x.cps = m.cps
      /\ x.usage = m.usage /\ x.meta = m.meta /\ x.traces = m.traces
      /\ FsHeld(x) = FsHeld(m) /\ FsIdsOk(x, done, n)
  BY <1>1, FsReplaced, Zenon
<1> HIDE DEF x
<1>3. \A r : FsMine(x, r) = FsMine(m, r)
  BY <1>2, Zenon DEF FsMine
<1>4. FsMine(m, q) = FsMine(m, p)
  BY <1>1, Zenon DEF FsMine
<1>5. FsInStep(kind, x, q)
  BY <1>1, <1>2, <1>3, <1>4, Zenon DEF FsImageOk, FsInStep
<1>6. \A r \in x.plans : FsInStep(kind, x, r)
  BY <1>2, <1>3, <1>5, Zenon DEF FsImageOk, FsInStep
<1> QED BY <1>2, <1>6, Zenon DEF FsImageOk, FsKeysOnce, FsAttemptsOk, FsRefsOk, x, q

\* Update appends the delta and moves the row of its plan to it.
FsUpdated(m, p, v, n) ==
    [FsSetPlan(m, [p EXCEPT !.version = v, !.last = n])
        EXCEPT !.deltas = Append(@, [id |-> n, plan |-> p.id, version |-> v])]

\* The journal and its snapshot stay in step through Update.
LEMMA FsUpdatedOk ==
  ASSUME NEW kind, NEW m, NEW done, NEW n \in Nat, FsImageOk(kind, m, done, n), FsDoneOk(done),
         NEW p \in m.plans, NEW v \in Nat, kind = "mem" => v = p.version + 1
  PROVE  FsImageOk(kind, FsUpdated(m, p, v, n), done, n + 1) /\ n \in FsHeld(FsUpdated(m, p, v, n))
<1> DEFINE q == [p EXCEPT !.version = v, !.last = n]
           d == [id |-> n, plan |-> p.id, version |-> v]
           y == FsSetPlan(m, q)
           x == FsUpdated(m, p, v, n)
           k == Len(m.deltas) + 1
<1>1. p.id \in Nat /\ p.version \in Nat
  BY Zenon DEF FsPlanType, FsImageOk, FsImageType
<1>2. q \in FsPlanType /\ q.id = p.id /\ q.version = v /\ q.last = n
  BY Zenon DEF FsPlanType, FsImageOk, FsImageType
<1>3. d \in FsDeltaType /\ d.id = n /\ d.plan = p.id /\ d.version = v
  BY <1>1, Zenon DEF FsDeltaType
<1>4. x = [y EXCEPT !.deltas = Append(@, d)]
  BY Zenon DEF FsUpdated
<1> HIDE DEF q, d, x
<1>5. FsImageOk(kind, m, done, n + 1)
  BY FsLater, Zenon
<1>6. /\ y \in FsImageType
      /\ y.plans = (m.plans \ {p}) \cup {q} /\ y.deltas = m.deltas /\ y.cps = m.cps
      /\ y.usage = m.usage /\ y.meta = m.meta /\ y.traces = m.traces
      /\ FsHeld(y) = FsHeld(m) /\ FsIdsOk(y, done, n + 1)
  BY <1>2, <1>5, FsReplaced
<1> HIDE DEF y
<1>7. /\ x \in FsImageType
      /\ x.plans = (m.plans \ {p}) \cup {q} /\ x.deltas = Append(m.deltas, d) /\ x.cps = m.cps
      /\ x.usage = m.usage /\ x.meta = m.meta /\ x.traces = m.traces
  <2>1. Append(y.deltas, d) \in Seq(FsDeltaType)
    BY <1>3, <1>6 DEF FsImageType
  <2> QED BY <1>4, <1>6, <2>1, Zenon DEF FsImageType
<1>8. /\ m.deltas \in Seq(FsDeltaType)
      /\ Len(x.deltas) = k /\ x.deltas[k] = d
      /\ \A i \in 1 .. Len(m.deltas) : x.deltas[i] = m.deltas[i]
      /\ k \in Nat /\ 1 .. k = (1 .. Len(m.deltas)) \cup {k} /\ k \notin 1 .. Len(m.deltas)
  BY <1>3, <1>7 DEF FsImageOk, FsImageType
<1> HIDE DEF k
<1>9. FsHeld(x) = FsHeld(m) \cup {n}
  <2>1. {r.id : r \in x.plans} = {r.id : r \in y.plans}
    BY <1>6, <1>7, Zenon
  <2>2. {x.deltas[i].id : i \in 1 .. Len(x.deltas)} = {m.deltas[i].id : i \in 1 .. Len(m.deltas)} \cup {n}
    BY <1>3, <1>8
  <2>3. FsHeld(x) = {r.id : r \in y.plans} \cup {m.deltas[i].id : i \in 1 .. Len(m.deltas)} \cup {n}
    BY <2>1, <2>2, Zenon DEF FsHeld
  <2>4. FsHeld(y) = {r.id : r \in y.plans} \cup {m.deltas[i].id : i \in 1 .. Len(m.deltas)}
    BY <1>6, Zenon DEF FsHeld
  <2> QED BY <1>6, <2>3, <2>4, Zenon
<1>10. FsIdsOk(x, done, n + 1)
  <2>1. \A i \in 1 .. Len(x.deltas) : /\ x.deltas[i].id < n + 1
                                      /\ \E r \in x.plans : r.id = x.deltas[i].plan
    <3> TAKE i \in 1 .. Len(x.deltas)
    <3>1. CASE i = k
      BY <1>2, <1>3, <1>7, <1>8, <3>1
    <3>2. CASE i \in 1 .. Len(m.deltas)
      BY <1>6, <1>7, <1>8, <3>2 DEF FsIdsOk
    <3> QED BY <1>8, <3>1, <3>2, Zenon
  <2> QED BY <1>6, <1>7, <1>9, <2>1, Zenon DEF FsIdsOk
<1>11. \A r \in x.plans : FsInStep(kind, x, r)
  <2> TAKE r \in x.plans
  <2>0. FsMine(m, r) \subseteq 1 .. Len(m.deltas) /\ FsMine(m, r) \subseteq Nat
    BY <1>8 DEF FsMine
  <2>1. CASE r.id # p.id
    <3>1. r \in m.plans
      BY <1>2, <1>7, <2>1, Zenon
    <3>2. FsMine(x, r) = FsMine(m, r)
      BY <1>3, <1>8, <2>1, Zenon DEF FsMine
    <3>3. ASSUME FsMine(m, r) # {} PROVE x.deltas[Max(FsMine(m, r))] = m.deltas[Max(FsMine(m, r))]
      <4>1. Len(m.deltas) \in Nat /\ \A i \in FsMine(m, r) : i <= Len(m.deltas)
        BY <1>8, <2>0
      <4>2. Max(FsMine(m, r)) \in FsMine(m, r)
        BY <2>0, <3>3, <4>1, FsMax, Zenon
      <4> QED BY <1>8, <2>0, <4>2, Zenon
    <3> QED BY <3>1, <3>2, <3>3, Zenon DEF FsImageOk, FsInStep
  <2>2. CASE r.id = p.id
    <3>1. r = q
      BY <1>7, <2>2, Zenon DEF FsImageOk, FsIdsOk
    <3>2. FsMine(x, r) = FsMine(m, p) \cup {k}
      BY <1>2, <1>3, <1>8, <3>1, Zenon DEF FsMine
    <3>3. FsMine(m, p) \subseteq 1 .. Len(m.deltas)
      BY Zenon DEF FsMine
    <3>4. FsMine(x, r) \subseteq Nat /\ \A i \in FsMine(x, r) : i <= k
      BY <1>8, <3>2, <3>3
    <3>5. Max(FsMine(x, r)) = k
      <4>1. Max(FsMine(x, r)) \in FsMine(x, r) /\ \A i \in FsMine(x, r) : i <= Max(FsMine(x, r))
        BY <1>8, <3>2, <3>4, FsMax, Zenon
      <4> DEFINE last == Max(FsMine(x, r))
      <4>2. last \in Nat /\ last <= k /\ k <= last
        BY <3>2, <3>4, <4>1, Zenon
      <4> HIDE DEF last
      <4>3. last = k
        BY <1>8, <4>2
      <4> QED BY <4>3, Zenon DEF last
    <3>6. Cardinality(FsMine(x, r)) = Cardinality(FsMine(m, p)) + 1
      <4>1. IsFiniteSet(1 .. Len(m.deltas))
        BY <1>8, FS_Interval
      <4>2. IsFiniteSet(FsMine(m, p))
        BY <3>3, <4>1, FS_Subset, Zenon
      <4> QED BY <1>8, <3>2, <3>3, <4>2, FS_AddElement, Zenon
    <3>7. kind = "mem" => r.version = 1 + Cardinality(FsMine(x, r))
      <4>1. Cardinality(FsMine(m, p)) \in Nat
        <5>1. IsFiniteSet(1 .. Len(m.deltas))
          BY <1>8, FS_Interval
        <5> QED BY <3>3, <5>1, FS_Subset, FS_CardinalityType, Zenon
      <4>2. kind = "mem" => p.version = 1 + Cardinality(FsMine(m, p))
        BY Zenon DEF FsImageOk, FsInStep
      <4> QED BY <1>2, <3>1, <3>6, <4>1, <4>2
    <3> QED BY <1>2, <1>3, <1>8, <3>1, <3>2, <3>5, <3>7, Zenon DEF FsInStep
  <2> QED BY <2>1, <2>2, Zenon
<1> QED BY <1>7, <1>9, <1>10, <1>11, Zenon DEF FsImageOk, FsKeysOnce, FsAttemptsOk, FsRefsOk, x

\* A change outside the plans, the journal and the traces, in the image and in what
\* is answered.
LEMMA FsElsewhere ==
  ASSUME NEW kind, NEW m, NEW done, NEW n, FsImageOk(kind, m, done, n),
         NEW x \in FsImageType, NEW dn,
         x.plans = m.plans, x.deltas = m.deltas, x.traces = m.traces,
         dn.plans = done.plans, dn.deltas = done.deltas, dn.traces = done.traces,
         FsKeysOnce(x), FsAttemptsOk(x, dn), FsRefsOk(x, dn)
  PROVE  FsImageOk(kind, x, dn, n)
<1>1. FsIdsOk(x, done, n) /\ \A p \in x.plans : FsInStep(kind, x, p)
  BY FsFrame, Zenon
<1>2. FsIdsOk(x, dn, n)
  BY <1>1, Zenon DEF FsIdsOk
<1> QED BY <1>1, <1>2, Zenon DEF FsImageOk

\* SignalTraceStore.Save adds the id one past the counter.
LEMMA FsTracedOk ==
  ASSUME NEW kind, NEW m, NEW done, NEW n \in Nat, FsImageOk(kind, m, done, n), FsDoneOk(done)
  PROVE  LET x == [m EXCEPT !.traces = @ \cup {n + 1}] IN
         FsImageOk(kind, x, done, n + 1) /\ n + 1 \in x.traces
<1> DEFINE x == [m EXCEPT !.traces = @ \cup {n + 1}]
<1>1. /\ x \in FsImageType
      /\ x.plans = m.plans /\ x.deltas = m.deltas /\ x.cps = m.cps
      /\ x.usage = m.usage /\ x.meta = m.meta /\ x.traces = m.traces \cup {n + 1}
  <2>1. m \in FsImageType /\ m.traces \cup {n + 1} \in SUBSET Nat
    BY DEF FsImageOk, FsImageType
  <2> QED BY <2>1, Zenon DEF FsImageType
<1> HIDE DEF x
<1>2. FsImageOk(kind, m, done, n + 1)
  BY FsLater, Zenon
<1>3. FsHeld(x) = FsHeld(m)
  BY <1>1, Zenon DEF FsHeld
<1>4. FsIdsOk(x, done, n + 1)
  BY <1>1, <1>2, <1>3 DEF FsImageOk, FsIdsOk
<1>5. \A p : FsMine(x, p) = FsMine(m, p)
  BY <1>1, Zenon DEF FsMine
<1>6. \A p \in x.plans : FsInStep(kind, x, p)
  BY <1>1, <1>5, Zenon DEF FsImageOk, FsInStep
<1> QED BY <1>1, <1>4, <1>6, Zenon DEF FsImageOk, FsKeysOnce, FsAttemptsOk, FsRefsOk, x

\* A usage record with a new key.
LEMMA FsRecordedOk ==
  ASSUME NEW kind, NEW m, NEW done, NEW n, FsImageOk(kind, m, done, n), FsDoneOk(done),
         NEW rec \in [key : FsKeys, run : FsRuns],
         \A i \in 1 .. Len(m.usage) : m.usage[i].key # rec.key
  PROVE  LET x == [m EXCEPT !.usage = Append(@, rec)]
             dn == [done EXCEPT !.usage = @ \cup {rec.key}]
         IN  /\ FsImageOk(kind, x, done, n) /\ FsImageOk(kind, x, dn, n)
             /\ FsAcked(m, done) => FsAcked(x, dn)
<1> DEFINE s == m.usage
           t == Append(s, rec)
           x == [m EXCEPT !.usage = Append(@, rec)]
           dn == [done EXCEPT !.usage = @ \cup {rec.key}]
<1>0. s \in Seq([key : FsKeys, run : FsRuns])
  BY Zenon DEF FsImageOk, FsImageType
<1>1. /\ t \in Seq([key : FsKeys, run : FsRuns]) /\ Len(t) = Len(s) + 1 /\ t[Len(s) + 1] = rec
      /\ \A i \in 1 .. Len(s) : t[i] = s[i]
  BY <1>0
<1>2. \A i \in 1 .. Len(t) : i \in 1 .. Len(s) \/ i = Len(s) + 1
  BY <1>0, <1>1
<1> HIDE DEF t
<1>3. /\ x \in FsImageType
      /\ x.plans = m.plans /\ x.deltas = m.deltas /\ x.cps = m.cps
      /\ x.usage = t /\ x.meta = m.meta /\ x.traces = m.traces
  <2>1. x = [m EXCEPT !.usage = t]
    BY Zenon DEF t
  <2> HIDE DEF x
  <2> QED BY <1>1, <2>1, Zenon DEF FsImageOk, FsImageType
<1>4. /\ dn.plans = done.plans /\ dn.deltas = done.deltas /\ dn.traces = done.traces
      /\ dn.resumes = done.resumes /\ dn.puts = done.puts /\ dn.decs = done.decs
      /\ dn.usage = done.usage \cup {rec.key} /\ dn.saved = done.saved
  BY Zenon DEF FsDoneOk, FsDoneType
<1> HIDE DEF x, dn
<1>5. FsKeysOnce(x)
  BY <1>1, <1>2, <1>3 DEF FsKeysOnce, FsImageOk
<1>6. FsAttemptsOk(x, done) /\ FsRefsOk(x, done) /\ FsAttemptsOk(x, dn) /\ FsRefsOk(x, dn)
  BY <1>3, <1>4, Zenon DEF FsAttemptsOk, FsRefsOk, FsImageOk
<1>7. FsImageOk(kind, x, done, n)
  BY <1>3, <1>5, <1>6, FsElsewhere, Zenon
<1>8. FsImageOk(kind, x, dn, n)
  BY <1>3, <1>4, <1>5, <1>6, FsElsewhere, Zenon
<1>9. ASSUME FsAcked(m, done) PROVE FsAcked(x, dn)
  <2>1. \A k \in dn.usage : \E i \in 1 .. Len(x.usage) : x.usage[i].key = k
    <3> TAKE k \in dn.usage
    <3>1. CASE k \in done.usage
      <4>1. PICK i \in 1 .. Len(s) : s[i].key = k
        BY <1>9, <3>1, Zenon DEF FsAcked
      <4>2. i \in 1 .. Len(t)
        BY <1>0, <1>1
      <4> QED BY <1>1, <1>3, <4>1, <4>2, Zenon
    <3>2. CASE k = rec.key
      <4>1. Len(s) + 1 \in 1 .. Len(t)
        BY <1>0, <1>1
      <4> QED BY <1>1, <1>3, <3>2, <4>1, Zenon
    <3> QED BY <1>4, <3>1, <3>2, Zenon
  <2> QED BY <1>3, <1>4, <1>9, <2>1, Zenon DEF FsAcked
<1> QED BY <1>7, <1>8, <1>9, Zenon DEF x, dn

\* The bound is positive.
LEMMA FsLimitType == FsLimit \in Nat /\ Cardinality(FsCallers) \in Nat
BY FsAssumption, FS_CardinalityType DEF FsLimit

\* A checkpoint row is replaced, and the history with it.
LEMMA FsCpOk ==
  ASSUME NEW kind, NEW m, NEW done, NEW n, FsImageOk(kind, m, done, n), FsDoneOk(done),
         NEW r \in FsRuns, NEW cp \in FsCpType, cp.attempts <= FsLimit,
         NEW dn, dn.plans = done.plans, dn.deltas = done.deltas, dn.traces = done.traces,
         dn.puts = done.puts, dn.decs = done.decs, dn.resumes[r] <= cp.attempts,
         \A o \in FsRuns \ {r} : dn.resumes[o] = done.resumes[o]
  PROVE  FsImageOk(kind, [m EXCEPT !.cps[r] = cp], dn, n)
<1> DEFINE x == [m EXCEPT !.cps[r] = cp]
           table == [m.cps EXCEPT ![r] = cp]
<1>0. m \in FsImageType /\ m.cps \in [FsRuns -> FsCpType]
  BY Zenon DEF FsImageOk, FsImageType
<1>1. table \in [FsRuns -> FsCpType] /\ table[r] = cp /\ \A o \in FsRuns \ {r} : table[o] = m.cps[o]
  BY <1>0, Zenon
<1>2. x = [m EXCEPT !.cps = table]
  BY <1>0, Zenon DEF FsImageType
<1> HIDE DEF x, table
<1>3. /\ x \in FsImageType
      /\ x.plans = m.plans /\ x.deltas = m.deltas /\ x.cps = table
      /\ x.usage = m.usage /\ x.meta = m.meta /\ x.traces = m.traces
  BY <1>0, <1>1, <1>2, Zenon DEF FsImageType
<1>4. FsAttemptsOk(x, dn)
  BY <1>1, <1>3, Zenon DEF FsAttemptsOk, FsImageOk
<1>5. FsKeysOnce(x) /\ FsRefsOk(x, dn)
  BY <1>3, Zenon DEF FsKeysOnce, FsRefsOk, FsImageOk
<1>6. FsImageOk(kind, x, dn, n)
  BY <1>3, <1>4, <1>5, FsElsewhere, Zenon
<1> QED BY <1>6, Zenon DEF x

\* The counter of a ref is changed, and the history with it.
LEMMA FsMetaOk ==
  ASSUME NEW kind, NEW m, NEW done, NEW n, FsImageOk(kind, m, done, n), FsDoneOk(done),
         NEW f \in FsRefs, NEW k \in Int,
         NEW dn, dn.plans = done.plans, dn.deltas = done.deltas, dn.traces = done.traces,
         dn.resumes = done.resumes,
         \A o \in FsRefs \ {f} : dn.puts[o] = done.puts[o] /\ dn.decs[o] = done.decs[o],
         dn.puts[f] > 0 => k >= dn.puts[f] - dn.decs[f],
         k >= 0 => k + dn.decs[f] >= 1
  PROVE  FsImageOk(kind, [m EXCEPT !.meta = [@ EXCEPT ![f] = k]], dn, n)
<1> DEFINE x == [m EXCEPT !.meta = [@ EXCEPT ![f] = k]]
           table == [m.meta EXCEPT ![f] = k]
<1>0. m \in FsImageType /\ m.meta \in [FsRefs -> Int]
  BY Zenon DEF FsImageOk, FsImageType
<1>1. table \in [FsRefs -> Int] /\ table[f] = k /\ \A o \in FsRefs \ {f} : table[o] = m.meta[o]
  BY <1>0, Zenon
<1>2. x = [m EXCEPT !.meta = table]
  BY <1>0, Zenon DEF FsImageType
<1> HIDE DEF x, table
<1>3. /\ x \in FsImageType
      /\ x.plans = m.plans /\ x.deltas = m.deltas /\ x.cps = m.cps
      /\ x.usage = m.usage /\ x.meta = table /\ x.traces = m.traces
  BY <1>0, <1>1, <1>2, Zenon DEF FsImageType
<1>4. FsRefsOk(x, dn)
  BY <1>1, <1>3, Zenon DEF FsRefsOk, FsImageOk
<1>5. FsKeysOnce(x) /\ FsAttemptsOk(x, dn)
  BY <1>3, Zenon DEF FsKeysOnce, FsAttemptsOk, FsImageOk
<1>6. FsImageOk(kind, x, dn, n)
  BY <1>3, <1>4, <1>5, FsElsewhere, Zenon
<1> QED BY <1>6, Zenon DEF x

\* The image stays and the history changes only in the counters of one ref.
LEMMA FsMetaSame ==
  ASSUME NEW kind, NEW m, NEW done, NEW n, FsImageOk(kind, m, done, n), FsDoneOk(done),
         NEW f \in FsRefs,
         NEW dn, dn.plans = done.plans, dn.deltas = done.deltas, dn.traces = done.traces,
         dn.resumes = done.resumes, dn.puts = done.puts,
         \A o \in FsRefs \ {f} : dn.decs[o] = done.decs[o], dn.decs[f] = done.decs[f] + 1
  PROVE  FsImageOk(kind, m, dn, n)
<1>1. m \in FsImageType /\ FsKeysOnce(m) /\ FsAttemptsOk(m, dn)
  BY Zenon DEF FsImageOk, FsAttemptsOk
<1>2. \A o \in FsRefs : done.puts[o] \in Nat /\ done.decs[o] \in Nat /\ m.meta[o] \in Int
  BY Zenon DEF FsImageOk, FsImageType, FsDoneOk, FsDoneType
<1>3. FsRefsOk(m, dn)
  BY <1>2 DEF FsImageOk, FsRefsOk
<1> QED BY <1>1, <1>3, FsElsewhere, Zenon

\* A new checkpoint starts the count of its resumes over.
LEMMA FsResumesReset ==
  ASSUME NEW kind, NEW m, NEW done, NEW n, FsImageOk(kind, m, done, n), FsDoneOk(done),
         NEW r \in FsRuns
  PROVE  /\ FsImageOk(kind, m, [done EXCEPT !.resumes[r] = 0], n)
         /\ FsDoneOk([done EXCEPT !.resumes[r] = 0])
<1> DEFINE dn == [done EXCEPT !.resumes[r] = 0]
           table == [done.resumes EXCEPT ![r] = 0]
<1>0. done \in FsDoneType /\ done.resumes \in [FsRuns -> Nat]
  BY Zenon DEF FsDoneOk, FsDoneType
<1>1. table \in [FsRuns -> Nat] /\ table[r] = 0 /\ \A o \in FsRuns \ {r} : table[o] = done.resumes[o]
  BY <1>0, Zenon
<1>2. dn = [done EXCEPT !.resumes = table]
  BY <1>0, Zenon DEF FsDoneType
<1> HIDE DEF dn, table
<1>3. /\ dn \in FsDoneType /\ dn.plans = done.plans /\ dn.deltas = done.deltas
      /\ dn.traces = done.traces /\ dn.puts = done.puts /\ dn.decs = done.decs
      /\ dn.resumes = table
  BY <1>0, <1>1, <1>2, Zenon DEF FsDoneType
<1>4. m \in FsImageType /\ FsKeysOnce(m) /\ FsRefsOk(m, dn)
  BY <1>3, Zenon DEF FsImageOk, FsRefsOk
<1>5. \A o \in FsRuns : m.cps[o].attempts \in Nat
  BY Zenon DEF FsImageOk, FsImageType, FsCpType
<1>6. FsAttemptsOk(m, dn)
  BY <1>1, <1>3, <1>5 DEF FsImageOk, FsAttemptsOk
<1>7. FsImageOk(kind, m, dn, n)
  BY <1>3, <1>4, <1>6, FsElsewhere, Zenon
<1>8. FsDoneOk(dn)
  BY <1>3 DEF FsDoneOk
<1> QED BY <1>7, <1>8, Zenon DEF dn

\* The images that FsStores speaks of.
LEMMA FsImagesOk ==
  ASSUME FsStores
  PROVE  /\ FsImageOk(fsKind, fsMem, fsDone, fsNext) /\ fsMem \in FsImageType
         /\ fsKind = "file" => FsImageOk(fsKind, fsDisk, fsDone, fsNext)
         /\ FsDoneOk(fsDone) /\ fsDone \in FsDoneType /\ fsNext \in Nat
         /\ fsNext + 1 \in Nat \ {0}
<1>1. fsMem \in FsImages /\ (fsKind = "file" => fsDisk \in FsImages)
  BY Zenon DEF FsImages
<1> QED BY <1>1 DEF FsStores, FsImageOk, FsDoneOk

\* Calls and contents under a step that leaves the checkpoints, or the files, alone.
LEMMA FsCallsSame ==
  ASSUME FsCallsOk, UNCHANGED fsCall, fsMem'.cps = fsMem.cps
  PROVE  FsCallsOk'
BY Zenon DEF FsCallsOk, FsMarking

\* The same for the artifacts.
LEMMA FsContentSame ==
  ASSUME FsContentOk, UNCHANGED <<fsCall, fsFiles>>, fsDone'.puts = fsDone.puts
  PROVE  FsContentOk'
BY Zenon DEF FsContentOk

\* A caller that becomes idle.
LEMMA FsCallReturns ==
  ASSUME FsCallsOk, NEW c \in FsCallers, fsCall' = [fsCall EXCEPT ![c] = FsIdle],
         fsMem'.cps = fsMem.cps, \A r \in FsRuns : fsMem.cps[r].attempts \in Nat
  PROVE  FsCallsOk'
<1>1. FsIdle \in FsCallType /\ FsIdle.pc = "idle"
  BY Zenon DEF FsIdle, FsCallType
<1>2. fsCall' \in [FsCallers -> FsCallType]
  BY <1>1, Zenon DEF FsCallsOk
<1>3. \A d \in FsCallers : fsCall'[d].pc = "mark" => fsCall'[d] = fsCall[d]
  BY <1>1, Zenon DEF FsCallsOk
<1>4. \A r \in FsRuns : FsMarking(r)' \subseteq FsMarking(r)
  BY <1>3, Zenon DEF FsMarking
<1>5. \A r \in FsRuns : IsFiniteSet(FsMarking(r)) /\ Cardinality(FsMarking(r)) \in Nat
  BY FsAssumption, FS_Subset, FS_CardinalityType, Zenon DEF FsMarking
<1>6. \A r \in FsRuns : /\ Cardinality(FsMarking(r)') \in Nat
                        /\ Cardinality(FsMarking(r)') <= Cardinality(FsMarking(r))
  BY <1>4, <1>5, FS_Subset, FS_CardinalityType, Zenon
<1>7. \A r \in FsRuns : fsMem'.cps[r].attempts + Cardinality(FsMarking(r)') <= FsLimit
  BY <1>5, <1>6, FsLimitType DEF FsCallsOk
<1> QED BY <1>2, <1>3, <1>7, Zenon DEF FsCallsOk

\* The same for the artifacts.
LEMMA FsContentReturns ==
  ASSUME FsContentOk, FsCallsOk, NEW c \in FsCallers, fsCall' = [fsCall EXCEPT ![c] = FsIdle],
         UNCHANGED fsFiles, fsDone'.puts = fsDone.puts
  PROVE  FsContentOk'
<1>1. FsIdle.pc = "idle"
  BY Zenon DEF FsIdle
<1>2. \A d \in FsCallers : fsCall'[d].pc = "meta" => fsCall'[d] = fsCall[d]
  BY <1>1, Zenon DEF FsCallsOk
<1> QED BY <1>2 DEF FsContentOk

\* Create keeps the invariant.
LEMMA FsCreateStep == FsInv /\ FsCreate => FsInv'
<1> SUFFICES ASSUME FsInv, FsCreate PROVE FsInv'
  BY Zenon
<1> DEFINE x == FsCreated(fsMem)
           D == [fsDone EXCEPT !.plans = Append(@, fsNext)]
<1>1. FsStores /\ FsCallsOk /\ FsContentOk
  BY Zenon DEF FsInv
<1>2. FsSame /\ fsNext' = fsNext + 1 /\ FsCommitOr(x, D, fsDone) /\ UNCHANGED <<fsFiles, fsCall>>
  BY Zenon DEF FsCreate, FsCommit
<1>3. /\ x.cps = fsMem.cps /\ x.usage = fsMem.usage
      /\ D.puts = fsDone.puts /\ D.usage = fsDone.usage /\ D.saved = fsDone.saved
  BY <1>1, FsImagesOk, Zenon DEF FsCreated, FsImageType, FsDoneType
<1>4. FsImageOk(fsKind, x, fsDone, fsNext + 1) /\ fsNext \in FsHeld(x)
  BY <1>1, FsImagesOk, FsCreatedOk, Zenon
<1> HIDE DEF x
<1>5. FsImageOk(fsKind, x, D, fsNext + 1)
  BY <1>1, <1>4, FsImagesOk, FsPlanBacked, Zenon
<1>6. FsDoneOk(D)
  BY <1>1, FsImagesOk, FsBelow, FsPlanAnswered, Zenon
<1> HIDE DEF D
<1>7. fsKind = "file" => FsImageOk(fsKind, fsDisk, fsDone, fsNext + 1)
  BY <1>1, FsImagesOk, FsLater, Zenon
<1>8. FsAcked(fsMem, fsDone) => FsAcked(x, D)
  BY <1>3, Zenon DEF FsAcked
<1>9. FsStores'
  BY <1>1, <1>2, <1>4, <1>5, <1>6, <1>7, <1>8, FsImagesOk, FsCommitKeeps, Zenon
<1>10. fsMem' = x /\ fsDone' \in {D, fsDone}
  BY <1>2, Zenon DEF FsCommitOr
<1>11. FsCallsOk' /\ FsContentOk'
  BY <1>1, <1>2, <1>3, <1>10, FsCallsSame, FsContentSame, Zenon
<1> QED BY <1>9, <1>11, Zenon DEF FsInv

\* A caller reads a plan.
LEMMA FsGetPlanStep ==
  ASSUME FsInv, NEW c \in FsCallers, FsGetPlan(c)
  PROVE  FsInv'
<1>1. FsStores /\ FsCallsOk /\ FsContentOk
  BY Zenon DEF FsInv
<1>2. PICK p \in fsMem.plans : fsCall' = [fsCall EXCEPT ![c] =
          [FsIdle EXCEPT !.pc = "update", !.id = p.id, !.version = p.version]]
  BY Zenon DEF FsGetPlan
<1> DEFINE new == [FsIdle EXCEPT !.pc = "update", !.id = p.id, !.version = p.version]
<1>3. new \in FsCallType /\ new.pc = "update"
  <2>1. p.id \in Nat /\ p.version \in Nat
    BY <1>1, FsImagesOk, Zenon DEF FsImageType, FsPlanType
  <2> QED BY <2>1, Zenon DEF FsIdle, FsCallType
<1> HIDE DEF new
<1>4. fsCall' \in [FsCallers -> FsCallType] /\ fsCall[c].pc = "idle"
  BY <1>1, <1>2, <1>3, Zenon DEF FsCallsOk, FsGetPlan, new
<1>5. \A d \in FsCallers : IF d = c THEN fsCall'[d].pc = "update" ELSE fsCall'[d] = fsCall[d]
  BY <1>1, <1>2, <1>3, Zenon DEF FsCallsOk, new
<1>6. \A r \in FsRuns : FsMarking(r)' = FsMarking(r)
  BY <1>4, <1>5, Zenon DEF FsMarking
<1>7. FsStores' /\ UNCHANGED <<fsMem, fsFiles, fsDone>>
  BY <1>1, Zenon DEF FsGetPlan, FsSame, FsStores, FsImages
<1>8. FsCallsOk'
  BY <1>1, <1>4, <1>5, <1>6, <1>7, Zenon DEF FsCallsOk
<1>9. FsContentOk'
  BY <1>1, <1>5, <1>7, Zenon DEF FsContentOk
<1> QED BY <1>7, <1>8, <1>9, Zenon DEF FsInv

\* Update keeps the invariant, accepted or refused.
LEMMA FsUpdateStep ==
  ASSUME FsInv, NEW c \in FsCallers, FsUpdate(c)
  PROVE  FsInv'
<1> DEFINE id == fsCall[c].id
           v == fsCall[c].version + 1
           p == FsPlan(fsMem, id)
           d == [id |-> fsNext, plan |-> id, version |-> v]
           x == FsUpdated(fsMem, p, v, fsNext)
           D == [fsDone EXCEPT !.deltas = Append(@, d)]
<1>1. FsStores /\ FsCallsOk /\ FsContentOk
  BY Zenon DEF FsInv
<1>2. FsSame /\ fsCall' = [fsCall EXCEPT ![c] = FsIdle] /\ UNCHANGED fsFiles
  BY Zenon DEF FsUpdate
<1>a. \A r \in FsRuns : fsMem.cps[r].attempts \in Nat
  BY <1>1, FsImagesOk, Zenon DEF FsImageType, FsCpType
<1>3. CASE UNCHANGED <<fsMem, fsDisk, fsNext, fsDone, fsCount>>
  <2>1. FsStores'
    BY <1>1, <1>2, <1>3, Zenon DEF FsSame, FsStores, FsImages
  <2>2. FsCallsOk' /\ FsContentOk'
    BY <1>1, <1>2, <1>3, <1>a, FsCallReturns, FsContentReturns, Zenon
  <2> QED BY <2>1, <2>2, Zenon DEF FsInv
<1>4. CASE /\ FsHasPlan(fsMem, id) /\ FsVersionFits(p, v) /\ fsNext' = fsNext + 1
           /\ FsCommitOr([FsSetPlan(fsMem, [p EXCEPT !.version = v, !.last = fsNext])
                            EXCEPT !.deltas = Append(@, d)], D, fsDone)
  <2>1. p \in fsMem.plans /\ p.id = id
    BY <1>4, Zenon DEF FsHasPlan, FsPlan
  <2>2. id \in Nat /\ v \in Nat
    BY <1>1 DEF FsCallsOk, FsCallType
  <2>3. d \in FsDeltaType /\ d.id = fsNext
    BY <1>1, <2>2, FsImagesOk, Zenon DEF FsDeltaType
  <2>4. FsCommitOr(x, D, fsDone)
    BY <1>4, <2>1, Zenon DEF FsUpdated
  <2>5. fsKind = "mem" => v = p.version + 1
    BY <1>4, Zenon DEF FsVersionFits
  <2>6. D.puts = fsDone.puts /\ D.usage = fsDone.usage /\ D.saved = fsDone.saved
    BY <1>1, FsImagesOk, Zenon DEF FsDoneType
  <2> HIDE DEF d, p, v, id
  <2>7. FsImageOk(fsKind, x, fsDone, fsNext + 1) /\ fsNext \in FsHeld(x)
    BY <1>1, <2>1, <2>2, <2>5, FsImagesOk, FsUpdatedOk, Zenon
  <2>8. x.cps = fsMem.cps /\ x.usage = fsMem.usage
    BY <1>1, FsImagesOk, Zenon DEF FsUpdated, FsSetPlan, FsImageType
  <2> HIDE DEF x
  <2>9. FsImageOk(fsKind, x, D, fsNext + 1)
    BY <1>1, <2>3, <2>7, FsImagesOk, FsDeltaBacked, Zenon
  <2>10. FsDoneOk(D)
    <3>1. /\ \A i \in 1 .. Len(fsDone.plans) : fsDone.plans[i] < fsNext
          /\ \A i \in 1 .. Len(fsDone.deltas) : fsDone.deltas[i].id < fsNext
      BY <1>1, FsImagesOk, FsBelow, Zenon
    <3> QED BY <1>1, <2>3, <3>1, FsImagesOk, FsDeltaAnswered, Zenon
  <2> HIDE DEF D
  <2>11. fsKind = "file" => FsImageOk(fsKind, fsDisk, fsDone, fsNext + 1)
    BY <1>1, FsImagesOk, FsLater, Zenon
  <2>12. FsAcked(fsMem, fsDone) => FsAcked(x, D)
    BY <2>6, <2>8, Zenon DEF FsAcked
  <2>13. FsStores'
    BY <1>1, <1>2, <1>4, <2>4, <2>7, <2>9, <2>10, <2>11, <2>12, FsImagesOk, FsCommitKeeps, Zenon
  <2>14. fsMem' = x /\ fsDone' \in {D, fsDone}
    BY <2>4, Zenon DEF FsCommitOr
  <2>15. FsCallsOk' /\ FsContentOk'
    BY <1>1, <1>2, <1>a, <2>6, <2>8, <2>14, FsCallReturns, FsContentReturns, Zenon
  <2> QED BY <2>13, <2>15, Zenon DEF FsInv
<1> QED BY <1>3, <1>4, Zenon DEF FsUpdate, FsCommit

\* Archive keeps the invariant.
LEMMA FsArchiveStep == FsInv /\ FsArchive => FsInv'
<1> SUFFICES ASSUME FsInv, FsArchive PROVE FsInv'
  BY Zenon
<1>1. FsStores /\ FsCallsOk /\ FsContentOk
  BY Zenon DEF FsInv
<1>2. PICK p \in fsMem.plans :
         FsCommitOr(FsSetPlan(fsMem, [p EXCEPT !.archived = TRUE]), fsDone, fsDone)
  BY Zenon DEF FsArchive, FsCommit
<1> DEFINE x == FsSetPlan(fsMem, [p EXCEPT !.archived = TRUE])
<1>3. FsSame /\ UNCHANGED <<fsNext, fsFiles, fsCall>>
  BY Zenon DEF FsArchive
<1>4. FsImageOk(fsKind, x, fsDone, fsNext)
  BY <1>1, FsImagesOk, FsArchivedOk, Zenon
<1>5. x.cps = fsMem.cps /\ x.usage = fsMem.usage
  BY <1>1, FsImagesOk, Zenon DEF FsSetPlan, FsImageType
<1>6. FsCommitOr(x, fsDone, fsDone)
  BY <1>2, Zenon
<1> HIDE DEF x
<1>7. FsAcked(fsMem, fsDone) => FsAcked(x, fsDone)
  BY <1>5, Zenon DEF FsAcked
<1>8. fsNext' \in Nat \ {0} /\ fsNext' = fsNext
  BY <1>1, <1>3, Zenon DEF FsStores
<1>9. FsStores'
  BY <1>1, <1>3, <1>4, <1>6, <1>7, <1>8, FsImagesOk, FsCommitKeeps, Zenon
<1>10. fsMem' = x /\ fsDone' = fsDone
  BY <1>6, Zenon DEF FsCommitOr
<1>11. FsCallsOk' /\ FsContentOk'
  BY <1>1, <1>3, <1>5, <1>10, FsCallsSame, FsContentSame, Zenon
<1> QED BY <1>9, <1>11, Zenon DEF FsInv

\* A saved trace keeps the invariant.
LEMMA FsSaveTraceStep == FsInv /\ FsSaveTrace => FsInv'
<1> SUFFICES ASSUME FsInv, FsSaveTrace PROVE FsInv'
  BY Zenon
<1> DEFINE x == [fsMem EXCEPT !.traces = @ \cup {fsNext + 1}]
           D == [fsDone EXCEPT !.traces = Append(@, fsNext + 1)]
<1>1. FsStores /\ FsCallsOk /\ FsContentOk
  BY Zenon DEF FsInv
<1>2. FsSame /\ fsNext' = fsNext + 1 /\ FsCommitOr(x, D, fsDone) /\ UNCHANGED <<fsFiles, fsCall>>
  BY Zenon DEF FsSaveTrace, FsCommit
<1>3. /\ x.cps = fsMem.cps /\ x.usage = fsMem.usage
      /\ D.puts = fsDone.puts /\ D.usage = fsDone.usage /\ D.saved = fsDone.saved
  BY <1>1, FsImagesOk, Zenon DEF FsImageType, FsDoneType
<1>4. FsImageOk(fsKind, x, fsDone, fsNext + 1) /\ fsNext + 1 \in x.traces
  BY <1>1, FsImagesOk, FsTracedOk, Zenon
<1> HIDE DEF x
<1>5. FsImageOk(fsKind, x, D, fsNext + 1)
  BY <1>1, <1>4, FsImagesOk, FsTraceBacked, Zenon
<1>6. FsDoneOk(D)
  BY <1>1, FsImagesOk, FsBelow, FsTraceAnswered, Zenon
<1> HIDE DEF D
<1>7. fsKind = "file" => FsImageOk(fsKind, fsDisk, fsDone, fsNext + 1)
  BY <1>1, FsImagesOk, FsLater, Zenon
<1>8. FsAcked(fsMem, fsDone) => FsAcked(x, D)
  BY <1>3, Zenon DEF FsAcked
<1>9. FsStores'
  BY <1>1, <1>2, <1>4, <1>5, <1>6, <1>7, <1>8, FsImagesOk, FsCommitKeeps, Zenon
<1>10. fsMem' = x /\ fsDone' \in {D, fsDone}
  BY <1>2, Zenon DEF FsCommitOr
<1>11. FsCallsOk' /\ FsContentOk'
  BY <1>1, <1>2, <1>3, <1>10, FsCallsSame, FsContentSame, Zenon
<1> QED BY <1>9, <1>11, Zenon DEF FsInv

\* An answer from the image alone.
LEMMA FsAnswered ==
  ASSUME FsStores, FsSame, UNCHANGED <<fsMem, fsDisk, fsNext>>,
         fsCount' = [fsCount EXCEPT !.ops = @ + 1],
         fsDone'.plans = fsDone.plans, fsDone'.deltas = fsDone.deltas,
         fsDone'.traces = fsDone.traces, fsDone'.resumes = fsDone.resumes,
         fsDone'.puts = fsDone.puts, fsDone'.decs = fsDone.decs, fsDone' \in FsDoneType,
         FsAcked(fsMem, fsDone) => FsAcked(fsMem, fsDone')
  PROVE  FsStores'
<1>1. fsCount' \in FsCountType /\ fsCount'.failures = fsCount.failures
  BY DEF FsStores, FsCountType
<1>2. FsDoneOk(fsDone')
  BY DEF FsStores, FsDoneOk
<1>3. FsImages' = FsImages
  BY Zenon DEF FsSame, FsImages
<1>4. \A m \in FsImages : FsImageOk(fsKind, m, fsDone', fsNext)
  BY Zenon DEF FsStores, FsImageOk, FsIdsOk, FsAttemptsOk, FsRefsOk
<1> QED BY <1>1, <1>2, <1>3, <1>4, Zenon DEF FsStores, FsSame

\* Record keeps the invariant, for a new key and for a replayed one.
LEMMA FsRecordStep == FsInv /\ FsRecord => FsInv'
<1> SUFFICES ASSUME FsInv, FsRecord PROVE FsInv'
  BY Zenon
<1>1. FsStores /\ FsCallsOk /\ FsContentOk
  BY Zenon DEF FsInv
<1>2. FsSame /\ UNCHANGED <<fsNext, fsFiles, fsCall>>
  BY Zenon DEF FsRecord
<1>3. PICK k \in FsKeys, r \in FsRuns :
         LET rec == [key |-> k, run |-> r]
             done == [fsDone EXCEPT !.usage = @ \cup {k}]
         IN IF FsKnownKey(rec)
            THEN /\ fsDone' = done
                 /\ fsCount' = [fsCount EXCEPT !.ops = @ + 1]
                 /\ UNCHANGED <<fsMem, fsDisk>>
            ELSE FsCommit([fsMem EXCEPT !.usage = Append(@, rec)], done)
  BY Zenon DEF FsRecord
<1> DEFINE rec == [key |-> k, run |-> r]
           D == [fsDone EXCEPT !.usage = @ \cup {k}]
           x == [fsMem EXCEPT !.usage = Append(@, rec)]
<1>4. /\ D \in FsDoneType /\ D.plans = fsDone.plans /\ D.deltas = fsDone.deltas
      /\ D.traces = fsDone.traces /\ D.resumes = fsDone.resumes /\ D.puts = fsDone.puts
      /\ D.decs = fsDone.decs /\ D.usage = fsDone.usage \cup {k} /\ D.saved = fsDone.saved
  <2>1. fsDone.usage \cup {k} \in SUBSET FsKeys
    BY <1>1, FsImagesOk, Zenon DEF FsDoneType
  <2> QED BY <1>1, <2>1, FsImagesOk, Zenon DEF FsDoneType
<1>5. CASE FsKnownKey(rec)
  <2>1. /\ fsDone' = D /\ fsCount' = [fsCount EXCEPT !.ops = @ + 1]
        /\ UNCHANGED <<fsMem, fsDisk>>
    BY <1>3, <1>5, Zenon
  <2>2. \E i \in 1 .. Len(fsMem.usage) : fsMem.usage[i].key = k
    BY <1>5, Zenon DEF FsKnownKey
  <2> HIDE DEF D
  <2>3. FsAcked(fsMem, fsDone) => FsAcked(fsMem, D)
    BY <1>4, <2>2, Zenon DEF FsAcked
  <2>4. FsStores'
    BY <1>1, <1>2, <1>4, <2>1, <2>3, FsAnswered, Zenon
  <2>5. FsCallsOk' /\ FsContentOk'
    BY <1>1, <1>2, <1>4, <2>1, FsCallsSame, FsContentSame, Zenon
  <2> QED BY <2>4, <2>5, Zenon DEF FsInv
<1>6. CASE ~FsKnownKey(rec)
  <2>1. FsCommitOr(x, D, fsDone)
    BY <1>3, <1>6, Zenon DEF FsCommit
  <2>2. rec \in [key : FsKeys, run : FsRuns] /\ rec.key = k
    BY Zenon
  <2>3. \A i \in 1 .. Len(fsMem.usage) : fsMem.usage[i].key # rec.key
    BY <1>6, Zenon DEF FsKnownKey
  <2>x. x.cps = fsMem.cps
    BY <1>1, FsImagesOk, Zenon DEF FsImageType
  <2> HIDE DEF rec
  <2>4. /\ FsImageOk(fsKind, x, fsDone, fsNext) /\ FsImageOk(fsKind, x, D, fsNext)
        /\ FsAcked(fsMem, fsDone) => FsAcked(x, D)
    BY <1>1, <2>2, <2>3, FsImagesOk, FsRecordedOk, Zenon
  <2> HIDE DEF x, D
  <2>5. FsDoneOk(D)
    BY <1>1, <1>4, Zenon DEF FsStores, FsDoneOk
  <2>6. fsNext' \in Nat \ {0} /\ fsNext' = fsNext
    BY <1>1, <1>2, Zenon DEF FsStores
  <2>7. FsStores'
    BY <1>1, <1>2, <2>1, <2>4, <2>5, <2>6, FsImagesOk, FsCommitKeeps, Zenon
  <2>8. fsMem' = x /\ fsDone' \in {D, fsDone}
    BY <2>1, Zenon DEF FsCommitOr
  <2>9. FsCallsOk' /\ FsContentOk'
    BY <1>1, <1>2, <1>4, <2>8, <2>x, FsCallsSame, FsContentSame, Zenon
  <2> QED BY <2>7, <2>9, Zenon DEF FsInv
<1> QED BY <1>5, <1>6, Zenon

\* The callers between Resume's test and its mark are among the callers.
LEMMA FsMarkingSize ==
  \A r : /\ IsFiniteSet(FsMarking(r)) /\ Cardinality(FsMarking(r)) \in Nat
         /\ Cardinality(FsMarking(r)) <= Cardinality(FsCallers)
<1>1. \A r : FsMarking(r) \subseteq FsCallers
  BY Zenon DEF FsMarking
<1> QED BY <1>1, FsAssumption, FS_Subset, FS_CardinalityType, Zenon

\* A saved checkpoint keeps the invariant, also one that is already there.
LEMMA FsSaveCpStep == FsInv /\ FsSaveCp => FsInv'
<1> SUFFICES ASSUME FsInv, FsSaveCp PROVE FsInv'
  BY Zenon
<1>1. FsStores /\ FsCallsOk /\ FsContentOk
  BY Zenon DEF FsInv
<1>2. FsSame /\ UNCHANGED <<fsNext, fsFiles, fsCall>>
  BY Zenon DEF FsSaveCp
<1>3. PICK r \in FsRuns, t \in FsTurns, st \in {"running", "Completed"} :
         LET done == [fsDone EXCEPT !.saved = {s \in @ : s[1] # r} \cup {<<r, t>>}] IN
         IF fsMem.cps[r].turn = t
         THEN /\ fsDone' = done
              /\ fsCount' = [fsCount EXCEPT !.ops = @ + 1]
              /\ UNCHANGED <<fsMem, fsDisk>>
         ELSE FsCommitOr(FsSavedCp(fsMem, r, t, st),
                         [done EXCEPT !.resumes[r] = 0], [fsDone EXCEPT !.resumes[r] = 0])
  BY Zenon DEF FsSaveCp
<1> DEFINE rows == {s \in fsDone.saved : s[1] # r} \cup {<<r, t>>}
           D == [fsDone EXCEPT !.saved = {s \in @ : s[1] # r} \cup {<<r, t>>}]
           E == [D EXCEPT !.resumes[r] = 0]
           F == [fsDone EXCEPT !.resumes[r] = 0]
           cp == [turn |-> t, attempts |-> 0, state |-> st]
           x == [fsMem EXCEPT !.cps[r] = cp]
<1>4. rows \in SUBSET (FsRuns \X FsTurns)
  BY <1>1, FsImagesOk DEF FsDoneType
<1>5. /\ D \in FsDoneType /\ D.plans = fsDone.plans /\ D.deltas = fsDone.deltas
      /\ D.traces = fsDone.traces /\ D.resumes = fsDone.resumes /\ D.puts = fsDone.puts
      /\ D.decs = fsDone.decs /\ D.usage = fsDone.usage /\ D.saved = rows
  <2> HIDE DEF rows
  <2>1. D = [fsDone EXCEPT !.saved = rows]
    BY Zenon DEF rows
  <2> HIDE DEF D
  <2> QED BY <1>1, <1>4, <2>1, FsImagesOk, Zenon DEF FsDoneType
<1>6. FsDoneOk(D)
  <2> HIDE DEF D, rows
  <2> QED BY <1>1, <1>5 DEF FsStores, FsDoneOk
<1>7. CASE fsMem.cps[r].turn = t
  <2>1. /\ fsDone' = D /\ fsCount' = [fsCount EXCEPT !.ops = @ + 1]
        /\ UNCHANGED <<fsMem, fsDisk>>
    BY <1>3, <1>7, Zenon
  <2>2. FsAcked(fsMem, fsDone) => FsAcked(fsMem, D)
    <3> HIDE DEF D
    <3> QED BY <1>5, <1>7 DEF FsAcked
  <2> HIDE DEF D, rows
  <2>4. FsStores'
    BY <1>1, <1>2, <1>5, <2>1, <2>2, FsAnswered, Zenon
  <2>5. FsCallsOk' /\ FsContentOk'
    BY <1>1, <1>2, <1>5, <2>1, FsCallsSame, FsContentSame, Zenon
  <2> QED BY <2>4, <2>5, Zenon DEF FsInv
<1>8. CASE fsMem.cps[r].turn # t
  <2>1. FsCommitOr(x, E, F)
    BY <1>3, <1>8, Zenon DEF FsSavedCp
  <2>2. cp \in FsCpType /\ cp.attempts = 0 /\ cp.turn = t /\ 0 <= FsLimit
    BY FsLimitType DEF FsCpType
  <2>3. /\ x.usage = fsMem.usage /\ x.cps[r] = cp
        /\ \A o \in FsRuns \ {r} : x.cps[o] = fsMem.cps[o]
    <3> HIDE DEF cp
    <3> QED BY <1>1, FsImagesOk, Zenon DEF FsImageType
  <2>4. /\ FsDoneOk(F) /\ FsImageOk(fsKind, fsMem, F, fsNext)
        /\ fsKind = "file" => FsImageOk(fsKind, fsDisk, F, fsNext)
    BY <1>1, FsImagesOk, FsResumesReset, Zenon
  <2>5. /\ F.plans = fsDone.plans /\ F.deltas = fsDone.deltas /\ F.traces = fsDone.traces
        /\ F.puts = fsDone.puts /\ F.decs = fsDone.decs /\ F.resumes[r] = 0
        /\ \A o \in FsRuns \ {r} : F.resumes[o] = fsDone.resumes[o]
    BY <1>1, FsImagesOk, Zenon DEF FsDoneType
  <2> HIDE DEF rows, D
  <2>6. FsImageOk(fsKind, fsMem, D, fsNext)
    <3>1. FsImageOk(fsKind, fsMem, fsDone, fsNext)
      BY <1>1, FsImagesOk, Zenon
    <3> QED BY <1>5, <3>1, Zenon DEF FsImageOk, FsIdsOk, FsAttemptsOk, FsRefsOk
  <2>7. FsDoneOk(E)
    BY <1>6, <2>6, FsResumesReset, Zenon
  <2>8. /\ E.plans = fsDone.plans /\ E.deltas = fsDone.deltas /\ E.traces = fsDone.traces
        /\ E.puts = fsDone.puts /\ E.decs = fsDone.decs /\ E.resumes[r] = 0
        /\ \A o \in FsRuns \ {r} : E.resumes[o] = fsDone.resumes[o]
        /\ E.usage = fsDone.usage /\ E.saved = rows
    BY <1>5, Zenon DEF FsDoneType
  <2> HIDE DEF cp, E, F
  <2>9. FsImageOk(fsKind, x, E, fsNext)
    BY <1>1, <2>2, <2>8, FsImagesOk, FsCpOk
  <2>10. FsImageOk(fsKind, x, F, fsNext)
    BY <1>1, <2>2, <2>5, FsImagesOk, FsCpOk
  <2> HIDE DEF x
  <2>11. FsAcked(fsMem, fsDone) => FsAcked(x, E)
    <3> SUFFICES ASSUME FsAcked(fsMem, fsDone) PROVE FsAcked(x, E)
      BY Zenon
    <3>1. \A s \in rows : x.cps[s[1]].turn = s[2]
      <4> TAKE s \in rows
      <4>1. CASE s = <<r, t>>
        BY <2>2, <2>3, <4>1, Zenon
      <4>2. CASE s \in fsDone.saved /\ s[1] # r
        <5>1. s[1] \in FsRuns \ {r}
          BY <1>1, <4>2, FsImagesOk, Zenon DEF FsDoneType
        <5> QED BY <2>3, <4>2, <5>1, Zenon DEF FsAcked
      <4> QED BY <4>1, <4>2, Zenon DEF rows
    <3> QED BY <2>3, <2>8, <3>1 DEF FsAcked
  <2>12. fsNext' \in Nat \ {0} /\ fsNext' = fsNext
    BY <1>1, <1>2, Zenon DEF FsStores
  <2>13. FsStores'
    BY <1>1, <1>2, <2>1, <2>4, <2>7, <2>9, <2>10, <2>11, <2>12, FsCommitKeeps, Zenon
  <2>14. fsMem' = x /\ fsDone' \in {E, F}
    BY <2>1, Zenon DEF FsCommitOr
  <2>15. FsCallsOk'
    <3>1. \A o : FsMarking(o)' = FsMarking(o)
      BY <1>2, Zenon DEF FsMarking
    <3>2. \A o \in FsRuns : x.cps[o].attempts + Cardinality(FsMarking(o)) <= FsLimit
      <4> TAKE o \in FsRuns
      <4>1. CASE o = r
        BY <2>2, <2>3, <4>1, FsMarkingSize, FsLimitType, FsAssumption DEF FsLimit
      <4>2. CASE o # r
        BY <1>1, <2>3, <4>2, Zenon DEF FsCallsOk
      <4> QED BY <4>1, <4>2, Zenon
    <3> QED BY <1>1, <1>2, <2>14, <3>1, <3>2, Zenon DEF FsCallsOk
  <2>16. FsContentOk'
    BY <1>1, <1>2, <2>5, <2>8, <2>14, FsContentSame, Zenon
  <2> QED BY <2>13, <2>15, <2>16, Zenon DEF FsInv
<1> QED BY <1>7, <1>8, Zenon

\* Resume's test lets a caller in below the cap.
LEMMA FsResumeGetStep ==
  ASSUME FsInv, NEW c \in FsCallers, FsResumeGet(c)
  PROVE  FsInv'
<1>1. FsStores /\ FsCallsOk /\ FsContentOk
  BY Zenon DEF FsInv
<1>2. PICK r \in FsRuns : /\ FsResumable(fsMem.cps[r])
                          /\ fsCall' = [fsCall EXCEPT ![c] = [FsIdle EXCEPT !.pc = "mark", !.run = r]]
  BY Zenon DEF FsResumeGet
<1> DEFINE new == [FsIdle EXCEPT !.pc = "mark", !.run = r]
<1>3. new \in FsCallType /\ new.pc = "mark" /\ new.run = r
  BY Zenon DEF FsIdle, FsCallType
<1> HIDE DEF new
<1>4. fsCall' \in [FsCallers -> FsCallType] /\ fsCall[c].pc = "idle"
  BY <1>1, <1>2, <1>3, Zenon DEF FsCallsOk, FsResumeGet, new
<1>5. \A d \in FsCallers : IF d = c THEN fsCall'[d].pc = "mark" /\ fsCall'[d].run = r
                           ELSE fsCall'[d] = fsCall[d]
  BY <1>1, <1>2, <1>3, Zenon DEF FsCallsOk, new
<1>6. FsStores' /\ UNCHANGED <<fsMem, fsFiles, fsDone>>
  BY <1>1, Zenon DEF FsResumeGet, FsSame, FsStores, FsImages
<1>7. \A o \in FsRuns : fsMem.cps[o].attempts + Cardinality(FsMarking(o)') <= FsLimit
  <2> TAKE o \in FsRuns
  <2>1. CASE o = r
    <3>1. fsMem.cps[r].attempts \in Nat /\ fsMem.cps[r].attempts < FsMaxAttempts
      BY <1>1, <1>2, FsImagesOk, Zenon DEF FsImageType, FsCpType, FsResumable
    <3>2. FsMarking(r)' \subseteq FsCallers
      BY Zenon DEF FsMarking
    <3>3. Cardinality(FsMarking(r)') \in Nat /\ Cardinality(FsMarking(r)') <= Cardinality(FsCallers)
      BY <3>2, FsAssumption, FS_Subset, FS_CardinalityType, Zenon
    <3> QED BY <2>1, <3>1, <3>3, FsAssumption, FsLimitType DEF FsLimit
  <2>2. CASE o # r
    <3>1. FsMarking(o)' = FsMarking(o)
      BY <1>4, <1>5, <2>2, Zenon DEF FsMarking
    <3> QED BY <1>1, <3>1, Zenon DEF FsCallsOk
  <2> QED BY <2>1, <2>2, Zenon
<1>8. FsCallsOk'
  BY <1>1, <1>4, <1>5, <1>6, <1>7, Zenon DEF FsCallsOk
<1>9. FsContentOk'
  BY <1>1, <1>5, <1>6, Zenon DEF FsContentOk
<1> QED BY <1>6, <1>8, <1>9, Zenon DEF FsInv

\* MarkResumeAttempt spends one of the callers that passed the test.
LEMMA FsResumeMarkStep ==
  ASSUME FsInv, NEW c \in FsCallers, FsResumeMark(c)
  PROVE  FsInv'
<1>1. FsStores /\ FsCallsOk /\ FsContentOk
  BY Zenon DEF FsInv
<1>3. PICK r \in FsRuns : r = fsCall[c].run /\ fsCall[c].pc = "mark"
  BY <1>1, Zenon DEF FsResumeMark, FsCallsOk
<1> DEFINE a == fsMem.cps[r].attempts
           cp == [fsMem.cps[r] EXCEPT !.attempts = a + 1]
           x == [fsMem EXCEPT !.cps[r] = cp]
           D == [fsDone EXCEPT !.resumes[r] = @ + 1]
<1>2. FsSame /\ UNCHANGED <<fsNext, fsFiles>> /\ fsCall' = [fsCall EXCEPT ![c] = FsIdle]
  BY Zenon DEF FsResumeMark
<1>4. fsMem.cps[r] \in FsCpType /\ a \in Nat
  BY <1>1, <1>3, FsImagesOk, Zenon DEF FsImageType, FsCpType
<1>5. FsMarked(fsMem, r) = x
  BY <1>1, <1>3, <1>4, FsImagesOk, Zenon DEF FsMarked, FsImageType, FsCpType
<1>6. FsCommitOr(x, D, fsDone)
  BY <1>3, <1>5, Zenon DEF FsResumeMark, FsCommit
<1>7. cp \in FsCpType /\ cp.attempts = a + 1 /\ cp.turn = fsMem.cps[r].turn
  BY <1>4 DEF FsCpType
<1> HIDE DEF cp
<1>8. /\ x.usage = fsMem.usage /\ x.cps[r] = cp
      /\ \A o \in FsRuns \ {r} : x.cps[o] = fsMem.cps[o]
  BY <1>1, <1>3, FsImagesOk, Zenon DEF FsImageType
<1>9. IsFiniteSet(FsMarking(r)) /\ c \in FsMarking(r)
  BY <1>3, FsMarkingSize, Zenon DEF FsMarking
<1>10. /\ FsMarking(r)' = FsMarking(r) \ {c}
       /\ \A o \in FsRuns \ {r} : FsMarking(o)' = FsMarking(o)
  <2>1. FsIdle.pc = "idle"
    BY Zenon DEF FsIdle
  <2>2. \A d \in FsCallers : IF d = c THEN fsCall'[d].pc = "idle" ELSE fsCall'[d] = fsCall[d]
    BY <1>1, <1>2, <2>1, Zenon DEF FsCallsOk
  <2> HIDE DEF a, x, D
  <2> QED BY <1>3, <2>2, Zenon DEF FsMarking
<1>11. /\ Cardinality(FsMarking(r)) \in Nat /\ Cardinality(FsMarking(r)) >= 1
       /\ Cardinality(FsMarking(r)') = Cardinality(FsMarking(r)) - 1
  <2>1. Cardinality(FsMarking(r)') = Cardinality(FsMarking(r)) - 1
    BY <1>9, <1>10, FS_RemoveElement, Zenon
  <2>2. Cardinality(FsMarking(r)') \in Nat
    BY <1>9, <1>10, FS_Subset, FS_CardinalityType, Zenon
  <2> QED BY <1>9, <2>1, <2>2, FS_CardinalityType
<1>12. a + 1 <= FsLimit
  BY <1>1, <1>3, <1>4, <1>11, FsLimitType DEF FsCallsOk
<1>13. /\ D \in FsDoneType
       /\ D.plans = fsDone.plans /\ D.deltas = fsDone.deltas /\ D.traces = fsDone.traces
       /\ D.puts = fsDone.puts /\ D.decs = fsDone.decs /\ D.resumes[r] = fsDone.resumes[r] + 1
       /\ \A o \in FsRuns \ {r} : D.resumes[o] = fsDone.resumes[o]
       /\ D.usage = fsDone.usage /\ D.saved = fsDone.saved /\ fsDone.resumes[r] \in Nat
  <2> DEFINE table == [fsDone.resumes EXCEPT ![r] = @ + 1]
  <2>0. fsDone \in FsDoneType /\ fsDone.resumes \in [FsRuns -> Nat]
    BY <1>1, FsImagesOk, Zenon DEF FsDoneType
  <2>1. /\ table \in [FsRuns -> Nat] /\ table[r] = fsDone.resumes[r] + 1
        /\ \A o \in FsRuns \ {r} : table[o] = fsDone.resumes[o]
    BY <1>3, <2>0
  <2>2. D = [fsDone EXCEPT !.resumes = table]
    BY <2>0, Zenon DEF FsDoneType
  <2> HIDE DEF D, table
  <2> QED BY <1>3, <2>0, <2>1, <2>2, Zenon DEF FsDoneType
<1> HIDE DEF D
<1>14. FsDoneOk(D)
  BY <1>1, <1>13 DEF FsStores, FsDoneOk
<1>15. fsDone.resumes[r] <= a
  BY <1>1, <1>3, FsImagesOk, Zenon DEF FsImageOk, FsAttemptsOk
<1>a. /\ cp.attempts <= FsLimit /\ D.resumes[r] <= cp.attempts
      /\ fsDone.resumes[r] <= cp.attempts
  <2> HIDE DEF a
  <2> QED BY <1>4, <1>7, <1>12, <1>13, <1>15
<1>16. FsImageOk(fsKind, x, D, fsNext)
  BY <1>1, <1>3, <1>7, <1>13, <1>a, FsImagesOk, FsCpOk
<1>17. FsImageOk(fsKind, x, fsDone, fsNext)
  BY <1>1, <1>3, <1>7, <1>a, FsImagesOk, FsCpOk, Zenon
<1> HIDE DEF x
<1>18. FsAcked(fsMem, fsDone) => FsAcked(x, D)
  <2>1. \A s \in fsDone.saved : s[1] \in FsRuns
    BY <1>1, FsImagesOk, Zenon DEF FsDoneType
  <2> QED BY <1>7, <1>8, <1>13, <2>1 DEF FsAcked
<1>19. fsNext' \in Nat \ {0} /\ fsNext' = fsNext
  BY <1>1, <1>2, Zenon DEF FsStores
<1>20. FsStores'
  BY <1>1, <1>2, <1>6, <1>14, <1>16, <1>17, <1>18, <1>19, FsImagesOk, FsCommitKeeps, Zenon
<1>21. fsMem' = x /\ fsDone' \in {D, fsDone}
  BY <1>6, Zenon DEF FsCommitOr
<1>22. FsCallsOk'
  <2>1. FsIdle \in FsCallType /\ FsIdle.pc = "idle"
    BY Zenon DEF FsIdle, FsCallType
  <2>2. /\ fsCall' \in [FsCallers -> FsCallType]
        /\ \A d \in FsCallers : fsCall'[d].pc = "mark" => fsCall'[d].run \in FsRuns
    BY <1>1, <1>2, <2>1, Zenon DEF FsCallsOk
  <2>3. \A o \in FsRuns : x.cps[o].attempts + Cardinality(FsMarking(o)') <= FsLimit
    <3> TAKE o \in FsRuns
    <3>1. CASE o = r
      <4>1. a + Cardinality(FsMarking(r)) <= FsLimit
        BY <1>1, <1>3, Zenon DEF FsCallsOk
      <4> HIDE DEF a
      <4> QED BY <1>4, <1>7, <1>8, <1>11, <3>1, <4>1, FsLimitType
    <3>2. CASE o # r
      BY <1>1, <1>8, <1>10, <3>2, Zenon DEF FsCallsOk
    <3> QED BY <3>1, <3>2, Zenon
  <2> QED BY <1>21, <2>2, <2>3, Zenon DEF FsCallsOk
<1>23. FsContentOk'
  BY <1>1, <1>2, <1>13, <1>21, FsContentReturns, Zenon
<1> QED BY <1>20, <1>22, <1>23, Zenon DEF FsInv

\* The answer of a Put.
LEMMA FsPutDone ==
  ASSUME FsStores, NEW f \in FsRefs
  PROVE  LET D == FsPutAcked(f) IN
         /\ FsDoneOk(D) /\ D.plans = fsDone.plans /\ D.deltas = fsDone.deltas
         /\ D.traces = fsDone.traces /\ D.resumes = fsDone.resumes /\ D.decs = fsDone.decs
         /\ D.usage = fsDone.usage /\ D.saved = fsDone.saved
         /\ D.puts[f] = fsDone.puts[f] + 1 /\ \A o \in FsRefs \ {f} : D.puts[o] = fsDone.puts[o]
<1> DEFINE D == FsPutAcked(f)
           table == [fsDone.puts EXCEPT ![f] = @ + 1]
<1>0. fsDone \in FsDoneType /\ fsDone.puts \in [FsRefs -> Nat]
  BY FsImagesOk, Zenon DEF FsDoneType
<1>1. /\ table \in [FsRefs -> Nat] /\ table[f] = fsDone.puts[f] + 1
      /\ \A o \in FsRefs \ {f} : table[o] = fsDone.puts[o]
  BY <1>0
<1>2. D = [fsDone EXCEPT !.puts = table]
  BY <1>0, Zenon DEF FsDoneType, FsPutAcked
<1> HIDE DEF D, table
<1>3. /\ D \in FsDoneType /\ D.plans = fsDone.plans /\ D.deltas = fsDone.deltas
      /\ D.traces = fsDone.traces /\ D.resumes = fsDone.resumes /\ D.decs = fsDone.decs
      /\ D.usage = fsDone.usage /\ D.saved = fsDone.saved /\ D.puts = table
  BY <1>0, <1>1, <1>2, Zenon DEF FsDoneType
<1>4. FsDoneOk(D)
  BY <1>3 DEF FsStores, FsDoneOk
<1> QED BY <1>1, <1>3, <1>4, Zenon DEF D

\* The numbers behind a ref.
LEMMA FsRefTypes ==
  ASSUME FsStores, NEW f \in FsRefs
  PROVE  /\ fsMem.meta[f] \in Int /\ fsDone.puts[f] \in Nat /\ fsDone.decs[f] \in Nat
         /\ fsDone.puts[f] > 0 => fsMem.meta[f] >= fsDone.puts[f] - fsDone.decs[f]
         /\ fsMem.meta[f] >= 0 => fsMem.meta[f] + fsDone.decs[f] >= 1
BY FsImagesOk, Zenon DEF FsImageOk, FsImageType, FsDoneType, FsRefsOk

\* Put of content that is there counts it; new content gets its file.
LEMMA FsPutContentStep ==
  ASSUME FsInv, NEW c \in FsCallers, FsPutContent(c)
  PROVE  FsInv'
<1>1. FsStores /\ FsCallsOk /\ FsContentOk
  BY Zenon DEF FsInv
<1>2. FsSame /\ UNCHANGED fsNext /\ fsCall[c].pc = "idle" /\ \A d \in FsCallers : fsCall[d].pc # "meta"
  BY Zenon DEF FsPutContent
<1>3. ASSUME NEW f \in FsRefs, f \in fsFiles, fsMem.meta[f] >= 0,
             FsCommit([fsMem EXCEPT !.meta = FsInc(@, f)], FsPutAcked(f)),
             UNCHANGED <<fsFiles, fsCall>>
      PROVE  FsInv'
  <2> DEFINE k == fsMem.meta[f] + 1
             x == [fsMem EXCEPT !.meta = [@ EXCEPT ![f] = k]]
             D == FsPutAcked(f)
  <2>1. FsCommitOr(x, D, fsDone)
    BY <1>1, <1>3, FsImagesOk, Zenon DEF FsCommit, FsInc, FsImageType
  <2>2. x.cps = fsMem.cps /\ x.usage = fsMem.usage
    BY <1>1, FsImagesOk, Zenon DEF FsImageType
  <2>3. /\ FsDoneOk(D) /\ D.plans = fsDone.plans /\ D.deltas = fsDone.deltas
        /\ D.traces = fsDone.traces /\ D.resumes = fsDone.resumes /\ D.decs = fsDone.decs
        /\ D.usage = fsDone.usage /\ D.saved = fsDone.saved
        /\ D.puts[f] = fsDone.puts[f] + 1 /\ \A o \in FsRefs \ {f} : D.puts[o] = fsDone.puts[o]
    BY <1>1, FsPutDone, Zenon
  <2>4. /\ k \in Int /\ k + fsDone.decs[f] >= 1 /\ k >= D.puts[f] - D.decs[f]
        /\ fsDone.puts[f] > 0 => k >= fsDone.puts[f] - fsDone.decs[f]
    BY <1>1, <1>3, <2>3, FsRefTypes
  <2> HIDE DEF k, D
  <2>5. FsImageOk(fsKind, x, D, fsNext)
    BY <1>1, <2>3, <2>4, FsImagesOk, FsMetaOk
  <2>6. FsImageOk(fsKind, x, fsDone, fsNext)
    BY <1>1, <2>4, FsImagesOk, FsMetaOk, Zenon
  <2> HIDE DEF x
  <2>7. FsAcked(fsMem, fsDone) => FsAcked(x, D)
    BY <2>2, <2>3 DEF FsAcked
  <2>8. fsNext' \in Nat \ {0} /\ fsNext' = fsNext
    BY <1>1, <1>2, Zenon DEF FsStores
  <2>9. FsStores'
    BY <1>1, <1>2, <2>1, <2>3, <2>5, <2>6, <2>7, <2>8, FsImagesOk, FsCommitKeeps, Zenon
  <2>10. fsMem' = x /\ fsDone' \in {D, fsDone}
    BY <2>1, Zenon DEF FsCommitOr
  <2>11. FsCallsOk'
    BY <1>1, <1>3, <2>2, <2>10, FsCallsSame, Zenon
  <2>12. \A o \in FsRefs : fsDone'.puts[o] > 0 => o \in fsFiles
    BY <1>1, <1>3, <2>3, <2>10, Zenon DEF FsContentOk
  <2>13. FsContentOk'
    BY <1>2, <1>3, <2>12, Zenon DEF FsContentOk
  <2> QED BY <2>9, <2>11, <2>13, Zenon DEF FsInv
<1>4. ASSUME NEW f \in FsRefs, f \notin fsFiles, fsFiles' = fsFiles \cup {f},
             fsCall' = [fsCall EXCEPT ![c] = [FsIdle EXCEPT !.pc = "meta", !.ref = f]],
             UNCHANGED <<fsMem, fsDisk, fsDone, fsCount>>
      PROVE  FsInv'
  <2> DEFINE new == [FsIdle EXCEPT !.pc = "meta", !.ref = f]
  <2>1. new \in FsCallType /\ new.pc = "meta" /\ new.ref = f
    BY Zenon DEF FsIdle, FsCallType
  <2> HIDE DEF new
  <2>2. fsCall' \in [FsCallers -> FsCallType]
    BY <1>1, <1>4, <2>1, Zenon DEF FsCallsOk, new
  <2>3. \A d \in FsCallers : IF d = c THEN fsCall'[d].pc = "meta" /\ fsCall'[d].ref = f
                             ELSE fsCall'[d] = fsCall[d]
    BY <1>1, <1>4, <2>1, Zenon DEF FsCallsOk, new
  <2>4. \A o : FsMarking(o)' = FsMarking(o)
    BY <1>2, <2>3, Zenon DEF FsMarking
  <2>5. FsStores'
    BY <1>1, <1>2, <1>4, Zenon DEF FsSame, FsStores, FsImages
  <2>6. FsCallsOk'
    BY <1>1, <1>4, <2>2, <2>3, <2>4, Zenon DEF FsCallsOk
  <2>7. fsDone.puts[f] = 0
    BY <1>1, <1>4, FsRefTypes DEF FsContentOk
  <2>8. FsContentOk'
    BY <1>1, <1>2, <1>4, <2>3, <2>7 DEF FsContentOk
  <2> QED BY <2>5, <2>6, <2>8, Zenon DEF FsInv
<1> QED BY <1>3, <1>4, Zenon DEF FsPutContent

\* Put of the row keeps the invariant, also when it fails and removes the file.
LEMMA FsPutMetaStep ==
  ASSUME FsInv, NEW c \in FsCallers, FsPutMeta(c)
  PROVE  FsInv'
<1>1. FsStores /\ FsCallsOk /\ FsContentOk
  BY Zenon DEF FsInv
<1>2. FsSame /\ UNCHANGED fsNext /\ fsCall' = [fsCall EXCEPT ![c] = FsIdle]
  BY Zenon DEF FsPutMeta
<1>3. PICK f \in FsRefs : f = fsCall[c].ref /\ fsCall[c].pc = "meta" /\ f \in fsFiles
                          /\ fsDone.puts[f] = 0
  BY <1>1, Zenon DEF FsPutMeta, FsContentOk
<1> DEFINE k == IF fsMem.meta[f] < 0 THEN 1 ELSE fsMem.meta[f]
           x == [fsMem EXCEPT !.meta = [@ EXCEPT ![f] = k]]
           D == FsPutAcked(f)
<1>4. FsCommitOr(x, D, fsDone)
  <2>1. FsMetaPut(fsMem, f) = x
    BY <1>1, FsImagesOk, Zenon DEF FsMetaPut, FsImageType
  <2> QED BY <1>3, <2>1, Zenon DEF FsPutMeta, FsCommit
<1>5. fsFiles' = IF fsCount'.failures > fsCount.failures THEN fsFiles \ {f} ELSE fsFiles
  BY <1>3, Zenon DEF FsPutMeta
<1>6. x.cps = fsMem.cps /\ x.usage = fsMem.usage
  BY <1>1, FsImagesOk, Zenon DEF FsImageType
<1>7. /\ FsDoneOk(D) /\ D.plans = fsDone.plans /\ D.deltas = fsDone.deltas
      /\ D.traces = fsDone.traces /\ D.resumes = fsDone.resumes /\ D.decs = fsDone.decs
      /\ D.usage = fsDone.usage /\ D.saved = fsDone.saved
      /\ D.puts[f] = fsDone.puts[f] + 1 /\ \A o \in FsRefs \ {f} : D.puts[o] = fsDone.puts[o]
  BY <1>1, FsPutDone, Zenon
<1>8. /\ k \in Int /\ k + fsDone.decs[f] >= 1 /\ k >= D.puts[f] - D.decs[f]
      /\ ~(fsDone.puts[f] > 0)
  BY <1>1, <1>3, <1>7, FsRefTypes
<1> HIDE DEF k, D
<1>9. FsImageOk(fsKind, x, D, fsNext)
  BY <1>1, <1>7, <1>8, FsImagesOk, FsMetaOk, Zenon
<1>10. FsImageOk(fsKind, x, fsDone, fsNext)
  BY <1>1, <1>8, FsImagesOk, FsMetaOk, Zenon
<1> HIDE DEF x
<1>11. FsAcked(fsMem, fsDone) => FsAcked(x, D)
  BY <1>6, <1>7 DEF FsAcked
<1>12. fsNext' \in Nat \ {0} /\ fsNext' = fsNext
  BY <1>1, <1>2, Zenon DEF FsStores
<1>13. FsStores'
  BY <1>1, <1>2, <1>4, <1>7, <1>9, <1>10, <1>11, <1>12, FsImagesOk, FsCommitKeeps, Zenon
<1>14. fsMem' = x
  BY <1>4, Zenon DEF FsCommitOr
<1>15. FsCallsOk'
  <2>1. \A r \in FsRuns : fsMem.cps[r].attempts \in Nat
    BY <1>1, FsImagesOk, Zenon DEF FsImageType, FsCpType
  <2> QED BY <1>1, <1>2, <1>6, <1>14, <2>1, FsCallReturns, Zenon
<1>16. \A d \in FsCallers : fsCall'[d].pc # "meta"
  <2>1. FsIdle.pc = "idle"
    BY Zenon DEF FsIdle
  <2>2. \A d \in FsCallers : IF d = c THEN fsCall'[d].pc = "idle" ELSE fsCall'[d] = fsCall[d]
    BY <1>1, <1>2, <2>1, Zenon DEF FsCallsOk
  <2> QED BY <1>1, <1>3, <2>2, Zenon DEF FsContentOk
<1>17. \A o \in FsRefs : fsDone'.puts[o] > 0 => o \in fsFiles'
  <2>0. fsCount \in FsCountType /\ fsCount.failures \in Nat
    BY <1>1, Zenon DEF FsStores, FsCountType
  <2>1. CASE fsDone' = D /\ fsCount' = [fsCount EXCEPT !.ops = @ + 1]
    <3>1. fsCount'.failures = fsCount.failures
      BY <2>0, <2>1, Zenon DEF FsCountType
    <3>2. fsFiles' = fsFiles
      BY <1>5, <2>0, <3>1
    <3> QED BY <1>1, <1>3, <1>7, <2>1, <3>2, Zenon DEF FsContentOk
  <2>2. CASE fsDone' = fsDone
    <3>1. fsFiles \ {f} \subseteq fsFiles'
      BY <1>5, Zenon
    <3> QED BY <1>1, <1>8, <2>2, <3>1, Zenon DEF FsContentOk
  <2> QED BY <1>4, <2>1, <2>2, Zenon DEF FsCommitOr
<1>18. FsContentOk'
  BY <1>16, <1>17, Zenon DEF FsContentOk
<1> QED BY <1>13, <1>15, <1>18, Zenon DEF FsInv

\* DecRefCount keeps the invariant.
LEMMA FsDecStep == FsInv /\ FsDec => FsInv'
<1> SUFFICES ASSUME FsInv, FsDec PROVE FsInv'
  BY Zenon
<1>1. FsStores /\ FsCallsOk /\ FsContentOk
  BY Zenon DEF FsInv
<1>2. FsSame /\ UNCHANGED <<fsNext, fsFiles, fsCall>>
  BY Zenon DEF FsDec
<1>3. PICK f \in FsRefs : \E dropped \in FsDropped(fsMem, f) :
          FsCommitOr(dropped, [fsDone EXCEPT !.decs[f] = @ + 1], [fsDone EXCEPT !.decs[f] = @ + 1])
  BY Zenon DEF FsDec
<1> DEFINE k == fsMem.meta[f] - 1
           x == [fsMem EXCEPT !.meta = [@ EXCEPT ![f] = k]]
           D == [fsDone EXCEPT !.decs[f] = @ + 1]
           table == [fsDone.decs EXCEPT ![f] = @ + 1]
<1>4. fsMem.meta[f] > 0 /\ FsCommitOr(x, D, D)
  <2>1. FsDropped(fsMem, f) # {}
    BY <1>3, Zenon
  <2>2. FsDropped(fsMem, f) = {x} /\ fsMem.meta[f] > 0
    BY <1>1, <2>1, FsImagesOk, Zenon DEF FsDropped, FsImageType
  <2> HIDE DEF x, D
  <2> QED BY <1>3, <2>2, Zenon DEF D
<1>5. x.cps = fsMem.cps /\ x.usage = fsMem.usage
  BY <1>1, FsImagesOk, Zenon DEF FsImageType
<1>6. /\ D \in FsDoneType /\ D.plans = fsDone.plans /\ D.deltas = fsDone.deltas
      /\ D.traces = fsDone.traces /\ D.resumes = fsDone.resumes /\ D.puts = fsDone.puts
      /\ D.usage = fsDone.usage /\ D.saved = fsDone.saved
      /\ D.decs[f] = fsDone.decs[f] + 1 /\ \A o \in FsRefs \ {f} : D.decs[o] = fsDone.decs[o]
  <2>0. fsDone \in FsDoneType /\ fsDone.decs \in [FsRefs -> Nat]
    BY <1>1, FsImagesOk, Zenon DEF FsDoneType
  <2>1. /\ table \in [FsRefs -> Nat] /\ table[f] = fsDone.decs[f] + 1
        /\ \A o \in FsRefs \ {f} : table[o] = fsDone.decs[o]
    BY <2>0
  <2>2. D = [fsDone EXCEPT !.decs = table]
    BY <2>0, Zenon DEF FsDoneType
  <2> HIDE DEF D, table
  <2> QED BY <2>0, <2>1, <2>2, Zenon DEF FsDoneType
<1>7. FsDoneOk(D)
  <2> HIDE DEF D
  <2> QED BY <1>1, <1>6 DEF FsStores, FsDoneOk
<1>8. /\ k \in Int /\ k + D.decs[f] >= 1
      /\ D.puts[f] > 0 => k >= D.puts[f] - D.decs[f]
  <2> HIDE DEF D
  <2> QED BY <1>1, <1>4, <1>6, FsRefTypes
<1> HIDE DEF k, D
<1>9. FsImageOk(fsKind, x, D, fsNext)
  <2>1. FsImageOk(fsKind, fsMem, fsDone, fsNext) /\ FsDoneOk(fsDone)
    BY <1>1, FsImagesOk, Zenon
  <2>2. \A o \in FsRefs \ {f} : D.puts[o] = fsDone.puts[o] /\ D.decs[o] = fsDone.decs[o]
    BY <1>6, Zenon
  <2> QED BY <1>6, <1>8, <2>1, <2>2, FsMetaOk
<1>10. fsKind = "file" => FsImageOk(fsKind, fsDisk, D, fsNext)
  BY <1>1, <1>6, FsImagesOk, FsMetaSame, Zenon
<1> HIDE DEF x
<1>11. FsAcked(fsMem, fsDone) => FsAcked(x, D)
  BY <1>5, <1>6 DEF FsAcked
<1>12. fsNext' \in Nat \ {0} /\ fsNext' = fsNext
  BY <1>1, <1>2, Zenon DEF FsStores
<1>13. FsStores'
  BY <1>1, <1>2, <1>4, <1>7, <1>9, <1>10, <1>11, <1>12, FsCommitKeeps, Zenon
<1>14. fsMem' = x /\ fsDone' = D
  BY <1>4, Zenon DEF FsCommitOr
<1>15. FsCallsOk' /\ FsContentOk'
  BY <1>1, <1>2, <1>5, <1>6, <1>14, FsCallsSame, FsContentSame, Zenon
<1> QED BY <1>13, <1>15, Zenon DEF FsInv

\* A crash leaves the file, and the counter restarts past every id in it.
LEMMA FsCrashStep == FsInv /\ FsCrash => FsInv'
<1> SUFFICES ASSUME FsInv, FsCrash PROVE FsInv'
  BY Zenon
<1> DEFINE S == {0} \cup {p.id : p \in fsDisk.plans} \cup fsDisk.traces
                    \cup {fsDisk.deltas[i].id : i \in 1..Len(fsDisk.deltas)}
           top == Max(S)
<1>1. FsStores /\ FsCallsOk /\ FsContentOk
  BY Zenon DEF FsInv
<1>2. /\ FsSame /\ fsKind = "file" /\ fsMem' = fsDisk /\ fsNext' = top + 1
      /\ fsCall' = [c \in FsCallers |-> FsIdle] /\ UNCHANGED <<fsDisk, fsFiles, fsDone>>
      /\ fsCount' = [fsCount EXCEPT !.crashes = @ + 1]
  BY Zenon DEF FsCrash, FsNextAfterOpen
<1>3. FsImageOk(fsKind, fsDisk, fsDone, fsNext)
  BY <1>1, <1>2, FsImagesOk, Zenon
<1>4. \A h \in FsHeld(fsDisk) : h \in Nat /\ h < fsNext
  BY <1>1, <1>3, FsImagesOk, FsBelow, Zenon
<1>5. \A t \in fsDisk.traces : t \in Nat /\ t <= fsNext
  BY <1>1, <1>3, FsImagesOk, FsBelow, Zenon
<1>6. S = {0} \cup FsHeld(fsDisk) \cup fsDisk.traces
  BY Zenon DEF FsHeld
<1> HIDE DEF S
<1>7. S \subseteq Nat /\ 0 \in S /\ \A y \in S : y <= fsNext
  BY <1>1, <1>4, <1>5, <1>6, FsImagesOk
<1>8. top \in S /\ \A y \in S : y <= top
  BY <1>1, <1>7, FsImagesOk, FsMax, Zenon
<1> HIDE DEF top
<1>9. top \in Nat /\ (\A h \in FsHeld(fsDisk) : h \in Nat /\ h < top + 1)
      /\ \A t \in fsDisk.traces : t <= top + 1
  BY <1>4, <1>5, <1>6, <1>7, <1>8
<1>10. FsIdsOk(fsDisk, fsDone, top + 1)
  <2>1. \A p \in fsDisk.plans : p.id < top + 1
    BY <1>9, Zenon DEF FsHeld
  <2>2. \A i \in 1 .. Len(fsDisk.deltas) : fsDisk.deltas[i].id < top + 1
    BY <1>9, Zenon DEF FsHeld
  <2> QED BY <1>3, <1>9, <2>1, <2>2, Zenon DEF FsImageOk, FsIdsOk
<1>11. FsImageOk(fsKind, fsDisk, fsDone, top + 1)
  BY <1>3, <1>10, Zenon DEF FsImageOk
<1>12. fsCount' \in FsCountType /\ fsCount'.failures = fsCount.failures
  BY <1>1, <1>2 DEF FsStores, FsCountType
<1>13. FsStores'
  <2>1. \A m \in FsImages' : m = fsDisk
    BY <1>2, Zenon DEF FsImages
  <2>2. fsCount.failures = 0 => FsAcked(fsDisk, fsDone)
    BY <1>1, <1>2, Zenon DEF FsStores
  <2>3. fsNext' \in Nat \ {0}
    BY <1>2, <1>9
  <2> QED BY <1>1, <1>2, <1>11, <1>12, <2>1, <2>2, <2>3, Zenon DEF FsStores, FsSame
<1>14. FsIdle \in FsCallType /\ FsIdle.pc = "idle"
  BY Zenon DEF FsIdle, FsCallType
<1>15. fsCall' \in [FsCallers -> FsCallType] /\ \A c \in FsCallers : fsCall'[c].pc = "idle"
  BY <1>2, <1>14, Zenon
<1>16. FsCallsOk'
  <2>1. \A r \in FsRuns : FsMarking(r)' = {}
    BY <1>15, Zenon DEF FsMarking
  <2>2. \A r \in FsRuns : fsDisk.cps[r].attempts \in Nat /\ fsDisk.cps[r].attempts <= FsLimit
    BY <1>3, Zenon DEF FsImageOk, FsAttemptsOk, FsImageType, FsCpType
  <2>3. \A r \in FsRuns : fsDisk.cps[r].attempts + Cardinality(FsMarking(r)') <= FsLimit
    BY <2>1, <2>2, FS_EmptySet
  <2> QED BY <1>2, <1>15, <2>3, Zenon DEF FsCallsOk
<1>17. FsContentOk'
  BY <1>1, <1>2, <1>15, Zenon DEF FsContentOk
<1> QED BY <1>13, <1>16, <1>17, Zenon DEF FsInv

\* Every step of the stores keeps the invariant.
LEMMA FsStep == FsInv /\ [FsNext]_fsVars => FsInv'
<1> SUFFICES ASSUME FsInv, [FsNext]_fsVars PROVE FsInv'
  BY Zenon
<1>1. CASE FsNext
  BY <1>1, FsCreateStep, FsArchiveStep, FsSaveTraceStep, FsRecordStep, FsSaveCpStep, FsDecStep,
     FsCrashStep, FsGetPlanStep, FsUpdateStep, FsResumeGetStep, FsResumeMarkStep,
     FsPutContentStep, FsPutMetaStep, Zenon DEF FsNext
<1>2. CASE UNCHANGED fsVars
  BY <1>2, Zenon DEF fsVars, FsInv, FsStores, FsImages, FsCallsOk, FsMarking, FsContentOk
<1> QED BY <1>1, <1>2, Zenon

\* An empty store satisfies the invariant.
LEMMA FsStart == FsInit => FsInv
<1> SUFFICES ASSUME FsInit PROVE FsInv
  BY Zenon
<1>0. /\ fsMem = FsEmpty /\ fsDisk = FsEmpty /\ fsNext = 1
      /\ fsCall = [c \in FsCallers |-> FsIdle] /\ fsCount = [ops |-> 0, failures |-> 0, crashes |-> 0]
  BY Zenon DEF FsInit
<1>1. /\ FsEmpty.plans = {} /\ FsEmpty.deltas = <<>> /\ FsEmpty.usage = <<>>
      /\ FsEmpty.traces = {} /\ \A r \in FsRuns : FsEmpty.cps[r] = FsNoCp
      /\ \A f \in FsRefs : FsEmpty.meta[f] = -1
  BY Zenon DEF FsEmpty
<1>2. FsEmpty \in FsImageType
  <2>1. FsNoCp \in FsCpType
    BY Zenon DEF FsNoCp, FsCpType
  <2>2. <<>> \in Seq(FsDeltaType) /\ <<>> \in Seq([key : FsKeys, run : FsRuns])
    OBVIOUS
  <2> QED BY <2>1, <2>2 DEF FsEmpty, FsImageType
<1>3. /\ fsDone.plans = <<>> /\ fsDone.deltas = <<>> /\ fsDone.traces = <<>> /\ fsDone.usage = {}
      /\ fsDone.saved = {} /\ \A r \in FsRuns : fsDone.resumes[r] = 0
      /\ \A f \in FsRefs : fsDone.puts[f] = 0 /\ fsDone.decs[f] = 0
  BY Zenon DEF FsInit
<1>4. fsDone \in FsDoneType
  <2>1. <<>> \in Seq(FsDeltaType) /\ <<>> \in Seq(Nat)
    OBVIOUS
  <2> QED BY <2>1, Zenon DEF FsInit, FsDoneType
<1>5. FsDoneOk(fsDone)
  BY <1>3, <1>4 DEF FsDoneOk, FsDistinct
<1>6. FsNoCp.attempts = 0 /\ 0 <= FsLimit
  BY FsLimitType DEF FsNoCp
<1>7. FsImageOk(fsKind, FsEmpty, fsDone, fsNext)
  BY <1>0, <1>1, <1>2, <1>3, <1>6 DEF FsImageOk, FsIdsOk, FsKeysOnce, FsAttemptsOk, FsRefsOk
<1>8. FsAcked(FsEmpty, fsDone)
  BY <1>3, Zenon DEF FsAcked
<1>9. fsCount \in FsCountType
  BY <1>0, Zenon DEF FsCountType
<1>10. FsStores
  BY <1>0, <1>5, <1>7, <1>8, <1>9 DEF FsStores, FsImages
<1>11. FsIdle \in FsCallType /\ FsIdle.pc = "idle"
  BY Zenon DEF FsIdle, FsCallType
<1>12. fsCall \in [FsCallers -> FsCallType] /\ \A c \in FsCallers : fsCall[c].pc = "idle"
  BY <1>0, <1>11, Zenon
<1>13. FsCallsOk
  <2>1. \A r \in FsRuns : FsMarking(r) = {}
    BY <1>12, Zenon DEF FsMarking
  <2>2. \A r \in FsRuns : fsMem.cps[r].attempts = 0
    BY <1>0, <1>1, <1>6, Zenon
  <2>3. \A r \in FsRuns : Cardinality(FsMarking(r)) = 0
    BY <2>1, FS_EmptySet, Zenon
  <2>4. \A r \in FsRuns : fsMem.cps[r].attempts + Cardinality(FsMarking(r)) <= FsLimit
    BY <1>6, <2>2, <2>3
  <2> QED BY <1>12, <2>4, Zenon DEF FsCallsOk
<1>14. FsContentOk
  BY <1>3, <1>12 DEF FsContentOk
<1> QED BY <1>10, <1>13, <1>14, Zenon DEF FsInv

\* The invariant is what FsBooksKept asks.
LEMMA FsInvMeans == FsInv => FsBooksKept
<1> SUFFICES ASSUME FsInv PROVE FsBooksKept
  BY Zenon
<1>1. FsStores /\ FsCallsOk /\ FsContentOk
  BY Zenon DEF FsInv
<1>2. FsIdsFresh
  <2> DEFINE P == fsDone.plans
             E == fsDone.deltas
             Q == [i \in 1 .. Len(E) |-> E[i].id]
             s == P \o Q
  <2>1. /\ P \in Seq(Nat) /\ E \in Seq(FsDeltaType) /\ FsDistinct(P)
        /\ \A i, j \in 1 .. Len(E) : E[i].id = E[j].id => i = j
        /\ \A i \in 1 .. Len(P), j \in 1 .. Len(E) : P[i] # E[j].id
    BY <1>1, FsImagesOk, Zenon DEF FsDoneOk, FsDoneType
  <2>2. Q \in Seq(Nat) /\ Len(Q) = Len(E) /\ \A i \in 1 .. Len(Q) : Q[i] = E[i].id
    <3>1. \A i \in 1 .. Len(E) : E[i] \in FsDeltaType
      BY <2>1
    <3>2. \A i \in 1 .. Len(E) : E[i].id \in Nat
      BY <3>1, Zenon DEF FsDeltaType
    <3>3. Q \in [1 .. Len(E) -> Nat] /\ Len(E) \in Nat
      BY <2>1, <3>2
    <3> QED BY <3>3
  <2> HIDE DEF P, E, Q
  <2>3. /\ Len(s) = Len(P) + Len(Q)
        /\ \A i \in 1 .. Len(s) : s[i] = IF i <= Len(P) THEN P[i] ELSE Q[i - Len(P)]
    BY <2>1, <2>2
  <2>4. Len(P) \in Nat /\ Len(Q) \in Nat
    BY <2>1, <2>2
  <2> HIDE DEF s
  <2>5. FsDistinct(s)
    <3> SUFFICES ASSUME NEW i \in 1 .. Len(s), NEW j \in 1 .. Len(s), s[i] = s[j] PROVE i = j
      BY Zenon DEF FsDistinct
    <3>1. CASE i <= Len(P) /\ j <= Len(P)
      BY <2>1, <2>3, <2>4, <3>1 DEF FsDistinct
    <3>2. CASE i <= Len(P) /\ ~(j <= Len(P))
      <4>1. i \in 1 .. Len(P) /\ j - Len(P) \in 1 .. Len(E)
        BY <2>2, <2>3, <2>4, <3>2
      <4> QED BY <2>1, <2>2, <2>3, <3>2, <4>1, Zenon
    <3>3. CASE ~(i <= Len(P)) /\ j <= Len(P)
      <4>1. j \in 1 .. Len(P) /\ i - Len(P) \in 1 .. Len(E)
        BY <2>2, <2>3, <2>4, <3>3
      <4>2. P[j] # E[i - Len(P)].id
        BY <2>1, <4>1, Zenon
      <4> QED BY <2>2, <2>3, <3>3, <4>1, <4>2, Zenon
    <3>4. CASE ~(i <= Len(P)) /\ ~(j <= Len(P))
      <4>1. i - Len(P) \in 1 .. Len(E) /\ j - Len(P) \in 1 .. Len(E)
        BY <2>2, <2>3, <2>4, <3>4
      <4>2. i - Len(P) = j - Len(P)
        BY <2>1, <2>2, <2>3, <3>4, <4>1, Zenon
      <4> QED BY <2>3, <2>4, <4>2
    <3> QED BY <3>1, <3>2, <3>3, <3>4, Zenon
  <2> QED BY <1>1, <2>5, Zenon DEF FsIdsFresh, FsStores, FsDoneOk, FsImageOk, FsIdsOk, s, P, Q, E
<1>3. FsJournalInStep
  BY <1>1, Zenon DEF FsJournalInStep, FsStores, FsImageOk, FsInStep, FsMine
<1>4. FsUsageOnce
  BY <1>1 DEF FsUsageOnce, FsStores, FsImageOk, FsKeysOnce, FsAcked, FsImages
<1>5. FsResumesBounded
  <2>1. \A r \in FsRuns : /\ fsDone.resumes[r] \in Nat /\ fsMem.cps[r].attempts \in Nat
                          /\ fsDone.resumes[r] <= fsMem.cps[r].attempts
                          /\ fsMem.cps[r].attempts <= FsLimit
    BY <1>1, FsImagesOk, Zenon DEF FsImageOk, FsAttemptsOk, FsDoneType, FsImageType, FsCpType
  <2> QED BY <2>1, FsLimitType DEF FsResumesBounded, FsLimit
<1>6. FsRefsHeld
  BY <1>1, Zenon DEF FsRefsHeld, FsStores, FsImageOk, FsRefsOk, FsContentOk
<1> QED BY <1>2, <1>3, <1>4, <1>5, <1>6, Zenon DEF FsBooksKept

\* FsBooksKept: through failing flushes, replays, crashes and interleaved callers
\* ids stay fresh, the journal agrees with its snapshots, usage is counted once,
\* Resume's cap is passed only by callers that tested it together, and stored
\* content keeps its references; for any number of callers, runs, keys and refs.
THEOREM BooksKept == FsSpec => []FsBooksKept
BY FsStart, FsStep, FsInvMeans, PTL DEF FsSpec

-----------------------------------------------------------------------------
(* The vault: the ledger tells what happened.                              *)

VaEntry == [value : VaValues \cup {""}, expires : Nat]
VaAnyKey == VaKeys \cup VaBadKeys \cup {""}
VaActs == {"", "get", "hybrid", "direct", "put", "delete", "rotate", "list", "pinned", "denied",
           "rejected", "not_found", "success", "issued"}
VaHashed == VaActs \X VaAnyKey \X Nat
VaCallType == [pc : {"idle", "lock", "test", "evict", "emit"},
               op : {"", "get", "hybrid", "direct", "put", "delete", "rotate", "list", "pinned"},
               key : VaAnyKey, ent : VaEntry, act : VaActs, n : Nat, pin : Seq(VaHashed)]
VaEvent == [act : VaActs, key : VaAnyKey, n : Nat, prev : Seq(VaHashed)]
VaRow == [ev : VaEvent, self : Seq(VaHashed)]

\* What a caller holds: the key of a call that goes to the vault is one of the
\* vault's, an entry on its way to eviction has expired, only a pinned event
\* names its predecessor, and a credential is issued after the successful read
\* of its key is in the log.
VaCallOk(c) ==
    /\ vaCall[c] \in VaCallType
    /\ vaCall[c].pc \in {"lock", "test", "evict"} => vaCall[c].key \in VaKeys
    /\ vaCall[c].pc = "evict" => VaExpired(vaCall[c].ent)
    /\ vaCall[c].op # "pinned" => vaCall[c].pin = <<>>
    /\ vaCall[c].act = "issued" =>
         /\ vaCall[c].pc = "emit"
         /\ \E j \in DOMAIN vaLog : vaLog[j].ev.act = "success" /\ vaLog[j].ev.key = vaCall[c].key

\* The inductive invariant.
VaInv ==
    /\ vaEntries \in [VaKeys -> VaEntry]
    /\ vaTruth \in [VaKeys -> VaEntry]
    /\ vaNow \in Nat
    /\ DOMAIN vaCall = VaCallers
    /\ \A c \in VaCallers : VaCallOk(c)
    /\ vaLog \in Seq(VaRow) /\ vaTail \in Seq(VaHashed)
    /\ VaLedgerTruthful

\* The other callers, while one caller moves and the log is left alone or grows.
VaMoves(c) ==
    /\ DOMAIN vaCall' = VaCallers
    /\ \A d \in VaCallers \ {c} : vaCall'[d] = vaCall[d]

\* A step of one caller that leaves the audit log alone.
LEMMA VaSilent ==
  ASSUME VaInv, NEW c \in VaCallers, VaMoves(c), UNCHANGED <<vaLog, vaTail, vaNow>>,
         VaCallOk(c)',
         vaEntries' \in [VaKeys -> VaEntry], vaTruth' \in [VaKeys -> VaEntry],
         \A k \in VaKeys : \/ vaEntries'[k] = vaTruth'[k]
                           \/ vaEntries'[k] = VaNone /\ VaExpired(vaTruth'[k])
  PROVE  VaInv'
<1>1. \A d \in VaCallers : VaCallOk(d)'
  BY DEF VaInv, VaMoves, VaCallOk, VaExpired
<1>2. VaVerify'
  BY Zenon DEF VaInv, VaLedgerTruthful, VaVerify, VaHash
<1>3. VaLedgerTruthful'
  BY <1>2, Zenon DEF VaInv, VaLedgerTruthful, VaExpired
<1> QED BY <1>1, <1>3, Zenon DEF VaInv, VaMoves

\* A caller that changes only its own record.
LEMMA VaOnlyCall ==
  ASSUME VaInv, NEW c \in VaCallers, NEW r, vaCall' = [vaCall EXCEPT ![c] = r],
         UNCHANGED <<vaEntries, vaTruth, vaLog, vaTail, vaNow>>, VaCallOk(c)'
  PROVE  VaInv'
<1>1. VaMoves(c)
  BY Zenon DEF VaMoves, VaInv
<1> QED BY <1>1, VaSilent, Zenon DEF VaInv, VaLedgerTruthful, VaExpired

\* A call starts.
LEMMA VaBeginStep ==
  ASSUME VaInv, NEW c \in VaCallers, VaBegin(c) PROVE VaInv'
<1>1. PICK op \in VaReads \cup {"put", "delete", "rotate", "list", "pinned"},
           k \in VaKeys \cup VaBadKeys, v \in VaValues, ttl \in {0, 1} :
         /\ op \in {"direct", "list", "pinned"} => k \notin VaBadKeys
         /\ vaCall' = [vaCall EXCEPT ![c] =
               [pc |-> CASE op = "hybrid" -> VaHybrid(k).pc
                         [] op # "hybrid" /\ (k \in VaBadKeys \/ op = "pinned") -> "emit"
                         [] OTHER -> "lock",
                op |-> op, key |-> k,
                ent |-> [value |-> v, expires |-> IF ttl = 0 THEN 0 ELSE vaNow + ttl],
                act |-> CASE op = "hybrid" -> VaHybrid(k).act
                          [] op # "hybrid" /\ k \in VaBadKeys -> "rejected"
                          [] OTHER -> op,
                n |-> 0,
                pin |-> IF op = "pinned" THEN vaTail ELSE <<>>]]
  BY Zenon DEF VaBegin
<1> DEFINE at == CASE op = "hybrid" -> VaHybrid(k).pc
                   [] op # "hybrid" /\ (k \in VaBadKeys \/ op = "pinned") -> "emit"
                   [] OTHER -> "lock"
           act == CASE op = "hybrid" -> VaHybrid(k).act
                    [] op # "hybrid" /\ k \in VaBadKeys -> "rejected"
                    [] OTHER -> op
           exp == IF ttl = 0 THEN 0 ELSE vaNow + ttl
           pin == IF op = "pinned" THEN vaTail ELSE <<>>
           new == [pc |-> at, op |-> op, key |-> k, ent |-> [value |-> v, expires |-> exp],
                   act |-> act, n |-> 0, pin |-> pin]
<1>2. at \in {"lock", "emit"} /\ (at = "lock" => k \in VaKeys)
  BY Zenon DEF VaHybrid
<1>3. act \in VaActs /\ act # "issued"
  BY Zenon DEF VaHybrid, VaReads, VaActs
<1>4. pin \in Seq(VaHashed) /\ (op # "pinned" => pin = <<>>)
  BY DEF VaInv
<1>5. exp \in Nat
  BY DEF VaInv
<1>6. vaCall' = [vaCall EXCEPT ![c] = new]
  BY <1>1, Zenon
<1> HIDE DEF at, act, exp, pin
<1>7. new \in VaCallType
  BY <1>2, <1>3, <1>4, <1>5, Zenon DEF VaCallType, VaEntry, VaAnyKey, VaReads
<1>8. vaCall'[c] = new
  BY <1>6, Zenon DEF VaInv
<1>9. VaCallOk(c)'
  BY <1>2, <1>3, <1>4, <1>7, <1>8 DEF VaCallOk
<1> HIDE DEF new
<1> QED BY <1>6, <1>9, VaOnlyCall, Zenon DEF VaBegin

\* A read under the read lock, the test of its expiry without one, and the
\* listing leave the entries alone.
LEMMA VaReadStep ==
  ASSUME VaInv, NEW c \in VaCallers, VaRead(c) \/ VaTest(c) \/ VaList(c) PROVE VaInv'
<1>1. VaCallOk(c) /\ vaCall[c] \in VaCallType /\ c \in DOMAIN vaCall
  BY Zenon DEF VaInv, VaCallOk
<1>2. CASE VaRead(c)
  <2> DEFINE r == [vaCall[c] EXCEPT !.pc = "test", !.ent = vaEntries[vaCall[c].key]]
  <2>1. vaCall[c].key \in VaKeys /\ vaCall[c].pc = "lock"
    BY <1>1, <1>2, Zenon DEF VaRead, VaLocked, VaCallOk
  <2>2. vaEntries[vaCall[c].key] \in VaEntry
    BY <2>1, Zenon DEF VaInv
  <2>3. r \in VaCallType
    BY <1>1, <2>2, Zenon DEF VaCallType
  <2>4. vaCall' = [vaCall EXCEPT ![c] = r] /\ vaCall'[c] = r
    BY <1>1, <1>2, Zenon DEF VaRead
  <2>5. VaCallOk(c)'
    BY <1>1, <1>2, <2>1, <2>3, <2>4, Zenon DEF VaCallOk, VaRead, VaCallType
  <2> HIDE DEF r
  <2> QED BY <1>2, <2>4, <2>5, VaOnlyCall, Zenon DEF VaRead
<1>3. CASE VaTest(c)
  <2> DEFINE at == IF VaExpired(vaCall[c].ent) THEN "evict" ELSE "emit"
             act == IF vaCall[c].ent = VaNone THEN "not_found" ELSE "success"
             r == [vaCall[c] EXCEPT !.pc = at, !.act = act]
  <2>1. vaCall[c].key \in VaKeys /\ vaCall[c].pc = "test"
    BY <1>1, <1>3, Zenon DEF VaTest, VaCallOk
  <2>2. at \in {"evict", "emit"} /\ (at = "evict" => VaExpired(vaCall[c].ent))
        /\ act \in VaActs /\ act # "issued"
    BY Zenon DEF VaActs
  <2>3. vaCall' = [vaCall EXCEPT ![c] = r] /\ vaCall'[c] = r
    BY <1>1, <1>3, Zenon DEF VaTest
  <2> HIDE DEF at, act
  <2>4. r \in VaCallType
    BY <1>1, <2>2, Zenon DEF VaCallType
  <2>5. VaCallOk(c)'
    BY <1>1, <1>3, <2>1, <2>2, <2>3, <2>4, Zenon DEF VaCallOk, VaTest, VaCallType, VaExpired
  <2> HIDE DEF r
  <2> QED BY <1>3, <2>3, <2>5, VaOnlyCall, Zenon DEF VaTest
<1>4. CASE VaList(c)
  <2> DEFINE n == Cardinality(VaListed)
             r == [vaCall[c] EXCEPT !.pc = "emit", !.key = "", !.n = n]
  <2>1. n \in Nat
    <3>1. VaListed \subseteq VaKeys
      BY Zenon DEF VaListed
    <3> QED BY <3>1, VaAssumption, FS_Subset, FS_CardinalityType, Zenon
  <2>2. vaCall' = [vaCall EXCEPT ![c] = r] /\ vaCall'[c] = r
    BY <1>1, <1>4, Zenon DEF VaList
  <2> HIDE DEF n
  <2>4. r \in VaCallType
    BY <1>1, <2>1, Zenon DEF VaCallType, VaAnyKey
  <2>5. VaCallOk(c)'
    BY <1>1, <1>4, <2>2, <2>4, Zenon DEF VaCallOk, VaList, VaLocked, VaCallType
  <2> HIDE DEF r
  <2> QED BY <1>4, <2>2, <2>5, VaOnlyCall, Zenon DEF VaList
<1> QED BY <1>2, <1>3, <1>4, Zenon

\* What a write leaves: the entry agrees with the last write, or it is gone
\* because that one has expired.
LEMMA VaStoreStep ==
  ASSUME VaInv, NEW c \in VaCallers, NEW k \in VaKeys, NEW ent \in VaEntry, NEW truth \in VaEntry,
         NEW act \in VaActs \ {"issued"}, VaStore(c, k, ent, truth, act),
         ent = truth \/ (ent = VaNone /\ VaExpired(truth))
  PROVE  VaInv'
<1> DEFINE r == [vaCall[c] EXCEPT !.pc = "emit", !.act = act]
<1>1. VaCallOk(c) /\ vaCall[c] \in VaCallType /\ c \in DOMAIN vaCall
  BY Zenon DEF VaInv, VaCallOk
<1>2. vaCall' = [vaCall EXCEPT ![c] = r] /\ vaCall'[c] = r
  BY <1>1, Zenon DEF VaStore
<1>3. r \in VaCallType
  BY <1>1, Zenon DEF VaCallType
<1>4. VaCallOk(c)'
  BY <1>1, <1>2, <1>3, Zenon DEF VaCallOk, VaStore, VaCallType
<1> HIDE DEF r
<1>5. VaMoves(c)
  BY <1>2, Zenon DEF VaMoves, VaInv
<1>6. vaEntries' \in [VaKeys -> VaEntry] /\ vaTruth' \in [VaKeys -> VaEntry]
  BY Zenon DEF VaInv, VaStore
<1>7. \A i \in VaKeys : \/ vaEntries'[i] = vaTruth'[i]
                        \/ vaEntries'[i] = VaNone /\ VaExpired(vaTruth'[i])
  BY Zenon DEF VaInv, VaLedgerTruthful, VaStore
<1> QED BY <1>4, <1>5, <1>6, <1>7, VaSilent, Zenon DEF VaStore

\* Put, Delete and Rotate, which drops an expired entry on its way.
LEMMA VaWriteStep ==
  ASSUME VaInv, NEW c \in VaCallers, VaPut(c) \/ VaDelete(c) \/ VaRotate(c) PROVE VaInv'
<1>b. vaCall[c].key \in VaKeys /\ vaCall[c].ent \in VaEntry
  BY Zenon DEF VaInv, VaCallOk, VaPut, VaDelete, VaRotate, VaLocked, VaCallType
<1>1. PICK k \in VaKeys, ent \in VaEntry : k = vaCall[c].key /\ ent = vaCall[c].ent
  BY <1>b, Zenon
<1>c. PICK cur, old : cur = vaEntries[k] /\ old = vaTruth[k]
  BY Zenon
<1> DEFINE new == [cur EXCEPT !.value = ent.value]
<1>2. VaNone \in VaEntry /\ cur \in VaEntry /\ old \in VaEntry
  BY <1>c, Zenon DEF VaInv, VaNone, VaEntry
<1>3. new \in VaEntry
  BY <1>1, <1>2, Zenon DEF VaEntry
<1>4. cur = old \/ (cur = VaNone /\ VaExpired(old))
  BY <1>c, Zenon DEF VaInv, VaLedgerTruthful
<1>a. {"put", "delete", "rotate", "not_found"} \subseteq VaActs \ {"issued"}
  BY Zenon DEF VaActs
<1>5. CASE VaPut(c)
  <2>1. VaStore(c, k, ent, ent, "put")
    BY <1>1, <1>5, Zenon DEF VaPut
  <2> QED BY <1>a, <2>1, VaStoreStep, Zenon
<1>6. CASE VaDelete(c)
  <2>1. VaStore(c, k, VaNone, VaNone, "delete")
    BY <1>1, <1>6, Zenon DEF VaDelete
  <2> QED BY <1>2, <1>a, <2>1, VaStoreStep, Zenon
<1>7. CASE VaRotate(c)
  <2>1. IF cur = VaNone \/ VaExpired(cur)
        THEN VaStore(c, k, VaNone, old, "not_found")
        ELSE VaStore(c, k, new, new, "rotate")
    BY <1>1, <1>c, <1>7, Zenon DEF VaRotate
  <2> HIDE DEF new
  <2>2. CASE cur = VaNone \/ VaExpired(cur)
    <3>1. VaNone = old \/ (VaNone = VaNone /\ VaExpired(old))
      BY <1>4, <2>2, Zenon
    <3> QED BY <1>2, <1>a, <2>1, <2>2, <3>1, VaStoreStep, Zenon
  <2>3. CASE ~(cur = VaNone \/ VaExpired(cur))
    BY <1>3, <1>a, <2>1, <2>3, VaStoreStep, Zenon
  <2> QED BY <2>2, <2>3, Zenon
<1> QED BY <1>5, <1>6, <1>7, Zenon

\* The eviction compares the entry again: what it drops is the last write, and
\* it has expired.
LEMMA VaEvictStep ==
  ASSUME VaInv, NEW c \in VaCallers, VaEvict(c) PROVE VaInv'
<1> DEFINE k == vaCall[c].key
           r == [vaCall[c] EXCEPT !.pc = "emit", !.act = "not_found"]
<1>1. VaCallOk(c) /\ vaCall[c] \in VaCallType /\ c \in DOMAIN vaCall
  BY Zenon DEF VaInv, VaCallOk
<1>2. k \in VaKeys /\ VaExpired(vaCall[c].ent)
  BY <1>1, Zenon DEF VaCallOk, VaEvict
<1>3. vaCall' = [vaCall EXCEPT ![c] = r] /\ vaCall'[c] = r
  BY <1>1, Zenon DEF VaEvict
<1>4. r \in VaCallType
  BY <1>1, Zenon DEF VaCallType, VaActs
<1>5. VaCallOk(c)'
  BY <1>1, <1>3, <1>4, Zenon DEF VaCallOk, VaEvict, VaCallType
<1> HIDE DEF r, k
<1>6. VaMoves(c)
  BY <1>3, Zenon DEF VaMoves, VaInv
<1>7. VaNone \in VaEntry
  BY Zenon DEF VaNone, VaEntry
<1>8. vaEntries' = (IF VaStillOld(k, vaCall[c].ent) THEN [vaEntries EXCEPT ![k] = VaNone]
                    ELSE vaEntries) /\ UNCHANGED <<vaTruth, vaNow, vaLog, vaTail>>
  BY Zenon DEF VaEvict, k
<1>9. vaEntries' \in [VaKeys -> VaEntry] /\ vaTruth' \in [VaKeys -> VaEntry]
  BY <1>2, <1>7, <1>8, Zenon DEF VaInv
<1>10. VaStillOld(k, vaCall[c].ent) => VaExpired(vaTruth[k])
  BY <1>2, Zenon DEF VaInv, VaLedgerTruthful, VaStillOld, VaExpired, VaNone
<1>11. \A i \in VaKeys : \/ vaEntries'[i] = vaTruth'[i]
                         \/ vaEntries'[i] = VaNone /\ VaExpired(vaTruth'[i])
  BY <1>2, <1>8, <1>10, Zenon DEF VaInv, VaLedgerTruthful
<1> QED BY <1>5, <1>6, <1>8, <1>9, <1>11, VaSilent, Zenon

\* The audit log: the row of an event continues the chain.
LEMMA VaAppendStep ==
  ASSUME VaInv, NEW act \in VaActs, NEW key \in VaAnyKey, NEW n \in Nat, NEW pin,
         VaAppend(act, key, n, pin),
         act = "issued" =>
           \E j \in DOMAIN vaLog : vaLog[j].ev.act = "success" /\ vaLog[j].ev.key = key
  PROVE  /\ vaLog' \in Seq(VaRow) /\ vaTail' \in Seq(VaHashed)
         /\ VaVerify'
         /\ vaTail' = IF vaLog' = <<>> THEN <<>> ELSE vaLog'[Len(vaLog')].self
         /\ \A i \in DOMAIN vaLog' : vaLog'[i].ev.act = "issued" =>
              \E j \in 1 .. i - 1 : vaLog'[j].ev.act = "success" /\ vaLog'[j].ev.key = vaLog'[i].ev.key
         /\ \A i \in DOMAIN vaLog : i \in DOMAIN vaLog' /\ vaLog'[i] = vaLog[i]
         /\ pin = <<>> => \E j \in DOMAIN vaLog' : vaLog'[j].ev.act = act /\ vaLog'[j].ev.key = key
<1>1. CASE pin # <<>> /\ pin # vaTail
  <2>1. UNCHANGED <<vaLog, vaTail>>
    BY <1>1, Zenon DEF VaAppend
  <2> QED BY <1>1, <2>1, Zenon DEF VaInv, VaLedgerTruthful, VaVerify, VaHash
<1>2. CASE ~(pin # <<>> /\ pin # vaTail)
  <2> DEFINE ev == [act |-> act, key |-> key, n |-> n, prev |-> vaTail]
             hash == Append(vaTail, <<act, key, n>>)
             row == [ev |-> ev, self |-> hash]
             len == Len(vaLog)
  <2>1. ev \in VaEvent /\ VaHash(ev) = hash
    BY Zenon DEF VaInv, VaEvent, VaHash
  <2>2. hash \in Seq(VaHashed)
    BY DEF VaInv, VaHashed
  <2>3. vaLog' = Append(vaLog, row) /\ vaTail' = hash
    BY <1>2, <2>1, Zenon DEF VaAppend
  <2> HIDE DEF hash
  <2>4. row \in VaRow /\ row.ev = ev /\ row.self = hash
    BY <2>1, <2>2, Zenon DEF VaRow
  <2>5. /\ ev.act = act /\ ev.key = key /\ ev.prev = vaTail
    BY Zenon
  <2> HIDE DEF ev, row
  <2>6. /\ len \in Nat /\ vaLog \in Seq(VaRow) /\ DOMAIN vaLog = 1 .. len
        /\ vaLog' \in Seq(VaRow) /\ Len(vaLog') = len + 1 /\ DOMAIN vaLog' = 1 .. len + 1
        /\ vaLog'[len + 1] = row /\ \A i \in 1 .. len : vaLog'[i] = vaLog[i]
    BY <2>3, <2>4 DEF VaInv
  <2> HIDE DEF len
  <2>7. vaTail = IF len = 0 THEN <<>> ELSE vaLog[len].self
    BY <2>6 DEF VaInv, VaLedgerTruthful, len
  <2>8. vaTail' = IF vaLog' = <<>> THEN <<>> ELSE vaLog'[Len(vaLog')].self
    BY <2>3, <2>4, <2>6
  <2>9. ASSUME NEW i \in 1 .. len + 1
        PROVE  /\ vaLog'[i].ev.prev = IF i = 1 THEN <<>> ELSE vaLog'[i - 1].self
               /\ vaLog'[i].self = VaHash(vaLog'[i].ev)
    <3>1. CASE i = len + 1
      BY <2>1, <2>4, <2>5, <2>6, <2>7, <3>1
    <3>2. CASE i # len + 1
      <4>1. i \in 1 .. len /\ (i # 1 => i - 1 \in 1 .. len)
        BY <2>6, <3>2
      <4> QED BY <2>6, <4>1, Zenon DEF VaInv, VaLedgerTruthful, VaVerify
    <3> QED BY <3>1, <3>2, Zenon
  <2>10. VaVerify'
    BY <2>6, <2>9, Zenon DEF VaVerify, VaHash
  <2>11. ASSUME NEW i \in 1 .. len + 1, vaLog'[i].ev.act = "issued"
         PROVE  \E j \in 1 .. i - 1 : vaLog'[j].ev.act = "success" /\ vaLog'[j].ev.key = vaLog'[i].ev.key
    <3>1. CASE i = len + 1
      BY <2>4, <2>5, <2>6, <2>11, <3>1
    <3>2. CASE i # len + 1
      <4>1. i \in 1 .. len
        BY <2>6, <3>2
      <4>2. PICK j \in 1 .. i - 1 : vaLog[j].ev.act = "success" /\ vaLog[j].ev.key = vaLog[i].ev.key
        BY <2>6, <2>11, <4>1, Zenon DEF VaInv, VaLedgerTruthful
      <4> QED BY <2>6, <4>1, <4>2
    <3> QED BY <3>1, <3>2, Zenon
  <2>12. \E j \in DOMAIN vaLog' : vaLog'[j].ev.act = act /\ vaLog'[j].ev.key = key
    BY <2>4, <2>5, <2>6
  <2>13. vaTail' \in Seq(VaHashed)
    BY <2>2, <2>3, Zenon
  <2> QED BY <2>6, <2>8, <2>10, <2>11, <2>12, <2>13
<1> QED BY <1>1, <1>2, Zenon

\* The event of an operation; a credential that was read is reported next.
LEMMA VaEmitStep ==
  ASSUME VaInv, NEW c \in VaCallers, VaEmit(c) PROVE VaInv'
<1> DEFINE call == vaCall[c]
           r == VaIssue(call)
<1>1. VaCallOk(c) /\ call \in VaCallType /\ c \in DOMAIN vaCall /\ call.pc = "emit"
  BY Zenon DEF VaInv, VaCallOk, VaEmit
<1>2. call.act \in VaActs /\ call.key \in VaAnyKey /\ call.n \in Nat
  BY <1>1, Zenon DEF VaCallType
<1>3. VaAppend(call.act, call.key, call.n, call.pin)
  BY Zenon DEF VaEmit
<1>4. call.act = "issued" =>
        \E j \in DOMAIN vaLog : vaLog[j].ev.act = "success" /\ vaLog[j].ev.key = call.key
  BY <1>1, Zenon DEF VaCallOk
<1>5. vaCall' = [vaCall EXCEPT ![c] = r] /\ vaCall'[c] = r
  BY <1>1, Zenon DEF VaEmit
<1>6. /\ vaLog' \in Seq(VaRow) /\ vaTail' \in Seq(VaHashed)
      /\ VaVerify'
      /\ vaTail' = IF vaLog' = <<>> THEN <<>> ELSE vaLog'[Len(vaLog')].self
      /\ \A i \in DOMAIN vaLog' : vaLog'[i].ev.act = "issued" =>
           \E j \in 1 .. i - 1 : vaLog'[j].ev.act = "success" /\ vaLog'[j].ev.key = vaLog'[i].ev.key
      /\ \A i \in DOMAIN vaLog : i \in DOMAIN vaLog' /\ vaLog'[i] = vaLog[i]
      /\ call.pin = <<>> => \E j \in DOMAIN vaLog' : vaLog'[j].ev.act = call.act /\ vaLog'[j].ev.key = call.key
  <2> HIDE DEF call
  <2> QED BY <1>2, <1>3, <1>4, VaAppendStep
<1>7. VaCallOk(c)'
  <2>1. CASE call.op \in {"hybrid", "direct"} /\ call.act = "success"
    <3>1. r = [call EXCEPT !.act = "issued"]
      BY <2>1, Zenon DEF VaIssue
    <3>2. r \in VaCallType /\ r.pc = "emit" /\ r.act = "issued" /\ r.key = call.key
          /\ r.op = call.op /\ r.pin = call.pin
      BY <1>1, <3>1, Zenon DEF VaCallType, VaActs
    <3>3. call.pin = <<>>
      BY <1>1, <2>1, Zenon DEF VaCallOk
    <3> HIDE DEF r, call
    <3> QED BY <1>5, <1>6, <2>1, <3>2, <3>3, Zenon DEF VaCallOk
  <2>2. CASE ~(call.op \in {"hybrid", "direct"} /\ call.act = "success")
    <3>1. r = VaIdle
      BY <2>2, Zenon DEF VaIssue
    <3>2. VaIdle \in VaCallType /\ VaIdle.pc = "idle" /\ VaIdle.pin = <<>> /\ VaIdle.act = ""
      BY DEF VaIdle, VaCallType, VaNone, VaEntry, VaActs, VaAnyKey
    <3> HIDE DEF r, call
    <3> QED BY <1>5, <3>1, <3>2, Zenon DEF VaCallOk
  <2> QED BY <2>1, <2>2, Zenon
<1> HIDE DEF r, call
<1>8. ASSUME NEW d \in VaCallers PROVE VaCallOk(d)'
  <2>1. CASE d = c
    BY <1>7, <2>1, Zenon
  <2>2. CASE d # c
    <3>1. vaCall'[d] = vaCall[d] /\ vaNow' = vaNow /\ VaCallOk(d)
      BY <1>5, <2>2, Zenon DEF VaInv, VaEmit
    <3> QED BY <1>6, <3>1, Zenon DEF VaCallOk, VaExpired
  <2> QED BY <2>1, <2>2, Zenon
<1>9. UNCHANGED <<vaEntries, vaTruth, vaNow>> /\ DOMAIN vaCall' = VaCallers
  BY <1>5, Zenon DEF VaEmit, VaInv
<1>10. VaLedgerTruthful'
  BY <1>6, <1>9, Zenon DEF VaInv, VaLedgerTruthful, VaExpired
<1> QED BY <1>6, <1>8, <1>9, <1>10, Zenon DEF VaInv

\* Time passes: what has expired stays expired.
LEMMA VaTickStep ==
  ASSUME VaInv, VaTick PROVE VaInv'
<1>0. \A ent \in VaEntry : ent.expires \in Nat
  BY Zenon DEF VaEntry
<1>1. \A ent \in VaEntry : VaExpired(ent) => VaExpired(ent)'
  BY <1>0 DEF VaInv, VaTick, VaExpired
<1>2. \A c \in VaCallers : VaCallOk(c)'
  <2> SUFFICES ASSUME NEW c \in VaCallers PROVE VaCallOk(c)'
    BY Zenon
  <2>1. VaCallOk(c) /\ vaCall[c].ent \in VaEntry /\ vaCall' = vaCall /\ vaLog' = vaLog
    BY Zenon DEF VaInv, VaTick, VaCallOk, VaCallType
  <2>2. VaExpired(vaCall[c].ent) => VaExpired(vaCall[c].ent)'
    BY <1>0, <2>1 DEF VaInv, VaTick, VaExpired
  <2> QED BY <2>1, <2>2, Zenon DEF VaCallOk
<1>3. VaVerify'
  BY Zenon DEF VaInv, VaLedgerTruthful, VaVerify, VaHash, VaTick
<1>4. \A k \in VaKeys : vaTruth[k] \in VaEntry /\ vaTruth' = vaTruth /\ vaEntries' = vaEntries
  BY Zenon DEF VaInv, VaTick
<1>5. VaLedgerTruthful'
  <2>1. \A k \in VaKeys : VaExpired(vaTruth[k]) => VaExpired(vaTruth[k])'
    BY <1>0, <1>4 DEF VaInv, VaTick, VaExpired
  <2> QED BY <1>3, <1>4, <2>1, Zenon DEF VaInv, VaLedgerTruthful, VaTick
<1> QED BY <1>2, <1>5 DEF VaInv, VaTick

\* Every step keeps the invariant.
LEMMA VaStep == VaInv /\ [VaNext]_vaVars => VaInv'
<1> SUFFICES ASSUME VaInv, [VaNext]_vaVars PROVE VaInv'
  BY Zenon
<1>1. ASSUME NEW c \in VaCallers, VaBegin(c) PROVE VaInv'
  BY <1>1, VaBeginStep, Zenon
<1>2. ASSUME NEW c \in VaCallers, VaRead(c) \/ VaTest(c) \/ VaList(c) PROVE VaInv'
  BY <1>2, VaReadStep, Zenon
<1>3. ASSUME NEW c \in VaCallers, VaEvict(c) PROVE VaInv'
  BY <1>3, VaEvictStep, Zenon
<1>4. ASSUME NEW c \in VaCallers, VaPut(c) \/ VaDelete(c) \/ VaRotate(c) PROVE VaInv'
  BY <1>4, VaWriteStep, Zenon
<1>5. ASSUME NEW c \in VaCallers, VaEmit(c) PROVE VaInv'
  BY <1>5, VaEmitStep, Zenon
<1>6. CASE VaTick
  BY <1>6, VaTickStep, Zenon
<1>7. CASE UNCHANGED vaVars
  BY <1>7, Zenon DEF vaVars, VaInv, VaCallOk, VaLedgerTruthful, VaVerify, VaHash, VaExpired
<1> QED BY <1>1, <1>2, <1>3, <1>4, <1>5, <1>6, <1>7, Zenon DEF VaNext

\* VaLedgerTruthful of the vault and its audit log: an eviction never drops a
\* write that has not expired, the chain verifies beside writers that pin a stale
\* tail, and a credential is issued only after a logged read, for any number of
\* callers, keys and calls.
THEOREM LedgerTruthful == VaSpec => []VaLedgerTruthful
<1>1. VaInit => VaInv
  <2>1. VaNone \in VaEntry /\ VaIdle \in VaCallType /\ VaIdle.pc = "idle" /\ VaIdle.pin = <<>>
        /\ VaIdle.act = ""
    BY DEF VaIdle, VaCallType, VaNone, VaEntry, VaActs, VaAnyKey
  <2>2. VaInit => \A c \in VaCallers : VaCallOk(c)
    BY <2>1, Zenon DEF VaInit, VaCallOk
  <2>3. VaInit => VaLedgerTruthful
    BY DEF VaInit, VaLedgerTruthful, VaVerify
  <2>4. VaInit => vaLog \in Seq(VaRow) /\ vaTail \in Seq(VaHashed)
    BY DEF VaInit
  <2>5. VaInit => vaEntries \in [VaKeys -> VaEntry] /\ vaTruth = vaEntries
    BY <2>1, Zenon DEF VaInit
  <2>6. VaInit => vaNow \in Nat /\ DOMAIN vaCall = VaCallers
    BY DEF VaInit
  <2> QED BY <2>2, <2>3, <2>4, <2>5, <2>6, Zenon DEF VaInv
<1>2. VaInv => VaLedgerTruthful
  BY Zenon DEF VaInv
<1> QED BY <1>1, <1>2, VaStep, PTL DEF VaSpec
=============================================================================
