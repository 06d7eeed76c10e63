---------------------------- MODULE RecordProofs ----------------------------
(***************************************************************************)
(* What the processes report, for every value of the constants. Telemetry: *)
(* any number of goroutines, spans, records and metrics. RunFiles: commands*)
(* that do not overlap the set-up of a brain run (Overlap = FALSE) and any *)
(* number of processes, each of which may be killed before any step.       *)
(***************************************************************************)
EXTENDS Telemetry, RunFiles, FiniteSetTheorems, TLAPS

-----------------------------------------------------------------------------
(* Telemetry: every span and record is exported once.                      *)

TlItem == [kind : {"span", "log"}, id : Nat, trace : Nat, parent : Nat, error : BOOLEAN]
TlSpan == [id : Nat, trace : Nat, parent : Nat, error : BOOLEAN, ended : BOOLEAN]
TlProcType == [pc : {"idle", "inner", "close", "match", "flush", "send", "log", "add"}, span : Nat,
               error : BOOLEAN, batch : Seq(TlItem) \cup {<<m>> : m \in TlMetrics}]

\* Spans are numbered by their place and share the trace of their parents.
TlSpansOk ==
    /\ tlSpans \in Seq(TlSpan)
    /\ tlWrap \in Seq([ended : BOOLEAN, error : BOOLEAN]) /\ Len(tlWrap) = Len(tlSpans)
    /\ \A s \in 1 .. Len(tlSpans) :
         /\ tlSpans[s].id = s
         /\ tlSpans[s].parent \in 0 .. s - 1
         /\ tlSpans[s].parent # 0 => tlSpans[tlSpans[s].parent].trace = tlSpans[s].trace

\* A span or a record in the hands of a goroutine is in those of one.
TlProcOk(p) ==
    /\ tlProc[p].pc \in {"inner", "close", "match"} => tlProc[p].span \in 1 .. Len(tlSpans)
    /\ tlProc[p].pc \in {"close", "match"} => tlWrap[tlProc[p].span].ended
    /\ tlProc[p].pc = "log" => tlProc[p].span \in 1 .. Len(tlEmitted)
    /\ tlProc[p].pc = "send" => tlProc[p].batch \in Seq(TlItem)
    /\ tlProc[p].pc = "add" => \E m \in TlMetrics :
         tlProc[p].batch = <<m>> /\ tlRegistry[m] = tlProc[p].span /\ tlProc[p].span # 0
TlApart(p, q) ==
    tlProc[p].span = tlProc[q].span =>
      /\ ~(tlProc[p].pc \in {"close", "match"} /\ tlProc[q].pc \in {"close", "match"})
      /\ ~(tlProc[p].pc = "log" /\ tlProc[q].pc = "log")
TlProcsOk ==
    /\ tlProc \in [TlProcs -> TlProcType]
    /\ \A p \in TlProcs : TlProcOk(p)
    /\ \A p, q \in TlProcs : p # q => TlApart(p, q)

\* What an item says of its span or its record.
TlItemOk(x) ==
    /\ x.kind = "span" => /\ x.id \in 1 .. Len(tlSpans) /\ x.parent = tlSpans[x.id].parent
                          /\ x.trace = tlSpans[x.id].trace
    /\ x.kind = "log" => x.id \in 1 .. Len(tlEmitted)

\* Lists of items, none of them twice.
TlOnceIn(list) == \A i, j \in DOMAIN list : TlKey(list[i]) = TlKey(list[j]) => i = j
TlGood(L) ==
    \A h \in DOMAIN L :
      /\ L[h] \in Seq(TlItem) /\ TlOnceIn(L[h])
      /\ \A k \in DOMAIN L \ {h} : TlKeys(L[h]) \cap TlKeys(L[k]) = {}

\* Every item of M is one of L.
TlWithin(M, L) == \A h \in DOMAIN M : \A i \in DOMAIN M[h] :
                    \E k \in DOMAIN L : \E j \in DOMAIN L[k] : M[h][i] = L[k][j]
TlAll(L) == UNION {TlKeys(L[h]) : h \in DOMAIN L}

TlQueueOk ==
    /\ TlGood(TlLists)
    /\ \A h \in DOMAIN TlLists : \A i \in DOMAIN TlLists[h] : TlItemOk(TlLists[h][i])
    /\ \A s \in 1 .. Len(tlSpans) :
         <<"span", s>> \in TlQueued <=> tlWrap[s].ended /\ s \notin TlDelivering({"close", "match"})
    /\ \A n \in 1 .. Len(tlEmitted) : <<"log", n>> \in TlQueued <=> n \notin TlDelivering({"log"})
    /\ Len(tlPending) >= TlBatch => \E p \in TlProcs : TlAt(p, "flush")

TlRingOk ==
    /\ tlEmitted \in Seq(TlLevels)
    /\ tlRing \in [0 .. TlCapacity - 1 -> Nat] /\ tlHead \in 0 .. TlCapacity - 1
    /\ tlCount \in 0 .. TlCapacity /\ (tlCount < TlCapacity => tlHead = tlCount)
    /\ \A i \in 1 .. tlCount : /\ TlRecords[i] \in 1 .. Len(tlEmitted) /\ TlKept(TlRecords[i])
                               /\ i > 1 => TlRecords[i - 1] < TlRecords[i]
    /\ \A n \in 1 .. Len(tlEmitted) : TlKept(n) =>
         \/ \E i \in 1 .. tlCount : TlRecords[i] = n
         \/ tlCount = TlCapacity /\ n < TlRecords[1]

TlMetricsOk ==
    /\ tlValues \in Seq(Nat) /\ tlAdded \in [TlMetrics -> Nat]
    /\ tlRegistry \in [TlMetrics -> 0 .. Len(tlValues)]
    /\ \A m, n \in TlMetrics : tlRegistry[m] = tlRegistry[n] /\ tlRegistry[m] # 0 => m = n
    /\ \A m \in TlMetrics : tlAdded[m] = IF tlRegistry[m] = 0 THEN 0 ELSE tlValues[tlRegistry[m]]

TlInv == TlSpansOk /\ TlProcsOk /\ TlQueueOk /\ TlRingOk /\ TlMetricsOk

\* Appending an item.
LEMMA TlKeysAppend ==
  ASSUME NEW s \in Seq(TlItem), NEW x \in TlItem
  PROVE  TlKeys(Append(s, x)) = TlKeys(s) \cup {TlKey(x)}
<1> DEFINE t == Append(s, x)
<1>1. /\ Len(s) \in Nat /\ DOMAIN s = 1 .. Len(s) /\ DOMAIN t = 1 .. Len(s) + 1
      /\ t[Len(s) + 1] = x /\ \A i \in 1 .. Len(s) : t[i] = s[i]
  OBVIOUS
<1> HIDE DEF t
<1>2. TlKeys(t) \subseteq TlKeys(s) \cup {TlKey(x)}
  <2> SUFFICES ASSUME NEW i \in DOMAIN t PROVE TlKey(t[i]) \in TlKeys(s) \cup {TlKey(x)}
    BY Zenon DEF TlKeys
  <2>1. i \in 1 .. Len(s) \/ i = Len(s) + 1
    BY <1>1
  <2> QED BY <1>1, <2>1, Zenon DEF TlKeys
<1>3. TlKeys(s) \subseteq TlKeys(t)
  <2> SUFFICES ASSUME NEW i \in DOMAIN s PROVE TlKey(s[i]) \in TlKeys(t)
    BY Zenon DEF TlKeys
  <2>1. i \in DOMAIN t /\ t[i] = s[i]
    BY <1>1
  <2> QED BY <2>1, Zenon DEF TlKeys
<1>4. TlKey(x) \in TlKeys(t)
  <2>1. Len(s) + 1 \in DOMAIN t /\ t[Len(s) + 1] = x
    BY <1>1
  <2> QED BY <2>1, Zenon DEF TlKeys
<1> QED BY <1>2, <1>3, <1>4, Zenon DEF t

\* Appending a batch.
LEMMA TlKeysConcat ==
  ASSUME NEW s \in Seq(TlItem), NEW u \in Seq(TlItem)
  PROVE  TlKeys(s \o u) = TlKeys(s) \cup TlKeys(u)
<1> DEFINE t == s \o u
<1>1. /\ Len(s) \in Nat /\ DOMAIN s = 1 .. Len(s) /\ Len(u) \in Nat /\ DOMAIN u = 1 .. Len(u)
      /\ DOMAIN t = 1 .. Len(s) + Len(u)
      /\ \A i \in 1 .. Len(s) : t[i] = s[i]
      /\ \A i \in 1 .. Len(u) : t[Len(s) + i] = u[i]
  OBVIOUS
<1> HIDE DEF t
<1>2. TlKeys(t) \subseteq TlKeys(s) \cup TlKeys(u)
  <2> SUFFICES ASSUME NEW i \in DOMAIN t PROVE TlKey(t[i]) \in TlKeys(s) \cup TlKeys(u)
    BY Zenon DEF TlKeys
  <2>1. i \in 1 .. Len(s) \/ (i - Len(s) \in 1 .. Len(u) /\ i = Len(s) + (i - Len(s)))
    BY <1>1
  <2> QED BY <1>1, <2>1, Zenon DEF TlKeys
<1>3. TlKeys(s) \subseteq TlKeys(t)
  <2> SUFFICES ASSUME NEW i \in DOMAIN s PROVE TlKey(s[i]) \in TlKeys(t)
    BY Zenon DEF TlKeys
  <2>1. i \in DOMAIN t /\ t[i] = s[i]
    BY <1>1
  <2> QED BY <2>1, Zenon DEF TlKeys
<1>4. TlKeys(u) \subseteq TlKeys(t)
  <2> SUFFICES ASSUME NEW i \in DOMAIN u PROVE TlKey(u[i]) \in TlKeys(t)
    BY Zenon DEF TlKeys
  <2>1. Len(s) + i \in DOMAIN t /\ t[Len(s) + i] = u[i]
    BY <1>1
  <2> QED BY <2>1, Zenon DEF TlKeys
<1> QED BY <1>2, <1>3, <1>4, Zenon DEF t

\* A list stays without repetition.
LEMMA TlOnceAppend ==
  ASSUME NEW s \in Seq(TlItem), NEW x \in TlItem, TlOnceIn(s), TlKey(x) \notin TlKeys(s)
  PROVE  TlOnceIn(Append(s, x))
<1> DEFINE t == Append(s, x)
<1>1. /\ Len(s) \in Nat /\ DOMAIN s = 1 .. Len(s) /\ DOMAIN t = 1 .. Len(s) + 1
      /\ t[Len(s) + 1] = x /\ \A i \in 1 .. Len(s) : t[i] = s[i]
  OBVIOUS
<1> HIDE DEF t
<1>2. \A i \in 1 .. Len(s) : TlKey(s[i]) # TlKey(x)
  BY <1>1, Zenon DEF TlKeys
<1>3. ASSUME NEW i \in DOMAIN t, NEW j \in DOMAIN t, TlKey(t[i]) = TlKey(t[j]) PROVE i = j
  <2>1. (i \in 1 .. Len(s) \/ i = Len(s) + 1) /\ (j \in 1 .. Len(s) \/ j = Len(s) + 1)
    BY <1>1
  <2> QED BY <1>1, <1>2, <1>3, <2>1, Zenon DEF TlOnceIn
<1> QED BY <1>3, Zenon DEF TlOnceIn, t

\* The same for a batch of other items.
LEMMA TlOnceConcat ==
  ASSUME NEW s \in Seq(TlItem), NEW u \in Seq(TlItem), TlOnceIn(s), TlOnceIn(u),
         TlKeys(s) \cap TlKeys(u) = {}
  PROVE  TlOnceIn(s \o u)
<1> DEFINE t == s \o u
<1>1. /\ Len(s) \in Nat /\ DOMAIN s = 1 .. Len(s) /\ Len(u) \in Nat /\ DOMAIN u = 1 .. Len(u)
      /\ DOMAIN t = 1 .. Len(s) + Len(u)
      /\ \A i \in 1 .. Len(s) : t[i] = s[i]
      /\ \A i \in 1 .. Len(u) : t[Len(s) + i] = u[i]
  OBVIOUS
<1> HIDE DEF t
<1>2. \A i \in 1 .. Len(s), j \in 1 .. Len(u) : TlKey(s[i]) # TlKey(u[j])
  BY <1>1, Zenon DEF TlKeys
<1>3. ASSUME NEW i \in DOMAIN t, NEW j \in DOMAIN t, TlKey(t[i]) = TlKey(t[j]) PROVE i = j
  <2>a. \A n \in DOMAIN t : n \in 1 .. Len(s) \/ (n - Len(s) \in 1 .. Len(u) /\ n = Len(s) + (n - Len(s)))
    BY <1>1
  <2>1. (i \in 1 .. Len(s) \/ (i - Len(s) \in 1 .. Len(u) /\ i = Len(s) + (i - Len(s))))
        /\ (j \in 1 .. Len(s) \/ (j - Len(s) \in 1 .. Len(u) /\ j = Len(s) + (j - Len(s))))
    BY <2>a, Zenon
  <2>2. CASE i \in 1 .. Len(s) /\ j \in 1 .. Len(s)
    BY <1>1, <1>3, <2>2, Zenon DEF TlOnceIn
  <2>3. CASE i - Len(s) \in 1 .. Len(u) /\ j - Len(s) \in 1 .. Len(u)
    <3>1. TlKey(u[i - Len(s)]) = TlKey(u[j - Len(s)])
      BY <1>1, <1>3, <2>1, <2>3
    <3>2. i - Len(s) = j - Len(s)
      BY <1>1, <2>3, <3>1, Zenon DEF TlOnceIn
    <3> QED BY <1>1, <2>1, <3>2
  <2> QED BY <1>1, <1>2, <1>3, <2>1, <2>2, <2>3
<1> QED BY <1>3, Zenon DEF TlOnceIn, t

\* An item that is in no list is queued.
LEMMA TlGoodAppend ==
  ASSUME NEW L, NEW M, TlGood(L), NEW a \in DOMAIN L, NEW x \in TlItem, TlKey(x) \notin TlAll(L),
         DOMAIN M = DOMAIN L, M[a] = Append(L[a], x), \A h \in DOMAIN L \ {a} : M[h] = L[h]
  PROVE  /\ TlGood(M) /\ TlAll(M) = TlAll(L) \cup {TlKey(x)}
         /\ \A h \in DOMAIN M : \A i \in DOMAIN M[h] :
              M[h][i] = x \/ \E k \in DOMAIN L : \E j \in DOMAIN L[k] : M[h][i] = L[k][j]
<1>1. \A h \in DOMAIN L : TlKey(x) \notin TlKeys(L[h])
  BY Zenon DEF TlAll
<1>2. \A h \in DOMAIN L : TlKeys(M[h]) = IF h = a THEN TlKeys(L[a]) \cup {TlKey(x)} ELSE TlKeys(L[h])
  BY TlKeysAppend, Zenon DEF TlGood
<1>a. L[a] \in Seq(TlItem) /\ TlOnceIn(L[a]) /\ TlKey(x) \notin TlKeys(L[a])
  BY <1>1, Zenon DEF TlGood
<1>b. M[a] \in Seq(TlItem) /\ TlOnceIn(M[a])
  BY <1>a, TlOnceAppend
<1>3. \A h \in DOMAIN M : M[h] \in Seq(TlItem) /\ TlOnceIn(M[h])
  BY <1>b, Zenon DEF TlGood
<1>4. ASSUME NEW h \in DOMAIN M, NEW k \in DOMAIN M \ {h} PROVE TlKeys(M[h]) \cap TlKeys(M[k]) = {}
  <2>1. TlKeys(L[h]) \cap TlKeys(L[k]) = {}
    BY Zenon DEF TlGood
  <2>2. CASE h = a
    <3>1. TlKeys(M[h]) = TlKeys(L[h]) \cup {TlKey(x)} /\ TlKeys(M[k]) = TlKeys(L[k])
      BY <1>2, <2>2, Zenon
    <3> QED BY <1>1, <2>1, <3>1, Zenon
  <2>3. CASE h # a
    <3>1. TlKeys(M[h]) = TlKeys(L[h]) /\ TlKeys(M[k]) \subseteq TlKeys(L[k]) \cup {TlKey(x)}
      BY <1>2, <2>3, Zenon
    <3> QED BY <1>1, <2>1, <3>1, Zenon
  <2> QED BY <2>2, <2>3, Zenon
<1>5. TlAll(M) = TlAll(L) \cup {TlKey(x)}
  BY <1>2 DEF TlAll
<1>6. \A i \in DOMAIN M[a] : M[a][i] = x \/ (i \in DOMAIN L[a] /\ M[a][i] = L[a][i])
  BY <1>a
<1> QED BY <1>3, <1>4, <1>5, <1>6, Zenon DEF TlGood

\* The pending list becomes the batch of a goroutine.
LEMMA TlGoodMove ==
  ASSUME NEW L, NEW M, TlGood(L), NEW a \in DOMAIN L, NEW b, b \notin DOMAIN L,
         DOMAIN M = DOMAIN L \cup {b}, M[a] = <<>>, M[b] = L[a],
         \A h \in DOMAIN L \ {a} : M[h] = L[h]
  PROVE  TlGood(M) /\ TlAll(M) = TlAll(L) /\ TlWithin(M, L)
<1>1. TlKeys(M[a]) = {} /\ TlOnceIn(M[a]) /\ M[a] \in Seq(TlItem)
  BY DEF TlKeys, TlOnceIn
<1>2. \A h \in DOMAIN M : M[h] \in Seq(TlItem) /\ TlOnceIn(M[h])
  BY <1>1, Zenon DEF TlGood
<1>3. \A h \in DOMAIN M : TlKeys(M[h]) = IF h = a THEN {} ELSE IF h = b THEN TlKeys(L[a]) ELSE TlKeys(L[h])
  BY <1>1, Zenon
<1>4. \A h \in DOMAIN M : \A k \in DOMAIN M \ {h} : TlKeys(M[h]) \cap TlKeys(M[k]) = {}
  BY <1>3, Zenon DEF TlGood
<1>5. TlAll(M) = TlAll(L)
  BY <1>3 DEF TlAll
<1>6. TlWithin(M, L)
  BY DEF TlWithin
<1> QED BY <1>2, <1>4, <1>5, <1>6, Zenon DEF TlGood

\* A batch is handed over, or lost.
LEMMA TlGoodSend ==
  ASSUME NEW L, NEW M, TlGood(L), NEW a \in DOMAIN L, NEW b \in DOMAIN L \ {a},
         DOMAIN M = DOMAIN L \ {b}, M[a] = L[a] \o L[b],
         \A h \in DOMAIN L \ {a, b} : M[h] = L[h]
  PROVE  TlGood(M) /\ TlAll(M) = TlAll(L) /\ TlWithin(M, L)
<1>1. TlKeys(M[a]) = TlKeys(L[a]) \cup TlKeys(L[b]) /\ TlOnceIn(M[a]) /\ M[a] \in Seq(TlItem)
  <2>1. L[a] \in Seq(TlItem) /\ L[b] \in Seq(TlItem) /\ TlOnceIn(L[a]) /\ TlOnceIn(L[b])
        /\ TlKeys(L[a]) \cap TlKeys(L[b]) = {}
    BY Zenon DEF TlGood
  <2> QED BY <2>1, TlKeysConcat, TlOnceConcat
<1>2. \A h \in DOMAIN M : M[h] \in Seq(TlItem) /\ TlOnceIn(M[h])
  BY <1>1, Zenon DEF TlGood
<1>3. \A h \in DOMAIN M : TlKeys(M[h]) = IF h = a THEN TlKeys(L[a]) \cup TlKeys(L[b]) ELSE TlKeys(L[h])
  BY <1>1, Zenon
<1>4. \A h \in DOMAIN M : \A k \in DOMAIN M \ {h} : TlKeys(M[h]) \cap TlKeys(M[k]) = {}
  BY <1>3, Zenon DEF TlGood
<1>5. TlAll(M) = TlAll(L)
  BY <1>3 DEF TlAll
<1>6. \A i \in DOMAIN M[a] : \/ i \in DOMAIN L[a] /\ M[a][i] = L[a][i]
                             \/ i - Len(L[a]) \in DOMAIN L[b] /\ M[a][i] = L[b][i - Len(L[a])]
  <2>0. PICK u, v : u = L[a] /\ v = L[b]
    BY Zenon
  <2> DEFINE t == u \o v
  <2>1. u \in Seq(TlItem) /\ v \in Seq(TlItem) /\ M[a] = t
    BY <2>0, Zenon DEF TlGood
  <2>2. /\ Len(u) \in Nat /\ DOMAIN u = 1 .. Len(u) /\ Len(v) \in Nat /\ DOMAIN v = 1 .. Len(v)
        /\ DOMAIN t = 1 .. Len(u) + Len(v)
        /\ \A i \in 1 .. Len(u) : t[i] = u[i]
        /\ \A i \in 1 .. Len(v) : t[Len(u) + i] = v[i]
    BY <2>1
  <2> HIDE DEF t
  <2>3. \A i \in DOMAIN t : i \in 1 .. Len(u) \/ (i - Len(u) \in 1 .. Len(v) /\ i = Len(u) + (i - Len(u)))
    BY <2>2
  <2>4. \A i \in DOMAIN t : \/ i \in DOMAIN u /\ t[i] = u[i]
                            \/ i - Len(u) \in DOMAIN v /\ t[i] = v[i - Len(u)]
    BY <2>2, <2>3, Zenon
  <2>5. \A i \in DOMAIN M[a] : \/ i \in DOMAIN u /\ M[a][i] = u[i]
                               \/ i - Len(u) \in DOMAIN v /\ M[a][i] = v[i - Len(u)]
    BY <2>1, <2>4, Zenon
  <2> QED BY <2>0, <2>5, Zenon
<1>7. TlWithin(M, L)
  BY <1>6 DEF TlWithin
<1> QED BY <1>2, <1>4, <1>5, <1>7, Zenon DEF TlGood

\* What a step never undoes.
TlLater ==
    /\ Len(tlSpans) \in Nat /\ Len(tlSpans') \in Nat /\ Len(tlSpans') >= Len(tlSpans)
    /\ \A s \in 1 .. Len(tlSpans) : tlWrap[s].ended => tlWrap'[s].ended
    /\ Len(tlEmitted) \in Nat /\ Len(tlEmitted') \in Nat /\ Len(tlEmitted') >= Len(tlEmitted)
    /\ \A m \in TlMetrics : tlRegistry[m] # 0 => tlRegistry'[m] = tlRegistry[m]

\* A goroutine moves, the others stay.
LEMMA TlProcStep ==
  ASSUME TlProcsOk, TlLater, NEW p \in TlProcs, NEW r \in TlProcType,
         tlProc' = [tlProc EXCEPT ![p] = r], TlProcOk(p)',
         \A q \in TlProcs \ {p} : TlApart(p, q)'
  PROVE  TlProcsOk'
<1>1. tlProc' \in [TlProcs -> TlProcType] /\ \A q \in TlProcs \ {p} : tlProc'[q] = tlProc[q]
  BY Zenon DEF TlProcsOk
<1>2. ASSUME NEW q \in TlProcs PROVE TlProcOk(q)'
  <2>1. CASE q = p
    BY <2>1, Zenon
  <2>2. CASE q # p
    <3>1. tlProc'[q] = tlProc[q] /\ TlProcOk(q)
      BY <1>1, <2>2, Zenon DEF TlProcsOk
    <3> QED BY <3>1 DEF TlProcOk, TlLater
  <2> QED BY <2>1, <2>2, Zenon
<1>3. ASSUME NEW q \in TlProcs, NEW s \in TlProcs, q # s PROVE TlApart(q, s)'
  <2>1. CASE q = p
    BY <1>3, <2>1, Zenon
  <2>2. CASE s = p
    <3>1. TlApart(s, q)'
      BY <1>3, <2>2, Zenon
    <3> QED BY <3>1, Zenon DEF TlApart
  <2>3. CASE q # p /\ s # p
    <3>1. tlProc'[q] = tlProc[q] /\ tlProc'[s] = tlProc[s] /\ TlApart(q, s)
      BY <1>1, <1>3, <2>3, Zenon DEF TlProcsOk
    <3> QED BY <3>1, Zenon DEF TlApart
  <2> QED BY <2>1, <2>2, <2>3, Zenon
<1> QED BY <1>1, <1>2, <1>3, Zenon DEF TlProcsOk

\* A goroutine that neither sends nor will send leaves the lists alone.
LEMMA TlSameLists ==
  ASSUME TlProcsOk, NEW p \in TlProcs, NEW r, tlProc' = [tlProc EXCEPT ![p] = r],
         tlProc[p].pc # "send", r.pc # "send", UNCHANGED <<tlPending, tlSent, tlLost>>
  PROVE  TlLists' = TlLists /\ TlQueued' = TlQueued
<1>1. \A q \in TlProcs : TlAt(q, "send")' <=> TlAt(q, "send")
  BY Zenon DEF TlProcsOk, TlAt
<1>2. \A q \in TlProcs : TlAt(q, "send") => tlProc'[q] = tlProc[q]
  BY Zenon DEF TlProcsOk, TlAt
<1>3. TlLists' = TlLists
  BY <1>1, <1>2 DEF TlLists
<1> QED BY <1>3, Zenon DEF TlQueued

\* A step that leaves the lists alone, and every span and record with the
\* goroutine that has it.
LEMMA TlSameQueue ==
  ASSUME TlQueueOk, TlLists' = TlLists, TlQueued' = TlQueued, UNCHANGED <<tlPending, tlEmitted>>,
         Len(tlSpans') = Len(tlSpans),
         \A s \in 1 .. Len(tlSpans) : /\ tlSpans'[s].parent = tlSpans[s].parent
                                      /\ tlSpans'[s].trace = tlSpans[s].trace
                                      /\ tlWrap'[s].ended = tlWrap[s].ended,
         TlDelivering({"close", "match"})' = TlDelivering({"close", "match"}),
         TlDelivering({"log"})' = TlDelivering({"log"}),
         \A q \in TlProcs : TlAt(q, "flush") => TlAt(q, "flush")'
  PROVE  TlQueueOk'
<1>1. \A h \in DOMAIN TlLists : \A i \in DOMAIN TlLists[h] : TlItemOk(TlLists[h][i])'
  BY DEF TlQueueOk, TlItemOk
<1>2. TlGood(TlLists)'
  BY DEF TlQueueOk, TlGood, TlOnceIn, TlKey, TlKeys
<1> QED BY <1>1, <1>2, Zenon DEF TlQueueOk

\* The parts of the invariant that the other steps leave alone.
LEMMA TlSpansSame ==
  ASSUME TlSpansOk, UNCHANGED tlSpanVars PROVE TlSpansOk'
BY Zenon DEF TlSpansOk, tlSpanVars

\* The same for the ring.
LEMMA TlRingSame ==
  ASSUME TlRingOk, UNCHANGED tlLogVars PROVE TlRingOk'
<1>1. UNCHANGED <<tlRing, tlHead, tlCount, tlEmitted>>
  BY Zenon DEF tlLogVars
<1>2. TlRecords' = TlRecords /\ \A n : TlKept(n)' <=> TlKept(n)
  BY <1>1, Zenon DEF TlRecords, TlKept
<1> QED BY <1>1, <1>2, Zenon DEF TlRingOk

\* The same for the metrics.
LEMMA TlMetricsSame ==
  ASSUME TlMetricsOk, UNCHANGED tlMetricVars PROVE TlMetricsOk'
BY Zenon DEF TlMetricsOk, tlMetricVars

\* A sequence with one more element.
LEMMA TlAppended ==
  ASSUME NEW S, NEW q, q \in Seq(S), NEW x, x \in S, NEW r, r = Append(q, x)
  PROVE  /\ r \in Seq(S) /\ Len(r) = Len(q) + 1 /\ r[Len(q) + 1] = x
         /\ \A s \in 1 .. Len(q) : r[s] = q[s]
  OBVIOUS

\* StartSpan.
LEMMA TlStartStep ==
  ASSUME TlInv, NEW p \in TlProcs, TlStartSpan(p) PROVE TlInv'
<1>0. TlSpansOk /\ TlProcsOk /\ TlQueueOk /\ TlRingOk /\ TlMetricsOk
  BY Zenon DEF TlInv
<1> DEFINE n == Len(tlSpans)
<1>1. PICK parent \in 0 .. n :
        tlSpans' = Append(tlSpans, [id |-> n + 1,
                     trace |-> IF parent = 0 THEN n + 1 ELSE tlSpans[parent].trace, parent |-> parent,
                     error |-> FALSE, ended |-> FALSE])
  BY Zenon DEF TlStartSpan
<1>2. PICK trace : trace = IF parent = 0 THEN n + 1 ELSE tlSpans[parent].trace
  BY Zenon
<1> DEFINE new == [id |-> n + 1, trace |-> trace, parent |-> parent, error |-> FALSE, ended |-> FALSE]
           wrap == [ended |-> FALSE, error |-> FALSE]
<1>3. /\ n \in Nat /\ tlSpans \in Seq(TlSpan) /\ Len(tlWrap) = n
      /\ tlWrap \in Seq([ended : BOOLEAN, error : BOOLEAN])
  BY <1>0 DEF TlSpansOk
<1>4. trace \in Nat /\ (parent # 0 => trace = tlSpans[parent].trace)
  <2>1. CASE parent = 0
    BY <1>2, <1>3, <2>1
  <2>2. CASE parent # 0
    <3>1. parent \in 1 .. n
      BY <1>3, <2>2
    <3>2. tlSpans[parent] \in TlSpan
      BY <1>3, <3>1
    <3>3. tlSpans[parent].trace \in Nat
      BY <3>2, Zenon DEF TlSpan
    <3> QED BY <1>2, <2>2, <3>3, Zenon
  <2> QED BY <2>1, <2>2, Zenon
<1>5. new \in TlSpan /\ new.id = n + 1 /\ new.trace = trace /\ new.parent = parent
      /\ wrap \in [ended : BOOLEAN, error : BOOLEAN] /\ wrap.ended = FALSE
  BY <1>3, <1>4 DEF TlSpan
<1>6. tlSpans' = Append(tlSpans, new) /\ tlWrap' = Append(tlWrap, wrap)
  BY <1>1, <1>2, Zenon DEF TlStartSpan
<1> HIDE DEF new, wrap, n
<1>7. /\ tlSpans' \in Seq(TlSpan) /\ Len(tlSpans') = n + 1
      /\ tlSpans'[n + 1] = new /\ \A s \in 1 .. n : tlSpans'[s] = tlSpans[s]
  BY <1>3, <1>5, <1>6, TlAppended DEF n
<1>8. /\ tlWrap' \in Seq([ended : BOOLEAN, error : BOOLEAN]) /\ Len(tlWrap') = n + 1
      /\ tlWrap'[n + 1] = wrap /\ \A s \in 1 .. n : tlWrap'[s] = tlWrap[s]
  <2> DEFINE W == [ended : BOOLEAN, error : BOOLEAN]
  <2>1. tlWrap \in Seq(W) /\ wrap \in W
    BY <1>3, <1>5, Zenon
  <2> HIDE DEF W
  <2>2. /\ tlWrap' \in Seq(W) /\ Len(tlWrap') = Len(tlWrap) + 1 /\ tlWrap'[Len(tlWrap) + 1] = wrap
        /\ \A s \in 1 .. Len(tlWrap) : tlWrap'[s] = tlWrap[s]
    BY <1>6, <2>1, TlAppended
  <2> QED BY <1>3, <2>2, Zenon DEF W
<1>9. TlSpansOk'
  <2>1. ASSUME NEW s \in 1 .. n + 1
        PROVE  /\ tlSpans'[s].id = s
               /\ tlSpans'[s].parent \in 0 .. s - 1
               /\ tlSpans'[s].parent # 0 => tlSpans'[tlSpans'[s].parent].trace = tlSpans'[s].trace
    <3>1. CASE s = n + 1
      BY <1>3, <1>4, <1>5, <1>7, <3>1
    <3>2. CASE s # n + 1
      <4>1. s \in 1 .. n
        BY <1>3, <3>2
      <4>2. /\ tlSpans[s].id = s
            /\ tlSpans[s].parent \in 0 .. s - 1
            /\ tlSpans[s].parent # 0 => tlSpans[tlSpans[s].parent].trace = tlSpans[s].trace
        BY <1>0, <4>1, Zenon DEF TlSpansOk, n
      <4>3. tlSpans[s].parent # 0 => tlSpans[s].parent \in 1 .. n
        BY <1>3, <4>1, <4>2
      <4> QED BY <1>7, <4>1, <4>2, <4>3, Zenon
    <3> QED BY <3>1, <3>2, Zenon
  <2> QED BY <1>7, <1>8, <2>1, Zenon DEF TlSpansOk
<1>10. UNCHANGED <<tlProc, tlPending, tlSent, tlLost, tlEmitted, tlRegistry>>
       /\ UNCHANGED tlLogVars /\ UNCHANGED tlMetricVars
  BY Zenon DEF TlStartSpan, tlQueueVars, tlLogVars, tlMetricVars
<1>11. TlProcsOk'
  <2>1. tlProc' \in [TlProcs -> TlProcType] /\ \A r, q \in TlProcs : r # q => TlApart(r, q)'
    BY <1>0, <1>10, Zenon DEF TlProcsOk, TlApart
  <2>2. ASSUME NEW r \in TlProcs PROVE TlProcOk(r)'
    <3>1. TlProcOk(r) /\ tlProc' = tlProc /\ tlEmitted' = tlEmitted /\ tlRegistry' = tlRegistry
      BY <1>0, <1>10, Zenon DEF TlProcsOk
    <3>2. tlProc[r].span \in 1 .. n => tlProc[r].span \in 1 .. Len(tlSpans')
                                     /\ tlWrap'[tlProc[r].span] = tlWrap[tlProc[r].span]
      BY <1>3, <1>7, <1>8
    <3>3. /\ tlProc[r].pc \in {"inner", "close", "match"} => tlProc[r].span \in 1 .. n
          /\ tlProc[r].pc \in {"close", "match"} => tlWrap[tlProc[r].span].ended
      BY <3>1, Zenon DEF TlProcOk, n
    <3>4. /\ tlProc[r].pc = "log" => tlProc[r].span \in 1 .. Len(tlEmitted)
          /\ tlProc[r].pc = "send" => tlProc[r].batch \in Seq(TlItem)
          /\ tlProc[r].pc = "add" => \E m \in TlMetrics :
               tlProc[r].batch = <<m>> /\ tlRegistry[m] = tlProc[r].span /\ tlProc[r].span # 0
      BY <3>1, Zenon DEF TlProcOk
    <3> QED BY <3>1, <3>2, <3>3, <3>4, Zenon DEF TlProcOk
  <2> QED BY <2>1, <2>2, Zenon DEF TlProcsOk
<1>12. TlLists' = TlLists /\ TlQueued' = TlQueued
  BY <1>10, Zenon DEF TlLists, TlQueued, TlAt
<1>13. TlQueueOk'
  <2>1. ASSUME NEW h \in DOMAIN TlLists, NEW i \in DOMAIN TlLists[h] PROVE TlItemOk(TlLists[h][i])'
    <3>1. TlItemOk(TlLists[h][i])
      BY <1>0, Zenon DEF TlQueueOk
    <3> QED BY <1>3, <1>7, <1>10, <1>12, <3>1 DEF TlItemOk, n
  <2>2. TlGood(TlLists)'
    BY <1>0, <1>12 DEF TlQueueOk, TlGood, TlOnceIn, TlKey, TlKeys
  <2>3. <<"span", n + 1>> \notin TlQueued
    <3>1. ASSUME NEW h \in DOMAIN TlLists, NEW i \in DOMAIN TlLists[h]
          PROVE  TlKey(TlLists[h][i]) # <<"span", n + 1>>
      <4>1. TlItemOk(TlLists[h][i])
        BY <1>0, Zenon DEF TlQueueOk
      <4> QED BY <1>3, <4>1 DEF TlItemOk, TlKey, n
    <3> QED BY <3>1, Zenon DEF TlQueued, TlKeys
  <2>4. TlDelivering({"close", "match"})' = TlDelivering({"close", "match"})
        /\ TlDelivering({"log"})' = TlDelivering({"log"})
    BY <1>10, Zenon DEF TlDelivering
  <2>5. ASSUME NEW s \in 1 .. n + 1
        PROVE  <<"span", s>> \in TlQueued' <=> tlWrap'[s].ended /\ s \notin TlDelivering({"close", "match"})'
    <3>1. CASE s = n + 1
      BY <1>5, <1>8, <1>12, <2>3, <3>1, Zenon
    <3>2. CASE s # n + 1
      <4>1. s \in 1 .. n
        BY <1>3, <3>2
      <4> QED BY <1>0, <1>8, <1>12, <2>4, <4>1, Zenon DEF TlQueueOk, n
    <3> QED BY <3>1, <3>2, Zenon
  <2>6. /\ \A k \in 1 .. Len(tlEmitted') : <<"log", k>> \in TlQueued' <=> k \notin TlDelivering({"log"})'
        /\ Len(tlPending') >= TlBatch => \E q \in TlProcs : TlAt(q, "flush")'
    BY <1>0, <1>10, <1>12, <2>4, Zenon DEF TlQueueOk, TlAt
  <2> QED BY <1>7, <1>12, <2>1, <2>2, <2>5, <2>6, Zenon DEF TlQueueOk
<1> QED BY <1>0, <1>9, <1>10, <1>11, <1>13, TlRingSame, TlMetricsSame, Zenon DEF TlInv

TlFlags == [ended : BOOLEAN, error : BOOLEAN]

\* One flag of a wrapper, or of a span, is set.
LEMMA TlWrapStep ==
  ASSUME TlSpansOk, tlSpans' = tlSpans, NEW s \in 1 .. Len(tlSpans), NEW w \in TlFlags,
         tlWrap' = [tlWrap EXCEPT ![s] = w], tlWrap[s].ended => w.ended
  PROVE  /\ TlSpansOk' /\ tlWrap'[s] = w
         /\ \A t \in 1 .. Len(tlSpans) : tlWrap[t].ended => tlWrap'[t].ended
         /\ \A t \in 1 .. Len(tlSpans) \ {s} : tlWrap'[t] = tlWrap[t]
<1>1. tlWrap \in Seq(TlFlags) /\ Len(tlWrap) = Len(tlSpans) /\ Len(tlSpans) \in Nat
  BY DEF TlSpansOk, TlFlags
<1>2. tlWrap' \in Seq(TlFlags) /\ Len(tlWrap') = Len(tlSpans) /\ tlWrap'[s] = w
      /\ \A t \in 1 .. Len(tlSpans) \ {s} : tlWrap'[t] = tlWrap[t]
  BY <1>1
<1>3. TlSpansOk'
  BY <1>2, Zenon DEF TlSpansOk, TlFlags
<1> QED BY <1>2, <1>3, Zenon

\* SetError and End on the span behind a wrapper set one of its flags.
LEMMA TlSpanFlagStep ==
  ASSUME TlSpansOk, tlWrap' = tlWrap, NEW s \in 1 .. Len(tlSpans),
         \/ tlSpans' = [tlSpans EXCEPT ![s].error = TRUE]
         \/ tlSpans' = [tlSpans EXCEPT ![s].ended = TRUE]
  PROVE  /\ TlSpansOk' /\ Len(tlSpans') = Len(tlSpans)
         /\ \A t \in 1 .. Len(tlSpans) : /\ tlSpans'[t].parent = tlSpans[t].parent
                                         /\ tlSpans'[t].trace = tlSpans[t].trace
<1>1. tlSpans \in Seq(TlSpan) /\ Len(tlSpans) \in Nat /\ tlSpans[s] \in TlSpan
  BY DEF TlSpansOk
<1>2. PICK x : (x = [tlSpans[s] EXCEPT !.error = TRUE] \/ x = [tlSpans[s] EXCEPT !.ended = TRUE])
               /\ tlSpans' = [tlSpans EXCEPT ![s] = x]
  BY Zenon
<1>3. x \in TlSpan /\ x.id = tlSpans[s].id /\ x.parent = tlSpans[s].parent /\ x.trace = tlSpans[s].trace
  BY <1>1, <1>2, Zenon DEF TlSpan
<1>4. /\ tlSpans' \in Seq(TlSpan) /\ Len(tlSpans') = Len(tlSpans) /\ tlSpans'[s] = x
      /\ \A t \in 1 .. Len(tlSpans) \ {s} : tlSpans'[t] = tlSpans[t]
  BY <1>1, <1>2, <1>3
<1>5. \A t \in 1 .. Len(tlSpans) : /\ tlSpans'[t].id = tlSpans[t].id
                                   /\ tlSpans'[t].parent = tlSpans[t].parent
                                   /\ tlSpans'[t].trace = tlSpans[t].trace
  BY <1>3, <1>4, Zenon
<1>6. ASSUME NEW t \in 1 .. Len(tlSpans)
      PROVE  /\ tlSpans'[t].id = t
             /\ tlSpans'[t].parent \in 0 .. t - 1
             /\ tlSpans'[t].parent # 0 => tlSpans'[tlSpans'[t].parent].trace = tlSpans'[t].trace
  <2>1. /\ tlSpans[t].id = t /\ tlSpans[t].parent \in 0 .. t - 1
        /\ tlSpans[t].parent # 0 => tlSpans[tlSpans[t].parent].trace = tlSpans[t].trace
    BY Zenon DEF TlSpansOk
  <2>2. tlSpans[t].parent # 0 => tlSpans[t].parent \in 1 .. Len(tlSpans)
    BY <1>1, <2>1
  <2> QED BY <1>5, <2>1, <2>2, Zenon
<1>7. TlSpansOk'
  BY <1>4, <1>6, Zenon DEF TlSpansOk
<1> QED BY <1>4, <1>5, <1>7, Zenon

\* What the goroutine of a step has in hand, and how far time went.
LEMMA TlLaterSpans ==
  ASSUME TlInv, UNCHANGED <<tlEmitted, tlRegistry>>, Len(tlSpans') = Len(tlSpans),
         \A s \in 1 .. Len(tlSpans) : tlWrap[s].ended => tlWrap'[s].ended
  PROVE  TlLater
BY DEF TlInv, TlLater, TlSpansOk, TlRingOk

\* A goroutine sets the error of a span, or closes it, behind the wrapper.
LEMMA TlErrorStep ==
  ASSUME TlInv, NEW p \in TlProcs, TlSetError(p) \/ TlSetInnerError(p) \/ TlClose(p) PROVE TlInv'
<1>0. TlSpansOk /\ TlProcsOk /\ TlQueueOk /\ TlRingOk /\ TlMetricsOk
  BY Zenon DEF TlInv
<1>1. tlProc \in [TlProcs -> TlProcType] /\ tlProc[p] \in TlProcType /\ TlProcOk(p)
      /\ \A q \in TlProcs \ {p} : TlApart(p, q)
  BY <1>0, Zenon DEF TlProcsOk
<1>2. UNCHANGED <<tlPending, tlSent, tlLost, tlEmitted, tlRegistry>>
       /\ UNCHANGED tlLogVars /\ UNCHANGED tlMetricVars
  BY Zenon DEF TlSetError, TlSetInnerError, TlClose, tlQueueVars, tlLogVars, tlMetricVars
<1>3. \E r \in TlProcType :
        /\ tlProc' = [tlProc EXCEPT ![p] = r]
        /\ \/ tlProc[p].pc = "idle" /\ r.pc = "inner" /\ r.span \in 1 .. Len(tlSpans)
           \/ tlProc[p].pc = "inner" /\ r.pc = "idle"
           \/ tlProc[p].pc = "close" /\ r.pc = "match" /\ r.span = tlProc[p].span
  <2>1. CASE TlSetError(p)
    <3>1. PICK s \in DOMAIN tlSpans : tlProc' = [tlProc EXCEPT ![p].pc = "inner", ![p].span = s]
      BY <2>1, Zenon DEF TlSetError
    <3>2. s \in 1 .. Len(tlSpans) /\ s \in Nat
      BY <1>0 DEF TlSpansOk
    <3> DEFINE r == [tlProc[p] EXCEPT !.pc = "inner", !.span = s]
    <3>3. r \in TlProcType /\ r.pc = "inner" /\ r.span = s
      BY <1>1, <3>2, Zenon DEF TlProcType
    <3>4. tlProc' = [tlProc EXCEPT ![p] = r]
      BY <1>1, <3>1, Zenon
    <3> HIDE DEF r
    <3> QED BY <2>1, <3>2, <3>3, <3>4, Zenon DEF TlSetError, TlAt
  <2>2. CASE TlSetInnerError(p)
    <3> DEFINE r == [tlProc[p] EXCEPT !.pc = "idle"]
    <3>3. r \in TlProcType /\ r.pc = "idle"
      BY <1>1, Zenon DEF TlProcType
    <3>4. tlProc' = [tlProc EXCEPT ![p] = r]
      BY <1>1, <2>2, Zenon DEF TlSetInnerError, TlGo
    <3> HIDE DEF r
    <3> QED BY <2>2, <3>3, <3>4, Zenon DEF TlSetInnerError, TlAt
  <2>3. CASE TlClose(p)
    <3> DEFINE r == [tlProc[p] EXCEPT !.pc = "match"]
    <3>3. r \in TlProcType /\ r.pc = "match" /\ r.span = tlProc[p].span
      BY <1>1, Zenon DEF TlProcType
    <3>4. tlProc' = [tlProc EXCEPT ![p] = r]
      BY <1>1, <2>3, Zenon DEF TlClose, TlGo
    <3> HIDE DEF r
    <3> QED BY <2>3, <3>3, <3>4, Zenon DEF TlClose, TlAt
  <2> QED BY <2>1, <2>2, <2>3, Zenon
<1>4. PICK r \in TlProcType :
        /\ tlProc' = [tlProc EXCEPT ![p] = r]
        /\ \/ tlProc[p].pc = "idle" /\ r.pc = "inner" /\ r.span \in 1 .. Len(tlSpans)
           \/ tlProc[p].pc = "inner" /\ r.pc = "idle"
           \/ tlProc[p].pc = "close" /\ r.pc = "match" /\ r.span = tlProc[p].span
  BY <1>3, Zenon
<1>5. /\ TlSpansOk' /\ Len(tlSpans') = Len(tlSpans)
      /\ \A s \in 1 .. Len(tlSpans) : /\ tlSpans'[s].parent = tlSpans[s].parent
                                      /\ tlSpans'[s].trace = tlSpans[s].trace
                                      /\ tlWrap'[s].ended = tlWrap[s].ended
  <2>1. CASE TlSetError(p)
    <3>1. PICK s \in DOMAIN tlSpans : tlWrap' = [tlWrap EXCEPT ![s].error = TRUE]
      BY <2>1, Zenon DEF TlSetError
    <3>a. s \in 1 .. Len(tlSpans) /\ tlWrap \in Seq(TlFlags) /\ Len(tlWrap) = Len(tlSpans)
      BY <1>0 DEF TlSpansOk, TlFlags
    <3>2. s \in 1 .. Len(tlSpans) /\ tlWrap[s] \in TlFlags /\ tlSpans' = tlSpans
      BY <2>1, <3>a DEF TlSetError
    <3> DEFINE w == [tlWrap[s] EXCEPT !.error = TRUE]
    <3>3. w \in TlFlags /\ w.ended = tlWrap[s].ended /\ tlWrap' = [tlWrap EXCEPT ![s] = w]
      BY <3>1, <3>2, Zenon DEF TlFlags
    <3> HIDE DEF w
    <3> QED BY <1>0, <3>2, <3>3, TlWrapStep, Zenon
  <2>2. CASE TlSetInnerError(p) \/ TlClose(p)
    <3>1. tlProc[p].span \in 1 .. Len(tlSpans) /\ tlWrap' = tlWrap
      BY <1>1, <2>2, Zenon DEF TlProcOk, TlSetInnerError, TlClose, TlAt
    <3>2. PICK s \in 1 .. Len(tlSpans) : s = tlProc[p].span
      BY <3>1, Zenon
    <3>3. \/ tlSpans' = [tlSpans EXCEPT ![s].error = TRUE]
          \/ tlSpans' = [tlSpans EXCEPT ![s].ended = TRUE]
      BY <2>2, <3>2, Zenon DEF TlSetInnerError, TlClose
    <3> QED BY <1>0, <3>1, <3>3, TlSpanFlagStep, Zenon
  <2> QED BY <2>1, <2>2, Zenon
<1>6. TlLater
  BY <1>2, <1>5, TlLaterSpans, Zenon
<1>7. tlProc'[p] = r /\ \A q \in TlProcs \ {p} : tlProc'[q] = tlProc[q]
  BY <1>1, <1>4, Zenon
<1>8. TlProcOk(p)'
  BY <1>1, <1>4, <1>5, <1>7, Zenon DEF TlProcOk
<1>9. \A q \in TlProcs \ {p} : TlApart(p, q)'
  BY <1>1, <1>4, <1>7, Zenon DEF TlApart
<1>10. TlProcsOk'
  BY <1>0, <1>4, <1>6, <1>8, <1>9, TlProcStep, Zenon
<1>11. TlLists' = TlLists /\ TlQueued' = TlQueued
  BY <1>0, <1>2, <1>4, TlSameLists, Zenon
<1>12. TlDelivering({"close", "match"})' = TlDelivering({"close", "match"})
       /\ TlDelivering({"log"})' = TlDelivering({"log"})
  BY <1>4, <1>7 DEF TlDelivering
<1>13. \A q \in TlProcs : TlAt(q, "flush") => TlAt(q, "flush")'
  BY <1>4, <1>7, Zenon DEF TlAt
<1>14. TlQueueOk'
  BY <1>0, <1>2, <1>5, <1>11, <1>12, <1>13, TlSameQueue, Zenon
<1> QED BY <1>0, <1>2, <1>5, <1>10, <1>14, TlRingSame, TlMetricsSame, Zenon DEF TlInv

\* A goroutine that is done.
LEMMA TlIdleType ==
  /\ TlIdle \in TlProcType /\ TlIdle.pc = "idle"
  /\ [TlIdle EXCEPT !.pc = "flush"] \in TlProcType /\ [TlIdle EXCEPT !.pc = "flush"].pc = "flush"
<1>1. <<>> \in Seq(TlItem)
  OBVIOUS
<1>2. TlIdle \in TlProcType /\ TlIdle.pc = "idle"
  BY <1>1, Zenon DEF TlIdle, TlProcType
<1> QED BY <1>2, Zenon DEF TlProcType

\* End: the first caller marks the wrapper and has the span in hand.
LEMMA TlEndStep ==
  ASSUME TlInv, NEW p \in TlProcs, TlEnd(p) PROVE TlInv'
<1>0. TlSpansOk /\ TlProcsOk /\ TlQueueOk /\ TlRingOk /\ TlMetricsOk
  BY Zenon DEF TlInv
<1>1. tlProc \in [TlProcs -> TlProcType] /\ tlProc[p].pc = "idle"
  BY <1>0, Zenon DEF TlProcsOk, TlEnd, TlAt
<1>2. /\ UNCHANGED <<tlPending, tlSent, tlLost, tlEmitted, tlRegistry, tlSpans>>
      /\ UNCHANGED tlLogVars /\ UNCHANGED tlMetricVars
  BY Zenon DEF TlEnd, tlQueueVars, tlLogVars, tlMetricVars
<1>3. PICK s \in DOMAIN tlSpans :
        /\ ~tlWrap[s].ended /\ tlWrap' = [tlWrap EXCEPT ![s].ended = TRUE]
        /\ tlProc' = [tlProc EXCEPT ![p] = [TlIdle EXCEPT !.pc = "close", !.span = s,
                                                          !.error = tlWrap[s].error]]
  BY Zenon DEF TlEnd, TlMarkEnded
<1>4. s \in 1 .. Len(tlSpans) /\ tlWrap \in Seq(TlFlags) /\ Len(tlWrap) = Len(tlSpans) /\ s \in Nat
  BY <1>0 DEF TlSpansOk, TlFlags
<1>5. tlWrap[s] \in TlFlags /\ tlWrap[s].error \in BOOLEAN
  <2>1. tlWrap[s] \in TlFlags
    BY <1>4
  <2> QED BY <2>1, Zenon DEF TlFlags
<1> DEFINE w == [tlWrap[s] EXCEPT !.ended = TRUE]
           r == [TlIdle EXCEPT !.pc = "close", !.span = s, !.error = tlWrap[s].error]
<1>6. w \in TlFlags /\ w.ended = TRUE /\ tlWrap' = [tlWrap EXCEPT ![s] = w]
  BY <1>3, <1>5, Zenon DEF TlFlags
<1>7. r \in TlProcType /\ r.pc = "close" /\ r.span = s
  BY <1>4, <1>5, TlIdleType, Zenon DEF TlProcType
<1>8. tlProc' = [tlProc EXCEPT ![p] = r]
  BY <1>3, Zenon
<1> HIDE DEF w, r
<1>9. /\ TlSpansOk' /\ tlWrap'[s] = w
      /\ \A t \in 1 .. Len(tlSpans) : tlWrap[t].ended => tlWrap'[t].ended
      /\ \A t \in 1 .. Len(tlSpans) \ {s} : tlWrap'[t] = tlWrap[t]
  BY <1>0, <1>2, <1>4, <1>6, TlWrapStep, Zenon
<1>10. TlLater
  BY <1>2, <1>9, TlLaterSpans, Zenon
<1>11. tlProc'[p] = r /\ \A q \in TlProcs \ {p} : tlProc'[q] = tlProc[q]
  BY <1>1, <1>8, Zenon
<1>12. TlProcOk(p)'
  BY <1>2, <1>4, <1>6, <1>7, <1>9, <1>11, Zenon DEF TlProcOk
<1>13. \A q \in TlProcs \ {p} : TlApart(p, q)'
  <2> SUFFICES ASSUME NEW q \in TlProcs \ {p} PROVE TlApart(p, q)'
    BY Zenon
  <2>1. tlProc[q].pc \in {"close", "match"} => tlWrap[tlProc[q].span].ended
    BY <1>0, Zenon DEF TlProcsOk, TlProcOk
  <2> QED BY <1>3, <1>7, <1>11, <2>1, Zenon DEF TlApart
<1>14. TlProcsOk'
  BY <1>0, <1>7, <1>8, <1>10, <1>12, <1>13, TlProcStep, Zenon
<1>15. TlLists' = TlLists /\ TlQueued' = TlQueued
  BY <1>0, <1>1, <1>2, <1>7, <1>8, TlSameLists, Zenon
<1>16. TlDelivering({"close", "match"})' = TlDelivering({"close", "match"}) \cup {s}
       /\ TlDelivering({"log"})' = TlDelivering({"log"})
  BY <1>1, <1>7, <1>11 DEF TlDelivering
<1>17. TlQueueOk'
  <2>1. \A h \in DOMAIN TlLists : \A i \in DOMAIN TlLists[h] : TlItemOk(TlLists[h][i])'
    BY <1>0, <1>2, <1>15, Zenon DEF TlQueueOk, TlItemOk
  <2>2. TlGood(TlLists)'
    BY <1>0, <1>15 DEF TlQueueOk, TlGood, TlOnceIn, TlKey, TlKeys
  <2>3. <<"span", s>> \notin TlQueued
    BY <1>0, <1>3, <1>4, Zenon DEF TlQueueOk
  <2>4. ASSUME NEW t \in 1 .. Len(tlSpans)
        PROVE  <<"span", t>> \in TlQueued' <=> tlWrap'[t].ended /\ t \notin TlDelivering({"close", "match"})'
    <3>1. CASE t = s
      BY <1>15, <1>16, <2>3, <3>1, Zenon
    <3>2. CASE t # s
      BY <1>0, <1>9, <1>15, <1>16, <3>2, Zenon DEF TlQueueOk
    <3> QED BY <3>1, <3>2, Zenon
  <2>5. /\ \A k \in 1 .. Len(tlEmitted') : <<"log", k>> \in TlQueued' <=> k \notin TlDelivering({"log"})'
        /\ Len(tlPending') >= TlBatch => \E q \in TlProcs : TlAt(q, "flush")'
    <3>1. \A q \in TlProcs : TlAt(q, "flush") => TlAt(q, "flush")'
      BY <1>1, <1>11, Zenon DEF TlAt
    <3> QED BY <1>0, <1>2, <1>15, <1>16, <3>1, Zenon DEF TlQueueOk
  <2> QED BY <1>2, <1>15, <2>1, <2>2, <2>4, <2>5, Zenon DEF TlQueueOk
<1> QED BY <1>0, <1>2, <1>9, <1>14, <1>17, TlRingSame, TlMetricsSame, Zenon DEF TlInv

\* enqueue of an item that its goroutine had in hand.
LEMMA TlEnqueueStep ==
  ASSUME TlInv, NEW p \in TlProcs, NEW x \in TlItem, TlEnqueue(p, x), TlItemOk(x),
         UNCHANGED <<tlSpanVars, tlLogVars, tlMetricVars>>, x.id = tlProc[p].span,
         \/ x.kind = "span" /\ tlProc[p].pc = "match"
         \/ x.kind = "log" /\ tlProc[p].pc = "log"
  PROVE  TlInv'
<1>0. TlSpansOk /\ TlProcsOk /\ TlQueueOk /\ TlRingOk /\ TlMetricsOk
  BY Zenon DEF TlInv
<1>1. tlProc \in [TlProcs -> TlProcType] /\ TlProcOk(p) /\ \A q \in TlProcs \ {p} : TlApart(p, q)
  BY <1>0, Zenon DEF TlProcsOk
<1>2. UNCHANGED tlSpanVars /\ UNCHANGED tlLogVars /\ UNCHANGED tlMetricVars
      /\ UNCHANGED <<tlSpans, tlWrap, tlEmitted, tlRegistry, tlSent, tlLost>>
      /\ tlPending' = Append(tlPending, x)
  BY Zenon DEF TlEnqueue, tlSpanVars, tlLogVars, tlMetricVars
<1>4. PICK r \in TlProcType :
        /\ tlProc' = [tlProc EXCEPT ![p] = r] /\ r.pc \in {"idle", "flush"}
        /\ Len(tlPending) + 1 >= TlBatch => r.pc = "flush"
  BY TlIdleType, Zenon DEF TlEnqueue
<1>5. TlLater
  BY <1>2, TlLaterSpans, Zenon
<1>6. tlProc'[p] = r /\ \A q \in TlProcs \ {p} : tlProc'[q] = tlProc[q]
  BY <1>1, <1>4, Zenon
<1>7. TlProcsOk'
  <2>1. TlProcOk(p)' /\ \A q \in TlProcs \ {p} : TlApart(p, q)'
    BY <1>4, <1>6, Zenon DEF TlProcOk, TlApart
  <2> QED BY <1>0, <1>4, <1>5, <2>1, TlProcStep, Zenon
<1>8. /\ DOMAIN TlLists' = DOMAIN TlLists /\ "pending" \in DOMAIN TlLists
      /\ TlLists'["pending"] = Append(TlLists["pending"], x) /\ TlLists["pending"] = tlPending
      /\ \A h \in DOMAIN TlLists \ {"pending"} : TlLists'[h] = TlLists[h]
  <2>1. \A q \in TlProcs : TlAt(q, "send")' <=> TlAt(q, "send")
    BY <1>4, <1>6, Zenon DEF TlAt
  <2>2. \A q \in TlProcs : TlAt(q, "send") => tlProc'[q] = tlProc[q]
    BY <1>6, Zenon DEF TlAt
  <2>3. DOMAIN TlLists' = DOMAIN TlLists /\ "pending" \in DOMAIN TlLists
    BY <2>1, Zenon DEF TlLists
  <2>4. TlLists'["pending"] = tlPending' /\ TlLists["pending"] = tlPending
    BY Zenon DEF TlLists
  <2>5. \A h \in DOMAIN TlLists \ {"pending"} : TlLists'[h] = TlLists[h]
    BY <1>2, <2>1, <2>2, Zenon DEF TlLists
  <2> QED BY <1>2, <2>3, <2>4, <2>5, Zenon
<1>9. TlKey(x) \notin TlQueued
  <2>1. CASE x.kind = "span"
    <3>1. tlProc[p].span \in TlDelivering({"close", "match"}) /\ x.id \in 1 .. Len(tlSpans)
      BY <2>1, Zenon DEF TlDelivering, TlItemOk
    <3> QED BY <1>0, <2>1, <3>1, Zenon DEF TlQueueOk, TlKey
  <2>2. CASE x.kind = "log"
    <3>1. tlProc[p].span \in TlDelivering({"log"}) /\ x.id \in 1 .. Len(tlEmitted)
      BY <2>2, Zenon DEF TlDelivering, TlItemOk
    <3> QED BY <1>0, <2>2, <3>1, Zenon DEF TlQueueOk, TlKey
  <2> QED BY <2>1, <2>2, Zenon
<1>10. /\ TlGood(TlLists)' /\ TlQueued' = TlQueued \cup {TlKey(x)}
       /\ \A h \in DOMAIN TlLists' : \A i \in DOMAIN TlLists'[h] :
            TlLists'[h][i] = x \/ \E k \in DOMAIN TlLists : \E j \in DOMAIN TlLists[k] : TlLists'[h][i] = TlLists[k][j]
  <2>1. PICK L, M : L = TlLists /\ M = TlLists'
    BY Zenon
  <2>2. TlGood(L) /\ TlKey(x) \notin TlAll(L)
    BY <1>0, <1>9, <2>1, Zenon DEF TlQueueOk, TlAll, TlQueued
  <2>3. /\ TlGood(M) /\ TlAll(M) = TlAll(L) \cup {TlKey(x)}
        /\ \A h \in DOMAIN M : \A i \in DOMAIN M[h] :
              M[h][i] = x \/ \E k \in DOMAIN L : \E j \in DOMAIN L[k] : M[h][i] = L[k][j]
    BY <1>8, <2>1, <2>2, TlGoodAppend
  <2>4. TlGood(TlLists)'
    BY <2>1, <2>3 DEF TlGood, TlOnceIn, TlKey, TlKeys
  <2>5. TlQueued' = TlAll(M) /\ TlQueued = TlAll(L)
    BY <2>1 DEF TlAll, TlQueued, TlKeys, TlKey
  <2> QED BY <2>1, <2>3, <2>4, <2>5
<1>11. TlQueueOk'
  <2>1. ASSUME NEW h \in DOMAIN TlLists', NEW i \in DOMAIN TlLists'[h] PROVE TlItemOk(TlLists[h][i])'
    <3>1. PICK y : y = TlLists'[h][i]
      BY Zenon
    <3>2. TlItemOk(y)
      BY <1>0, <1>10, <3>1, Zenon DEF TlQueueOk
    <3> QED BY <1>2, <3>1, <3>2, Zenon DEF TlItemOk
  <2>a. /\ \A s \in 1 .. Len(tlSpans) :
             <<"span", s>> \in TlQueued <=> tlWrap[s].ended /\ s \notin TlDelivering({"close", "match"})
        /\ \A n \in 1 .. Len(tlEmitted) : <<"log", n>> \in TlQueued <=> n \notin TlDelivering({"log"})
    BY <1>0, Zenon DEF TlQueueOk
  <2>b. TlQueued' = TlQueued \cup {TlKey(x)}
    BY <1>10, Zenon
  <2>c. UNCHANGED <<tlWrap, tlSpans, tlEmitted>>
    BY <1>2, Zenon
  <2>2. /\ \A s \in 1 .. Len(tlSpans) :
             <<"span", s>> \in TlQueued' <=> tlWrap'[s].ended /\ s \notin TlDelivering({"close", "match"})'
        /\ \A n \in 1 .. Len(tlEmitted) : <<"log", n>> \in TlQueued' <=> n \notin TlDelivering({"log"})'
    <3>1. CASE x.kind = "span"
      <4>1. tlProc[p].pc = "match" /\ TlKey(x) = <<"span", tlProc[p].span>>
        BY <3>1, Zenon DEF TlKey
      <4>2. TlDelivering({"close", "match"})' = TlDelivering({"close", "match"}) \ {tlProc[p].span}
            /\ TlDelivering({"log"})' = TlDelivering({"log"})
        BY <1>1, <1>4, <1>6, <4>1, Zenon DEF TlDelivering, TlApart
      <4>3. tlWrap[tlProc[p].span].ended
        BY <1>1, <4>1, Zenon DEF TlProcOk
      <4> QED BY <2>a, <2>b, <2>c, <4>1, <4>2, <4>3
    <3>2. CASE x.kind = "log"
      <4>1. tlProc[p].pc = "log" /\ TlKey(x) = <<"log", tlProc[p].span>>
        BY <3>2, Zenon DEF TlKey
      <4>2. TlDelivering({"log"})' = TlDelivering({"log"}) \ {tlProc[p].span}
            /\ TlDelivering({"close", "match"})' = TlDelivering({"close", "match"})
        BY <1>1, <1>4, <1>6, <4>1, Zenon DEF TlDelivering, TlApart
      <4> QED BY <2>a, <2>b, <2>c, <4>1, <4>2
    <3> QED BY <3>1, <3>2, Zenon
  <2>4. Len(tlPending') >= TlBatch => \E q \in TlProcs : TlAt(q, "flush")'
    <3>1. tlPending \in Seq(TlItem)
      BY <1>0, <1>8, Zenon DEF TlQueueOk, TlGood
    <3>2. Len(tlPending') = Len(tlPending) + 1
      BY <1>2, <3>1
    <3> QED BY <1>4, <1>6, <3>2, Zenon DEF TlAt
  <2> QED BY <1>10, <2>c, <2>1, <2>2, <2>4, Zenon DEF TlQueueOk
<1> QED BY <1>0, <1>2, <1>7, <1>11, TlSpansSame, TlRingSame, TlMetricsSame, Zenon DEF TlInv

\* A closed span, or an emitted record, is queued.
LEMMA TlMatchStep ==
  ASSUME TlInv, NEW p \in TlProcs, TlMatch(p) \/ TlLogQueue(p) PROVE TlInv'
<1>0. TlSpansOk /\ TlProcsOk
  BY Zenon DEF TlInv
<1>1. tlProc[p] \in TlProcType /\ TlProcOk(p)
  BY <1>0, Zenon DEF TlProcsOk
<1>2. CASE TlMatch(p)
  <2>1. tlProc[p].pc = "match" /\ tlProc[p].span \in 1 .. Len(tlSpans) /\ tlProc[p].error \in BOOLEAN
    BY <1>1, <1>2, Zenon DEF TlMatch, TlAt, TlProcOk, TlProcType
  <2>2. PICK s \in 1 .. Len(tlSpans), e \in BOOLEAN : s = tlProc[p].span /\ e = tlProc[p].error
    BY <2>1, Zenon
  <2>3. tlSpans[s] \in TlSpan /\ tlSpans[s].id = s /\ s \in 1 .. Len(tlSpans)
    BY <1>0, <2>1, <2>2 DEF TlSpansOk
  <2>4. PICK x : x = TlSpanData(s, e)
    BY Zenon
  <2>5. x \in TlItem /\ x.kind = "span" /\ x.id = s /\ x.parent = tlSpans[s].parent
        /\ x.trace = tlSpans[s].trace
    BY <2>3, <2>4, Zenon DEF TlSpanData, TlItem, TlSpan
  <2>6. TlItemOk(x)
    BY <2>3, <2>5, Zenon DEF TlItemOk
  <2>7. TlEnqueue(p, x) /\ UNCHANGED <<tlSpanVars, tlLogVars, tlMetricVars>>
    BY <1>2, <2>2, <2>4, Zenon DEF TlMatch
  <2> QED BY <2>1, <2>2, <2>5, <2>6, <2>7, TlEnqueueStep, Zenon
<1>3. CASE TlLogQueue(p)
  <2>1. tlProc[p].pc = "log" /\ tlProc[p].span \in 1 .. Len(tlEmitted) /\ tlProc[p].span \in Nat
    BY <1>1, <1>3, Zenon DEF TlLogQueue, TlAt, TlProcOk, TlProcType
  <2>2. PICK x : x = [kind |-> "log", id |-> tlProc[p].span, trace |-> 0, parent |-> 0, error |-> FALSE]
    BY Zenon
  <2>3. x \in TlItem /\ x.kind = "log" /\ x.id = tlProc[p].span
    BY <2>1, <2>2, Zenon DEF TlItem
  <2>4. TlItemOk(x)
    BY <2>1, <2>3, Zenon DEF TlItemOk
  <2>5. TlEnqueue(p, x) /\ UNCHANGED <<tlSpanVars, tlLogVars, tlMetricVars>>
    BY <1>3, <2>2, Zenon DEF TlLogQueue
  <2> QED BY <2>1, <2>3, <2>4, <2>5, TlEnqueueStep, Zenon
<1> QED BY <1>2, <1>3, Zenon

\* A step that moves items between lists, and nothing else.
LEMMA TlMoveStep ==
  ASSUME TlInv, NEW p \in TlProcs, NEW r \in TlProcType, tlProc' = [tlProc EXCEPT ![p] = r],
         tlProc[p].pc \in {"idle", "flush", "send"}, r.pc \in {"idle", "send"},
         r.pc = "send" => r.batch \in Seq(TlItem),
         UNCHANGED <<tlSpanVars, tlLogVars, tlMetricVars>>,
         TlGood(TlLists)', TlQueued' = TlQueued, TlWithin(TlLists', TlLists),
         Len(tlPending') >= TlBatch => \E q \in TlProcs : TlAt(q, "flush")'
  PROVE  TlInv'
<1>0. TlSpansOk /\ TlProcsOk /\ TlQueueOk /\ TlRingOk /\ TlMetricsOk
  BY Zenon DEF TlInv
<1>1. tlProc \in [TlProcs -> TlProcType]
  BY <1>0, Zenon DEF TlProcsOk
<1>2. UNCHANGED tlSpanVars /\ UNCHANGED tlLogVars /\ UNCHANGED tlMetricVars
      /\ UNCHANGED <<tlSpans, tlWrap, tlEmitted, tlRegistry>>
  BY Zenon DEF tlSpanVars, tlLogVars, tlMetricVars
<1>3. TlLater
  BY <1>2, TlLaterSpans, Zenon
<1>4. tlProc'[p] = r /\ \A q \in TlProcs \ {p} : tlProc'[q] = tlProc[q]
  BY <1>1, Zenon
<1>5. TlProcsOk'
  <2>1. TlProcOk(p)' /\ \A q \in TlProcs \ {p} : TlApart(p, q)'
    BY <1>4, Zenon DEF TlProcOk, TlApart
  <2> QED BY <1>0, <1>3, <2>1, TlProcStep, Zenon
<1>6. TlDelivering({"close", "match"})' = TlDelivering({"close", "match"})
      /\ TlDelivering({"log"})' = TlDelivering({"log"})
  BY <1>4, Zenon DEF TlDelivering
<1>7. ASSUME NEW h \in DOMAIN TlLists', NEW i \in DOMAIN TlLists'[h] PROVE TlItemOk(TlLists[h][i])'
  <2>1. PICK y : y = TlLists'[h][i]
    BY Zenon
  <2>2. TlItemOk(y)
    BY <1>0, <2>1, Zenon DEF TlQueueOk, TlWithin
  <2> QED BY <1>2, <2>1, <2>2, Zenon DEF TlItemOk
<1>8. TlQueueOk'
  BY <1>0, <1>2, <1>6, <1>7, Zenon DEF TlQueueOk
<1> QED BY <1>0, <1>2, <1>5, <1>8, TlSpansSame, TlRingSame, TlMetricsSame, Zenon DEF TlInv

\* Flush takes the queue.
LEMMA TlFlushStep ==
  ASSUME TlInv, NEW p \in TlProcs, TlFlush(p) PROVE TlInv'
<1>0. TlProcsOk /\ TlQueueOk
  BY Zenon DEF TlInv
<1>1. tlProc \in [TlProcs -> TlProcType] /\ tlProc[p].pc \in {"idle", "flush"}
  BY <1>0, Zenon DEF TlProcsOk, TlFlush, TlAt
<1>2. UNCHANGED <<tlSpanVars, tlLogVars, tlMetricVars>> /\ UNCHANGED <<tlSent, tlLost>> /\ tlPending' = <<>>
  BY Zenon DEF TlFlush
<1>3. Len(tlPending') >= TlBatch => \E q \in TlProcs : TlAt(q, "flush")'
  BY <1>2, TlAssumption
<1>4. TlLists["pending"] = tlPending /\ "pending" \in DOMAIN TlLists /\ tlPending \in Seq(TlItem)
  <2>1. TlLists["pending"] = tlPending /\ "pending" \in DOMAIN TlLists
    BY Zenon DEF TlLists
  <2> QED BY <1>0, <2>1, Zenon DEF TlQueueOk, TlGood
<1>5. CASE tlPending = <<>>
  <2>1. tlProc' = [tlProc EXCEPT ![p] = TlIdle] /\ UNCHANGED <<tlPending, tlSent, tlLost>>
    BY <1>2, <1>5, Zenon DEF TlFlush
  <2>2. TlLists' = TlLists /\ TlQueued' = TlQueued
    BY <1>0, <1>1, <2>1, TlIdleType, TlSameLists, Zenon
  <2>3. TlGood(TlLists)' /\ TlWithin(TlLists', TlLists)
    BY <1>0, <2>2 DEF TlQueueOk, TlGood, TlOnceIn, TlKey, TlKeys, TlWithin
  <2> QED BY <1>1, <1>2, <1>3, <2>1, <2>2, <2>3, TlIdleType, TlMoveStep, Zenon
<1>6. CASE tlPending # <<>>
  <2>1. PICK r : r = [TlIdle EXCEPT !.pc = "send", !.batch = tlPending]
    BY Zenon
  <2>2. r \in TlProcType /\ r.pc = "send" /\ r.batch = tlPending
    BY <1>4, <2>1, TlIdleType, Zenon DEF TlProcType
  <2>3. tlProc' = [tlProc EXCEPT ![p] = r]
    BY <1>6, <2>1, Zenon DEF TlFlush
  <2>4. tlProc'[p] = r /\ \A q \in TlProcs \ {p} : tlProc'[q] = tlProc[q]
    BY <1>1, <2>3, Zenon
  <2>5. \A q \in TlProcs : TlAt(q, "send")' <=> TlAt(q, "send") \/ q = p
    BY <2>2, <2>4, Zenon DEF TlAt
  <2>6. p \notin {"pending", "sent", "lost"}
    BY TlAssumption, Zenon
  <2>7. PICK L, M : L = TlLists /\ M = TlLists'
    BY Zenon
  <2>8. /\ p \notin DOMAIN L /\ DOMAIN M = DOMAIN L \cup {p} /\ "pending" \in DOMAIN L
        /\ M["pending"] = <<>> /\ L["pending"] = tlPending
    BY <1>1, <1>2, <2>5, <2>6, <2>7, Zenon DEF TlLists, TlAt
  <2>9. M[p] = L["pending"]
    BY <1>2, <2>2, <2>4, <2>5, <2>6, <2>7, <2>8, Zenon DEF TlLists
  <2>10. \A h \in DOMAIN L \ {"pending"} : M[h] = L[h]
    BY <1>2, <2>4, <2>5, <2>7, <2>8, Zenon DEF TlLists
  <2>11. TlGood(M) /\ TlAll(M) = TlAll(L) /\ TlWithin(M, L)
    <3>1. TlGood(L)
      BY <1>0, <2>7, Zenon DEF TlQueueOk
    <3> QED BY <2>8, <2>9, <2>10, <3>1, TlGoodMove, Zenon
  <2>12. TlGood(TlLists)' /\ TlWithin(TlLists', TlLists)
    BY <2>7, <2>11 DEF TlGood, TlOnceIn, TlKey, TlKeys
  <2>13. TlQueued' = TlAll(M) /\ TlQueued = TlAll(L)
    BY <2>7 DEF TlAll, TlQueued, TlKeys, TlKey
  <2> QED BY <1>1, <1>2, <1>3, <1>4, <2>2, <2>3, <2>11, <2>12, <2>13, TlMoveStep, Zenon
<1> QED BY <1>5, <1>6, Zenon

\* The sender takes a batch, or refuses it.
LEMMA TlSendStep ==
  ASSUME TlInv, NEW p \in TlProcs, TlSend(p) PROVE TlInv'
<1>0. TlProcsOk /\ TlQueueOk
  BY Zenon DEF TlInv
<1>1. tlProc \in [TlProcs -> TlProcType] /\ tlProc[p].pc = "send"
  BY <1>0, Zenon DEF TlProcsOk, TlSend, TlAt
<1>2. /\ UNCHANGED <<tlSpanVars, tlLogVars, tlMetricVars>> /\ tlPending' = tlPending
      /\ tlProc' = [tlProc EXCEPT ![p] = TlIdle]
  BY Zenon DEF TlSend
<1>3. tlProc'[p] = TlIdle /\ \A q \in TlProcs \ {p} : tlProc'[q] = tlProc[q]
  BY <1>1, <1>2, Zenon
<1>4. \A q \in TlProcs : TlAt(q, "send")' <=> TlAt(q, "send") /\ q # p
  BY <1>3, TlIdleType, Zenon DEF TlAt
<1>5. p \notin {"pending", "sent", "lost"}
  BY TlAssumption, Zenon
<1>a. PICK L, M : L = TlLists /\ M = TlLists'
  BY Zenon
<1>6. PICK d \in {"sent", "lost"} :
        /\ d = "sent" => tlSent' = tlSent \o tlProc[p].batch /\ tlLost' = tlLost
        /\ d = "lost" => tlLost' = tlLost \o tlProc[p].batch /\ tlSent' = tlSent
  BY Zenon DEF TlSend
<1>7. /\ p \in DOMAIN L /\ DOMAIN M = DOMAIN L \ {p} /\ d \in DOMAIN L /\ L[p] = tlProc[p].batch
  <2>1. TlAt(p, "send")
    BY <1>1, Zenon DEF TlAt
  <2> QED BY <1>4, <1>5, <1>6, <1>a, <2>1, Zenon DEF TlLists
<1>8. M[d] = L[d] \o L[p]
  <2>1. L["sent"] = tlSent /\ L["lost"] = tlLost /\ M["sent"] = tlSent' /\ M["lost"] = tlLost'
    BY <1>a, Zenon DEF TlLists
  <2> QED BY <1>6, <1>7, <2>1, Zenon
<1>9. ASSUME NEW h \in DOMAIN L \ {d, p} PROVE M[h] = L[h]
  <2>1. L["sent"] = tlSent /\ L["lost"] = tlLost /\ M["sent"] = tlSent' /\ M["lost"] = tlLost'
        /\ M["pending"] = tlPending' /\ L["pending"] = tlPending
    BY <1>a, Zenon DEF TlLists
  <2>2. CASE h \in {"pending", "sent", "lost"}
    BY <1>2, <1>6, <1>9, <2>1, <2>2, Zenon
  <2>3. CASE h \notin {"pending", "sent", "lost"}
    <3>1. h \in TlProcs /\ TlAt(h, "send") /\ TlAt(h, "send")' /\ h # p
      BY <1>4, <1>a, <1>9, <2>3, Zenon DEF TlLists
    <3>2. L[h] = tlProc[h].batch /\ M[h] = tlProc'[h].batch
      BY <1>a, <2>3, <3>1, Zenon DEF TlLists
    <3> QED BY <1>3, <3>1, <3>2, Zenon
  <2> QED BY <2>2, <2>3, Zenon
<1>10. TlGood(M) /\ TlAll(M) = TlAll(L) /\ TlWithin(M, L)
  <2>1. TlGood(L)
    BY <1>0, <1>a, Zenon DEF TlQueueOk
  <2>2. p \in DOMAIN L \ {d}
    BY <1>5, <1>7, Zenon
  <2> QED BY <1>7, <1>8, <1>9, <2>1, <2>2, TlGoodSend, Zenon
<1>11. TlGood(TlLists)' /\ TlWithin(TlLists', TlLists)
  BY <1>a, <1>10 DEF TlGood, TlOnceIn, TlKey, TlKeys
<1>12. TlQueued' = TlAll(M) /\ TlQueued = TlAll(L)
  BY <1>a DEF TlAll, TlQueued, TlKeys, TlKey
<1>13. Len(tlPending') >= TlBatch => \E q \in TlProcs : TlAt(q, "flush")'
  <2>1. \A q \in TlProcs : TlAt(q, "flush") => TlAt(q, "flush")'
    BY <1>1, <1>3, Zenon DEF TlAt
  <2> QED BY <1>0, <1>2, <2>1, Zenon DEF TlQueueOk
<1> QED BY <1>1, <1>2, <1>10, <1>11, <1>12, <1>13, TlIdleType, TlMoveStep, Zenon

\* Positions in the ring.
LEMMA TlMod ==
  ASSUME NEW C \in Nat \ {0}, NEW x \in Nat, x < C + C
  PROVE  x % C = IF x < C THEN x ELSE x - C
<1>1. CASE x < C
  BY <1>1
<1>2. CASE x >= C
  BY <1>2
<1> QED BY <1>1, <1>2

\* A kept record goes to the head: the records gain it at the end, and lose the
\* first when the ring was full.
LEMMA TlRingWrite ==
  ASSUME TlRingOk, NEW n \in Nat, tlRing' = [tlRing EXCEPT ![tlHead] = n],
         tlHead' = (tlHead + 1) % TlCapacity,
         tlCount' = IF tlCount < TlCapacity THEN tlCount + 1 ELSE tlCount
  PROVE  /\ tlRing' \in [0 .. TlCapacity - 1 -> Nat] /\ tlHead' \in 0 .. TlCapacity - 1
         /\ tlCount' \in 1 .. TlCapacity /\ (tlCount' < TlCapacity => tlHead' = tlCount')
         /\ TlRecords'[tlCount'] = n
         /\ tlCount < TlCapacity =>
              tlCount' = tlCount + 1 /\ \A i \in 1 .. tlCount : TlRecords'[i] = TlRecords[i]
         /\ tlCount = TlCapacity =>
              tlCount' = tlCount /\ \A i \in 1 .. tlCount - 1 : TlRecords'[i] = TlRecords[i + 1]
<1>1. PICK C \in Nat \ {0} : C = TlCapacity
  BY TlAssumption, Zenon
<1>2. PICK h \in 0 .. C - 1, c \in 0 .. C : h = tlHead /\ c = tlCount
  BY <1>1, Zenon DEF TlRingOk
<1>3. tlRing \in [0 .. C - 1 -> Nat] /\ (c < C => h = c)
  BY <1>1, <1>2, Zenon DEF TlRingOk
<1>4. PICK g : g = IF h + 1 = C THEN 0 ELSE h + 1
  BY Zenon
<1>5. g \in 0 .. C - 1 /\ tlHead' = g
  <2>1. PICK x \in Nat : x = h + 1 /\ x < C + C
    BY <1>2
  <2>2. x % C = IF x < C THEN x ELSE x - C
    BY <2>1, TlMod, Zenon
  <2>3. tlHead' = x % C
    BY <1>1, <1>2, <2>1, Zenon
  <2> QED BY <1>2, <1>4, <2>1, <2>2, <2>3
<1>6. PICK d \in 1 .. C : d = tlCount' /\ (c < C => d = c + 1) /\ (c = C => d = c)
  BY <1>1, <1>2
<1>7. tlRing' \in [0 .. C - 1 -> Nat] /\ tlRing'[h] = n /\ \A k \in 0 .. C - 1 : k # h => tlRing'[k] = tlRing[k]
  BY <1>2, <1>3, Zenon
<1>8. \A i \in 1 .. c : TlRecords[i] = tlRing[IF c = C THEN (h + i - 1) % C ELSE i - 1]
  BY <1>1, <1>2, Zenon DEF TlRecords
<1>9. \A i \in 1 .. d : TlRecords'[i] = tlRing'[IF d = C THEN (g + i - 1) % C ELSE i - 1]
  BY <1>1, <1>5, <1>6, Zenon DEF TlRecords
<1>10. \A i \in 1 .. C : /\ (h + i - 1) % C = IF h + i - 1 < C THEN h + i - 1 ELSE h + i - 1 - C
                         /\ (g + i - 1) % C = IF g + i - 1 < C THEN g + i - 1 ELSE g + i - 1 - C
  <2> SUFFICES ASSUME NEW i \in 1 .. C
               PROVE  /\ (h + i - 1) % C = IF h + i - 1 < C THEN h + i - 1 ELSE h + i - 1 - C
                      /\ (g + i - 1) % C = IF g + i - 1 < C THEN g + i - 1 ELSE g + i - 1 - C
    BY Zenon
  <2>1. PICK x \in Nat, y \in Nat : x = h + i - 1 /\ x < C + C /\ y = g + i - 1 /\ y < C + C
    BY <1>2, <1>5
  <2>2. x % C = (IF x < C THEN x ELSE x - C) /\ y % C = IF y < C THEN y ELSE y - C
    BY <2>1, TlMod, Zenon
  <2>3. (h + i - 1) % C = x % C /\ (g + i - 1) % C = y % C
    BY <2>1, Zenon
  <2>4. x = h + i - 1 /\ y = g + i - 1
    BY <2>1, Zenon
  <2>5. /\ x % C = IF h + i - 1 < C THEN h + i - 1 ELSE h + i - 1 - C
        /\ y % C = IF g + i - 1 < C THEN g + i - 1 ELSE g + i - 1 - C
    BY <1>5, <2>2, <2>4
  <2> QED BY <2>3, <2>5, Zenon
<1>11. ASSUME c < C
       PROVE  TlRecords'[d] = n /\ \A i \in 1 .. c : TlRecords'[i] = TlRecords[i]
  <2>1. h = c /\ d = c + 1 /\ (d = C => g = 0)
    BY <1>2, <1>3, <1>4, <1>6, <1>11, Zenon
  <2>2. \A i \in 1 .. d : TlRecords'[i] = tlRing'[i - 1]
    <3> SUFFICES ASSUME NEW i \in 1 .. d PROVE TlRecords'[i] = tlRing'[i - 1]
      BY Zenon
    <3>1. i \in 1 .. C
      BY <1>6
    <3>2. d = C => (g + i - 1) % C = i - 1
      BY <1>10, <2>1, <3>1
    <3> QED BY <1>9, <3>2, Zenon
  <2>3. TlRecords'[d] = n
    BY <1>6, <1>7, <2>1, <2>2
  <2>4. ASSUME NEW i \in 1 .. c PROVE TlRecords'[i] = TlRecords[i]
    <3>1. i \in 1 .. d /\ i - 1 \in 0 .. C - 1 /\ i - 1 # h /\ c # C
      BY <1>2, <1>11, <2>1
    <3> QED BY <1>7, <1>8, <2>2, <3>1, Zenon
  <2> QED BY <2>3, <2>4, Zenon
<1>12. ASSUME c = C
       PROVE  TlRecords'[d] = n /\ \A i \in 1 .. c - 1 : TlRecords'[i] = TlRecords[i + 1]
  <2>1. d = C
    BY <1>6, <1>12, Zenon
  <2>2. (g + C - 1) % C = h
    BY <1>2, <1>4, <1>5, <1>10
  <2>3. TlRecords'[d] = n
    BY <1>6, <1>7, <1>9, <2>1, <2>2, Zenon
  <2>4. ASSUME NEW i \in 1 .. c - 1 PROVE TlRecords'[i] = TlRecords[i + 1]
    <3>1. i \in 1 .. C /\ i + 1 \in 1 .. C /\ i \in 1 .. d /\ i + 1 \in 1 .. c
      BY <1>12, <2>1
    <3>2. PICK k \in 0 .. C - 1 : k = (h + (i + 1) - 1) % C
      BY <1>2, <1>10, <3>1
    <3>3. (g + i - 1) % C = k /\ k # h
      <4>1. k = IF h + (i + 1) - 1 < C THEN h + (i + 1) - 1 ELSE h + (i + 1) - 1 - C
        BY <1>10, <3>1, <3>2, Zenon
      <4>2. (g + i - 1) % C = IF g + i - 1 < C THEN g + i - 1 ELSE g + i - 1 - C
        BY <1>10, <3>1, Zenon
      <4>3. i < C
        BY <1>12
      <4> QED BY <1>2, <1>4, <4>1, <4>2, <4>3
    <3>4. TlRecords'[i] = tlRing'[k]
      BY <1>9, <2>1, <3>1, <3>3, Zenon
    <3>5. TlRecords[i + 1] = tlRing[k]
      BY <1>8, <1>12, <3>1, <3>2, Zenon
    <3> QED BY <1>7, <3>3, <3>4, <3>5, Zenon
  <2> QED BY <2>3, <2>4, Zenon
<1>13. d < C => g = d
  BY <1>2, <1>3, <1>4, <1>6
<1>14. TlRecords'[d] = n
  BY <1>2, <1>11, <1>12
<1> QED BY <1>1, <1>2, <1>5, <1>6, <1>7, <1>11, <1>12, <1>13, <1>14, Zenon

\* Emit: the ring.
LEMMA TlEmitRing ==
  ASSUME TlRingOk, NEW level \in TlLevels, NEW n, n = Len(tlEmitted) + 1,
         tlEmitted' = Append(tlEmitted, level),
         IF level < TlMinLevel THEN UNCHANGED <<tlRing, tlHead, tlCount>>
         ELSE /\ tlRing' = [tlRing EXCEPT ![tlHead] = n]
              /\ tlHead' = (tlHead + 1) % TlCapacity
              /\ tlCount' = IF tlCount < TlCapacity THEN tlCount + 1 ELSE tlCount
  PROVE  TlRingOk' /\ Len(tlEmitted') = n /\ n \in Nat
<1>1. tlEmitted \in Seq(TlLevels) /\ level \in Int /\ TlMinLevel \in Int /\ TlCapacity \in Nat \ {0}
  BY TlAssumption, Zenon DEF TlRingOk
<1>2. /\ n \in Nat \ {0} /\ Len(tlEmitted) = n - 1 /\ tlEmitted' \in Seq(TlLevels) /\ Len(tlEmitted') = n
      /\ tlEmitted'[n] = level /\ \A k \in 1 .. n - 1 : tlEmitted'[k] = tlEmitted[k]
  BY <1>1
<1>3. \A k \in 1 .. n - 1 : TlKept(k)' <=> TlKept(k)
  BY <1>2, Zenon DEF TlKept
<1>4. /\ \A i \in 1 .. tlCount : /\ TlRecords[i] \in 1 .. n - 1 /\ TlKept(TlRecords[i])
                                 /\ i > 1 => TlRecords[i - 1] < TlRecords[i]
      /\ \A k \in 1 .. n - 1 : TlKept(k) =>
           \/ \E i \in 1 .. tlCount : TlRecords[i] = k
           \/ tlCount = TlCapacity /\ k < TlRecords[1]
      /\ tlCount \in 0 .. TlCapacity
  BY <1>2, Zenon DEF TlRingOk
<1>5. CASE level < TlMinLevel
  <2>1. ~TlKept(n)' /\ TlRecords' = TlRecords /\ tlCount' = tlCount
    BY <1>1, <1>2, <1>5 DEF TlKept, TlRecords
  <2>2. /\ \A i \in 1 .. tlCount' : /\ TlRecords'[i] \in 1 .. n /\ TlKept(TlRecords[i])'
                                    /\ i > 1 => TlRecords'[i - 1] < TlRecords'[i]
        /\ \A k \in 1 .. n : TlKept(k)' =>
             \/ \E i \in 1 .. tlCount' : TlRecords'[i] = k
             \/ tlCount' = TlCapacity /\ k < TlRecords'[1]
    <3>1. \A k \in 1 .. n : k = n \/ k \in 1 .. n - 1
      BY <1>2
    <3>2. \A i \in 1 .. tlCount' : TlKept(TlRecords[i])'
      BY <1>2, <1>4, <2>1, Zenon DEF TlKept
    <3>3. \A k \in 1 .. n : TlKept(k)' => k \in 1 .. n - 1 /\ TlKept(k)
      BY <1>3, <2>1, <3>1, Zenon
    <3> QED BY <1>2, <1>4, <2>1, <3>2, <3>3
  <2> QED BY <1>2, <1>5, <2>1, <2>2, Zenon DEF TlRingOk
<1>6. CASE ~(level < TlMinLevel)
  <2>1. /\ tlRing' \in [0 .. TlCapacity - 1 -> Nat] /\ tlHead' \in 0 .. TlCapacity - 1
        /\ tlCount' \in 1 .. TlCapacity /\ (tlCount' < TlCapacity => tlHead' = tlCount')
        /\ TlRecords'[tlCount'] = n
        /\ tlCount < TlCapacity =>
             tlCount' = tlCount + 1 /\ \A i \in 1 .. tlCount : TlRecords'[i] = TlRecords[i]
        /\ tlCount = TlCapacity =>
             tlCount' = tlCount /\ \A i \in 1 .. tlCount - 1 : TlRecords'[i] = TlRecords[i + 1]
    BY <1>2, <1>6, TlRingWrite, Zenon
  <2>2. PICK c, d, R, S : c = tlCount /\ d = tlCount' /\ R = TlRecords /\ S = TlRecords'
    BY Zenon
  <2>3. TlKept(n)'
    BY <1>1, <1>2, <1>6 DEF TlKept
  <2>4. ASSUME NEW i \in 1 .. d
        PROVE  /\ S[i] \in 1 .. n /\ TlKept(S[i])' /\ (i > 1 => S[i - 1] < S[i])
               /\ i = d \/ S[i] \in 1 .. n - 1
    <3>1. CASE c < TlCapacity
      <4>1. /\ d = c + 1 /\ S[d] = n /\ \A j \in 1 .. c : S[j] = R[j]
            /\ \A j \in 1 .. c : R[j] \in 1 .. n - 1 /\ TlKept(R[j]) /\ (j > 1 => R[j - 1] < R[j])
            /\ c \in Nat
        BY <1>4, <2>1, <2>2, <3>1
      <4>2. CASE i = d
        <5>1. i > 1 => i - 1 \in 1 .. c
          BY <4>1, <4>2
        <5> QED BY <1>2, <2>3, <4>1, <4>2, <5>1
      <4>3. CASE i # d
        <5>1. i \in 1 .. c /\ (i > 1 => i - 1 \in 1 .. c)
          BY <4>1, <4>3
        <5>2. S[i] \in 1 .. n - 1 /\ TlKept(S[i])'
          BY <1>3, <4>1, <5>1, Zenon
        <5> QED BY <1>2, <4>1, <5>1, <5>2
      <4> QED BY <4>2, <4>3, Zenon
    <3>2. CASE c = TlCapacity
      <4>1. /\ d = c /\ S[d] = n /\ \A j \in 1 .. c - 1 : S[j] = R[j + 1]
            /\ \A j \in 1 .. c : R[j] \in 1 .. n - 1 /\ TlKept(R[j]) /\ (j > 1 => R[j - 1] < R[j])
            /\ c \in Nat \ {0}
        BY <1>1, <1>4, <2>1, <2>2, <3>2, Zenon
      <4>2. CASE i = d
        <5>1. i > 1 => i - 1 \in 1 .. c - 1 /\ (i - 1) + 1 \in 1 .. c
          BY <4>1, <4>2
        <5> QED BY <1>2, <2>3, <4>1, <4>2, <5>1
      <4>3. CASE i # d
        <5>1. i \in 1 .. c - 1 /\ i + 1 \in 1 .. c /\ i + 1 > 1 /\ (i > 1 => i - 1 \in 1 .. c - 1 /\ (i - 1) + 1 = i /\ (i + 1) - 1 = i)
          BY <4>1, <4>3
        <5>2. S[i] \in 1 .. n - 1 /\ TlKept(S[i])'
          BY <1>3, <4>1, <5>1, Zenon
        <5>3. i > 1 => S[i - 1] < S[i]
          <6> SUFFICES ASSUME i > 1 PROVE S[i - 1] < S[i]
            BY Zenon
          <6>1. S[i - 1] = R[i] /\ S[i] = R[i + 1] /\ R[(i + 1) - 1] < R[i + 1]
            BY <4>1, <5>1, Zenon
          <6> QED BY <5>1, <6>1, Zenon
        <5> QED BY <1>2, <5>2, <5>3
      <4> QED BY <4>2, <4>3, Zenon
    <3> QED BY <1>1, <1>4, <2>2, <3>1, <3>2
  <2>5. ASSUME NEW k \in 1 .. n, TlKept(k)'
        PROVE  (\E i \in 1 .. d : S[i] = k) \/ (d = TlCapacity /\ k < S[1])
    <3>0. d \in 1 .. TlCapacity /\ S[d] = n
      BY <2>1, <2>2, Zenon
    <3>1. CASE k = n
      BY <3>0, <3>1
    <3>2. CASE k # n
      <4>1. k \in 1 .. n - 1 /\ TlKept(k)
        BY <1>2, <1>3, <2>5, <3>2
      <4>2. (\E i \in 1 .. c : R[i] = k) \/ (c = TlCapacity /\ k < R[1])
        BY <1>4, <2>2, <4>1, Zenon
      <4>3. CASE c < TlCapacity
        <5>1. /\ c \in Nat /\ TlCapacity \in Nat /\ d = c + 1
              /\ \A j \in 1 .. c : S[j] = R[j]
          BY <1>1, <1>4, <2>1, <2>2, <4>3
        <5>2. PICK i \in 1 .. c : R[i] = k
          BY <4>2, <4>3, <5>1
        <5> QED BY <5>1, <5>2
      <4>4. CASE c = TlCapacity
        <5>1. /\ d = c /\ \A j \in 1 .. c - 1 : S[j] = R[j + 1]
              /\ \A j \in 1 .. c : R[j] \in 1 .. n - 1 /\ (j > 1 => R[j - 1] < R[j])
              /\ c \in Nat \ {0}
          BY <1>1, <1>4, <2>1, <2>2, <4>4, Zenon
        <5>2. R[1] < S[1]
          <6>1. CASE c = 1
            BY <1>2, <3>0, <5>1, <6>1
          <6>2. CASE c # 1
            <7>1. 1 \in 1 .. c - 1 /\ 1 + 1 = 2 /\ 2 \in 1 .. c /\ 2 - 1 = 1 /\ 2 > 1
              BY <5>1, <6>2
            <7> QED BY <5>1, <7>1, Zenon
          <6> QED BY <6>1, <6>2, Zenon
        <5>3. S[1] \in Int /\ R[1] \in Int
          <6>1. 1 \in 1 .. d /\ 1 \in 1 .. c
            BY <5>1
          <6> QED BY <2>4, <5>1, <6>1
        <5>4. CASE k < R[1] \/ k = R[1]
          BY <4>4, <5>1, <5>2, <5>3, <5>4
        <5>5. CASE ~(k < R[1] \/ k = R[1])
          <6>1. PICK i \in 1 .. c : R[i] = k
            BY <4>2, <5>5, Zenon
          <6>2. i # 1 /\ i - 1 \in 1 .. c - 1 /\ (i - 1) + 1 = i /\ i - 1 \in 1 .. d
            BY <5>1, <5>5, <6>1
          <6>3. S[i - 1] = R[i]
            BY <5>1, <6>2, Zenon
          <6> QED BY <6>1, <6>2, <6>3, Zenon
        <5> QED BY <5>4, <5>5, Zenon
      <4> QED BY <1>1, <1>4, <2>2, <4>3, <4>4
    <3> QED BY <3>1, <3>2, Zenon
  <2>6. ASSUME NEW i \in 1 .. d
        PROVE TlRecords'[i] \in 1 .. n /\ TlKept(TlRecords[i])' /\ (i > 1 => TlRecords'[i - 1] < TlRecords'[i])
    BY <2>2, <2>4, Zenon DEF TlKept
  <2>7. tlCount' \in 0 .. TlCapacity
    BY <1>1, <2>1
  <2> QED BY <1>2, <2>1, <2>2, <2>5, <2>6, <2>7, Zenon DEF TlRingOk
<1> QED BY <1>2, <1>5, <1>6, Zenon

\* Emit: a new record, in the hand of the goroutine that emits it.
LEMMA TlEmitStep ==
  ASSUME TlInv, NEW p \in TlProcs, TlEmit(p) PROVE TlInv'
<1>0. TlSpansOk /\ TlProcsOk /\ TlQueueOk /\ TlRingOk /\ TlMetricsOk
  BY Zenon DEF TlInv
<1>1. tlProc \in [TlProcs -> TlProcType] /\ tlProc[p].pc = "idle" /\ tlProc[p] \in TlProcType
  BY <1>0, Zenon DEF TlProcsOk, TlEmit, TlAt
<1>2. /\ UNCHANGED <<tlPending, tlSent, tlLost, tlRegistry, tlSpans, tlWrap>>
      /\ UNCHANGED tlSpanVars /\ UNCHANGED tlMetricVars
  BY Zenon DEF TlEmit, tlQueueVars, tlSpanVars, tlMetricVars
<1>3. \E level \in TlLevels, n \in {Len(tlEmitted) + 1} :
        /\ tlEmitted' = Append(tlEmitted, level)
        /\ IF level < TlMinLevel THEN UNCHANGED <<tlRing, tlHead, tlCount>>
           ELSE /\ tlRing' = [tlRing EXCEPT ![tlHead] = n]
                /\ tlHead' = (tlHead + 1) % TlCapacity
                /\ tlCount' = IF tlCount < TlCapacity THEN tlCount + 1 ELSE tlCount
        /\ tlProc' = [tlProc EXCEPT ![p].pc = "log", ![p].span = n]
  BY Zenon DEF TlEmit
<1>4. PICK level \in TlLevels, n \in {Len(tlEmitted) + 1} :
        /\ tlEmitted' = Append(tlEmitted, level)
        /\ IF level < TlMinLevel THEN UNCHANGED <<tlRing, tlHead, tlCount>>
           ELSE /\ tlRing' = [tlRing EXCEPT ![tlHead] = n]
                /\ tlHead' = (tlHead + 1) % TlCapacity
                /\ tlCount' = IF tlCount < TlCapacity THEN tlCount + 1 ELSE tlCount
        /\ tlProc' = [tlProc EXCEPT ![p].pc = "log", ![p].span = n]
  BY <1>3, Zenon
<1>5. TlRingOk' /\ Len(tlEmitted') = n /\ n \in Nat
  BY <1>0, <1>4, TlEmitRing, Zenon
<1>6. Len(tlEmitted) = n - 1 /\ Len(tlEmitted) \in Nat
  BY <1>0, <1>4 DEF TlRingOk
<1> DEFINE r == [tlProc[p] EXCEPT !.pc = "log", !.span = n]
<1>7. r \in TlProcType /\ r.pc = "log" /\ r.span = n
  BY <1>1, <1>5, Zenon DEF TlProcType
<1>8. tlProc' = [tlProc EXCEPT ![p] = r]
  BY <1>1, <1>4, Zenon
<1> HIDE DEF r
<1>9. TlSpansOk' /\ Len(tlSpans) \in Nat
  BY <1>0, <1>2, TlSpansSame DEF TlSpansOk
<1>10. TlLater
  BY <1>2, <1>5, <1>6, <1>9 DEF TlLater
<1>11. tlProc'[p] = r /\ \A q \in TlProcs \ {p} : tlProc'[q] = tlProc[q]
  BY <1>1, <1>8, Zenon
<1>12. TlProcOk(p)'
  <2>1. n \in 1 .. Len(tlEmitted')
    BY <1>5, <1>6
  <2> QED BY <1>7, <1>11, <2>1, Zenon DEF TlProcOk
<1>13. \A q \in TlProcs \ {p} : TlApart(p, q)'
  <2> SUFFICES ASSUME NEW q \in TlProcs \ {p} PROVE TlApart(p, q)'
    BY Zenon
  <2>1. tlProc[q].pc = "log" => tlProc[q].span \in 1 .. n - 1
    BY <1>0, <1>6, Zenon DEF TlProcsOk, TlProcOk
  <2>2. tlProc[q].pc = "log" => tlProc[q].span # n
    BY <1>5, <2>1
  <2> QED BY <1>7, <1>11, <2>2, Zenon DEF TlApart
<1>14. TlProcsOk'
  BY <1>0, <1>7, <1>8, <1>10, <1>12, <1>13, TlProcStep, Zenon
<1>15. TlLists' = TlLists /\ TlQueued' = TlQueued
  BY <1>0, <1>1, <1>2, <1>7, <1>8, TlSameLists, Zenon
<1>16. TlDelivering({"close", "match"})' = TlDelivering({"close", "match"})
       /\ TlDelivering({"log"})' = TlDelivering({"log"}) \cup {n}
  BY <1>1, <1>7, <1>11 DEF TlDelivering
<1>17. TlQueueOk'
  <2>1. \A h \in DOMAIN TlLists : \A i \in DOMAIN TlLists[h] : TlItemOk(TlLists[h][i])'
    <3> SUFFICES ASSUME NEW h \in DOMAIN TlLists, NEW i \in DOMAIN TlLists[h]
                 PROVE TlItemOk(TlLists[h][i])'
      BY Zenon
    <3>1. PICK x : x = TlLists[h][i]
      BY Zenon
    <3>2. TlItemOk(x)
      BY <1>0, <3>1, Zenon DEF TlQueueOk
    <3>3. TlItemOk(x)'
      BY <1>2, <1>5, <1>6, <3>2 DEF TlItemOk
    <3>4. x = TlLists'[h][i]
      BY <1>15, <3>1, Zenon
    <3> QED BY <3>3, <3>4, <1>15, Zenon DEF TlItemOk
  <2>2. TlGood(TlLists)'
    BY <1>0, <1>15 DEF TlQueueOk, TlGood, TlOnceIn, TlKey, TlKeys
  <2>3. <<"log", n>> \notin TlQueued
    <3> SUFFICES ASSUME <<"log", n>> \in TlQueued PROVE FALSE
      BY Zenon
    <3>0. PICK h \in DOMAIN TlLists : <<"log", n>> \in TlKeys(TlLists[h])
      BY Zenon DEF TlQueued
    <3>1. PICK k \in DOMAIN TlLists[h] : TlKey(TlLists[h][k]) = <<"log", n>>
      BY <3>0, Zenon DEF TlKeys
    <3>2. PICK x : x = TlLists[h][k]
      BY Zenon
    <3>3. TlItemOk(x) /\ x.kind = "log" /\ x.id = n
      BY <1>0, <3>1, <3>2, Zenon DEF TlQueueOk, TlKey
    <3>4. n \in 1 .. n - 1
      BY <1>6, <3>3, Zenon DEF TlItemOk
    <3> QED BY <1>5, <3>4
  <2>4. ASSUME NEW t \in 1 .. n
        PROVE  <<"log", t>> \in TlQueued' <=> t \notin TlDelivering({"log"})'
    <3>1. CASE t = n
      BY <1>15, <1>16, <2>3, <3>1, Zenon
    <3>2. CASE t # n
      <4>1. t \in 1 .. Len(tlEmitted)
        BY <1>5, <1>6, <3>2
      <4> QED BY <1>0, <1>15, <1>16, <3>2, <4>1, Zenon DEF TlQueueOk
    <3> QED BY <3>1, <3>2, Zenon
  <2>5. /\ \A s \in 1 .. Len(tlSpans') :
             <<"span", s>> \in TlQueued' <=> tlWrap'[s].ended /\ s \notin TlDelivering({"close", "match"})'
        /\ Len(tlPending') >= TlBatch => \E q \in TlProcs : TlAt(q, "flush")'
    <3>1. \A q \in TlProcs : TlAt(q, "flush") => TlAt(q, "flush")'
      BY <1>1, <1>11, Zenon DEF TlAt
    <3> QED BY <1>0, <1>2, <1>15, <1>16, <3>1, Zenon DEF TlQueueOk
  <2> QED BY <1>5, <1>15, <2>1, <2>2, <2>4, <2>5, Zenon DEF TlQueueOk
<1> QED BY <1>0, <1>2, <1>5, <1>9, <1>14, <1>17, TlMetricsSame, Zenon DEF TlInv

\* A goroutine turns to an instrument or is done with it.
LEMMA TlMetricStep ==
  ASSUME TlInv, NEW p \in TlProcs, NEW r \in TlProcType, tlProc' = [tlProc EXCEPT ![p] = r],
         \/ tlProc[p].pc = "idle" /\ r.pc = "add"
         \/ tlProc[p].pc = "add" /\ r.pc = "idle",
         TlProcOk(p)', TlMetricsOk',
         \A m \in TlMetrics : tlRegistry[m] # 0 => tlRegistry'[m] = tlRegistry[m],
         UNCHANGED <<tlSpanVars, tlQueueVars, tlLogVars>>
  PROVE  TlInv'
<1>0. TlSpansOk /\ TlProcsOk /\ TlQueueOk /\ TlRingOk
  BY Zenon DEF TlInv
<1>1. tlProc \in [TlProcs -> TlProcType]
  BY <1>0, Zenon DEF TlProcsOk
<1>2. /\ UNCHANGED <<tlPending, tlSent, tlLost, tlEmitted, tlSpans, tlWrap>>
      /\ UNCHANGED tlSpanVars /\ UNCHANGED tlLogVars
  BY Zenon DEF tlQueueVars, tlSpanVars, tlLogVars
<1>3. TlSpansOk' /\ TlRingOk' /\ Len(tlSpans) \in Nat /\ Len(tlEmitted) \in Nat
  BY <1>0, <1>2, TlSpansSame, TlRingSame DEF TlSpansOk, TlRingOk
<1>4. TlLater
  BY <1>2, <1>3 DEF TlLater
<1>5. tlProc'[p] = r /\ \A q \in TlProcs \ {p} : tlProc'[q] = tlProc[q]
  BY <1>1, Zenon
<1>6. \A q \in TlProcs \ {p} : TlApart(p, q)'
  BY <1>5, Zenon DEF TlApart
<1>7. TlProcsOk'
  BY <1>0, <1>4, <1>6, TlProcStep, Zenon
<1>8. TlLists' = TlLists /\ TlQueued' = TlQueued
  BY <1>0, <1>2, TlSameLists, Zenon
<1>9. TlDelivering({"close", "match"})' = TlDelivering({"close", "match"})
      /\ TlDelivering({"log"})' = TlDelivering({"log"})
  BY <1>5 DEF TlDelivering
<1>10. \A q \in TlProcs : TlAt(q, "flush") => TlAt(q, "flush")'
  BY <1>5, Zenon DEF TlAt
<1>11. TlQueueOk'
  BY <1>0, <1>2, <1>8, <1>9, <1>10, TlSameQueue, Zenon
<1> QED BY <1>3, <1>7, <1>11, Zenon DEF TlInv

\* An instrument is found or created; no two keys share one.
LEMMA TlInstrumentStep ==
  ASSUME TlInv, NEW p \in TlProcs, TlInstrument(p) PROVE TlInv'
<1>0. TlProcsOk /\ TlMetricsOk
  BY Zenon DEF TlInv
<1>1. tlProc \in [TlProcs -> TlProcType] /\ tlProc[p].pc = "idle" /\ tlProc[p] \in TlProcType
  BY <1>0, Zenon DEF TlProcsOk, TlInstrument, TlAt
<1>2. UNCHANGED <<tlSpanVars, tlQueueVars, tlLogVars>>
  BY Zenon DEF TlInstrument
<1>3. PICK m \in TlMetrics :
         IF tlRegistry[m] # 0
         THEN /\ tlProc' = [tlProc EXCEPT ![p].pc = "add", ![p].span = tlRegistry[m], ![p].batch = <<m>>]
              /\ UNCHANGED tlMetricVars
         ELSE /\ tlValues' = Append(tlValues, 0)
              /\ tlRegistry' = [tlRegistry EXCEPT ![m] = Len(tlValues) + 1]
              /\ tlProc' = [tlProc EXCEPT ![p].pc = "add", ![p].span = Len(tlValues) + 1,
                                          ![p].batch = <<m>>]
              /\ UNCHANGED tlAdded
  BY Zenon DEF TlInstrument
<1>4. tlValues \in Seq(Nat) /\ Len(tlValues) \in Nat /\ tlRegistry \in [TlMetrics -> 0 .. Len(tlValues)]
      /\ tlAdded \in [TlMetrics -> Nat]
  BY <1>0 DEF TlMetricsOk
<1>5. /\ TlMetricsOk' /\ \A k \in TlMetrics : tlRegistry[k] # 0 => tlRegistry'[k] = tlRegistry[k]
      /\ tlRegistry'[m] \in Nat \ {0}
      /\ tlProc' = [tlProc EXCEPT ![p].pc = "add", ![p].span = tlRegistry'[m], ![p].batch = <<m>>]
  <2>1. CASE tlRegistry[m] # 0
    <3>1. UNCHANGED tlMetricVars /\ tlRegistry' = tlRegistry
      BY <1>3, <2>1, Zenon DEF tlMetricVars
    <3>2. TlMetricsOk'
      BY <1>0, <3>1, TlMetricsSame, Zenon
    <3>3. tlRegistry[m] \in 0 .. Len(tlValues)
      BY <1>4, Zenon
    <3>4. tlRegistry'[m] \in Nat \ {0}
      BY <1>4, <2>1, <3>1, <3>3
    <3>5. tlProc' = [tlProc EXCEPT ![p].pc = "add", ![p].span = tlRegistry'[m], ![p].batch = <<m>>]
      BY <1>3, <2>1, <3>1, Zenon
    <3> QED BY <3>1, <3>2, <3>4, <3>5, Zenon
  <2>2. CASE tlRegistry[m] = 0
    <3>1. PICK c : c = Len(tlValues) + 1
      BY Zenon
    <3>2. /\ tlValues' = Append(tlValues, 0) /\ tlRegistry' = [tlRegistry EXCEPT ![m] = c]
          /\ tlProc' = [tlProc EXCEPT ![p].pc = "add", ![p].span = c, ![p].batch = <<m>>]
          /\ tlAdded' = tlAdded
      BY <1>3, <2>2, <3>1, Zenon
    <3>3. /\ c \in Nat \ {0} /\ tlValues' \in Seq(Nat) /\ Len(tlValues') = c /\ Len(tlValues) = c - 1
          /\ tlValues'[c] = 0 /\ \A i \in 1 .. c - 1 : tlValues'[i] = tlValues[i]
      BY <1>4, <3>1, <3>2
    <3>4. /\ tlRegistry' \in [TlMetrics -> 0 .. c] /\ tlRegistry'[m] = c
          /\ \A k \in TlMetrics \ {m} : tlRegistry'[k] = tlRegistry[k]
          /\ \A k \in TlMetrics : tlRegistry[k] \in 0 .. c - 1
      BY <1>4, <3>2, <3>3
    <3>5. \A k \in TlMetrics : tlRegistry[k] # c /\ (tlRegistry[k] # 0 => tlRegistry[k] \in 1 .. c - 1)
      BY <3>3, <3>4
    <3>6. \A k, n \in TlMetrics : tlRegistry'[k] = tlRegistry'[n] /\ tlRegistry'[k] # 0 => k = n
      BY <1>0, <3>4, <3>5, Zenon DEF TlMetricsOk
    <3>7. \A k \in TlMetrics : tlAdded'[k] = IF tlRegistry'[k] = 0 THEN 0 ELSE tlValues'[tlRegistry'[k]]
      BY <1>0, <2>2, <3>2, <3>3, <3>4, <3>5 DEF TlMetricsOk
    <3> QED BY <1>4, <2>2, <3>2, <3>3, <3>4, <3>6, <3>7, Zenon DEF TlMetricsOk
  <2> QED BY <2>1, <2>2, Zenon
<1>6. PICK c \in Nat \ {0} : c = tlRegistry'[m]
  BY <1>5, Zenon
<1> DEFINE r == [tlProc[p] EXCEPT !.pc = "add", !.span = c, !.batch = <<m>>]
<1>7. r \in TlProcType /\ r.pc = "add" /\ r.span = c /\ r.batch = <<m>>
  BY <1>1, <1>6, Zenon DEF TlProcType
<1>8. tlProc' = [tlProc EXCEPT ![p] = r]
  BY <1>1, <1>5, <1>6, Zenon
<1> HIDE DEF r
<1>9. tlProc'[p] = r
  BY <1>1, <1>8, Zenon
<1>10. TlProcOk(p)'
  BY <1>6, <1>7, <1>9, Zenon DEF TlProcOk
<1> QED BY <1>1, <1>2, <1>5, <1>7, <1>8, <1>10, TlMetricStep, Zenon

\* What is added to an instrument is added to its key.
LEMMA TlAddStep ==
  ASSUME TlInv, NEW p \in TlProcs, TlAdd(p) PROVE TlInv'
<1>0. TlProcsOk /\ TlMetricsOk
  BY Zenon DEF TlInv
<1>1. tlProc \in [TlProcs -> TlProcType] /\ tlProc[p].pc = "add" /\ TlProcOk(p)
  BY <1>0, Zenon DEF TlProcsOk, TlAdd, TlAt
<1>2. PICK m \in TlMetrics : tlProc[p].batch = <<m>> /\ tlRegistry[m] = tlProc[p].span /\ tlProc[p].span # 0
  BY <1>1, Zenon DEF TlProcOk
<1>3. PICK c : c = tlProc[p].span
  BY Zenon
<1>4. /\ tlValues \in Seq(Nat) /\ Len(tlValues) \in Nat /\ tlRegistry \in [TlMetrics -> 0 .. Len(tlValues)]
      /\ tlAdded \in [TlMetrics -> Nat] /\ c \in 1 .. Len(tlValues)
  BY <1>0, <1>2, <1>3 DEF TlMetricsOk
<1>5. /\ tlValues' = [tlValues EXCEPT ![c] = @ + 1] /\ tlAdded' = [tlAdded EXCEPT ![m] = @ + 1]
      /\ tlProc' = [tlProc EXCEPT ![p] = TlIdle] /\ tlRegistry' = tlRegistry
      /\ UNCHANGED <<tlSpanVars, tlQueueVars, tlLogVars>>
  <2>1. Head(<<m>>) = m
    OBVIOUS
  <2> QED BY <1>2, <1>3, <2>1, Zenon DEF TlAdd
<1>6. /\ tlValues' \in Seq(Nat) /\ Len(tlValues') = Len(tlValues) /\ tlValues'[c] = tlValues[c] + 1
      /\ \A i \in 1 .. Len(tlValues) \ {c} : tlValues'[i] = tlValues[i]
  BY <1>4, <1>5
<1>7. TlMetricsOk'
  <2>1. \A k \in TlMetrics : tlRegistry[k] = c => k = m
    BY <1>0, <1>2, <1>3, Zenon DEF TlMetricsOk
  <2>2. tlAdded' \in [TlMetrics -> Nat] /\ tlAdded'[m] = tlAdded[m] + 1
        /\ \A k \in TlMetrics \ {m} : tlAdded'[k] = tlAdded[k]
    BY <1>4, <1>5
  <2>3. \A k \in TlMetrics : tlRegistry[k] # 0 => tlRegistry[k] \in 1 .. Len(tlValues)
    BY <1>4
  <2>4. \A k \in TlMetrics : tlAdded'[k] = IF tlRegistry'[k] = 0 THEN 0 ELSE tlValues'[tlRegistry'[k]]
    BY <1>0, <1>2, <1>3, <1>5, <1>6, <2>1, <2>2, <2>3 DEF TlMetricsOk
  <2> QED BY <1>0, <1>4, <1>5, <1>6, <2>2, <2>4, Zenon DEF TlMetricsOk
<1>8. TlProcOk(p)'
  BY <1>1, <1>5, TlIdleType, Zenon DEF TlProcOk
<1> QED BY <1>1, <1>5, <1>7, <1>8, TlIdleType, TlMetricStep, Zenon

\* Every step.
LEMMA TlStep == TlInv /\ [TlNext]_tlVars => TlInv'
<1> SUFFICES ASSUME TlInv, [TlNext]_tlVars PROVE TlInv'
  BY Zenon
<1>1. CASE TlSpanNext
  BY <1>1, TlStartStep, TlErrorStep, TlEndStep, TlMatchStep, TlFlushStep, TlSendStep, Zenon
     DEF TlSpanNext, TlDrainNext
<1>2. CASE TlLogNext
  BY <1>2, TlEmitStep, TlMatchStep, TlFlushStep, TlSendStep, Zenon DEF TlLogNext, TlDrainNext
<1>3. CASE TlMetricNext
  BY <1>3, TlInstrumentStep, TlAddStep, Zenon DEF TlMetricNext
<1>4. CASE UNCHANGED tlVars
  <2>1. /\ UNCHANGED <<tlPending, tlSent, tlLost, tlEmitted, tlSpans, tlWrap, tlProc, tlRegistry>>
        /\ UNCHANGED tlSpanVars /\ UNCHANGED tlLogVars /\ UNCHANGED tlMetricVars
    BY <1>4, Zenon DEF tlVars, tlQueueVars, tlSpanVars, tlLogVars, tlMetricVars
  <2>2. TlSpansOk' /\ TlRingOk' /\ TlMetricsOk'
    BY <2>1, TlSpansSame, TlRingSame, TlMetricsSame, Zenon DEF TlInv
  <2>3. TlProcsOk'
    BY <2>1, Zenon DEF TlInv, TlProcsOk, TlProcOk, TlApart
  <2>4. TlLists' = TlLists /\ TlQueued' = TlQueued
    BY <2>1 DEF TlLists, TlQueued, TlAt, TlKeys, TlKey
  <2>5. TlDelivering({"close", "match"})' = TlDelivering({"close", "match"})
        /\ TlDelivering({"log"})' = TlDelivering({"log"})
        /\ \A q \in TlProcs : TlAt(q, "flush") => TlAt(q, "flush")'
    BY <2>1, Zenon DEF TlDelivering, TlAt
  <2>6. TlQueueOk'
    BY <2>1, <2>4, <2>5, TlSameQueue, Zenon DEF TlInv
  <2> QED BY <2>2, <2>3, <2>6, Zenon DEF TlInv
<1> QED BY <1>1, <1>2, <1>3, <1>4, Zenon DEF TlNext

\* The invariant holds initially: every list is empty.
LEMMA TlStart == TlInit => TlInv
<1> SUFFICES ASSUME TlInit PROVE TlInv
  BY Zenon
<1>1. tlSpans = <<>> /\ tlWrap = <<>> /\ tlPending = <<>> /\ tlSent = <<>> /\ tlLost = <<>>
      /\ tlProc = [p \in TlProcs |-> TlIdle] /\ tlEmitted = <<>> /\ tlValues = <<>>
      /\ tlCount = 0 /\ tlHead = 0 /\ tlRing = [i \in 0 .. TlCapacity - 1 |-> 0]
      /\ tlRegistry = [m \in TlMetrics |-> 0] /\ tlAdded = [m \in TlMetrics |-> 0]
  BY Zenon DEF TlInit
<1>2. TlSpansOk
  BY <1>1 DEF TlSpansOk
<1>3. \A p \in TlProcs : tlProc[p].pc = "idle"
  BY <1>1, TlIdleType, Zenon
<1>4. TlProcsOk
  BY <1>1, <1>3, TlIdleType, Zenon DEF TlProcsOk, TlProcOk, TlApart
<1>5. \A h \in DOMAIN TlLists : TlLists[h] = <<>>
  BY <1>1, <1>3, Zenon DEF TlLists, TlAt
<1>6. TlGood(TlLists)
  <2>1. <<>> \in Seq(TlItem) /\ TlKeys(<<>>) = {} /\ TlOnceIn(<<>>)
    BY DEF TlKeys, TlOnceIn
  <2> QED BY <1>5, <2>1, Zenon DEF TlGood
<1>7. TlQueueOk
  <2>1. Len(tlPending) = 0 /\ Len(tlSpans) = 0 /\ Len(tlEmitted) = 0 /\ TlBatch \in Nat \ {0}
    BY <1>1, TlAssumption, Zenon
  <2>2. \A h \in DOMAIN TlLists : \A i \in DOMAIN TlLists[h] : TlItemOk(TlLists[h][i])
    BY <1>5
  <2> QED BY <1>6, <2>1, <2>2 DEF TlQueueOk
<1>8. TlRingOk
  BY <1>1, TlAssumption DEF TlRingOk
<1>9. TlMetricsOk
  BY <1>1 DEF TlMetricsOk
<1> QED BY <1>2, <1>4, <1>7, <1>8, <1>9, Zenon DEF TlInv

\* However the goroutines of the exporters interleave, and whichever batches
\* the senders refuse: no ended span and no record is lost track of or
\* handed over twice, a full queue has its flusher, the ring holds the last
\* records that reach the level, and a snapshot is all that was added.
THEOREM ExportedOnce == TlSpec => []TlExportedOnce
<1>1. TlInv => TlExportedOnce
  <2> SUFFICES ASSUME TlInv PROVE TlExportedOnce
    BY Zenon
  <2>0. TlSpansOk /\ TlQueueOk /\ TlRingOk /\ TlMetricsOk
    BY Zenon DEF TlInv
  <2>1. DOMAIN tlSpans = 1 .. Len(tlSpans) /\ DOMAIN tlEmitted = 1 .. Len(tlEmitted)
    BY <2>0 DEF TlSpansOk, TlRingOk
  <2>2. ASSUME NEW h \in DOMAIN TlLists, NEW i \in DOMAIN TlLists[h], NEW x, x = TlLists[h][i],
               x.kind = "span", x.parent # 0
        PROVE  tlSpans[x.parent].trace = x.trace
    <3>1. TlItemOk(x)
      BY <2>0, <2>2, Zenon DEF TlQueueOk
    <3> QED BY <2>0, <2>2, <3>1, Zenon DEF TlItemOk, TlSpansOk
  <2>3. TlSnapshot = tlAdded
    BY <2>0, Zenon DEF TlSnapshot, TlMetricsOk
  <2>4. \A h \in DOMAIN TlLists :
         /\ \A i, j \in DOMAIN TlLists[h] : TlKey(TlLists[h][i]) = TlKey(TlLists[h][j]) => i = j
         /\ \A k \in DOMAIN TlLists \ {h} : TlKeys(TlLists[h]) \cap TlKeys(TlLists[k]) = {}
    BY <2>0, Zenon DEF TlQueueOk, TlGood, TlOnceIn
  <2>5. \A h \in DOMAIN TlLists : \A i \in DOMAIN TlLists[h] :
          LET x == TlLists[h][i] IN x.kind = "span" /\ x.parent # 0 => tlSpans[x.parent].trace = x.trace
    BY <2>2, Zenon
  <2>6. /\ \A s \in DOMAIN tlSpans :
             <<"span", s>> \in TlQueued <=> tlWrap[s].ended /\ s \notin TlDelivering({"close", "match"})
        /\ \A n \in DOMAIN tlEmitted : <<"log", n>> \in TlQueued <=> n \notin TlDelivering({"log"})
        /\ Len(tlPending) >= TlBatch => \E p \in TlProcs : TlAt(p, "flush")
    BY <2>0, <2>1, Zenon DEF TlQueueOk
  <2>7. /\ \A i \in 1 .. tlCount : /\ TlRecords[i] \in DOMAIN tlEmitted /\ TlKept(TlRecords[i])
                                   /\ i > 1 => TlRecords[i - 1] < TlRecords[i]
        /\ \A n \in DOMAIN tlEmitted : TlKept(n) =>
             \/ \E i \in 1 .. tlCount : TlRecords[i] = n
             \/ tlCount = TlCapacity /\ n < TlRecords[1]
    BY <2>0, <2>1, Zenon DEF TlRingOk
  <2> QED BY <2>3, <2>4, <2>5, <2>6, <2>7, Zenon DEF TlExportedOnce
<1> QED BY <1>1, TlStart, TlStep, PTL DEF TlSpec

-----------------------------------------------------------------------------
(* Run records and checkpoints of the command line.                        *)

\* A process that has read runs.json and still works.
Past(p) == pc[p] \notin {"idle", "open", "done"}

\* Which commands reach which steps.
Roles ==
  \A p \in Procs :
    /\ pc[p] \in {"create", "start", "loop", "save", "finish"} => p \in Runners
    /\ pc[p] \in {"check", "cancel"} => p \notin Runners
    /\ pc[p] \in {"save", "finish"} => outcome[p] \in Final

\* What the missing overlap gives: a run sets up alone, and runs come one by one.
Solo ==
  /\ \A p, q \in Procs : SettingUp(p) /\ Alive(q) => q = p
  /\ \A p, q \in Runners : Alive(p) /\ Alive(q) => p = q

Created == {r \in Runners : runsFile.sid[r] # 0}

\* The StoreRunIDs in runs.json are drawn from the counter, one for each run.
IdsDrawn ==
  /\ runsFile.next = Cardinality(Created) + 1
  /\ \A r \in Runners : runsFile.sid[r] < runsFile.next
  /\ \A r, s \in Runners : runsFile.sid[r] = runsFile.sid[s] /\ runsFile.sid[r] # 0 => r = s
  /\ \A r \in Runners : pc[r] \in {"idle", "open", "create"} => runsFile.sid[r] = 0
  /\ \A r \in Runners : pc[r] \in {"start", "loop", "save", "finish"} => runsFile.sid[r] # 0

\* A list of runs that may replace runs.json.
Agrees(db) ==
  /\ db.next = runsFile.next /\ db.sid = runsFile.sid
  /\ \A r \in Runners : db.status[r] = "none" <=> runsFile.sid[r] = 0
  /\ \A r \in Runners : db.status[r] \in {"completed", "failed"} =>
        /\ pc[r] = "done"
        /\ storeFile[runsFile.sid[r]].state = db.status[r]
        /\ storeFile[runsFile.sid[r]].turn[1] = r

Images == Agrees(runsFile) /\ \A p \in Procs : Past(p) => Agrees(runsMem[p])

\* The checkpoints: a run's process sees the file, and its last turn is stored
\* once, before its record is finished.
Checkpoints ==
  /\ \A p \in Runners : Alive(p) => storeMem[p] = storeFile
  /\ \A i \in StoreIDs, r \in Runners : storeFile[i].turn = <<r, "last">> => pc[r] \in {"finish", "done"}
  /\ \A r \in Runners : pc[r] = "finish" =>
        storeFile[runsFile.sid[r]] = [state |-> outcome[r], turn |-> <<r, "last">>]

\* A cancel works on a run its image knows.
Aimed == \A p \in Procs : pc[p] = "cancel" => target[p] \in Runners /\ Known(p, target[p])

FilesInv == TypeOK /\ Roles /\ Aimed /\ Solo /\ IdsDrawn /\ Images /\ Checkpoints

-----------------------------------------------------------------------------
(* The parts of a state a step can change.                                 *)

\* The ids that can be drawn are positive.
LEMMA IDs == StoreIDs \subseteq Nat /\ 0 \notin StoreIDs /\ 1 \in StoreIDs
<1>1. Cardinality(Runners) \in Nat
  BY RunFilesAssumption, FS_CardinalityType, Zenon
<1> QED BY <1>1 DEF StoreIDs

\* A record whose status changes keeps its other fields.
WithStatus(db, r, s) == [db EXCEPT !.status = [@ EXCEPT ![r] = s]]

\* FinishRun changes one status.
LEMMA FinishedDB ==
  ASSUME NEW db \in RunsDB, NEW r, NEW s \in Status
  PROVE  /\ WithStatus(db, r, s) \in RunsDB
         /\ WithStatus(db, r, s).next = db.next /\ WithStatus(db, r, s).sid = db.sid
         /\ \A x \in Runners : WithStatus(db, r, s).status[x] = IF x = r THEN s ELSE db.status[x]
<1>1. [db.status EXCEPT ![r] = s] \in [Runners -> Status]
  BY Zenon DEF RunsDB
<1>2. WithStatus(db, r, s) = [next |-> db.next, status |-> [db.status EXCEPT ![r] = s], sid |-> db.sid]
  BY DEF RunsDB, WithStatus
<1> QED BY <1>1, <1>2 DEF RunsDB

\* What the end of a process does.
LEMMA Losing ==
  ASSUME TypeOK, NEW p \in Procs, LoseImages(p)
  PROVE  /\ runsMem' \in [Procs -> RunsDB] /\ storeMem' \in [Procs -> StoreDB]
         /\ \A q \in Procs \ {p} : runsMem'[q] = runsMem[q] /\ storeMem'[q] = storeMem[q]
<1>1. EmptyRuns \in RunsDB
  BY IDs, Zenon DEF EmptyRuns, RunsDB, Status
<1>2. EmptyStore \in StoreDB
  BY Zenon DEF EmptyStore, StoreDB, NoCheckpoint, CheckpointType, Status
<1> QED BY <1>1, <1>2, Zenon DEF TypeOK, LoseImages

-----------------------------------------------------------------------------
(* Where the processes are.                                                *)

\* Every step after the first.
Work(p) ==
  \/ OpenRuns(p) \/ Crash(p)
  \/ RunCreate(p) \/ RunStart(p) \/ RunEvent(p) \/ LoopEnds(p) \/ RunSave(p) \/ RunFinish(p)
  \/ CancelRefused(p) \/ CancelSave(p) \/ CancelFinish(p) \/ ResumeRefused(p)

\* A step of the system is a step of one process.
LEMMA Steps == [Next]_vars => UNCHANGED vars \/ \E p \in Procs : OpenStore(p) \/ Work(p)
  BY Zenon DEF Next, Work

\* A process at work moves itself only, and does not go back to setting up.
LEMMA WorkMoves ==
  ASSUME TypeOK, NEW p \in Procs, Work(p)
  PROVE  /\ Alive(p) /\ pc'[p] \notin {"idle", "open"} /\ (SettingUp(p)' => SettingUp(p))
         /\ \A q \in Procs \ {p} : pc'[q] = pc[q]
<1> USE DEF TypeOK, Alive, SettingUp, Go
<1>1. CASE OpenRuns(p) \/ RunCreate(p) \/ RunStart(p) \/ LoopEnds(p) \/ RunSave(p) \/ RunFinish(p)
  BY <1>1, Zenon DEF OpenRuns, RunCreate, RunStart, LoopEnds, RunSave, RunFinish
<1>2. CASE RunEvent(p) \/ Crash(p)
  BY <1>2, Zenon DEF RunEvent, Crash
<1>3. CASE CancelSave(p) \/ CancelFinish(p)
  BY <1>3, Zenon DEF CancelSave, CancelFinish
<1>4. CASE CancelRefused(p) \/ ResumeRefused(p)
  BY <1>4, Zenon DEF CancelRefused, ResumeRefused, Refuse
<1> QED BY <1>1, <1>2, <1>3, <1>4, Zenon DEF Work

\* Every step keeps what the missing overlap gives.
LEMMA SoloStep ==
  ASSUME ~Overlap, TypeOK, Solo, [Next]_vars
  PROVE  Solo'
<1>1. CASE UNCHANGED vars
  BY <1>1, Zenon DEF Solo, SettingUp, Alive, vars
<1>2. ASSUME NEW p \in Procs, OpenStore(p) PROVE Solo'
  <2>1. /\ \A q \in Procs : IF p \in Runners THEN ~Alive(q) ELSE ~SettingUp(q)
        /\ pc[p] = "idle" /\ pc' = [pc EXCEPT ![p] = "open"]
    BY <1>2, Zenon DEF OpenStore, Go
  <2>2. \A q \in Procs \ {p} : pc'[q] = pc[q]
    BY <2>1
  <2> QED BY <2>1, <2>2, Zenon DEF Solo, SettingUp, Alive, Procs
<1>3. ASSUME NEW p \in Procs, Work(p) PROVE Solo'
  BY <1>3, WorkMoves, Zenon DEF Solo, SettingUp, Alive, Procs
<1> QED BY <1>1, <1>2, <1>3, Steps, Zenon

\* Every step keeps the target of a cancel one its image knows.
LEMMA AimedStep ==
  ASSUME TypeOK, Aimed, [Next]_vars
  PROVE  Aimed'
<1> USE DEF Aimed, Known
<1>1. CASE UNCHANGED vars
  BY <1>1, Zenon DEF vars
<1>2. ASSUME NEW p \in Procs, CancelSave(p) PROVE Aimed'
  <2>1. PICK r \in Runners : Known(p, r) /\ target' = [target EXCEPT ![p] = r]
    BY <1>2, Zenon DEF CancelSave
  <2>2. UNCHANGED runsMem /\ \A q \in Procs \ {p} : pc'[q] = pc[q] /\ target'[q] = target[q]
    BY <1>2, <2>1, Zenon DEF CancelSave, Go, TypeOK
  <2> QED BY <2>1, <2>2, Zenon DEF TypeOK
<1>3. ASSUME NEW p \in Procs, OpenStore(p) \/ Work(p), ~CancelSave(p) PROVE Aimed'
  <2>1. \A q \in Procs \ {p} : runsMem'[q] = runsMem[q]
    BY <1>3, Zenon DEF Work, OpenStore, OpenRuns, Crash, RunCreate, Create, RunStart, RunEvent, LoopEnds, RunSave, RunFinish,
       CancelRefused, CancelFinish, ResumeRefused, Refuse, LoseImages, FinishRun, WriteRuns, TypeOK
  <2>2. \A q \in Procs \ {p} : pc'[q] = pc[q] /\ target'[q] = target[q]
    BY <1>3, Zenon DEF Work, OpenStore, OpenRuns, Crash, RunCreate, RunStart, RunEvent, LoopEnds, RunSave, RunFinish,
       CancelRefused, CancelFinish, ResumeRefused, Refuse, Go, TypeOK
  <2>3. pc'[p] # "cancel"
    BY <1>3, Zenon DEF Work, OpenStore, OpenRuns, Crash, RunCreate, RunStart, RunEvent, LoopEnds, RunSave, RunFinish,
       CancelRefused, CancelFinish, ResumeRefused, Refuse, Go, TypeOK
  <2> QED BY <2>1, <2>2, <2>3, Zenon
<1> HIDE DEF Aimed
<1> QED BY <1>1, <1>2, <1>3, Steps, Zenon

\* Every step keeps the commands to their own steps.
LEMMA RolesStep ==
  ASSUME TypeOK, Roles, [Next]_vars
  PROVE  Roles'
<1> USE DEF TypeOK, Roles, Go
<1>1. CASE UNCHANGED vars
  BY <1>1, Zenon DEF vars
<1>2. ASSUME NEW p \in Procs, OpenStore(p) \/ OpenRuns(p) \/ RunCreate(p) \/ RunStart(p) \/ RunFinish(p) PROVE Roles'
  BY <1>2 DEF OpenStore, OpenRuns, RunCreate, RunStart, RunFinish
<1>3. ASSUME NEW p \in Procs, RunSave(p) PROVE Roles'
  BY <1>3, Zenon DEF RunSave
<1>4. ASSUME NEW p \in Procs, LoopEnds(p) PROVE Roles'
  BY <1>4, Zenon DEF LoopEnds
<1>5. ASSUME NEW p \in Procs, RunEvent(p) \/ Crash(p) PROVE Roles'
  BY <1>5 DEF RunEvent, Crash
<1>6. ASSUME NEW p \in Procs, CancelSave(p) \/ CancelFinish(p) PROVE Roles'
  BY <1>6, Zenon DEF CancelSave, CancelFinish
<1>7. ASSUME NEW p \in Procs, CancelRefused(p) \/ ResumeRefused(p) PROVE Roles'
  BY <1>7, Zenon DEF CancelRefused, ResumeRefused, Refuse
<1> HIDE DEF Roles
<1> QED BY <1>1, <1>2, <1>3, <1>4, <1>5, <1>6, <1>7, Zenon DEF Next

-----------------------------------------------------------------------------
(* What the steps write.                                                   *)

\* A process writes runs.json from an image that differs from the file in the
\* statuses only, except when it creates its record.
Rewrites(p, db) ==
  /\ WriteRuns(p, db) /\ UNCHANGED <<storeFile, storeMem>>
  /\ db \in RunsDB /\ db.next = runsMem[p].next /\ db.sid = runsMem[p].sid

\* The steps that rewrite runs.json change at most the status of one run.
LEMMA RewriteSteps ==
  ASSUME TypeOK, Roles, NEW p \in Procs, RunEvent(p) \/ RunFinish(p) \/ CancelFinish(p)
  PROVE  \E db : /\ Rewrites(p, db)
                 /\ \A r \in Runners :
                      \/ db.status[r] = runsMem[p].status[r]
                      \/ CancelFinish(p) /\ r = target[p] /\ db.status[r] \in {"canceled", "crashed"}
                      \/ RunFinish(p) /\ r = p /\ db.status[r] = outcome[p]
<1>1. runsMem[p] \in RunsDB
  BY Zenon DEF TypeOK
<1>2. CASE RunEvent(p)
  BY <1>1, <1>2, Zenon DEF RunEvent, Rewrites
<1>3. CASE RunFinish(p)
  <2>1. outcome[p] \in Status
    BY <1>3, Zenon DEF RunFinish, Roles, Go, Status
  <2>0. PICK db : db = WithStatus(runsMem[p], p, outcome[p])
    BY Zenon
  <2>2. WriteRuns(p, db) /\ UNCHANGED <<storeFile, storeMem>>
    BY <1>3, <2>0, Zenon DEF RunFinish, FinishRun, WithStatus
  <2>3. /\ db \in RunsDB /\ db.next = runsMem[p].next /\ db.sid = runsMem[p].sid
        /\ \A x \in Runners : db.status[x] = IF x = p THEN outcome[p] ELSE runsMem[p].status[x]
    BY <1>1, <2>0, <2>1, FinishedDB
  <2> QED BY <1>3, <2>2, <2>3, Zenon DEF Rewrites
<1>4. CASE CancelFinish(p)
  <2>1. NewState(p) \in {"canceled", "crashed"} /\ NewState(p) \in Status
    BY Zenon DEF NewState, Status, Final
  <2>0. PICK db : db = WithStatus(runsMem[p], target[p], NewState(p))
    BY Zenon
  <2>2. WriteRuns(p, db) /\ UNCHANGED <<storeFile, storeMem>>
    BY <1>4, <2>0, Zenon DEF CancelFinish, FinishRun, WithStatus
  <2>3. /\ db \in RunsDB /\ db.next = runsMem[p].next /\ db.sid = runsMem[p].sid
        /\ \A x \in Runners : db.status[x] = IF x = target[p] THEN NewState(p) ELSE runsMem[p].status[x]
    BY <1>1, <2>0, <2>1, FinishedDB
  <2> QED BY <1>4, <2>1, <2>2, <2>3, Zenon DEF Rewrites
<1> QED BY <1>2, <1>3, <1>4, Zenon

\* A brain run stores checkpoints under its own StoreRunID; the Save of a cancel
\* names the turn that is stored and so changes nothing.
LEMMA CancelStoresNothing ==
  ASSUME FilesInv, NEW p \in Procs, CancelSave(p)
  PROVE  UNCHANGED <<storeMem, storeFile>>
<1>1. PICK r \in Runners :
        /\ Known(p, r)
        /\ IF Checkpoint(p, r) = NoCheckpoint
           THEN UNCHANGED <<storeMem, storeFile>>
           ELSE SaveCheckpoint(p, runsMem[p].sid[r], [Checkpoint(p, r) EXCEPT !.state = NewState(p)])
  BY Zenon DEF CancelSave
<1>2. Agrees(runsMem[p]) /\ runsMem[p] \in RunsDB /\ storeMem[p] \in StoreDB
  BY Zenon DEF FilesInv, Images, Past, CancelSave, Go, TypeOK
<1>3. runsMem[p].sid[r] \in StoreIDs
  BY <1>1, <1>2 DEF Known, Agrees, RunsDB
<1>4. Checkpoint(p, r) \in CheckpointType /\ Checkpoint(p, r) = storeMem[p][runsMem[p].sid[r]]
  BY <1>2, <1>3, Zenon DEF StoreDB, Checkpoint
<1>5. [Checkpoint(p, r) EXCEPT !.state = NewState(p)].turn = Checkpoint(p, r).turn
  BY <1>4, Zenon DEF CheckpointType
<1> QED BY <1>1, <1>4, <1>5, Zenon DEF SaveCheckpoint

\* The steps that rewrite store.json save a checkpoint of the process's own run.
LEMMA RunStores ==
  ASSUME FilesInv, NEW p \in Procs, RunStart(p) \/ RunSave(p)
  PROVE  /\ p \in Runners /\ runsFile.sid[p] \in StoreIDs /\ UNCHANGED <<runsFile, runsMem, outcome>>
         /\ \E cp \in CheckpointType :
              /\ storeFile' \in StoreDB /\ storeMem' \in [Procs -> StoreDB] /\ storeMem'[p] = storeFile'
              /\ \A q \in Procs \ {p} : storeMem'[q] = storeMem[q]
              /\ \A i \in StoreIDs : storeFile'[i] = IF i = runsFile.sid[p] THEN cp ELSE storeFile[i]
              /\ RunStart(p) => cp = storeFile[runsFile.sid[p]] \/ cp.turn = <<p, "start">>
              /\ RunSave(p) => cp = [state |-> outcome[p], turn |-> <<p, "last">>]
<1>1. p \in Runners /\ runsFile.sid[p] # 0 /\ Past(p) /\ Alive(p) /\ pc[p] \in {"start", "save"}
  BY Zenon DEF FilesInv, Roles, IdsDrawn, RunStart, RunSave, Go, Past, Alive
<1>2. /\ runsMem[p].sid[p] = runsFile.sid[p] /\ storeMem[p] = storeFile
      /\ runsFile \in RunsDB /\ storeFile \in StoreDB /\ storeMem \in [Procs -> StoreDB]
  BY <1>1, Zenon DEF FilesInv, Images, Agrees, Checkpoints, TypeOK
<1>3. runsFile.sid[p] \in StoreIDs
  BY <1>1, <1>2, Zenon DEF RunsDB
<1>4. ASSUME NEW cp \in CheckpointType, SaveCheckpoint(p, runsFile.sid[p], cp), cp.turn # storeFile[runsFile.sid[p]].turn
      PROVE  /\ storeFile' \in StoreDB /\ storeMem' \in [Procs -> StoreDB] /\ storeMem'[p] = storeFile'
             /\ \A q \in Procs \ {p} : storeMem'[q] = storeMem[q]
             /\ \A i \in StoreIDs : storeFile'[i] = IF i = runsFile.sid[p] THEN cp ELSE storeFile[i]
  <2>1. storeMem' = [storeMem EXCEPT ![p] = [storeFile EXCEPT ![runsFile.sid[p]] = cp]] /\ storeFile' = storeMem'[p]
    BY <1>2, <1>4, Zenon DEF SaveCheckpoint
  <2>2. [storeFile EXCEPT ![runsFile.sid[p]] = cp] \in StoreDB
    BY <1>2, <1>3, Zenon DEF StoreDB
  <2>3. storeFile' = [storeFile EXCEPT ![runsFile.sid[p]] = cp]
    BY <1>2, <2>1, Zenon
  <2> QED BY <1>2, <1>3, <2>1, <2>2, <2>3, Zenon DEF StoreDB
<1>5. ASSUME NEW cp \in CheckpointType, SaveCheckpoint(p, runsFile.sid[p], cp), cp.turn = storeFile[runsFile.sid[p]].turn
      PROVE  UNCHANGED <<storeMem, storeFile>>
  BY <1>2, <1>5, Zenon DEF SaveCheckpoint
<1>6. UNCHANGED <<runsFile, runsMem, outcome>>
  BY Zenon DEF RunStart, RunSave
<1>7. CASE RunStart(p)
  <2> DEFINE cp == [state |-> "running", turn |-> <<p, "start">>]
  <2>1. cp \in CheckpointType /\ cp.turn = <<p, "start">> /\ SaveCheckpoint(p, runsFile.sid[p], cp)
    BY <1>1, <1>2, <1>7, Zenon DEF CheckpointType, Status, RunStart
  <2>2. ~RunSave(p)
    BY <1>7, Zenon DEF RunStart, RunSave, Go
  <2> HIDE DEF cp
  <2>3. CASE cp.turn = storeFile[runsFile.sid[p]].turn
    <3>1. storeFile[runsFile.sid[p]] \in CheckpointType
      BY <1>2, <1>3, Zenon DEF StoreDB
    <3> QED BY <1>1, <1>2, <1>3, <1>5, <1>6, <2>1, <2>2, <2>3, <3>1, Zenon
  <2>4. CASE cp.turn # storeFile[runsFile.sid[p]].turn
    BY <1>1, <1>3, <1>4, <1>6, <2>1, <2>2, <2>4, Zenon
  <2> QED BY <2>3, <2>4, Zenon
<1>8. CASE RunSave(p)
  <2> DEFINE cp == [state |-> outcome[p], turn |-> <<p, "last">>]
  <2>0. pc[p] = "save"
    BY <1>8, Zenon DEF RunSave, Go
  <2>1. cp \in CheckpointType /\ cp.turn = <<p, "last">> /\ SaveCheckpoint(p, runsFile.sid[p], cp)
    BY <1>1, <1>2, <1>8, <2>0, Zenon DEF CheckpointType, Status, RunSave, FilesInv, Roles
  <2>2. ~RunStart(p)
    BY <2>0, Zenon DEF RunStart, Go
  <2>3. storeFile[runsFile.sid[p]].turn # <<p, "last">>
    BY <1>1, <1>3, <2>0, Zenon DEF FilesInv, Checkpoints
  <2>4. cp = [state |-> outcome[p], turn |-> <<p, "last">>]
    BY Zenon
  <2> HIDE DEF cp
  <2> QED BY <1>1, <1>3, <1>4, <1>6, <2>1, <2>2, <2>3, <2>4, Zenon
<1> QED BY <1>7, <1>8, Zenon

\* runtimeStore.create draws a fresh StoreRunID and there is one left.
LEMMA Creates ==
  ASSUME FilesInv, NEW p \in Procs, RunCreate(p)
  PROVE  /\ p \in Runners /\ UNCHANGED <<storeFile, storeMem, outcome>>
         /\ runsFile' \in RunsDB /\ runsMem' \in [Procs -> RunsDB] /\ runsMem'[p] = runsFile'
         /\ \A q \in Procs \ {p} : runsMem'[q] = runsMem[q]
         /\ runsFile.sid[p] = 0 /\ runsFile'.next = runsFile.next + 1
         /\ \A r \in Runners : runsFile'.sid[r] = IF r = p THEN runsFile.next ELSE runsFile.sid[r]
         /\ \A r \in Runners : runsFile'.status[r] = IF r = p THEN "running" ELSE runsMem[p].status[r]
         /\ runsFile'.next = Cardinality(Created') + 1
<1>1. /\ p \in Runners /\ runsFile.sid[p] = 0 /\ Agrees(runsMem[p])
      /\ runsMem[p] \in RunsDB /\ runsFile \in RunsDB /\ runsMem \in [Procs -> RunsDB]
  BY Zenon DEF FilesInv, RunCreate, Go, IdsDrawn, Images, Past, TypeOK
<1>2. PICK m \in RunsDB : m = runsMem[p]
  BY <1>1, Zenon
<1> DEFINE st == [m.status EXCEPT ![p] = "running"]
           sd == [m.sid EXCEPT ![p] = m.next]
<1>3. m.next = runsFile.next /\ m.sid = runsFile.sid /\ m.next \in StoreIDs
  BY <1>1, <1>2, Zenon DEF Agrees, RunsDB
<1>4. st \in [Runners -> Status] /\ sd \in [Runners -> {0} \cup StoreIDs]
  BY <1>1, <1>2, <1>3, Zenon DEF RunsDB, Status
<1>5. /\ runsFile' = [next |-> m.next + 1, status |-> st, sid |-> sd]
      /\ runsMem' = [runsMem EXCEPT ![p] = runsFile']
  BY <1>2, Zenon DEF RunCreate, Create, WriteRuns
<1>6. runsFile'.next = runsFile.next + 1 /\ runsFile'.status = st /\ runsFile'.sid = sd
  BY <1>3, <1>5, Zenon
<1>7. \A r \in Runners : /\ sd[r] = IF r = p THEN runsFile.next ELSE runsFile.sid[r]
                         /\ st[r] = IF r = p THEN "running" ELSE runsMem[p].status[r]
  BY <1>2, <1>3, Zenon DEF RunsDB
<1>8. Created' = Created \cup {p} /\ p \notin Created /\ Created' \subseteq Runners
  <2>1. runsFile.next # 0
    BY <1>3, IDs, Zenon
  <2> QED BY <1>1, <1>6, <1>7, <2>1 DEF Created
<1>9. /\ IsFiniteSet(Runners) /\ IsFiniteSet(Created) /\ IsFiniteSet(Created')
      /\ Cardinality(Created') <= Cardinality(Runners)
  BY <1>8, RunFilesAssumption, FS_Subset, Zenon DEF Created
<1>10. /\ Cardinality(Created') = Cardinality(Created) + 1
       /\ Cardinality(Created) \in Nat /\ Cardinality(Runners) \in Nat
  BY <1>8, <1>9, FS_AddElement, FS_CardinalityType, Zenon
<1>11. runsFile'.next = Cardinality(Created') + 1 /\ m.next + 1 \in StoreIDs
  BY <1>3, <1>6, <1>9, <1>10 DEF FilesInv, IdsDrawn, StoreIDs
<1> HIDE DEF st, sd
<1>12. runsFile' \in RunsDB
  BY <1>4, <1>5, <1>11, Zenon DEF RunsDB
<1>13. runsMem' \in [Procs -> RunsDB] /\ runsMem'[p] = runsFile' /\ \A q \in Procs \ {p} : runsMem'[q] = runsMem[q]
  BY <1>1, <1>5, <1>12, Zenon
<1> QED BY <1>1, <1>6, <1>7, <1>11, <1>12, <1>13, Zenon DEF RunCreate

\* Every step keeps the types.
LEMMA TypeStep ==
  ASSUME FilesInv, [Next]_vars
  PROVE  TypeOK'
<1> DEFINE Small == /\ pc' \in [Procs -> {"idle", "open", "create", "start", "loop", "save", "finish",
                                          "check", "cancel", "done"}]
                    /\ target' \in [Procs -> Runners \cup {NoRun}]
                    /\ exit' \in [Procs -> {"none", "ok", "refused", "killed"}]
                    /\ outcome' \in [Procs -> Final \cup {"none"}]
           Big == /\ runsFile' \in RunsDB /\ storeFile' \in StoreDB
                  /\ runsMem' \in [Procs -> RunsDB] /\ storeMem' \in [Procs -> StoreDB]
<1>0. TypeOK /\ Roles
  BY Zenon DEF FilesInv
<1>1. Small
  <2> USE <1>0 DEF TypeOK, Go
  <2>1. CASE UNCHANGED vars
    BY <2>1, Zenon DEF vars
  <2>2. ASSUME NEW p \in Procs, OpenStore(p) \/ OpenRuns(p) \/ RunStart(p) \/ RunSave(p) PROVE Small
    BY <2>2, Zenon DEF OpenStore, OpenRuns, RunStart, RunSave
  <2>3. ASSUME NEW p \in Procs, RunCreate(p) \/ RunEvent(p) \/ RunFinish(p) \/ CancelFinish(p) PROVE Small
    BY <2>3 DEF RunCreate, RunEvent, RunFinish, CancelFinish
  <2>4. ASSUME NEW p \in Procs, LoopEnds(p) PROVE Small
    BY <2>4, Zenon DEF LoopEnds
  <2>5. ASSUME NEW p \in Procs, CancelSave(p) PROVE Small
    BY <2>5, Zenon DEF CancelSave
  <2>6. ASSUME NEW p \in Procs, CancelRefused(p) \/ ResumeRefused(p) PROVE Small
    BY <2>6 DEF CancelRefused, ResumeRefused, Refuse
  <2>7. ASSUME NEW p \in Procs, Crash(p) PROVE Small
    BY <2>7, Zenon DEF Crash
  <2> HIDE DEF Small
  <2> QED BY <2>1, <2>2, <2>3, <2>4, <2>5, <2>6, <2>7, Zenon DEF Next
<1>2. Big
  <2>1. CASE UNCHANGED <<runsFile, storeFile, runsMem, storeMem>>
    BY <1>0, <2>1, Zenon DEF TypeOK
  <2>2. ASSUME NEW p \in Procs, OpenStore(p) \/ OpenRuns(p) PROVE Big
    BY <1>0, <2>2, Zenon DEF OpenStore, OpenRuns, TypeOK
  <2>3. ASSUME NEW p \in Procs, Crash(p) \/ CancelRefused(p) \/ ResumeRefused(p) PROVE Big
    <3>1. LoseImages(p) /\ UNCHANGED <<runsFile, storeFile>>
      BY <2>3, Zenon DEF Crash, CancelRefused, ResumeRefused, Refuse
    <3> QED BY <1>0, <3>1, Losing, Zenon DEF TypeOK
  <2>4. ASSUME NEW p \in Procs, RunCreate(p) PROVE Big
    BY <1>0, <2>4, Creates, Zenon DEF TypeOK
  <2>5. ASSUME NEW p \in Procs, RunStart(p) \/ RunSave(p) PROVE Big
    BY <1>0, <2>5, RunStores, Zenon DEF TypeOK
  <2>6. ASSUME NEW p \in Procs, RunEvent(p) \/ RunFinish(p) \/ CancelFinish(p) PROVE Big
    <3>1. PICK db : Rewrites(p, db)
      BY <1>0, <2>6, RewriteSteps, Zenon
    <3> QED BY <1>0, <3>1, Zenon DEF Rewrites, WriteRuns, TypeOK
  <2>7. ASSUME NEW p \in Procs, CancelSave(p) PROVE UNCHANGED <<runsFile, storeFile, runsMem, storeMem>>
    BY <2>7, CancelStoresNothing, Zenon DEF CancelSave
  <2>8. ASSUME NEW p \in Procs, LoopEnds(p) PROVE UNCHANGED <<runsFile, storeFile, runsMem, storeMem>>
    BY <2>8, Zenon DEF LoopEnds
  <2>9. ASSUME UNCHANGED vars PROVE UNCHANGED <<runsFile, storeFile, runsMem, storeMem>>
    BY <2>9, Zenon DEF vars
  <2> HIDE DEF Big
  <2> QED BY <2>1, <2>2, <2>3, <2>4, <2>5, <2>6, <2>7, <2>8, <2>9, Zenon DEF Next
<1> QED BY <1>1, <1>2, Zenon DEF TypeOK

-----------------------------------------------------------------------------
(* The facts about the files.                                              *)

Before == {"idle", "open", "create"}
Since  == {"start", "loop", "save", "finish"}

\* How a process comes to a stage of its run.
LEMMA Stages ==
  ASSUME TypeOK, NEW p \in Procs, OpenStore(p) \/ Work(p)
  PROVE  /\ pc[p] # "done" /\ \A q \in Procs \ {p} : pc'[q] = pc[q]
         /\ pc'[p] \in Before => pc[p] \in Before
         /\ pc'[p] \in Since => pc[p] \in Since \/ RunCreate(p)
         /\ pc'[p] = "finish" => RunSave(p) \/ (pc[p] = "finish" /\ RunEvent(p))
         /\ Past(p)' => Past(p) \/ OpenRuns(p)
         /\ pc[p] = "finish" => pc'[p] \in {"finish", "done"}
<1> USE DEF TypeOK, Go, Before, Since, Past
<1>1. CASE OpenStore(p) \/ OpenRuns(p)
  BY <1>1, Zenon DEF OpenStore, OpenRuns
<1>2. CASE RunCreate(p) \/ RunStart(p) \/ LoopEnds(p) \/ RunSave(p) \/ RunFinish(p)
  BY <1>2, Zenon DEF RunCreate, RunStart, LoopEnds, RunSave, RunFinish
<1>3. CASE RunEvent(p) \/ Crash(p)
  BY <1>3, Zenon DEF RunEvent, Crash, Alive
<1>4. CASE CancelSave(p) \/ CancelFinish(p)
  BY <1>4, Zenon DEF CancelSave, CancelFinish
<1>5. CASE CancelRefused(p) \/ ResumeRefused(p)
  BY <1>5, Zenon DEF CancelRefused, ResumeRefused, Refuse
<1> QED BY <1>1, <1>2, <1>3, <1>4, <1>5, Zenon DEF Work

\* Only runtimeStore.create draws ids.
LEMMA IdsKept ==
  ASSUME FilesInv, NEW p \in Procs, OpenStore(p) \/ Work(p), ~RunCreate(p)
  PROVE  runsFile'.next = runsFile.next /\ runsFile'.sid = runsFile.sid
<1>0. TypeOK /\ Roles
  BY Zenon DEF FilesInv
<1>1. CASE RunEvent(p) \/ RunFinish(p) \/ CancelFinish(p)
  <2>1. PICK db : Rewrites(p, db)
    BY <1>0, <1>1, RewriteSteps, Zenon
  <2>2. Past(p)
    BY <1>1, Zenon DEF RunEvent, RunFinish, CancelFinish, Go, Past
  <2> QED BY <2>1, <2>2, Zenon DEF Rewrites, WriteRuns, FilesInv, Images, Agrees
<1>2. CASE ~(RunEvent(p) \/ RunFinish(p) \/ CancelFinish(p))
  <2>1. UNCHANGED runsFile
    BY <1>2, Zenon DEF Work, OpenStore, OpenRuns, Crash, RunStart, LoopEnds, RunSave, CancelRefused, CancelSave,
       ResumeRefused, Refuse
  <2> QED BY <2>1, Zenon
<1> QED BY <1>1, <1>2, Zenon

\* Every step keeps the ids drawn from the counter.
LEMMA IdsStep ==
  ASSUME FilesInv, [Next]_vars
  PROVE  IdsDrawn'
<1>0. TypeOK /\ IdsDrawn
  BY Zenon DEF FilesInv
<1>1. CASE UNCHANGED vars
  BY <1>0, <1>1, Zenon DEF IdsDrawn, Created, vars
<1>2. ASSUME NEW p \in Procs, RunCreate(p) PROVE IdsDrawn'
  <2>1. /\ p \in Runners /\ runsFile.sid[p] = 0 /\ runsFile'.next = runsFile.next + 1
        /\ \A r \in Runners : runsFile'.sid[r] = IF r = p THEN runsFile.next ELSE runsFile.sid[r]
        /\ runsFile'.next = Cardinality(Created') + 1
    BY <1>2, Creates, Zenon
  <2>2. runsFile.next \in Nat /\ runsFile.next # 0 /\ \A r \in Runners : runsFile.sid[r] \in Nat
    <3>1. runsFile.next \in StoreIDs /\ \A r \in Runners : runsFile.sid[r] \in {0} \cup StoreIDs
      BY <1>0, Zenon DEF TypeOK, RunsDB
    <3>2. \A x \in {0} \cup StoreIDs : x \in Nat
      BY IDs
    <3>3. \A x \in StoreIDs : x \in Nat /\ x # 0
      BY IDs, Zenon
    <3> QED BY <3>1, <3>2, <3>3, Zenon
  <2>3. pc'[p] = "start" /\ \A r \in Runners \ {p} : pc'[r] = pc[r]
    BY <1>0, <1>2, Zenon DEF RunCreate, Go, TypeOK, Procs
  <2> QED BY <1>0, <2>1, <2>2, <2>3 DEF IdsDrawn
<1>3. ASSUME NEW p \in Procs, OpenStore(p) \/ Work(p), ~RunCreate(p) PROVE IdsDrawn'
  <2>1. runsFile'.next = runsFile.next /\ runsFile'.sid = runsFile.sid
    BY <1>3, IdsKept, Zenon
  <2>2. Created' = Created
    BY <2>1, Zenon DEF Created
  <2>3. \A r \in Runners : /\ pc'[r] \in Before => pc[r] \in Before
                           /\ pc'[r] \in Since => pc[r] \in Since
    BY <1>0, <1>3, Stages, Zenon DEF Procs
  <2> QED BY <1>0, <2>1, <2>2, <2>3, Zenon DEF IdsDrawn, Before, Since
<1> QED BY <1>1, <1>2, <1>3, Steps, Zenon

\* An image that agreed with the files agrees with them after a step that draws
\* no id and keeps the checkpoints of finished runs.
LEMMA StaysAgreed ==
  ASSUME NEW db, Agrees(db), runsFile'.next = runsFile.next, runsFile'.sid = runsFile.sid,
         \A r \in Runners : pc[r] = "done" =>
            pc'[r] = "done" /\ (runsFile.sid[r] # 0 => storeFile'[runsFile.sid[r]] = storeFile[runsFile.sid[r]])
  PROVE  Agrees(db)'
  BY DEF Agrees

\* A process that is done stays so.
LEMMA DoneStays ==
  ASSUME TypeOK, NEW p \in Procs, OpenStore(p) \/ Work(p)
  PROVE  \A r \in Runners : pc[r] = "done" => r # p /\ pc'[r] = "done"
  BY Stages, Zenon DEF Procs

\* Every step keeps the images of runs.json in agreement with the checkpoints.
LEMMA ImagesStep ==
  ASSUME FilesInv, Solo', [Next]_vars
  PROVE  Images'
<1>0. TypeOK /\ Roles /\ Images /\ Agrees(runsFile)
  BY Zenon DEF FilesInv, Images
<1>1. CASE UNCHANGED vars
  BY <1>0, <1>1 DEF Images, Agrees, Past, vars
<1>2. ASSUME NEW p \in Procs, RunCreate(p) PROVE Images'
  <2>1. /\ p \in Runners /\ UNCHANGED storeFile /\ runsMem'[p] = runsFile'
        /\ runsFile.sid[p] = 0 /\ runsFile'.next = runsFile.next + 1
        /\ \A r \in Runners : runsFile'.sid[r] = IF r = p THEN runsFile.next ELSE runsFile.sid[r]
        /\ \A r \in Runners : runsFile'.status[r] = IF r = p THEN "running" ELSE runsMem[p].status[r]
    BY <1>2, Creates, Zenon
  <2>2. runsFile.next # 0 /\ Agrees(runsMem[p])
    BY <1>0, <1>2, IDs, Zenon DEF TypeOK, RunsDB, Images, RunCreate, Go, Past
  <2>3. \A r \in Runners : pc[r] = "done" => r # p /\ pc'[r] = "done"
    BY <1>0, <1>2, DoneStays, Zenon DEF Work
  <2>4. Agrees(runsFile)'
    BY <2>1, <2>2, <2>3 DEF Agrees
  <2>5. \A q \in Procs : Past(q)' => q = p
    BY <1>0, <1>2, WorkMoves DEF FilesInv, Solo, SettingUp, Alive, Past, RunCreate, Go, Work
  <2> QED BY <2>1, <2>4, <2>5, Zenon DEF Images
<1>3. ASSUME NEW p \in Procs, OpenStore(p) \/ Work(p), ~RunCreate(p) PROVE Images'
  <2>1. runsFile'.next = runsFile.next /\ runsFile'.sid = runsFile.sid
    BY <1>3, IdsKept, Zenon
  <2>2. \A r \in Runners : pc[r] = "done" => r # p /\ pc'[r] = "done"
    BY <1>0, <1>3, DoneStays, Zenon
  <2>3. \A q \in Procs \ {p} : pc'[q] = pc[q] /\ runsMem'[q] = runsMem[q]
    <3>1. \A q \in Procs \ {p} : runsMem'[q] = runsMem[q]
      BY <1>0, <1>3, Zenon DEF Work, OpenStore, OpenRuns, Crash, RunStart, RunEvent, LoopEnds, RunSave, RunFinish,
         CancelRefused, CancelSave, CancelFinish, ResumeRefused, Refuse, LoseImages, FinishRun, WriteRuns, TypeOK
    <3> QED BY <1>0, <1>3, <3>1, Stages, Zenon
  <2>4. CASE RunStart(p) \/ RunSave(p)
    <3>1. /\ p \in Runners /\ runsFile.sid[p] # 0 /\ UNCHANGED <<runsFile, runsMem>>
          /\ \A i \in StoreIDs : i # runsFile.sid[p] => storeFile'[i] = storeFile[i]
      BY <2>4, RunStores, IDs, Zenon
    <3>2. \A r \in Runners \ {p} : runsFile.sid[r] # 0 =>
            runsFile.sid[r] \in StoreIDs /\ runsFile.sid[r] # runsFile.sid[p]
      BY <1>0, <3>1, Zenon DEF FilesInv, IdsDrawn, TypeOK, RunsDB
    <3>3. \A db : Agrees(db) => Agrees(db)'
      BY <2>1, <2>2, <3>1, <3>2, StaysAgreed, Zenon
    <3>4. \A q \in Procs : Past(q)' => Past(q)
      BY <1>0, <2>3, <2>4, Zenon DEF Past, RunStart, RunSave, Go
    <3> QED BY <1>0, <3>1, <3>3, <3>4, Zenon DEF Images
  <2>5. CASE RunEvent(p) \/ RunFinish(p) \/ CancelFinish(p)
    <3>1. PICK db : /\ Rewrites(p, db)
                    /\ \A r \in Runners :
                         \/ db.status[r] = runsMem[p].status[r]
                         \/ CancelFinish(p) /\ r = target[p] /\ db.status[r] \in {"canceled", "crashed"}
                         \/ RunFinish(p) /\ r = p /\ db.status[r] = outcome[p]
      BY <1>0, <2>5, RewriteSteps, Zenon
    <3>2. Past(p) /\ Agrees(runsMem[p])
      BY <1>0, <2>5, Zenon DEF RunEvent, RunFinish, CancelFinish, Go, Past, Images
    <3>3. runsFile' = db /\ runsMem'[p] = db /\ UNCHANGED storeFile
      BY <1>0, <3>1, Zenon DEF Rewrites, WriteRuns, TypeOK
    <3>4. \A d : Agrees(d) => Agrees(d)'
      BY <2>1, <2>2, <3>3, StaysAgreed, Zenon
    <3>5. Agrees(db)'
      <4>1. PICK m : m = runsMem[p]
        BY Zenon
      <4>2. Agrees(m)' /\ db.next = m.next /\ db.sid = m.sid
        BY <3>1, <3>2, <3>4, <4>1, Zenon DEF Rewrites
      <4>3. \A r \in Runners : db.status[r] = "none" <=> m.status[r] = "none"
        <5>1. RunFinish(p) => outcome[p] # "none" /\ m.status[p] # "none"
          BY <1>0, <3>2, <4>1, Zenon DEF RunFinish, Go, Roles, Final, Agrees, FilesInv, IdsDrawn
        <5>2. CancelFinish(p) => m.status[target[p]] # "none"
          BY <4>1, Zenon DEF CancelFinish, Go, FilesInv, Aimed, Known
        <5> QED BY <3>1, <4>1, <5>1, <5>2, Zenon
      <4>4. ASSUME RunFinish(p)
            PROVE  /\ p \in Runners /\ pc'[p] = "done" /\ outcome[p] \in Final
                   /\ storeFile'[runsFile'.sid[p]].state = outcome[p]
                   /\ storeFile'[runsFile'.sid[p]].turn[1] = p
        <5>1. p \in Runners /\ pc[p] = "finish" /\ pc'[p] = "done" /\ outcome[p] \in Final
          BY <1>0, <4>4, Zenon DEF RunFinish, Go, TypeOK, Roles
        <5>2. storeFile[runsFile.sid[p]] = [state |-> outcome[p], turn |-> <<p, "last">>]
          BY <5>1, Zenon DEF FilesInv, Checkpoints
        <5> QED BY <2>1, <3>3, <5>1, <5>2
      <4> QED BY <3>1, <4>1, <4>2, <4>3, <4>4 DEF Agrees
    <3> QED BY <1>0, <2>3, <3>3, <3>4, <3>5, Zenon DEF Images, Past
  <2>6. CASE OpenRuns(p)
    <3>1. runsMem'[p] = runsFile /\ UNCHANGED <<runsFile, storeFile>>
      BY <1>0, <2>6, Zenon DEF OpenRuns, TypeOK
    <3>2. \A d : Agrees(d) => Agrees(d)'
      BY <2>1, <2>2, <3>1, StaysAgreed, Zenon
    <3> QED BY <1>0, <2>3, <3>1, <3>2, Zenon DEF Images, Past
  <2>7. CASE OpenStore(p) \/ Crash(p) \/ LoopEnds(p) \/ CancelRefused(p) \/ CancelSave(p) \/ ResumeRefused(p)
    <3>1. UNCHANGED <<runsFile, storeFile>>
      BY <2>7, CancelStoresNothing, Zenon DEF OpenStore, Crash, LoopEnds, CancelRefused, CancelSave, ResumeRefused, Refuse
    <3>2. \A d : Agrees(d) => Agrees(d)'
      BY <2>1, <2>2, <3>1, StaysAgreed, Zenon
    <3>3. Past(p)' => Past(p) /\ runsMem'[p] = runsMem[p]
      BY <1>0, <2>7, Zenon DEF OpenStore, Crash, LoopEnds, CancelRefused, CancelSave, ResumeRefused, Refuse, Past, Go, TypeOK
    <3> QED BY <1>0, <2>3, <3>1, <3>2, <3>3, Zenon DEF Images, Past
  <2> QED BY <1>3, <2>4, <2>5, <2>6, <2>7, Zenon DEF Work
<1> QED BY <1>1, <1>2, <1>3, Steps, Zenon

\* Every step keeps the facts about the checkpoints.
LEMMA CheckpointsStep ==
  ASSUME FilesInv, Solo', IdsDrawn', [Next]_vars
  PROVE  Checkpoints'
<1>0. TypeOK /\ Roles /\ Checkpoints
  BY Zenon DEF FilesInv
<1>1. CASE UNCHANGED vars
  BY <1>0, <1>1, Zenon DEF Checkpoints, Alive, vars
<1>2. ASSUME NEW p \in Procs, RunStart(p) \/ RunSave(p) PROVE Checkpoints'
  <2>1. p \in Runners /\ runsFile.sid[p] \in StoreIDs /\ UNCHANGED <<runsFile, outcome>>
    BY <1>2, RunStores, Zenon
  <2>2. PICK cp \in CheckpointType :
              /\ storeMem'[p] = storeFile'
              /\ \A i \in StoreIDs : storeFile'[i] = IF i = runsFile.sid[p] THEN cp ELSE storeFile[i]
              /\ RunStart(p) => cp = storeFile[runsFile.sid[p]] \/ cp.turn = <<p, "start">>
              /\ RunSave(p) => cp = [state |-> outcome[p], turn |-> <<p, "last">>]
    BY <1>2, RunStores, Zenon
  <2>3. /\ \A q \in Procs \ {p} : pc'[q] = pc[q]
        /\ Alive(p) /\ pc[p] # "finish" /\ pc[p] # "done"
        /\ RunStart(p) => pc'[p] = "loop" /\ ~RunSave(p)
        /\ RunSave(p) => pc'[p] = "finish"
    BY <1>0, <1>2, Zenon DEF RunStart, RunSave, Go, TypeOK, Alive
  <2>4. ASSUME NEW r \in Runners, Alive(r)' PROVE storeMem'[r] = storeFile'
    <3>1. r = p
      BY <2>1, <2>3, <2>4, Zenon DEF FilesInv, Solo, Alive, Procs
    <3> QED BY <2>2, <3>1, Zenon
  <2>5. ASSUME NEW i \in StoreIDs, NEW r \in Runners, storeFile'[i].turn = <<r, "last">> PROVE pc'[r] \in {"finish", "done"}
    <3>1. CASE storeFile'[i] = storeFile[i]
      <4>1. pc[r] \in {"finish", "done"}
        BY <1>0, <2>5, <3>1, Zenon DEF Checkpoints
      <4> QED BY <2>3, <4>1, Zenon DEF Procs
    <3>2. CASE storeFile'[i] # storeFile[i]
      <4>1. i = runsFile.sid[p] /\ storeFile'[i] = cp /\ cp # storeFile[runsFile.sid[p]]
        BY <2>2, <3>2, Zenon
      <4>2. RunSave(p) /\ cp.turn = <<p, "last">>
        <5>1. CASE RunStart(p)
          BY <2>2, <2>5, <4>1, <5>1
        <5> QED BY <1>2, <2>2, <5>1
      <4>3. r = p
        BY <2>5, <4>1, <4>2
      <4> QED BY <2>3, <4>2, <4>3, Zenon
    <3> QED BY <3>1, <3>2, Zenon
  <2>6. ASSUME NEW r \in Runners, pc'[r] = "finish"
        PROVE  storeFile'[runsFile'.sid[r]] = [state |-> outcome'[r], turn |-> <<r, "last">>]
    <3>1. CASE r = p
      <4>1. RunSave(p)
        BY <1>2, <2>3, <2>6, <3>1, Zenon
      <4> QED BY <2>1, <2>2, <3>1, <4>1, Zenon
    <3>2. CASE r # p
      <4>1. pc[r] = "finish"
        BY <2>3, <2>6, <3>2, Zenon DEF Procs
      <4>2. r = p
        BY <2>1, <2>3, <4>1, Zenon DEF FilesInv, Solo, Alive
      <4> QED BY <3>2, <4>2, Zenon
    <3> QED BY <3>1, <3>2, Zenon
  <2> QED BY <2>4, <2>5, <2>6, Zenon DEF Checkpoints
<1>3. ASSUME NEW p \in Procs, OpenStore(p) \/ Work(p), ~RunStart(p), ~RunSave(p) PROVE Checkpoints'
  <2>1. UNCHANGED storeFile
    BY <1>0, <1>3, CancelStoresNothing, Zenon
       DEF Work, OpenStore, OpenRuns, Crash, RunCreate, RunEvent, LoopEnds, RunFinish, CancelRefused, CancelSave,
           CancelFinish, ResumeRefused, Refuse
  <2>2. \A q \in Procs \ {p} : storeMem'[q] = storeMem[q] /\ pc'[q] = pc[q] /\ outcome'[q] = outcome[q]
    <3>1. \A q \in Procs \ {p} : storeMem'[q] = storeMem[q]
      BY <1>0, <1>3, CancelStoresNothing, Zenon
         DEF Work, OpenStore, OpenRuns, Crash, RunCreate, RunEvent, LoopEnds, RunFinish, CancelRefused, CancelSave,
             CancelFinish, ResumeRefused, Refuse, LoseImages, TypeOK
    <3>2. \A q \in Procs \ {p} : outcome'[q] = outcome[q]
      BY <1>0, <1>3, Zenon
         DEF Work, OpenStore, OpenRuns, Crash, RunCreate, RunEvent, LoopEnds, RunFinish, CancelRefused, CancelSave,
             CancelFinish, ResumeRefused, Refuse, TypeOK
    <3> QED BY <1>0, <1>3, <3>1, <3>2, Stages, Zenon
  <2>3. Alive(p)' => storeMem'[p] = storeFile \/ (Alive(p) /\ storeMem'[p] = storeMem[p])
    BY <1>0, <1>3, CancelStoresNothing, Zenon
       DEF Work, OpenStore, OpenRuns, Crash, RunCreate, RunEvent, LoopEnds, RunFinish, CancelRefused, CancelSave,
           CancelFinish, ResumeRefused, Refuse, Go, Alive, TypeOK
  <2>4. \A r \in Runners : Alive(r)' => storeMem'[r] = storeFile'
    BY <1>0, <2>1, <2>2, <2>3, Zenon DEF Checkpoints, Alive, Procs
  <2>5. \A r \in Runners : pc[r] \in {"finish", "done"} => pc'[r] \in {"finish", "done"}
    BY <1>0, <1>3, <2>2, Stages, Zenon DEF Procs
  <2>6. ASSUME NEW r \in Runners, pc'[r] = "finish"
        PROVE  pc[r] = "finish" /\ outcome'[r] = outcome[r] /\ runsFile'.sid[r] = runsFile.sid[r]
    <3>1. pc[r] = "finish" /\ outcome'[r] = outcome[r]
      <4>1. CASE r = p
        BY <1>0, <1>3, <2>6, <4>1, Stages, Zenon DEF RunEvent
      <4>2. CASE r # p
        BY <2>2, <2>6, <4>2, Zenon DEF Procs
      <4> QED BY <4>1, <4>2, Zenon
    <3>2. ~RunCreate(p)
      <4>1. SUFFICES ASSUME RunCreate(p) PROVE FALSE
        BY Zenon
      <4>2. SettingUp(p) /\ Alive(r) /\ pc[p] = "create"
        BY <3>1, <4>1, Zenon DEF RunCreate, Go, SettingUp, Alive
      <4> QED BY <3>1, <4>2, Zenon DEF FilesInv, Solo, Procs
    <3> QED BY <1>3, <3>1, <3>2, IdsKept, Zenon
  <2> QED BY <1>0, <2>1, <2>4, <2>5, <2>6, Zenon DEF Checkpoints
<1> QED BY <1>1, <1>2, <1>3, Steps, Zenon DEF Work

\* Empty files satisfy the invariant.
LEMMA FilesInit == Init => FilesInv
<1> SUFFICES ASSUME Init PROVE FilesInv
  BY Zenon
<1>1. EmptyRuns \in RunsDB
  BY IDs, Zenon DEF EmptyRuns, RunsDB, Status
<1>2. EmptyStore \in StoreDB
  BY Zenon DEF EmptyStore, StoreDB, NoCheckpoint, CheckpointType, Status
<1>3. TypeOK
  BY <1>1, <1>2, Zenon DEF Init, TypeOK
<1>4. Roles /\ Aimed /\ Solo
  BY Zenon DEF Init, Roles, Aimed, Solo, SettingUp, Alive, Procs
<1>5. IdsDrawn
  <2>1. Created = {}
    BY Zenon DEF Init, EmptyRuns, Created
  <2>2. Cardinality(Created) = 0
    BY <2>1, FS_EmptySet, Zenon
  <2> QED BY <2>2 DEF Init, EmptyRuns, IdsDrawn, Procs
<1>6. Images
  BY Zenon DEF Init, EmptyRuns, Images, Agrees, Past
<1>7. Checkpoints
  BY Zenon DEF Init, EmptyStore, NoCheckpoint, Checkpoints, Alive, Procs
<1> QED BY <1>3, <1>4, <1>5, <1>6, <1>7, Zenon DEF FilesInv

\* Every step keeps the invariant.
LEMMA FilesStep ==
  ASSUME ~Overlap, FilesInv, [Next]_vars
  PROVE  FilesInv'
<1>1. TypeOK /\ Roles /\ Aimed /\ Solo
  BY Zenon DEF FilesInv
<1>2. TypeOK' /\ Roles' /\ Aimed' /\ Solo' /\ IdsDrawn'
  BY <1>1, TypeStep, RolesStep, AimedStep, SoloStep, IdsStep, Zenon
<1> QED BY <1>2, ImagesStep, CheckpointsStep, Zenon DEF FilesInv

\* When no command overlaps the set-up of a brain run, the record of a run in
\* runs.json never says completed or failed before its checkpoint does, whatever
\* process is killed between two writes and however late a cancel rewrites the
\* file from its own image.
THEOREM RecordNeverAhead ==
  ASSUME ~Overlap
  PROVE  Spec => []RecordNotAhead
<1>1. FilesInv => RecordNotAhead
  BY Zenon DEF FilesInv, Images, Agrees, RecordNotAhead
<1>2. FilesInv /\ [Next]_vars => FilesInv'
  BY FilesStep, Zenon
<1> QED BY <1>1, <1>2, FilesInit, PTL DEF Spec

\* Under the same condition no rewrite of runs.json loses a record.
THEOREM RecordsSurvive ==
  ASSUME ~Overlap
  PROVE  Spec => RecordsKept
<1>1. FilesInv /\ FilesInv' /\ [Next]_vars =>
        [\A r \in Runners : runsFile.status[r] # "none" => runsFile'.status[r] # "none"]_vars
  <2> SUFFICES ASSUME FilesInv, FilesInv', [Next]_vars, NEW r \in Runners, runsFile.status[r] # "none"
               PROVE  runsFile'.status[r] # "none"
    BY Zenon
  <2>1. runsFile.sid[r] # 0
    BY Zenon DEF FilesInv, Images, Agrees
  <2>2. runsFile'.sid[r] # 0
    <3>1. CASE UNCHANGED vars
      BY <2>1, <3>1, Zenon DEF vars
    <3>2. ASSUME NEW p \in Procs, RunCreate(p) PROVE runsFile'.sid[r] # 0
      BY <2>1, <3>2, Creates, Zenon
    <3>3. ASSUME NEW p \in Procs, OpenStore(p) \/ Work(p), ~RunCreate(p) PROVE runsFile'.sid[r] # 0
      BY <2>1, <3>3, IdsKept, Zenon
    <3> QED BY <3>1, <3>2, <3>3, Steps, Zenon
  <2> QED BY <2>2, Zenon DEF FilesInv, Images, Agrees
<1>2. FilesInv /\ [Next]_vars => FilesInv'
  BY FilesStep, Zenon
<1> QED BY <1>1, <1>2, FilesInit, PTL DEF Spec, RecordsKept
=============================================================================
