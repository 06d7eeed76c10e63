----------------------------- MODULE DataBrain -----------------------------
(***************************************************************************)
(* The data brain: a start restores the saved state, registers providers   *)
(* (possibly none), drains them in rounds and then serves tool calls. Each *)
(* event is validated, processed into a snapshot and written to a ring     *)
(* buffer, and the ring, the validator's memory and the providers' health  *)
(* are saved. Providers replay from their first event after a restart. One *)
(* goroutine ingests, as in cmd/brain-data. Prices, candles and feature    *)
(* vectors are left out; topics and symbols are in canonical case.         *)
(***************************************************************************)
EXTENDS Integers, Sequences, FiniteSets, SequencesExt

CONSTANTS DaEvents,     \* provider -> its sequence of [topic, symbol, ts, digest]
          DaMonotonic,  \* topics whose timestamps must grow
          DaSameTs,     \* AllowSameTimestampRealtime
          DaCapacity,   \* of the ring
          DaMaxRestarts \* bound of the model

VARIABLES daRing,     \* [entries: slot -> snapshot, head, size, seq]
          daLatest,   \* latestBySymbol: a partial function
          daLast,     \* validator: stream -> [ts, digest], a partial function
          daStore,    \* set of at most one [snapshots, last, health]
          daAttached, \* registered providers
          daKnown,    \* restoredProviderState: providers of an earlier process
          daPos,      \* provider -> events delivered so far
          daRound,    \* providers not yet asked in this round
          daMoved,    \* some provider delivered in this round
          daIn,       \* Ingest: <<>>, or the snapshot about to be saved
          daAcked,    \* history: snapshots whose Ingest returned without error
          daServed,   \* history: snapshots a tool call answered with
          daReady,    \* history: the last health check of this process said ready
          daCount     \* restarts so far

daVars == <<daRing, daLatest, daLast, daStore, daAttached, daKnown, daPos, daRound, daMoved,
            daIn, daAcked, daServed, daReady, daCount>>

DaProviders == DOMAIN DaEvents
DaNoSnapshot == [seq |-> 0]
DaEmptyRing == [entries |-> [i \in 0 .. DaCapacity - 1 |-> DaNoSnapshot],
                head |-> 0, size |-> 0, seq |-> 0]

DaInit == /\ daRing = DaEmptyRing
          /\ daLatest = <<>> /\ daLast = <<>>
          /\ daStore = {}
          /\ daAttached = {} /\ daKnown = {}
          /\ daPos = [p \in DaProviders |-> 0]
          /\ daRound = {} /\ daMoved = TRUE
          /\ daIn = <<>>
          /\ daAcked = {} /\ daServed = {} /\ daReady = FALSE
          /\ daCount = 0

----------------------------------------------------------------------------
DaStream(p, e) == <<p, e.topic, e.symbol>>
DaSeen(last, k) == IF k \in DOMAIN last THEN last[k] ELSE [ts |-> 0, digest |-> 0]

\* Validate: "accept", "skip" or "reject".
DaVerdict(last, p, e) ==
    LET seen == DaSeen(last, DaStream(p, e))
        monotonic == e.topic \in DaMonotonic
    IN  CASE monotonic /\ e.ts < seen.ts -> "reject"
          [] monotonic /\ e.ts = seen.ts /\ e.digest = seen.digest /\ e.digest # 0 -> "skip"
          [] ~(DaSameTs /\ ~monotonic) /\ e.ts <= seen.ts -> "reject"
          [] OTHER -> "accept"

DaPut(f, k, v) == [x \in DOMAIN f \cup {k} |-> IF x = k THEN v ELSE f[x]]

\* Buffer.Write and one step of RestoreSnapshots: the next slot, the oldest
\* entry overwritten when the ring is full.
DaPush(ring, snap) ==
    [entries |-> [ring.entries EXCEPT ![ring.head] = snap],
     head |-> (ring.head + 1) % DaCapacity,
     size |-> IF ring.size < DaCapacity THEN ring.size + 1 ELSE ring.size,
     seq |-> IF snap.seq > ring.seq THEN snap.seq ELSE ring.seq]

\* Snapshots and ReadSince(0): the entries from the oldest to the newest.
DaSnapshots(ring) ==
    [i \in 1 .. ring.size |->
        ring.entries[(ring.head - ring.size + (i - 1) + DaCapacity) % DaCapacity]]

\* currentProviderHealthSnapshot: the registered providers, or the restored
\* ones when there is none.
DaHealths == IF daAttached = {} THEN daKnown ELSE daAttached

\* persistState.
DaSave(attached) ==
    daStore' = {[snapshots |-> DaSnapshots(daRing), last |-> daLast,
                 health |-> IF attached = {} THEN daKnown ELSE attached]}

\* RegisterProvider, before the first round.
DaRegister(p) ==
    /\ daRound = {} /\ daMoved
    /\ \A q \in DaProviders : daPos[q] = 0
    /\ p \notin daAttached
    /\ daAttached' = daAttached \cup {p}
    /\ DaSave(daAttached')
    /\ UNCHANGED <<daRing, daLatest, daLast, daKnown, daPos, daRound, daMoved, daIn, daAcked,
                   daServed, daReady, daCount>>

\* One provider of the round is asked: Next, then Ingest up to the ring.
DaAsk(p) ==
    /\ daIn = <<>>
    /\ p \in daRound
    /\ daRound' = daRound \ {p}
    /\ \/ /\ daPos[p] = Len(DaEvents[p])
          /\ UNCHANGED <<daRing, daLatest, daLast, daPos, daMoved, daIn>>
       \/ /\ daPos[p] < Len(DaEvents[p])
          /\ daPos' = [daPos EXCEPT ![p] = @ + 1]
          /\ daMoved' = TRUE
          /\ LET e == DaEvents[p][daPos[p] + 1]
                 snap == [seq |-> daRing.seq + 1, stream |-> DaStream(p, e),
                          symbol |-> e.symbol, ts |-> e.ts]
             IN  IF DaVerdict(daLast, p, e) # "accept"
                 THEN UNCHANGED <<daRing, daLatest, daLast, daIn>>
                 ELSE /\ daLast' = DaPut(daLast, DaStream(p, e),
                                         [ts |-> e.ts, digest |-> e.digest])
                      /\ daRing' = DaPush(daRing, snap)
                      /\ daLatest' = DaPut(daLatest, e.symbol, snap)
                      /\ daIn' = <<snap>>
    /\ UNCHANGED <<daStore, daAttached, daKnown, daAcked, daServed, daReady, daCount>>

\* DrainProviders starts another round as long as the last one moved; with no
\* provider there is nothing to drain.
DaNewRound ==
    /\ daIn = <<>>
    /\ daRound = {} /\ daMoved
    /\ daRound' = daAttached /\ daMoved' = FALSE
    /\ UNCHANGED <<daRing, daLatest, daLast, daStore, daAttached, daKnown, daPos, daIn, daAcked,
                   daServed, daReady, daCount>>

\* The end of Ingest.
DaPersist ==
    /\ daIn # <<>>
    /\ DaSave(daAttached)
    /\ daAcked' = daAcked \cup {daIn[1]}
    /\ daIn' = <<>>
    /\ UNCHANGED <<daRing, daLatest, daLast, daAttached, daKnown, daPos, daRound, daMoved,
                   daServed, daReady, daCount>>

----------------------------------------------------------------------------
\* The sidecar serves once the providers are drained.
DaServing == daIn = <<>> /\ daRound = {} /\ ~daMoved

\* Latest: by symbol, or for the empty symbol the slot before the head.
DaLatest(symbol) ==
    IF symbol # "" THEN IF symbol \in DOMAIN daLatest THEN {daLatest[symbol]} ELSE {}
    ELSE LET s == daRing.entries[IF daRing.head = 0 THEN DaCapacity - 1 ELSE daRing.head - 1]
         IN  IF daRing.size = 0 \/ s.seq = 0 THEN {} ELSE {s}

\* handleToolsCall: snapshot, feature vector and candles are all read from the
\* latest snapshot of the symbol.
DaToolCall(symbol) ==
    /\ DaServing
    /\ daServed' = daServed \cup DaLatest(symbol)
    /\ UNCHANGED <<daRing, daLatest, daLast, daStore, daAttached, daKnown, daPos, daRound, daMoved,
                   daIn, daAcked, daReady, daCount>>

\* Health: providers known only from an earlier process leave it degraded.
DaHealthy == DaHealths # {} /\ daAttached # {}

\* handleExecute answers every instruction it knows with Ready.
DaExecute ==
    /\ DaServing
    /\ daReady' = DaHealthy
    /\ UNCHANGED <<daRing, daLatest, daLast, daStore, daAttached, daKnown, daPos, daRound, daMoved,
                   daIn, daAcked, daServed, daCount>>

----------------------------------------------------------------------------

\* Mutant: numbering continues from the number of entries.
DaRecount(snaps) == [FoldLeft(DaPush, DaEmptyRing, snaps) EXCEPT !.seq = Len(snaps)]

\* RestoreSnapshots: pushes the saved entries; the sequence number is the
\* highest of them.
DaRestoredRing(snaps) == FoldLeft(DaPush, DaEmptyRing, snaps)

DaRestored(st) ==
    /\ daRing' = DaRestoredRing(st.snapshots)
    /\ daLatest' = FoldLeft(LAMBDA f, s : DaPut(f, s.symbol, s), <<>>, st.snapshots)
    /\ daLast' = st.last
    /\ daKnown' = st.health

\* The process dies at any moment, or because a save failed and the drain
\* gave up; the next one restores what was saved and drains from the start.
DaRestart ==
    /\ daCount < DaMaxRestarts
    /\ daCount' = daCount + 1
    /\ \/ /\ daStore = {}
          /\ daRing' = DaEmptyRing /\ daLatest' = <<>> /\ daLast' = <<>> /\ daKnown' = {}
       \/ \E st \in daStore : DaRestored(st)
    /\ daPos' = [p \in DaProviders |-> 0]
    /\ daAttached' = {} /\ daReady' = FALSE
    /\ daRound' = {} /\ daMoved' = TRUE
    /\ daIn' = <<>>
    /\ UNCHANGED <<daStore, daAcked, daServed>>

DaNext == \/ \E p \in DaProviders : DaRegister(p) \/ DaAsk(p)
          \/ DaNewRound \/ DaPersist \/ DaExecute \/ DaRestart
          \/ \E s \in DOMAIN daLatest \cup {""} : DaToolCall(s)

----------------------------------------------------------------------------
\* A snapshot whose Ingest returned stays readable under its sequence number
\* until DaCapacity later ones have been written, through crashes, restarts
\* (with or without providers) and replays of the same events, and until then
\* its symbol is answered with a snapshot at least as new; a number that was
\* returned is never given to another snapshot; what the ring holds of a
\* monotonic stream is in strictly growing time order. No tool call shows a
\* snapshot a crash can still take back, and a process that has no provider of
\* its own does not call itself ready.
DaAckedKept ==
    LET held == ToSet(DaSnapshots(daRing))
        ordered(a, b) == (a.stream = b.stream /\ a.stream[2] \in DaMonotonic /\ a.seq < b.seq)
                            => a.ts < b.ts
    IN  /\ \A s \in daAcked : s.seq + DaCapacity > daRing.seq =>
             /\ s \in held
             /\ \E l \in DaLatest(s.symbol) : l.seq >= s.seq
        /\ \A s, t \in daAcked : s.seq = t.seq => s = t
        /\ \A a, b \in held : ordered(a, b)
        /\ daServed \subseteq daAcked
        /\ daReady => daAttached # {}
=============================================================================
