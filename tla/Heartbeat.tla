----------------------------- MODULE Heartbeat -----------------------------
(***************************************************************************)
(* protocol/heartbeat.go: the PingScheduler, which sends a numbered $/ping  *)
(* every interval and calls OnHung when too many pings have no $/pong, and  *)
(* the StaleResponseTracker, which counts stale responses in a window.      *)
(*                                                                         *)
(* Time is counted in intervals.  Both tests of countMisses compare with    *)
(* the clock read a moment after the ping was recorded, so an entry exactly *)
(* at a cutoff may fall on either side of it.  Pings and pongs may be lost; *)
(* pongs may come late and out of order.                                    *)
(***************************************************************************)
EXTENDS Integers, FiniteSets

CONSTANTS
    HbMiss,         \* missThreshold
    HbMaxTicks,     \* ticks explored
    HbWindow,       \* the tracker's window, in intervals
    HbThreshold,    \* the tracker's threshold
    HbMaxStale      \* stale responses explored

ASSUME HbAssumption == HbMiss \in Nat /\ HbWindow \in Nat

VARIABLES
    hbNow,          \* ticks so far; also the last seq
    hbPending,      \* seqs without a pong (seq s was sent at tick s)
    hbWire,         \* pings or pongs under way
    hbLost,         \* seqs never answered before the tick that judged them
    hbHung,         \* the tick at which OnHung was called, 0 if it was not
    hbStop,         \* the loop has been stopped
    hbStale,        \* times of the stale responses the tracker keeps, as pairs <<tick, n>>
    hbAll,          \* all of them since the last Reset (history variable)
    hbDegraded      \* the tracker has fired

hbVars == <<hbNow, hbPending, hbWire, hbLost, hbHung, hbStop, hbStale, hbAll, hbDegraded>>

HbInit ==
    /\ hbNow = 0 /\ hbPending = {} /\ hbWire = {} /\ hbLost = {}
    /\ hbHung = 0 /\ hbStop = FALSE
    /\ hbStale = {} /\ hbAll = {} /\ hbDegraded = FALSE

\* Entries strictly older than n intervals, and perhaps those exactly n old.
HbOlder(pending, now, n) ==
    {{s \in pending : now - s > n}, {s \in pending : now - s >= n}}

\* countMisses only looks at entries that it is about to prune.
HbOldOnly(pending, now) == HbOlder(pending, now, 2 * HbMiss)

\* countMisses: the entries that count as misses.
HbMissed(pending, now) == HbOlder(pending, now, 1)

\* One tick of loop: sendPing, then countMisses with its pruning, then OnHung.
HbTick ==
    /\ ~hbStop
    /\ hbNow < HbMaxTicks
    /\ hbNow' = hbNow + 1
    /\ hbWire' = hbWire \union {hbNow + 1}
    /\ LET sent == hbPending \union {hbNow + 1}
       IN  \E missed \in HbMissed(sent, hbNow + 1), old \in HbOlder(sent, hbNow + 1, 2 * HbMiss) :
             /\ hbPending' = sent \ old
             /\ hbHung' = IF hbHung = 0 /\ Cardinality(missed) >= HbMiss
                          THEN hbNow + 1 ELSE hbHung
             /\ hbLost' = IF hbHung = 0 THEN hbLost \union sent ELSE hbLost
    /\ UNCHANGED <<hbStop, hbStale, hbAll, hbDegraded>>

\* handlePong: the entry is removed; an unknown seq changes nothing.
HbPong(s) ==
    /\ s \in hbWire
    /\ hbWire' = hbWire \ {s}
    /\ hbPending' = hbPending \ {s}
    /\ hbLost' = IF hbHung = 0 THEN hbLost \ {s} ELSE hbLost
    /\ UNCHANGED <<hbNow, hbHung, hbStop, hbStale, hbAll, hbDegraded>>

\* A ping or its pong is lost (Notify's error is ignored).
HbLose(s) ==
    /\ s \in hbWire
    /\ hbWire' = hbWire \ {s}
    /\ UNCHANGED <<hbNow, hbPending, hbLost, hbHung, hbStop, hbStale, hbAll, hbDegraded>>

\* Stop, or the end of the context.
HbStopLoop ==
    /\ ~hbStop
    /\ hbStop' = TRUE
    /\ UNCHANGED <<hbNow, hbPending, hbWire, hbLost, hbHung, hbStale, hbAll, hbDegraded>>

\* The tracker keeps every event.
HbKeepAll(events) == events

\* Observe drops the events older than the window.
HbFresh(events) == {e \in events : e[1] >= hbNow - HbWindow}

\* Observe.
HbObserve ==
    /\ Cardinality(hbAll) < HbMaxStale
    /\ LET e == <<hbNow, Cardinality(hbAll)>>
           events == HbFresh(hbStale) \union {e}
       IN  /\ hbStale' = events
           /\ hbAll' = hbAll \union {e}
           /\ hbDegraded' = (hbDegraded \/ Cardinality(events) >= HbThreshold)
    /\ UNCHANGED <<hbNow, hbPending, hbWire, hbLost, hbHung, hbStop>>

\* Reset.
HbReset ==
    /\ hbStale # {}
    /\ hbStale' = {} /\ hbAll' = {} /\ hbDegraded' = FALSE
    /\ UNCHANGED <<hbNow, hbPending, hbWire, hbLost, hbHung, hbStop>>

HbNext ==
    \/ HbTick \/ HbStopLoop \/ HbObserve \/ HbReset
    \/ \E s \in hbWire : HbPong(s) \/ HbLose(s)

HbSpec == HbInit /\ [][HbNext]_hbVars

(***************************************************************************)
(* Properties                                                              *)
(***************************************************************************)
\* PingScheduler and StaleResponseTracker: OnHung has been called as soon as
\* HbMiss + 2 pings in a row have found no answer, and only if HbMiss of the
\* last 2 * HbMiss + 2 had none; OnDegraded fires exactly when some window
\* since the last Reset holds HbThreshold stale responses.
HbVerdictsJustified ==
    /\ hbNow >= HbMiss + 2 /\ (hbNow - HbMiss - 1)..hbNow \subseteq hbPending => hbHung # 0
    /\ hbHung # 0 =>
         Cardinality({s \in hbLost : hbHung - s \in 1..(2 * HbMiss + 1)}) >= HbMiss
    /\ hbDegraded <=>
         \E e \in hbAll :
            Cardinality({f \in hbAll : f[2] <= e[2] /\ f[1] >= e[1] - HbWindow}) >= HbThreshold

=============================================================================
