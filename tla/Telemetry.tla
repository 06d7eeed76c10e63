----------------------------- MODULE Telemetry ------------------------------
(***************************************************************************)
(* The in-memory trace, log and metric stores and the batching exporters   *)
(* in front of them. A step is a lock section; ending a span takes several *)
(* (mark the wrapper, close the span, look it up in a copy of all spans,   *)
(* enqueue, and perhaps flush), so the goroutines that end spans, emit     *)
(* records and flush interleave. A sender may fail: its batch is lost.     *)
(* Ids are drawn at random in the code and never repeat here. The span and *)
(* the log exporter are the same code over two queues; one queue stands    *)
(* for either.                                                             *)
(***************************************************************************)
EXTENDS Integers, Sequences, FiniteSets

CONSTANTS TlProcs,
          TlBatch,         \* batchSize of the span and the log exporter
          TlCapacity,      \* of the log ring
          TlLevels, TlMinLevel,    \* level ranks, the least one that is kept
          TlMetrics,       \* metric keys: name and labels
          TlMaxSpans, TlMaxLogs, TlMaxAdds, TlMaxFailures

ASSUME TlAssumption ==
    /\ TlBatch \in Nat \ {0} /\ TlCapacity \in Nat \ {0}
    /\ TlLevels \subseteq Int /\ TlMinLevel \in Int
    /\ TlProcs \cap {"pending", "sent", "lost"} = {}

VARIABLES tlSpans,         \* MemTraceExporter.spans: [trace, parent, error, ended]
          tlWrap,          \* span -> its wrapper: [ended, error]
          tlPending, tlSent, tlLost,   \* items: exporter, handed over, refused
          tlProc,          \* goroutine -> [pc, span, error, batch]
          tlRing, tlHead, tlCount,     \* MemLogExporter
          tlEmitted,       \* history: the levels of all emitted records
          tlRegistry,      \* key -> instrument or 0
          tlValues,        \* instrument -> value
          tlAdded,         \* history: key -> what was added
          tlFailures

tlSpanVars == <<tlSpans, tlWrap>>
tlQueueVars == <<tlPending, tlSent, tlLost, tlFailures>>
tlLogVars == <<tlRing, tlHead, tlCount, tlEmitted>>
tlMetricVars == <<tlRegistry, tlValues, tlAdded>>
tlVars == <<tlSpanVars, tlQueueVars, tlLogVars, tlMetricVars, tlProc>>

TlIdle == [pc |-> "idle", span |-> 0, error |-> FALSE, batch |-> <<>>]

TlInit == /\ tlSpans = <<>> /\ tlWrap = <<>>
          /\ tlPending = <<>> /\ tlSent = <<>> /\ tlLost = <<>> /\ tlFailures = 0
          /\ tlProc = [p \in TlProcs |-> TlIdle]
          /\ tlRing = [i \in 0 .. TlCapacity - 1 |-> 0] /\ tlHead = 0 /\ tlCount = 0
          /\ tlEmitted = <<>>
          /\ tlRegistry = [m \in TlMetrics |-> 0] /\ tlValues = <<>>
          /\ tlAdded = [m \in TlMetrics |-> 0]

TlAt(p, pc) == tlProc[p].pc = pc
TlGo(p, pc) == tlProc' = [tlProc EXCEPT ![p].pc = pc]

----------------------------------------------------------------------------
(* Spans.                                                                  *)

\* StartSpan below a span of the context, or as a root with a new trace id.
TlStartSpan(p) ==
    /\ TlAt(p, "idle")
    /\ Len(tlSpans) < TlMaxSpans
    /\ \E parent \in 0 .. Len(tlSpans) :
         LET id == Len(tlSpans) + 1
             trace == IF parent = 0 THEN id ELSE tlSpans[parent].trace
         IN  tlSpans' = Append(tlSpans, [id |-> id, trace |-> trace, parent |-> parent,
                                         error |-> FALSE, ended |-> FALSE])
    /\ tlWrap' = Append(tlWrap, [ended |-> FALSE, error |-> FALSE])
    /\ UNCHANGED <<tlProc, tlQueueVars, tlLogVars, tlMetricVars>>

\* SetError marks the wrapper, then the span behind it.
TlSetError(p) ==
    /\ TlAt(p, "idle")
    /\ \E s \in DOMAIN tlSpans :
         /\ tlWrap' = [tlWrap EXCEPT ![s].error = TRUE]
         /\ tlProc' = [tlProc EXCEPT ![p].pc = "inner", ![p].span = s]
    /\ UNCHANGED <<tlSpans, tlQueueVars, tlLogVars, tlMetricVars>>

TlSetInnerError(p) ==
    /\ TlAt(p, "inner")
    /\ tlSpans' = [tlSpans EXCEPT ![tlProc[p].span].error = TRUE]
    /\ TlGo(p, "idle")
    /\ UNCHANGED <<tlWrap, tlQueueVars, tlLogVars, tlMetricVars>>

\* Mutant: the wrapper's flag is looked at and left as it was.
TlMarkLate(s) == UNCHANGED tlWrap
TlMarkEnded(s) == tlWrap' = [tlWrap EXCEPT ![s].ended = TRUE]

\* End: the first caller goes on with the error it saw.
TlEnd(p) ==
    /\ TlAt(p, "idle")
    /\ \E s \in DOMAIN tlSpans :
         /\ ~tlWrap[s].ended
         /\ TlMarkEnded(s)
         /\ tlProc' = [tlProc EXCEPT ![p] = [TlIdle EXCEPT !.pc = "close", !.span = s,
                                                 !.error = tlWrap[s].error]]
    /\ UNCHANGED <<tlSpans, tlQueueVars, tlLogVars, tlMetricVars>>

TlClose(p) ==
    /\ TlAt(p, "close")
    /\ tlSpans' = [tlSpans EXCEPT ![tlProc[p].span].ended = TRUE]
    /\ TlGo(p, "match")
    /\ UNCHANGED <<tlWrap, tlQueueVars, tlLogVars, tlMetricVars>>

\* The exported form of the span found by its id in the copy of all spans.
TlSpanData(s, error) == [kind |-> "span", id |-> tlSpans[s].id, trace |-> tlSpans[s].trace,
                         parent |-> tlSpans[s].parent, error |-> error]

\* enqueue; the caller that fills the batch flushes next.
TlEnqueue(p, item) ==
    /\ tlPending' = Append(tlPending, item)
    /\ tlProc' = [tlProc EXCEPT ![p] =
           IF Len(tlPending) + 1 >= TlBatch THEN [TlIdle EXCEPT !.pc = "flush"] ELSE TlIdle]
    /\ UNCHANGED <<tlSent, tlLost, tlFailures>>

TlMatch(p) ==
    /\ TlAt(p, "match")
    /\ TlEnqueue(p, TlSpanData(tlProc[p].span, tlProc[p].error))
    /\ UNCHANGED <<tlSpanVars, tlLogVars, tlMetricVars>>

\* Flush takes everything pending under the lock, also on demand, and sends
\* without it; an empty queue ends it.
TlFlush(p) ==
    /\ TlAt(p, "idle") \/ TlAt(p, "flush")
    /\ TlAt(p, "idle") => tlPending # <<>>
    /\ tlPending' = <<>>
    /\ tlProc' = [tlProc EXCEPT ![p] =
           IF tlPending = <<>> THEN TlIdle ELSE [TlIdle EXCEPT !.pc = "send", !.batch = tlPending]]
    /\ UNCHANGED <<tlSpanVars, tlSent, tlLost, tlFailures, tlLogVars, tlMetricVars>>

TlSend(p) ==
    /\ TlAt(p, "send")
    /\ \/ /\ tlSent' = tlSent \o tlProc[p].batch
          /\ UNCHANGED <<tlLost, tlFailures>>
       \/ /\ tlFailures < TlMaxFailures
          /\ tlFailures' = tlFailures + 1
          /\ tlLost' = tlLost \o tlProc[p].batch
          /\ UNCHANGED tlSent
    /\ tlProc' = [tlProc EXCEPT ![p] = TlIdle]
    /\ UNCHANGED <<tlSpanVars, tlPending, tlLogVars, tlMetricVars>>

TlDrainNext == \E p \in TlProcs : TlFlush(p) \/ TlSend(p)
TlSpanNext == \/ \E p \in TlProcs : \/ TlStartSpan(p) \/ TlSetError(p) \/ TlSetInnerError(p)
                                    \/ TlEnd(p) \/ TlClose(p) \/ TlMatch(p)
              \/ TlDrainNext

----------------------------------------------------------------------------
(* Logs: the ring keeps what reaches the minimum level, the exporter       *)
(* queues every record.                                                    *)

TlEmit(p) ==
    /\ TlAt(p, "idle")
    /\ Len(tlEmitted) < TlMaxLogs
    /\ \E level \in TlLevels :
         LET n == Len(tlEmitted) + 1 IN
         /\ tlEmitted' = Append(tlEmitted, level)
         /\ IF level < TlMinLevel THEN UNCHANGED <<tlRing, tlHead, tlCount>>
            ELSE /\ tlRing' = [tlRing EXCEPT ![tlHead] = n]
                 /\ tlHead' = (tlHead + 1) % TlCapacity
                 /\ tlCount' = IF tlCount < TlCapacity THEN tlCount + 1 ELSE tlCount
         /\ tlProc' = [tlProc EXCEPT ![p].pc = "log", ![p].span = n]
    /\ UNCHANGED <<tlSpanVars, tlQueueVars, tlMetricVars>>

TlLogQueue(p) ==
    /\ TlAt(p, "log")
    /\ TlEnqueue(p, [kind |-> "log", id |-> tlProc[p].span, trace |-> 0, parent |-> 0,
                     error |-> FALSE])
    /\ UNCHANGED <<tlSpanVars, tlLogVars, tlMetricVars>>

TlLogNext == (\E p \in TlProcs : TlEmit(p) \/ TlLogQueue(p)) \/ TlDrainNext

\* Records: from the head when the ring is full, from the start otherwise.
TlRecords == [i \in 1 .. tlCount |->
                 tlRing[IF tlCount = TlCapacity THEN (tlHead + i - 1) % TlCapacity ELSE i - 1]]

----------------------------------------------------------------------------
(* Metrics: an instrument is found or created under the registry's lock    *)
(* and changed under its own.                                              *)

TlInstrument(p) ==
    /\ TlAt(p, "idle")
    /\ \E m \in TlMetrics :
         IF tlRegistry[m] # 0
         THEN /\ tlProc' = [tlProc EXCEPT ![p].pc = "add", ![p].span = tlRegistry[m], ![p].batch = <<m>>]
              /\ UNCHANGED tlMetricVars
         ELSE /\ tlValues' = Append(tlValues, 0)
              /\ tlRegistry' = [tlRegistry EXCEPT ![m] = Len(tlValues) + 1]
              /\ tlProc' = [tlProc EXCEPT ![p].pc = "add", ![p].span = Len(tlValues) + 1,
                                          ![p].batch = <<m>>]
              /\ UNCHANGED tlAdded
    /\ UNCHANGED <<tlSpanVars, tlQueueVars, tlLogVars>>

TlAdd(p) ==
    /\ TlAt(p, "add")
    /\ tlAdded[Head(tlProc[p].batch)] < TlMaxAdds
    /\ tlValues' = [tlValues EXCEPT ![tlProc[p].span] = @ + 1]
    /\ tlAdded' = [tlAdded EXCEPT ![Head(tlProc[p].batch)] = @ + 1]
    /\ tlProc' = [tlProc EXCEPT ![p] = TlIdle]
    /\ UNCHANGED <<tlRegistry, tlSpanVars, tlQueueVars, tlLogVars>>

TlMetricNext == \E p \in TlProcs : TlInstrument(p) \/ TlAdd(p)

\* The three exporters share no state; in the model they share the goroutines.
TlNext == TlSpanNext \/ TlLogNext \/ TlMetricNext
TlSpec == TlInit /\ [][TlNext]_tlVars

\* Snapshot: the value behind every registered key.
TlSnapshot == [m \in TlMetrics |-> IF tlRegistry[m] = 0 THEN 0 ELSE tlValues[tlRegistry[m]]]

----------------------------------------------------------------------------
\* Where an item can be: queued, handed over, refused, or in the batch of a
\* goroutine that is sending it.
TlLists ==
    [h \in {"pending", "sent", "lost"} \cup {p \in TlProcs : TlAt(p, "send")} |->
        CASE h = "pending" -> tlPending [] h = "sent" -> tlSent [] h = "lost" -> tlLost
          [] OTHER -> tlProc[h].batch]
TlKey(x) == <<x.kind, x.id>>
TlKeys(list) == {TlKey(list[i]) : i \in DOMAIN list}
TlQueued == UNION {TlKeys(TlLists[h]) : h \in DOMAIN TlLists}
TlDelivering(pc) == {tlProc[p].span : p \in {q \in TlProcs : tlProc[q].pc \in pc}}
TlKept(n) == tlEmitted[n] >= TlMinLevel

\* However Ends, errors, flushes and failing senders interleave: every span
\* that was ended is exactly once queued, in flight, sent or lost (or still
\* in the hands of the goroutine that ended it), with a parent of the same
\* trace; every log record likewise. A queue that has reached the batch size
\* has a goroutine about to flush it. The ring holds the last records of
\* sufficient level in order, and a metric's snapshot is all that was added.
TlExportedOnce ==
    /\ \A h \in DOMAIN TlLists :
         /\ \A i, j \in DOMAIN TlLists[h] : TlKey(TlLists[h][i]) = TlKey(TlLists[h][j]) => i = j
         /\ \A k \in DOMAIN TlLists \ {h} : TlKeys(TlLists[h]) \cap TlKeys(TlLists[k]) = {}
         /\ \A i \in DOMAIN TlLists[h] :
              LET x == TlLists[h][i]
              IN  x.kind = "span" /\ x.parent # 0 => tlSpans[x.parent].trace = x.trace
    /\ \A s \in DOMAIN tlSpans :
         <<"span", s>> \in TlQueued <=> tlWrap[s].ended /\ s \notin TlDelivering({"close", "match"})
    /\ \A n \in DOMAIN tlEmitted : <<"log", n>> \in TlQueued <=> n \notin TlDelivering({"log"})
    /\ Len(tlPending) >= TlBatch => \E p \in TlProcs : TlAt(p, "flush")
    /\ \A i \in 1 .. tlCount : /\ TlRecords[i] \in DOMAIN tlEmitted /\ TlKept(TlRecords[i])
                               /\ i > 1 => TlRecords[i - 1] < TlRecords[i]
    /\ \A n \in DOMAIN tlEmitted : TlKept(n) =>
         \/ \E i \in 1 .. tlCount : TlRecords[i] = n
         \/ tlCount = TlCapacity /\ n < TlRecords[1]
    /\ TlSnapshot = tlAdded
=============================================================================
