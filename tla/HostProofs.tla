----------------------------- MODULE HostProofs -----------------------------
(***************************************************************************)
(* The host's goroutines, for every value of their constants: the frame    *)
(* writer implements FrameSink for every number of calls and every capacity*)
(* of its channel; the agent loop keeps its budget and pairs its history   *)
(* for any limits, batch size and set of tool signatures; the run manager  *)
(* of `brain serve' keeps its slots, records and drain for every number of *)
(* requests, slot limit and number of failing writes.                      *)
(***************************************************************************)
EXTENDS FrameWriter, AgentLoop, ServeRuns, FiniteSetTheorems, TLAPS

-----------------------------------------------------------------------------
(* The frame writer.                                                       *)

\* The frames the writer has taken over and not yet tried to write.
InFlight(w) == w = current \/ w \in Queued

(***************************************************************************)
(* Where a frame can be, read off the program: a call that has not enqueued *)
(* has left no trace; a frame in flight has no answer yet and is not on the *)
(* wire; a waiting call has its frame in flight or its answer buffered; an  *)
(* answer, buffered or returned, says what happened to the frame; and a     *)
(* finished loop has left nothing in the channel.                           *)
(***************************************************************************)
FrameAt(w) ==
    /\ pc[w] # "returned" <=> ret[w] = "none"
    /\ pc[w] \in {"start", "enqueue"} =>
           ~InFlight(w) /\ w \notin OnWire /\ reply[w] = "empty"
    /\ InFlight(w) =>
           /\ reply[w] = "empty" /\ w \notin OnWire
           /\ ret[w] \in {"none", "cancelled"}
    /\ pc[w] = "await" => InFlight(w) \/ reply[w] # "empty"
    /\ (reply[w] = "ok" \/ ret[w] = "ok") => w \in OnWire
    /\ (reply[w] = "broken_pipe" \/ ret[w] = "broken_pipe") => w \notin OnWire
    /\ ret[w] \in {"ok", "broken_pipe"} => reply[w] = "empty"
    /\ ret[w] = "shutting_down" =>
           ~InFlight(w) /\ w \notin OnWire /\ reply[w] = "empty"

FramesInv ==
    /\ \A w \in Writers : FrameAt(w)
    /\ current \notin Queued
    /\ \A i, j \in DOMAIN queue : queue[i] = queue[j] => i = j
    /\ loopDone => closed /\ queue = <<>> /\ current = NoFrame

WriterInv == FwTypeOK /\ FramesInv

------------------------------------------------------------------------------
\* Appending to a sequence adds one element to its range.
LEMMA RangeOfAppend ==
    ASSUME NEW S, NEW s \in Seq(S), NEW e \in S
    PROVE  Elems(Append(s, e)) = Elems(s) \cup {e}
<1> DEFINE t == Append(s, e)
<1>1. DOMAIN t = 1 .. Len(s) + 1 /\ DOMAIN s = 1 .. Len(s) /\ Len(s) \in Nat
  OBVIOUS
<1>2. (\A i \in DOMAIN s : t[i] = s[i]) /\ t[Len(s) + 1] = e
  OBVIOUS
<1>3. ASSUME NEW i \in DOMAIN t PROVE t[i] \in {s[k] : k \in DOMAIN s} \cup {e}
  <2>1. CASE i = Len(s) + 1
    BY <2>1, <1>2, Zenon
  <2>2. CASE i # Len(s) + 1
    <3>1. i \in DOMAIN s
      BY <2>2, <1>1, <1>3
    <3> QED BY <3>1, <1>2, Zenon
  <2> QED BY <2>1, <2>2, Zenon
<1>4. ASSUME NEW i \in DOMAIN s PROVE s[i] \in {t[k] : k \in DOMAIN t}
  <2>1. i \in DOMAIN t
    BY <1>1, <1>4
  <2> QED BY <2>1, <1>2, Zenon
<1>5. e \in {t[k] : k \in DOMAIN t}
  <2>1. Len(s) + 1 \in DOMAIN t
    BY <1>1
  <2> QED BY <2>1, <1>2, Zenon
<1> QED BY <1>3, <1>4, <1>5, Zenon DEF Elems

\* The range of a sequence over S lies in S.
LEMMA ElemsOfSeq == ASSUME NEW S, NEW s \in Seq(S) PROVE Elems(s) \subseteq S
  BY DEF Elems

\* A sequence without repetitions loses exactly its head.
LEMMA RangeOfTail ==
    ASSUME NEW S, NEW s \in Seq(S), s # <<>>,
           \A i, j \in DOMAIN s : s[i] = s[j] => i = j
    PROVE  /\ Elems(Tail(s)) = Elems(s) \ {Head(s)}
           /\ \A i, j \in DOMAIN Tail(s) : Tail(s)[i] = Tail(s)[j] => i = j
           /\ Head(s) \in Elems(s)
<1> DEFINE t == Tail(s)
<1>1. /\ Len(s) \in Nat \ {0} /\ DOMAIN s = 1 .. Len(s) /\ DOMAIN t = 1 .. Len(s) - 1
      /\ Head(s) = s[1]
  OBVIOUS
<1>2. \A i \in DOMAIN t : t[i] = s[i + 1] /\ i + 1 \in DOMAIN s
  BY <1>1
<1>3. ASSUME NEW i \in DOMAIN t PROVE t[i] \in {s[k] : k \in DOMAIN s} \ {Head(s)}
  <2>1. 1 \in DOMAIN s /\ i + 1 # 1
    BY <1>1
  <2> QED BY <2>1, <1>1, <1>2, Zenon
<1>4. ASSUME NEW i \in DOMAIN s, s[i] # Head(s) PROVE s[i] \in {t[k] : k \in DOMAIN t}
  <2>1. i # 1
    BY <1>1, <1>4, Zenon
  <2>2. i - 1 \in DOMAIN t /\ (i - 1) + 1 = i
    BY <2>1, <1>1
  <2> QED BY <2>2, <1>2, Zenon
<1>5. \A i, j \in DOMAIN t : t[i] = t[j] => i = j
  <2> SUFFICES ASSUME NEW i \in DOMAIN t, NEW j \in DOMAIN t, t[i] = t[j] PROVE i = j
    BY Zenon
  <2>1. s[i + 1] = s[j + 1] /\ i + 1 \in DOMAIN s /\ j + 1 \in DOMAIN s
    BY <1>2, Zenon
  <2>2. i + 1 = j + 1
    BY <2>1, Zenon
  <2> QED BY <2>2, <1>1
<1>6. 1 \in DOMAIN s
  BY <1>1
<1> QED BY <1>1, <1>3, <1>4, <1>5, <1>6 DEF Elems

------------------------------------------------------------------------------
\* FwTypeOK is inductive: the channel never holds more than its capacity and
\* the loop writes only frames of calls.
LEMMA FwTypeStep == FwTypeOK /\ [FwNext]_fwVars => FwTypeOK'
<1> SUFFICES ASSUME FwTypeOK, [FwNext]_fwVars PROVE FwTypeOK'
  BY Zenon
<1> USE BufSizeAssumption, NoFrameAssumption DEF FwTypeOK
<1>1. ASSUME NEW w \in Writers, WriteFrame(w) PROVE FwTypeOK'
  <2>1. CASE CheckClosed(w)
    BY <2>1, Zenon DEF CheckClosed, Return
  <2>2. CASE Enqueue(w)
    BY <2>2 DEF Enqueue
  <2>3. CASE EnqueuePanic(w)
    BY <2>3, Zenon DEF EnqueuePanic
  <2>4. CASE EnqueueCancelled(w)
    BY <2>4, Zenon DEF EnqueueCancelled, Return
  <2>5. CASE AwaitReply(w)
    BY <2>5, Zenon DEF AwaitReply, Return
  <2>6. CASE AwaitCancelled(w)
    BY <2>6, Zenon DEF AwaitCancelled, Return
  <2> QED BY <1>1, <2>1, <2>2, <2>3, <2>4, <2>5, <2>6, Zenon DEF WriteFrame
<1>2. ASSUME NEW w \in Writers, FwCtxEnd(w) PROVE FwTypeOK'
  BY <1>2, Zenon DEF FwCtxEnd
<1>3. CASE LoopTake
  BY <1>3 DEF LoopTake
<1>4. CASE LoopWrite
  <2>1. current \in Writers
    BY <1>4, Zenon DEF LoopWrite
  <2>2. wire' \in Seq(Writers)
    <3>1. wire' = Append(wire, current) \/ wire' = wire
      BY <1>4, Zenon DEF LoopWrite
    <3>2. Append(wire, current) \in Seq(Writers)
      BY <2>1
    <3> QED BY <3>1, <3>2, Zenon
  <2>3. reply' \in [Writers -> {"empty", "ok", "broken_pipe"}]
    BY <1>4, <2>1, Zenon DEF LoopWrite
  <2> QED BY <1>4, <2>2, <2>3, Zenon DEF LoopWrite
<1>5. CASE LoopExit
  BY <1>5, Zenon DEF LoopExit
<1>6. ASSUME NEW c \in Closers, Close(c) PROVE FwTypeOK'
  BY <1>6, Zenon DEF Close, CloseBegin, CloseWait
<1>7. CASE UNCHANGED fwVars
  BY <1>7, Zenon DEF fwVars
<1> QED BY <1>1, <1>2, <1>3, <1>4, <1>5, <1>6, <1>7, Zenon DEF FwNext, FwLoop

\* FramesInv is inductive relative to the types.
LEMMA FramesStep == WriterInv /\ [FwNext]_fwVars => FramesInv'
<1> SUFFICES ASSUME WriterInv, [FwNext]_fwVars PROVE FramesInv'
  BY Zenon
<1> USE NoFrameAssumption DEF WriterInv, FwTypeOK
<1>1. ASSUME NEW w \in Writers, WriteFrame(w) PROVE FramesInv'
  <2>1. CASE CheckClosed(w)
    BY <2>1 DEF CheckClosed, Return, FramesInv, FrameAt, InFlight, OnWire, Queued
  <2>2. CASE Enqueue(w)
    <3>1. Queued' = Queued \cup {w}
      BY <2>2, RangeOfAppend DEF Enqueue, Queued
    <3>2. OnWire' = OnWire /\ w \notin Queued /\ w # current
      BY <2>2, Zenon DEF Enqueue, OnWire, FramesInv, FrameAt, InFlight
    <3>3. \A i, j \in DOMAIN queue' : queue'[i] = queue'[j] => i = j
      <4>1. queue' = Append(queue, w)
        BY <2>2, Zenon DEF Enqueue
      <4>2. \A i \in DOMAIN queue : queue[i] # w
        BY <3>2, Zenon DEF Queued, Elems
      <4> QED BY <4>1, <4>2 DEF FramesInv
    <3> QED BY <2>2, <3>1, <3>2, <3>3, Zenon DEF Enqueue, FramesInv, FrameAt, InFlight
  <2>3. CASE EnqueuePanic(w)
    BY <2>3, Zenon DEF EnqueuePanic, FramesInv, FrameAt, InFlight, OnWire, Queued
  <2>4. CASE EnqueueCancelled(w)
    BY <2>4, Zenon DEF EnqueueCancelled, Return, FramesInv, FrameAt, InFlight, OnWire, Queued
  <2>5. CASE AwaitReply(w)
    BY <2>5 DEF AwaitReply, Return, FramesInv, FrameAt, InFlight, OnWire, Queued
  <2>6. CASE AwaitCancelled(w)
    BY <2>6 DEF AwaitCancelled, Return, FramesInv, FrameAt, InFlight, OnWire, Queued
  <2> QED BY <1>1, <2>1, <2>2, <2>3, <2>4, <2>5, <2>6, Zenon DEF WriteFrame
<1>2. ASSUME NEW w \in Writers, FwCtxEnd(w) PROVE FramesInv'
  BY <1>2, Zenon DEF FwCtxEnd, FramesInv, FrameAt, InFlight, OnWire, Queued
<1>3. CASE LoopTake
  <2>1. /\ Queued' = Queued \ {current'} /\ current' \in Queued
        /\ \A i, j \in DOMAIN queue' : queue'[i] = queue'[j] => i = j
    BY <1>3, RangeOfTail, Zenon DEF LoopTake, Queued, FramesInv
  <2>2. OnWire' = OnWire /\ \A w \in Writers : InFlight(w)' <=> InFlight(w)
    BY <1>3, <2>1, Zenon DEF LoopTake, OnWire, InFlight
  <2> QED BY <1>3, <2>1, <2>2, Zenon DEF LoopTake, FramesInv, FrameAt
<1>4. CASE LoopWrite
  <2>1. current \in Writers /\ Queued' = Queued
    BY <1>4, Zenon DEF LoopWrite, Queued
  <2>2. \A w \in Writers \ {current} : reply'[w] = reply[w]
    BY <1>4, <2>1, Zenon DEF LoopWrite
  <2>3. InFlight(current) /\ \A w \in Writers : InFlight(w)' <=> InFlight(w) /\ w # current
    BY <1>4, <2>1, Zenon DEF InFlight, LoopWrite, FramesInv
  <2>4. CASE wire' = Append(wire, current) /\ reply' = [reply EXCEPT ![current] = "ok"]
    <3>1. OnWire' = OnWire \cup {current}
      BY <2>1, <2>4, RangeOfAppend DEF OnWire
    <3>2. reply'[current] = "ok"
      BY <2>1, <2>4, Zenon
    <3>3. ASSUME NEW w \in Writers PROVE FrameAt(w)'
      BY <1>4, <2>1, <2>2, <2>3, <3>1, <3>2, Zenon DEF LoopWrite, FramesInv, FrameAt
    <3> QED BY <1>4, <2>1, <3>3, ElemsOfSeq, Zenon DEF LoopWrite, FramesInv, Queued
  <2>5. CASE wire' = wire /\ reply' = [reply EXCEPT ![current] = "broken_pipe"]
    <3>1. OnWire' = OnWire
      BY <2>5, Zenon DEF OnWire
    <3>2. reply'[current] = "broken_pipe"
      BY <2>1, <2>5, Zenon
    <3>3. ASSUME NEW w \in Writers PROVE FrameAt(w)'
      BY <1>4, <2>1, <2>2, <2>3, <3>1, <3>2 DEF LoopWrite, FramesInv, FrameAt
    <3> QED BY <1>4, <2>1, <3>3, ElemsOfSeq, Zenon DEF LoopWrite, FramesInv, Queued
  <2> QED BY <1>4, <2>4, <2>5, Zenon DEF LoopWrite
<1>5. CASE LoopExit
  BY <1>5, Zenon DEF LoopExit, FramesInv, FrameAt, InFlight, OnWire, Queued
<1>6. ASSUME NEW c \in Closers, Close(c) PROVE FramesInv'
  BY <1>6 DEF Close, CloseBegin, CloseWait, FramesInv, FrameAt, InFlight, OnWire, Queued
<1>7. CASE UNCHANGED fwVars
  BY <1>7, Zenon DEF fwVars, FramesInv, FrameAt, InFlight, OnWire, Queued
<1> QED BY <1>1, <1>2, <1>3, <1>4, <1>5, <1>6, <1>7, Zenon DEF FwNext, FwLoop

\* The initial state has no frame anywhere.
LEMMA WriterInit == FwInit => WriterInv
<1> SUFFICES ASSUME FwInit PROVE WriterInv
  BY Zenon
<1>1. FwTypeOK
  <2>1. <<>> \in Seq(Writers) /\ Len(<<>>) = 0 /\ 0 <= BufSize
    BY BufSizeAssumption
  <2>2. <<closed, loopDone, panicked>> \in BOOLEAN \X BOOLEAN \X BOOLEAN
    BY Zenon DEF FwInit
  <2> QED BY <2>1, <2>2, Zenon DEF FwInit, FwTypeOK
<1>2. OnWire = {} /\ Queued = {} /\ \A w \in Writers : ~InFlight(w)
  <2>1. Elems(<<>>) = {}
    BY DEF Elems
  <2> QED BY <2>1, NoFrameAssumption, Zenon DEF FwInit, OnWire, Queued, InFlight
<1> QED BY <1>1, <1>2 DEF FwInit, WriterInv, FramesInv, FrameAt

\* Every reachable state of the writer satisfies the invariant.
THEOREM FramesAccountedFor == FwSpec => []WriterInv
<1>1. WriterInv /\ [FwNext]_fwVars => WriterInv'
  BY FwTypeStep, FramesStep, Zenon DEF WriterInv
<1> QED BY WriterInit, <1>1, PTL DEF FwSpec

------------------------------------------------------------------------------
\* The parts of the refinement mapping, as functions of the writer's state.
Fate    == [w \in Writers |-> FateOf(w)]
SinkVerdict == [w \in Writers |-> VerdictOf(w)]
SinkStatus  == IF loopDone THEN "stopped" ELSE IF closed THEN "closed" ELSE "open"

Same == Fate' = Fate /\ wire' = wire /\ SinkVerdict' = SinkVerdict /\ SinkStatus' = SinkStatus

\* A step that leaves every frame's fate, the wire, the answers and the status
\* alone is a stuttering step of the sink.
LEMMA SameStutters == Same => UNCHANGED Sink!sinkVars
  BY Zenon DEF Same, Sink!sinkVars, Fate, SinkVerdict, SinkStatus

\* The initial writer is an initial sink.
LEMMA RefinesInit == FwInit => Sink!SinkInit
<1> SUFFICES ASSUME FwInit PROVE Sink!SinkInit
  BY Zenon
<1>1. OnWire = {} /\ Queued = {}
  BY DEF FwInit, OnWire, Queued, Elems
<1>2. \A w \in Writers : FateOf(w) = "new" /\ VerdictOf(w) = "none"
  BY <1>1, NoFrameAssumption, Zenon DEF FwInit, FateOf, VerdictOf
<1> QED BY <1>2, Zenon DEF FwInit, Sink!SinkInit

\* Every step of the writer is a step of the sink or leaves it unchanged: an
\* accepted frame is one in flight, a refused one was given up before its
\* enqueue, and the loop leaves only when nothing is in flight.
LEMMA RefinesStep == WriterInv /\ [FwNext]_fwVars => [Sink!SinkNext]_(Sink!sinkVars)
<1> SUFFICES ASSUME WriterInv, [FwNext]_fwVars PROVE Sink!SinkNext \/ UNCHANGED Sink!sinkVars
  BY Zenon
<1> USE NoFrameAssumption DEF WriterInv, FwTypeOK, FramesInv
<1>1. ASSUME NEW w \in Writers, WriteFrame(w) PROVE Sink!SinkNext \/ UNCHANGED Sink!sinkVars
  <2>1. CASE CheckClosed(w)
    <3>1. CASE closed
      <4>1. /\ FateOf(w) = "new" /\ FateOf(w)' = "refused" /\ VerdictOf(w)' = "error"
            /\ \A x \in Writers \ {w} : FateOf(x)' = FateOf(x) /\ VerdictOf(x)' = VerdictOf(x)
        BY <2>1, <3>1 DEF CheckClosed, Return, FateOf, VerdictOf, FrameAt, InFlight, OnWire, Queued
      <4>2. UNCHANGED <<wire, closed, loopDone>>
        BY <2>1, Zenon DEF CheckClosed
      <4>3. Sink!Refuse(w)
        BY <4>1, <4>2, Zenon DEF Sink!Refuse
      <4> QED BY <4>3, Zenon DEF Sink!SinkNext
    <3>2. CASE ~closed
      <4>1. Same
        BY <2>1, <3>2 DEF CheckClosed, Same, Fate, SinkVerdict, SinkStatus, FateOf, VerdictOf, OnWire, Queued
      <4> QED BY <4>1, SameStutters, Zenon
    <3> QED BY <3>1, <3>2, Zenon
  <2>2. CASE Enqueue(w)
    <3>1. Queued' = Queued \cup {w}
      BY <2>2, RangeOfAppend DEF Enqueue, Queued
    <3>2. /\ FateOf(w) = "new" /\ FateOf(w)' = "accepted"
          /\ \A x \in Writers \ {w} : FateOf(x)' = FateOf(x)
      BY <2>2, <3>1, Zenon DEF Enqueue, FateOf, FrameAt, InFlight, OnWire
    <3>3. ~loopDone /\ ~closed /\ \A x \in Writers : VerdictOf(x)' = VerdictOf(x)
      BY <2>2, Zenon DEF Enqueue, VerdictOf
    <3>4. Sink!Accept(w)
      BY <2>2, <3>2, <3>3, Zenon DEF Enqueue, Sink!Accept
    <3> QED BY <3>4, Zenon DEF Sink!SinkNext
  <2>3. CASE EnqueuePanic(w)
    <3>1. Same
      BY <2>3, Zenon DEF EnqueuePanic, Same, Fate, SinkVerdict, SinkStatus, FateOf, VerdictOf, OnWire, Queued
    <3> QED BY <3>1, SameStutters, Zenon
  <2>4. CASE EnqueueCancelled(w)
    <3>1. /\ FateOf(w) = "new" /\ FateOf(w)' = "refused" /\ VerdictOf(w)' = "error"
          /\ \A x \in Writers \ {w} : FateOf(x)' = FateOf(x) /\ VerdictOf(x)' = VerdictOf(x)
      BY <2>4, Zenon DEF EnqueueCancelled, Return, FateOf, VerdictOf, FrameAt, InFlight, OnWire, Queued
    <3>2. Sink!Refuse(w)
      BY <2>4, <3>1, Zenon DEF EnqueueCancelled, Sink!Refuse
    <3> QED BY <3>2, Zenon DEF Sink!SinkNext
  <2>5. CASE AwaitReply(w)
    <3>1. /\ \A x \in Writers : FateOf(x)' = FateOf(x)
          /\ \A x \in Writers \ {w} : VerdictOf(x)' = VerdictOf(x)
      BY <2>5, Zenon DEF AwaitReply, Return, FateOf, VerdictOf, FrameAt, InFlight, OnWire, Queued
    <3>2. /\ VerdictOf(w) = "none"
          /\ \/ FateOf(w) = "sent" /\ VerdictOf(w)' = "ok"
             \/ FateOf(w) = "lost" /\ VerdictOf(w)' = "error"
      BY <2>5, Zenon DEF AwaitReply, Return, FateOf, VerdictOf, FrameAt, InFlight
    <3>3. Sink!Tell(w)
      BY <2>5, <3>1, <3>2, Zenon DEF AwaitReply, Sink!Tell
    <3> QED BY <3>3, Zenon DEF Sink!SinkNext
  <2>6. CASE AwaitCancelled(w)
    <3>1. /\ \A x \in Writers : FateOf(x)' = FateOf(x)
          /\ \A x \in Writers \ {w} : VerdictOf(x)' = VerdictOf(x)
      BY <2>6 DEF AwaitCancelled, Return, FateOf, VerdictOf, FrameAt, InFlight, OnWire, Queued
    <3>2. VerdictOf(w) = "none" /\ FateOf(w) # "new" /\ VerdictOf(w)' = "error"
      BY <2>6, Zenon DEF AwaitCancelled, Return, FateOf, VerdictOf, FrameAt, InFlight
    <3>3. Sink!Tell(w)
      BY <2>6, <3>1, <3>2, Zenon DEF AwaitCancelled, Sink!Tell
    <3> QED BY <3>3, Zenon DEF Sink!SinkNext
  <2> QED BY <1>1, <2>1, <2>2, <2>3, <2>4, <2>5, <2>6, Zenon DEF WriteFrame
<1>2. ASSUME NEW w \in Writers, FwCtxEnd(w) PROVE UNCHANGED Sink!sinkVars
  <2>1. Same
    BY <1>2, Zenon DEF FwCtxEnd, Same, Fate, SinkVerdict, SinkStatus, FateOf, VerdictOf, OnWire, Queued
  <2> QED BY <2>1, SameStutters, Zenon
<1>3. CASE LoopTake
  <2>1. Queued' = Queued \ {current'} /\ current' \in Queued
    BY <1>3, RangeOfTail, Zenon DEF LoopTake, Queued
  <2>2. \A x \in Writers : FateOf(x)' = FateOf(x)
    BY <1>3, <2>1, Zenon DEF LoopTake, FateOf, OnWire
  <2>3. Same
    BY <1>3, <2>2, Zenon DEF LoopTake, Same, Fate, SinkVerdict, SinkStatus, VerdictOf
  <2> QED BY <2>3, SameStutters, Zenon
<1>4. CASE LoopWrite
  <2>1. PICK f \in Writers : f = current
    BY <1>4, Zenon DEF LoopWrite
  <2>2. /\ ~loopDone /\ Queued' = Queued /\ f \notin Queued /\ current' = NoFrame
        /\ UNCHANGED <<ret, closed, loopDone>>
        /\ \A x \in Writers \ {f} : reply'[x] = reply[x]
    BY <1>4, <2>1, Zenon DEF LoopWrite, Queued
  <2>3. FateOf(f) = "accepted" /\ \A x \in Writers : VerdictOf(x)' = VerdictOf(x)
    BY <2>1, <2>2, Zenon DEF FateOf, FrameAt, InFlight, VerdictOf
  <2>4. SinkStatus # "stopped" /\ SinkStatus' = SinkStatus /\ SinkVerdict' = SinkVerdict
    BY <2>2, <2>3, Zenon DEF SinkStatus, SinkVerdict
  <2>5. CASE wire' = Append(wire, f) /\ reply' = [reply EXCEPT ![f] = "ok"]
    <3>1. OnWire' = OnWire \cup {f}
      BY <2>5, RangeOfAppend DEF OnWire
    <3>2. FateOf(f)' = "sent" /\ \A x \in Writers \ {f} : FateOf(x)' = FateOf(x)
      BY <2>1, <2>2, <3>1, Zenon DEF FateOf
    <3>3. Fate[f] = "accepted" /\ Fate' = [Fate EXCEPT ![f] = "sent"]
      BY <2>3, <3>2, Zenon DEF Fate
    <3>4. Sink!Put(f)
      BY <2>5, <2>4, <3>3, Zenon DEF Sink!Put, Fate, SinkStatus, SinkVerdict
    <3> QED BY <3>4, Zenon DEF Sink!SinkNext
  <2>6. CASE wire' = wire /\ reply' = [reply EXCEPT ![f] = "broken_pipe"]
    <3>1. OnWire' = OnWire /\ f \notin OnWire /\ reply'[f] = "broken_pipe"
      BY <2>1, <2>6, Zenon DEF OnWire, FrameAt, InFlight
    <3>2. FateOf(f)' = "lost" /\ \A x \in Writers \ {f} : FateOf(x)' = FateOf(x)
      BY <2>1, <2>2, <3>1, Zenon DEF FateOf
    <3>3. Fate[f] = "accepted" /\ Fate' = [Fate EXCEPT ![f] = "lost"]
      BY <2>3, <3>2, Zenon DEF Fate
    <3>4. Sink!Put(f)
      BY <2>6, <2>4, <3>3, Zenon DEF Sink!Put, Fate, SinkStatus, SinkVerdict
    <3> QED BY <3>4, Zenon DEF Sink!SinkNext
  <2> QED BY <1>4, <2>1, <2>5, <2>6, Zenon DEF LoopWrite
<1>5. CASE LoopExit
  <2>1. Queued = {} /\ \A x \in Writers : FateOf(x) # "accepted"
    BY <1>5 DEF LoopExit, Queued, Elems, FateOf
  <2>2. \A x \in Writers : FateOf(x)' = FateOf(x) /\ VerdictOf(x)' = VerdictOf(x)
    BY <1>5, Zenon DEF LoopExit, FateOf, VerdictOf, OnWire, Queued
  <2>3. Sink!Stop
    BY <1>5, <2>1, <2>2 DEF LoopExit, Sink!Stop
  <2> QED BY <2>3, Zenon DEF Sink!SinkNext
<1>6. ASSUME NEW c \in Closers, Close(c) PROVE Sink!SinkNext \/ UNCHANGED Sink!sinkVars
  <2>1. \A x \in Writers : FateOf(x)' = FateOf(x) /\ VerdictOf(x)' = VerdictOf(x)
    BY <1>6, Zenon DEF Close, CloseBegin, CloseWait, FateOf, VerdictOf, OnWire, Queued
  <2>2. CASE ~closed /\ closed'
    <3>1. ~loopDone /\ UNCHANGED <<wire, loopDone>>
      BY <1>6, <2>2, Zenon DEF Close, CloseBegin, CloseWait
    <3>2. Sink!Shut
      BY <2>1, <2>2, <3>1, Zenon DEF Sink!Shut
    <3> QED BY <3>2, Zenon DEF Sink!SinkNext
  <2>3. CASE closed' = closed
    <3>1. Same
      BY <1>6, <2>1, <2>3 DEF Close, CloseBegin, CloseWait, Same, Fate, SinkVerdict, SinkStatus
    <3> QED BY <3>1, SameStutters, Zenon
  <2> QED BY <1>6, <2>2, <2>3, Zenon DEF Close, CloseBegin, CloseWait
<1>7. CASE UNCHANGED fwVars
  <2>1. Same
    BY <1>7, Zenon DEF fwVars, Same, Fate, SinkVerdict, SinkStatus, FateOf, VerdictOf, OnWire, Queued
  <2> QED BY <2>1, SameStutters, Zenon
<1> QED BY <1>1, <1>2, <1>3, <1>4, <1>5, <1>6, <1>7, Zenon DEF FwNext, FwLoop

\* The frame writer implements the sink the RPC layer relies on: frames are
\* accepted only while it is open, each reaches the wire at most once, a call
\* told "ok" finds its frame there, and the loop stops drained.
THEOREM WriterImplementsSink == FwSpec => ImplementsSink
  BY RefinesInit, RefinesStep, FramesAccountedFor, PTL DEF FwSpec, ImplementsSink, Sink!SinkSpec

-----------------------------------------------------------------------------
(* The agent loop.  The budget properties rest on what CheckTurn           *)
(* established when the turn began and on how little a turn may add before *)
(* the next check; the history property rests on what the tool phase       *)
(* knows about the last assistant message.                                 *)

\* What holds of the counters between the check and the end of the turn.
BudgetInv ==
    /\ WithinBudget
    /\ CompletedHasHeadroom
    /\ step = "llm" => /\ MaxTurns > 0 => used.turns < MaxTurns
                       /\ MaxLLMCalls > 0 => used.llmCalls < MaxLLMCalls
    /\ step \in {"llm", "tools"} => (MaxToolCalls > 0 => used.toolCalls < MaxToolCalls)

\* Every assistant message before the last message is answered.
Answered ==
    \A i \in 1 .. Len(messages) - 1 :
        messages[i].role = "assistant" =>
            /\ messages[i + 1].role = "user"
            /\ messages[i + 1].blocks = messages[i].blocks

HistoryInv ==
    /\ Len(messages) > 0
    /\ step # "end" => Answered
    /\ step \in {"start", "top", "llm", "observe"} => messages[Len(messages)].role = "user"
    /\ step = "tools" =>
          /\ messages[Len(messages)] = [role |-> "assistant", blocks |-> uses]
          /\ Len(results) = idx
          /\ \A j \in 1 .. idx : results[j] = uses[j]

-----------------------------------------------------------------------------
\* A batch of the provider is a sequence of at most MaxBatch signatures.
LEMMA BatchIsSeq ==
  ASSUME NEW b \in Batches
  PROVE  b \in Seq(Sigs) /\ Len(b) \in 0 .. MaxBatch
<1>1. PICK n \in 0 .. MaxBatch : b \in [1 .. n -> Sigs]
  BY Zenon DEF Batches
<1>2. n \in Nat
  BY AnswersAssumption
<1> QED
  BY <1>1, <1>2

\* Every answer carries such a batch.
LEMMA AnswerBatch ==
  ASSUME NEW a \in Answers
  PROVE  a.uses \in Seq(Sigs) /\ Len(a.uses) \in 0 .. MaxBatch
<1>1. a.uses \in Batches
  BY Zenon DEF Answers
<1> QED
  BY <1>1, BatchIsSeq, Zenon

\* Every variable starts with a value of its type.
LEMMA InitTypeOK == Init => TypeOK
<1> SUFFICES ASSUME Init PROVE TypeOK
  BY Zenon
<1>1. messages \in Seq([role : {"user", "assistant"}, blocks : Seq(Sigs)])
  <2>1. [role |-> "user", blocks |-> <<>>] \in [role : {"user", "assistant"}, blocks : Seq(Sigs)]
    OBVIOUS
  <2> QED
    BY <2>1 DEF Init
<1>2. uses \in Seq(Sigs) /\ Len(uses) <= MaxBatch /\ results \in Seq(Sigs) /\ idx \in 0 .. Len(uses)
  BY AnswersAssumption DEF Init
<1> QED
  BY <1>1, <1>2, Zenon DEF Init, TypeOK, Counters, Terminal

\* Charging an answer keeps the counters natural numbers.
LEMMA ChargeTyped ==
  ASSUME used \in Counters, NEW c \in Costs
  PROVE  Charge(c) \in Counters
<1>1. c \in Nat
  BY AnswersAssumption, Zenon
<1>2. used.llmCalls + 1 \in Nat /\ used.cost + c \in Nat /\ used.turns + 1 \in Nat
  BY <1>1 DEF Counters
<1> QED
  BY <1>2, Zenon DEF Charge, Counters

\* Every step keeps the types, and the run's state in agreement with its step.
LEMMA NextTypeOK == TypeOK /\ [Next]_vars => TypeOK'
<1> SUFFICES ASSUME TypeOK, [Next]_vars PROVE TypeOK'
  BY Zenon
<1> USE AnswersAssumption DEF TypeOK, Counters, Terminal, End
<1>1. CASE CtxEnd BY <1>1, Zenon DEF CtxEnd
<1>2. CASE TimeUp BY <1>2, Zenon DEF TimeUp
<1>3. CASE Start BY <1>3, Zenon DEF Start
<1>4. CASE BudgetExhausted BY <1>4, Zenon DEF BudgetExhausted
<1>5. CASE ContextEnded BY <1>5, Zenon DEF ContextEnded
<1>6. CASE CallLLM BY <1>6, Zenon DEF CallLLM
<1>7. CASE LLMError BY <1>7 DEF LLMError
<1>8. CASE AnswerOverBudget
  <2>1. used' \in Counters
    BY <1>8, ChargeTyped, Zenon DEF AnswerOverBudget
  <2> QED
    BY <1>8, <2>1, Zenon DEF AnswerOverBudget
<1>9. CASE AnswerFinal
  <2>1. PICK a \in Answers : messages' = Said(a)
    BY <1>9, Zenon DEF AnswerFinal
  <2>2. messages' \in Seq([role : {"user", "assistant"}, blocks : Seq(Sigs)])
    BY <2>1, AnswerBatch DEF Said
  <2>3. used' \in Counters
    BY <1>9, ChargeTyped, Zenon DEF AnswerFinal
  <2> QED
    BY <1>9, <2>1, <2>2, <2>3, AnswerBatch, Zenon DEF AnswerFinal
<1>10. CASE AnswerTools
  <2>1. PICK a \in Answers : messages' = Said(a) /\ uses' = a.uses
    BY <1>10, Zenon DEF AnswerTools
  <2>2. messages' \in Seq([role : {"user", "assistant"}, blocks : Seq(Sigs)])
    BY <2>1, AnswerBatch DEF Said
  <2>3. used' \in Counters
    BY <1>10, ChargeTyped, Zenon DEF AnswerTools
  <2>4. uses' \in Seq(Sigs) /\ Len(uses') <= MaxBatch /\ idx' \in 0 .. Len(uses')
    BY <1>10, <2>1, AnswerBatch DEF AnswerTools
  <2> QED
    BY <1>10, <2>2, <2>3, <2>4 DEF AnswerTools
<1>11. CASE DispatchTool BY <1>11 DEF DispatchTool
<1>12. CASE ToolsDone
  <2>1. messages' \in Seq([role : {"user", "assistant"}, blocks : Seq(Sigs)])
    BY <1>12 DEF ToolsDone
  <2>2. used.toolCalls + Len(uses) \in Nat
    OBVIOUS
  <2>3. used' \in Counters
    BY <1>12, <2>2, Zenon DEF ToolsDone
  <2> QED
    BY <1>12, <2>1, <2>3 DEF ToolsDone
<1>13. CASE ObserveCall BY <1>13 DEF ObserveCall
<1>14. CASE EndTurn BY <1>14, Zenon DEF EndTurn
<1>15. CASE UNCHANGED vars BY <1>15, Zenon DEF vars
<1> QED
  BY <1>1, <1>2, <1>3, <1>4, <1>5, <1>6, <1>7, <1>8, <1>9, <1>10, <1>11, <1>12, <1>13,
     <1>14, <1>15, Zenon DEF Next, Execute

\* Type correctness of Runner.Execute: every variable stays in its range and
\* the run's state agrees with where the loop is.
THEOREM TypeCorrect == Spec => []TypeOK
  BY InitTypeOK, NextTypeOK, PTL DEF Spec

-----------------------------------------------------------------------------
\* What a turn adds to the counters before the next check.
LEMMA NextBudgetInv == TypeOK /\ BudgetInv /\ [Next]_vars => BudgetInv'
<1> SUFFICES ASSUME TypeOK, BudgetInv, [Next]_vars PROVE BudgetInv'
  BY Zenon
<1> USE AnswersAssumption, LimitsAssumption
        DEF TypeOK, Counters, BudgetInv, WithinBudget, CompletedHasHeadroom, Exhausted,
            End, Terminal
<1>1. CASE CtxEnd BY <1>1, Zenon DEF CtxEnd
<1>2. CASE TimeUp BY <1>2, Zenon DEF TimeUp
<1>3. CASE Start BY <1>3, Zenon DEF Start
<1>4. CASE BudgetExhausted BY <1>4, Zenon DEF BudgetExhausted
<1>5. CASE ContextEnded BY <1>5, Zenon DEF ContextEnded
<1>6. CASE CallLLM BY <1>6 DEF CallLLM, CheckTurn
<1>7. CASE LLMError BY <1>7 DEF LLMError
<1>8. CASE AnswerOverBudget BY <1>8 DEF AnswerOverBudget, Charge
<1>9. CASE AnswerFinal BY <1>9 DEF AnswerFinal, Charge, CheckCost
<1>10. CASE AnswerTools BY <1>10 DEF AnswerTools, Charge, CheckCost
<1>11. CASE DispatchTool BY <1>11, Zenon DEF DispatchTool
<1>12. CASE ToolsDone BY <1>12 DEF ToolsDone
<1>13. CASE ObserveCall BY <1>13, Zenon DEF ObserveCall
<1>14. CASE EndTurn BY <1>14, Zenon DEF EndTurn
<1>15. CASE UNCHANGED vars BY <1>15, Zenon DEF vars
<1> QED
  BY <1>1, <1>2, <1>3, <1>4, <1>5, <1>6, <1>7, <1>8, <1>9, <1>10, <1>11, <1>12, <1>13,
     <1>14, <1>15, Zenon DEF Next, Execute

\* Execute begins with nothing used.
LEMMA InitBudgetInv == Init => BudgetInv
  BY AnswersAssumption, LimitsAssumption
     DEF Init, BudgetInv, WithinBudget, CompletedHasHeadroom, Exhausted

\* The run stays within its budget (Runner.Execute with CheckTurn and CheckCost):
\* turns and LLM calls never exceed their limits, tool calls exceed theirs by
\* less than one batch, for every choice of limits.
THEOREM BudgetRespected == Spec => []WithinBudget
<1>1. BudgetInv => WithinBudget
  BY Zenon DEF BudgetInv
<1> QED
  BY <1>1, InitTypeOK, NextTypeOK, InitBudgetInv, NextBudgetInv, PTL DEF Spec

\* A completed run has headroom left on the cost and LLM-call axes.
THEOREM CompletionWithHeadroom == Spec => []CompletedHasHeadroom
<1>1. BudgetInv => CompletedHasHeadroom
  BY Zenon DEF BudgetInv
<1> QED
  BY <1>1, InitTypeOK, NextTypeOK, InitBudgetInv, NextBudgetInv, PTL DEF Spec

-----------------------------------------------------------------------------
\* Execute begins with a history without tool calls.
LEMMA InitHistoryInv == Init => HistoryInv
  BY DEF Init, HistoryInv, Answered

\* Two sequences with the same elements are one.
LEMMA SameElements ==
  ASSUME NEW S, NEW s \in Seq(S), NEW t \in Seq(S), Len(s) = Len(t),
         \A i \in 1 .. Len(t) : s[i] = t[i]
  PROVE  s = t
OBVIOUS

\* Appending a message keeps the earlier ones answered when the last one was a
\* user message, or an assistant message that the new one answers.
LEMMA AppendAnswered ==
  ASSUME NEW M, messages \in Seq(M), NEW m \in M, messages' = Append(messages, m),
         Len(messages) > 0, Answered,
         \/ messages[Len(messages)].role = "user"
         \/ m.role = "user" /\ m.blocks = messages[Len(messages)].blocks
  PROVE  /\ Answered'
         /\ Len(messages') = Len(messages) + 1
         /\ messages'[Len(messages')] = m
<1>1. /\ Len(messages') = Len(messages) + 1
      /\ \A i \in 1 .. Len(messages) : messages'[i] = messages[i]
      /\ messages'[Len(messages) + 1] = m
  OBVIOUS
<1>2. SUFFICES ASSUME NEW i \in 1 .. Len(messages), messages'[i].role = "assistant"
               PROVE  messages'[i + 1].role = "user" /\ messages'[i + 1].blocks = messages'[i].blocks
  BY <1>1 DEF Answered
<1>3. CASE i = Len(messages)
  BY <1>1, <1>2, <1>3, Zenon
<1>4. CASE i < Len(messages)
  <2>1. i \in 1 .. Len(messages) - 1 /\ i + 1 \in 1 .. Len(messages)
    BY <1>4
  <2> QED
    BY <1>1, <1>2, <2>1, Zenon DEF Answered
<1> QED
  BY <1>3, <1>4

\* The history is paired after every step of the loop.
LEMMA NextHistoryInv == TypeOK /\ TypeOK' /\ HistoryInv /\ [Next]_vars => HistoryInv'
<1> SUFFICES ASSUME TypeOK, TypeOK', HistoryInv, [Next]_vars PROVE HistoryInv'
  BY Zenon
<1> DEFINE M == [role : {"user", "assistant"}, blocks : Seq(Sigs)]
<1>0. messages \in Seq(M) /\ messages' \in Seq(M)
  BY Zenon DEF TypeOK
<1> HIDE DEF M
<1>a. ASSUME UNCHANGED <<messages, uses, results, idx>>,
             step' = "end" \/ (step' = step) \/ (step \in {"start", "top", "observe"} /\ step' \in {"top", "llm"})
      PROVE  HistoryInv'
  BY <1>a, Zenon DEF HistoryInv, Answered
<1>1. CASE CtxEnd BY <1>1, <1>a, Zenon DEF CtxEnd
<1>2. CASE TimeUp BY <1>2, <1>a, Zenon DEF TimeUp
<1>3. CASE Start BY <1>3, <1>a, Zenon DEF Start
<1>4. CASE BudgetExhausted BY <1>4, <1>a, Zenon DEF BudgetExhausted, End
<1>5. CASE ContextEnded BY <1>5, <1>a, Zenon DEF ContextEnded, End
<1>6. CASE CallLLM BY <1>6, <1>a, Zenon DEF CallLLM
<1>7. CASE LLMError BY <1>7, <1>a, Zenon DEF LLMError, End
<1>8. CASE AnswerOverBudget BY <1>8, <1>a, Zenon DEF AnswerOverBudget, End
<1>9. CASE AnswerFinal
  <2>1. step' = "end" /\ Len(messages') > 0
    BY <1>9, <1>0 DEF AnswerFinal, Said, End
  <2> QED
    BY <2>1, Zenon DEF HistoryInv
<1>10. CASE AnswerTools
  <2>1. PICK a \in Answers : messages' = Said(a) /\ uses' = a.uses
    BY <1>10, Zenon DEF AnswerTools
  <2>2. [role |-> "assistant", blocks |-> a.uses] \in M
    BY AnswerBatch, Zenon DEF M
  <2>3. step = "llm" /\ step' = "tools" /\ idx' = 0 /\ results' = <<>>
    BY <1>10, Zenon DEF AnswerTools
  <2>4. /\ Answered' /\ Len(messages') = Len(messages) + 1
        /\ messages'[Len(messages')] = [role |-> "assistant", blocks |-> a.uses]
    <3>1. Len(messages) > 0 /\ Answered /\ messages[Len(messages)].role = "user"
      BY <2>3, Zenon DEF HistoryInv
    <3>2. messages' = Append(messages, [role |-> "assistant", blocks |-> a.uses])
      BY <2>1, Zenon DEF Said
    <3> QED
      BY <1>0, <2>2, <3>1, <3>2, AppendAnswered, Zenon
  <2> QED
    BY <1>0, <2>1, <2>3, <2>4 DEF HistoryInv
<1>11. CASE DispatchTool
  <2>1. /\ step = "tools" /\ step' = "tools" /\ UNCHANGED <<messages, uses>>
        /\ idx' = idx + 1 /\ results' = Append(results, uses[idx + 1])
    BY <1>11, Zenon DEF DispatchTool
  <2>2. results \in Seq(Sigs) /\ uses[idx + 1] \in Sigs /\ idx \in Nat
    BY <1>11 DEF DispatchTool, TypeOK
  <2>3. Len(results) = idx /\ \A j \in 1 .. idx : results[j] = uses[j]
    BY <2>1, Zenon DEF HistoryInv
  <2>4. Len(results') = idx' /\ \A j \in 1 .. idx' : results'[j] = uses'[j]
    BY <2>1, <2>2, <2>3
  <2> QED
    BY <2>1, <2>4, Zenon DEF HistoryInv, Answered
<1>12. CASE ToolsDone
  <2>1. /\ step = "tools" /\ idx = Len(uses) /\ step' \in {"observe", "top"}
        /\ messages' = Append(messages, [role |-> "user", blocks |-> results])
    BY <1>12, Zenon DEF ToolsDone
  <2>2. results = uses
    <3>1. results \in Seq(Sigs) /\ uses \in Seq(Sigs)
      BY Zenon DEF TypeOK
    <3>2. Len(results) = Len(uses) /\ \A j \in 1 .. Len(uses) : results[j] = uses[j]
      BY <2>1, Zenon DEF HistoryInv
    <3> QED
      BY <3>1, <3>2, SameElements, Zenon
  <2>3. /\ Len(messages) > 0 /\ Answered
        /\ messages[Len(messages)] = [role |-> "assistant", blocks |-> uses]
    BY <2>1, Zenon DEF HistoryInv
  <2>4. [role |-> "user", blocks |-> results] \in M
    BY Zenon DEF M, TypeOK
  <2>5. /\ Answered'
        /\ Len(messages') = Len(messages) + 1
        /\ messages'[Len(messages')] = [role |-> "user", blocks |-> results]
    <3> DEFINE m == [role |-> "user", blocks |-> results]
    <3>1. m.role = "user" /\ m.blocks = messages[Len(messages)].blocks
      BY <2>2, <2>3
    <3>2. messages' = Append(messages, m) /\ m \in M
      BY <2>1, <2>4, Zenon
    <3> HIDE DEF m
    <3>3. Answered' /\ Len(messages') = Len(messages) + 1 /\ messages'[Len(messages')] = m
      BY <1>0, <2>3, <3>1, <3>2, AppendAnswered, Zenon
    <3> QED BY <3>3, Zenon DEF m
  <2> QED
    BY <1>0, <2>1, <2>5 DEF HistoryInv
<1>13. CASE ObserveCall
  <2>1. UNCHANGED messages /\ step = "observe" /\ step' \in {"observe", "end"}
    BY <1>13, Zenon DEF ObserveCall, End
  <2> QED
    BY <2>1, Zenon DEF HistoryInv, Answered
<1>14. CASE EndTurn BY <1>14, <1>a, Zenon DEF EndTurn
<1>15. CASE UNCHANGED vars BY <1>15, <1>a, Zenon DEF vars
<1> QED
  BY <1>1, <1>2, <1>3, <1>4, <1>5, <1>6, <1>7, <1>8, <1>9, <1>10, <1>11, <1>12, <1>13,
     <1>14, <1>15, Zenon DEF Next, Execute

\* Every request to the provider carries a history in which each tool_use is
\* answered by its own results in the message after it (dispatchTools appends
\* one result per block on every path).
THEOREM RequestsArePaired == Spec => []HistoryPaired
<1>1. HistoryInv => HistoryPaired
  BY Zenon DEF HistoryInv, Answered, HistoryPaired
<1> QED
  BY <1>1, InitTypeOK, NextTypeOK, InitHistoryInv, NextHistoryInv, PTL DEF Spec

-----------------------------------------------------------------------------
(* The run manager of `brain serve'.                                       *)

(***************************************************************************)
(* What the three views of a run and the handlers say of each other.        *)
(*   - A run has an executor only once its handler launched it.             *)
(*   - The loop's outcome is a final state when the record is written.      *)
(*   - The executor's entry says "running" until it is told the outcome.    *)
(*   - A DELETE handler past its lookup holds an entry: the executor's, its *)
(*     own copy, or a copy another handler has published; a copy says       *)
(*     "running" only before its own handler has marked it.                 *)
(*   - Once Shutdown has returned in time, no handler is at work, and once  *)
(*     wait has returned in time no executor is.                            *)
(***************************************************************************)
ExecutorInv ==
  \A r \in Runs :
    /\ handler[r] # "launched" => exec[r] = "none" /\ entry[r] = "none"
    /\ exec[r] \in {"final", "finish"} => outcome[r] \in Final
    /\ exec[r] \in {"entry", "publish", "release", "done"} => outcome[r] # "none"
    /\ entry[r] = "running" => exec[r] \in Unwritten \cup {"entry"}

Settled(d) == cancel[d].pc \in {"store", "publish", "answered"} /\ copy[d] # "running"

CopiesInv ==
  /\ \A c \in Cancels : cancel[c].pc # "idle" =>
       /\ cancel[c].run \in Runs /\ cancel[c].obj \in {"own"} \cup Cancels
       /\ cancel[c].obj \in Cancels \ {c} => Settled(cancel[c].obj)
       /\ cancel[c].obj = c /\ cancel[c].pc # "mark" => Settled(c)
  /\ \A r \in Runs : inMap[r] \in Cancels => Settled(inMap[r])

ClosedInv ==
  /\ server.pc \in {"closed", "sweeping", "waiting", "drained"} /\ ~server.timedOut => HandlersIdle
  /\ server.pc = "drained" => \A r \in Runs : exec[r] \notin Executing

ServeInv == SvTypeOK /\ ExecutorInv /\ CopiesInv /\ ClosedInv

-----------------------------------------------------------------------------
CancelState ==
  [pc: {"idle", "mark", "store", "publish", "answered"}, run: Runs \cup {"none"},
   obj: {"none", "own"} \cup Cancels, status: Status]

\* A handler that has marked its entry is a handler.
LEMMA MarkedStateTyped ==
  ASSUME NEW x \in CancelState, NEW m \in Status
  PROVE  [x EXCEPT !.pc = "store", !.status = m] \in CancelState
<1>1. [x EXCEPT !.pc = "store"] \in CancelState
  BY Zenon DEF CancelState
<1>2. \A y \in CancelState : [y EXCEPT !.status = m] \in CancelState
  BY Zenon DEF CancelState
<1> QED BY <1>1, <1>2, Zenon

MarkTyped(r, obj) ==
  /\ entry' \in [Runs -> Status] /\ copy' \in [Cancels -> Status] /\ ended' \in [Runs -> BOOLEAN]

\* markCancelled changes a status to "cancelled" or leaves it.
LEMMA MarkKeepsTypes ==
  ASSUME SvTypeOK, NEW r \in Runs, NEW obj \in {"own"} \cup Cancels, MarkCancelled(r, obj)
  PROVE  MarkTyped(r, obj) /\ MarkedStatus(r, obj) \in Status
<1> USE ServeAssumption DEF SvTypeOK, Status, Final
<1>1. CASE obj = "own"
  <2>1. CASE entry[r] = "running"
    <3>1. /\ entry' = [entry EXCEPT ![r] = "cancelled"] /\ copy' = copy
          /\ ended' = [ended EXCEPT ![r] = TRUE] /\ MarkedStatus(r, obj) = "cancelled"
      BY <1>1, <2>1, Zenon DEF MarkCancelled, MarkedStatus, EntryStatus
    <3>2. MarkTyped(r, obj)
      BY <3>1, Zenon DEF MarkTyped
    <3> QED BY <3>1, <3>2, Zenon
  <2>2. CASE entry[r] # "running"
    BY <1>1, <2>2 DEF MarkCancelled, MarkTyped, MarkedStatus, EntryStatus
  <2> QED BY <2>1, <2>2, Zenon
<1>2. CASE obj \in Cancels
  BY <1>2 DEF MarkCancelled, MarkTyped, MarkedStatus, EntryStatus
<1> QED BY <1>1, <1>2, Zenon

\* The variables keep their types; the counter of slots stays between zero and
\* the configured maximum.
LEMMA SvTypeStep == SvTypeOK /\ ExecutorInv /\ CopiesInv /\ [SvNext]_svVars => SvTypeOK'
<1> SUFFICES ASSUME SvTypeOK, ExecutorInv, CopiesInv, [SvNext]_svVars PROVE SvTypeOK'
  BY Zenon
<1> USE ServeAssumption DEF SvTypeOK, Status, Final, Executing, Unwritten
<1>1. ASSUME NEW r \in Runs, Reserve(r) PROVE SvTypeOK'
  BY <1>1 DEF Reserve
<1>2. ASSUME NEW r \in Runs, Reject(r) PROVE SvTypeOK'
  BY <1>2, Zenon DEF Reject
<1>3. ASSUME NEW r \in Runs, Deadline(r) PROVE SvTypeOK'
  BY <1>3, Zenon DEF Deadline
<1>4. ASSUME NEW r \in Runs, CreateOk(r) PROVE SvTypeOK'
  BY <1>4, Zenon DEF CreateOk
<1>5. ASSUME NEW r \in Runs, CreateFail(r) PROVE SvTypeOK'
  BY <1>5 DEF CreateFail, Fault, Released
<1>6. ASSUME NEW r \in Runs, Launch(r) PROVE SvTypeOK'
  BY <1>6, Zenon DEF Launch
<1>7. ASSUME NEW r \in Runs, StartCheckpoint(r) PROVE SvTypeOK'
  BY <1>7, Zenon DEF StartCheckpoint, Go
<1>8. ASSUME NEW r \in Runs, SaveFinal(r) PROVE SvTypeOK'
  BY <1>8, Zenon DEF SaveFinal, Go
<1>9. ASSUME NEW r \in Runs, SaveFault(r) PROVE SvTypeOK'
  BY <1>9, Zenon DEF SaveFault, Go, Fault
<1>10. ASSUME NEW r \in Runs, Finish(r) PROVE SvTypeOK'
  BY <1>10, Zenon DEF Finish, Go, ExecutorInv
<1>11. ASSUME NEW r \in Runs, FinishFault(r) PROVE SvTypeOK'
  BY <1>11, Zenon DEF FinishFault, Go, Fault, ExecutorInv
<1>12. ASSUME NEW r \in Runs, EntryFinish(r) PROVE SvTypeOK'
  BY <1>12, Zenon DEF EntryFinish, Go, FinishedStatus
<1>13. ASSUME NEW r \in Runs, Publish(r) PROVE SvTypeOK'
  BY <1>13, Zenon DEF Publish, Go
<1>14. ASSUME NEW r \in Runs, Release(r) PROVE SvTypeOK'
  BY <1>14 DEF Release, Go, Released
<1>15. ASSUME NEW r \in Runs, SvLoop(r) PROVE SvTypeOK'
  BY <1>15 DEF SvLoop, Go
<1>16. ASSUME NEW r \in Runs, SweepMark(r) PROVE SvTypeOK'
  <2>1. MarkTyped(r, inMap[r])
    BY <1>16, MarkKeepsTypes, Zenon DEF SweepMark
  <2> QED BY <1>16, <2>1, Zenon DEF SweepMark, MarkTyped
<1>17. ASSUME NEW r \in Runs, SweepStore(r) PROVE SvTypeOK'
  BY <1>17, Zenon DEF SweepStore
<1>18. ASSUME NEW c \in Cancels, CancelGet(c) PROVE SvTypeOK'
  BY <1>18 DEF CancelGet
<1>19. ASSUME NEW c \in Cancels, CancelMark(c) PROVE SvTypeOK'
  <2>1. MarkTyped(cancel[c].run, cancel[c].obj) /\ MarkedStatus(cancel[c].run, cancel[c].obj) \in Status
    BY <1>19, MarkKeepsTypes, Zenon DEF CancelMark, CopiesInv
  <2>4. PICK m : m = MarkedStatus(cancel[c].run, cancel[c].obj)
    BY Zenon
  <2>3. cancel' = [cancel EXCEPT ![c] = [cancel[c] EXCEPT !.pc = "store", !.status = m]]
    BY <1>19, <2>4, Zenon DEF CancelMark
  <2>5. [cancel[c] EXCEPT !.pc = "store", !.status = m] \in CancelState
    <3>1. cancel[c] \in CancelState
      BY Zenon DEF CancelState
    <3>2. m \in Status
      BY <2>1, <2>4, Zenon
    <3> QED BY <3>1, <3>2, MarkedStateTyped, Zenon
  <2>2. cancel' \in [Cancels -> CancelState]
    BY <2>3, <2>5, Zenon DEF CancelState
  <2> QED BY <1>19, <2>1, <2>2, Zenon DEF CancelMark, MarkTyped, CancelState
<1>20. ASSUME NEW c \in Cancels, CancelStore(c) PROVE SvTypeOK'
  <2>1. cancel' \in [Cancels -> CancelState]
    BY <1>20 DEF CancelStore, CancelState
  <2> QED BY <1>20, <2>1, Zenon DEF CancelStore, CancelState
<1>21. ASSUME NEW c \in Cancels, CancelPublish(c) PROVE SvTypeOK'
  <2>1. cancel' \in [Cancels -> CancelState]
    BY <1>21 DEF CancelPublish, CancelState
  <2>2. inMap' \in [Runs -> {"none", "own"} \cup Cancels]
    BY <1>21, <2>1, Zenon DEF CancelPublish, CopiesInv
  <2> QED BY <1>21, <2>1, <2>2, Zenon DEF CancelPublish, CancelState
<1>22. CASE Signal
  BY <1>22, Zenon DEF Signal
<1>23. CASE ShutdownReturns
  <2>1. CASE server' = [server EXCEPT !.pc = "closed"]
    BY <1>23, <2>1, Zenon DEF ShutdownReturns
  <2>2. CASE server' = [pc |-> "closed", timedOut |-> TRUE]
    BY <1>23, <2>2, Zenon DEF ShutdownReturns
  <2> QED BY <1>23, <2>1, <2>2, Zenon DEF ShutdownReturns
<1>24. CASE CancelRoot
  BY <1>24, Zenon DEF CancelRoot
<1>25. CASE SweepEnd
  BY <1>25, Zenon DEF SweepEnd
<1>26. CASE WaitDone
  BY <1>26, Zenon DEF WaitDone
<1>27. CASE WaitTimeout
  BY <1>27, Zenon DEF WaitTimeout
<1>28. CASE UNCHANGED svVars
  BY <1>28, Zenon DEF svVars
<1> QED BY <1>1, <1>2, <1>3, <1>4, <1>5, <1>6, <1>7, <1>8, <1>9, <1>10, <1>11, <1>12, <1>13, <1>14, <1>15, <1>16, <1>17, <1>18, <1>19, <1>20, <1>21, <1>22, <1>23, <1>24, <1>25, <1>26, <1>27, <1>28, Zenon
     DEF SvNext, PostStep, ExecStep, DeleteStep, ServerStep

\* The executor's part of the invariant.
LEMMA ExecutorStep == SvTypeOK /\ CopiesInv /\ ExecutorInv /\ [SvNext]_svVars => ExecutorInv'
<1> SUFFICES ASSUME SvTypeOK, CopiesInv, ExecutorInv, [SvNext]_svVars PROVE ExecutorInv'
  BY Zenon
<1> USE ServeAssumption DEF SvTypeOK, ExecutorInv, Final, Executing, Unwritten, Up
<1>1. ASSUME NEW r \in Runs, Reserve(r) PROVE ExecutorInv'
  BY <1>1, Zenon DEF Reserve
<1>2. ASSUME NEW r \in Runs, Reject(r) PROVE ExecutorInv'
  BY <1>2, Zenon DEF Reject
<1>3. ASSUME NEW r \in Runs, Deadline(r) PROVE ExecutorInv'
  BY <1>3, Zenon DEF Deadline
<1>4. ASSUME NEW r \in Runs, CreateOk(r) PROVE ExecutorInv'
  BY <1>4, Zenon DEF CreateOk
<1>5. ASSUME NEW r \in Runs, CreateFail(r) PROVE ExecutorInv'
  BY <1>5, Zenon DEF CreateFail, Fault, Released
<1>6. ASSUME NEW r \in Runs, Launch(r) PROVE ExecutorInv'
  BY <1>6 DEF Launch
<1>7. ASSUME NEW r \in Runs, StartCheckpoint(r) PROVE ExecutorInv'
  BY <1>7 DEF StartCheckpoint, Go
<1>8. ASSUME NEW r \in Runs, SaveFinal(r) PROVE ExecutorInv'
  BY <1>8 DEF SaveFinal, Go
<1>9. ASSUME NEW r \in Runs, SaveFault(r) PROVE ExecutorInv'
  BY <1>9 DEF SaveFault, Go, Fault
<1>10. ASSUME NEW r \in Runs, Finish(r) PROVE ExecutorInv'
  BY <1>10 DEF Finish, Go
<1>11. ASSUME NEW r \in Runs, FinishFault(r) PROVE ExecutorInv'
  BY <1>11 DEF FinishFault, Go, Fault
<1>12. ASSUME NEW r \in Runs, EntryFinish(r) PROVE ExecutorInv'
  BY <1>12 DEF EntryFinish, Go, FinishedStatus
<1>13. ASSUME NEW r \in Runs, Publish(r) PROVE ExecutorInv'
  BY <1>13 DEF Publish, Go
<1>14. ASSUME NEW r \in Runs, Release(r) PROVE ExecutorInv'
  BY <1>14 DEF Release, Go, Released
<1>15. ASSUME NEW r \in Runs, SvLoop(r) PROVE ExecutorInv'
  BY <1>15 DEF SvLoop, Go
<1>16. ASSUME NEW r \in Runs, SweepMark(r) PROVE ExecutorInv'
  BY <1>16 DEF SweepMark, MarkCancelled, MarkedStatus, EntryStatus
<1>17. ASSUME NEW r \in Runs, SweepStore(r) PROVE ExecutorInv'
  BY <1>17, Zenon DEF SweepStore
<1>18. ASSUME NEW c \in Cancels, CancelGet(c) PROVE ExecutorInv'
  BY <1>18, Zenon DEF CancelGet
<1>19. ASSUME NEW c \in Cancels, CancelMark(c) PROVE ExecutorInv'
  BY <1>19 DEF CancelMark, MarkCancelled, MarkedStatus, EntryStatus
<1>20. ASSUME NEW c \in Cancels, CancelStore(c) PROVE ExecutorInv'
  BY <1>20, Zenon DEF CancelStore
<1>21. ASSUME NEW c \in Cancels, CancelPublish(c) PROVE ExecutorInv'
  BY <1>21, Zenon DEF CancelPublish
<1>22. CASE Signal
  BY <1>22, Zenon DEF Signal
<1>23. CASE ShutdownReturns
  BY <1>23, Zenon DEF ShutdownReturns
<1>24. CASE CancelRoot
  BY <1>24, Zenon DEF CancelRoot
<1>25. CASE SweepEnd
  BY <1>25, Zenon DEF SweepEnd
<1>26. CASE WaitDone
  BY <1>26, Zenon DEF WaitDone
<1>27. CASE WaitTimeout
  BY <1>27, Zenon DEF WaitTimeout
<1>28. CASE UNCHANGED svVars
  BY <1>28, Zenon DEF svVars
<1> QED BY <1>1, <1>2, <1>3, <1>4, <1>5, <1>6, <1>7, <1>8, <1>9, <1>10, <1>11, <1>12, <1>13, <1>14, <1>15, <1>16, <1>17, <1>18, <1>19, <1>20, <1>21, <1>22, <1>23, <1>24, <1>25, <1>26, <1>27, <1>28, Zenon
     DEF SvNext, PostStep, ExecStep, DeleteStep, ServerStep

\* The DELETE handlers' part.  Only Launch, Publish, the handlers themselves and
\* the sweep touch an entry object of theirs or the map.
LEMMA CopiesStep == SvTypeOK /\ CopiesInv /\ [SvNext]_svVars => CopiesInv'
<1> SUFFICES ASSUME SvTypeOK, CopiesInv, [SvNext]_svVars PROVE CopiesInv'
  BY Zenon
<1> USE ServeAssumption DEF CopiesInv, Settled
<1>1. CASE UNCHANGED <<cancel, copy, inMap>>
  BY <1>1, Zenon
<1>2. ASSUME NEW r \in Runs, UNCHANGED <<cancel, copy>>, inMap' = [inMap EXCEPT ![r] = "own"] PROVE CopiesInv'
  BY <1>2, Zenon DEF SvTypeOK
<1>3. ASSUME NEW r \in Runs, SweepMark(r) PROVE CopiesInv'
  <2>1. UNCHANGED copy
    BY <1>3, Zenon DEF SweepMark, MarkCancelled, EntryStatus, SvTypeOK
  <2> QED BY <1>1, <1>3, <2>1, Zenon DEF SweepMark
<1>4. ASSUME NEW c \in Cancels, CancelGet(c) PROVE CopiesInv'
  <2>1. PICK r \in Runs :
          /\ cancel' = [cancel EXCEPT ![c] = [pc |-> "mark", run |-> r,
                          obj |-> IF inMap[r] = "none" THEN c ELSE inMap[r], status |-> "none"]]
          /\ copy' = IF inMap[r] = "none" THEN [copy EXCEPT ![c] = rec[r]] ELSE copy
    BY <1>4, Zenon DEF CancelGet
  <2>2. cancel[c].pc = "idle" /\ UNCHANGED inMap
    BY <1>4, Zenon DEF CancelGet
  <2>3. \A d \in Cancels : Settled(d) => d # c /\ Settled(d)'
    BY <2>1, <2>2, Zenon DEF SvTypeOK
  <2>4. \A d \in Cancels \ {c} : cancel'[d] = cancel[d]
    BY <2>1, Zenon DEF SvTypeOK
  <2>5. cancel'[c].pc = "mark" /\ cancel'[c].run = r
        /\ cancel'[c].obj = IF inMap[r] = "none" THEN c ELSE inMap[r]
    BY <2>1, Zenon DEF SvTypeOK
  <2>6. inMap[r] \in {"none", "own"} \cup Cancels
    BY Zenon DEF SvTypeOK
  <2> HIDE DEF Settled
  <2> QED BY <2>2, <2>3, <2>4, <2>5, <2>6, Zenon
<1>5. ASSUME NEW c \in Cancels, CancelMark(c) PROVE CopiesInv'
  <2>1. cancel[c].pc = "mark" /\ UNCHANGED inMap
    BY <1>5, Zenon DEF CancelMark
  <2>2. cancel'[c].pc = "store" /\ cancel'[c].run = cancel[c].run /\ cancel'[c].obj = cancel[c].obj
    BY <1>5 DEF CancelMark, SvTypeOK
  <2>3. \A d \in Cancels \ {c} : cancel'[d] = cancel[d]
    BY <1>5, Zenon DEF CancelMark, SvTypeOK
  <2>4. \A d \in Cancels : copy'[d] = copy[d] \/ copy'[d] = "cancelled"
    BY <1>5, Zenon DEF CancelMark, MarkCancelled, SvTypeOK
  <2>5. cancel[c].obj = c => copy'[c] # "running"
    BY <1>5 DEF CancelMark, MarkCancelled, EntryStatus, SvTypeOK
  <2>6. \A d \in Cancels : Settled(d) => Settled(d)'
    BY <2>2, <2>3, <2>4, Zenon
  <2>7. cancel[c].obj = c => Settled(c)'
    BY <2>2, <2>5, Zenon
  <2> HIDE DEF Settled
  <2> QED BY <2>1, <2>2, <2>3, <2>6, <2>7, Zenon
<1>6. ASSUME NEW c \in Cancels, CancelStore(c) \/ CancelPublish(c) PROVE CopiesInv'
  <2>1. cancel[c].pc \in {"store", "publish"} /\ UNCHANGED copy
    BY <1>6, Zenon DEF CancelStore, CancelPublish
  <2>2. cancel'[c].pc \in {"publish", "answered"} /\ cancel'[c].run = cancel[c].run /\ cancel'[c].obj = cancel[c].obj
    BY <1>6 DEF CancelStore, CancelPublish, SvTypeOK
  <2>3. \A d \in Cancels \ {c} : cancel'[d] = cancel[d]
    BY <1>6, Zenon DEF CancelStore, CancelPublish, SvTypeOK
  <2>4. \A d \in Cancels : Settled(d) => Settled(d)'
    BY <2>1, <2>2, <2>3, Zenon
  <2>5. \A r \in Runs : inMap'[r] = inMap[r] \/ inMap'[r] = cancel[c].obj
    BY <1>6, Zenon DEF CancelStore, CancelPublish, SvTypeOK
  <2>6. cancel[c].obj \in Cancels => Settled(cancel[c].obj)
    BY <2>1, Zenon
  <2> HIDE DEF Settled
  <2> QED BY <2>1, <2>2, <2>3, <2>4, <2>5, <2>6, Zenon
<1> QED
  <2>1. ASSUME NEW r \in Runs, Launch(r) \/ Publish(r) PROVE CopiesInv'
    BY <1>2, <2>1, Zenon DEF Launch, Publish
  <2>2. ASSUME NEW r \in Runs,
               \/ Reserve(r) \/ Reject(r) \/ Deadline(r) \/ CreateOk(r) \/ CreateFail(r) \/ StartCheckpoint(r)
               \/ SaveFinal(r) \/ SaveFault(r) \/ Finish(r) \/ FinishFault(r) \/ EntryFinish(r) \/ Release(r)
               \/ SvLoop(r) \/ SweepStore(r)
        PROVE  CopiesInv'
    <3>1. UNCHANGED <<cancel, copy, inMap>>
      BY <2>2, Zenon DEF Reserve, Reject, Deadline, CreateOk, CreateFail, StartCheckpoint, SaveFinal, SaveFault, Finish,
           FinishFault, EntryFinish, Release, SvLoop, SweepStore
    <3> QED BY <1>1, <3>1, Zenon
  <2>3. CASE Signal \/ ShutdownReturns \/ CancelRoot \/ SweepEnd \/ WaitDone \/ WaitTimeout \/ UNCHANGED svVars
    <3>1. UNCHANGED <<cancel, copy, inMap>>
      BY <2>3, Zenon DEF Signal, ShutdownReturns, CancelRoot, SweepEnd, WaitDone, WaitTimeout, svVars
    <3> QED BY <1>1, <3>1, Zenon
  <2> HIDE DEF CopiesInv
  <2> QED BY <1>3, <1>4, <1>5, <1>6, <2>1, <2>2, <2>3, Zenon DEF SvNext, PostStep, ExecStep, DeleteStep, ServerStep

\* The shutdown's part: no handler begins once the server has left "serving",
\* and no executor moves once it is drained.
LEMMA ClosedStep == SvTypeOK /\ ClosedInv /\ [SvNext]_svVars => ClosedInv'
<1> SUFFICES ASSUME SvTypeOK, ClosedInv, [SvNext]_svVars PROVE ClosedInv'
  BY Zenon
<1> USE ServeAssumption DEF SvTypeOK, ClosedInv, HandlersIdle, Up
<1>1. CASE UNCHANGED <<handler, exec, cancel, server>>
  BY <1>1, Zenon
<1>2. ASSUME NEW r \in Runs, \/ Reserve(r) \/ Reject(r) \/ CreateOk(r) \/ CreateFail(r) \/ Launch(r) PROVE ClosedInv'
  BY <1>2, Zenon DEF Reserve, Reject, CreateOk, CreateFail, Launch
<1>3. ASSUME NEW r \in Runs,
             \/ StartCheckpoint(r) \/ SaveFinal(r) \/ SaveFault(r) \/ Finish(r) \/ FinishFault(r) \/ EntryFinish(r)
             \/ Publish(r) \/ Release(r) \/ SvLoop(r)
      PROVE  ClosedInv'
  <2>1. server.pc # "drained" /\ UNCHANGED <<handler, cancel, server>>
    BY <1>3, Zenon DEF StartCheckpoint, SaveFinal, SaveFault, Finish, FinishFault, EntryFinish, Publish, Release, SvLoop, Go
  <2> QED BY <2>1, Zenon
<1>4. ASSUME NEW c \in Cancels, CancelGet(c) PROVE ClosedInv'
  BY <1>4, Zenon DEF CancelGet
<1>5. ASSUME NEW c \in Cancels, CancelMark(c) \/ CancelStore(c) \/ CancelPublish(c) PROVE ClosedInv'
  <2>1. cancel[c].pc \notin {"idle", "answered"} /\ Up /\ UNCHANGED <<handler, exec, server>>
    BY <1>5, Zenon DEF CancelMark, CancelStore, CancelPublish
  <2> QED BY <2>1, Zenon
<1>6. CASE Signal \/ CancelRoot \/ SweepEnd \/ WaitTimeout
  BY <1>6 DEF Signal, CancelRoot, SweepEnd, WaitTimeout
<1>7. CASE ShutdownReturns
  <2>1. server'.pc = "closed" /\ (server'.timedOut \/ HandlersIdle) /\ UNCHANGED <<handler, cancel>>
    BY <1>7 DEF ShutdownReturns
  <2> QED BY <2>1, Zenon
<1>8. CASE WaitDone
  BY <1>8, Zenon DEF WaitDone
<1> QED
  <2>1. ASSUME NEW r \in Runs, Deadline(r) \/ SweepMark(r) \/ SweepStore(r) PROVE ClosedInv'
    BY <1>1, <2>1, Zenon DEF Deadline, SweepMark, SweepStore
  <2>2. CASE UNCHANGED svVars
    BY <1>1, <2>2, Zenon DEF svVars
  <2> HIDE DEF ClosedInv
  <2> QED BY <1>2, <1>3, <1>4, <1>5, <1>6, <1>7, <1>8, <2>1, <2>2, Zenon DEF SvNext, PostStep, ExecStep, DeleteStep, ServerStep

\* The server starts without runs.
LEMMA ServeInit == SvInit => ServeInv
<1> SUFFICES ASSUME SvInit PROVE ServeInv
  BY Zenon
<1> USE ServeAssumption DEF SvInit, IdleCancel, Status, Final, Unwritten, Executing
<1>1. SvTypeOK
  BY DEF SvTypeOK
<1>2. ExecutorInv
  BY Zenon DEF ExecutorInv
<1>3. CopiesInv
  BY Zenon DEF CopiesInv
<1>4. ClosedInv
  BY Zenon DEF ClosedInv
<1> QED BY <1>1, <1>2, <1>3, <1>4, Zenon DEF ServeInv

\* In every reachable state of the manager its handlers, executors, entries and
\* the map agree as ServeInv says; in particular `running' never passes
\* --max-concurrent-runs and never goes below zero.
THEOREM ViewsAgree == SvSpec => []ServeInv
<1>1. ServeInv /\ [SvNext]_svVars => ServeInv'
  BY SvTypeStep, ExecutorStep, CopiesStep, ClosedStep, Zenon DEF ServeInv
<1> QED BY ServeInit, <1>1, PTL DEF SvSpec

-----------------------------------------------------------------------------
(* RunningHasOwner and DrainSettlesRuns *)

\* Every step keeps a record that says running in somebody's hands.
LEMMA OwnerStep == ServeInv /\ RunningHasOwner /\ [SvNext]_svVars => RunningHasOwner'
<1> SUFFICES ASSUME ServeInv, RunningHasOwner, [SvNext]_svVars PROVE RunningHasOwner'
  BY Zenon
<1> USE ServeAssumption DEF ServeInv, SvTypeOK, ExecutorInv, RunningHasOwner, Unwritten, Final
<1>1. CASE UNCHANGED <<rec, faulted, handler, exec>>
  BY <1>1, Zenon
<1>2. ASSUME NEW r \in Runs, Reserve(r) \/ Reject(r) \/ CreateOk(r) \/ Launch(r) PROVE RunningHasOwner'
  BY <1>2 DEF Reserve, Reject, CreateOk, Launch
<1>3. ASSUME NEW r \in Runs, CreateFail(r) PROVE RunningHasOwner'
  BY <1>3 DEF CreateFail, Fault
<1>4. ASSUME NEW r \in Runs, StartCheckpoint(r) \/ SvLoop(r) \/ SaveFinal(r) PROVE RunningHasOwner'
  BY <1>4 DEF StartCheckpoint, SvLoop, SaveFinal, Go
<1>5. ASSUME NEW r \in Runs, SaveFault(r) PROVE RunningHasOwner'
  BY <1>5 DEF SaveFault, Fault, Go
<1>6. ASSUME NEW r \in Runs, Finish(r) PROVE RunningHasOwner'
  BY <1>6 DEF Finish, Go
<1>7. ASSUME NEW r \in Runs, FinishFault(r) PROVE RunningHasOwner'
  BY <1>7 DEF FinishFault, Fault, Go
<1>8. ASSUME NEW r \in Runs, EntryFinish(r) \/ Publish(r) \/ Release(r) PROVE RunningHasOwner'
  BY <1>8 DEF EntryFinish, Publish, Release, Go
<1>9. ASSUME NEW r \in Runs, SweepStore(r) PROVE RunningHasOwner'
  BY <1>9 DEF SweepStore
<1>10. ASSUME NEW c \in Cancels, CancelStore(c) PROVE RunningHasOwner'
  <2>1. \A r \in Runs : rec'[r] = "running" => rec[r] = "running"
    BY <1>10 DEF CancelStore
  <2> QED BY <1>10, <2>1, Zenon DEF CancelStore
<1> QED
  <2>1. ASSUME NEW r \in Runs, Deadline(r) \/ SweepMark(r) PROVE RunningHasOwner'
    BY <1>1, <2>1, Zenon DEF Deadline, SweepMark
  <2>2. ASSUME NEW c \in Cancels, CancelGet(c) \/ CancelMark(c) \/ CancelPublish(c) PROVE RunningHasOwner'
    BY <1>1, <2>2, Zenon DEF CancelGet, CancelMark, CancelPublish
  <2>3. CASE Signal \/ ShutdownReturns \/ CancelRoot \/ SweepEnd \/ WaitDone \/ WaitTimeout \/ UNCHANGED svVars
    BY <1>1, <2>3, Zenon DEF Signal, ShutdownReturns, CancelRoot, SweepEnd, WaitDone, WaitTimeout, svVars
  <2> HIDE DEF RunningHasOwner
  <2> QED BY <1>2, <1>3, <1>4, <1>5, <1>6, <1>7, <1>8, <1>9, <1>10, <2>1, <2>2, <2>3, Zenon
          DEF SvNext, PostStep, ExecStep, DeleteStep, ServerStep

\* A record that says "running" has a handler or an executor that will change
\* it, or met a failing write: every path of handleCreateRun, executeManagedRun
\* and handleCancelRun, for every number of requests.
THEOREM RunningRecordsOwned == SvSpec => []RunningHasOwner
<1>1. SvInit => RunningHasOwner
  BY Zenon DEF SvInit, RunningHasOwner
<1> QED BY <1>1, ViewsAgree, OwnerStep, PTL DEF SvSpec

\* A shutdown that stays within its time leaves no view of a run at "running",
\* except where a write failed: whatever DELETE requests raced with it.
THEOREM DrainSettles == SvSpec => []DrainSettlesRuns
<1>1. ServeInv /\ RunningHasOwner => DrainSettlesRuns
  <2> SUFFICES ASSUME ServeInv, RunningHasOwner, server.pc = "drained", ~server.timedOut, NEW r \in Runs
               PROVE  /\ exec[r] \notin Executing
                      /\ Shown(r) = "running" => faulted[r] /\ inMap[r] = "none"
                      /\ rec[r] = "running" => faulted[r]
    BY Zenon DEF DrainSettlesRuns
  <2>1. exec[r] \notin Executing /\ HandlersIdle
    BY Zenon DEF ServeInv, ClosedInv
  <2>2. rec[r] = "running" => faulted[r]
    BY <2>1, Zenon DEF RunningHasOwner, HandlersIdle, Executing
  <2>3. inMap[r] = "own" => Shown(r) # "running"
    BY <2>1, Zenon DEF ServeInv, ExecutorInv, Shown, EntryStatus, Executing
  <2>4. inMap[r] \in Cancels => Shown(r) # "running"
    BY ServeAssumption, Zenon DEF ServeInv, CopiesInv, Settled, Shown, EntryStatus
  <2>5. inMap[r] \in {"none", "own"} \cup Cancels
    BY Zenon DEF ServeInv, SvTypeOK
  <2> QED BY <2>1, <2>2, <2>3, <2>4, <2>5, Zenon DEF Shown
<1> QED BY <1>1, ViewsAgree, RunningRecordsOwned, PTL

-----------------------------------------------------------------------------
(* SlotsCounted: the requests that hold a slot, counted. *)
Holders == {r \in Runs : HoldsSlot(r)}

\* The holders of slots can be counted.
LEMMA HoldersFinite == IsFiniteSet(Holders) /\ Cardinality(Holders) \in Nat
  BY ServeAssumption, FS_Subset, FS_CardinalityType, Zenon DEF Holders

\* Every step keeps the counter equal to the number of holders.
LEMMA SlotsStep == ServeInv /\ SlotsCounted /\ [SvNext]_svVars => SlotsCounted'
<1> SUFFICES ASSUME ServeInv, SlotsCounted, [SvNext]_svVars PROVE SlotsCounted'
  BY Zenon
<1> USE ServeAssumption
<1>1. ASSUME Holders' = Holders, UNCHANGED running PROVE SlotsCounted'
  BY <1>1, Zenon DEF SlotsCounted, Holders
<1>2. ASSUME NEW r \in Runs, Reserve(r) PROVE SlotsCounted'
  <2>1. r \notin Holders /\ Holders' = Holders \cup {r}
    BY <1>2 DEF Reserve, Holders, HoldsSlot, ServeInv, SvTypeOK, ExecutorInv, Executing, Unwritten
  <2>2. Cardinality(Holders \cup {r}) = Cardinality(Holders) + 1
    BY <2>1, HoldersFinite, FS_AddElement, Zenon
  <2> QED BY <1>2, <2>1, <2>2, Zenon DEF Reserve, SlotsCounted, Holders
<1>3. ASSUME NEW r \in Runs, CreateFail(r) \/ Release(r) PROVE SlotsCounted'
  <2>1. r \in Holders /\ Holders' = Holders \ {r}
    <3>1. CASE CreateFail(r)
      BY <3>1, Zenon DEF CreateFail, Holders, HoldsSlot, ServeInv, SvTypeOK, ExecutorInv, Executing, Unwritten
    <3>2. CASE Release(r)
      BY <3>2, Zenon DEF Release, Go, Holders, HoldsSlot, ServeInv, SvTypeOK, ExecutorInv, Executing, Unwritten
    <3> QED BY <1>3, <3>1, <3>2, Zenon
  <2>2. Cardinality(Holders \ {r}) = Cardinality(Holders) - 1
    BY <2>1, HoldersFinite, FS_RemoveElement, Zenon
  <2>3. IsFiniteSet(Holders \ {r}) /\ Cardinality(Holders \ {r}) \in Nat
    BY HoldersFinite, FS_Subset, FS_CardinalityType, Zenon
  <2>4. running' = Released
    BY <1>3, Zenon DEF CreateFail, Release
  <2>5. running = Cardinality(Holders) /\ (SlotsCounted' <=> running' = Cardinality(Holders'))
    BY Zenon DEF SlotsCounted, Holders
  <2> QED BY <2>1, <2>2, <2>3, <2>4, <2>5, HoldersFinite DEF Released
<1>4. ASSUME NEW r \in Runs, Reject(r) \/ CreateOk(r) \/ Launch(r) PROVE SlotsCounted'
  <2>1. Holders' = Holders /\ UNCHANGED running
    BY <1>4 DEF Reject, CreateOk, Launch, Holders, HoldsSlot, ServeInv, SvTypeOK, ExecutorInv, Executing, Unwritten
  <2> QED BY <1>1, <2>1, Zenon
<1>5. ASSUME NEW r \in Runs,
             \/ StartCheckpoint(r) \/ SaveFinal(r) \/ SaveFault(r) \/ Finish(r) \/ FinishFault(r) \/ EntryFinish(r)
             \/ Publish(r) \/ SvLoop(r)
      PROVE  SlotsCounted'
  <2>1. UNCHANGED <<handler, running>> /\ exec[r] \in Executing
    BY <1>5, Zenon DEF StartCheckpoint, SaveFinal, SaveFault, Finish, FinishFault, EntryFinish, Publish, SvLoop, Go,
         Executing, Unwritten
  <2>2. PICK to \in Executing : exec' = [exec EXCEPT ![r] = to]
    BY <1>5, Zenon DEF StartCheckpoint, SaveFinal, SaveFault, Finish, FinishFault, EntryFinish, Publish, SvLoop, Go,
         Executing, Unwritten
  <2>3. \A q \in Runs : HoldsSlot(q)' <=> HoldsSlot(q)
    BY <2>1, <2>2, Zenon DEF HoldsSlot, ServeInv, SvTypeOK
  <2>4. Holders' = Holders
    BY <2>3, Zenon DEF Holders
  <2> QED BY <1>1, <2>1, <2>4, Zenon
<1>6. CASE UNCHANGED <<handler, exec, running>>
  BY <1>1, <1>6, Zenon DEF Holders, HoldsSlot
<1> QED
  <2>1. ASSUME NEW r \in Runs, Deadline(r) \/ SweepMark(r) \/ SweepStore(r) PROVE SlotsCounted'
    BY <1>6, <2>1, Zenon DEF Deadline, SweepMark, SweepStore
  <2>2. ASSUME NEW c \in Cancels, CancelGet(c) \/ CancelMark(c) \/ CancelStore(c) \/ CancelPublish(c) PROVE SlotsCounted'
    BY <1>6, <2>2, Zenon DEF CancelGet, CancelMark, CancelStore, CancelPublish
  <2>3. CASE Signal \/ ShutdownReturns \/ CancelRoot \/ SweepEnd \/ WaitDone \/ WaitTimeout \/ UNCHANGED svVars
    BY <1>6, <2>3, Zenon DEF Signal, ShutdownReturns, CancelRoot, SweepEnd, WaitDone, WaitTimeout, svVars
  <2> QED BY <1>2, <1>3, <1>4, <1>5, <2>1, <2>2, <2>3, Zenon DEF SvNext, PostStep, ExecStep, DeleteStep, ServerStep

\* reserveSlot and releaseSlot balance on every path, so a slot is never leaked
\* nor given back twice, for every number of requests and every limit.
THEOREM SlotsAreCounted == SvSpec => []SlotsCounted
<1>1. SvInit => SlotsCounted
  <2> SUFFICES ASSUME SvInit PROVE SlotsCounted
    BY Zenon
  <2>1. Holders = {}
    BY Zenon DEF Holders, HoldsSlot, SvInit, Executing, Unwritten
  <2> QED BY <2>1, FS_EmptySet, Zenon DEF SlotsCounted, Holders, SvInit
<1> QED BY <1>1, ViewsAgree, SlotsStep, PTL DEF SvSpec

-----------------------------------------------------------------------------
\* A cancelled entry stays cancelled: no result of the executor, no second
\* DELETE and no relaunch overwrites what runEntry.markCancelled set.
THEOREM CancelledEntryStays == SvSpec => CancelSticks
<1>1. ASSUME ServeInv, [SvNext]_svVars, NEW r \in Runs, entry[r] = "cancelled"
      PROVE  entry'[r] = "cancelled"
  <2> USE <1>1 DEF ServeInv, SvTypeOK
  <2>1. CASE UNCHANGED entry
    BY <2>1, Zenon
  <2>2. ASSUME NEW q \in Runs, Launch(q) PROVE entry'[r] = "cancelled"
    BY <2>2, Zenon DEF Launch, ExecutorInv
  <2>3. ASSUME NEW q \in Runs, EntryFinish(q) PROVE entry'[r] = "cancelled"
    BY <2>3, Zenon DEF EntryFinish, FinishedStatus
  <2>4. ASSUME NEW q \in Runs, NEW o, MarkCancelled(q, o) PROVE entry'[r] = "cancelled"
    BY <2>4, Zenon DEF MarkCancelled
  <2>5. ASSUME NEW q \in Runs, SweepMark(q) PROVE entry'[r] = "cancelled"
    BY <2>4, <2>5, Zenon DEF SweepMark
  <2>6. ASSUME NEW c \in Cancels, CancelMark(c) PROVE entry'[r] = "cancelled"
    BY <2>4, <2>6, Zenon DEF CancelMark, CopiesInv
  <2>7. ASSUME NEW q \in Runs,
               \/ Reserve(q) \/ Reject(q) \/ Deadline(q) \/ CreateOk(q) \/ CreateFail(q) \/ StartCheckpoint(q)
               \/ SaveFinal(q) \/ SaveFault(q) \/ Finish(q) \/ FinishFault(q) \/ Publish(q) \/ Release(q)
               \/ SvLoop(q) \/ SweepStore(q)
        PROVE  UNCHANGED entry
    BY <2>7, Zenon DEF Reserve, Reject, Deadline, CreateOk, CreateFail, StartCheckpoint, SaveFinal, SaveFault, Finish,
         FinishFault, Publish, Release, SvLoop, SweepStore
  <2>8. ASSUME NEW c \in Cancels, CancelGet(c) \/ CancelStore(c) \/ CancelPublish(c) PROVE UNCHANGED entry
    BY <2>8, Zenon DEF CancelGet, CancelStore, CancelPublish
  <2>9. ASSUME Signal \/ ShutdownReturns \/ CancelRoot \/ SweepEnd \/ WaitDone \/ WaitTimeout \/ UNCHANGED svVars
        PROVE  UNCHANGED entry
    BY <2>9, Zenon DEF Signal, ShutdownReturns, CancelRoot, SweepEnd, WaitDone, WaitTimeout, svVars
  <2> QED BY <2>1, <2>2, <2>3, <2>5, <2>6, <2>7, <2>8, <2>9, Zenon DEF SvNext, PostStep, ExecStep, DeleteStep, ServerStep
<1>2. ServeInv /\ [SvNext]_svVars => [\A r \in Runs : entry[r] = "cancelled" => entry'[r] = "cancelled"]_svVars
  BY <1>1, Zenon
<1> QED BY <1>2, ViewsAgree, PTL DEF SvSpec, CancelSticks
=============================================================================
