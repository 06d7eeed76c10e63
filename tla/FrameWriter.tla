----------------------------- MODULE FrameWriter -----------------------------
(***************************************************************************)
(* protocol/frame.go, frameWriter: WriteFrame calls of several goroutines, *)
(* the buffered channel w.ch, the single writer goroutine loop, and Close. *)
(*                                                                         *)
(* WriteFrame tests w.closed under w.mu, releases the mutex, and only then *)
(* sends on w.ch; Close sets w.closed and closes w.ch in one critical      *)
(* section, so a single variable stands for both. A send selected on the   *)
(* closed channel panics, and a panic in a goroutine ends the program.     *)
(***************************************************************************)
EXTENDS Naturals, Sequences, FiniteSets

CONSTANTS Writers,   \* WriteFrame calls; each writes a frame of its own
          Closers,   \* Close calls
          BufSize    \* capacity of w.ch (64 in NewFrameWriter)

NoFrame == "none"

ASSUME BufSizeAssumption == BufSize \in Nat \ {0}
ASSUME NoFrameAssumption == NoFrame \notin Writers

VARIABLES pc,        \* pc[w], where WriteFrame stands
          ctxDone,   \* ctxDone[w]: the caller's context has ended
          reply,     \* reply[w]: the buffered req.done channel
          ret,       \* ret[w]: what WriteFrame returned
          closed,    \* w.closed, and w.ch is closed
          queue,     \* the requests buffered in w.ch
          current,   \* the request loop is writing, if any
          wire,      \* frames the underlying io.Writer accepted
          loopDone,  \* loop returned: loopWG is released
          closePC,   \* closePC[c], where Close stands
          panicked   \* a send on the closed channel was selected

fwVars == <<pc, ctxDone, reply, ret, closed, queue, current, wire, loopDone,
          closePC, panicked>>

FwInit ==
    /\ pc       = [w \in Writers |-> "start"]
    /\ ctxDone  = [w \in Writers |-> FALSE]
    /\ reply    = [w \in Writers |-> "empty"]
    /\ ret      = [w \in Writers |-> "none"]
    /\ closed   = FALSE
    /\ queue    = <<>>
    /\ current  = NoFrame
    /\ wire     = <<>>
    /\ loopDone = FALSE
    /\ closePC  = [c \in Closers |-> "start"]
    /\ panicked = FALSE

------------------------------------------------------------------------------
Return(w, result) ==
    /\ pc'  = [pc EXCEPT ![w] = "returned"]
    /\ ret' = [ret EXCEPT ![w] = result]

\* The caller's context ends (a deadline, a cancelled run): environment.
FwCtxEnd(w) ==
    /\ ~ctxDone[w]
    /\ ctxDone' = [ctxDone EXCEPT ![w] = TRUE]
    /\ UNCHANGED <<pc, reply, ret, closed, queue, current, wire, loopDone,
                   closePC, panicked>>

\* The closed test under w.mu.
CheckClosed(w) ==
    /\ pc[w] = "start"
    /\ IF closed THEN Return(w, "shutting_down")
                 ELSE pc' = [pc EXCEPT ![w] = "enqueue"] /\ UNCHANGED ret
    /\ UNCHANGED <<ctxDone, reply, closed, queue, current, wire, loopDone,
                   closePC, panicked>>

\* Mutant of Enqueue: a writer that only sets its flag and keeps accepting frames
\* on a channel nobody closed.
EnqueueAfterClose(w) ==
    /\ pc[w] = "enqueue"
    /\ Len(queue) < BufSize
    /\ queue' = Append(queue, w)
    /\ pc'    = [pc EXCEPT ![w] = "await"]
    /\ UNCHANGED <<ctxDone, reply, ret, closed, current, wire, loopDone,
                   closePC, panicked>>

\* First select: the send case.
Enqueue(w) ==
    /\ pc[w] = "enqueue" /\ ~closed
    /\ Len(queue) < BufSize
    /\ queue' = Append(queue, w)
    /\ pc'    = [pc EXCEPT ![w] = "await"]
    /\ UNCHANGED <<ctxDone, reply, ret, closed, current, wire, loopDone,
                   closePC, panicked>>

\* First select: the send case on a channel that was closed meanwhile.
EnqueuePanic(w) ==
    /\ pc[w] = "enqueue" /\ closed
    /\ panicked' = TRUE
    /\ UNCHANGED <<pc, ctxDone, reply, ret, closed, queue, current, wire,
                   loopDone, closePC>>

\* First select: the ctx.Done case.
EnqueueCancelled(w) ==
    /\ pc[w] = "enqueue" /\ ctxDone[w]
    /\ Return(w, "cancelled")
    /\ UNCHANGED <<ctxDone, reply, closed, queue, current, wire, loopDone,
                   closePC, panicked>>

\* Second select: the verdict of the writer goroutine.
AwaitReply(w) ==
    /\ pc[w] = "await" /\ reply[w] # "empty"
    /\ Return(w, reply[w])
    /\ reply' = [reply EXCEPT ![w] = "empty"]
    /\ UNCHANGED <<ctxDone, closed, queue, current, wire, loopDone, closePC,
                   panicked>>

\* Mutant of AwaitCancelled: the context is looked at only once the verdict is in.
AwaitCancelledLate(w) ==
    /\ pc[w] = "await" /\ ctxDone[w] /\ reply[w] # "empty"
    /\ Return(w, "cancelled")
    /\ UNCHANGED <<ctxDone, reply, closed, queue, current, wire, loopDone,
                   closePC, panicked>>

\* Second select: the ctx.Done case; the frame may still be written later.
AwaitCancelled(w) ==
    /\ pc[w] = "await" /\ ctxDone[w]
    /\ Return(w, "cancelled")
    /\ UNCHANGED <<ctxDone, reply, closed, queue, current, wire, loopDone,
                   closePC, panicked>>

------------------------------------------------------------------------------
\* loop: the receive of `for req := range w.ch`.
LoopTake ==
    /\ ~loopDone /\ current = NoFrame /\ queue # <<>>
    /\ current' = Head(queue)
    /\ queue'   = Tail(queue)
    /\ UNCHANGED <<pc, ctxDone, reply, ret, closed, wire, loopDone, closePC,
                   panicked>>

\* Mutants of LoopWrite: the error of Write is dropped; no answer is sent when
\* the write failed.
LoopWriteErrorDropped ==
    /\ current # NoFrame
    /\ wire'  \in {wire, Append(wire, current)}
    /\ reply' = [reply EXCEPT ![current] = "ok"]
    /\ current' = NoFrame
    /\ UNCHANGED <<pc, ctxDone, ret, closed, queue, loopDone, closePC, panicked>>

LoopWriteSilentFailure ==
    /\ current # NoFrame
    /\ \/ /\ wire'  = Append(wire, current)
          /\ reply' = [reply EXCEPT ![current] = "ok"]
       \/ UNCHANGED <<wire, reply>>
    /\ current' = NoFrame
    /\ UNCHANGED <<pc, ctxDone, ret, closed, queue, loopDone, closePC, panicked>>

\* loop: writeOne, whose single Write succeeds or fails, and req.done <- err.
LoopWrite ==
    /\ current # NoFrame
    /\ \/ /\ wire'  = Append(wire, current)
          /\ reply' = [reply EXCEPT ![current] = "ok"]
       \/ /\ reply' = [reply EXCEPT ![current] = "broken_pipe"]
          /\ UNCHANGED wire
    /\ current' = NoFrame
    /\ UNCHANGED <<pc, ctxDone, ret, closed, queue, loopDone, closePC, panicked>>

\* Mutant of LoopExit: the loop leaves as soon as it sees the writer closed.
LoopExitUndrained ==
    /\ ~loopDone /\ closed /\ current = NoFrame
    /\ loopDone' = TRUE
    /\ UNCHANGED <<pc, ctxDone, reply, ret, closed, queue, current, wire,
                   closePC, panicked>>

\* loop: the range ends once the channel is closed and empty.
LoopExit ==
    /\ ~loopDone /\ closed /\ queue = <<>> /\ current = NoFrame
    /\ loopDone' = TRUE
    /\ UNCHANGED <<pc, ctxDone, reply, ret, closed, queue, current, wire,
                   closePC, panicked>>

------------------------------------------------------------------------------
\* Close up to loopWG.Wait; a second Close returns at once.
CloseBegin(c) ==
    /\ closePC[c] = "start"
    /\ closePC' = [closePC EXCEPT ![c] = IF closed THEN "returned" ELSE "wait"]
    /\ closed'  = TRUE
    /\ UNCHANGED <<pc, ctxDone, reply, ret, queue, current, wire, loopDone,
                   panicked>>

CloseWait(c) ==
    /\ closePC[c] = "wait" /\ loopDone
    /\ closePC' = [closePC EXCEPT ![c] = "drained"]
    /\ UNCHANGED <<pc, ctxDone, reply, ret, closed, queue, current, wire,
                   loopDone, panicked>>

WriteFrame(w) ==
    \/ CheckClosed(w)
    \/ Enqueue(w)
    \/ EnqueuePanic(w)
    \/ EnqueueCancelled(w)
    \/ AwaitReply(w)
    \/ AwaitCancelled(w)

FwLoop == LoopTake \/ LoopWrite \/ LoopExit

Close(c) == CloseBegin(c) \/ CloseWait(c)

FwNext ==
    /\ ~panicked
    /\ \/ \E w \in Writers : WriteFrame(w) \/ FwCtxEnd(w)
       \/ FwLoop
       \/ \E c \in Closers : Close(c)

FwSpec == FwInit /\ [][FwNext]_fwVars

(***************************************************************************)
(* Goroutines that can run are run by the Go scheduler. PipeMoves adds     *)
(* that the peer keeps reading, so the underlying Write returns: nothing   *)
(* in the code bounds it (writeTimeout is stored and never read).          *)
(***************************************************************************)
SchedulerFairness ==
    /\ \A w \in Writers : WF_fwVars(~panicked /\ WriteFrame(w))
    /\ WF_fwVars(~panicked /\ (LoopTake \/ LoopExit))
    /\ \A c \in Closers : WF_fwVars(~panicked /\ Close(c))

PipeMoves == WF_fwVars(~panicked /\ LoopWrite)

FwFairSpec == FwSpec /\ SchedulerFairness

------------------------------------------------------------------------------
\* Every variable stays in its range, the channel within its capacity.
FwTypeOK ==
    /\ pc \in [Writers -> {"start", "enqueue", "await", "returned"}]
    /\ ctxDone \in [Writers -> BOOLEAN]
    /\ reply \in [Writers -> {"empty", "ok", "broken_pipe"}]
    /\ ret \in [Writers -> {"none", "ok", "broken_pipe", "shutting_down",
                            "cancelled"}]
    /\ queue \in Seq(Writers) /\ Len(queue) <= BufSize
    /\ current \in Writers \cup {NoFrame}
    /\ wire \in Seq(Writers)
    /\ closePC \in [Closers -> {"start", "wait", "drained", "returned"}]
    /\ <<closed, loopDone, panicked>> \in BOOLEAN \X BOOLEAN \X BOOLEAN

\* "Subsequent WriteFrame calls return CodeShuttingDown rather than racing
\* against the shutdown" (frame.go, frameWriter): no WriteFrame sends on the
\* channel that Close has closed.
NoPanic == ~panicked

\* With a pipe that is being read, every WriteFrame past its closed test and
\* every Close that began returns (or the program has panicked).  A call returns
\* once, so "each of them returns" is that from some moment on all have.
CallsReturn ==
    PipeMoves =>
        <>[](\/ panicked
             \/ /\ \A w \in Writers : pc[w] \in {"start", "returned"}
                /\ \A c \in Closers : closePC[c] \in {"start", "drained", "returned"})

\* Even with a pipe nobody reads, "the caller's ctx [is] honored as a hard
\* deadline" (frame.go, WriteFrame): a call whose context ended returns.
DeadlineHonoured ==
    <>[](panicked \/ \A w \in Writers : ctxDone[w] => pc[w] = "returned")

------------------------------------------------------------------------------
\* The frames the stream took, and those waiting in the channel.
Elems(s) == {s[i] : i \in DOMAIN s}
OnWire == Elems(wire)
Queued == Elems(queue)

\* The refinement mapping to FrameSink.
FateOf(w) ==
    IF w \in OnWire THEN "sent"
    ELSE IF w = current \/ w \in Queued THEN "accepted"
    ELSE IF "broken_pipe" \in {reply[w], ret[w]} THEN "lost"
    ELSE IF ret[w] # "none" THEN "refused" ELSE "new"

VerdictOf(w) ==
    IF ret[w] = "none" THEN "none" ELSE IF ret[w] = "ok" THEN "ok" ELSE "error"

Sink == INSTANCE FrameSink WITH
    Frames  <- Writers,
    fate    <- [w \in Writers |-> FateOf(w)],
    verdict <- [w \in Writers |-> VerdictOf(w)],
    status  <- IF loopDone THEN "stopped" ELSE IF closed THEN "closed" ELSE "open"

\* The writer does what the RPC layer relies on: frames are accepted only
\* while it is open, each is written at most once, and it stops drained.
ImplementsSink == Sink!SinkSpec
==============================================================================
