----------------------------- MODULE FakeSidecar -----------------------------
(***************************************************************************)
(* The scripted sidecar of the test kit: Start, the pump goroutine that    *)
(* applies the steps of the script, Stop, and the kernel side that sends   *)
(* and receives frames. The two buffered channels hold FkCapacity frames.  *)
(* A context may end at any moment a call waits on it.                     *)
(***************************************************************************)
EXTENDS Integers, Sequences, FiniteSets, SequencesExt

CONSTANTS FkScripts,       \* scripts: sequences of step kinds
          FkReaders,       \* callers of ReceiveFrame
          FkCapacity, FkMaxReads, FkMaxSends

VARIABLES fkScript, fkStarted, fkStopped, fkCrashed,
          fkStart,         \* the caller of Start: "idle", "hello", "done"
          fkPump,          \* [pc, i]; pc "off", "next", "apply", "error", "idle", "done"
          fkStop,          \* the caller of Stop: "idle", "wait", "clean", "gaveup"
          fkOut,           \* brainToKernel
          fkIn,            \* number of frames in kernelToBrain
          fkNextID, fkRead, fkReads, fkSends,
          fkGot,           \* history: what ReceiveFrame returned
          fkPut            \* history: what was put on brainToKernel

fkVars == <<fkScript, fkStarted, fkStopped, fkCrashed, fkStart, fkPump, fkStop, fkOut, fkIn,
            fkNextID, fkRead, fkReads, fkSends, fkGot, fkPut>>

FkFrame(kind, id) == [kind |-> kind, id |-> id]

FkInit == /\ fkScript \in FkScripts
          /\ fkStarted = FALSE /\ fkStopped = FALSE /\ fkCrashed = FALSE
          /\ fkStart = "idle" /\ fkPump = [pc |-> "off", i |-> 1] /\ fkStop = "idle"
          /\ fkOut = <<>> /\ fkIn = 0 /\ fkNextID = 0
          /\ fkRead = [r \in FkReaders |-> "idle"] /\ fkReads = 0 /\ fkSends = 0
          /\ fkGot = <<>> /\ fkPut = <<>>

\* enqueueFromBrain, the branch that sends; the other one needs fkStopped.
FkPutFrame(frame) == /\ Len(fkOut) < FkCapacity
                     /\ fkOut' = Append(fkOut, frame)
                     /\ fkPut' = Append(fkPut, frame)

\* Start marks itself started, then says hello and launches the pump.
FkStartCall == /\ fkStart = "idle" /\ ~fkStarted
               /\ fkStarted' = TRUE
               /\ fkStart' = "hello"
               /\ UNCHANGED <<fkScript, fkStopped, fkCrashed, fkPump, fkStop, fkOut, fkIn, fkNextID,
                              fkRead, fkReads, fkSends, fkGot, fkPut>>

FkHello == /\ fkStart = "hello"
           /\ \/ FkPutFrame(FkFrame("hello", 0))
              \/ fkStopped /\ UNCHANGED <<fkOut, fkPut>>
           /\ fkStart' = "done"
           /\ fkPump' = [fkPump EXCEPT !.pc = "next"]
           /\ UNCHANGED <<fkScript, fkStarted, fkStopped, fkCrashed, fkStop, fkIn, fkNextID,
                          fkRead, fkReads, fkSends, fkGot>>

\* The head of the loop of pump: stop, or the next step. The end of the
\* script waits for Stop.
FkPumpNext == /\ fkPump.pc = "next"
              /\ fkPump' = [fkPump EXCEPT !.pc = CASE fkPump.i > Len(fkScript) -> "idle"
                                                   [] fkPump.i <= Len(fkScript) /\ fkStopped -> "done"
                                                   [] OTHER -> "apply"]
              /\ UNCHANGED <<fkScript, fkStarted, fkStopped, fkCrashed, fkStart, fkStop, fkOut, fkIn,
                             fkNextID, fkRead, fkReads, fkSends, fkGot, fkPut>>

FkApplied == fkPump' = [pc |-> "next", i |-> fkPump.i + 1]
FkFailed == fkPump' = [fkPump EXCEPT !.pc = "error"]
FkStep(kinds) == fkPump.pc = "apply" /\ fkScript[fkPump.i] \in kinds

\* A step that puts one frame on the channel; Stop makes it fail.
FkPutOne(frame) == /\ \/ FkPutFrame(frame) /\ FkApplied
                      \/ fkStopped /\ FkFailed /\ UNCHANGED <<fkOut, fkPut>>
                   /\ UNCHANGED <<fkScript, fkStarted, fkStopped, fkCrashed, fkStart, fkStop, fkIn,
                                  fkRead, fkReads, fkSends, fkGot>>

\* ReplyStep; one built with both or neither of Result and Error fails.
FkApplyReply == /\ \/ FkStep({"reply"}) /\ FkPutOne(FkFrame("reply", 0))
                   \/ /\ FkStep({"wrong"}) /\ FkFailed
                      /\ UNCHANGED <<fkScript, fkStarted, fkStopped, fkCrashed, fkStart, fkStop, fkIn,
                                     fkOut, fkPut, fkRead, fkReads, fkSends, fkGot>>
                /\ UNCHANGED fkNextID

\* SendMalformedFrameStep.
FkApplyMalformed == FkStep({"malformed"}) /\ FkPutOne(FkFrame("malformed", 0)) /\ UNCHANGED fkNextID

\* ReverseRPCStep draws its id before it sends.
FkApplyReverse == /\ FkStep({"reverse"})
                  /\ fkNextID' = fkNextID + 1
                  /\ FkPutOne(FkFrame("reverse", fkNextID + 1))

\* DelayStep: the timer or Stop, both go on.
FkApplyDelay == /\ FkStep({"delay"})
                /\ FkApplied
                /\ UNCHANGED <<fkScript, fkStarted, fkStopped, fkCrashed, fkStart, fkStop, fkOut, fkIn,
                               fkNextID, fkRead, fkReads, fkSends, fkGot, fkPut>>

FkApplyCrash == /\ FkStep({"crash"})
                /\ fkCrashed' = TRUE
                /\ FkApplied
                /\ UNCHANGED <<fkScript, fkStarted, fkStopped, fkStart, fkStop, fkOut, fkIn, fkNextID,
                               fkRead, fkReads, fkSends, fkGot, fkPut>>

\* A failed step is put on the channel, then the pump returns.
FkPumpError == /\ fkPump.pc = "error"
               /\ \/ FkPutFrame(FkFrame("error", 0))
                  \/ fkStopped /\ UNCHANGED <<fkOut, fkPut>>
               /\ fkPump' = [fkPump EXCEPT !.pc = "done"]
               /\ UNCHANGED <<fkScript, fkStarted, fkStopped, fkCrashed, fkStart, fkStop, fkIn,
                              fkNextID, fkRead, fkReads, fkSends, fkGot>>

FkPumpStops == /\ fkPump.pc = "idle" /\ fkStopped
               /\ fkPump' = [fkPump EXCEPT !.pc = "done"]
               /\ UNCHANGED <<fkScript, fkStarted, fkStopped, fkCrashed, fkStart, fkStop, fkOut, fkIn,
                              fkNextID, fkRead, fkReads, fkSends, fkGot, fkPut>>

FkStopCall == /\ fkStop = "idle" /\ ~fkStopped
              /\ fkStopped' = TRUE
              /\ fkStop' = "wait"
              /\ UNCHANGED <<fkScript, fkStarted, fkCrashed, fkStart, fkPump, fkOut, fkIn, fkNextID,
                             fkRead, fkReads, fkSends, fkGot, fkPut>>

\* Stop returns when the pump is done, or after two seconds or its context.
FkStopReturns == /\ fkStop = "wait"
                 /\ fkStop' \in {"gaveup"} \cup (IF fkPump.pc = "done" THEN {"clean"} ELSE {})
                 /\ UNCHANGED <<fkScript, fkStarted, fkStopped, fkCrashed, fkStart, fkPump, fkOut, fkIn,
                                fkNextID, fkRead, fkReads, fkSends, fkGot, fkPut>>

\* ReceiveFrame reads the crashed flag under the mutex first.
FkReceive(r) == /\ fkRead[r] = "idle"
                /\ fkReads < FkMaxReads
                /\ fkReads' = fkReads + 1
                /\ fkRead' = [fkRead EXCEPT ![r] = IF fkCrashed THEN "crashed" ELSE "select"]
                /\ UNCHANGED <<fkScript, fkStarted, fkStopped, fkCrashed, fkStart, fkPump, fkStop, fkOut,
                               fkIn, fkNextID, fkSends, fkGot, fkPut>>

\* Mutant: the crash hides the frames that are still queued.
FkCrashNow(out) == TRUE
\* The crash is reported once the queue is empty.
FkCrashShows(out) == out = <<>>

FkCrashTest(r) ==
    /\ fkRead[r] = "crashed"
    /\ IF FkCrashShows(fkOut)
       THEN /\ fkRead' = [fkRead EXCEPT ![r] = "idle"]
            /\ fkGot' = Append(fkGot, FkFrame("crashed", Len(fkPut)))
       ELSE /\ fkRead' = [fkRead EXCEPT ![r] = "select"]
            /\ UNCHANGED fkGot
    /\ UNCHANGED <<fkScript, fkStarted, fkStopped, fkCrashed, fkStart, fkPump, fkStop, fkOut, fkIn,
                   fkNextID, fkReads, fkSends, fkPut>>

\* The select of ReceiveFrame: a frame, or an error from Stop or the context.
FkReceived(r) ==
    /\ fkRead[r] = "select"
    /\ \/ fkOut # <<>> /\ fkGot' = Append(fkGot, Head(fkOut)) /\ fkOut' = Tail(fkOut)
       \/ UNCHANGED <<fkOut, fkGot>>
    /\ fkRead' = [fkRead EXCEPT ![r] = "idle"]
    /\ UNCHANGED <<fkScript, fkStarted, fkStopped, fkCrashed, fkStart, fkPump, fkStop, fkIn,
                   fkNextID, fkReads, fkSends, fkPut>>

\* SendFrame: no step of a script takes the frames out again.
FkSend == /\ fkSends < FkMaxSends
          /\ fkSends' = fkSends + 1
          /\ \/ fkIn < FkCapacity /\ fkIn' = fkIn + 1
             \/ UNCHANGED fkIn
          /\ UNCHANGED <<fkScript, fkStarted, fkStopped, fkCrashed, fkStart, fkPump, fkStop, fkOut,
                         fkNextID, fkRead, fkReads, fkGot, fkPut>>

FkNext == \/ FkStartCall \/ FkHello \/ FkPumpNext \/ FkApplyReply \/ FkApplyMalformed
          \/ FkApplyReverse \/ FkApplyDelay \/ FkApplyCrash \/ FkPumpError \/ FkPumpStops \/ FkStopCall \/ FkStopReturns \/ FkSend
          \/ \E r \in FkReaders : FkReceive(r) \/ FkCrashTest(r) \/ FkReceived(r)

----------------------------------------------------------------------------
\* The frames a script puts on the channel when nothing stops it; a step that
\* was built wrongly ends it with an error frame.
FkFrames(steps) == SelectSeq(steps, LAMBDA s : s \in {"reply", "malformed", "reverse"})
FkScripted == LET wrong == SelectInSeq(fkScript, LAMBDA s : s = "wrong")
              IN  <<"hello">> \o IF wrong = 0 THEN FkFrames(fkScript)
                                 ELSE FkFrames(SubSeq(fkScript, 1, wrong)) \o <<"error">>
FkFramesGot == SelectSeq(fkGot, LAMBDA f : f.kind # "crashed")
FkBeforeCrash(script) ==
    1 + Len(FkFrames(SubSeq(script, 1, SelectInSeq(script, LAMBDA s : s = "crash"))))

\* Until Stop, the kernel sees the hello and then the frames of the script in
\* their order, each once, whichever of its readers is quicker; a step that
\* fails ends the script with one error frame. A crash is reported only after
\* every frame from before the crash was received. Ids of reverse calls do not
\* repeat. A Stop that did not give up leaves no pump behind.
FkScriptSeen ==
    /\ ~fkStopped =>
         /\ IsPrefix([i \in DOMAIN FkFramesGot |-> FkFramesGot[i].kind], FkScripted)
         /\ \A i \in DOMAIN fkGot : fkGot[i].kind = "crashed" =>
               Len(SelectSeq(SubSeq(fkGot, 1, i), LAMBDA f : f.kind # "crashed"))
                 >= FkBeforeCrash(fkScript)
    /\ \A i, j \in DOMAIN fkPut : fkPut[i].kind = "reverse" /\ fkPut[j].kind = "reverse"
                                    /\ fkPut[i].id = fkPut[j].id => i = j
    /\ FkFramesGot \o fkOut = fkPut
    /\ fkStop = "clean" => fkPump.pc = "done"
=============================================================================
