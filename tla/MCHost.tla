------------------------------- MODULE MCHost -------------------------------
(***************************************************************************)
(* The host's goroutines for TLC, with their liveness: the frame writer,   *)
(* the agent loop and the run manager of `brain serve'.  They share no     *)
(* state, so a behaviour steps one of them: focus, chosen at the start,    *)
(* names it, and the other two stay in their initial states.               *)
(***************************************************************************)
EXTENDS FrameWriter, AgentLoop, ServeRuns

VARIABLE focus

hostVars == <<focus, fwVars, vars, svVars>>

HostInit == focus \in {"writer", "loop", "serve"} /\ FwInit /\ Init /\ SvInit

WriterStep == focus = "writer" /\ FwNext /\ UNCHANGED <<focus, vars, svVars>>
LoopStep == focus = "loop" /\ Next /\ UNCHANGED <<focus, fwVars, svVars>>
ServeStep == focus = "serve" /\ SvNext /\ UNCHANGED <<focus, fwVars, vars>>

HostNext == WriterStep \/ LoopStep \/ ServeStep

\* The fairness of the three modules, for the one in focus.
Writing(A) == focus = "writer" /\ ~panicked /\ A
Serving(A) == focus = "serve" /\ A

HostFairness ==
  /\ \A w \in Writers : WF_fwVars(Writing(WriteFrame(w)))
  /\ WF_fwVars(Writing(LoopTake \/ LoopExit))
  /\ \A c \in Closers : WF_fwVars(Writing(Close(c)))
  /\ WF_vars(focus = "loop" /\ Execute)
  /\ \A r \in Runs : /\ WF_svVars(Serving(PostStep(r)))
                     /\ WF_svVars(Serving(ExecStep(r)))
                     /\ WF_svVars(Serving(SvLoop(r) /\ ended[r]))
  /\ \A c \in Cancels : WF_svVars(Serving(DeleteStep(c)))
  /\ WF_svVars(Serving(ShutdownReturns /\ HandlersIdle))
  /\ WF_svVars(Serving(ServerStep))

HostSpec == HostInit /\ [][HostNext]_hostVars /\ HostFairness
=============================================================================
