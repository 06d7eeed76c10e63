------------------------------ MODULE FrameSink ------------------------------
(***************************************************************************)
(* What a FrameWriter (protocol/frame.go) promises to the RPC layer, seen  *)
(* from outside: a frame handed to the sink reaches the wire at most once, *)
(* a caller told "ok" finds its frame on the wire, and the sink stops      *)
(* accepting frames when it is closed and has drained once it is stopped.  *)
(* How the frames travel (a mutex, a buffered channel, one writer          *)
(* goroutine) is left to the module FrameWriter, which implements this one.*)
(***************************************************************************)
EXTENDS Sequences, Naturals

CONSTANT Frames     \* the frames handed to WriteFrame, one per call

VARIABLES fate,     \* fate[f]: "new", "accepted", "sent", "lost" or "refused"
          wire,     \* the frames written to the underlying stream, in order
          verdict,  \* verdict[f]: what the call that wrote f was told
          status    \* "open", "closed" (no new frame) or "stopped" (drained)

sinkVars == <<fate, wire, verdict, status>>

SinkInit ==
    /\ fate    = [f \in Frames |-> "new"]
    /\ wire    = <<>>
    /\ verdict = [f \in Frames |-> "none"]
    /\ status  = "open"

\* The sink takes responsibility for the frame. Only an open sink does.
Accept(f) ==
    /\ fate[f] = "new" /\ status = "open"
    /\ fate' = [fate EXCEPT ![f] = "accepted"]
    /\ UNCHANGED <<wire, verdict, status>>

\* The frame is given up before the sink took it: the sink is closed, or the
\* caller's context ended while it waited for room.
Refuse(f) ==
    /\ fate[f] = "new"
    /\ fate'    = [fate EXCEPT ![f] = "refused"]
    /\ verdict' = [verdict EXCEPT ![f] = "error"]
    /\ UNCHANGED <<wire, status>>

\* The stream took the whole frame, or failed.
Put(f) ==
    /\ fate[f] = "accepted" /\ status # "stopped"
    /\ \/ fate' = [fate EXCEPT ![f] = "sent"] /\ wire' = Append(wire, f)
       \/ fate' = [fate EXCEPT ![f] = "lost"] /\ UNCHANGED wire
    /\ UNCHANGED <<verdict, status>>

\* The caller learns the outcome, or stops waiting for it.
Tell(f) ==
    /\ verdict[f] = "none"
    /\ \/ fate[f] = "sent" /\ verdict' = [verdict EXCEPT ![f] = "ok"]
       \/ fate[f] # "new"  /\ verdict' = [verdict EXCEPT ![f] = "error"]
    /\ UNCHANGED <<fate, wire, status>>

Shut ==
    /\ status = "open"
    /\ status' = "closed"
    /\ UNCHANGED <<fate, wire, verdict>>

\* A closed sink stops only when no accepted frame is left.
Stop ==
    /\ status = "closed"
    /\ \A f \in Frames : fate[f] # "accepted"
    /\ status' = "stopped"
    /\ UNCHANGED <<fate, wire, verdict>>

SinkNext ==
    \/ \E f \in Frames : Accept(f) \/ Refuse(f) \/ Put(f) \/ Tell(f)
    \/ Shut
    \/ Stop

SinkSpec == SinkInit /\ [][SinkNext]_sinkVars
==============================================================================
