---------------------------- MODULE LoopDetector ----------------------------
(***************************************************************************)
(* loop/mem_loop_detector.go: the per-run bookkeeping of MemLoopDetector   *)
(* and what Observe makes of one event, as operators on that bookkeeping.  *)
(* An event is [type, name, hash]; the signature of a tool call is the     *)
(* pair of its name and hash.  A hash NoHash is the empty string.          *)
(***************************************************************************)
EXTENDS Integers, Sequences

CONSTANTS
    RepeatedToolCallThreshold,   \* 3 in NewMemLoopDetector
    NoProgressTurnThreshold,     \* 5
    ThoughtOnlyTurnThreshold     \* 3

ASSUME ThresholdsAssumption ==
    /\ RepeatedToolCallThreshold \in Nat
    /\ NoProgressTurnThreshold \in Nat
    /\ ThoughtOnlyTurnThreshold \in Nat

NoHash == "no-hash"
NoSignature == <<>>

\* The zero runLoopState.
FreshLoopState ==
    [lastToolSignature |-> NoSignature, repeatCount |-> 0,
     lastContentHash |-> NoHash, noProgressCount |-> 0, thoughtOnlyCount |-> 0]

bumpNoProgress(s, hash) ==
    IF hash = NoHash THEN s
    ELSE [s EXCEPT !.lastContentHash = hash,
                   !.noProgressCount = IF hash = s.lastContentHash THEN @ + 1 ELSE 1]

\* The bookkeeping after a tool_call event.
ObserveToolCall(s, e) ==
    LET sig == <<e.name, e.hash>>
    IN  bumpNoProgress(
            [s EXCEPT !.lastToolSignature = sig,
                      !.repeatCount = IF sig = s.lastToolSignature THEN @ + 1 ELSE 1,
                      !.thoughtOnlyCount = 0],
            e.hash)

\* Mutant of ObserveContent: a thought does not break a run of tool calls.
ObserveContentKeepsStreak(s, e) ==
    bumpNoProgress([s EXCEPT !.thoughtOnlyCount = @ + 1], e.hash)

\* The bookkeeping after a content event.
ObserveContent(s, e) ==
    bumpNoProgress([s EXCEPT !.thoughtOnlyCount = @ + 1,
                             !.lastToolSignature = NoSignature, !.repeatCount = 0],
                   e.hash)

\* Events of any other type leave the bookkeeping alone.
Observe(s, e) ==
    CASE e.type = "tool_call" -> ObserveToolCall(s, e)
      [] e.type = "content"   -> ObserveContent(s, e)
      [] OTHER                -> s

Reaches(count, threshold) == threshold > 0 /\ count >= threshold

\* The pattern of the event's own kind that the updated bookkeeping s reaches.
OwnPattern(s, e) ==
    CASE e.type = "tool_call" /\ Reaches(s.repeatCount, RepeatedToolCallThreshold)
            -> "repeated_tool_call"
      [] e.type = "content" /\ Reaches(s.thoughtOnlyCount, ThoughtOnlyTurnThreshold)
            -> "thought_explosion"
      [] OTHER -> "none"

\* What Observe reports for e: its own pattern, else the one both kinds share.
Verdict(s, e) ==
    IF OwnPattern(s, e) = "none" /\ e.type \in {"tool_call", "content"}
       /\ Reaches(s.noProgressCount, NoProgressTurnThreshold)
    THEN "no_progress_turn"
    ELSE OwnPattern(s, e)
=============================================================================
