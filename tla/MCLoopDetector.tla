--------------------------- MODULE MCLoopDetector ---------------------------
(***************************************************************************)
(* MemLoopDetector against the patterns of its comment, stated over the    *)
(* whole sequence of events of a run instead of over counters.             *)
(***************************************************************************)
EXTENDS LoopDetector, FiniteSets

CONSTANTS Names, Hashes, MaxEvents

VARIABLES ldEvents, ldState

ldVars == <<ldEvents, ldState>>

\* Only a tool call has a name.
NoName == "no-name"

Events == {[type |-> "tool_call", name |-> n, hash |-> h] : n \in Names, h \in Hashes}
          \cup {[type |-> "content", name |-> NoName, hash |-> h] : h \in Hashes \cup {NoHash}}
          \cup {[type |-> "llm_call", name |-> NoName, hash |-> NoHash]}

LdInit == ldEvents = <<>> /\ ldState = FreshLoopState

LdNext ==
    /\ Len(ldEvents) < MaxEvents
    /\ \E e \in Events : ldEvents' = Append(ldEvents, e) /\ ldState' = Observe(ldState, e)

LdSpec == LdInit /\ [][LdNext]_ldVars

\* The positions of the events that count, and of those that carry a hash.
Relevant == {i \in DOMAIN ldEvents : ldEvents[i].type # "llm_call"}
Hashed   == {i \in Relevant : ldEvents[i].hash # NoHash}

\* The first n events end with k or more of the events at of, all of them at same.
Streak(n, of, same, k) ==
    k > 0 /\ \E j \in 1 .. n : of \cap (j .. n) \subseteq same /\ Cardinality(of \cap (j .. n)) >= k

Latest == ldEvents[Len(ldEvents)]

RepeatedToolCall ==
    Streak(Len(ldEvents), Relevant, {i \in Relevant : ldEvents[i] = Latest}, RepeatedToolCallThreshold)

ThoughtExplosion ==
    Streak(Len(ldEvents), Relevant, {i \in Relevant : ldEvents[i].type = "content"},
           ThoughtOnlyTurnThreshold)

NoProgress ==
    \E h \in Hashes : Streak(Len(ldEvents), Hashed, {i \in Hashed : ldEvents[i].hash = h},
                             NoProgressTurnThreshold)

\* Observe, fed one event at a time, reports exactly the patterns of the whole
\* history: consecutive identical tool calls, consecutive thought-only events,
\* or a streak of identical hashes across both kinds, in that precedence.
VerdictMatchesHistory ==
    ldEvents # <<>> =>
        Verdict(ldState, Latest) =
            CASE Latest.type = "llm_call" -> "none"
              [] Latest.type = "tool_call" /\ RepeatedToolCall -> "repeated_tool_call"
              [] Latest.type = "content" /\ ThoughtExplosion -> "thought_explosion"
              [] OTHER -> IF NoProgress THEN "no_progress_turn" ELSE "none"
=============================================================================
