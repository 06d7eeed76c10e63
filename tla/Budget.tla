------------------------------- MODULE Budget -------------------------------
(***************************************************************************)
(* loop/budget.go: the resource envelope of a run.  A limit of 0 switches  *)
(* its axis off.  Costs are in the smallest unit the model tells apart;    *)
(* wall-clock time is the single fact whether MaxDuration has passed when  *)
(* ElapsedTime is taken.                                                   *)
(***************************************************************************)
EXTENDS Integers

CONSTANTS MaxTurns, MaxCost, MaxLLMCalls, MaxToolCalls

ASSUME LimitsAssumption ==
    MaxTurns \in Nat /\ MaxCost \in Nat /\ MaxLLMCalls \in Nat /\ MaxToolCalls \in Nat

Exhausted(used, max) == max > 0 /\ used >= max

\* Mutant of CheckTurn: the turn axis is off by one.
CheckTurnOffByOne(b, overtime) ==
    /\ ~(MaxTurns > 0 /\ b.turns > MaxTurns)
    /\ ~Exhausted(b.cost, MaxCost)
    /\ ~Exhausted(b.llmCalls, MaxLLMCalls)
    /\ ~Exhausted(b.toolCalls, MaxToolCalls)
    /\ ~overtime

\* CheckTurn returns nil: none of the five axes is exhausted (the code of the
\* first exhausted one is data of the error, the run fails with any of them).
CheckTurn(b, overtime) ==
    /\ ~Exhausted(b.turns, MaxTurns)
    /\ ~Exhausted(b.cost, MaxCost)
    /\ ~Exhausted(b.llmCalls, MaxLLMCalls)
    /\ ~Exhausted(b.toolCalls, MaxToolCalls)
    /\ ~overtime

\* CheckCost returns nil: in the middle of a turn only the cost and LLM-call
\* axes are looked at.
CheckCost(b) == ~Exhausted(b.cost, MaxCost) /\ ~Exhausted(b.llmCalls, MaxLLMCalls)
=============================================================================
