----------------------------- MODULE RiskGuard ------------------------------
(***************************************************************************)
(* The numbers behind a trading decision: the weighted vote of the         *)
(* strategies, the router's quantities, the two passes of the global risk  *)
(* guard around the central review, and the three-layer guard with its     *)
(* position sizer in front of a book of positions. Fractions are integers: *)
(* confidence and scores in 1/10000, quantities in 1/1000, review factors  *)
(* in 1/100. A cycle reads the portfolio view once; the view may be        *)
(* replaced while the review is under way.                                 *)
(***************************************************************************)
EXTENDS Integers, Sequences, FiniteSets, FiniteSetsExt, Functions

CONSTANTS RgSignals,       \* what the strategies may say: a set of sequences
          RgViews,         \* portfolio views that may be registered
          RgPrices, RgAccountCount,
          RgFactors,       \* size factors a reviewer may send, in percent
          RgLimits,        \* GlobalRiskConfig, percentages
          RgGuard,         \* Guard, percentages and counts
          RgSymbols, RgGroups,   \* CorrelatedGroups: a set of sets of symbols
          RgStats,         \* <<win rate in percent, average win, average loss>>
          RgCircuits,      \* CircuitSnapshots
          RgMaxSteps

\* Quantities are numbers, of either sign where nothing in the code forbids
\* it; a limit is not negative, and neither is a price.
ASSUME RgAssumption ==
    /\ RgSignals \subseteq Seq([strategy : STRING, dir : {"long", "short", "hold"},
                                confidence : Int, stop : Int])
    /\ RgViews \subseteq [equity : Int, open : Nat, largest : Int, loss : Int, paused : BOOLEAN]
    /\ RgPrices \subseteq Nat /\ RgAccountCount \in Nat /\ RgFactors \subseteq Int
    /\ RgLimits \in [exposure : Nat, direction : Nat, loss : Int, symbol : Nat]
    /\ RgGuard \in [single : Nat, stopDistance : Nat, concurrent : Nat, total : Nat,
                    direction : Nat, stopNew : Int, liquidate : Int, memory : Int]
    /\ IsFiniteSet(RgSymbols) /\ RgGroups \subseteq SUBSET RgSymbols
    /\ RgStats \subseteq Int \X Int \X Int

VARIABLES rgView,          \* the view store's portfolio
          rgPlan,          \* the plan of the cycle under way
          rgBook,          \* symbol -> [dir, notional] or RgFlat
          rgSteps

rgVars == <<rgView, rgPlan, rgBook, rgSteps>>

RgNoPlan == [pc |-> "none", view |-> <<>>, dir |-> "hold", price |-> 0, stop |-> 0,
             candidates |-> <<>>, passed |-> 0]
RgFlat == [dir |-> "hold", notional |-> 0]
RgClamp(v, lo, hi) == IF v < lo THEN lo ELSE IF v > hi THEN hi ELSE v
RgRound(n, d) == (2 * n + d) \div (2 * d)
RgAbs(n) == IF n < 0 THEN -n ELSE n

----------------------------------------------------------------------------
(* Aggregate and BuildDispatchPlan.                                        *)

RgWeight(strategy) == CASE strategy = "TrendFollower" -> 30
                        [] strategy \in {"MeanReversion", "BreakoutMomentum"} -> 25
                        [] strategy = "OrderFlow" -> 20
                        [] OTHER -> 0

RgScore(signals, dir) ==
    SumFunction([i \in DOMAIN signals |->
        IF signals[i].dir = dir
        THEN RgClamp(signals[i].confidence, 0, 100) * RgWeight(signals[i].strategy) ELSE 0])

\* The direction needs 0.45 and one and a half times the other side.
RgDirection(long, short) == CASE long > 4500 /\ 2 * long > 3 * short -> "long"
                              [] short > 4500 /\ 2 * short > 3 * long -> "short"
                              [] OTHER -> "hold"

\* The conditions that ask for a review.
RgNeedsReview(view) == view.open >= 3 \/ view.largest > 5 \/ view.loss > 3

\* quantityFor, rounded to a thousandth.
RgQuantity(confidence, view) ==
    LET c == RgClamp(confidence, 2500, 10000)
    IN  IF view.open > 0 THEN RgRound(5 * c, 10 * (5 + view.open)) ELSE RgRound(c, 10)

----------------------------------------------------------------------------
(* The order layer of the guard, and the service's global guard.           *)

\* part / whole * 100 > pct, without division.
RgAbove(part, whole, pct) == 100 * part > pct * whole

\* CheckOrder for a request without leverage and ATR. positions: symbol -> row.
RgCheckOrder(req, equity, positions) ==
    /\ ~(equity > 0 /\ RgAbove(req.notional, equity, RgGuard.single))
    /\ req.stop # 0 /\ req.entry # 0
    /\ ~RgAbove(RgAbs(req.entry - req.stop), req.entry, RgGuard.stopDistance)
    /\ LET p == positions[req.symbol] IN
         p # RgFlat => /\ req.action # "open"
                       /\ ~(req.action = "reverse" /\ p.dir = req.dir)

\* A candidate as an order request; the guard is given no positions here.
RgRequest(plan, q) == [symbol |-> "plan", action |-> "open", dir |-> plan.dir,
                       entry |-> 1000 * plan.price, stop |-> 1000 * plan.stop,
                       notional |-> q * plan.price]

RgProposed(plan) == SumFunction([i \in DOMAIN plan.candidates |-> plan.candidates[i] * plan.price])

\* evaluateGlobalRisk: the largest position stands for all existing ones.
RgEvaluateGlobal(plan) ==
    LET equity == 1000 * plan.view.equity
        largest == (equity * plan.view.largest) \div 100
        proposed == RgProposed(plan)
    IN  /\ equity > 0
        /\ plan.view.open < RgGuard.concurrent
        /\ plan.view.loss < RgLimits.loss
        /\ \A i \in DOMAIN plan.candidates :
             RgCheckOrder(RgRequest(plan, plan.candidates[i]), equity, [s \in {"plan"} |-> RgFlat])
        /\ ~RgAbove(largest + proposed, equity, RgLimits.exposure)
        /\ ~RgAbove(largest + proposed, equity, RgLimits.direction)
        /\ ~RgAbove(proposed, equity, RgLimits.symbol)

\* applyGlobalRiskGuard: a plan that fails loses its candidates.
RgApplyGuard(plan) == IF plan.candidates # <<>> /\ ~RgEvaluateGlobal(plan)
                      THEN [plan EXCEPT !.candidates = <<>>] ELSE plan

\* BuildDispatchPlan: every account gets the same quantity.
RgDispatchPlan(signals, price, view) ==
    LET long == RgScore(signals, "long")
        short == RgScore(signals, "short")
        dir == RgDirection(long, short)
        used == {i \in DOMAIN signals : signals[i].dir # "hold"}
        q == RgQuantity(IF dir = "long" THEN long ELSE short, view)
    IN  [RgNoPlan EXCEPT !.view = view, !.dir = dir, !.price = price,
             !.stop = IF used = {} THEN 0 ELSE signals[Min(used)].stop,
             !.candidates = IF dir = "hold" \/ view.paused THEN <<>>
                            ELSE [i \in 1 .. RgAccountCount |-> q]]

----------------------------------------------------------------------------
(* Cycle: plan and first guard, review, scaling and second guard.          *)

RgStep == rgSteps < RgMaxSteps /\ rgSteps' = rgSteps + 1

RgBuild ==
    /\ RgStep
    /\ rgPlan.pc \in {"none", "sent"}
    /\ \E signals \in RgSignals, price \in RgPrices :
         LET plan == RgApplyGuard(RgDispatchPlan(signals, price, rgView))
             needs == RgNeedsReview(rgView) /\ plan.candidates # <<>>
         IN  rgPlan' = [plan EXCEPT !.pc = IF needs THEN "review" ELSE "sent",
                                    !.passed = RgProposed(plan)]
    /\ UNCHANGED <<rgView, rgBook>>

\* Mutant: a factor above one is used as it is.
RgFactorRaw(factor) == IF factor <= 0 THEN 100 ELSE factor

\* normalizeFactor and the default of ApplyReviewDecision: an approval
\* without a usable factor keeps the size.
RgFactor(factor) == IF factor <= 0 \/ factor > 100 THEN 100 ELSE factor

RgReview ==
    /\ RgStep
    /\ rgPlan.pc = "review"
    /\ \E approved \in BOOLEAN, factor \in RgFactors :
         LET scaled == [rgPlan EXCEPT !.pc = "sent", !.candidates =
                           IF approved THEN [i \in DOMAIN @ |-> (@[i] * RgFactor(factor)) \div 100]
                           ELSE <<>>]
         IN  rgPlan' = RgApplyGuard(scaled)
    /\ UNCHANGED <<rgView, rgBook>>

RgRegister ==
    /\ RgStep
    /\ rgView' \in RgViews
    /\ UNCHANGED <<rgPlan, rgBook>>

----------------------------------------------------------------------------
(* The sizer and the three layers, in front of a book of positions of an   *)
(* account with RgEquity; one trader asks the guard before every order.    *)

RgEquity == 10000

\* Size: a quarter of the Kelly fraction between 0.5% and 5% of the equity.
RgSize(stat) ==
    LET w == stat[1]
        kelly == IF w > 0 /\ stat[2] > 0 /\ stat[3] > 0
                 THEN (100 * (w * stat[2] - (100 - w) * stat[3])) \div stat[2] ELSE 0
        quarter == kelly \div 4
    IN  RgClamp(IF quarter <= 0 THEN 50 ELSE quarter, 50, 500)

RgOpens(action) == action \in {"open", "reverse"}
RgHeld(book) == {s \in RgSymbols : book[s] # RgFlat}
RgNotional(book) == [s \in RgSymbols |-> book[s].notional]
RgTotal(book) == SumFunctionOnSet(RgNotional(book), RgHeld(book))
RgSide(book, dir) == SumFunctionOnSet(RgNotional(book), {s \in RgHeld(book) : book[s].dir = dir})

\* Mutant: the order itself is not counted.
RgAddNothing(req, dir) == 0
\* What the request adds to the exposure on side dir.
RgAdds(req, dir) == IF RgOpens(req.action) /\ req.dir = dir THEN req.notional ELSE 0

RgCheckPortfolio(req, book, loss) ==
    LET long == RgSide(book, "long") + RgAdds(req, "long")
        short == RgSide(book, "short") + RgAdds(req, "short")
    IN  /\ Cardinality(RgHeld(book)) < RgGuard.concurrent
        /\ ~RgAbove(long + short, RgEquity, RgGuard.total)
        /\ ~RgAbove(Max({long, short}), RgEquity, RgGuard.direction)
        /\ loss <= RgGuard.liquidate
        /\ ~(loss > RgGuard.stopNew /\ RgOpens(req.action))
        /\ \A g \in RgGroups : req.symbol \in g =>
              \A m \in g \ {req.symbol} : book[m].dir # req.dir

RgCheckCircuit(c) == /\ c.volatility <= 99
                     /\ -5 < c.btc /\ c.btc < 5
                     /\ c.failures < 3
                     /\ c.memory < RgGuard.memory
                     /\ c.interestDrop < 5

RgEvaluate(req, book, loss, circuit) == /\ RgCheckOrder(req, RgEquity, book)
                                        /\ RgCheckPortfolio(req, book, loss)
                                        /\ RgCheckCircuit(circuit)

\* An order that the guard allows is filled. A reverse order closes the
\* position it turns around; a close order empties it.
RgTrade ==
    /\ RgStep
    /\ \E s \in RgSymbols, dir \in {"long", "short"}, action \in {"open", "reverse", "close"},
          stat \in RgStats, circuit \in RgCircuits, loss \in {0, 4, 6} :
         LET req == [symbol |-> s, action |-> action, dir |-> dir, entry |-> 100, stop |-> 95,
                     notional |-> RgSize(stat)]
         IN  /\ RgEvaluate(req, rgBook, loss, circuit)
             /\ rgBook' = [rgBook EXCEPT ![s] = IF action = "close" THEN RgFlat
                              ELSE [dir |-> dir, notional |-> req.notional]]
    /\ UNCHANGED <<rgView, rgPlan>>

RgInit == /\ rgView \in RgViews
          /\ rgPlan = RgNoPlan
          /\ rgBook = [s \in RgSymbols |-> RgFlat]
          /\ rgSteps = 0

\* The service's cycle and the guarded book share no state.
RgPlanNext == RgBuild \/ RgReview \/ RgRegister

RgSpec == RgInit /\ [][RgPlanNext \/ RgTrade]_rgVars

----------------------------------------------------------------------------
\* A plan that leaves the service keeps every limit of evaluateGlobalRisk
\* against the view it was planned on, whatever factor the reviewer sends and
\* whatever view came in meanwhile, and a review never enlarges it. A book
\* that was filled only with sized orders that the three layers allowed keeps
\* the count, total and direction limits and no correlated pair on one side,
\* through every sequence of opens, reversals and closes.
RgWithinLimits ==
    /\ rgPlan.pc = "sent" /\ rgPlan.candidates # <<>> =>
         LET v == rgPlan.view
             sent == RgProposed(rgPlan)
             percent == 10 * v.equity    \* one percent of the equity, in 1/1000
         IN  /\ ~v.paused /\ v.open < RgGuard.concurrent /\ v.loss < RgLimits.loss
             /\ sent <= rgPlan.passed
             /\ sent <= RgLimits.symbol * percent
             /\ sent + v.largest * percent <= Min({RgLimits.exposure, RgLimits.direction}) * percent
             /\ \A i \in DOMAIN rgPlan.candidates :
                   rgPlan.candidates[i] * rgPlan.price <= RgGuard.single * percent
    /\ Cardinality(RgHeld(rgBook)) <= RgGuard.concurrent
    /\ 100 * RgTotal(rgBook) <= RgGuard.total * RgEquity
    /\ \A dir \in {"long", "short"} : 100 * RgSide(rgBook, dir) <= RgGuard.direction * RgEquity
    /\ \A g \in RgGroups : \A a, b \in g :
         a # b /\ rgBook[a] # RgFlat /\ rgBook[b] # RgFlat => rgBook[a].dir # rgBook[b].dir
=============================================================================
