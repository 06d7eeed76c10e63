------------------------------ MODULE MCTrading -----------------------------
(***************************************************************************)
(* The trading components for TLC.  Inside the model they share no state   *)
(* (each stands for one process, or for one object behind its own lock),   *)
(* so a behaviour steps one of them, named by focus; the others stay as    *)
(* they began.                                                             *)
(***************************************************************************)
EXTENDS PaperExchange, QuantService, CentralBrain, DataBrain, RiskGuard, TraderConfig, TLC

VARIABLE focus

tradingVars == <<focus, pxVars, quVars, ceVars, daVars, rgVars, tcVars>>

\* Where another component is in focus, inputs of Init have one value.
TradingInit ==
  /\ focus \in {"paper", "quant", "central", "data", "plan", "book", "config"}
  /\ PxInit /\ QuInit /\ CeInit /\ DaInit /\ RgInit /\ TcInit
  /\ focus # "plan" => rgView = CHOOSE v \in RgViews : TRUE
  /\ focus # "config" => ~tcNoise

Others(f) ==
  /\ UNCHANGED focus
  /\ f # "paper" => UNCHANGED pxVars
  /\ f # "quant" => UNCHANGED quVars
  /\ f # "central" => UNCHANGED ceVars
  /\ f # "data" => UNCHANGED daVars
  /\ f \notin {"plan", "book"} => UNCHANGED rgVars
  /\ f # "config" => UNCHANGED tcVars

TradingNext ==
  \/ focus = "paper"   /\ PxNext /\ Others("paper")
  \/ focus = "quant"   /\ QuNext /\ Others("quant")
  \/ focus = "central" /\ CeNext /\ Others("central")
  \/ focus = "data"    /\ DaNext /\ Others("data")
  \/ focus = "plan"    /\ RgPlanNext /\ Others("plan")
  \/ focus = "book"    /\ RgTrade /\ Others("book")
  \/ focus = "config"  /\ TcNext /\ Others("config")

TradingSpec == TradingInit /\ [][TradingNext]_tradingVars

-----------------------------------------------------------------------------
\* A restart of any of the three brains is harmless: a pause, a stop or a review
\* that was answered is in force again, acknowledged events are neither lost nor
\* counted twice, and no account is left recovering.
RestartsHarmless ==
  CeAnsweredDurable /\ DaAckedKept /\ QuPauseSurvives /\ QuNoAccountStuck

-----------------------------------------------------------------------------
(* The instance. *)

Intent(type, side, qty, price, trigger) ==
  [symbol |-> "x", pos |-> "long", type |-> type, side |-> side, qty |-> qty,
   price |-> price, trigger |-> trigger]

\* One of every order type, entries and exits that can cross each other.
Intents == {Intent("market", "buy", 1, 1, 0), Intent("market", "sell", 2, 0, 0),
            Intent("limit", "buy", 1, 1, 0), Intent("limit", "sell", 1, 2, 0),
            Intent("stop_loss", "sell", 1, 2, 1), Intent("take_profit", "sell", 1, 0, 2),
            Intent("stop_market", "buy", 1, 1, 2), Intent("stop_limit", "buy", 0, 1, 1)}

Accounts == <<"a">>

Event(topic, symbol, ts, digest) ==
  [topic |-> topic, symbol |-> symbol, ts |-> ts, digest |-> digest]

\* A provider that repeats and reorders its trades, and one whose book updates
\* carry one timestamp.
ProviderEvents ==
  [p |-> <<Event("trade", "x", 1, 1), Event("trade", "x", 2, 2), Event("trade", "x", 2, 2),
           Event("trade", "x", 1, 1)>>,
   q |-> <<Event("book", "x", 1, 1), Event("book", "x", 1, 2), Event("trade", "y", 3, 1)>>]

Signal(strategy, dir, confidence, stop) ==
  [strategy |-> strategy, dir |-> dir, confidence |-> confidence, stop |-> stop]

Signals ==
  {<<>>,
   <<Signal("TrendFollower", "long", 100, 95), Signal("MeanReversion", "long", 90, 95)>>,
   <<Signal("TrendFollower", "short", 100, 106), Signal("BreakoutMomentum", "short", 100, 106),
     Signal("OrderFlow", "long", 100, 90)>>,
   <<Signal("TrendFollower", "long", 120, 95), Signal("MeanReversion", "long", 100, 95),
     Signal("BreakoutMomentum", "long", 100, 95), Signal("OrderFlow", "long", 100, 95)>>,
   <<Signal("TrendFollower", "long", 100, 80), Signal("MeanReversion", "long", 100, 80)>>,
   <<Signal("TrendFollower", "long", 100, 95), Signal("MeanReversion", "short", 100, 95)>>}

View(equity, open, largest, loss, paused) ==
  [equity |-> equity, open |-> open, largest |-> largest, loss |-> loss, paused |-> paused]

\* Each view is on one side of some limit.
Views == {View(2000, 0, 0, 0, FALSE), View(2000, 3, 0, 0, FALSE), View(4000, 0, 6, 0, FALSE),
          View(4000, 4, 20, 4, FALSE), View(4000, 5, 0, 0, FALSE), View(0, 0, 0, 0, FALSE),
          View(2000, 0, 0, 5, FALSE), View(2000, 0, 0, 0, TRUE), View(1000, 1, 6, 0, FALSE)}

Limits == [exposure |-> 50, direction |-> 24, loss |-> 5, symbol |-> 15]
GuardLimits == [single |-> 5, stopDistance |-> 10, concurrent |-> 5, total |-> 12,
                direction |-> 8, stopNew |-> 3, liquidate |-> 5, memory |-> 40]
Circuits == {[volatility |-> 50, btc |-> 0, failures |-> 0, memory |-> 1, interestDrop |-> 0],
             [volatility |-> 100, btc |-> 0, failures |-> 0, memory |-> 1, interestDrop |-> 0]}
Stats == {<<40, 1, 1>>, <<56, 1, 1>>, <<90, 1, 1>>}

Written(style, words) == [style |-> style, words |-> words]

\* Texts that read as numbers, as durations and as neither.
Ints == ("5" :> 5) @@ ("0" :> 0) @@ ("007" :> 7)
Floats == "0.5" :> 5000
Durations == "3d" :> 259200
Printed == ("5" :> "5") @@ ("0" :> "0") @@ ("007" :> "7") @@ ("0.5" :> "0.5")
Paths == {<<"mode">>, <<"instruments">>, <<"data">>, <<"other">>,
          <<"data", "history_candles">>, <<"data", "ws_reconnect_delay">>,
          <<"strategy", "initial_weights">>, <<"risk", "daily_loss_pause">>,
          <<"llm", "enabled">>, <<"llm", "model">>, <<"llm", "timeout">>,
          <<"database", "password">>, <<"database", "port">>, <<"executor", "unknown">>}
Texts == {Written("plain", <<"5">>), Written("plain", <<"007">>), Written("quoted", <<"0">>),
          Written("plain", <<"0.5">>), Written("plain", <<"live">>), Written("plain", <<"no">>),
          Written("quoted", <<"3d">>), Written("none", <<>>), Written("inline", <<>>),
          Written("inline", <<"5", "3d">>), Written("block", <<"5", "0.5", "007", "0">>),
          Written("block", <<"live", "live">>)}
=============================================================================
