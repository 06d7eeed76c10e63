--------------------------- MODULE PaperExchange ---------------------------
(***************************************************************************)
(* The paper exchange of internal/execution: MemoryState (orders and       *)
(* positions, each operation under one lock) and PaperBackend, whose       *)
(* Execute and ProcessPriceTick are sequences of such operations. Fees,    *)
(* slippage and profit are left out; prices are kept because they decide   *)
(* whether an order fills. Clients that name their orders use each name    *)
(* once.  Open orders are listed by creation time in milliseconds and then *)
(* by name, so orders that are close in time may come in any order.        *)
(***************************************************************************)
EXTENDS Integers, FiniteSets, Functions

CONSTANTS PxIntents,   \* the order intents clients may send (records, see PxType)
          PxMarks,     \* mark prices
          PxCallers,   \* goroutines that call the client
          PxOverlap,   \* TRUE: calls may overlap; FALSE: one at a time
          PxMaxOrders, PxMaxTicks   \* bounds of the model

ASSUME PxAssumption == \A i \in PxIntents : i.qty \in Int

VARIABLES pxOrders,     \* order id -> [intent, status]: a partial function
          pxPositions,  \* position key -> quantity: a partial function
          pxNext,       \* nextID: ids handed to intents that carry none
          pxTicks,      \* ticks so far (bound) 
          pxCalls,      \* caller -> [pc, intent, id, mark, todo]
          pxFills       \* history: order id -> fills applied on its behalf

pxVars == <<pxOrders, pxPositions, pxNext, pxTicks, pxCalls, pxFills>>

PxNoPrice == 0
PxNoOrder == <<"none", 0>>
PxIdle == [pc |-> "idle", id |-> PxNoOrder, mark |-> PxNoPrice, todo |-> {}]
PxKey(i) == <<i.symbol, i.pos>>

PxInit == /\ pxOrders = <<>>
          /\ pxPositions = <<>>
          /\ pxNext = 0
          /\ pxTicks = 0
          /\ pxCalls = [c \in PxCallers |-> PxIdle]
          /\ pxFills = <<>>

----------------------------------------------------------------------------
(* Pure parts of the backend.                                              *)

PxValid(i) == /\ i.qty > 0
              /\ i.type \in {"market", "limit", "stop_loss", "take_profit",
                             "stop_market", "stop_limit"}

\* resolvePrice: the provider's price, else the intent's reference price.
PxResolve(i, provided) ==
    LET refused == [ok |-> FALSE, price |-> PxNoPrice]
        priced(p) == [ok |-> TRUE, price |-> p]
    IN  CASE provided # PxNoPrice -> priced(provided)
          [] i.type \in {"market", "stop_loss", "take_profit"} -> priced(i.price)
          [] i.type \in {"limit", "stop_limit"} -> priced(PxNoPrice)
          [] OTHER -> refused

\* A buy stop triggers upwards, a sell stop downwards.
PxAbove(i, mark) == mark >= i.trigger
PxBelow(i, mark) == mark <= i.trigger

PxShouldFill(i, mark) ==
    /\ mark # PxNoPrice
    /\ \/ i.type = "market"
       \/ /\ i.type = "limit" /\ i.price > 0
          /\ IF i.side = "buy" THEN mark <= i.price ELSE mark >= i.price
       \/ /\ i.type = "stop_loss" /\ i.trigger > 0
          /\ IF i.side = "buy" THEN PxAbove(i, mark) ELSE PxBelow(i, mark)
       \/ /\ i.type = "take_profit" /\ i.trigger > 0
          /\ IF i.side = "buy" THEN PxBelow(i, mark) ELSE PxAbove(i, mark)

\* Long positions grow on buys, short positions on sells.
PxSigned(i) == IF (i.pos = "long") = (i.side = "buy") THEN i.qty ELSE -i.qty

PxQuantity(positions, k) == IF k \in DOMAIN positions THEN positions[k] ELSE 0

PxWith(f, k, v) == [x \in DOMAIN f \cup {k} |-> IF x = k THEN v ELSE f[x]]
PxWithout(f, k) == [x \in DOMAIN f \ {k} |-> f[x]]

\* Mutant: a closing order larger than the position is filled.
PxNeverFlips(positions, i) == FALSE
\* updatePosition refuses to close more than is held.
PxFlips(positions, i) == PxQuantity(positions, PxKey(i)) + PxSigned(i) < 0

\* ApplyFill creates the entry before updatePosition may refuse, so a refused
\* fill leaves an entry with quantity 0; a position that reaches 0 is deleted.
PxApplyFill(positions, i) ==
    LET k == PxKey(i)
        q == PxQuantity(positions, k) + PxSigned(i)
    IN  IF PxFlips(positions, i)
        THEN PxWith(positions, k, PxQuantity(positions, k))
        ELSE IF q = 0 THEN PxWithout(positions, k) ELSE PxWith(positions, k, q)

\* ListOpenOrders.
PxResting == {"accepted", "open", "triggered"}
PxListOpen(orders, symbol) ==
    {d \in DOMAIN orders : orders[d].intent.symbol = symbol /\ orders[d].status \in PxResting}

----------------------------------------------------------------------------
(* Steps. An order id is <<"own", n>> when the client chose it and         *)
(* <<"paper", n>> when PutOrder did.                                       *)

PxPut(id, i, status) == pxOrders' = PxWith(pxOrders, id, [intent |-> i, status |-> status])

PxSetStatus(id, status) == pxOrders' = [pxOrders EXCEPT ![id].status = status]

PxGoto(c, pc) == pxCalls' = [pxCalls EXCEPT ![c].pc = pc]
PxReturn(c) == pxCalls' = [pxCalls EXCEPT ![c] = PxIdle]

PxMayStart(c) == /\ pxCalls[c].pc = "idle"
                 /\ PxOverlap \/ \A o \in PxCallers : pxCalls[o].pc = "idle"

\* The id PutOrder stores under: the intent's, or the next of its own.
PxNewID(own) == IF own THEN <<"own", Cardinality(DOMAIN pxOrders)>>
                ELSE <<"paper", pxNext + 1>>
PxCount(own) == pxNext' = IF own THEN pxNext ELSE pxNext + 1

\* Execute up to and including its first PutOrder.
PxExecute(c) ==
    /\ PxMayStart(c)
    /\ Cardinality(DOMAIN pxOrders) < PxMaxOrders
    /\ \E i \in PxIntents, provided \in PxMarks \cup {PxNoPrice}, own \in BOOLEAN :
         LET r == PxResolve(i, provided)
             id == PxNewID(own)
             refused == \/ ~PxValid(i) \/ ~r.ok
                        \/ i.type = "market" /\ r.price = PxNoPrice
             next == IF refused THEN "rejecting"
                     ELSE IF PxShouldFill(i, r.price) THEN "filling" ELSE "opening"
         IN  /\ PxPut(id, i, IF refused THEN "rejected" ELSE "accepted")
             /\ PxCount(own)
             /\ pxFills' = PxWith(pxFills, id, 0)
             /\ pxCalls' = [pxCalls EXCEPT ![c] = [pc |-> next, id |-> id,
                                mark |-> r.price, todo |-> {}]]
    /\ UNCHANGED <<pxPositions, pxTicks>>

\* ApplyFill; when it refuses, reject() puts the order again. An intent without
\* an id gets a second record that way, and the first stays accepted.
PxExecFill(c) ==
    /\ pxCalls[c].pc = "filling"
    /\ LET id == pxCalls[c].id
           i == pxOrders[id].intent
           again == IF id[1] = "own" THEN id ELSE <<"paper", pxNext + 1>>
       IN  /\ pxPositions' = PxApplyFill(pxPositions, i)
           /\ IF PxFlips(pxPositions, i)
              THEN /\ PxPut(again, i, "rejected")
                   /\ pxNext' = IF id[1] = "own" THEN pxNext ELSE pxNext + 1
                   /\ pxFills' = PxWith(pxFills, again, 0)
                   /\ pxCalls' = [pxCalls EXCEPT ![c].pc = "rejecting", ![c].id = again]
              ELSE /\ pxFills' = [pxFills EXCEPT ![id] = @ + 1]
                   /\ PxGoto(c, "filled")
                   /\ UNCHANGED <<pxOrders, pxNext>>
    /\ UNCHANGED pxTicks

\* The closing UpdateOrder of Execute and of reject.
PxExecUpdate(c) ==
    /\ pxCalls[c].pc \in {"filled", "opening", "rejecting"}
    /\ PxSetStatus(pxCalls[c].id, CASE pxCalls[c].pc = "filled" -> "filled"
                                    [] pxCalls[c].pc = "opening" -> "open"
                                    [] pxCalls[c].pc = "rejecting" -> "rejected")
    /\ PxReturn(c)
    /\ UNCHANGED <<pxPositions, pxNext, pxTicks, pxFills>>

\* ProcessPriceTick: the list, then a fill and an update for each order that
\* the price satisfies. The list is not looked at again.
PxTick(c) ==
    /\ PxMayStart(c)
    /\ pxTicks < PxMaxTicks
    /\ pxTicks' = pxTicks + 1
    /\ \E mark \in PxMarks, s \in {i.symbol : i \in PxIntents} :
         pxCalls' = [pxCalls EXCEPT ![c] = [pc |-> "ticking", id |-> PxNoOrder, mark |-> mark,
             todo |-> {d \in PxListOpen(pxOrders, s) : PxShouldFill(pxOrders[d].intent, mark)}]]
    /\ UNCHANGED <<pxOrders, pxPositions, pxNext, pxFills>>

\* A refused fill passes to the next order.
PxTickFill(c) ==
    /\ pxCalls[c].pc = "ticking"
    /\ \E d \in pxCalls[c].todo :
         LET i == pxOrders[d].intent
             flips == PxFlips(pxPositions, i)
         IN  /\ pxPositions' = PxApplyFill(pxPositions, i)
             /\ pxFills' = IF flips THEN pxFills ELSE [pxFills EXCEPT ![d] = @ + 1]
             /\ pxCalls' = [pxCalls EXCEPT ![c].todo = @ \ {d}, ![c].id = d,
                                           ![c].pc = IF flips THEN "ticking" ELSE "marking"]
    /\ UNCHANGED <<pxOrders, pxNext, pxTicks>>

PxTickMark(c) ==
    /\ pxCalls[c].pc = "marking"
    /\ PxSetStatus(pxCalls[c].id, "filled")
    /\ PxGoto(c, "ticking")
    /\ UNCHANGED <<pxPositions, pxNext, pxTicks, pxFills>>

PxTickDone(c) ==
    /\ pxCalls[c].pc = "ticking"
    /\ pxCalls[c].todo = {}
    /\ PxReturn(c)
    /\ UNCHANGED <<pxOrders, pxPositions, pxNext, pxTicks, pxFills>>

\* CancelOrder leaves an order alone that has reached a final status.
PxCancel(c) ==
    /\ PxMayStart(c)
    /\ \E d \in DOMAIN pxOrders :
         /\ pxOrders[d].status \notin {"filled", "cancelled", "rejected"}
         /\ PxSetStatus(d, "cancelled")
    /\ UNCHANGED <<pxPositions, pxNext, pxTicks, pxCalls, pxFills>>

PxNext == \E c \in PxCallers :
              \/ PxExecute(c) \/ PxExecFill(c) \/ PxExecUpdate(c)
              \/ PxTick(c) \/ PxTickFill(c) \/ PxTickMark(c) \/ PxTickDone(c)
              \/ PxCancel(c)

PxSpec == PxInit /\ [][PxNext]_pxVars

----------------------------------------------------------------------------
PxNetFilled(k) ==
    SumFunctionOnSet([d \in DOMAIN pxOrders |-> PxSigned(pxOrders[d].intent)],
        {d \in DOMAIN pxOrders : pxOrders[d].status = "filled"
                                  /\ PxKey(pxOrders[d].intent) = k})

\* Between calls every position is the net of the orders marked filled, every
\* such order was applied once and no other order was: neither a refused fill,
\* nor a cancellation, nor a second tick can make the two books disagree.  No
\* sequence of exits, resting ones that trigger late included, sells more than
\* is held.
PxBooksBalance ==
    (\A c \in PxCallers : pxCalls[c].pc = "idle") =>
        /\ \A k \in {PxKey(i) : i \in PxIntents} :
               PxQuantity(pxPositions, k) = PxNetFilled(k) /\ PxNetFilled(k) >= 0
        /\ \A d \in DOMAIN pxOrders :
               pxFills[d] = IF pxOrders[d].status = "filled" THEN 1 ELSE 0
=============================================================================
