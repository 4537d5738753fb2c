---------------------------- MODULE HypercoreOrders ----------------------------
(***************************************************************************)
(* Live orders on HyperCore (prepareHypercoreExecution and                 *)
(* executeHypercorePlan with mode "live"): the plan is sized from what the *)
(* account shows, the leverage is set, the client's order id is recorded,  *)
(* an IOC order is sent, and what a spot purchase brought is measured as a *)
(* difference of balances.                                                 *)
(*                                                                         *)
(* One coin, with a perpetual and a spot market; the account has a single  *)
(* perpetual position in it, whatever the trades on each side.  Quantities *)
(* are ticks.  Left out: prices, fees, limits and collateral, which may    *)
(* refuse a trade before it is sent, and the "resting" answer, which an    *)
(* IOC order does not get.                                                 *)
(***************************************************************************)
EXTENDS Integers

CONSTANTS
  Trade,       \* executions in progress
  MaxSize,     \* bound of one order
  MaxHeld,     \* bound of the position and of the balance
  MaxReads,    \* reads of waitForSpotBalanceIncrease (nine)
  MaxOutside   \* bound of the position's changes by others

ASSUME OrdersAssumption == {MaxSize, MaxHeld, MaxReads, MaxOutside} \subseteq Nat /\ MaxReads > 0

VARIABLES
  szi,      \* the perpetual position, signed
  spot,     \* the spot balance
  shown,    \* the balance the Info API answers with: it may lag behind spot
  outside,  \* changes made by the exchange (liquidations)
  trade

orderVars == <<szi, spot, shown, outside, trade>>

Intent == [market : {"perp", "spot"}, side : {"long", "short"}, action : {"open", "close"}]
Supported == {i \in Intent : i.market = "spot" => i.side = "long"}

IdleTrade == [pc |-> "idle", intent |-> CHOOSE i \in Supported : TRUE, size |-> 0, before |-> 0,
         refs |-> {}, filled |-> 0, received |-> 0, reads |-> 0, alone |-> FALSE]

OrdersInit ==
  /\ szi \in {-1, 0, 1} /\ spot \in {0, 1} /\ shown = spot /\ outside = 0
  /\ trade = [t \in Trade |-> IdleTrade]

Abs(n) == IF n < 0 THEN -n ELSE n
Lesser(m, n) == IF m < n THEN m ELSE n
On(t, market) == trade[t].intent.market = market
Does(t, action) == trade[t].intent.action = action
Become(t, r) == trade' = [trade EXCEPT ![t] = r]
account == <<szi, spot, shown, outside>>

-----------------------------------------------------------------------------
(* prepareHypercoreExecution                                                *)

\* An opening trade is sized from the collateral, within the limits.
PrepareOpen(t) ==
  \E i \in Supported, quantity \in 1..MaxSize :
    /\ i.action = "open"
    /\ Become(t, [IdleTrade EXCEPT !.pc = "planned", !.intent = i, !.size = quantity])
    /\ UNCHANGED account

\* What can be closed now: the perpetual position, of whichever side, or the
\* spot balance.
Closable(i) == IF i.market = "perp" THEN Abs(szi) ELSE shown

\* A closing trade never plans more than that; with nothing to close it ends.
PrepareClose(t) ==
  \E i \in Supported, quantity \in 1..MaxSize :
    /\ i.action = "close" /\ Closable(i) > 0
    /\ Become(t, [IdleTrade EXCEPT !.pc = "planned", !.intent = i,
                              !.size = Lesser(Closable(i), quantity)])
    /\ UNCHANGED account

Prepare(t) == trade[t].pc = "idle" /\ (PrepareOpen(t) \/ PrepareClose(t))

-----------------------------------------------------------------------------
(* executeHypercorePlan                                                     *)

\* The balance a spot trade will be measured against.
ReadBefore(t) ==
  /\ trade[t].pc = "planned"
  /\ Become(t, [trade[t] EXCEPT !.pc = "starting", !.before = IF On(t, "spot") THEN shown ELSE 0,
                                !.alone = shown = spot])
  /\ UNCHANGED account

ReduceNever(t) == FALSE
ReduceOnly(t) == On(t, "perp") /\ Does(t, "close")

\* configureHypercoreLeverage, for a perpetual order that does not reduce:
\* cross, or isolated where the asset wants it; any other error ends the trade.
LeverageFails(t) ==
  /\ trade[t].pc = "starting" /\ On(t, "perp") /\ ~ReduceOnly(t)
  /\ Become(t, [trade[t] EXCEPT !.pc = "refused"])
  /\ UNCHANGED account

\* hooks.onSubmitted with the client's order id, before the order is sent.
RecordClientId(t) == trade[t].refs \union {"cloid"}

Submit(t) ==
  /\ trade[t].pc = "starting"
  /\ Become(t, [trade[t] EXCEPT !.pc = "sent", !.refs = RecordClientId(t)])
  /\ UNCHANGED account

\* The exchange matches an IOC order in part, wholly or not at all.  One that
\* may only reduce is cut to the position, and refused on its own side of it.
Direction(t) ==
  IF (trade[t].intent.side = "long") = Does(t, "open") THEN 1 ELSE -1

Matchable(t) ==
  CASE On(t, "spot") /\ Does(t, "open") -> trade[t].size
    [] On(t, "spot") -> Lesser(spot, trade[t].size)
    [] ReduceOnly(t) -> IF szi * Direction(t) < 0 THEN Lesser(Abs(szi), trade[t].size) ELSE 0
    [] OTHER -> trade[t].size

Fill(t) ==
  /\ trade[t].pc \in {"sent", "unknown"} /\ trade[t].filled = 0
  /\ \E filled \in 1..Matchable(t) :
       /\ IF On(t, "perp")
          THEN szi' = szi + Direction(t) * filled /\ UNCHANGED spot
          ELSE spot' = spot + Direction(t) * filled /\ UNCHANGED szi
       /\ Abs(szi') <= MaxHeld /\ spot' <= MaxHeld
       /\ trade' = [u \in Trade |->
            IF u = t THEN [trade[t] EXCEPT !.pc = IF @ = "sent" THEN "matched" ELSE @,
                                           !.filled = filled]
            ELSE [trade[u] EXCEPT !.alone = @ /\ On(t, "perp")]]
  /\ UNCHANGED <<shown, outside>>

\* The status of the order is an error.
Refuse(t) ==
  /\ trade[t].pc = "sent"
  /\ Become(t, [trade[t] EXCEPT !.pc = "refused"])
  /\ UNCHANGED account

\* The answer names the exchange's order id; of a spot purchase the code then
\* waits to see the tokens.
Answer(t) ==
  /\ trade[t].pc = "matched"
  /\ LET answered == [trade[t] EXCEPT !.refs = @ \union {"oid"}, !.received = trade[t].filled] IN
     Become(t, [answered EXCEPT !.pc =
                  IF On(t, "spot") /\ Does(t, "open") THEN "measuring" ELSE "filled"])
  /\ UNCHANGED account

\* The connection breaks: the handler sees an error, whether the order was
\* filled, is filled later, or never arrives.
LoseAnswer(t) ==
  /\ trade[t].pc \in {"sent", "matched"}
  /\ Become(t, [trade[t] EXCEPT !.pc = "unknown"])
  /\ UNCHANGED account

\* waitForSpotBalanceIncrease; without an increase the trade ends in an error
\* although it was filled.
ReceivedTotal(t) == shown
Received(t) == shown - trade[t].before

Measure(t) ==
  /\ trade[t].pc = "measuring"
  /\ LET read == [trade[t] EXCEPT !.reads = @ + 1] IN
     Become(t, IF shown > trade[t].before
               THEN [read EXCEPT !.pc = "filled", !.received = Received(t)]
               ELSE IF read.reads < MaxReads THEN read ELSE [read EXCEPT !.pc = "unknown"])
  /\ UNCHANGED account

-----------------------------------------------------------------------------
(* The exchange                                                             *)

CatchUp == shown # spot /\ shown' = spot /\ UNCHANGED <<szi, spot, outside, trade>>

Liquidate ==
  /\ szi # 0 /\ outside < MaxOutside
  /\ szi' = 0 /\ outside' = outside + 1
  /\ UNCHANGED <<spot, shown, trade>>

Step(t) ==
  \/ Prepare(t) \/ ReadBefore(t) \/ LeverageFails(t) \/ Submit(t)
  \/ Fill(t) \/ Refuse(t) \/ Answer(t) \/ LoseAnswer(t) \/ Measure(t)

OrdersNext == (\E t \in Trade : Step(t)) \/ CatchUp \/ Liquidate

OrdersSpec == OrdersInit /\ [][OrdersNext]_orderVars

-----------------------------------------------------------------------------
\* The account and the trades have their types.
OrdersTypeOK ==
  /\ szi \in -MaxHeld..MaxHeld /\ {spot, shown} \subseteq 0..MaxHeld /\ outside \in 0..MaxOutside
  /\ \A t \in Trade :
       /\ trade[t].pc \in {"idle", "planned", "starting", "sent", "matched", "measuring",
                           "filled", "refused", "unknown"}
       /\ trade[t].intent \in Supported /\ trade[t].refs \subseteq {"cloid", "oid"}

\* A close makes the position smaller and never turns it over, although the
\* account has one position for the lots of all wallets and sides, and although
\* a liquidation or another close may come between the plan and the order.
ClosesNeverReverse ==
  [][\A t \in Trade :
       trade'[t].filled # 0 /\ trade[t].filled = 0 /\ On(t, "perp") /\ Does(t, "close")
         => szi * szi' >= 0 /\ Abs(szi') < Abs(szi)]_orderVars

\* Whatever the exchange filled can be found again by a recorded reference,
\* also when its answer was lost.
FilledIsRecorded == \A t \in Trade : trade[t].filled > 0 => "cloid" \in trade[t].refs

\* A spot purchase reports what its order brought, unless the balance was
\* behind when the trade began or another trade of the coin was filled
\* meanwhile: the difference of balances cannot tell them apart.
SpotMeasuredAlone ==
  \A t \in Trade :
    trade[t].pc = "filled" /\ trade[t].alone => trade[t].received = trade[t].filled

===============================================================================
