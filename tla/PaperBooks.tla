------------------------------ MODULE PaperBooks ------------------------------
(***************************************************************************)
(* The books of paper mode: one cash balance, the lots and the position    *)
(* row of a token (lib/engine/paper-trading), and the HyperCore position   *)
(* of each source wallet in a coin (lib/engine/hypercore-paper-trading).   *)
(*                                                                         *)
(* Copy trades, manual trades, close-all, the reconciliation with source   *)
(* wallets and the dashboard's refresh work on them side by side.  Between *)
(* two awaits one of them runs alone; what it read before an await it may  *)
(* write back after it.  A unit of the token or coin costs one unit of     *)
(* money; what selling brings, after fees, is free.  The token's address   *)
(* and the ids of rows are left out.                                       *)
(***************************************************************************)
EXTENDS Integers, Sequences, FiniteSets, Functions

CONSTANTS
  Op,         \* the operations that may be under way at once
  Wallet,     \* the source wallets
  NoWallet,   \* the owner of manual trades
  Money,      \* the starting balance
  MaxGas,     \* bound: the gas or fee of a purchase
  MaxGain,    \* bound: what a sale brings, or what closing a perp loses
  MaxTrades   \* bound: the trades of a behaviour

ASSUME PaperAssumption ==
  /\ IsFiniteSet(Wallet) /\ NoWallet \notin Wallet
  /\ Money \in Nat /\ MaxGas \in Nat /\ MaxGain \in Nat /\ MaxTrades \in Nat

VARIABLES
  cash,      \* the setting cashBalanceUsd
  lots,      \* position_lots of the token, by opening time
  position,  \* quantity of the token's row in positions, 0 without one
  holding,   \* hypercore_positions of the coin, by owner
  trades,    \* what the confirmed trades add up to, and how many there are
  op,        \* the operations and their local variables
  adrift     \* books to which a value read before another change was written,
             \* or whose balance was cut off at zero

token == <<lots, position>>
books == <<cash, token, holding, trades, adrift>>
paperVars == <<books, op>>

Owner == Wallet \cup {NoWallet}

Idle == [pc |-> "idle", owner |-> NoWallet, cash |-> 0, amount |-> 0, lots |-> << >>,
         position |-> 0, holding |-> [x \in Owner |-> 0], list |-> "none", todo |-> {}]

PaperInit ==
  /\ cash = Money
  /\ lots = << >>
  /\ position = 0
  /\ holding = [x \in Owner |-> 0]
  /\ trades = [token |-> 0, coin |-> 0, money |-> 0, count |-> 0]
  /\ op = [o \in Op |-> Idle]
  /\ adrift = {}

At(o, pc) == op[o].pc = pc

\* The lots that are still open, and what they hold.
Open(owners) == {i \in DOMAIN lots : lots[i].amount > 0 /\ lots[i].owner \in owners}
Eligible(owners) == [i \in Open(owners) |-> lots[i].amount]

\* setCashBalance
NonNegative(amount) == IF amount < 0 THEN 0 ELSE amount

\* A list of positions to close, and where an operation is when a trade is over.
Listing(list, todo) == [Idle EXCEPT !.pc = "listing", !.list = list, !.todo = todo]
Onward(o) ==
  op' = [op EXCEPT ![o] = IF @.list = "none" THEN Idle ELSE Listing(@.list, @.todo)]

\* The trade tables, after n units of what were bought (or sold, if negative).
Traded(what, n, paid) ==
  /\ trades.count < MaxTrades
  /\ trades' = [trades EXCEPT ![what] = @ + n, !.money = @ - paid, !.count = @ + 1]

\* syncPositionFromLots
SyncPosition == position' = SumFunction([i \in DOMAIN lots' |-> lots'[i].amount])

StaleCash(o) == IF op[o].cash = cash THEN {} ELSE {"cash"}

-----------------------------------------------------------------------------
(* Buying the token                                                         *)

\* What evaluateBuy may allot to a trade, and what a purchase costs on top of it.
Allocations == 1..cash
Fees == 0..MaxGas

\* executeBuy takes its snapshot and decides, then awaits the route and the gas.
BuyStarts(o, owner) ==
  /\ At(o, "idle")
  /\ \E a \in Allocations :
       op' = [op EXCEPT ![o] = [Idle EXCEPT !.pc = "buying", !.owner = owner,
                                            !.cash = cash, !.amount = a]]
  /\ UNCHANGED books

CopyBuys(o, w) == w \in Wallet /\ BuyStarts(o, w)
ManualBuys(o) == BuyStarts(o, NoWallet)

\* Skipped: gas or a fee takes it over the balance of the snapshot; a route or a
\* quote that cannot be had ends it too.
GivesUp(o) ==
  /\ At(o, "buying") \/ At(o, "selling") \/ At(o, "opening")
  /\ Onward(o)
  /\ UNCHANGED books

\* Fault: the balance is charged without the gas.
CostWithoutGas(amount, gas) == amount
Cost(amount, gas) == amount + gas

BuyBooks(o, gas) ==
  LET amount == op[o].amount IN
  /\ At(o, "buying")
  /\ amount + gas <= op[o].cash
  /\ cash' = NonNegative(op[o].cash - Cost(amount, gas))
  /\ Traded("token", amount, amount + gas)
  /\ lots' = Append(lots, [owner |-> op[o].owner, amount |-> amount])
  /\ SyncPosition
  /\ adrift' = (adrift \ {"position"}) \cup StaleCash(o)
  /\ Onward(o)
  /\ UNCHANGED holding

-----------------------------------------------------------------------------
(* Selling the token                                                        *)

\* executeSell: balance, position and lots are read before the route is awaited.
Sells(o, owners, amounts, todo) ==
  /\ position > 0
  /\ Open(owners) # {}
  /\ \E a \in (1..SumFunction(Eligible(owners))) \cap amounts :
       op' = [op EXCEPT ![o] = [@ EXCEPT !.pc = "selling", !.cash = cash, !.amount = a,
                                         !.lots = Eligible(owners), !.todo = todo]]
  /\ UNCHANGED books

Whole(owners) == {SumFunction(Eligible(owners))}

\* A copied sale sells what the source wallet's lots hold, a manual one a share
\* or a quantity of all lots.
CopySells(o, w) == At(o, "idle") /\ w \in Wallet /\ Sells(o, {w}, Whole({w}), {})
ManualSells(o) == At(o, "idle") /\ Sells(o, Owner, Nat, {})

\* consumeLots takes the quantity from the lots one after the other ...
Before(held, i) == SumFunctionOnSet(held, {j \in DOMAIN held : j < i})

\* Fault: every lot is asked for the whole quantity.
ConsumedWhole(held, quantity, i) == IF held[i] < quantity THEN held[i] ELSE quantity
Consumed(held, quantity, i) ==
  LET rest == NonNegative(quantity - Before(held, i))
  IN IF held[i] < rest THEN held[i] ELSE rest

\* ... until nothing remains, and writes what it leaves.
Written(held, quantity) == {i \in DOMAIN held : Before(held, i) < quantity}
LotsLess(held, quantity) ==
  [i \in DOMAIN lots |->
     IF i \in Written(held, quantity)
     THEN [lots[i] EXCEPT !.amount = held[i] - Consumed(held, quantity, i)]
     ELSE lots[i]]

StaleLots(held, quantity) ==
  IF \E i \in Written(held, quantity) : lots[i].amount # held[i] THEN {"lots"} ELSE {}

\* What modelPaperExecution may leave of the proceeds once the fees are paid.
Proceeds == 0..MaxGain

SellBooks(o, proceeds) ==
  LET held == op[o].lots
      quantity == op[o].amount IN
  /\ At(o, "selling")
  /\ lots' = LotsLess(held, quantity)
  /\ SyncPosition
  /\ cash' = NonNegative(op[o].cash + proceeds)
  /\ Traded("token", 0 - quantity, 0 - proceeds)
  /\ adrift' = (adrift \ {"position"}) \cup StaleCash(o) \cup StaleLots(held, quantity)
  /\ Onward(o)
  /\ UNCHANGED holding

-----------------------------------------------------------------------------
(* HyperCore positions                                                      *)

\* openPosition: the margin comes from the balance it read; a perp awaits the
\* source wallet's leverage, a spot fill books at once.
OpenStarts(o, w) ==
  /\ At(o, "idle") /\ w \in Wallet
  /\ \E margin \in Allocations :
       op' = [op EXCEPT ![o] = [Idle EXCEPT !.pc = "opening", !.owner = w, !.cash = cash,
                                            !.amount = margin]]
  /\ UNCHANGED books

OpenBooks(o, fee) ==
  LET margin == op[o].amount IN
  /\ At(o, "opening")
  /\ margin + fee <= op[o].cash
  /\ cash' = NonNegative(op[o].cash - Cost(margin, fee))
  /\ holding' = [holding EXCEPT ![op[o].owner] = @ + margin]
  /\ Traded("coin", margin, margin + fee)
  /\ adrift' = adrift \cup StaleCash(o)
  /\ Onward(o)
  /\ UNCHANGED token

\* What closing brings beyond nothing: the margin and the profit or loss.
Gains == -MaxGain..MaxGain

\* A closed position returns its margin and its gain; the loss of a perp may be
\* more than the margin, and the balance does not go below zero.
CloseBooks(owner, quantity, gain) ==
  /\ holding' = [holding EXCEPT ![owner] = @ - quantity]
  /\ cash' = NonNegative(cash + gain)
  /\ adrift' = adrift \cup (IF cash + gain < 0 THEN {"cash"} ELSE {})
  /\ Traded("coin", 0 - quantity, 0 - gain)
  /\ UNCHANGED token

\* closePosition: the fill's share of the source wallet's position.
CopyCloses(o, w, gain) ==
  /\ At(o, "idle") /\ w \in Wallet
  /\ \E quantity \in 1..holding[w] : CloseBooks(w, quantity, gain)
  /\ UNCHANGED op

\* executeHypercoreManualTrade awaits the markets and does the rest at once.
ManualOpens(o, fee) ==
  /\ At(o, "idle")
  /\ \E margin \in 1..(cash - fee) :
       /\ cash' = NonNegative(cash - Cost(margin, fee))
       /\ holding' = [holding EXCEPT ![NoWallet] = @ + margin]
       /\ Traded("coin", margin, margin + fee)
  /\ UNCHANGED <<token, op, adrift>>

\* It closes a share of the position it is given, whoever owns it.
ManualCloses(o, owner, gain) ==
  /\ At(o, "idle")
  /\ \E quantity \in 1..holding[owner] : CloseBooks(owner, quantity, gain)
  /\ UNCHANGED op

-----------------------------------------------------------------------------
(* Closing everything, and reconciling with the source wallets              *)

HeldCoins(owners) == {<<"coin", x>> : x \in {y \in owners : holding[y] > 0}}
Tokens(owners) == {<<"token", x>> : x \in {y \in owners : Open({y}) # {}}}

\* closeAllPaperPositions lists the positions, then closes one after the other.
CloseAllStarts(o) ==
  LET held == IF position > 0 THEN {<<"token", NoWallet>>} ELSE {} IN
  /\ At(o, "idle")
  /\ op' = [op EXCEPT ![o] = Listing("all", held \cup HeldCoins(Owner))]
  /\ UNCHANGED books

\* reconcileSourcePositions lists the copy lots by wallet ...
ReconcileStarts(o) ==
  /\ At(o, "idle")
  /\ op' = [op EXCEPT ![o] = Listing("tokens", Tokens(Wallet))]
  /\ UNCHANGED books

\* ... and, when it is through with them, the HyperCore positions.
ReconcileCoins(o) ==
  /\ At(o, "listing") /\ op[o].list = "tokens" /\ op[o].todo = {}
  /\ op' = [op EXCEPT ![o] = Listing("coins", HeldCoins(Wallet))]
  /\ UNCHANGED books

\* Tokens come first.
Turn(o, item) ==
  /\ At(o, "listing") /\ item \in op[o].todo
  /\ item[1] = "token" \/ \A other \in op[o].todo : other[1] # "token"

\* The source wallet still holds the position, or something failed.
Passes(o, item) ==
  /\ Turn(o, item)
  /\ op' = [op EXCEPT ![o].todo = @ \ {item}]
  /\ UNCHANGED books

\* Close-all sells the lots of all owners, the reconciliation one wallet's.
ListedSale(o, item) ==
  LET owners == IF op[o].list = "all" THEN Owner ELSE {item[2]} IN
  /\ Turn(o, item) /\ item[1] = "token"
  /\ Sells(o, owners, Whole(owners), op[o].todo \ {item})

ListedClose(o, item, gain) ==
  /\ Turn(o, item) /\ item[1] = "coin"
  /\ holding[item[2]] > 0
  /\ CloseBooks(item[2], holding[item[2]], gain)
  /\ op' = [op EXCEPT ![o].todo = @ \ {item}]

ListDone(o) ==
  /\ At(o, "listing") /\ op[o].todo = {} /\ op[o].list # "tokens"
  /\ op' = [op EXCEPT ![o] = Idle]
  /\ UNCHANGED books

-----------------------------------------------------------------------------
(* Refreshing the prices                                                    *)

\* refreshDashboardMarkets lists the positions and asks for prices.
RefreshStarts(o) ==
  /\ At(o, "idle")
  /\ op' = [op EXCEPT ![o] = [Idle EXCEPT !.pc = "pricing token", !.position = position,
                                           !.holding = holding]]
  /\ UNCHANGED books

\* With the new price it writes back the quantity it listed.
RefreshToken(o) ==
  /\ At(o, "pricing token")
  /\ \/ op[o].position > 0
        /\ position' = op[o].position
        /\ adrift' = adrift \cup (IF position = op[o].position THEN {} ELSE {"position"})
     \/ UNCHANGED <<position, adrift>>
  /\ op' = [op EXCEPT ![o].pc = "pricing coin"]
  /\ UNCHANGED <<cash, lots, holding, trades>>

\* A listed position whose market is missing keeps what it has, as all that follow
\* when a row is refused.  (A manual position closed and opened again meanwhile
\* gets a second row beside the first: the model keeps the listed one only.)
RefreshCoin(o) ==
  LET listed == {x \in Owner : op[o].holding[x] > 0} IN
  /\ At(o, "pricing coin")
  /\ \E written \in SUBSET listed :
       /\ holding' = [x \in Owner |-> IF x \in written THEN op[o].holding[x] ELSE holding[x]]
       /\ adrift' = adrift \cup
            (IF \A x \in written : holding[x] = op[o].holding[x] THEN {} ELSE {"holding"})
  /\ op' = [op EXCEPT ![o] = Idle]
  /\ UNCHANGED <<cash, lots, position, trades>>

-----------------------------------------------------------------------------
Starts(o) ==
  \/ \E w \in Wallet : CopyBuys(o, w) \/ CopySells(o, w) \/ OpenStarts(o, w)
  \/ ManualBuys(o) \/ ManualSells(o)
  \/ CloseAllStarts(o) \/ ReconcileStarts(o) \/ RefreshStarts(o)

Books(o) ==
  \/ \E gas \in Fees : BuyBooks(o, gas) \/ OpenBooks(o, gas) \/ ManualOpens(o, gas)
  \/ \E proceeds \in Proceeds : SellBooks(o, proceeds)
  \/ \E gain \in Gains, x \in Owner :
       CopyCloses(o, x, gain) \/ ManualCloses(o, x, gain)

Lists(o) ==
  \/ \E item \in op[o].todo :
       \/ Passes(o, item) \/ ListedSale(o, item)
       \/ \E gain \in Gains : ListedClose(o, item, gain)
  \/ ReconcileCoins(o) \/ ListDone(o)

Refreshes(o) == RefreshToken(o) \/ RefreshCoin(o)

PaperNext == \E o \in Op : Starts(o) \/ GivesUp(o) \/ Books(o) \/ Lists(o) \/ Refreshes(o)

PaperSpec == PaperInit /\ [][PaperNext]_paperVars

-----------------------------------------------------------------------------
Total(f) == SumFunction(f)

OpType ==
  [pc : {"idle", "buying", "selling", "opening", "listing", "pricing token", "pricing coin"},
   owner : Owner, cash : Nat, amount : Nat, position : Nat, holding : [Owner -> Nat],
   list : {"none", "all", "tokens", "coins"}, todo : SUBSET ({"token", "coin"} \X Owner)]

WithoutLots(r) == [f \in DOMAIN r \ {"lots"} |-> r[f]]

\* Every variable has its type; balances and quantities are never negative.
PaperTypeOK ==
  /\ cash \in Nat /\ position \in Nat /\ holding \in [Owner -> Nat]
  /\ lots \in Seq([owner : Owner, amount : Nat])
  /\ trades \in [token : Int, coin : Int, money : Int, count : 0..MaxTrades]
  /\ \A o \in Op :
       /\ WithoutLots(op[o]) \in OpType
       /\ DOMAIN op[o].lots \subseteq DOMAIN lots
       /\ \A i \in DOMAIN op[o].lots : op[o].lots[i] \in Nat
  /\ adrift \subseteq {"cash", "lots", "position", "holding"}

\* As long as no trade wrote a balance that another one had changed since it was
\* read, the cash is the starting balance and what all confirmed trades paid.
CashMatchesTrades == "cash" \notin adrift => cash = Money + trades.money

\* As long as no stale quantity was written, the open lots of the token and its
\* position row hold what was bought and not sold, and so do the HyperCore
\* positions, whatever copy and manual sales, close-all and reconciliation did.
HeldMatchesTrades ==
  /\ "lots" \notin adrift => Total([i \in DOMAIN lots |-> lots[i].amount]) = trades.token
  /\ "position" \notin adrift => position = Total([i \in DOMAIN lots |-> lots[i].amount])
  /\ "holding" \notin adrift => Total(holding) = trades.coin

===============================================================================
