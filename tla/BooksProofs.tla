----------------------------- MODULE BooksProofs ------------------------------
(***************************************************************************)
(* Theorems on the books: that what paper mode has in cash and holds, and  *)
(* what the execution lots say the program holds, are what the trades made *)
(* of them, except where a value read before another change was written    *)
(* back.                                                                   *)
(*                                                                         *)
(* First the cash of paper mode, then sums over tables of lots, which both *)
(* components use up in the order of their opening, then the holdings of   *)
(* paper mode and last the execution lots.                                 *)
(***************************************************************************)
EXTENDS PaperBooks, ExecutionLots, SumTheorems

-----------------------------------------------------------------------------
(***************************************************************************)
(* The cash of paper mode matches the trades, for any operations under way *)
(* at once, wallets, starting balance and bounds.                          *)
(*                                                                         *)
(* What makes the argument inductive is that an operation which waits      *)
(* keeps a balance that was not negative and, when it buys, an amount that *)
(* is a number: the check of the costs against that balance then keeps     *)
(* NonNegative from cutting off.  How much is sold plays no part, so this  *)
(* needs nothing about the lots.                                           *)
(***************************************************************************)

USE PaperAssumption

\* The local variables that the cash depends on.
Sound(r) ==
  /\ {"pc", "cash", "amount"} \subseteq DOMAIN r
  /\ r.cash \in Nat
  /\ r.pc \in {"buying", "opening"} => r.amount \in Nat

OpInv == DOMAIN op = Op /\ \A o \in Op : Sound(op[o])

MoneyType == cash \in Nat /\ "money" \in DOMAIN trades /\ trades.money \in Int

CashInv == MoneyType /\ OpInv /\ CashMatchesTrades

-----------------------------------------------------------------------------
LEMMA IdleIsSound == Sound(Idle) /\ \A list, todo : Sound(Listing(list, todo))
  BY DEF Sound, Idle, Listing

\* setCashBalance does not cut off a balance that is a natural number.
LEMMA NotCutOff == \A n \in Nat : NonNegative(n) = n
  BY DEF NonNegative

LEMMA NeverNegative == \A n \in Int : NonNegative(n) \in Nat
  BY DEF NonNegative

\* Only the operation that steps changes its local variables.
LEMMA OneSteps ==
  ASSUME OpInv, NEW o \in Op, NEW r, Sound(r), op' = [op EXCEPT ![o] = r]
  PROVE  OpInv'
  BY DEF OpInv

LEMMA Onwards ==
  ASSUME OpInv, NEW o \in Op, Onward(o)
  PROVE  OpInv'
<1>1. op' = [op EXCEPT ![o] = IF op[o].list = "none" THEN Idle
                              ELSE Listing(op[o].list, op[o].todo)]
  BY DEF OpInv, Onward
<1>. QED
  BY <1>1, IdleIsSound, OneSteps

\* A trade moves the money of the confirmed trades by what it paid.
LEMMA TradeMovesMoney ==
  ASSUME MoneyType, NEW what \in {"token", "coin"}, NEW n, NEW paid \in Int, Traded(what, n, paid)
  PROVE  "money" \in DOMAIN trades' /\ trades'.money = trades.money - paid
  BY DEF MoneyType, Traded

\* An operation that leaves the books alone.
LEMMA BooksRest ==
  ASSUME CashInv, NEW o \in Op, NEW r, Sound(r), op' = [op EXCEPT ![o] = r], UNCHANGED books
  PROVE  CashInv'
<1>1. OpInv'
  BY OneSteps DEF CashInv
<1>2. MoneyType' /\ CashMatchesTrades'
  BY DEF CashInv, books, MoneyType, CashMatchesTrades
<1>. QED
  BY <1>1, <1>2 DEF CashInv

\* A sale starts: the amount is of no matter, but the balance it keeps is.
LEMMA SaleStarts ==
  ASSUME CashInv, NEW o \in Op, NEW owners, NEW amounts, NEW todo,
         Sells(o, owners, amounts, todo)
  PROVE  CashInv'
<1>1. PICK a :
        op' = [op EXCEPT ![o] = [op[o] EXCEPT !.pc = "selling", !.cash = cash, !.amount = a,
                                              !.lots = Eligible(owners), !.todo = todo]]
  BY DEF Sells, CashInv, OpInv
<1>2. Sound([op[o] EXCEPT !.pc = "selling", !.cash = cash, !.amount = a,
                          !.lots = Eligible(owners), !.todo = todo])
  BY DEF CashInv, OpInv, MoneyType, Sound
<1>. QED
  BY <1>1, <1>2, BooksRest DEF Sells

\* The cash and the trades change by the same money, unless a stale balance is
\* written.
LEMMA MoneyFollows ==
  ASSUME CashInv, OpInv', NEW what \in {"token", "coin"}, NEW n, NEW paid \in Int,
         Traded(what, n, paid), cash' \in Nat,
         "cash" \in adrift => "cash" \in adrift',
         "cash" \notin adrift' => cash' = cash - paid
  PROVE  CashInv'
<1>1. "money" \in DOMAIN trades' /\ trades'.money = trades.money - paid
  BY TradeMovesMoney DEF CashInv
<1>2. MoneyType'
  BY <1>1 DEF CashInv, MoneyType
<1>3. CashMatchesTrades'
  BY <1>1 DEF CashInv, MoneyType, CashMatchesTrades, PaperAssumption
<1>. QED
  BY <1>2, <1>3 DEF CashInv

-----------------------------------------------------------------------------
(* The steps                                                                *)

LEMMA StartsStep ==
  ASSUME CashInv, NEW o \in Op, Starts(o)
  PROVE  CashInv'
<1>1. ASSUME NEW owner, BuyStarts(o, owner)
      PROVE  CashInv'
  <2>1. PICK a \in Allocations :
          op' = [op EXCEPT ![o] = [Idle EXCEPT !.pc = "buying", !.owner = owner,
                                               !.cash = cash, !.amount = a]]
    BY <1>1 DEF BuyStarts
  <2>2. Sound([Idle EXCEPT !.pc = "buying", !.owner = owner, !.cash = cash, !.amount = a])
    BY DEF Sound, Idle, Allocations, CashInv, MoneyType
  <2>. QED
    BY <1>1, <2>1, <2>2, BooksRest DEF BuyStarts
<1>2. ASSUME NEW w, OpenStarts(o, w)
      PROVE  CashInv'
  <2>1. PICK a \in Allocations :
          op' = [op EXCEPT ![o] = [Idle EXCEPT !.pc = "opening", !.owner = w,
                                               !.cash = cash, !.amount = a]]
    BY <1>2 DEF OpenStarts
  <2>2. Sound([Idle EXCEPT !.pc = "opening", !.owner = w, !.cash = cash, !.amount = a])
    BY DEF Sound, Idle, Allocations, CashInv, MoneyType
  <2>. QED
    BY <1>2, <2>1, <2>2, BooksRest DEF OpenStarts
<1>3. ASSUME NEW owners, NEW amounts, NEW todo, Sells(o, owners, amounts, todo)
      PROVE  CashInv'
  BY <1>3, SaleStarts
<1>4. CASE CloseAllStarts(o) \/ ReconcileStarts(o)
  BY <1>4, IdleIsSound, BooksRest DEF CloseAllStarts, ReconcileStarts
<1>5. CASE RefreshStarts(o)
  <2>1. Sound([Idle EXCEPT !.pc = "pricing token", !.position = position, !.holding = holding])
    BY DEF Sound, Idle
  <2>. QED
    BY <1>5, <2>1, BooksRest DEF RefreshStarts
<1>. QED
  BY <1>1, <1>2, <1>3, <1>4, <1>5 DEF Starts, CopyBuys, ManualBuys, CopySells, ManualSells

\* A purchase that was afforded by the balance it read.
LEMMA BuyStep ==
  ASSUME CashInv, NEW o \in Op, NEW gas \in Fees,
         BuyBooks(o, gas) \/ OpenBooks(o, gas) \/ ManualOpens(o, gas)
  PROVE  CashInv'
<1>1. gas \in Nat
  BY DEF Fees, PaperAssumption
<1>2. CASE BuyBooks(o, gas) \/ OpenBooks(o, gas)
  <2> DEFINE amount == op[o].amount
             kept == op[o].cash
  <2>1. /\ kept \in Nat /\ amount \in Nat /\ amount + gas <= kept
        /\ cash' = NonNegative(kept - (amount + gas))
        /\ Onward(o)
    BY <1>2 DEF BuyBooks, OpenBooks, At, Cost, CashInv, OpInv, Sound
  <2>2. cash' = kept - (amount + gas) /\ cash' \in Nat
    BY <1>1, <2>1, NotCutOff
  <2>3. /\ "cash" \in adrift => "cash" \in adrift'
        /\ "cash" \notin adrift' => kept = cash
    BY <1>2 DEF BuyBooks, OpenBooks, StaleCash
  <2>4. \E what \in {"token", "coin"} : Traded(what, amount, amount + gas)
    BY <1>2 DEF BuyBooks, OpenBooks
  <2>5. OpInv'
    BY <2>1, Onwards DEF CashInv
  <2>6. amount + gas \in Int
    BY <1>1, <2>1
  <2>7. "cash" \notin adrift' => cash' = cash - (amount + gas)
    BY <2>2, <2>3
  <2>. QED
    BY <2>2, <2>3, <2>4, <2>5, <2>6, <2>7, MoneyFollows
<1>3. CASE ManualOpens(o, gas)
  <2>1. PICK margin \in 1..(cash - gas) :
          /\ cash' = NonNegative(cash - (margin + gas))
          /\ Traded("coin", margin, margin + gas)
    BY <1>3 DEF ManualOpens, Cost
  <2>2. cash - (margin + gas) \in Nat /\ margin + gas \in Int
    BY <1>1 DEF CashInv, MoneyType
  <2>3. cash' = cash - (margin + gas) /\ cash' \in Nat
    BY <2>1, <2>2, NotCutOff
  <2>4. OpInv' /\ adrift' = adrift
    BY <1>3 DEF ManualOpens, CashInv, OpInv
  <2>. QED
    BY <2>1, <2>2, <2>3, <2>4, MoneyFollows
<1>. QED
  BY <1>2, <1>3

LEMMA SellStep ==
  ASSUME CashInv, NEW o \in Op, NEW proceeds \in Proceeds, SellBooks(o, proceeds)
  PROVE  CashInv'
<1>1. proceeds \in Nat /\ 0 - proceeds \in Int
  BY DEF Proceeds, PaperAssumption
<1>2. op[o].cash \in Nat
  BY DEF CashInv, OpInv, Sound
<1>3. cash' = op[o].cash + proceeds /\ cash' \in Nat
  BY <1>1, <1>2, NotCutOff DEF SellBooks
<1>4. /\ "cash" \in adrift => "cash" \in adrift'
      /\ "cash" \notin adrift' => op[o].cash = cash
  BY DEF SellBooks, StaleCash
<1>5. Traded("token", 0 - op[o].amount, 0 - proceeds)
  BY DEF SellBooks
<1>6. OpInv'
  BY Onwards DEF SellBooks, CashInv
<1>7. "cash" \notin adrift' => cash' = cash - (0 - proceeds)
  BY <1>1, <1>2, <1>3, <1>4
<1>. QED
  BY <1>1, <1>3, <1>4, <1>5, <1>6, <1>7, MoneyFollows

\* A loss beyond the balance is cut off, and remembered as such.
LEMMA CloseStep ==
  ASSUME CashInv, OpInv', NEW owner, NEW quantity, NEW gain \in Gains,
         CloseBooks(owner, quantity, gain)
  PROVE  CashInv'
<1>1. gain \in Int /\ 0 - gain \in Int /\ cash \in Nat /\ cash + gain \in Int
  BY DEF Gains, PaperAssumption, CashInv, MoneyType
<1>2. cash' = NonNegative(cash + gain) /\ cash' \in Nat
  BY <1>1, NeverNegative DEF CloseBooks
<1>3. /\ "cash" \in adrift => "cash" \in adrift'
      /\ "cash" \notin adrift' => cash + gain >= 0
  BY <1>1 DEF CloseBooks
<1>4. "cash" \notin adrift' => cash' = cash - (0 - gain)
  BY <1>1, <1>2, <1>3, NotCutOff
<1>5. Traded("coin", 0 - quantity, 0 - gain)
  BY DEF CloseBooks
<1>. QED
  BY <1>1, <1>2, <1>3, <1>4, <1>5, MoneyFollows

LEMMA BooksStep ==
  ASSUME CashInv, NEW o \in Op, Books(o)
  PROVE  CashInv'
<1>1. ASSUME NEW gain \in Gains, NEW x, CopyCloses(o, x, gain) \/ ManualCloses(o, x, gain)
      PROVE  CashInv'
  <2>1. \E quantity : CloseBooks(x, quantity, gain)
    BY <1>1 DEF CopyCloses, ManualCloses
  <2>2. OpInv'
    BY <1>1 DEF CopyCloses, ManualCloses, CashInv, OpInv
  <2>. QED
    BY <2>1, <2>2, CloseStep
<1>. QED
  BY <1>1, BuyStep, SellStep DEF Books

LEMMA ListsStep ==
  ASSUME CashInv, NEW o \in Op, Lists(o)
  PROVE  CashInv'
<1>1. ASSUME NEW todo
      PROVE  Sound([op[o] EXCEPT !.todo = todo])
  BY DEF CashInv, OpInv, Sound
<1>2. ASSUME NEW item, Passes(o, item)
      PROVE  CashInv'
  <2>1. op' = [op EXCEPT ![o] = [op[o] EXCEPT !.todo = op[o].todo \ {item}]]
    BY <1>2 DEF Passes, CashInv, OpInv
  <2>. QED
    BY <1>1, <1>2, <2>1, BooksRest DEF Passes
<1>3. ASSUME NEW item, ListedSale(o, item)
      PROVE  CashInv'
  BY <1>3, SaleStarts DEF ListedSale
<1>4. ASSUME NEW item, NEW gain \in Gains, ListedClose(o, item, gain)
      PROVE  CashInv'
  <2>1. op' = [op EXCEPT ![o] = [op[o] EXCEPT !.todo = op[o].todo \ {item}]]
    BY <1>4 DEF ListedClose, CashInv, OpInv
  <2>2. OpInv'
    BY <1>1, <2>1, OneSteps DEF CashInv
  <2>. QED
    BY <1>4, <2>2, CloseStep DEF ListedClose
<1>5. CASE ReconcileCoins(o) \/ ListDone(o)
  BY <1>5, IdleIsSound, BooksRest DEF ReconcileCoins, ListDone
<1>. QED
  BY <1>2, <1>3, <1>4, <1>5 DEF Lists

\* The refresh of the prices leaves the cash and the trades alone.
LEMMA RefreshStep ==
  ASSUME CashInv, NEW o \in Op, Refreshes(o)
  PROVE  CashInv'
<1>1. UNCHANGED <<cash, trades>> /\ ("cash" \in adrift' <=> "cash" \in adrift)
  BY DEF Refreshes, RefreshToken, RefreshCoin
<1>2. OpInv'
  <2>1. CASE RefreshToken(o)
    <3>1. op' = [op EXCEPT ![o] = [op[o] EXCEPT !.pc = "pricing coin"]]
      BY <2>1 DEF RefreshToken, CashInv, OpInv
    <3>2. Sound([op[o] EXCEPT !.pc = "pricing coin"])
      BY DEF CashInv, OpInv, Sound
    <3>. QED
      BY <3>1, <3>2, OneSteps DEF CashInv
  <2>2. CASE RefreshCoin(o)
    BY <2>2, IdleIsSound, OneSteps DEF RefreshCoin, CashInv
  <2>. QED
    BY <2>1, <2>2 DEF Refreshes
<1>. QED
  BY <1>1, <1>2 DEF CashInv, MoneyType, CashMatchesTrades

-----------------------------------------------------------------------------
\* As long as no trade wrote a balance that another one had changed since it was
\* read, the paper cash is the starting balance and what the confirmed trades
\* paid (setCashBalance and its callers), whatever operations run side by side.
THEOREM CashAlwaysMatches == PaperSpec => []CashMatchesTrades
<1>1. PaperInit => CashInv
  BY IdleIsSound DEF PaperInit, CashInv, MoneyType, OpInv, CashMatchesTrades, PaperAssumption
<1>2. CashInv /\ [PaperNext]_paperVars => CashInv'
  <2> SUFFICES ASSUME CashInv, [PaperNext]_paperVars
               PROVE  CashInv'
    OBVIOUS
  <2>1. ASSUME NEW o \in Op, GivesUp(o)
        PROVE  CashInv'
    <3>1. OpInv'
      BY <2>1, Onwards DEF GivesUp, CashInv
    <3>. QED
      BY <2>1, <3>1 DEF GivesUp, books, CashInv, MoneyType, CashMatchesTrades
  <2>2. CASE UNCHANGED paperVars
    BY <2>2 DEF paperVars, books, CashInv, MoneyType, OpInv, CashMatchesTrades
  <2>. QED
    BY <2>1, <2>2, StartsStep, BooksStep, ListsStep, RefreshStep DEF PaperNext
<1>3. CashInv => CashMatchesTrades
  BY DEF CashInv
<1>. QED
  BY <1>1, <1>2, <1>3, PTL DEF PaperSpec

-----------------------------------------------------------------------------
(***************************************************************************)
(* Tables of lots, which both components add to at the end and use up in   *)
(* order: the amounts of the lots, what they hold together, and what is    *)
(* left of them when a quantity is taken from lots that were read before.  *)
(***************************************************************************)

Lot(owners) == [owner : owners, amount : Nat]
AmountsOf(table) == [i \in DOMAIN table |-> table[i].amount]
HeldOf(table) == SumFunction(AmountsOf(table))

\* Lots as an operation has read them: their amounts, by their place in the table.
Listed(held, places) ==
  /\ IsFiniteSet(DOMAIN held) /\ DOMAIN held \subseteq places
  /\ \A i \in DOMAIN held : held[i] \in Nat

\* The lots a quantity comes from, and what each of them keeps.
Older(held, i) == SumFunctionOnSet(held, Below(DOMAIN held, i))
UsedFrom(held, q) == {i \in DOMAIN held : Older(held, i) < q}
Kept(held, q, i) == IF held[i] < q - Older(held, i) THEN 0 ELSE held[i] - (q - Older(held, i))

AfterUse(table, held, q) ==
  [i \in DOMAIN table |->
     IF i \in UsedFrom(held, q) THEN [table[i] EXCEPT !.amount = Kept(held, q, i)] ELSE table[i]]

LEMMA LotsAreFinite ==
  ASSUME NEW owners, NEW table \in Seq(Lot(owners))
  PROVE  /\ IsFiniteSet(DOMAIN table) /\ DOMAIN table \subseteq Nat
         /\ \A i \in DOMAIN table : table[i] \in Lot(owners) /\ AmountsOf(table)[i] = table[i].amount
                                     /\ AmountsOf(table)[i] \in Nat
         /\ HeldOf(table) = SumFunctionOnSet(AmountsOf(table), DOMAIN table)
         /\ HeldOf(table) \in Nat
<1>1. PICK n \in Nat : n = Len(table) /\ DOMAIN table = 1..n
  OBVIOUS
<1>2. IsFiniteSet(DOMAIN table) /\ DOMAIN table \subseteq Nat
  <2>1. PICK S : S = 1..n /\ IsFiniteSet(S)
    BY FS_Interval
  <2> QED
    BY <1>1, <2>1
<1>3. \A i \in DOMAIN table : table[i] \in Lot(owners)
  OBVIOUS
<1>4. \A i \in DOMAIN table : AmountsOf(table)[i] = table[i].amount /\ AmountsOf(table)[i] \in Nat
  BY <1>3 DEF AmountsOf, Lot
<1>5. HeldOf(table) = SumFunctionOnSet(AmountsOf(table), DOMAIN table)
  BY DEF HeldOf, AmountsOf, SumFunction
<1>6. IsFiniteSet(DOMAIN table) /\ \A i \in DOMAIN table : AmountsOf(table)[i] \in Nat
  BY <1>2, <1>4
<1>7. SumFunctionOnSet(AmountsOf(table), DOMAIN table) \in Nat
  BY <1>6, SumOfPart
<1> QED
  BY <1>2, <1>3, <1>4, <1>5, <1>7

\* A lot is added at the end.
AddsLot(owners, table, x, more) ==
  table \in Seq(Lot(owners)) /\ x \in Lot(owners) /\ more = Append(table, x)

LEMMA LotAdds ==
  ASSUME NEW owners, NEW table, NEW x, NEW more, AddsLot(owners, table, x, more)
  PROVE  /\ more \in Seq(Lot(owners)) /\ DOMAIN table \subseteq DOMAIN more
         /\ \A i \in DOMAIN table : more[i] = table[i]
         /\ \A i \in DOMAIN more \ DOMAIN table, j \in DOMAIN table : j < i
         /\ HeldOf(more) = HeldOf(table) + x.amount
<1>0. table \in Seq(Lot(owners)) /\ x \in Lot(owners) /\ more = Append(table, x)
  BY DEF AddsLot
<1>1. PICK n \in Nat : n = Len(table) /\ DOMAIN table = 1..n
  BY <1>0
<1>2. /\ more \in Seq(Lot(owners)) /\ DOMAIN more = 1..(n + 1)
      /\ \A i \in 1..n : more[i] = table[i]
      /\ more[n + 1] = x
  BY <1>0, <1>1
<1>3. \A i \in 1..n : AmountsOf(table)[i] \in Int /\ AmountsOf(more)[i] = AmountsOf(table)[i]
  <2>1. \A i \in DOMAIN table : AmountsOf(table)[i] \in Nat
    BY <1>0, LotsAreFinite
  <2>2. \A i \in 1..n : i \in 1..(n + 1)
    OBVIOUS
  <2> QED
    BY <1>1, <1>2, <2>1, <2>2 DEF AmountsOf
<1>4. AmountsOf(more)[n + 1] = x.amount /\ x.amount \in Int
  BY <1>0, <1>2 DEF AmountsOf, Lot
<1>5. SumFunctionOnSet(AmountsOf(more), 1..(n + 1))
        = SumFunctionOnSet(AmountsOf(table), 1..n) + x.amount
  BY <1>3, <1>4, SumAppends
<1>6. HeldOf(table) = SumFunctionOnSet(AmountsOf(table), 1..n)
  BY <1>0, <1>1, LotsAreFinite
<1>7. HeldOf(more) = SumFunctionOnSet(AmountsOf(more), 1..(n + 1))
  BY <1>2, LotsAreFinite
<1>8. DOMAIN table \subseteq DOMAIN more
      /\ \A i \in DOMAIN more \ DOMAIN table, j \in DOMAIN table : j < i
  BY <1>1, <1>2
<1> QED
  BY <1>1, <1>2, <1>5, <1>6, <1>7, <1>8

\* A quantity is taken from lots that were read before.
LEMMA LotsUsedUp ==
  ASSUME NEW owners, NEW table \in Seq(Lot(owners)), NEW held, Listed(held, DOMAIN table),
         NEW q \in Nat, q <= SumFunctionOnSet(held, DOMAIN held),
         NEW left, left = AfterUse(table, held, q)
  PROVE  /\ left \in Seq(Lot(owners)) /\ DOMAIN left = DOMAIN table
         /\ (\A i \in UsedFrom(held, q) : table[i].amount = held[i]) =>
              /\ HeldOf(left) = HeldOf(table) - q
              /\ SumFunctionOnSet(AmountsOf(left), DOMAIN held)
                   = SumFunctionOnSet(AmountsOf(table), DOMAIN held) - q
              /\ \A i \in DOMAIN table : left[i].amount <= table[i].amount
<1> DEFINE D == DOMAIN held
<1>1. IsFiniteSet(DOMAIN table) /\ DOMAIN table \subseteq Nat
  BY LotsAreFinite
<1>2. IsFiniteSet(D) /\ D \subseteq DOMAIN table /\ D \subseteq Nat
      /\ \A i \in D : i \in Nat /\ held[i] \in Nat
  BY <1>1 DEF Listed
<1>3. ASSUME NEW i \in D
      PROVE  Older(held, i) \in Nat /\ held[i] \in Nat /\ i \in DOMAIN table
  <2>1. Below(D, i) \subseteq D
    BY DEF Below
  <2>2. SumFunctionOnSet(held, Below(D, i)) \in Nat
    <3>1. IsFiniteSet(D) /\ \A j \in D : held[j] \in Nat
      BY <1>2
    <3> HIDE DEF D
    <3> QED
      BY <2>1, <3>1, SumOfPart
  <2> QED
    BY <1>2, <2>2 DEF Older
<1>4. ASSUME NEW i \in UsedFrom(held, q)
      PROVE  Kept(held, q, i) \in Nat /\ Kept(held, q, i) <= held[i] /\ i \in D
             /\ Older(held, i) < q
  <2>1. PICK b \in Nat : b = Older(held, i)
    BY <1>3 DEF UsedFrom
  <2>2. held[i] \in Nat /\ b < q
    BY <1>3, <2>1 DEF UsedFrom
  <2> QED
    BY <2>1, <2>2 DEF Kept, UsedFrom
<1>5. DOMAIN left = DOMAIN table
  BY DEF AfterUse
<1>6. ASSUME NEW i \in DOMAIN table
      PROVE  /\ left[i] \in Lot(owners)
             /\ i \notin UsedFrom(held, q) => left[i] = table[i]
             /\ i \in UsedFrom(held, q) => left[i].amount = Kept(held, q, i)
  <2>1. table[i] \in Lot(owners)
    OBVIOUS
  <2>2. CASE i \in UsedFrom(held, q)
    <3>1. left[i] = [table[i] EXCEPT !.amount = Kept(held, q, i)]
      BY <2>2 DEF AfterUse
    <3>2. Kept(held, q, i) \in Nat
      BY <1>4, <2>2
    <3> QED
      BY <2>1, <2>2, <3>1, <3>2 DEF Lot
  <2>3. CASE i \notin UsedFrom(held, q)
    BY <2>1, <2>3 DEF AfterUse
  <2> QED
    BY <2>2, <2>3
<1>7. left \in Seq(Lot(owners))
  <2>1. PICK n \in Nat : DOMAIN table = 1..n
    OBVIOUS
  <2>2. left = [i \in 1..n |-> left[i]]
    BY <2>1 DEF AfterUse
  <2> QED
    BY <1>6, <2>1, <2>2
<1>8. ASSUME \A i \in UsedFrom(held, q) : table[i].amount = held[i]
      PROVE  /\ HeldOf(left) = HeldOf(table) - q
             /\ SumFunctionOnSet(AmountsOf(left), DOMAIN held)
                  = SumFunctionOnSet(AmountsOf(table), DOMAIN held) - q
             /\ \A i \in DOMAIN table : left[i].amount <= table[i].amount
  <2>1. PICK L, a, b : L = DOMAIN table /\ a = AmountsOf(table) /\ b = AmountsOf(left)
    OBVIOUS
  <2>2. \A i \in L : a[i] = table[i].amount /\ b[i] = left[i].amount /\ a[i] \in Nat
    BY <1>5, <1>7, <2>1, LotsAreFinite
  <2>3. \A i \in L \ D : b[i] = a[i]
    BY <1>6, <2>1, <2>2 DEF UsedFrom
  <2>4. ASSUME NEW i \in D
        PROVE  LeftBehind(D, held, q, i, a[i], b[i]) /\ b[i] <= a[i]
    <3>1. PICK o \in Nat : o = Older(held, i)
      BY <1>3
    <3>2. i \in DOMAIN table /\ i \in L
      BY <1>3, <2>1
    <3>3. CASE q <= o
      <4>1. i \notin UsedFrom(held, q)
        BY <3>1, <3>3 DEF UsedFrom
      <4>2. b[i] = a[i] /\ a[i] \in Nat
        BY <1>6, <2>2, <3>2, <4>1
      <4> QED
        BY <3>1, <3>3, <4>2 DEF LeftBehind, Older
    <3>4. CASE ~(q <= o)
      <4>1. i \in UsedFrom(held, q)
        BY <3>1, <3>4 DEF UsedFrom
      <4>2. a[i] = held[i] /\ b[i] = Kept(held, q, i) /\ b[i] <= a[i]
        BY <1>4, <1>6, <1>8, <2>2, <3>2, <4>1
      <4> QED
        BY <3>1, <3>4, <4>2 DEF LeftBehind, Older, Kept
    <3> QED
      BY <3>3, <3>4
  <2>5. /\ IsFiniteSet(L) /\ D \subseteq L /\ q <= SumFunctionOnSet(held, D)
        /\ IsFiniteSet(D) /\ \A i \in D : i \in Nat /\ held[i] \in Nat
    BY <1>1, <1>2, <2>1
  <2> HIDE DEF D
  <2>6. UsesUp(L, a, b, D, held, q)
    BY <2>2, <2>3, <2>4, <2>5 DEF UsesUp
  <2>7. UsesUp(D, a, b, D, held, q)
    BY <2>2, <2>3, <2>4, <2>5 DEF UsesUp
  <2>8. /\ SumFunctionOnSet(b, L) = SumFunctionOnSet(a, L) - q
        /\ SumFunctionOnSet(b, D) = SumFunctionOnSet(a, D) - q
    BY <2>6, <2>7, SumAfterUse
  <2>9. \A i \in L : b[i] <= a[i]
    BY <2>2, <2>3, <2>4
  <2>10. /\ HeldOf(table) = SumFunctionOnSet(a, L)
         /\ HeldOf(left) = SumFunctionOnSet(b, L)
    BY <1>5, <1>7, <2>1, LotsAreFinite
  <2> QED
    BY <2>1, <2>2, <2>8, <2>9, <2>10 DEF D
<1> QED
  BY <1>5, <1>7, <1>8

-----------------------------------------------------------------------------
(***************************************************************************)
(* What is held matches the trades, for any operations under way at once,  *)
(* finite set of wallets and bounds: the open lots of the token, its       *)
(* position row and the HyperCore positions are what was bought and not    *)
(* sold, except where a value read before another change was written.      *)
(*                                                                         *)
(* A sale takes its quantity from the lots it read, one after the other.   *)
(* That this takes the whole quantity and no more is a fact about sums     *)
(* (SaleTakesAll); it needs that the quantity was no more than the lots    *)
(* then held, and that they are still there, which an operation keeps      *)
(* while it waits.                                                         *)
(***************************************************************************)

HeldType ==
  /\ lots \in Seq(Lot(Owner)) /\ holding \in [Owner -> Nat]
  /\ {"token", "coin"} \subseteq DOMAIN trades /\ trades.token \in Int /\ trades.coin \in Int

\* The local variables that the lots and positions depend on.
Waits(r) ==
  /\ {"pc", "owner", "amount", "lots", "position", "holding", "list", "todo"} \subseteq DOMAIN r
  /\ r.pc \in {"buying", "opening"} => r.owner \in Owner /\ r.amount \in Nat
  /\ r.pc = "selling" =>
       /\ r.amount \in Nat /\ IsFiniteSet(DOMAIN r.lots)
       /\ \A i \in DOMAIN r.lots : r.lots[i] \in Nat
       /\ r.amount <= SumFunctionOnSet(r.lots, DOMAIN r.lots)
  /\ r.pc \in {"pricing token", "pricing coin"} => r.holding \in [Owner -> Nat]
  /\ r.todo \subseteq {"token", "coin"} \X Owner

WaitInv == DOMAIN op = Op /\ \A o \in Op : Waits(op[o])

\* The lots an operation has read are still there: no lot is ever removed.
ReadLotsStay ==
  \A o \in Op : op[o].pc = "selling" => DOMAIN op[o].lots \subseteq DOMAIN lots

HeldInv == HeldType /\ WaitInv /\ ReadLotsStay /\ HeldMatchesTrades

-----------------------------------------------------------------------------
\* A sale takes its quantity from the lots it read, if they are as it read them.
LEMMA SaleTakesAll ==
  ASSUME lots \in Seq(Lot(Owner)), NEW held, Listed(held, DOMAIN lots),
         NEW quantity \in Nat, quantity <= SumFunctionOnSet(held, DOMAIN held)
  PROVE  /\ LotsLess(held, quantity) \in Seq(Lot(Owner))
         /\ DOMAIN LotsLess(held, quantity) = DOMAIN lots
         /\ StaleLots(held, quantity) = {} =>
              HeldOf(LotsLess(held, quantity)) = HeldOf(lots) - quantity
<1>1. ASSUME NEW i \in DOMAIN held
      PROVE  /\ Before(held, i) = Older(held, i) /\ Older(held, i) \in Nat /\ held[i] \in Nat
  <2>1. Before(held, i) = SumFunctionOnSet(held, Below(DOMAIN held, i))
    BY DEF Before, Below
  <2>2. Below(DOMAIN held, i) \subseteq DOMAIN held
    BY DEF Below
  <2>3. IsFiniteSet(DOMAIN held) /\ \A j \in DOMAIN held : held[j] \in Nat
    BY DEF Listed
  <2>4. SumFunctionOnSet(held, Below(DOMAIN held, i)) \in Nat
    BY <2>2, <2>3, SumOfPart
  <2> QED
    BY <2>1, <2>3, <2>4 DEF Older
<1>2. Written(held, quantity) = UsedFrom(held, quantity)
  BY <1>1 DEF Written, UsedFrom
<1>3. ASSUME NEW i \in UsedFrom(held, quantity)
      PROVE  held[i] - Consumed(held, quantity, i) = Kept(held, quantity, i)
  <2>1. PICK b \in Nat : b = Older(held, i) /\ b = Before(held, i) /\ b < quantity
    BY <1>1 DEF UsedFrom
  <2>2. held[i] \in Nat
    BY <1>1 DEF UsedFrom
  <2> QED
    BY <2>1, <2>2 DEF Consumed, NonNegative, Kept
<1>4. LotsLess(held, quantity) = AfterUse(lots, held, quantity)
  BY <1>2, <1>3 DEF LotsLess, AfterUse
<1>5. StaleLots(held, quantity) = {} => \A i \in UsedFrom(held, quantity) : lots[i].amount = held[i]
  BY <1>2 DEF StaleLots
<1> QED
  BY <1>4, <1>5, LotsUsedUp

-----------------------------------------------------------------------------
(* The operations                                                           *)

LEMMA IdleWaits ==
  /\ Waits(Idle) /\ Idle.pc = "idle"
  /\ \A list, todo : todo \subseteq {"token", "coin"} \X Owner =>
       Waits(Listing(list, todo)) /\ Listing(list, todo).pc = "listing"
  BY DEF Waits, Idle, Listing

\* Only the operation that steps changes its local variables, and no lot goes.
LEMMA OneWaits ==
  ASSUME HeldInv, NEW o \in Op, NEW r, Waits(r), DOMAIN lots \subseteq DOMAIN lots',
         r.pc = "selling" => DOMAIN r.lots \subseteq DOMAIN lots',
         op' = [op EXCEPT ![o] = r]
  PROVE  WaitInv' /\ ReadLotsStay'
<1>1. WaitInv /\ ReadLotsStay
  BY DEF HeldInv
<1>2. DOMAIN op' = Op /\ op'[o] = r /\ \A x \in Op \ {o} : op'[x] = op[x]
  BY <1>1 DEF WaitInv
<1>3. WaitInv'
  BY <1>1, <1>2 DEF WaitInv
<1>4. ReadLotsStay'
  <2> SUFFICES ASSUME NEW x \in Op, op'[x].pc = "selling"
               PROVE  DOMAIN op'[x].lots \subseteq DOMAIN lots'
    BY DEF ReadLotsStay
  <2>1. CASE x = o
    BY <1>2, <2>1
  <2>2. CASE x # o
    <3>1. op'[x] = op[x]
      BY <1>2, <2>2
    <3>2. DOMAIN op[x].lots \subseteq DOMAIN lots
      BY <1>1, <3>1 DEF ReadLotsStay
    <3> QED
      BY <3>1, <3>2
  <2> QED
    BY <2>1, <2>2
<1> QED
  BY <1>3, <1>4

LEMMA MovesOn ==
  ASSUME HeldInv, NEW o \in Op, Onward(o), DOMAIN lots \subseteq DOMAIN lots'
  PROVE  WaitInv' /\ ReadLotsStay'
<1>1. Waits(op[o]) /\ DOMAIN op = Op
  BY DEF HeldInv, WaitInv
<1>2. PICK r : r = IF op[o].list = "none" THEN Idle ELSE Listing(op[o].list, op[o].todo)
  OBVIOUS
<1>3. op' = [op EXCEPT ![o] = r]
  BY <1>1, <1>2 DEF Onward
<1>4. op[o].todo \subseteq {"token", "coin"} \X Owner
  BY <1>1 DEF Waits
<1>5. Waits(r) /\ r.pc # "selling"
  BY <1>2, <1>4, IdleWaits
<1> QED
  BY <1>3, <1>5, OneWaits

\* An operation that leaves the books alone.
LEMMA HeldRests ==
  ASSUME HeldInv, UNCHANGED books, WaitInv', ReadLotsStay'
  PROVE  HeldInv'
<1>1. HeldType'
  BY DEF HeldInv, books, token, HeldType
<1>2. HeldMatchesTrades'
  BY DEF HeldInv, books, token, HeldMatchesTrades
<1> QED
  BY <1>1, <1>2 DEF HeldInv

LEMMA OneRests ==
  ASSUME HeldInv, NEW o \in Op, NEW r, Waits(r),
         r.pc = "selling" => DOMAIN r.lots \subseteq DOMAIN lots,
         op' = [op EXCEPT ![o] = r], UNCHANGED books
  PROVE  HeldInv'
<1>1. lots' = lots
  BY DEF books, token
<1>2. WaitInv' /\ ReadLotsStay'
  BY <1>1, OneWaits
<1> QED
  BY <1>2, HeldRests

\* The lots of some owners that an operation reads.
LEMMA EligibleLots ==
  ASSUME HeldInv, NEW owners
  PROVE  /\ IsFiniteSet(DOMAIN Eligible(owners)) /\ DOMAIN Eligible(owners) \subseteq DOMAIN lots
         /\ \A i \in DOMAIN Eligible(owners) : Eligible(owners)[i] \in Nat
         /\ SumFunction(Eligible(owners))
              = SumFunctionOnSet(Eligible(owners), DOMAIN Eligible(owners))
         /\ SumFunction(Eligible(owners)) \in Nat
<1>1. lots \in Seq(Lot(Owner)) /\ IsFiniteSet(DOMAIN lots)
  BY LotsAreFinite DEF HeldInv, HeldType
<1>2. DOMAIN Eligible(owners) \subseteq DOMAIN lots
  BY DEF Eligible, Open
<1>3. IsFiniteSet(DOMAIN Eligible(owners))
  BY <1>1, <1>2, FiniteParts
<1>4. \A i \in DOMAIN lots : lots[i] \in Lot(Owner)
  BY <1>1
<1>5. \A i \in DOMAIN Eligible(owners) : Eligible(owners)[i] \in Nat
  BY <1>2, <1>4 DEF Eligible, Open, Lot
<1>6. SumFunction(Eligible(owners))
        = SumFunctionOnSet(Eligible(owners), DOMAIN Eligible(owners))
  BY DEF SumFunction
<1>7. SumFunctionOnSet(Eligible(owners), DOMAIN Eligible(owners)) \in Nat
  BY <1>3, <1>5, SumOfPart
<1> QED
  BY <1>2, <1>3, <1>5, <1>6, <1>7

LEMMA SaleReadsLots ==
  ASSUME HeldInv, NEW o \in Op, NEW owners, NEW amounts, NEW todo,
         todo \subseteq {"token", "coin"} \X Owner,
         Sells(o, owners, amounts, todo)
  PROVE  HeldInv'
<1> DEFINE held == Eligible(owners)
<1>1. PICK b : b = op[o]
  OBVIOUS
<1>2. DOMAIN op = Op /\ Waits(b)
  BY <1>1 DEF HeldInv, WaitInv
<1>3. PICK a \in 1..SumFunction(held) :
        op' = [op EXCEPT ![o] = [b EXCEPT !.pc = "selling", !.cash = cash, !.amount = a,
                                          !.lots = held, !.todo = todo]]
  BY <1>1, <1>2 DEF Sells
<1>4. a \in Nat /\ a <= SumFunctionOnSet(held, DOMAIN held)
  BY <1>3, EligibleLots
<1>5. IsFiniteSet(DOMAIN held) /\ DOMAIN held \subseteq DOMAIN lots
      /\ \A i \in DOMAIN held : held[i] \in Nat
  BY EligibleLots
<1> HIDE DEF held
<1> DEFINE r == [b EXCEPT !.pc = "selling", !.cash = cash, !.amount = a,
                          !.lots = held, !.todo = todo]
<1>6. DOMAIN r = DOMAIN b /\ r.pc = "selling" /\ r.amount = a /\ r.lots = held /\ r.todo = todo
  BY <1>2 DEF Waits
<1>7. op' = [op EXCEPT ![o] = r] /\ UNCHANGED books
  BY <1>3 DEF Sells
<1> HIDE DEF r
<1>8. Waits(r)
  BY <1>2, <1>4, <1>5, <1>6 DEF Waits
<1> QED
  BY <1>5, <1>6, <1>7, <1>8, OneRests

LEMMA StartsKeepHeld ==
  ASSUME HeldInv, NEW o \in Op, Starts(o)
  PROVE  HeldInv'
<1>1. ASSUME NEW owner \in Owner, BuyStarts(o, owner)
      PROVE  HeldInv'
  <2>1. PICK a \in Allocations :
          op' = [op EXCEPT ![o] = [Idle EXCEPT !.pc = "buying", !.owner = owner,
                                               !.cash = cash, !.amount = a]]
    BY <1>1 DEF BuyStarts
  <2> DEFINE r == [Idle EXCEPT !.pc = "buying", !.owner = owner, !.cash = cash, !.amount = a]
  <2>2. a \in Nat
    BY DEF Allocations
  <2>3. Waits(r) /\ r.pc = "buying"
    BY <2>2 DEF Waits, Idle
  <2> QED
    BY <1>1, <2>1, <2>3, OneRests DEF BuyStarts
<1>2. ASSUME NEW w \in Wallet, OpenStarts(o, w)
      PROVE  HeldInv'
  <2>1. PICK a \in Allocations :
          op' = [op EXCEPT ![o] = [Idle EXCEPT !.pc = "opening", !.owner = w,
                                               !.cash = cash, !.amount = a]]
    BY <1>2 DEF OpenStarts
  <2> DEFINE r == [Idle EXCEPT !.pc = "opening", !.owner = w, !.cash = cash, !.amount = a]
  <2>2. a \in Nat /\ w \in Owner
    BY DEF Allocations, Owner
  <2>3. Waits(r) /\ r.pc = "opening"
    BY <2>2 DEF Waits, Idle
  <2> QED
    BY <1>2, <2>1, <2>3, OneRests DEF OpenStarts
<1>3. ASSUME NEW owners, NEW amounts, Sells(o, owners, amounts, {})
      PROVE  HeldInv'
  BY <1>3, SaleReadsLots
<1>4. CASE CloseAllStarts(o) \/ ReconcileStarts(o)
  <2>1. /\ HeldCoins(Owner) \subseteq {"token", "coin"} \X Owner
        /\ Tokens(Wallet) \subseteq {"token", "coin"} \X Owner
        /\ {<<"token", NoWallet>>} \subseteq {"token", "coin"} \X Owner
    <3>1. NoWallet \in Owner /\ \A w \in Wallet : w \in Owner
      BY DEF Owner
    <3>2. \A x \in Owner, kind \in {"token", "coin"} : <<kind, x>> \in {"token", "coin"} \X Owner
      OBVIOUS
    <3> QED
      BY <3>1, <3>2 DEF HeldCoins, Tokens
  <2>2. PICK list, todo : /\ todo \subseteq {"token", "coin"} \X Owner
                          /\ op' = [op EXCEPT ![o] = Listing(list, todo)]
                          /\ UNCHANGED books
    BY <1>4, <2>1 DEF CloseAllStarts, ReconcileStarts
  <2>3. Waits(Listing(list, todo)) /\ Listing(list, todo).pc = "listing"
    BY <2>2, IdleWaits
  <2> QED
    BY <2>2, <2>3, OneRests
<1>5. CASE RefreshStarts(o)
  <2> DEFINE r == [Idle EXCEPT !.pc = "pricing token", !.position = position,
                               !.holding = holding]
  <2>1. Waits(r) /\ r.pc = "pricing token"
    BY DEF Waits, Idle, HeldInv, HeldType
  <2> QED
    BY <1>5, <2>1, OneRests DEF RefreshStarts
<1>6. NoWallet \in Owner /\ Wallet \subseteq Owner
  BY DEF Owner
<1> QED
  BY <1>1, <1>2, <1>3, <1>4, <1>5, <1>6
  DEF Starts, CopyBuys, ManualBuys, CopySells, ManualSells

-----------------------------------------------------------------------------
(* The books                                                                *)

LEMMA TradeAddsUp ==
  ASSUME HeldType, NEW n \in Int, NEW paid
  PROVE  /\ Traded("token", n, paid) =>
              /\ {"token", "coin"} \subseteq DOMAIN trades'
              /\ trades'.token = trades.token + n /\ trades'.coin = trades.coin
         /\ Traded("coin", n, paid) =>
              /\ {"token", "coin"} \subseteq DOMAIN trades'
              /\ trades'.coin = trades.coin + n /\ trades'.token = trades.token
  BY DEF HeldType, Traded

\* The lots change by what is traded, and the position row follows them.
LEMMA TokenTraded ==
  ASSUME HeldInv, WaitInv', ReadLotsStay', NEW n \in Int, NEW paid, Traded("token", n, paid),
         lots' \in Seq(Lot(Owner)), SyncPosition, UNCHANGED holding,
         "lots" \in adrift => "lots" \in adrift',
         "holding" \in adrift => "holding" \in adrift',
         "lots" \notin adrift' => HeldOf(lots') = HeldOf(lots) + n
  PROVE  HeldInv'
<1>1. /\ {"token", "coin"} \subseteq DOMAIN trades'
      /\ trades'.token = trades.token + n /\ trades'.coin = trades.coin
  BY TradeAddsUp DEF HeldInv
<1>2. HeldType'
  BY <1>1 DEF HeldInv, HeldType
<1>3. "lots" \notin adrift => HeldOf(lots) = trades.token
  BY DEF HeldInv, HeldMatchesTrades, HeldOf, AmountsOf, Total
<1>4. "lots" \notin adrift' => HeldOf(lots') = trades'.token
  BY <1>1, <1>3
<1>5. position' = HeldOf(lots')
  BY DEF SyncPosition, HeldOf, AmountsOf
<1>6. "holding" \notin adrift' => Total(holding') = trades'.coin
  BY <1>1 DEF HeldInv, HeldMatchesTrades, Total
<1>7. HeldMatchesTrades'
  BY <1>4, <1>5, <1>6 DEF HeldMatchesTrades, HeldOf, AmountsOf, Total
<1> QED
  BY <1>2, <1>7 DEF HeldInv

\* A HyperCore position changes by what is traded.
LEMMA CoinTraded ==
  ASSUME HeldInv, WaitInv', ReadLotsStay', NEW n \in Int, NEW paid, Traded("coin", n, paid),
         NEW owner \in Owner, holding' = [holding EXCEPT ![owner] = @ + n],
         holding[owner] + n >= 0, UNCHANGED token,
         \A book \in {"lots", "position", "holding"} : book \in adrift => book \in adrift'
  PROVE  HeldInv'
<1>1. /\ {"token", "coin"} \subseteq DOMAIN trades'
      /\ trades'.coin = trades.coin + n /\ trades'.token = trades.token
  BY TradeAddsUp DEF HeldInv
<1>2. holding \in [Owner -> Nat] /\ IsFiniteSet(Owner)
  BY FS_AddElement DEF HeldInv, HeldType, Owner
<1>3. /\ holding' \in [Owner -> Nat] /\ holding'[owner] = holding[owner] + n
      /\ \A x \in Owner \ {owner} : holding[x] = holding'[x]
  BY <1>2
<1>4. Total(holding') = Total(holding) + n
  <2>1. \A x \in Owner : holding[x] \in Int /\ holding'[x] \in Int
    BY <1>2, <1>3
  <2>2. SumFunctionOnSet(holding', Owner)
          = (SumFunctionOnSet(holding, Owner) - holding[owner]) + holding'[owner]
    <3>1. PICK f, g : f = holding /\ g = holding'
      OBVIOUS
    <3>2. DiffersAt(Owner, f, g, owner)
      BY <1>2, <1>3, <2>1, <3>1 DEF DiffersAt
    <3>3. SumFunctionOnSet(g, Owner) = (SumFunctionOnSet(f, Owner) - f[owner]) + g[owner]
      BY <3>2, SumChanges
    <3> QED
      BY <3>1, <3>3
  <2>3. SumFunctionOnSet(holding, Owner) \in Int
    BY <1>2, <2>1, SumIsInteger
  <2>4. PICK s \in Int, k \in Int : s = SumFunctionOnSet(holding, Owner) /\ k = holding[owner]
    BY <2>1, <2>3
  <2>5. SumFunctionOnSet(holding', Owner) = s + n
    BY <1>3, <2>2, <2>4
  <2> QED
    BY <1>2, <1>3, <2>4, <2>5 DEF Total, SumFunction
<1>5. HeldType'
  BY <1>1, <1>3 DEF HeldInv, HeldType, token
<1>6. HeldMatchesTrades'
  BY <1>1, <1>4 DEF HeldInv, HeldMatchesTrades, HeldType, token
<1> QED
  BY <1>5, <1>6 DEF HeldInv

LEMMA BuysKeepHeld ==
  ASSUME HeldInv, NEW o \in Op, NEW gas \in Fees,
         BuyBooks(o, gas) \/ OpenBooks(o, gas) \/ ManualOpens(o, gas)
  PROVE  HeldInv'
<1>0. HeldType /\ Waits(op[o]) /\ gas \in Nat
  BY DEF HeldInv, WaitInv, Fees
<1>1. CASE BuyBooks(o, gas)
  <2> DEFINE x == [owner |-> op[o].owner, amount |-> op[o].amount]
  <2>1. op[o].pc = "buying"
    BY <1>1 DEF BuyBooks, At
  <2>2. x \in Lot(Owner) /\ x.amount = op[o].amount /\ op[o].amount \in Nat
    BY <1>0, <2>1 DEF Waits, Lot
  <2>3. lots' = Append(lots, x) /\ SyncPosition /\ UNCHANGED holding /\ Onward(o)
        /\ Traded("token", op[o].amount, op[o].amount + gas)
        /\ adrift' = (adrift \ {"position"}) \cup StaleCash(o)
    BY <1>1 DEF BuyBooks
  <2>4. lots \in Seq(Lot(Owner))
    BY <1>0 DEF HeldType
  <2> HIDE DEF x
  <2>5. /\ lots' \in Seq(Lot(Owner)) /\ DOMAIN lots \subseteq DOMAIN lots'
        /\ HeldOf(lots') = HeldOf(lots) + x.amount
    <3>1. AddsLot(Owner, lots, x, lots')
      BY <2>2, <2>3, <2>4 DEF AddsLot
    <3> QED
      BY <3>1, LotAdds
  <2>6. WaitInv' /\ ReadLotsStay'
    BY <2>3, <2>5, MovesOn
  <2>7. /\ "lots" \in adrift => "lots" \in adrift'
        /\ "holding" \in adrift => "holding" \in adrift'
    BY <2>3
  <2>8. HeldOf(lots') = HeldOf(lots) + op[o].amount /\ op[o].amount \in Int
    BY <2>2, <2>5
  <2> QED
    BY <2>3, <2>5, <2>6, <2>7, <2>8, TokenTraded
<1>2. CASE OpenBooks(o, gas)
  <2>1. /\ op[o].pc = "opening" /\ Onward(o) /\ UNCHANGED token
        /\ holding' = [holding EXCEPT ![op[o].owner] = @ + op[o].amount]
        /\ Traded("coin", op[o].amount, op[o].amount + gas)
        /\ adrift' = adrift \cup StaleCash(o)
    BY <1>2 DEF OpenBooks, At
  <2>2. op[o].owner \in Owner /\ op[o].amount \in Nat
    BY <1>0, <2>1 DEF Waits
  <2>3. holding[op[o].owner] \in Nat
    BY <1>0, <2>2 DEF HeldType
  <2>4. holding[op[o].owner] + op[o].amount >= 0 /\ op[o].amount \in Int
    BY <2>2, <2>3
  <2>5. lots' = lots
    BY <2>1 DEF token
  <2>6. WaitInv' /\ ReadLotsStay'
    BY <2>1, <2>5, MovesOn
  <2> QED
    BY <2>1, <2>2, <2>4, <2>6, CoinTraded
<1>3. CASE ManualOpens(o, gas)
  <2>1. PICK margin \in 1..(cash - gas) :
          /\ holding' = [holding EXCEPT ![NoWallet] = @ + margin]
          /\ Traded("coin", margin, margin + gas)
    BY <1>3 DEF ManualOpens
  <2>2. UNCHANGED <<token, op, adrift>> /\ lots' = lots
    BY <1>3 DEF ManualOpens, token
  <2>3. margin \in Int /\ margin >= 1 /\ NoWallet \in Owner
    BY DEF Owner
  <2>4. holding[NoWallet] \in Nat
    BY <1>0, <2>3 DEF HeldType
  <2>5. holding[NoWallet] + margin >= 0
    BY <2>3, <2>4
  <2>6. WaitInv' /\ ReadLotsStay'
    BY <2>2 DEF HeldInv, WaitInv, ReadLotsStay
  <2> QED
    BY <2>1, <2>2, <2>3, <2>5, <2>6, CoinTraded
<1> QED
  BY <1>1, <1>2, <1>3

LEMMA SaleKeepsHeld ==
  ASSUME HeldInv, NEW o \in Op, NEW proceeds, SellBooks(o, proceeds)
  PROVE  HeldInv'
<1> DEFINE held == op[o].lots
           quantity == op[o].amount
<1>1. /\ op[o].pc = "selling" /\ Onward(o) /\ lots' = LotsLess(held, quantity) /\ SyncPosition
      /\ Traded("token", 0 - quantity, 0 - proceeds) /\ UNCHANGED holding
      /\ adrift' = (adrift \ {"position"}) \cup StaleCash(o) \cup StaleLots(held, quantity)
  BY DEF SellBooks, At
<1>2. /\ quantity \in Nat /\ IsFiniteSet(DOMAIN held)
      /\ \A i \in DOMAIN held : held[i] \in Nat
      /\ quantity <= SumFunctionOnSet(held, DOMAIN held)
  BY <1>1 DEF HeldInv, WaitInv, Waits
<1>3. lots \in Seq(Lot(Owner)) /\ Listed(held, DOMAIN lots)
  BY <1>1, <1>2 DEF HeldInv, HeldType, ReadLotsStay, Listed
<1> HIDE DEF held, quantity
<1>4. /\ lots' \in Seq(Lot(Owner)) /\ DOMAIN lots \subseteq DOMAIN lots'
      /\ StaleLots(held, quantity) = {} => HeldOf(lots') = HeldOf(lots) - quantity
  BY <1>1, <1>2, <1>3, SaleTakesAll
<1>5. "lots" \notin adrift' => StaleLots(held, quantity) = {}
  BY <1>1 DEF StaleLots
<1>6. HeldOf(lots) \in Nat
  BY <1>3, LotsAreFinite
<1>7. "lots" \notin adrift' => HeldOf(lots') = HeldOf(lots) + (0 - quantity)
  BY <1>2, <1>4, <1>5, <1>6
<1>8. WaitInv' /\ ReadLotsStay'
  BY <1>1, <1>4, MovesOn
<1>9. /\ "lots" \in adrift => "lots" \in adrift'
      /\ "holding" \in adrift => "holding" \in adrift'
  BY <1>1
<1>10. 0 - quantity \in Int
  BY <1>2
<1> QED
  BY <1>1, <1>4, <1>7, <1>8, <1>9, <1>10, TokenTraded

LEMMA ClosesKeepHeld ==
  ASSUME HeldInv, WaitInv', ReadLotsStay', NEW owner \in Owner,
         NEW quantity \in Int, quantity <= holding[owner], NEW gain, CloseBooks(owner, quantity, gain)
  PROVE  HeldInv'
<1>1. holding \in [Owner -> Nat] /\ holding[owner] \in Nat
  BY DEF HeldInv, HeldType
<1>2. holding' = [holding EXCEPT ![owner] = @ + (0 - quantity)]
  <2>1. holding[owner] - quantity = holding[owner] + (0 - quantity)
    BY <1>1
  <2> QED
    BY <2>1 DEF CloseBooks
<1>3. holding[owner] + (0 - quantity) >= 0 /\ 0 - quantity \in Int
  BY <1>1
<1>4. /\ Traded("coin", 0 - quantity, 0 - gain) /\ UNCHANGED token
      /\ \A book \in {"lots", "position", "holding"} : book \in adrift => book \in adrift'
  BY DEF CloseBooks
<1> QED
  BY <1>2, <1>3, <1>4, CoinTraded

LEMMA BooksKeepHeld ==
  ASSUME HeldInv, NEW o \in Op, Books(o)
  PROVE  HeldInv'
<1>1. ASSUME NEW gain \in Gains, NEW x \in Owner, CopyCloses(o, x, gain) \/ ManualCloses(o, x, gain)
      PROVE  HeldInv'
  <2>1. PICK quantity \in 1..holding[x] : CloseBooks(x, quantity, gain)
    BY <1>1 DEF CopyCloses, ManualCloses
  <2>2. holding[x] \in Nat
    BY DEF HeldInv, HeldType
  <2>3. quantity \in Int /\ quantity <= holding[x]
    BY <2>2
  <2>4. op' = op /\ lots' = lots
    BY <1>1, <2>1 DEF CopyCloses, ManualCloses, CloseBooks, token
  <2>5. WaitInv' /\ ReadLotsStay'
    BY <2>4 DEF HeldInv, WaitInv, ReadLotsStay
  <2> QED
    BY <2>1, <2>3, <2>5, ClosesKeepHeld
<1> QED
  BY <1>1, BuysKeepHeld, SaleKeepsHeld DEF Books

-----------------------------------------------------------------------------
(* The lists and the refresh                                                *)

LEMMA FewerToDo ==
  ASSUME HeldInv, NEW o \in Op, NEW item, op' = [op EXCEPT ![o].todo = @ \ {item}],
         op[o].pc = "listing", lots' = lots
  PROVE  WaitInv' /\ ReadLotsStay'
<1>1. PICK b : b = op[o]
  OBVIOUS
<1>2. DOMAIN op = Op /\ Waits(b) /\ b.pc = "listing"
  BY <1>1 DEF HeldInv, WaitInv
<1> DEFINE r == [b EXCEPT !.todo = b.todo \ {item}]
<1>3. op' = [op EXCEPT ![o] = r]
  BY <1>1, <1>2
<1>4. Waits(r) /\ r.pc = "listing"
  BY <1>2 DEF Waits
<1> HIDE DEF r
<1> QED
  BY <1>3, <1>4, OneWaits

LEMMA ListsKeepHeld ==
  ASSUME HeldInv, NEW o \in Op, Lists(o)
  PROVE  HeldInv'
<1>0. Waits(op[o]) /\ op[o].todo \subseteq {"token", "coin"} \X Owner
  BY DEF HeldInv, WaitInv, Waits
<1>1. ASSUME NEW item, Passes(o, item)
      PROVE  HeldInv'
  <2>1. /\ op' = [op EXCEPT ![o].todo = @ \ {item}] /\ op[o].pc = "listing"
        /\ UNCHANGED books /\ lots' = lots
    BY <1>1 DEF Passes, Turn, At, books, token
  <2> QED
    BY <2>1, FewerToDo, HeldRests
<1>2. ASSUME NEW item, ListedSale(o, item)
      PROVE  HeldInv'
  <2>1. PICK owners, amounts : Sells(o, owners, amounts, op[o].todo \ {item})
    BY <1>2 DEF ListedSale
  <2>2. op[o].todo \ {item} \subseteq {"token", "coin"} \X Owner
    BY <1>0
  <2> QED
    BY <2>1, <2>2, SaleReadsLots
<1>3. ASSUME NEW item \in op[o].todo, NEW gain \in Gains, ListedClose(o, item, gain)
      PROVE  HeldInv'
  <2>1. /\ op' = [op EXCEPT ![o].todo = @ \ {item}] /\ op[o].pc = "listing"
        /\ CloseBooks(item[2], holding[item[2]], gain)
    BY <1>3 DEF ListedClose, Turn, At
  <2>2. item[2] \in Owner
    BY <1>0
  <2>3. holding[item[2]] \in Int /\ holding[item[2]] <= holding[item[2]]
    BY <2>2 DEF HeldInv, HeldType
  <2>4. lots' = lots
    BY <2>1 DEF CloseBooks, token
  <2>5. WaitInv' /\ ReadLotsStay'
    BY <2>1, <2>4, FewerToDo
  <2> QED
    BY <2>1, <2>2, <2>3, <2>5, ClosesKeepHeld
<1>4. CASE ReconcileCoins(o)
  <2>1. HeldCoins(Wallet) \subseteq {"token", "coin"} \X Owner
    BY DEF HeldCoins, Owner
  <2>2. Waits(Listing("coins", HeldCoins(Wallet)))
        /\ Listing("coins", HeldCoins(Wallet)).pc = "listing"
    BY <2>1, IdleWaits
  <2> QED
    BY <1>4, <2>2, OneRests DEF ReconcileCoins
<1>5. CASE ListDone(o)
  BY <1>5, IdleWaits, OneRests DEF ListDone
<1> QED
  BY <1>1, <1>2, <1>3, <1>4, <1>5 DEF Lists

LEMMA RefreshKeepsHeld ==
  ASSUME HeldInv, NEW o \in Op, Refreshes(o)
  PROVE  HeldInv'
<1>0. PICK b : b = op[o] /\ Waits(b) /\ DOMAIN op = Op
  BY DEF HeldInv, WaitInv
<1>1. CASE RefreshToken(o)
  <2> DEFINE r == [b EXCEPT !.pc = "pricing coin"]
  <2>1. op' = [op EXCEPT ![o] = r] /\ b.pc = "pricing token"
    BY <1>0, <1>1 DEF RefreshToken, At
  <2>2. Waits(r) /\ r.pc = "pricing coin"
    BY <1>0, <2>1 DEF Waits
  <2>3. UNCHANGED <<lots, holding, trades>>
    BY <1>1 DEF RefreshToken
  <2> HIDE DEF r
  <2>4. WaitInv' /\ ReadLotsStay'
    BY <2>1, <2>2, <2>3, OneWaits
  <2>5. /\ "lots" \in adrift <=> "lots" \in adrift'
        /\ "holding" \in adrift <=> "holding" \in adrift'
        /\ "position" \notin adrift' => "position" \notin adrift /\ position' = position
    BY <1>1 DEF RefreshToken
  <2> QED
    BY <2>3, <2>4, <2>5 DEF HeldInv, HeldType, HeldMatchesTrades
<1>2. CASE RefreshCoin(o)
  <2>1. PICK written \in SUBSET {x \in Owner : b.holding[x] > 0} :
          /\ holding' = [x \in Owner |-> IF x \in written THEN b.holding[x] ELSE holding[x]]
          /\ adrift' = adrift \cup
               (IF \A x \in written : holding[x] = b.holding[x] THEN {} ELSE {"holding"})
    BY <1>0, <1>2 DEF RefreshCoin
  <2>2. b.holding \in [Owner -> Nat] /\ holding \in [Owner -> Nat]
    BY <1>0, <1>2 DEF RefreshCoin, At, Waits, HeldInv, HeldType
  <2>3. holding' \in [Owner -> Nat]
    BY <2>1, <2>2
  <2>4. "holding" \notin adrift' => holding' = holding
    <3> SUFFICES ASSUME "holding" \notin adrift' PROVE holding' = holding
      OBVIOUS
    <3>1. \A x \in written : holding[x] = b.holding[x]
      BY <2>1
    <3>2. \A x \in Owner : holding'[x] = holding[x]
      BY <2>1, <3>1
    <3> QED
      BY <2>2, <2>3, <3>2
  <2>5. UNCHANGED <<lots, position, trades>> /\ op' = [op EXCEPT ![o] = Idle]
    BY <1>2 DEF RefreshCoin
  <2>6. WaitInv' /\ ReadLotsStay'
    BY <2>5, IdleWaits, OneWaits
  <2>7. \A book \in {"lots", "position", "holding"} : book \in adrift => book \in adrift'
    BY <2>1
  <2>8. HeldMatchesTrades'
    BY <2>4, <2>5, <2>7 DEF HeldInv, HeldMatchesTrades
  <2> QED
    BY <2>3, <2>5, <2>6, <2>8 DEF HeldInv, HeldType
<1> QED
  BY <1>1, <1>2 DEF Refreshes

-----------------------------------------------------------------------------
\* As long as no stale quantity was written, the open lots of the token, its
\* position row and the HyperCore positions hold what was bought and not sold
\* (executeBuy, executeSell, consumeLots, syncPositionFromLots, openPosition,
\* closePosition), for any operations, wallets and bounds.
THEOREM HeldAlwaysMatches == PaperSpec => []HeldMatchesTrades
<1>1. PaperInit => HeldInv
  <2> SUFFICES ASSUME PaperInit PROVE HeldInv
    OBVIOUS
  <2>1. HeldType
    BY DEF PaperInit, HeldType
  <2>2. WaitInv /\ ReadLotsStay
    BY IdleWaits DEF PaperInit, WaitInv, ReadLotsStay
  <2>3. Total([i \in DOMAIN lots |-> lots[i].amount]) = 0
    BY SumOfNone DEF PaperInit, Total, SumFunction
  <2>4. Total(holding) = 0
    <3>1. IsFiniteSet(Owner) /\ {} \subseteq Owner
      BY FS_AddElement DEF Owner
    <3>2. /\ \A x \in Owner : holding[x] \in Int
          /\ \A x \in Owner \ {} : holding[x] = 0
          /\ DOMAIN holding = Owner
      BY DEF PaperInit
    <3>3. SumFunctionOnSet(holding, Owner) = SumFunctionOnSet(holding, {})
      BY <3>1, <3>2, SumOutside
    <3> QED
      BY <3>2, <3>3, SumOfNone DEF Total, SumFunction
  <2>5. HeldMatchesTrades
    BY <2>3, <2>4 DEF PaperInit, HeldMatchesTrades
  <2> QED
    BY <2>1, <2>2, <2>5 DEF HeldInv
<1>2. HeldInv /\ [PaperNext]_paperVars => HeldInv'
  <2> SUFFICES ASSUME HeldInv, [PaperNext]_paperVars
               PROVE  HeldInv'
    OBVIOUS
  <2>1. ASSUME NEW o \in Op, GivesUp(o)
        PROVE  HeldInv'
    <3>1. Onward(o) /\ UNCHANGED books /\ lots' = lots
      BY <2>1 DEF GivesUp, books, token
    <3> QED
      BY <3>1, MovesOn, HeldRests
  <2>2. CASE UNCHANGED paperVars
    <3>1. UNCHANGED books /\ op' = op /\ lots' = lots
      BY <2>2 DEF paperVars, books, token
    <3>2. WaitInv' /\ ReadLotsStay'
      BY <3>1 DEF HeldInv, WaitInv, ReadLotsStay
    <3> QED
      BY <3>1, <3>2, HeldRests
  <2> QED
    BY <2>1, <2>2, StartsKeepHeld, BooksKeepHeld, ListsKeepHeld, RefreshKeepsHeld DEF PaperNext
<1>3. HeldInv => HeldMatchesTrades
  BY DEF HeldInv
<1> QED
  BY <1>1, <1>2, <1>3, PTL DEF PaperSpec

HIDE PaperAssumption

-----------------------------------------------------------------------------
(***************************************************************************)
(* The execution lots match the booked trades, and the reconciliation of   *)
(* the live lots takes no more than what left the wallet behind the        *)
(* program's back, for any handlers, source wallets and bounds.            *)
(*                                                                         *)
(* For the first it is enough that a handler which sells asks for no more  *)
(* than the lots it read hold, and that those lots are still there.  The   *)
(* second needs to know what the wallet must hold: all that was booked,    *)
(* what is filled and not booked yet, less what left (FundsInv).  A        *)
(* reconciliation that has read the lots either still accounts for them    *)
(* with the balance, or another one has reduced the oldest of them in the  *)
(* meantime, so that it writes a stale lot if it takes anything            *)
(* (ReadersInv).                                                           *)
(***************************************************************************)
USE LotsAssumption

Table == Seq(Lot(LotOwner))

LotsType ==
  /\ mode \in {"shadow", "live"} /\ owned \in Table
  /\ account \in Nat /\ balance \in Nat /\ departed \in Nat /\ adjusted \in Nat
  /\ bookedTrades \in [token : Int, money : Int, count : Nat]
  /\ checkup \in [status : {"pending", "passed", "failed"}, lots : SUBSET DOMAIN owned,
                  departed : Nat]

\* The local variables the books depend on: a sale is of no more than its lots held.
Prepared(w, places) ==
  /\ {"pc", "side", "owner", "amount", "held", "seen", "departed", "groups"} \subseteq DOMAIN w
  /\ w.side \in {"none", "buy", "sell"} /\ w.owner \in LotOwner
  /\ w.amount \in Nat /\ w.seen \in Nat /\ w.departed \in Nat
  /\ Listed(w.held, places) /\ \A held \in w.groups : Listed(held, places)
  /\ w.side = "sell" => w.amount <= TotalHeld(w.held)
  /\ w.pc \in {"quoting", "funding", "executing", "filled"} => w.side # "none"

WorkersInv == DOMAIN worker = Worker /\ \A o \in Worker : Prepared(worker[o], DOMAIN owned)

\* What the wallet has received and the lots do not have yet, or the other way round.
Due(w) ==
  IF w.pc # "filled" THEN 0 ELSE IF w.side = "buy" THEN w.amount ELSE 0 - w.amount
Dues(workers) == [o \in Worker |-> Due(workers[o])]
InFlight == SumFunctionOnSet(Dues(worker), Worker)

\* The wallet has got all that was booked, except for what left it behind the
\* program's back.
FundsInv == mode = "live" => bookedTrades.token + InFlight <= balance + departed

\* The oldest of the lots that were read has been reduced since.
OldestReduced(held) ==
  \E m \in DOMAIN held : owned[m].amount < held[m] /\ \A j \in DOMAIN held : m <= j

\* What the lots held when they were read is still accounted for.
AccountedFor(w) ==
  TotalHeld(w.held) + adjusted <= (IF w.pc = "adjusting" THEN w.seen ELSE balance) + departed

\* A reconciliation that has read the lots, or will read the lots of the moment.
Reading(w) ==
  /\ \A i \in DOMAIN w.held : 0 < w.held[i] /\ owned[i].amount <= w.held[i]
  /\ \A i \in DOMAIN owned, j \in DOMAIN w.held :
        i < j /\ i \notin DOMAIN w.held => owned[i].amount = 0
  /\ DOMAIN w.held = {} \/ OldestReduced(w.held) \/ AccountedFor(w)
  /\ w.pc = "adjusting" /\ w.departed = departed => w.seen <= balance

Unspoiled == stale \cap {"lots", "checkup"} = {}

Reads(w) == w.pc \in {"reconciling", "adjusting"}

ReaderOK(w) ==
  Reads(w) =>
    /\ mode = "live"
    /\ w.pc = "adjusting" => w.departed <= departed
    /\ Unspoiled => Reading(w)

ReadersInv == \A o \in Worker : ReaderOK(worker[o])

CheckupInv ==
  /\ mode = "shadow" => checkup.status = "pending" /\ \A o \in Worker : worker[o].pc # "filled"
  /\ checkup.departed <= departed

NoSale == \A o \in Worker : worker[o].pc = "filled" => worker[o].side = "buy"

LotsInv ==
  LotsType /\ WorkersInv /\ BooksMatchTrades /\ FundsInv /\ ReadersInv /\ CheckupInv
  /\ LotsAreCovered

-----------------------------------------------------------------------------
(* Reducing lots                                                            *)

LEMMA LotsReduced ==
  ASSUME owned \in Table, NEW held, Listed(held, DOMAIN owned),
         NEW amount \in Nat, amount <= TotalHeld(held)
  PROVE  /\ Reduced(held, amount) \in Table
         /\ DOMAIN Reduced(held, amount) = DOMAIN owned
         /\ Touched(held, amount) = UsedFrom(held, amount)
         /\ LotsMoved(held, amount) = {} =>
              /\ HeldOf(Reduced(held, amount)) = HeldOf(owned) - amount
              /\ SumFunctionOnSet(AmountsOf(Reduced(held, amount)), DOMAIN held)
                   = SumFunctionOnSet(AmountsOf(owned), DOMAIN held) - amount
              /\ \A i \in DOMAIN owned : Reduced(held, amount)[i].amount <= owned[i].amount
<1>1. ASSUME NEW i \in DOMAIN held
      PROVE  /\ OlderLots(held, i) = Older(held, i) /\ Older(held, i) \in Nat /\ held[i] \in Nat
  <2>1. OlderLots(held, i) = SumFunctionOnSet(held, Below(DOMAIN held, i))
    BY DEF OlderLots, Below
  <2>2. Below(DOMAIN held, i) \subseteq DOMAIN held
    BY DEF Below
  <2>3. IsFiniteSet(DOMAIN held) /\ \A j \in DOMAIN held : held[j] \in Nat
    BY DEF Listed
  <2>4. SumFunctionOnSet(held, Below(DOMAIN held, i)) \in Nat
    BY <2>2, <2>3, SumOfPart
  <2> QED
    BY <2>1, <2>3, <2>4 DEF Older
<1>2. Touched(held, amount) = UsedFrom(held, amount)
  BY <1>1 DEF Touched, UsedFrom
<1>3. ASSUME NEW i \in UsedFrom(held, amount)
      PROVE  held[i] - TakenFrom(held, amount, i) = Kept(held, amount, i)
  <2>1. PICK b \in Nat : b = Older(held, i) /\ b = OlderLots(held, i) /\ b < amount
    BY <1>1 DEF UsedFrom
  <2>2. held[i] \in Nat
    BY <1>1 DEF UsedFrom
  <2> QED
    BY <2>1, <2>2 DEF TakenFrom, AtMost, AtLeast, Kept
<1>4. Reduced(held, amount) = AfterUse(owned, held, amount)
  BY <1>2, <1>3 DEF Reduced, AfterUse
<1>5. LotsMoved(held, amount) = {} => \A i \in UsedFrom(held, amount) : owned[i].amount = held[i]
  BY <1>2 DEF LotsMoved
<1>6. /\ owned \in Seq(Lot(LotOwner)) /\ amount <= SumFunctionOnSet(held, DOMAIN held)
  BY DEF Table, TotalHeld, SumFunction
<1> QED
  BY <1>2, <1>4, <1>5, <1>6, LotsUsedUp DEF Table

LEMMA HeldIsNumber ==
  ASSUME NEW places, NEW held, Listed(held, places)
  PROVE  TotalHeld(held) = SumFunctionOnSet(held, DOMAIN held) /\ TotalHeld(held) \in Nat
<1>1. IsFiniteSet(DOMAIN held) /\ \A i \in DOMAIN held : held[i] \in Nat
  BY DEF Listed
<1>2. SumFunctionOnSet(held, DOMAIN held) \in Nat
  BY <1>1, SumOfPart
<1> QED
  BY <1>2 DEF TotalHeld, SumFunction

\* The open lots of some owners; those of all owners hold all there is.
LEMMA OpenAreListed ==
  ASSUME owned \in Table, NEW owners
  PROVE  /\ Listed(OpenLots(owners), DOMAIN owned)
         /\ \A i \in DOMAIN OpenLots(owners) :
              0 < OpenLots(owners)[i] /\ OpenLots(owners)[i] = owned[i].amount
         /\ owners = LotOwner =>
              /\ TotalHeld(OpenLots(owners)) = HeldOf(owned)
              /\ SumFunctionOnSet(AmountsOf(owned), DOMAIN OpenLots(owners)) = HeldOf(owned)
              /\ \A i \in DOMAIN owned \ DOMAIN OpenLots(owners) : owned[i].amount = 0
<1>1. /\ IsFiniteSet(DOMAIN owned)
      /\ \A i \in DOMAIN owned : /\ owned[i] \in Lot(LotOwner)
                                 /\ AmountsOf(owned)[i] = owned[i].amount
                                 /\ AmountsOf(owned)[i] \in Nat
      /\ HeldOf(owned) = SumFunctionOnSet(AmountsOf(owned), DOMAIN owned)
  BY LotsAreFinite DEF Table
<1> DEFINE open == OpenLots(owners)
<1>2. /\ DOMAIN open \subseteq DOMAIN owned
      /\ \A i \in DOMAIN open : 0 < open[i] /\ open[i] = owned[i].amount
  BY DEF OpenLots
<1>3. IsFiniteSet(DOMAIN open)
  BY <1>1, <1>2, FiniteParts
<1>4. Listed(open, DOMAIN owned)
  BY <1>1, <1>2, <1>3 DEF Listed
<1>5. ASSUME owners = LotOwner
      PROVE  /\ TotalHeld(open) = HeldOf(owned)
             /\ SumFunctionOnSet(AmountsOf(owned), DOMAIN open) = HeldOf(owned)
             /\ \A i \in DOMAIN owned \ DOMAIN open : owned[i].amount = 0
  <2>1. ASSUME NEW i \in DOMAIN owned, i \notin DOMAIN open
        PROVE  owned[i].amount = 0
    <3>1. owned[i].owner \in owners /\ owned[i].amount \in Nat
      BY <1>1, <1>5 DEF Lot
    <3>2. ~(owned[i].amount > 0)
      BY <2>1, <3>1 DEF OpenLots
    <3> QED
      BY <3>1, <3>2
  <2>2. PICK a, D, L : a = AmountsOf(owned) /\ D = DOMAIN open /\ L = DOMAIN owned
    OBVIOUS
  <2>3. IsFiniteSet(L)
    BY <1>1, <2>2
  <2>4. /\ \A x \in L : a[x] \in Int
        /\ \A x \in L \ D : a[x] = 0
        /\ D \subseteq L
    BY <1>1, <1>2, <2>1, <2>2
  <2>5. SumFunctionOnSet(a, L) = SumFunctionOnSet(a, D)
    BY <2>3, <2>4, SumOutside
  <2>6. IsFiniteSet(D) /\ \A x \in D : open[x] = a[x]
    BY <1>1, <1>2, <1>3, <2>2
  <2>7. SumFunctionOnSet(open, D) = SumFunctionOnSet(a, D)
    BY <2>6, SumSame
  <2>8. TotalHeld(open) = SumFunctionOnSet(open, D)
    BY <1>4, <2>2, HeldIsNumber
  <2> QED
    BY <1>1, <2>1, <2>2, <2>5, <2>7, <2>8
<1> QED
  BY <1>2, <1>4, <1>5

-----------------------------------------------------------------------------
(* The handlers                                                             *)

LEMMA IdlePrepared ==
  ASSUME NEW places
  PROVE  /\ Prepared(IdleWorker, places) /\ IdleWorker.pc = "idle" /\ IdleWorker.groups = {}
         /\ Listed(<< >>, places)
         /\ DOMAIN IdleWorker = {"pc", "side", "owner", "amount", "held", "seen", "departed", "groups"}
<1>1. Listed(<< >>, places)
  <2>1. DOMAIN << >> = {}
    OBVIOUS
  <2> QED
    BY <2>1, FS_EmptySet DEF Listed
<1>2. NoSource \in LotOwner
  BY DEF LotOwner
<1> QED
  BY <1>1, <1>2 DEF Prepared, IdleWorker

LEMMA PreparedGrows ==
  ASSUME NEW w, NEW places, NEW more, Prepared(w, places), places \subseteq more
  PROVE  Prepared(w, more)
  BY DEF Prepared, Listed

\* The step of one handler: what it leaves in its local variables.
Turns(o, r) == worker' = [worker EXCEPT ![o] = r] /\ Prepared(r, DOMAIN owned')

LEMMA WorkersStay ==
  ASSUME WorkersInv, NEW o \in Worker, NEW r, Turns(o, r), DOMAIN owned \subseteq DOMAIN owned'
  PROVE  /\ WorkersInv'
         /\ worker'[o] = r /\ \A x \in Worker \ {o} : worker'[x] = worker[x]
<1>1. /\ DOMAIN worker' = Worker /\ worker'[o] = r
      /\ \A x \in Worker \ {o} : worker'[x] = worker[x]
  BY DEF WorkersInv, Turns
<1>2. ASSUME NEW x \in Worker
      PROVE  Prepared(worker'[x], DOMAIN owned')
  <2>1. CASE x = o
    BY <1>1, <2>1 DEF Turns
  <2>2. CASE x # o
    BY <1>1, <2>2, PreparedGrows DEF WorkersInv
  <2> QED
    BY <2>1, <2>2
<1> QED
  BY <1>1, <1>2 DEF WorkersInv

LEMMA DueIsInteger ==
  ASSUME NEW w, NEW places, Prepared(w, places)
  PROVE  Due(w) \in Int
<1>1. w.amount \in Nat
  BY DEF Prepared
<1> QED
  BY <1>1 DEF Due

LEMMA InFlightMoves ==
  ASSUME WorkersInv, NEW o \in Worker, NEW r, Turns(o, r), DOMAIN owned \subseteq DOMAIN owned'
  PROVE  /\ InFlight \in Int /\ InFlight' = (InFlight - Due(worker[o])) + Due(r)
         /\ Due(worker[o]) \in Int /\ Due(r) \in Int
<1>1. /\ WorkersInv' /\ worker'[o] = r /\ \A x \in Worker \ {o} : worker'[x] = worker[x]
  BY WorkersStay
<1>2. \A x \in Worker : Due(worker[x]) \in Int /\ Due(worker'[x]) \in Int
  BY <1>1, DueIsInteger DEF WorkersInv
<1>3. PICK f, g : f = Dues(worker) /\ g = Dues(worker')
  OBVIOUS
<1>4. /\ \A x \in Worker : f[x] = Due(worker[x]) /\ g[x] = Due(worker'[x])
      /\ f[o] = Due(worker[o]) /\ g[o] = Due(r)
  BY <1>1, <1>3 DEF Dues
<1>5. DiffersAt(Worker, f, g, o)
  BY <1>1, <1>2, <1>4 DEF DiffersAt, LotsAssumption
<1>6. SumFunctionOnSet(g, Worker) = (SumFunctionOnSet(f, Worker) - f[o]) + g[o]
  BY <1>5, SumChanges
<1>7. InFlight = SumFunctionOnSet(f, Worker) /\ InFlight' = SumFunctionOnSet(g, Worker)
  BY <1>3 DEF InFlight
<1>8. SumFunctionOnSet(f, Worker) \in Int
  <2>1. IsFiniteSet(Worker) /\ \A x \in Worker : f[x] \in Int
    BY <1>2, <1>4 DEF LotsAssumption
  <2> QED
    BY <2>1, SumIsInteger
<1> QED
  BY <1>1, <1>2, <1>4, <1>6, <1>7, <1>8

\* With no sale that is filled and not booked, the wallet is ahead of the lots.
LEMMA OnlyPurchasesFly ==
  ASSUME WorkersInv, NoSale
  PROVE  InFlight \in Nat
<1>1. ASSUME NEW x \in Worker
      PROVE  Dues(worker)[x] \in Nat
  <2>1. worker[x].amount \in Nat
    BY DEF WorkersInv, Prepared
  <2> QED
    BY <2>1 DEF Dues, Due, NoSale
<1>2. IsFiniteSet(Worker)
  BY DEF LotsAssumption
<1> QED
  BY <1>1, <1>2, SumOfPart DEF InFlight

\* What a reconciliation has read stays good while lots only get smaller or are
\* added at the end, and the wallet loses nothing that is not counted.
LEMMA ReadingStays ==
  ASSUME LotsType, LotsType', NEW w, Prepared(w, DOMAIN owned), Reading(w),
         w.pc = "adjusting" => w.departed <= departed,
         adjusted' = adjusted, departed <= departed',
         balance + departed <= balance' + departed',
         departed' = departed => balance <= balance',
         DOMAIN owned \subseteq DOMAIN owned',
         \A i \in DOMAIN owned : owned'[i].amount <= owned[i].amount,
         \A i \in DOMAIN owned' \ DOMAIN owned, j \in DOMAIN owned : j < i
  PROVE  Reading(w)'
<1>1. /\ \A i \in DOMAIN w.held : i \in DOMAIN owned /\ i \in DOMAIN owned' /\ w.held[i] \in Nat
      /\ TotalHeld(w.held) \in Nat /\ w.seen \in Nat /\ w.departed \in Nat
  BY HeldIsNumber DEF Prepared, Listed
<1>2. /\ \A i \in DOMAIN owned : owned[i].amount \in Nat /\ i \in Nat
      /\ \A i \in DOMAIN owned' : owned'[i].amount \in Nat /\ i \in Nat
  <2>1. ASSUME NEW table \in Table, NEW i \in DOMAIN table
        PROVE  table[i].amount \in Nat /\ i \in Nat
    BY LotsAreFinite DEF Table
  <2> QED
    BY <2>1 DEF LotsType
<1>3. \A i \in DOMAIN w.held : 0 < w.held[i] /\ owned'[i].amount <= w.held[i]
  BY <1>1, <1>2 DEF Reading
<1>4. ASSUME NEW i \in DOMAIN owned', NEW j \in DOMAIN w.held, i < j, i \notin DOMAIN w.held
      PROVE  owned'[i].amount = 0
  <2>1. i \in DOMAIN owned
    BY <1>1, <1>2, <1>4
  <2>2. owned[i].amount = 0
    BY <1>4, <2>1 DEF Reading
  <2> QED
    BY <1>2, <2>1, <2>2
<1>5. OldestReduced(w.held) => OldestReduced(w.held)'
  <2> SUFFICES ASSUME NEW m \in DOMAIN w.held, owned[m].amount < w.held[m],
                      \A j \in DOMAIN w.held : m <= j
               PROVE  OldestReduced(w.held)'
    BY DEF OldestReduced
  <2>1. owned'[m].amount < w.held[m]
    BY <1>1, <1>2
  <2> QED
    BY <2>1 DEF OldestReduced
<1>6. AccountedFor(w) => AccountedFor(w)'
  BY <1>1 DEF AccountedFor, LotsType
<1>7. w.pc = "adjusting" /\ w.departed = departed' => w.seen <= balance'
  BY <1>1 DEF Reading, LotsType
<1>8. DOMAIN w.held = {} \/ OldestReduced(w.held)' \/ AccountedFor(w)'
  BY <1>5, <1>6 DEF Reading
<1> QED
  BY <1>3, <1>4, <1>7, <1>8 DEF Reading

-----------------------------------------------------------------------------
(* What a step keeps                                                        *)

\* A step that takes from the lots only, and nothing uncounted from the wallet.
Harmless ==
  /\ adjusted' = adjusted
  /\ balance + departed <= balance' + departed'
  /\ departed' = departed => balance <= balance'
  /\ \A i \in DOMAIN owned : owned'[i].amount <= owned[i].amount

AddsBehind ==
  /\ DOMAIN owned \subseteq DOMAIN owned'
  /\ \A i \in DOMAIN owned' \ DOMAIN owned, j \in DOMAIN owned : j < i

LEMMA ReadersStay ==
  ASSUME LotsInv, LotsType', NEW o \in Worker, NEW r, Turns(o, r), AddsBehind,
         mode' = mode, departed <= departed', ReaderOK(r)',
         Unspoiled' => Unspoiled /\ (Harmless \/ \A x \in Worker \ {o} : ~Reads(worker[x]))
  PROVE  ReadersInv'
<1>1. /\ worker'[o] = r /\ \A x \in Worker \ {o} : worker'[x] = worker[x]
  BY WorkersStay DEF LotsInv, AddsBehind
<1>2. ASSUME NEW x \in Worker, x # o
      PROVE  ReaderOK(worker[x])'
  <2>1. PICK w : w = worker[x] /\ w = worker'[x]
    BY <1>1, <1>2
  <2>2. ReaderOK(w) /\ Prepared(w, DOMAIN owned)
    BY <2>1 DEF LotsInv, ReadersInv, WorkersInv
  <2>3. ReaderOK(w)'
    <3> SUFFICES ASSUME Reads(w)
                 PROVE  /\ mode' = "live"
                        /\ w.pc = "adjusting" => w.departed <= departed'
                        /\ Unspoiled' => Reading(w)'
      BY DEF ReaderOK, Reads
    <3>1. mode = "live" /\ (w.pc = "adjusting" => w.departed <= departed)
      BY <2>2 DEF ReaderOK
    <3>2. w.departed \in Nat /\ departed \in Nat /\ departed' \in Nat
      BY <2>2 DEF Prepared, LotsType, LotsInv
    <3>3. ASSUME Unspoiled' PROVE Reading(w)'
      <4>1. Reading(w)
        BY <2>2, <3>3 DEF ReaderOK
      <4>2. Harmless
        BY <1>2, <2>1, <3>3
      <4> QED
        BY <2>2, <3>1, <4>1, <4>2, ReadingStays DEF LotsInv, Harmless, AddsBehind
    <3> QED
      BY <3>1, <3>2, <3>3
  <2> QED
    BY <2>1, <2>3 DEF ReaderOK, Reads, Reading, OldestReduced, AccountedFor
<1>3. ReaderOK(worker[o])'
  BY <1>1 DEF ReaderOK, Reads, Reading, OldestReduced, AccountedFor
<1> QED
  BY <1>2, <1>3 DEF ReadersInv

\* What a reconciliation found stays covered until lots change or ask for another.
LEMMA CoverStays ==
  ASSUME LotsInv, LotsType', Unspoiled' => Unspoiled, adjusted' = adjusted, departed <= departed',
         heldOn' = heldOn,
         \/ checkup'.status # "passed"
         \/ checkup' = checkup /\ owned' = owned
            /\ (departed' = departed /\ NoSale' => NoSale /\ balance <= balance')
  PROVE  LotsAreCovered'
<1>1. ASSUME Unspoiled'
      PROVE  adjusted' <= departed'
  <2>1. adjusted <= departed
    BY <1>1 DEF LotsInv, LotsAreCovered, Unspoiled
  <2> QED
    BY <2>1 DEF LotsInv, LotsType
<1>2. ASSUME Unspoiled', checkup'.status = "passed", checkup'.departed = departed', NoSale'
      PROVE  ComparedAreHeld'
  <2>1. checkup' = checkup /\ owned' = owned
    BY <1>2
  <2>2. departed' = departed
    BY <1>2, <2>1 DEF LotsInv, CheckupInv, LotsType
  <2>3. NoSale /\ balance <= balance'
    BY <1>2, <2>2
  <2>4. ComparedAreHeld
    BY <1>2, <2>1, <2>2, <2>3 DEF LotsInv, LotsAreCovered, Unspoiled, NoSale, WorkerAt
  <2>5. balance \in Int /\ balance' \in Int /\ checkup.lots \subseteq DOMAIN owned
    BY DEF LotsInv, LotsType
  <2>6. IsFiniteSet(DOMAIN owned) /\ \A i \in DOMAIN owned : owned[i].amount \in Nat
    BY LotsAreFinite DEF LotsInv, LotsType, Table
  <2>7. CASE heldOn = "hypercore"
    <3>1. \A i \in checkup.lots : owned[i].amount <= balance'
      BY <2>3, <2>4, <2>5, <2>6, <2>7 DEF ComparedAreHeld
    <3> QED
      BY <2>1, <2>7, <3>1 DEF ComparedAreHeld
  <2>8. CASE heldOn # "hypercore"
    <3>1. PICK a, D : a = Amounts(owned) /\ D = checkup.lots
      OBVIOUS
    <3>2. \A i \in DOMAIN owned : a[i] \in Nat
      BY <2>6, <3>1 DEF Amounts
    <3>3. SumFunctionOnSet(a, D) \in Nat
      BY <2>5, <2>6, <3>1, <3>2, SumOfPart
    <3>4. SumFunctionOnSet(a, D) <= balance
      BY <2>4, <2>8, <3>1 DEF ComparedAreHeld
    <3>5. SumFunctionOnSet(a, D) <= balance'
      BY <2>3, <2>5, <3>3, <3>4
    <3>6. Amounts(owned)' = a /\ checkup'.lots = D
      BY <2>1, <3>1 DEF Amounts
    <3> QED
      BY <2>8, <3>5, <3>6 DEF ComparedAreHeld
  <2> QED
    BY <2>7, <2>8
<1> QED
  BY <1>1, <1>2 DEF LotsAreCovered, Unspoiled, NoSale, WorkerAt

LEMMA OneTurns ==
  ASSUME LotsInv, LotsType', NEW o \in Worker, NEW r, Turns(o, r), AddsBehind,
         mode' = mode, departed <= departed', ReaderOK(r)',
         Unspoiled' => Unspoiled /\ (Harmless \/ \A x \in Worker \ {o} : ~Reads(worker[x])),
         BooksMatchTrades', LotsAreCovered',
         mode = "live" => (bookedTrades'.token - bookedTrades.token) + (Due(r) - Due(worker[o]))
                            <= (balance' + departed') - (balance + departed),
         mode = "shadow" => checkup'.status = "pending" /\ r.pc # "filled",
         checkup'.departed <= departed'
  PROVE  LotsInv'
<1>1. WorkersInv' /\ worker'[o] = r /\ \A x \in Worker \ {o} : worker'[x] = worker[x]
  BY WorkersStay DEF LotsInv, AddsBehind
<1>2. ReadersInv'
  BY ReadersStay
<1>3. FundsInv'
  <2> SUFFICES ASSUME mode = "live"
               PROVE  bookedTrades'.token + InFlight' <= balance' + departed'
    BY DEF FundsInv
  <2>1. bookedTrades.token + InFlight <= balance + departed
    BY DEF LotsInv, FundsInv
  <2>2. /\ InFlight \in Int /\ InFlight' = (InFlight - Due(worker[o])) + Due(r)
        /\ Due(worker[o]) \in Int /\ Due(r) \in Int
    BY InFlightMoves DEF LotsInv, AddsBehind
  <2>3. /\ bookedTrades.token \in Int /\ bookedTrades'.token \in Int
        /\ balance \in Int /\ balance' \in Int /\ departed \in Int /\ departed' \in Int
    BY DEF LotsInv, LotsType
  <2>4. PICK d \in Int : d = Due(r) - Due(worker[o]) /\ InFlight' = InFlight + d
    BY <2>2
  <2> QED
    BY <2>1, <2>2, <2>3, <2>4
<1>4. CheckupInv'
  BY <1>1 DEF LotsInv, CheckupInv
<1> QED
  BY <1>1, <1>2, <1>3, <1>4 DEF LotsInv

\* A step that leaves the lots, the wallet and the trades alone, by a handler that
\* has nothing filled and reads nothing for a reconciliation.
LEMMA OneRestsAside ==
  ASSUME LotsInv, LotsType', NEW o \in Worker, NEW r, Turns(o, r),
         UNCHANGED <<mode, heldOn, owned, balance, bookedTrades, departed, adjusted, checkup>>,
         Unspoiled' => Unspoiled, BooksMatchTrades',
         worker[o].pc # "filled", r.pc # "filled", ReaderOK(r)'
  PROVE  LotsInv'
<1>1. AddsBehind /\ departed <= departed' /\ checkup'.departed <= departed'
  BY DEF AddsBehind, LotsInv, LotsType, CheckupInv
<1>2. Harmless
  <2>1. \A i \in DOMAIN owned : owned[i].amount \in Nat
    BY LotsAreFinite DEF LotsInv, LotsType, Table
  <2> QED
    BY <2>1 DEF Harmless, LotsInv, LotsType
<1>3. worker'[o] = r /\ \A x \in Worker \ {o} : worker'[x] = worker[x]
  BY WorkersStay DEF LotsInv
<1>4. NoSale' => NoSale
  BY <1>3 DEF NoSale
<1>5. LotsAreCovered'
  BY <1>1, <1>4, CoverStays DEF LotsInv, LotsType
<1>6. Due(r) = 0 /\ Due(worker[o]) = 0
  BY DEF Due
<1>7. mode = "live" => (bookedTrades'.token - bookedTrades.token) + (Due(r) - Due(worker[o]))
                         <= (balance' + departed') - (balance + departed)
  BY <1>6 DEF LotsInv, LotsType
<1>8. mode = "shadow" => checkup'.status = "pending" /\ r.pc # "filled"
  BY DEF LotsInv, CheckupInv
<1> QED
  BY <1>1, <1>2, <1>5, <1>7, <1>8, OneTurns

-----------------------------------------------------------------------------
(* Trades                                                                   *)

LEMMA QuietTurn ==
  ASSUME LotsInv, NEW o \in Worker, NEW r, worker' = [worker EXCEPT ![o] = r],
         Prepared(r, DOMAIN owned), worker[o].pc # "filled",
         r.pc \notin {"filled", "reconciling", "adjusting"},
         UNCHANGED <<mode, heldOn, owned, account, balance, bookedTrades, departed, adjusted, checkup, stale>>
  PROVE  LotsInv'
<1>1. LotsType'
  BY DEF LotsInv, LotsType
<1>2. BooksMatchTrades'
  BY DEF LotsInv, BooksMatchTrades
<1>3. Turns(o, r) /\ ReaderOK(r)' /\ (Unspoiled' => Unspoiled)
  BY DEF Turns, ReaderOK, Reads, Unspoiled
<1> QED
  BY <1>1, <1>2, <1>3, OneRestsAside

\* What a handler goes on with, and what it is left with at its end.
LEMMA GoesOn ==
  ASSUME LotsInv, NEW o \in Worker, NEW pc, Goes(o, pc), worker[o].pc \in {"quoting", "funding", "executing"}
  PROVE  \E r : /\ Prepared(r, DOMAIN owned) /\ r.pc = pc
               /\ worker' = [worker EXCEPT ![o] = r]
               /\ r.side = worker[o].side /\ r.amount = worker[o].amount /\ r.held = worker[o].held
<1>1. PICK b : b = worker[o] /\ Prepared(b, DOMAIN owned) /\ DOMAIN worker = Worker
  BY DEF LotsInv, WorkersInv
<1> DEFINE r == [b EXCEPT !.pc = pc]
<1>2. /\ DOMAIN r = DOMAIN b /\ r.pc = pc /\ r.side = b.side /\ r.owner = b.owner /\ r.amount = b.amount
      /\ r.held = b.held /\ r.seen = b.seen /\ r.departed = b.departed /\ r.groups = b.groups
  BY <1>1 DEF Prepared
<1>3. worker' = [worker EXCEPT ![o] = r]
  BY <1>1 DEF Goes
<1> HIDE DEF r
<1>4. Prepared(r, DOMAIN owned)
  BY <1>1, <1>2 DEF Prepared
<1> QED
  BY <1>1, <1>2, <1>3, <1>4

LEMMA EndsWith ==
  ASSUME LotsInv, NEW o \in Worker, WorkerEnds(o)
  PROVE  \E r : /\ worker' = [worker EXCEPT ![o] = r] /\ Prepared(r, DOMAIN owned)
                /\ r.pc \in {"idle", "closing"}
<1>1. PICK b : b = worker[o] /\ Prepared(b, DOMAIN owned) /\ DOMAIN worker = Worker
  BY DEF LotsInv, WorkersInv
<1> DEFINE left == [IdleWorker EXCEPT !.pc = "closing", !.groups = b.groups]
<1>2. Prepared(IdleWorker, DOMAIN owned) /\ IdleWorker.pc = "idle"
  BY IdlePrepared
<1>3. Prepared(left, DOMAIN owned) /\ left.pc = "closing"
  BY <1>1, <1>2 DEF Prepared, IdleWorker
<1>4. worker' = [worker EXCEPT ![o] = IF b.groups = {} THEN IdleWorker ELSE left]
  BY <1>1 DEF WorkerEnds
<1> HIDE DEF left
<1> QED
  BY <1>2, <1>3, <1>4

LEMMA TradeStarts ==
  ASSUME LotsInv, NEW o \in Worker, WorkerAt(o, "idle") \/ WorkerAt(o, "closing"),
         NEW side \in {"buy", "sell"}, NEW owner \in LotOwner, NEW amount \in Nat, NEW held,
         Listed(held, DOMAIN owned), side = "sell" => amount <= TotalHeld(held),
         NEW groups, groups \subseteq worker[o].groups,
         worker' = [worker EXCEPT ![o] = [IdleWorker EXCEPT !.pc = "quoting", !.side = side,
                      !.owner = owner, !.amount = amount, !.held = held, !.groups = groups]],
         UNCHANGED <<mode, heldOn, owned, account, balance, bookedTrades, departed, adjusted, checkup, stale>>
  PROVE  LotsInv'
<1> DEFINE r == [IdleWorker EXCEPT !.pc = "quoting", !.side = side, !.owner = owner,
                                   !.amount = amount, !.held = held, !.groups = groups]
<1>1. Prepared(worker[o], DOMAIN owned)
  BY DEF LotsInv, WorkersInv
<1>2. Prepared(IdleWorker, DOMAIN owned)
  BY IdlePrepared
<1>3. Prepared(r, DOMAIN owned) /\ r.pc = "quoting"
  BY <1>1, <1>2 DEF Prepared, IdleWorker
<1>4. worker[o].pc # "filled"
  BY DEF WorkerAt
<1> HIDE DEF r
<1>5. worker' = [worker EXCEPT ![o] = r]
  BY DEF r
<1> QED
  BY <1>3, <1>4, <1>5, QuietTurn

LEMMA NewTradeStep ==
  ASSUME LotsInv, NEW o \in Worker,
         \/ \E owner \in LotOwner : Buys(o, owner)
         \/ \E w \in Source : CopySellsLots(o, w)
         \/ ManualSellsLots(o)
  PROVE  LotsInv'
<1>1. \E side \in {"buy", "sell"}, owner \in LotOwner, amount \in Nat : \E held :
        /\ WorkerAt(o, "idle") /\ WorkerStarts(o, side, owner, amount, held)
        /\ Listed(held, DOMAIN owned) /\ (side = "sell" => amount <= TotalHeld(held))
  <2>1. ASSUME NEW owner \in LotOwner, Buys(o, owner)
        PROVE  \E amount \in Nat : WorkerAt(o, "idle") /\ WorkerStarts(o, "buy", owner, amount, << >>)
    <3>1. Sizes \subseteq Nat
      BY DEF Sizes
    <3> QED
      BY <2>1, <3>1 DEF Buys
  <2>2. Listed(<< >>, DOMAIN owned)
    BY IdlePrepared
  <2>3. owned \in Table
    BY DEF LotsInv, LotsType
  <2>4. ASSUME NEW owner \in LotOwner, NEW owners, NEW n \in 1..TotalHeld(OpenLots(owners)),
               WorkerAt(o, "idle"), WorkerStarts(o, "sell", owner, n, OpenLots(owners))
        PROVE  \E amount \in Nat : \E held :
                 /\ WorkerAt(o, "idle") /\ WorkerStarts(o, "sell", owner, amount, held)
                 /\ Listed(held, DOMAIN owned) /\ amount <= TotalHeld(held)
    <3>1. PICK held : held = OpenLots(owners) /\ Listed(held, DOMAIN owned)
      BY <2>3, OpenAreListed
    <3>2. TotalHeld(held) \in Nat
      BY <3>1, HeldIsNumber
    <3>3. n \in Nat /\ n <= TotalHeld(held)
      BY <3>1, <3>2
    <3> QED
      BY <2>4, <3>1, <3>3
  <2>5. Source \subseteq LotOwner /\ NoSource \in LotOwner
    BY DEF LotOwner
  <2>6. CASE \E owner \in LotOwner : Buys(o, owner)
    BY <2>1, <2>2, <2>6
  <2>7. CASE \E w \in Source : CopySellsLots(o, w)
    <3>1. PICK w \in Source : CopySellsLots(o, w)
      BY <2>7
    <3> QED
      BY <2>4, <2>5, <3>1 DEF CopySellsLots
  <2>8. CASE ManualSellsLots(o)
    BY <2>4, <2>5, <2>8 DEF ManualSellsLots
  <2> QED
    BY <2>6, <2>7, <2>8
<1>2. PICK side \in {"buy", "sell"}, owner \in LotOwner, amount \in Nat : \E held :
        /\ WorkerAt(o, "idle") /\ WorkerStarts(o, side, owner, amount, held)
        /\ Listed(held, DOMAIN owned) /\ (side = "sell" => amount <= TotalHeld(held))
  BY <1>1
<1>3. PICK held :
        /\ WorkerAt(o, "idle") /\ WorkerStarts(o, side, owner, amount, held)
        /\ Listed(held, DOMAIN owned) /\ (side = "sell" => amount <= TotalHeld(held))
  BY <1>2
<1> QED
  BY <1>3, TradeStarts DEF WorkerStarts

\* What a handler does before anything happened.
LEMMA BeforeStep ==
  ASSUME LotsInv, NEW o \in Worker,
         Approves(o) \/ FundsAccount(o) \/ AccountFunded(o) \/ Fails(o)
  PROVE  LotsInv'
<1>0. PICK b : b = worker[o] /\ Prepared(b, DOMAIN owned) /\ DOMAIN worker = Worker
  BY DEF LotsInv, WorkersInv
<1>1. CASE Approves(o)
  <2>1. Goes(o, "executing") /\ worker[o].pc = "quoting"
    BY <1>1 DEF Approves, WorkerAt
  <2>2. PICK r : /\ Prepared(r, DOMAIN owned) /\ r.pc = "executing"
                 /\ worker' = [worker EXCEPT ![o] = r]
    BY <2>1, GoesOn
  <2> QED
    BY <1>1, <2>1, <2>2, QuietTurn DEF Approves
<1>2. CASE FundsAccount(o)
  <2> DEFINE r == [b EXCEPT !.pc = "funding", !.seen = account]
  <2>1. worker' = [worker EXCEPT ![o] = r] /\ b.pc = "quoting" /\ worker[o].pc = "quoting"
    BY <1>0, <1>2 DEF FundsAccount, WorkerAt
  <2>2. /\ DOMAIN r = DOMAIN b /\ r.pc = "funding" /\ r.side = b.side /\ r.owner = b.owner
        /\ r.amount = b.amount /\ r.held = b.held /\ r.seen = account
        /\ r.departed = b.departed /\ r.groups = b.groups
    BY <1>0 DEF Prepared
  <2> HIDE DEF r
  <2>3. Prepared(r, DOMAIN owned)
    BY <1>0, <2>1, <2>2 DEF Prepared, LotsInv, LotsType
  <2> QED
    BY <1>2, <2>1, <2>2, <2>3, QuietTurn DEF FundsAccount
<1>3. CASE AccountFunded(o)
  <2>1. /\ Goes(o, "quoting") /\ worker[o].pc = "funding"
        /\ account' = b.seen /\ stale' = stale \cup StaleAccount(o)
        /\ UNCHANGED <<mode, heldOn, owned, balance, bookedTrades, departed, adjusted, checkup>>
    BY <1>0, <1>3 DEF AccountFunded, WorkerAt
  <2>2. PICK r : /\ Prepared(r, DOMAIN owned) /\ r.pc = "quoting"
                 /\ worker' = [worker EXCEPT ![o] = r]
    BY <2>1, GoesOn
  <2>3. b.seen \in Nat
    BY <1>0 DEF Prepared
  <2>4. LotsType'
    BY <2>1, <2>3 DEF LotsInv, LotsType
  <2>5. BooksMatchTrades'
    BY <1>0, <2>1 DEF LotsInv, BooksMatchTrades, StaleAccount
  <2>6. Turns(o, r) /\ ReaderOK(r)' /\ (Unspoiled' => Unspoiled)
    BY <2>1, <2>2 DEF Turns, ReaderOK, Reads, Unspoiled
  <2> QED
    BY <2>1, <2>2, <2>4, <2>5, <2>6, OneRestsAside
<1>4. CASE Fails(o)
  <2>1. WorkerEnds(o) /\ worker[o].pc # "filled"
    BY <1>4 DEF Fails
  <2>2. PICK r : /\ worker' = [worker EXCEPT ![o] = r] /\ Prepared(r, DOMAIN owned)
                 /\ r.pc \in {"idle", "closing"}
    BY <2>1, EndsWith
  <2> QED
    BY <1>4, <2>1, <2>2, QuietTurn DEF Fails
<1> QED
  BY <1>1, <1>2, <1>3, <1>4

\* The network carries out an order.
LEMMA SettleStep ==
  ASSUME LotsInv, NEW o \in Worker, Settles(o) \/ \E n \in Sizes : SettlesUnbooked(o, n)
  PROVE  LotsInv'
<1>0. PICK b : b = worker[o] /\ Prepared(b, DOMAIN owned) /\ DOMAIN worker = Worker
  BY DEF LotsInv, WorkersInv
<1>1. /\ b.amount \in Nat /\ balance \in Nat /\ departed \in Nat /\ adjusted \in Nat
      /\ \A i \in DOMAIN owned : owned[i].amount \in Nat
  BY <1>0, LotsAreFinite DEF Prepared, LotsInv, LotsType, Table
<1>2. /\ b.pc = "executing" /\ mode = "live" /\ Settled
      /\ UNCHANGED <<mode, heldOn, owned, account, adjusted, checkup>>
  BY <1>0 DEF Settles, SettlesUnbooked, WorkerAt, Settled
<1>3. /\ bookedTrades' \in [token : Int, money : Int, count : Nat]
      /\ bookedTrades'.token = bookedTrades.token /\ bookedTrades'.money = bookedTrades.money
  BY <1>2 DEF Settled, Counted, LotsInv, LotsType
<1>4. CASE Settles(o)
  <2>1. /\ \/ b.side = "buy" /\ balance' = balance + b.amount
           \/ b.side = "sell" /\ b.amount <= balance /\ balance' = balance - b.amount
        /\ stale' = stale \cup (IF b.side = "sell" THEN RacesCheckup(o) ELSE {})
        /\ Goes(o, "filled") /\ departed' = departed
    BY <1>0, <1>4 DEF Settles
  <2>2. PICK r : /\ Prepared(r, DOMAIN owned) /\ r.pc = "filled"
                 /\ worker' = [worker EXCEPT ![o] = r]
                 /\ r.side = b.side /\ r.amount = b.amount
    BY <1>0, <1>2, <2>1, GoesOn
  <2>3. Turns(o, r) /\ ReaderOK(r)'
    BY <1>2, <2>2 DEF Turns, ReaderOK, Reads
  <2>4. LotsType'
    BY <1>1, <1>2, <1>3, <2>1 DEF LotsInv, LotsType
  <2>5. AddsBehind /\ departed <= departed'
    BY <1>1, <1>2, <2>1 DEF AddsBehind
  <2>6. worker'[o] = r /\ \A x \in Worker \ {o} : worker'[x] = worker[x]
    BY <1>2, <2>3, WorkersStay DEF LotsInv
  <2>7. ASSUME Unspoiled'
        PROVE  Unspoiled /\ (Harmless \/ \A x \in Worker \ {o} : ~Reads(worker[x]))
    <3>1. Unspoiled
      BY <2>1, <2>7 DEF Unspoiled
    <3>2. CASE b.side = "buy"
      BY <1>1, <1>2, <2>1, <3>1, <3>2 DEF Harmless
    <3>3. CASE b.side = "sell"
      <4>1. RacesCheckup(o) = {}
        BY <2>1, <2>7, <3>3 DEF Unspoiled, RacesCheckup
      <4> QED
        BY <1>2, <3>1, <4>1 DEF RacesCheckup, Reads
    <3> QED
      BY <2>1, <3>2, <3>3
  <2>8. LotsAreCovered'
    <3>1. NoSale' => NoSale /\ b.side = "buy"
      BY <1>0, <1>2, <2>1, <2>2, <2>6 DEF NoSale
    <3>2. departed' = departed /\ NoSale' => NoSale /\ balance <= balance'
      BY <1>1, <2>1, <3>1
    <3> QED
      BY <1>2, <2>4, <2>5, <2>7, <3>2, CoverStays
  <2>9. BooksMatchTrades'
    BY <1>2, <1>3, <2>1 DEF LotsInv, BooksMatchTrades
  <2>10. (bookedTrades'.token - bookedTrades.token) + (Due(r) - Due(worker[o]))
           <= (balance' + departed') - (balance + departed)
    <3>1. Due(worker[o]) = 0
      BY <1>0, <1>2 DEF Due
    <3>2. \/ Due(r) = b.amount /\ balance' = balance + b.amount
          \/ Due(r) = 0 - b.amount /\ balance' = balance - b.amount
      BY <2>1, <2>2 DEF Due
    <3>3. bookedTrades.token \in Int
      BY DEF LotsInv, LotsType
    <3> QED
      BY <1>1, <1>3, <2>1, <3>1, <3>2, <3>3
  <2>11. checkup'.departed <= departed'
    BY <1>2, <2>1 DEF LotsInv, CheckupInv
  <2> QED
    BY <1>2, <2>3, <2>4, <2>5, <2>7, <2>8, <2>9, <2>10, <2>11, OneTurns
<1>5. CASE \E n \in Sizes : SettlesUnbooked(o, n)
  <2>1. PICK n \in Sizes :
          /\ n \in 1..b.amount /\ WorkerEnds(o) /\ stale' = stale
          /\ \/ balance' = balance + n /\ departed' = departed
             \/ n <= balance /\ balance' = balance - n /\ departed' = departed + n
    BY <1>0, <1>5 DEF SettlesUnbooked
  <2>2. n \in Nat /\ n >= 1
    BY <1>1, <2>1
  <2>3. PICK r : /\ worker' = [worker EXCEPT ![o] = r] /\ Prepared(r, DOMAIN owned)
                 /\ r.pc \in {"idle", "closing"}
    BY <2>1, EndsWith
  <2>4. Turns(o, r) /\ ReaderOK(r)' /\ (Unspoiled' => Unspoiled)
    BY <1>2, <2>1, <2>3 DEF Turns, ReaderOK, Reads, Unspoiled
  <2>5. LotsType'
    BY <1>1, <1>2, <1>3, <2>1, <2>2 DEF LotsInv, LotsType
  <2>6. AddsBehind /\ departed <= departed' /\ Harmless
    BY <1>1, <1>2, <2>1, <2>2 DEF AddsBehind, Harmless
  <2>7. LotsAreCovered'
    <3>1. worker'[o] = r /\ \A x \in Worker \ {o} : worker'[x] = worker[x]
      BY <1>2, <2>4, WorkersStay DEF LotsInv
    <3>2. NoSale' => NoSale
      BY <1>0, <1>2, <3>1 DEF NoSale
    <3>3. departed' = departed => balance <= balance'
      BY <2>6 DEF Harmless
    <3> QED
      BY <1>2, <2>4, <2>5, <2>6, <3>2, <3>3, CoverStays
  <2>8. BooksMatchTrades'
    BY <1>2, <1>3, <2>1 DEF LotsInv, BooksMatchTrades
  <2>9. Due(worker[o]) = 0 /\ Due(r) = 0
    BY <1>0, <1>2, <2>3 DEF Due
  <2>10. (bookedTrades'.token - bookedTrades.token) + (Due(r) - Due(worker[o]))
           <= (balance' + departed') - (balance + departed)
    BY <1>1, <1>3, <2>1, <2>2, <2>9 DEF LotsInv, LotsType
  <2>11. checkup'.departed <= departed'
    BY <1>2, <2>6, <1>1, <2>5 DEF LotsInv, CheckupInv, LotsType
  <2> QED
    BY <1>2, <2>4, <2>5, <2>6, <2>7, <2>8, <2>10, <2>11, OneTurns
<1> QED
  BY <1>4, <1>5

LEMMA ConcludesWith ==
  ASSUME LotsInv, NEW o \in Worker, Concludes(o)
  PROVE  \E r : /\ worker' = [worker EXCEPT ![o] = r] /\ Prepared(r, DOMAIN owned)
                /\ r.pc \in {"idle", "closing", "verifying"}
<1>1. CASE mode = "live"
  <2> DEFINE r == [IdleWorker EXCEPT !.pc = "verifying"]
  <2>1. Prepared(IdleWorker, DOMAIN owned)
    BY IdlePrepared
  <2>2. Prepared(r, DOMAIN owned) /\ r.pc = "verifying"
    BY <2>1 DEF Prepared, IdleWorker
  <2>3. worker' = [worker EXCEPT ![o] = r]
    BY <1>1 DEF Concludes
  <2> HIDE DEF r
  <2> QED
    BY <2>2, <2>3
<1>2. CASE mode # "live"
  <2>1. WorkerEnds(o)
    BY <1>2 DEF Concludes
  <2> QED
    BY <2>1, EndsWith
<1> QED
  BY <1>1, <1>2

\* What both ways of booking do: the trades change by what the lots change, and the
\* reconciliation is asked for.
LEMMA BookingStep ==
  ASSUME LotsInv, NEW o \in Worker, Executed(o), Concludes(o), AsksCheckup,
         NEW n \in Int, n = (IF worker[o].side = "buy" THEN worker[o].amount ELSE 0 - worker[o].amount),
         NEW paid \in Int, Booked(n, paid),
         UNCHANGED <<mode, heldOn, balance, departed, adjusted>>,
         owned' \in Table, AddsBehind, account' \in Nat,
         Unspoiled' => Unspoiled /\ \A i \in DOMAIN owned : owned'[i].amount <= owned[i].amount,
         "lots" \notin stale' => "lots" \notin stale /\ HeldOf(owned') = HeldOf(owned) + n,
         mode = "shadow" => account' = account - paid,
         "account" \notin stale' => "account" \notin stale
  PROVE  LotsInv'
<1>0. PICK b : b = worker[o] /\ Prepared(b, DOMAIN owned) /\ DOMAIN worker = Worker
  BY DEF LotsInv, WorkersInv
<1>1. /\ bookedTrades' \in [token : Int, money : Int, count : Nat]
      /\ bookedTrades'.token = bookedTrades.token + n
      /\ bookedTrades'.money = bookedTrades.money - paid
      /\ bookedTrades.token \in Int /\ bookedTrades.money \in Int
  BY DEF Booked, Counted, LotsInv, LotsType
<1>2. /\ checkup' \in [status : {"pending", "passed", "failed"}, lots : SUBSET DOMAIN owned',
                       departed : Nat]
      /\ checkup'.status = "pending" /\ checkup'.departed = checkup.departed
  BY DEF AsksCheckup, LotsInv, LotsType, CheckupInv, AddsBehind
<1>3. LotsType'
  BY <1>1, <1>2 DEF LotsInv, LotsType
<1>4. PICK r : /\ worker' = [worker EXCEPT ![o] = r] /\ Prepared(r, DOMAIN owned)
               /\ r.pc \in {"idle", "closing", "verifying"}
  BY ConcludesWith
<1>5. Turns(o, r) /\ ReaderOK(r)'
  BY <1>4, PreparedGrows DEF Turns, ReaderOK, Reads, AddsBehind
<1>6. departed <= departed' /\ checkup'.departed <= departed'
  BY <1>2 DEF LotsInv, LotsType, CheckupInv
<1>7. Unspoiled' => Unspoiled /\ Harmless
  BY DEF Harmless, LotsInv, LotsType
<1>8. LotsAreCovered'
  BY <1>2, <1>3, <1>6, <1>7, CoverStays
<1>9. BooksMatchTrades'
  <2>1. /\ "lots" \notin stale => HeldOf(owned) = bookedTrades.token - adjusted
        /\ mode = "shadow" /\ "account" \notin stale => account = ShadowMoney + bookedTrades.money
    BY DEF LotsInv, BooksMatchTrades, TotalHeld, Amounts, HeldOf, AmountsOf
  <2>2. ShadowMoney \in Int /\ adjusted \in Int
    BY DEF LotsAssumption, LotsInv, LotsType
  <2>3. "lots" \notin stale' => HeldOf(owned') = bookedTrades'.token - adjusted
    BY <1>1, <2>1, <2>2
  <2>4. mode = "shadow" /\ "account" \notin stale' => account' = ShadowMoney + bookedTrades'.money
    BY <1>1, <2>1, <2>2
  <2> QED
    BY <2>3, <2>4 DEF BooksMatchTrades, TotalHeld, Amounts, HeldOf, AmountsOf
<1>10. mode = "live" => (bookedTrades'.token - bookedTrades.token) + (Due(r) - Due(worker[o]))
                          <= (balance' + departed') - (balance + departed)
  <2> SUFFICES ASSUME mode = "live"
               PROVE  (bookedTrades'.token - bookedTrades.token) + (Due(r) - Due(worker[o]))
                        <= (balance' + departed') - (balance + departed)
    OBVIOUS
  <2>1. Due(r) = 0
    BY <1>4 DEF Due
  <2>2. Due(worker[o]) = n
    BY DEF Due, Executed, WorkerAt
  <2>3. balance \in Int /\ departed \in Int
    BY DEF LotsInv, LotsType
  <2> QED
    BY <1>1, <2>1, <2>2, <2>3
<1>11. mode = "shadow" => checkup'.status = "pending" /\ r.pc # "filled"
  BY <1>2, <1>4
<1> QED
  BY <1>3, <1>5, <1>6, <1>7, <1>8, <1>9, <1>10, <1>11, OneTurns

LEMMA PurchaseStep ==
  ASSUME LotsInv, NEW o \in Worker, BooksPurchase(o)
  PROVE  LotsInv'
<1>0. PICK b : b = worker[o] /\ Prepared(b, DOMAIN owned)
  BY DEF LotsInv, WorkersInv
<1>1. b.amount \in Nat /\ b.owner \in LotOwner /\ Fee \in Nat /\ account \in Nat
  BY <1>0 DEF Prepared, LotsAssumption, LotsInv, LotsType
<1>2. /\ Executed(o) /\ Concludes(o) /\ AsksCheckup /\ b.side = "buy"
      /\ UNCHANGED <<mode, heldOn, balance, departed, adjusted, stale>>
      /\ owned' = Append(owned, [owner |-> b.owner, amount |-> b.amount])
  BY <1>0 DEF BooksPurchase
<1>3. PICK x : x = [owner |-> b.owner, amount |-> b.amount]
  OBVIOUS
<1>4. AddsLot(LotOwner, owned, x, owned') /\ x.amount = b.amount
  BY <1>1, <1>2, <1>3 DEF AddsLot, Lot, LotsInv, LotsType, Table
<1>5. /\ owned' \in Table /\ AddsBehind /\ HeldOf(owned') = HeldOf(owned) + b.amount
      /\ \A i \in DOMAIN owned : owned'[i] = owned[i]
  BY <1>4, LotAdds DEF Table, AddsBehind
<1>6. \A i \in DOMAIN owned : owned'[i].amount <= owned[i].amount
  <2>1. \A i \in DOMAIN owned : owned[i].amount \in Nat
    BY LotsAreFinite DEF LotsInv, LotsType, Table
  <2> QED
    BY <1>5, <2>1
<1>7. PICK paid \in Int : Booked(b.amount, paid) /\ account' \in Nat
                          /\ (mode = "shadow" => account' = account - paid)
  <2>1. CASE mode = "shadow" /\ b.amount + Fee <= account
    <3>1. account' = account - (b.amount + Fee) /\ Booked(b.amount, b.amount + Fee)
      BY <1>0, <2>1 DEF BooksPurchase, Charge
    <3> QED
      BY <1>1, <2>1, <3>1
  <2>2. CASE ~(mode = "shadow" /\ b.amount + Fee <= account)
    <3>1. account' = account /\ Booked(b.amount, 0)
      BY <1>0, <2>2 DEF BooksPurchase
    <3> QED
      BY <1>1, <3>1
  <2> QED
    BY <2>1, <2>2
<1>8. Unspoiled' => Unspoiled
  BY <1>2 DEF Unspoiled
<1>9. b.amount \in Int /\ b.amount = (IF worker[o].side = "buy" THEN worker[o].amount ELSE 0 - worker[o].amount)
  BY <1>0, <1>1, <1>2
<1>10. UNCHANGED <<mode, heldOn, balance, departed, adjusted>>
  BY <1>2
<1>11. /\ "lots" \notin stale' => "lots" \notin stale /\ HeldOf(owned') = HeldOf(owned) + b.amount
       /\ "account" \notin stale' => "account" \notin stale
  BY <1>2, <1>5
<1> QED
  BY <1>2, <1>5, <1>6, <1>7, <1>8, <1>9, <1>10, <1>11, BookingStep

LEMMA SaleStep ==
  ASSUME LotsInv, NEW o \in Worker, BooksSale(o)
  PROVE  LotsInv'
<1>0. PICK b : b = worker[o] /\ Prepared(b, DOMAIN owned)
  BY DEF LotsInv, WorkersInv
<1>1. /\ b.amount \in Nat /\ Listed(b.held, DOMAIN owned) /\ SaleProceeds \in Nat /\ account \in Nat
      /\ owned \in Table
  BY <1>0 DEF Prepared, LotsAssumption, LotsInv, LotsType
<1>2. /\ Executed(o) /\ Concludes(o) /\ AsksCheckup /\ b.side = "sell"
      /\ UNCHANGED <<mode, heldOn, balance, departed, adjusted>>
      /\ owned' = Reduced(b.held, b.amount)
      /\ stale' = stale \cup LotsMoved(b.held, b.amount) \cup RacesCheckup(o)
  BY <1>0 DEF BooksSale
<1>3. b.amount <= TotalHeld(b.held)
  BY <1>0, <1>2 DEF Prepared
<1>4. /\ owned' \in Table /\ DOMAIN owned' = DOMAIN owned
      /\ LotsMoved(b.held, b.amount) = {} =>
           /\ HeldOf(owned') = HeldOf(owned) - b.amount
           /\ \A i \in DOMAIN owned : owned'[i].amount <= owned[i].amount
  BY <1>1, <1>2, <1>3, LotsReduced
<1>5. AddsBehind
  BY <1>4 DEF AddsBehind
<1>6. "lots" \notin stale' => "lots" \notin stale /\ LotsMoved(b.held, b.amount) = {}
  BY <1>2 DEF LotsMoved
<1>7. PICK paid \in Int : /\ Booked(0 - b.amount, paid) /\ account' \in Nat
                          /\ (mode = "shadow" => account' = account - paid)
  <2>1. PICK gain \in Nat : Booked(0 - b.amount, 0 - gain) /\ account' = account + gain
    BY <1>0, <1>1 DEF BooksSale
  <2>2. 0 - gain \in Int /\ account - (0 - gain) = account + gain /\ account + gain \in Nat
    BY <1>1
  <2> QED
    BY <2>1, <2>2
<1>8. HeldOf(owned) \in Nat
  BY <1>1, LotsAreFinite DEF Table
<1>9. /\ 0 - b.amount \in Int
      /\ 0 - b.amount = (IF worker[o].side = "buy" THEN worker[o].amount ELSE 0 - worker[o].amount)
  BY <1>0, <1>1, <1>2
<1>10. "lots" \notin stale' => "lots" \notin stale /\ HeldOf(owned') = HeldOf(owned) + (0 - b.amount)
  BY <1>1, <1>4, <1>6, <1>8
<1>11. Unspoiled' => Unspoiled /\ \A i \in DOMAIN owned : owned'[i].amount <= owned[i].amount
  BY <1>2, <1>4, <1>6 DEF Unspoiled
<1>12. "account" \notin stale' => "account" \notin stale
  BY <1>2
<1>13. UNCHANGED <<mode, heldOn, balance, departed, adjusted>>
  BY <1>2
<1> QED
  BY <1>2, <1>4, <1>5, <1>7, <1>9, <1>10, <1>11, <1>12, <1>13, BookingStep

LEMMA CarryOutStep ==
  ASSUME LotsInv, NEW o \in Worker, CarriesOut(o)
  PROVE  LotsInv'
  BY BeforeStep, SettleStep, PurchaseStep, SaleStep DEF CarriesOut

-----------------------------------------------------------------------------
(* The reconciliation                                                       *)

\* What the open lots hold, the wallet has got, unless a sale is filled and not booked.
LEMMA OpenAreAccountedFor ==
  ASSUME LotsInv, mode = "live", "lots" \notin stale, NoSale
  PROVE  TotalHeld(OpenLots(LotOwner)) + adjusted <= balance + departed
<1>1. TotalHeld(OpenLots(LotOwner)) = HeldOf(owned) /\ HeldOf(owned) \in Nat
  BY OpenAreListed, LotsAreFinite DEF LotsInv, LotsType, Table
<1>2. HeldOf(owned) = bookedTrades.token - adjusted
  BY DEF LotsInv, BooksMatchTrades, TotalHeld, Amounts, HeldOf, AmountsOf
<1>3. bookedTrades.token + InFlight <= balance + departed
  BY DEF LotsInv, FundsInv
<1>4. InFlight \in Nat
  BY OnlyPurchasesFly DEF LotsInv
<1>5. bookedTrades.token \in Int /\ adjusted \in Nat /\ balance \in Nat /\ departed \in Nat
  BY DEF LotsInv, LotsType
<1> QED
  BY <1>1, <1>2, <1>3, <1>4, <1>5

LEMMA CheckupStartsStep ==
  ASSUME LotsInv, NEW o \in Worker, CheckupStarts(o)
  PROVE  LotsInv'
<1>1. PICK held : held = (IF heldOn = "evm" THEN OpenLots(LotOwner) ELSE << >>)
  OBVIOUS
<1> DEFINE r == [IdleWorker EXCEPT !.pc = "reconciling", !.held = held]
<1>2. /\ mode = "live" /\ worker[o].pc \in {"idle", "verifying"}
      /\ worker' = [worker EXCEPT ![o] = r]
      /\ UNCHANGED <<mode, heldOn, owned, account, balance, bookedTrades, departed, adjusted, checkup>>
      /\ Unspoiled' => Unspoiled /\ NoSale
      /\ "lots" \in stale => "lots" \in stale'
      /\ "account" \in stale => "account" \in stale'
  <2>1. Unspoiled' => NoSale
    <3> SUFFICES ASSUME Unspoiled', NEW x \in Worker, worker[x].pc = "filled"
                 PROVE  worker[x].side = "buy"
      BY DEF NoSale
    <3>1. worker[x].side # "sell"
      BY DEF CheckupStarts, Unspoiled, WorkerAt
    <3>2. Prepared(worker[x], DOMAIN owned)
      BY DEF LotsInv, WorkersInv
    <3> QED
      BY <3>1, <3>2 DEF Prepared
  <2> QED
    BY <1>1, <2>1 DEF CheckupStarts, WorkerAt, Unspoiled
<1>3. owned \in Table
  BY DEF LotsInv, LotsType
<1>4. Listed(held, DOMAIN owned)
  BY <1>1, <1>3, OpenAreListed, IdlePrepared
<1>5. /\ DOMAIN r = DOMAIN IdleWorker /\ r.pc = "reconciling" /\ r.held = held
      /\ Prepared(r, DOMAIN owned)
  BY <1>4, IdlePrepared DEF Prepared, IdleWorker
<1> HIDE DEF r
<1>6. ASSUME Unspoiled'
      PROVE  Reading(r)
  <2>1. CASE heldOn = "evm"
    <3>1. held = OpenLots(LotOwner)
      BY <1>1, <2>1
    <3>2. \A i \in DOMAIN held : 0 < held[i] /\ held[i] = owned[i].amount
      BY <1>3, <3>1, OpenAreListed
    <3>3. \A i \in DOMAIN owned : i \notin DOMAIN held => owned[i].amount = 0
      BY <1>3, <3>1, OpenAreListed
    <3>4. TotalHeld(held) + adjusted <= balance + departed
      BY <1>2, <1>6, <3>1, OpenAreAccountedFor DEF Unspoiled
    <3>5. \A i \in DOMAIN held : held[i] \in Nat
      BY <1>4 DEF Listed
    <3> QED
      BY <1>5, <3>2, <3>3, <3>4, <3>5 DEF Reading, AccountedFor
  <2>2. CASE heldOn # "evm"
    <3>1. DOMAIN held = {}
      BY <1>1, <2>2
    <3> QED
      BY <1>5, <3>1 DEF Reading
  <2> QED
    BY <2>1, <2>2
<1>7. ReaderOK(r)'
  BY <1>2, <1>5, <1>6 DEF ReaderOK, Reads, Reading, OldestReduced, AccountedFor
<1>8. stale' \subseteq stale \cup {"checkup"}
  BY DEF CheckupStarts
<1>9. LotsType' /\ BooksMatchTrades'
  BY <1>2 DEF LotsInv, LotsType, BooksMatchTrades
<1>10. Turns(o, r) /\ worker[o].pc # "filled" /\ r.pc # "filled" /\ (Unspoiled' => Unspoiled)
  BY <1>2, <1>5 DEF Turns
<1> QED
  BY <1>2, <1>7, <1>9, <1>10, OneRestsAside

LEMMA ReadsBalanceStep ==
  ASSUME LotsInv, NEW o \in Worker, ReadsBalance(o)
  PROVE  LotsInv'
<1>0. PICK b : b = worker[o] /\ Prepared(b, DOMAIN owned) /\ ReaderOK(b) /\ DOMAIN worker = Worker
  BY DEF LotsInv, WorkersInv, ReadersInv
<1>a. PICK seen, gone : seen = balance /\ gone = departed
  OBVIOUS
<1> DEFINE r == [b EXCEPT !.pc = "adjusting", !.seen = seen, !.departed = gone]
<1>1. /\ b.pc = "reconciling" /\ worker' = [worker EXCEPT ![o] = r]
      /\ UNCHANGED <<mode, heldOn, owned, account, balance, bookedTrades, departed, adjusted, checkup, stale>>
  BY <1>0, <1>a DEF ReadsBalance, WorkerAt, UntilChecked
<1>2. /\ DOMAIN r = DOMAIN b /\ r.pc = "adjusting" /\ r.side = b.side /\ r.owner = b.owner
      /\ r.amount = b.amount /\ r.held = b.held /\ r.seen = balance /\ r.departed = departed
      /\ r.groups = b.groups
  BY <1>0, <1>a DEF Prepared
<1> HIDE DEF r
<1>3. balance \in Nat /\ departed \in Nat
  BY DEF LotsInv, LotsType
<1>4. Prepared(r, DOMAIN owned)
  BY <1>0, <1>2, <1>3 DEF Prepared
<1>5. Reads(b) /\ mode = "live" /\ (Unspoiled => Reading(b))
  BY <1>0, <1>1 DEF ReaderOK, Reads
<1>6. Reading(b) => Reading(r)
  BY <1>1, <1>2, <1>3 DEF Reading, OldestReduced, AccountedFor
<1>7. ReaderOK(r)'
  <2>1. ReaderOK(r)
    BY <1>2, <1>3, <1>5, <1>6 DEF ReaderOK
  <2> QED
    BY <1>1, <2>1 DEF ReaderOK, Reads, Reading, OldestReduced, AccountedFor, Unspoiled
<1>8. LotsType' /\ BooksMatchTrades'
  BY <1>1 DEF LotsInv, LotsType, BooksMatchTrades
<1>9. Turns(o, r) /\ worker[o].pc # "filled" /\ r.pc # "filled" /\ (Unspoiled' => Unspoiled)
  BY <1>0, <1>1, <1>2, <1>4 DEF Turns, Unspoiled
<1> QED
  BY <1>1, <1>7, <1>8, <1>9, OneRestsAside

\* A reconciliation that leaves the lots alone comes to its end.
LEMMA CheckupEnds ==
  ASSUME LotsInv, NEW o \in Worker, Reads(worker[o]),
         worker' = [worker EXCEPT ![o] = IdleWorker], UntilChecked,
         checkup' \in [status : {"pending", "passed", "failed"}, lots : SUBSET DOMAIN owned,
                       departed : Nat],
         checkup'.departed <= departed, LotsAreCovered'
  PROVE  LotsInv'
<1>1. UNCHANGED <<mode, owned, account, balance, bookedTrades, departed, adjusted, stale>>
  BY DEF UntilChecked
<1>2. LotsType' /\ BooksMatchTrades'
  BY <1>1 DEF LotsInv, LotsType, BooksMatchTrades
<1>3. Prepared(IdleWorker, DOMAIN owned) /\ IdleWorker.pc = "idle"
  BY IdlePrepared
<1>4. Turns(o, IdleWorker) /\ ReaderOK(IdleWorker)'
  BY <1>1, <1>3 DEF Turns, ReaderOK, Reads
<1>5. AddsBehind /\ departed <= departed' /\ checkup'.departed <= departed' /\ mode' = mode
  BY <1>1 DEF AddsBehind, LotsInv, LotsType
<1>6. Unspoiled' => Unspoiled /\ Harmless
  <2>1. \A i \in DOMAIN owned : owned[i].amount \in Nat
    BY LotsAreFinite DEF LotsInv, LotsType, Table
  <2> QED
    BY <1>1, <2>1 DEF Harmless, LotsInv, LotsType, Unspoiled
<1>7. mode = "live"
  BY DEF LotsInv, ReadersInv, ReaderOK
<1>8. Due(IdleWorker) = 0 /\ Due(worker[o]) = 0
  BY <1>3 DEF Due, Reads
<1>9. mode = "live" =>
        (bookedTrades'.token - bookedTrades.token) + (Due(IdleWorker) - Due(worker[o]))
           <= (balance' + departed') - (balance + departed)
  BY <1>1, <1>8 DEF LotsInv, LotsType
<1>10. mode = "shadow" => checkup'.status = "pending" /\ IdleWorker.pc # "filled"
  BY <1>7
<1> QED
  BY <1>2, <1>4, <1>5, <1>6, <1>9, <1>10, OneTurns

LEMMA CheckupFailsStep ==
  ASSUME LotsInv, NEW o \in Worker, CheckupFails(o)
  PROVE  LotsInv'
<1>1. /\ Reads(worker[o]) /\ worker' = [worker EXCEPT ![o] = IdleWorker] /\ UntilChecked
      /\ checkup' = [checkup EXCEPT !.status = "failed"]
  BY DEF CheckupFails, WorkerAt, Reads
<1>2. /\ checkup' \in [status : {"pending", "passed", "failed"}, lots : SUBSET DOMAIN owned,
                       departed : Nat]
      /\ checkup'.status # "passed" /\ checkup'.departed = checkup.departed
  BY <1>1 DEF LotsInv, LotsType
<1>3. checkup'.departed <= departed
  BY <1>2 DEF LotsInv, CheckupInv
<1>4. /\ LotsType' /\ departed <= departed' /\ adjusted' = adjusted /\ heldOn' = heldOn
      /\ Unspoiled' => Unspoiled
  BY <1>1, <1>2 DEF UntilChecked, LotsInv, LotsType, Unspoiled
<1>5. LotsAreCovered'
  BY <1>2, <1>4, CoverStays
<1> QED
  BY <1>1, <1>2, <1>3, <1>5, CheckupEnds

\* On Solana and HyperCore what is compared are the open lots of the moment: on
\* Solana their sum, on HyperCore one after the other.
LEMMA VerifiesStep ==
  ASSUME LotsInv, NEW o \in Worker, Verifies(o)
  PROVE  LotsInv'
<1>0. PICK b : b = worker[o] /\ Prepared(b, DOMAIN owned) /\ ReaderOK(b)
  BY DEF LotsInv, WorkersInv, ReadersInv
<1>1. PICK open : open = OpenLots(LotOwner)
  OBVIOUS
<1>2. PICK status : status = (IF Covers(open, b.seen) THEN "passed" ELSE "failed")
  OBVIOUS
<1>3. /\ Reads(b) /\ b.pc = "adjusting" /\ worker' = [worker EXCEPT ![o] = IdleWorker]
      /\ UntilChecked
      /\ checkup' = [status |-> status, lots |-> DOMAIN open, departed |-> b.departed]
  BY <1>0, <1>1, <1>2 DEF Verifies, Checked, WorkerAt, Reads
<1>4. /\ Listed(open, DOMAIN owned)
      /\ TotalHeld(open) = HeldOf(owned)
      /\ SumFunctionOnSet(AmountsOf(owned), DOMAIN open) = HeldOf(owned)
  BY <1>1, OpenAreListed DEF LotsInv, LotsType
<1>5. b.departed \in Nat /\ b.departed <= departed /\ b.seen \in Nat /\ (Unspoiled => Reading(b))
  BY <1>0, <1>3 DEF Prepared, ReaderOK
<1>6. /\ checkup' \in [status : {"pending", "passed", "failed"}, lots : SUBSET DOMAIN owned,
                       departed : Nat]
      /\ checkup'.departed <= departed
  BY <1>2, <1>3, <1>4, <1>5 DEF Listed
<1>7. /\ LotsType' /\ departed <= departed'
      /\ UNCHANGED <<heldOn, owned, balance, departed, adjusted, stale>>
      /\ Unspoiled' => Unspoiled
  BY <1>3, <1>6 DEF UntilChecked, LotsInv, LotsType, Unspoiled
<1>8. LotsAreCovered'
  <2>1. CASE status = "passed"
    <3>1. ASSUME Unspoiled' PROVE adjusted' <= departed'
      BY <1>7, <3>1 DEF LotsInv, LotsAreCovered, Unspoiled
    <3>2. ASSUME Unspoiled', checkup'.departed = departed'
          PROVE  ComparedAreHeld'
      <4>1. b.seen <= balance
        BY <1>3, <1>5, <1>7, <3>2 DEF Reading
      <4>2. Covers(open, b.seen)
        BY <1>2, <2>1
      <4>3. HeldOf(owned) \in Nat /\ balance \in Nat /\ \A i \in DOMAIN owned : owned[i].amount \in Nat
        BY LotsAreFinite DEF LotsInv, LotsType, Table
      <4>4. checkup'.lots = DOMAIN open /\ DOMAIN open \subseteq DOMAIN owned
        BY <1>3, <1>4 DEF Listed
      <4>5. CASE heldOn = "hypercore"
        <5>1. \A i \in DOMAIN open : open[i] <= b.seen /\ open[i] = owned[i].amount
          BY <1>1, <4>2, <4>5, OpenAreListed DEF Covers, LotsInv, LotsType
        <5>2. \A i \in DOMAIN open : owned[i].amount <= balance
          BY <1>5, <4>1, <4>3, <4>4, <5>1
        <5> QED
          BY <1>7, <4>4, <4>5, <5>2 DEF ComparedAreHeld
      <4>6. CASE heldOn # "hypercore"
        <5>1. TotalHeld(open) <= b.seen
          BY <4>2, <4>6 DEF Covers
        <5>2. SumFunctionOnSet(Amounts(owned)', checkup'.lots) = HeldOf(owned)
          BY <1>4, <1>7, <4>4 DEF Amounts, AmountsOf
        <5>3. HeldOf(owned) <= balance
          BY <1>4, <1>5, <4>1, <4>3, <5>1
        <5> QED
          BY <1>7, <4>6, <5>2, <5>3 DEF ComparedAreHeld
      <4> QED
        BY <4>5, <4>6
    <3> QED
      BY <3>1, <3>2 DEF LotsAreCovered, Unspoiled
  <2>2. CASE status = "failed"
    <3>1. checkup'.status # "passed"
      BY <1>3, <2>2
    <3> QED
      BY <1>7, <3>1, CoverStays
  <2> QED
    BY <1>2, <2>1, <2>2
<1> QED
  BY <1>0, <1>3, <1>6, <1>8, CheckupEnds

\* Lots that were read have an oldest one, from which a reduction takes first.
LEMMA OldestLot ==
  ASSUME owned \in Table, NEW held, Listed(held, DOMAIN owned), DOMAIN held # {}
  PROVE  \E m \in DOMAIN held : \A j \in DOMAIN held : m <= j
<1>1. PICK T : T = DOMAIN held
  OBVIOUS
<1>2. T \subseteq Nat /\ T # {}
  BY <1>1, LotsAreFinite DEF Table, Listed
<1> QED
  BY <1>1, <1>2, SmallestNumber

LEMMA OldestIsTouched ==
  ASSUME owned \in Table, NEW held, Listed(held, DOMAIN owned),
         NEW m \in DOMAIN held, \A j \in DOMAIN held : m <= j,
         NEW amount \in Nat, amount > 0
  PROVE  m \in Touched(held, amount) /\ (0 < held[m] => 0 < TakenFrom(held, amount, m))
<1>1. /\ \A j \in DOMAIN held : j \in Nat /\ held[j] \in Nat
  BY LotsAreFinite DEF Table, Listed
<1>2. {j \in DOMAIN held : j < m} = {}
  BY <1>1
<1>3. OlderLots(held, m) = 0
  BY <1>2, SumOfNone DEF OlderLots
<1> QED
  BY <1>1, <1>3 DEF Touched, TakenFrom, AtMost, AtLeast

\* A reconciliation that found the oldest lot reduced overwrites it, if it takes anything.
LEMMA StaleIsSeen ==
  ASSUME owned \in Table, NEW held, Listed(held, DOMAIN owned), OldestReduced(held),
         NEW amount \in Nat, amount > 0
  PROVE  LotsMoved(held, amount) # {}
<1>1. PICK m \in DOMAIN held : owned[m].amount < held[m] /\ \A j \in DOMAIN held : m <= j
  BY DEF OldestReduced
<1>2. m \in Touched(held, amount)
  BY <1>1, OldestIsTouched
<1>3. owned[m].amount \in Nat /\ held[m] \in Nat
  BY LotsAreFinite DEF Table, Listed
<1>4. owned[m].amount # held[m]
  BY <1>1, <1>3
<1> QED
  BY <1>2, <1>4 DEF LotsMoved

\* What one reconciliation takes, the others that have read the lots find missing in
\* the oldest lot they have.
LEMMA OthersSeeIt ==
  ASSUME LotsInv, NEW b, Prepared(b, DOMAIN owned), Reading(b),
         NEW w, Prepared(w, DOMAIN owned), Reading(w), DOMAIN w.held # {}, DOMAIN b.held # {},
         NEW amount \in Nat, 0 < amount, LotsMoved(b.held, amount) = {},
         owned' = Reduced(b.held, amount), owned' \in Table,
         \A i \in DOMAIN owned : owned'[i].amount <= owned[i].amount
  PROVE  OldestReduced(w.held)'
<1>0. PICK held, seen : held = b.held /\ seen = w.held
  OBVIOUS
<1>1. /\ Listed(held, DOMAIN owned) /\ Listed(seen, DOMAIN owned)
      /\ DOMAIN held # {} /\ DOMAIN seen # {} /\ owned \in Table
  BY <1>0 DEF Prepared, LotsInv, LotsType
<1>2. PICK m \in DOMAIN held : \A j \in DOMAIN held : m <= j
  BY <1>1, OldestLot
<1>3. PICK n \in DOMAIN seen : \A j \in DOMAIN seen : n <= j
  BY <1>1, OldestLot
<1>4. /\ m \in DOMAIN owned /\ n \in DOMAIN owned /\ m \in Nat /\ n \in Nat
      /\ held[m] \in Nat /\ seen[n] \in Nat
      /\ owned[m].amount \in Nat /\ owned[n].amount \in Nat /\ owned[m] \in Lot(LotOwner)
  BY <1>1, LotsAreFinite DEF Table, Listed
<1>5. 0 < held[m] /\ 0 < seen[n] /\ owned[n].amount <= seen[n]
  BY <1>0 DEF Reading
<1>6. m \in Touched(held, amount) /\ 0 < TakenFrom(held, amount, m)
  BY <1>1, <1>2, <1>5, OldestIsTouched
<1>7. owned[m].amount = held[m]
  BY <1>0, <1>6 DEF LotsMoved
<1>8. owned'[m].amount < held[m] /\ owned'[n].amount \in Nat
  <2>1. owned'[m] = [owned[m] EXCEPT !.amount = held[m] - TakenFrom(held, amount, m)]
    BY <1>0, <1>4, <1>6 DEF Reduced
  <2>2. owned'[m].amount = held[m] - TakenFrom(held, amount, m)
    BY <1>4, <2>1 DEF Lot
  <2>3. TakenFrom(held, amount, m) \in Int
    <3>1. OlderLots(held, m) = 0
      <4>1. \A j \in DOMAIN held : j \in Nat
        BY <1>1, LotsAreFinite DEF Table, Listed
      <4>2. {j \in DOMAIN held : j < m} = {}
        BY <1>2, <1>4, <4>1
      <4> QED
        BY <4>2, SumOfNone DEF OlderLots
    <3> QED
      BY <1>4, <3>1 DEF TakenFrom, AtMost, AtLeast
  <2>4. DOMAIN owned' = DOMAIN owned
    BY <1>0 DEF Reduced
  <2>5. owned'[n].amount \in Nat
    BY <1>4, <2>4, LotsAreFinite DEF Table
  <2> QED
    BY <1>4, <1>6, <2>2, <2>3, <2>5
<1>9. owned'[n].amount < seen[n]
  <2>1. CASE n = m
    BY <1>4, <1>5, <1>7, <1>8, <2>1
  <2>2. CASE n < m
    <3>1. n \notin DOMAIN held
      BY <1>2, <1>4, <2>2
    <3>2. owned[n].amount = 0
      BY <1>0, <1>4, <2>2, <3>1 DEF Reading
    <3> QED
      BY <1>4, <1>5, <1>8, <3>2
  <2>3. CASE m < n
    <3>1. m \notin DOMAIN seen
      BY <1>3, <1>4, <2>3
    <3>2. owned[m].amount = 0
      BY <1>0, <1>4, <2>3, <3>1 DEF Reading
    <3> QED
      BY <1>4, <1>5, <1>7, <3>2
  <2> QED
    BY <1>4, <2>1, <2>2, <2>3
<1> QED
  BY <1>0, <1>3, <1>9 DEF OldestReduced

\* reconcileEvm
LEMMA AdjustsStep ==
  ASSUME LotsInv, NEW o \in Worker, Adjusts(o)
  PROVE  LotsInv'
<1>0. PICK b : b = worker[o] /\ Prepared(b, DOMAIN owned) /\ ReaderOK(b)
  BY DEF LotsInv, WorkersInv, ReadersInv
<1>1. PICK held, missing : held = b.held /\ missing = Shortfall(held, b.seen)
  OBVIOUS
<1>2. /\ b.pc = "adjusting" /\ owned' = Reduced(held, missing) /\ adjusted' = adjusted + missing
      /\ stale' = stale \cup LotsMoved(held, missing)
      /\ checkup' = [status |-> "passed", lots |-> DOMAIN held, departed |-> b.departed]
      /\ worker' = [worker EXCEPT ![o] = IdleWorker]
      /\ UNCHANGED <<mode, heldOn, account, balance, bookedTrades, departed>>
  BY <1>0, <1>1 DEF Adjusts, Checked, WorkerAt
<1>a. heldOn' = "evm"
  BY DEF Adjusts
<1>3. /\ mode = "live" /\ b.departed <= departed /\ b.departed \in Nat /\ b.seen \in Nat
      /\ Listed(held, DOMAIN owned) /\ (Unspoiled => Reading(b))
  BY <1>0, <1>1, <1>2 DEF Prepared, ReaderOK, Reads
<1>4. /\ TotalHeld(held) = SumFunctionOnSet(held, DOMAIN held) /\ TotalHeld(held) \in Nat
  BY <1>3, HeldIsNumber
<1>5. /\ missing \in Nat /\ missing <= TotalHeld(held) /\ TotalHeld(held) - missing <= b.seen
      /\ missing > 0 => missing = TotalHeld(held) - b.seen
  BY <1>1, <1>3, <1>4 DEF Shortfall, AtLeast
<1>6. owned \in Table /\ balance \in Nat /\ departed \in Nat /\ adjusted \in Nat
      /\ bookedTrades.token \in Int
  BY DEF LotsInv, LotsType
<1>7. /\ owned' \in Table /\ DOMAIN owned' = DOMAIN owned
      /\ LotsMoved(held, missing) = {} =>
           /\ HeldOf(owned') = HeldOf(owned) - missing
           /\ SumFunctionOnSet(AmountsOf(owned'), DOMAIN held)
                = SumFunctionOnSet(AmountsOf(owned), DOMAIN held) - missing
           /\ \A i \in DOMAIN owned : owned'[i].amount <= owned[i].amount
  BY <1>2, <1>3, <1>5, <1>6, LotsReduced
<1>8. "lots" \notin stale' => "lots" \notin stale /\ LotsMoved(held, missing) = {}
  BY <1>2 DEF LotsMoved
<1>9. Unspoiled' => Unspoiled /\ LotsMoved(held, missing) = {} /\ Reading(b)
  BY <1>2, <1>3, <1>8 DEF Unspoiled
<1>10. LotsType'
  BY <1>2, <1>3, <1>5, <1>6, <1>7 DEF LotsInv, LotsType, Listed
<1>11. Turns(o, IdleWorker) /\ IdleWorker.pc = "idle"
  BY <1>2, IdlePrepared DEF Turns
<1>12. WorkersInv' /\ worker'[o] = IdleWorker /\ \A x \in Worker \ {o} : worker'[x] = worker[x]
  BY <1>7, <1>11, WorkersStay DEF LotsInv
<1>13. FundsInv'
  <2>1. /\ InFlight \in Int /\ InFlight' = (InFlight - Due(worker[o])) + Due(IdleWorker)
        /\ Due(worker[o]) = 0 /\ Due(IdleWorker) = 0
    BY <1>0, <1>2, <1>7, <1>11, InFlightMoves DEF LotsInv, Due
  <2> QED
    BY <1>2, <2>1 DEF LotsInv, FundsInv
<1>14. CheckupInv'
  BY <1>2, <1>3 DEF CheckupInv
<1>15. BooksMatchTrades'
  <2>1. "lots" \notin stale => HeldOf(owned) = bookedTrades.token - adjusted
    BY DEF LotsInv, BooksMatchTrades, TotalHeld, Amounts, HeldOf, AmountsOf
  <2>2. "lots" \notin stale' => HeldOf(owned') = bookedTrades'.token - adjusted'
    BY <1>2, <1>5, <1>6, <1>7, <1>8, <2>1
  <2> QED
    BY <1>2, <1>3, <2>2 DEF BooksMatchTrades, TotalHeld, Amounts, HeldOf, AmountsOf
<1>16. ASSUME Unspoiled', missing > 0
       PROVE  AccountedFor(b) /\ DOMAIN held # {}
  <2>1. DOMAIN held # {}
    <3> SUFFICES ASSUME DOMAIN held = {} PROVE FALSE
      OBVIOUS
    <3>1. TotalHeld(held) = 0
      BY <1>4, SumOfNone
    <3> QED
      BY <1>5, <1>16, <3>1
  <2>2. ~OldestReduced(held)
    BY <1>3, <1>5, <1>6, <1>9, <1>16, StaleIsSeen
  <2> QED
    BY <1>1, <1>9, <1>16, <2>1, <2>2 DEF Reading
<1>17. LotsAreCovered'
  <2>1. ASSUME Unspoiled'
        PROVE  adjusted' <= departed'
    <3>1. adjusted <= departed
      BY <1>9, <2>1 DEF LotsInv, LotsAreCovered, Unspoiled
    <3>2. CASE missing = 0
      BY <1>2, <1>6, <3>1, <3>2
    <3>3. CASE missing > 0
      <4>1. TotalHeld(held) + adjusted <= b.seen + departed
        BY <1>1, <1>2, <1>16, <2>1, <3>3 DEF AccountedFor
      <4> QED
        BY <1>2, <1>3, <1>4, <1>5, <1>6, <3>3, <4>1
    <3> QED
      BY <1>5, <3>2, <3>3
  <2>2. ASSUME Unspoiled', checkup'.departed = departed'
        PROVE  SumFunctionOnSet(Amounts(owned)', checkup'.lots) <= balance'
    <3>1. b.seen <= balance
      BY <1>2, <1>9, <2>2 DEF Reading
    <3>2. PICK a, D : a = AmountsOf(owned) /\ D = DOMAIN held
      OBVIOUS
    <3>3. NowhereMore(D, a, held)
      <4>1. IsFiniteSet(D) /\ D \subseteq DOMAIN owned /\ \A i \in D : held[i] \in Nat
        BY <1>3, <3>2 DEF Listed
      <4>2. \A i \in DOMAIN owned : a[i] = owned[i].amount /\ a[i] \in Nat
        BY <1>6, <3>2, LotsAreFinite DEF Table
      <4>3. \A i \in D : owned[i].amount <= held[i]
        BY <1>1, <1>9, <2>2, <3>2 DEF Reading
      <4> QED
        BY <4>1, <4>2, <4>3 DEF NowhereMore
    <3>4. SumFunctionOnSet(a, D) \in Int /\ SumFunctionOnSet(a, D) <= SumFunctionOnSet(held, D)
      BY <3>3, SumGrows
    <3>5. SumFunctionOnSet(AmountsOf(owned'), D) = SumFunctionOnSet(a, D) - missing
      BY <1>7, <1>9, <2>2, <3>2
    <3>6. SumFunctionOnSet(Amounts(owned)', checkup'.lots) = SumFunctionOnSet(a, D) - missing
      BY <1>2, <3>2, <3>5 DEF Amounts, AmountsOf
    <3> QED
      BY <1>2, <1>3, <1>4, <1>5, <1>6, <3>1, <3>2, <3>4, <3>6
  <2> QED
    BY <1>a, <2>1, <2>2 DEF LotsAreCovered, ComparedAreHeld, Unspoiled
<1>18. ASSUME NEW x \in Worker, x # o
       PROVE  ReaderOK(worker[x])'
  <2>1. PICK w : w = worker[x] /\ w = worker'[x]
    BY <1>12, <1>18
  <2>2. ReaderOK(w) /\ Prepared(w, DOMAIN owned)
    BY <2>1 DEF LotsInv, ReadersInv, WorkersInv
  <2>3. ASSUME Reads(w), Unspoiled'
        PROVE  Reading(w)'
    <3>1. Reading(w) /\ (w.pc = "adjusting" => w.departed <= departed)
      BY <1>9, <2>2, <2>3 DEF ReaderOK
    <3>2. \A i \in DOMAIN owned : owned'[i].amount <= owned[i].amount
      BY <1>7, <1>9, <2>3
    <3>3. CASE missing = 0
      <4>1. /\ adjusted' = adjusted /\ departed <= departed'
            /\ balance + departed <= balance' + departed'
            /\ departed' = departed => balance <= balance'
        BY <1>2, <1>6, <3>3
      <4>2. /\ DOMAIN owned \subseteq DOMAIN owned'
            /\ \A i \in DOMAIN owned' \ DOMAIN owned, j \in DOMAIN owned : j < i
        BY <1>7
      <4>3. LotsType
        BY DEF LotsInv
      <4> QED
        BY <1>10, <2>2, <3>1, <3>2, <4>1, <4>2, <4>3, ReadingStays
    <3>4. CASE missing > 0
      <4>1. DOMAIN w.held # {} => OldestReduced(w.held)'
        <5>1. /\ LotsMoved(b.held, missing) = {} /\ owned' = Reduced(b.held, missing)
              /\ DOMAIN b.held # {} /\ Reading(b) /\ 0 < missing
          BY <1>1, <1>2, <1>5, <1>9, <1>16, <2>3, <3>4
        <5> QED
          BY <1>0, <1>5, <1>7, <2>2, <3>1, <3>2, <5>1, OthersSeeIt
      <4>2. /\ DOMAIN w.held \subseteq DOMAIN owned
            /\ \A i \in DOMAIN w.held : w.held[i] \in Nat
            /\ \A i \in DOMAIN owned : owned[i].amount \in Nat /\ owned'[i].amount \in Nat
        <5>1. \A i \in DOMAIN owned : owned[i].amount \in Nat
          BY <1>6, LotsAreFinite DEF Table
        <5>2. \A i \in DOMAIN owned' : owned'[i].amount \in Nat
          BY <1>7, LotsAreFinite DEF Table
        <5> QED
          BY <1>7, <2>2, <5>1, <5>2 DEF Prepared, Listed
      <4>3. /\ \A i \in DOMAIN w.held : 0 < w.held[i] /\ owned'[i].amount <= w.held[i]
            /\ \A i \in DOMAIN owned', j \in DOMAIN w.held :
                  i < j /\ i \notin DOMAIN w.held => owned'[i].amount = 0
        <5>1. ASSUME NEW i \in DOMAIN w.held
              PROVE  0 < w.held[i] /\ owned'[i].amount <= w.held[i]
          <6>1. 0 < w.held[i] /\ owned[i].amount <= w.held[i] /\ i \in DOMAIN owned
            BY <3>1, <4>2 DEF Reading
          <6> QED
            BY <3>2, <4>2, <6>1
        <5>2. ASSUME NEW i \in DOMAIN owned', NEW j \in DOMAIN w.held, i < j, i \notin DOMAIN w.held
              PROVE  owned'[i].amount = 0
          <6>1. owned[i].amount = 0 /\ i \in DOMAIN owned
            BY <1>7, <3>1, <5>2 DEF Reading
          <6> QED
            BY <3>2, <4>2, <6>1
        <5> QED
          BY <5>1, <5>2
      <4> QED
        BY <1>2, <3>1, <4>1, <4>3 DEF Reading
    <3> QED
      BY <1>5, <3>3, <3>4
  <2>4. ReaderOK(w)'
    BY <1>2, <2>2, <2>3 DEF ReaderOK, Reads
  <2> QED
    BY <2>1, <2>4 DEF ReaderOK, Reads, Reading, OldestReduced, AccountedFor
<1>19. ReadersInv'
  <2>1. ReaderOK(worker[o])'
    BY <1>11, <1>12 DEF ReaderOK, Reads
  <2> QED
    BY <1>18, <2>1 DEF ReadersInv
<1> QED
  BY <1>10, <1>12, <1>13, <1>14, <1>15, <1>17, <1>19 DEF LotsInv

\* The wallet is sold from by other means.
LEMMA DepartsStep ==
  ASSUME LotsInv, Departs
  PROVE  LotsInv'
<1>1. /\ mode = "live" /\ balance > 0 /\ balance' = balance - 1 /\ departed' = departed + 1
      /\ UNCHANGED <<mode, heldOn, owned, account, worker, bookedTrades, adjusted, checkup, stale>>
      /\ balance \in Nat /\ departed \in Nat
  BY DEF Departs, LotsInv, LotsType
<1>2. LotsType'
  BY <1>1 DEF LotsInv, LotsType
<1>3. WorkersInv' /\ BooksMatchTrades'
  BY <1>1 DEF LotsInv, WorkersInv, BooksMatchTrades
<1>4. FundsInv'
  <2>1. InFlight' = InFlight
    BY <1>1 DEF InFlight
  <2>2. balance' + departed' = balance + departed
    BY <1>1
  <2> QED
    BY <1>1, <2>1, <2>2 DEF LotsInv, FundsInv
<1>5. CheckupInv'
  BY <1>1 DEF LotsInv, CheckupInv, LotsType
<1>6. LotsAreCovered'
  BY <1>1, <1>2, CoverStays DEF Unspoiled
<1>7. ReadersInv'
  <2> SUFFICES ASSUME NEW x \in Worker
               PROVE  ReaderOK(worker[x])'
    BY DEF ReadersInv
  <2>1. PICK w : w = worker[x] /\ w = worker'[x]
    BY <1>1
  <2>2. ReaderOK(w) /\ Prepared(w, DOMAIN owned)
    BY <2>1 DEF LotsInv, ReadersInv, WorkersInv
  <2>3. ASSUME Reads(w)
        PROVE  /\ mode' = "live" /\ (w.pc = "adjusting" => w.departed <= departed')
               /\ Unspoiled' => Reading(w)'
    <3>1. mode = "live" /\ (w.pc = "adjusting" => w.departed <= departed)
      BY <2>2, <2>3 DEF ReaderOK
    <3>2. w.departed \in Nat
      BY <2>2 DEF Prepared
    <3>3. ASSUME Unspoiled' PROVE Reading(w)'
      <4>1. Reading(w)
        BY <1>1, <2>2, <2>3, <3>3 DEF ReaderOK, Unspoiled
      <4>2. /\ \A i \in DOMAIN owned : owned'[i].amount <= owned[i].amount
            /\ DOMAIN owned \subseteq DOMAIN owned'
            /\ \A i \in DOMAIN owned' \ DOMAIN owned, j \in DOMAIN owned : j < i
        BY <1>1, LotsAreFinite DEF LotsInv, LotsType, Table
      <4>3. /\ adjusted' = adjusted /\ departed <= departed'
            /\ balance + departed <= balance' + departed'
            /\ departed' = departed => balance <= balance'
        BY <1>1
      <4>4. LotsType
        BY DEF LotsInv
      <4> QED
        BY <1>2, <2>2, <3>1, <4>1, <4>2, <4>3, <4>4, ReadingStays
    <3> QED
      BY <1>1, <3>1, <3>2, <3>3
  <2>4. ReaderOK(w)'
    BY <2>3 DEF ReaderOK, Reads
  <2> QED
    BY <2>1, <2>4 DEF ReaderOK, Reads, Reading, OldestReduced, AccountedFor
<1> QED
  BY <1>2, <1>3, <1>4, <1>5, <1>6, <1>7 DEF LotsInv

-----------------------------------------------------------------------------
(* Shadow positions and prices                                              *)

LEMMA ListsGroupsStep ==
  ASSUME LotsInv, NEW o \in Worker, ClosesAll(o) \/ ChecksSources(o)
  PROVE  LotsInv'
<1>1. owned \in Table
  BY DEF LotsInv, LotsType
<1>2. PICK groups : ListsGroups(o, groups) /\ \A g \in groups : Listed(g, DOMAIN owned)
  <2>1. CASE ClosesAll(o)
    BY <1>1, <2>1, OpenAreListed DEF ClosesAll
  <2>2. CASE ChecksSources(o)
    <3>1. PICK groups : groups = {g \in {OpenLots({w}) : w \in Source} : TotalHeld(g) > 0}
      OBVIOUS
    <3>2. \A g \in groups : \E w \in Source : g = OpenLots({w})
      BY <3>1
    <3>3. \A g \in groups : Listed(g, DOMAIN owned)
      BY <1>1, <3>2, OpenAreListed
    <3> QED
      BY <2>2, <3>1, <3>3 DEF ChecksSources
  <2> QED
    BY <2>1, <2>2
<1> DEFINE r == [IdleWorker EXCEPT !.pc = "closing", !.groups = groups]
<1>3. worker' = [worker EXCEPT ![o] = r] /\ worker[o].pc # "filled"
  BY <1>2 DEF ListsGroups, WorkerAt
<1>4. Prepared(r, DOMAIN owned) /\ r.pc = "closing"
  BY <1>2, IdlePrepared DEF Prepared, IdleWorker
<1> HIDE DEF r
<1> QED
  BY <1>2, <1>3, <1>4, QuietTurn DEF ListsGroups

LEMMA ClosesStep ==
  ASSUME LotsInv, NEW o \in Worker, Closes(o)
  PROVE  LotsInv'
<1>0. PICK b : b = worker[o] /\ Prepared(b, DOMAIN owned) /\ DOMAIN worker = Worker
  BY DEF LotsInv, WorkersInv
<1>1. PICK held \in b.groups : KeepsGroup(o, held) \/ ClosesGroup(o, held)
  BY <1>0 DEF Closes
<1>2. WorkerAt(o, "closing") /\ b.pc = "closing" /\ worker[o].pc # "filled"
      /\ UNCHANGED <<mode, heldOn, owned, account, balance, bookedTrades, departed, adjusted, checkup, stale>>
  BY <1>0, <1>1 DEF KeepsGroup, ClosesGroup, WorkerAt
<1>3. CASE KeepsGroup(o, held)
  <2>1. CASE b.groups = {held}
    <3>1. worker' = [worker EXCEPT ![o] = IdleWorker]
      BY <1>0, <1>3, <2>1 DEF KeepsGroup
    <3> QED
      BY <1>2, <3>1, IdlePrepared, QuietTurn
  <2>2. CASE b.groups # {held}
    <3> DEFINE r == [b EXCEPT !.groups = b.groups \ {held}]
    <3>1. worker' = [worker EXCEPT ![o] = r]
      BY <1>0, <1>3, <2>2 DEF KeepsGroup
    <3>2. /\ DOMAIN r = DOMAIN b /\ r.pc = b.pc /\ r.side = b.side /\ r.owner = b.owner
          /\ r.amount = b.amount /\ r.held = b.held /\ r.seen = b.seen
          /\ r.departed = b.departed /\ r.groups \subseteq b.groups
      BY <1>0 DEF Prepared
    <3> HIDE DEF r
    <3>3. Prepared(r, DOMAIN owned)
      BY <1>0, <3>2 DEF Prepared
    <3> QED
      BY <1>2, <3>1, <3>2, <3>3, QuietTurn
  <2> QED
    BY <2>1, <2>2
<1>4. CASE ClosesGroup(o, held)
  <2>1. Listed(held, DOMAIN owned)
    BY <1>0 DEF Prepared
  <2>2. PICK amount \in Nat : amount = TotalHeld(held)
    BY <2>1, HeldIsNumber
  <2>3. PICK groups : groups = b.groups \ {held}
    OBVIOUS
  <2> DEFINE r == [IdleWorker EXCEPT !.pc = "quoting", !.side = "sell", !.amount = amount,
                                     !.held = held, !.groups = groups]
  <2>4. worker' = [worker EXCEPT ![o] = r]
    BY <1>0, <1>4, <2>2, <2>3 DEF ClosesGroup
  <2>5. Prepared(r, DOMAIN owned) /\ r.pc = "quoting"
    BY <1>0, <2>1, <2>2, <2>3, IdlePrepared DEF Prepared, IdleWorker
  <2> HIDE DEF r
  <2> QED
    BY <1>2, <2>4, <2>5, QuietTurn
<1> QED
  BY <1>1, <1>3, <1>4

LEMMA PricesStep ==
  ASSUME LotsInv, NEW o \in Worker, PriceRefreshStarts(o) \/ RefreshBooks(o)
  PROVE  LotsInv'
<1>0. PICK b, money : b = worker[o] /\ Prepared(b, DOMAIN owned) /\ money = account /\ money \in Nat
  BY DEF LotsInv, WorkersInv, LotsType
<1>1. CASE PriceRefreshStarts(o)
  <2> DEFINE r == [IdleWorker EXCEPT !.pc = "pricing", !.seen = money]
  <2>1. worker' = [worker EXCEPT ![o] = r] /\ worker[o].pc # "filled"
    BY <1>0, <1>1 DEF PriceRefreshStarts, WorkerAt
  <2>2. Prepared(r, DOMAIN owned) /\ r.pc = "pricing"
    BY <1>0, IdlePrepared DEF Prepared, IdleWorker
  <2> HIDE DEF r
  <2> QED
    BY <1>1, <2>1, <2>2, QuietTurn DEF PriceRefreshStarts
<1>2. CASE RefreshBooks(o)
  <2>1. /\ b.pc = "pricing" /\ worker' = [worker EXCEPT ![o] = IdleWorker]
        /\ \/ account' = b.seen /\ stale' = stale \cup StaleAccount(o)
           \/ UNCHANGED <<account, stale>>
        /\ UNCHANGED <<mode, heldOn, owned, balance, bookedTrades, departed, adjusted, checkup>>
    BY <1>0, <1>2 DEF RefreshBooks, WorkerAt
  <2>2. b.seen \in Nat
    BY <1>0 DEF Prepared
  <2>3. LotsType'
    BY <2>1, <2>2 DEF LotsInv, LotsType
  <2>4. BooksMatchTrades'
    BY <1>0, <2>1 DEF LotsInv, BooksMatchTrades, StaleAccount
  <2>5. Turns(o, IdleWorker) /\ ReaderOK(IdleWorker)' /\ (Unspoiled' => Unspoiled)
        /\ IdleWorker.pc # "filled"
    BY <2>1, IdlePrepared DEF Turns, ReaderOK, Reads, Unspoiled
  <2>6. worker[o].pc # "filled"
    BY <1>0, <2>1
  <2> QED
    BY <2>1, <2>3, <2>4, <2>5, <2>6, OneRestsAside
<1> QED
  BY <1>1, <1>2

-----------------------------------------------------------------------------
(* All together                                                             *)

LEMMA LotsStart == LotsInit => LotsInv
<1> SUFFICES ASSUME LotsInit PROVE LotsInv
  OBVIOUS
<1>1. /\ owned = << >> /\ balance = 0 /\ departed = 0 /\ adjusted = 0 /\ stale = {}
      /\ worker = [o \in Worker |-> IdleWorker]
      /\ bookedTrades = [token |-> 0, money |-> 0, count |-> 0]
      /\ checkup = [status |-> "pending", lots |-> {}, departed |-> 0]
      /\ ShadowMoney \in Nat /\ account = (IF mode = "shadow" THEN ShadowMoney ELSE 0)
      /\ mode \in {"shadow", "live"}
  BY DEF LotsInit, LotsAssumption
<1>2. owned \in Table
  BY <1>1 DEF Table
<1>3. LotsType
  BY <1>1, <1>2 DEF LotsType
<1>4. WorkersInv
  BY <1>1, IdlePrepared DEF WorkersInv
<1>5. HeldOf(owned) = 0
  <2>1. HeldOf(owned) = SumFunctionOnSet(AmountsOf(owned), DOMAIN owned)
    BY <1>2, LotsAreFinite DEF Table
  <2>2. DOMAIN owned = {}
    BY <1>1
  <2> QED
    BY <2>1, <2>2, SumOfNone
<1>6. BooksMatchTrades
  BY <1>1, <1>5 DEF BooksMatchTrades, TotalHeld, Amounts, HeldOf, AmountsOf
<1>7. InFlight = 0
  <2>1. PICK d : d = Dues(worker)
    OBVIOUS
  <2>2. IsFiniteSet(Worker) /\ \A x \in Worker : d[x] = 0
    BY <1>1, <2>1, IdlePrepared DEF Dues, Due, LotsAssumption
  <2>3. /\ IsFiniteSet(Worker) /\ {} \subseteq Worker
        /\ \A x \in Worker : d[x] \in Int
        /\ \A x \in Worker \ {} : d[x] = 0
    BY <2>2
  <2>4. SumFunctionOnSet(d, Worker) = SumFunctionOnSet(d, {})
    BY <2>3, SumOutside
  <2> QED
    BY <2>1, <2>4, SumOfNone DEF InFlight
<1>8. FundsInv
  BY <1>1, <1>7 DEF FundsInv
<1>9. ReadersInv /\ CheckupInv /\ LotsAreCovered
  BY <1>1, IdlePrepared DEF ReadersInv, ReaderOK, Reads, CheckupInv, LotsAreCovered
<1> QED
  BY <1>3, <1>4, <1>6, <1>8, <1>9 DEF LotsInv

LEMMA LotsStep ==
  ASSUME LotsInv, LotsNext
  PROVE  LotsInv'
<1>1. CASE Departs
  BY <1>1, DepartsStep
<1>2. ASSUME NEW o \in Worker, Copies(o) \/ Manuals(o)
      PROVE  LotsInv'
  <2>1. Source \subseteq LotOwner /\ NoSource \in LotOwner
    BY DEF LotOwner
  <2>2. \/ \E owner \in LotOwner : Buys(o, owner)
        \/ \E w \in Source : CopySellsLots(o, w)
        \/ ManualSellsLots(o)
        \/ CarriesOut(o)
    BY <1>2, <2>1 DEF Copies, Manuals
  <2> QED
    BY <2>2, NewTradeStep, CarryOutStep
<1>3. ASSUME NEW o \in Worker, Reconciles(o)
      PROVE  LotsInv'
  BY <1>3, CheckupStartsStep, ReadsBalanceStep, CheckupFailsStep, VerifiesStep, AdjustsStep
     DEF Reconciles
<1> QED
  BY <1>1, <1>2, <1>3, ListsGroupsStep, ClosesStep, PricesStep
     DEF LotsNext, EvmCopies, SolanaCopies, HypercoreCopies, EvmManuals, SolanaManuals,
         HypercoreManuals, CloseEvm, CloseSolana, CloseHypercore

LEMMA LotsRest ==
  ASSUME LotsInv, UNCHANGED lotVars
  PROVE  LotsInv'
<1>1. UNCHANGED <<mode, heldOn, owned, account, balance, worker, bookedTrades, departed, adjusted,
                  checkup, stale>>
  BY DEF lotVars
<1>2. InFlight' = InFlight
  BY <1>1 DEF InFlight
<1>3. LotsType' /\ WorkersInv' /\ BooksMatchTrades'
  BY <1>1 DEF LotsInv, LotsType, WorkersInv, BooksMatchTrades
<1>4. FundsInv' /\ CheckupInv' /\ LotsAreCovered'
  BY <1>1, <1>2 DEF LotsInv, FundsInv, CheckupInv, LotsAreCovered, ComparedAreHeld, WorkerAt
<1>5. ReadersInv'
  BY <1>1 DEF LotsInv, ReadersInv, ReaderOK, Reads, Reading, OldestReduced, AccountedFor, Unspoiled
<1> QED
  BY <1>3, <1>4, <1>5 DEF LotsInv

\* While no handler has written over a lot or an account that had changed since it
\* read it, the open execution lots are what was bought less what was sold and what
\* the reconciliation took, and the shadow account is what it started with and what
\* the trades paid (applyShadowBuy, applyShadowSell, reduceExecutionLots).
THEOREM BooksAlwaysMatch == LotsSpec => []BooksMatchTrades
<1>1. LotsInv /\ [LotsNext]_lotVars => LotsInv'
  BY LotsStep, LotsRest
<1>2. LotsInv => BooksMatchTrades
  BY DEF LotsInv
<1> QED
  BY LotsStart, <1>1, <1>2, PTL DEF LotsSpec

\* While no sale settles or is booked in the middle of it, the reconciliation of the
\* live lots (reconcileEvm, planExternalBalanceAdjustment) takes no more from them
\* than left the wallet behind the program's back, however many reconciliations run
\* at once; and when it has passed and nothing left since, the wallet holds what the
\* lots it compared say: their sum after reconcileEvm and reconcileSolana, each lot
\* alone after reconcileHypercore, which does not add them up.
THEOREM LotsStayCovered == LotsSpec => []LotsAreCovered
<1>1. LotsInv /\ [LotsNext]_lotVars => LotsInv'
  BY LotsStep, LotsRest
<1>2. LotsInv => LotsAreCovered
  BY DEF LotsInv
<1> QED
  BY LotsStart, <1>1, <1>2, PTL DEF LotsSpec

HIDE LotsAssumption

===============================================================================
