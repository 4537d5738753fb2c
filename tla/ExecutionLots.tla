----------------------------- MODULE ExecutionLots -----------------------------
(***************************************************************************)
(* The execution lots of one asset: who owns what of it, in shadow mode    *)
(* against a simulated account (lib/services/execution-accounting) and in  *)
(* live mode against what the wallet on the network really holds.          *)
(*                                                                         *)
(* Copy trades, manual trades, the closing of shadow positions, the        *)
(* refresh of market prices and the reconciliation work side by side and   *)
(* await the network in between; a handler books with the lots it read     *)
(* when it started.  A unit of the asset costs one unit of money, every    *)
(* purchase has the same fees on top, every sale brings the same.  What    *)
(* happens to the attempt of a live trade is in ExecutionLifecycle.        *)
(* Remainders below the size step of a HyperCore coin are left out.        *)
(***************************************************************************)
EXTENDS Integers, Sequences, FiniteSets, Functions

CONSTANTS
  Worker,     \* the handlers that may be under way at once
  Source,     \* the source wallets
  NoSource,   \* the owner of manual trades
  ShadowMoney,      \* what a shadow account starts with
  MaxSize,    \* bound: the units of a purchase
  Fee,        \* bound: what a purchase costs on top
  SaleProceeds,   \* bound: what a sale brings
  MaxLotTrades,  \* bound: the trades of a behaviour
  MaxDeparted \* bound: the units that leave the wallet behind the program's back

ASSUME LotsAssumption ==
  /\ IsFiniteSet(Worker) /\ NoSource \notin Source
  /\ {ShadowMoney, MaxSize, Fee, SaleProceeds, MaxLotTrades, MaxDeparted} \subseteq Nat

VARIABLES
  mode,       \* "shadow" or "live"
  heldOn,      \* "evm", "solana" or "hypercore"
  owned,      \* the lots of the asset, by opening time
  account,    \* funding_token_amount of the shadow account
  balance,    \* live: what the wallet holds on the network
  worker,     \* the handlers and their local variables
  bookedTrades,       \* what the booked trades add up to
  departed,   \* what left the wallet without a trade being booked
  adjusted,   \* by how much the reconciliation has reduced lots
  checkup,    \* live: the reconciliation's record, what it compared, departed when it read
  stale       \* what was written from values that had changed since

lotVars == <<mode, heldOn, owned, account, balance, worker, bookedTrades, departed, adjusted, checkup, stale>>

LotOwner == Source \cup {NoSource}

IdleWorker == [pc |-> "idle", side |-> "none", owner |-> NoSource, amount |-> 0, held |-> << >>,
         seen |-> 0, departed |-> 0, groups |-> {}]

LotsInit ==
  /\ mode \in {"shadow", "live"}
  /\ heldOn \in {"evm", "solana", "hypercore"}
  /\ owned = << >>
  /\ account = IF mode = "shadow" THEN ShadowMoney ELSE 0
  /\ balance = 0
  /\ worker = [o \in Worker |-> IdleWorker]
  /\ bookedTrades = [token |-> 0, money |-> 0, count |-> 0]
  /\ departed = 0 /\ adjusted = 0
  /\ checkup = [status |-> "pending", lots |-> {}, departed |-> 0]
  /\ stale = {}

WorkerAt(o, pc) == worker[o].pc = pc
Goes(o, pc) == worker' = [worker EXCEPT ![o].pc = pc]
WorkerEnds(o) ==
  worker' = [worker EXCEPT ![o] = IF @.groups = {} THEN IdleWorker
                                  ELSE [IdleWorker EXCEPT !.pc = "closing", !.groups = worker[o].groups]]

TotalHeld(held) == SumFunction(held)
Amounts(lots) == [i \in DOMAIN lots |-> lots[i].amount]

\* getOpenExecutionLots, for all owners or for one wallet.
OpenLots(owners) ==
  [i \in {j \in DOMAIN owned : owned[j].amount > 0 /\ owned[j].owner \in owners}
     |-> owned[i].amount]

\* A live lot that is inserted or reduced asks for another reconciliation.
AsksCheckup ==
  checkup' = IF mode = "live" THEN [checkup EXCEPT !.status = "pending"] ELSE checkup

\* The bound counts a live trade when it settles, a shadow trade when it is booked.
Counted == bookedTrades.count + 1
Booked(n, paid) ==
  /\ mode = "shadow" => bookedTrades.count < MaxLotTrades
  /\ bookedTrades' = [token |-> bookedTrades.token + n, money |-> bookedTrades.money - paid,
              count |-> IF mode = "shadow" THEN Counted ELSE bookedTrades.count]
Settled ==
  /\ mode = "live" /\ bookedTrades.count < MaxLotTrades
  /\ bookedTrades' = [bookedTrades EXCEPT !.count = Counted]

-----------------------------------------------------------------------------
(* Reducing lots                                                            *)

OlderLots(held, i) == SumFunctionOnSet(held, {j \in DOMAIN held : j < i})
AtMost(a, b) == IF a < b THEN a ELSE b
AtLeast(a, b) == IF a > b THEN a ELSE b

\* reduceExecutionLots takes the amount from the lots in order, until it has it ...
TakenFrom(held, amount, i) == AtMost(held[i], AtLeast(0, amount - OlderLots(held, i)))
Touched(held, amount) == {i \in DOMAIN held : OlderLots(held, i) < amount}

\* ... and writes to each what is left of what the caller read.
Reduced(held, amount) ==
  [i \in DOMAIN owned |->
     IF i \in Touched(held, amount)
     THEN [owned[i] EXCEPT !.amount = held[i] - TakenFrom(held, amount, i)]
     ELSE owned[i]]

LotsMoved(held, amount) ==
  IF \E i \in Touched(held, amount) : owned[i].amount # held[i] THEN {"lots"} ELSE {}

\* Reconciliations that run across the chain effect or the booking of a sale.
RacesCheckup(o) ==
  IF mode = "live" /\ \E x \in Worker \ {o} : worker[x].pc \in {"reconciling", "adjusting"}
  THEN {"checkup"} ELSE {}

-----------------------------------------------------------------------------
(* Starting a trade                                                         *)

WorkerStarts(o, side, owner, amount, held) ==
  /\ worker' = [worker EXCEPT ![o] = [IdleWorker EXCEPT !.pc = "quoting", !.side = side,
                  !.owner = owner, !.amount = amount, !.held = held, !.groups = worker[o].groups]]
  /\ UNCHANGED <<mode, heldOn, owned, account, balance, bookedTrades, departed, adjusted, checkup, stale>>

\* What the allocation comes to.
Sizes == 1..MaxSize

Buys(o, owner) == WorkerAt(o, "idle") /\ \E n \in Sizes : WorkerStarts(o, "buy", owner, n, << >>)

\* A copied sale: what the source sold, but no more than its lots hold.
CopySellsLots(o, w) ==
  /\ WorkerAt(o, "idle")
  /\ \E n \in 1..TotalHeld(OpenLots({w})) : WorkerStarts(o, "sell", w, n, OpenLots({w}))

\* A manual sale: a percentage of all open lots.
ManualSellsLots(o) ==
  /\ WorkerAt(o, "idle")
  /\ \E n \in 1..TotalHeld(OpenLots(LotOwner)) : WorkerStarts(o, "sell", NoSource, n, OpenLots(LotOwner))

-----------------------------------------------------------------------------
(* Carrying it out                                                          *)

\* assertShadowPortfolioRisk: a sale passes; a purchase must fit the account as
\* it is now, without the fees.  A live trade passes its own limits.
WithinAccount(o) ==
  mode = "shadow" /\ worker[o].side = "buy" => worker[o].amount <= account

Approves(o) ==
  /\ WorkerAt(o, "quoting")
  /\ WithinAccount(o)
  /\ Goes(o, "executing")
  /\ UNCHANGED <<mode, heldOn, owned, account, balance, bookedTrades, departed, adjusted, checkup, stale>>

\* ensureShadowAccount asks for the price of the funding token when the account
\* holds none of it, and writes back the account it had read.
FundsAccount(o) ==
  /\ WorkerAt(o, "quoting") /\ mode = "shadow" /\ account = 0
  /\ worker' = [worker EXCEPT ![o].pc = "funding", ![o].seen = account]
  /\ UNCHANGED <<mode, heldOn, owned, account, balance, bookedTrades, departed, adjusted, checkup, stale>>

StaleAccount(o) == IF worker[o].seen = account THEN {} ELSE {"account"}

AccountFunded(o) ==
  /\ WorkerAt(o, "funding")
  /\ account' = worker[o].seen
  /\ stale' = stale \cup StaleAccount(o)
  /\ Goes(o, "quoting")
  /\ UNCHANGED <<mode, heldOn, owned, balance, bookedTrades, departed, adjusted, checkup>>

\* A quote, a limit, the simulation or the order fails before anything happened.
Fails(o) ==
  /\ worker[o].pc \in {"quoting", "funding", "executing"}
  /\ WorkerEnds(o)
  /\ UNCHANGED <<mode, heldOn, owned, account, balance, bookedTrades, departed, adjusted, checkup, stale>>

\* The network carries out a live order.
Settles(o) ==
  LET w == worker[o] IN
  /\ WorkerAt(o, "executing")
  /\ Settled
  /\ \/ w.side = "buy" /\ balance' = balance + w.amount
     \/ w.side = "sell" /\ w.amount <= balance /\ balance' = balance - w.amount
  /\ stale' = stale \cup (IF w.side = "sell" THEN RacesCheckup(o) ELSE {})
  /\ Goes(o, "filled")
  /\ UNCHANGED <<mode, heldOn, owned, account, departed, adjusted, checkup>>

\* A HyperCore order is filled in part, or the answer is lost: the handler throws
\* and leaves the lots as they are.
SettlesUnbooked(o, n) ==
  LET w == worker[o] IN
  /\ WorkerAt(o, "executing")
  /\ Settled
  /\ n \in 1..w.amount
  /\ n < w.amount => heldOn = "hypercore"
  /\ \/ w.side = "buy" /\ balance' = balance + n /\ UNCHANGED departed
     \/ /\ w.side = "sell" /\ n <= balance /\ departed + n <= MaxDeparted
        /\ balance' = balance - n /\ departed' = departed + n
  /\ WorkerEnds(o)
  /\ UNCHANGED <<mode, heldOn, owned, account, adjusted, checkup, stale>>

Executed(o) == WorkerAt(o, IF mode = "shadow" THEN "executing" ELSE "filled")

\* After booking, a live handler reconciles; a shadow handler is through.
Concludes(o) ==
  IF mode = "live"
  THEN worker' = [worker EXCEPT ![o] = [IdleWorker EXCEPT !.pc = "verifying"]]
  ELSE WorkerEnds(o)

\* Fault: the fees of a purchase are not taken from the account.
ChargeWithoutFee(n) == n
Charge(n) == n + Fee

\* A bought lot is inserted first.  applyShadowBuy then takes the money or, when
\* the account has less by now, throws: the lot stays without being paid for.
BooksPurchase(o) ==
  LET w == worker[o]
      paid == mode = "shadow" /\ w.amount + Fee <= account
  IN
  /\ Executed(o) /\ w.side = "buy"
  /\ owned' = Append(owned, [owner |-> w.owner, amount |-> w.amount])
  /\ account' = IF paid THEN account - Charge(w.amount) ELSE account
  /\ Booked(w.amount, IF paid THEN w.amount + Fee ELSE 0)
  /\ AsksCheckup
  /\ Concludes(o)
  /\ UNCHANGED <<mode, heldOn, balance, departed, adjusted, stale>>

\* applyShadowSell reads the account afresh.
BooksSale(o) ==
  LET w == worker[o]
      paid == IF mode = "shadow" THEN SaleProceeds ELSE 0
  IN
  /\ Executed(o) /\ w.side = "sell"
  /\ owned' = Reduced(w.held, w.amount)
  /\ stale' = stale \cup LotsMoved(w.held, w.amount) \cup RacesCheckup(o)
  /\ account' = account + paid
  /\ Booked(0 - w.amount, 0 - paid)
  /\ AsksCheckup
  /\ Concludes(o)
  /\ UNCHANGED <<mode, heldOn, balance, departed, adjusted>>

\* What a handler does once it has its quote.
CarriesOut(o) ==
  \/ Approves(o) \/ FundsAccount(o) \/ AccountFunded(o) \/ Fails(o)
  \/ Settles(o) \/ \E n \in Sizes : SettlesUnbooked(o, n)
  \/ BooksPurchase(o) \/ BooksSale(o)

-----------------------------------------------------------------------------
(* The reconciliation of the live lots                                      *)

UntilChecked == UNCHANGED <<mode, heldOn, owned, account, balance, bookedTrades, departed, adjusted, stale>>

\* reconcileIntegration, after a live trade or from the maintenance tick and the
\* operator.  On an EVM chain the lots are read before the balance.
CheckupStarts(o) ==
  /\ mode = "live"
  /\ WorkerAt(o, "idle") \/ WorkerAt(o, "verifying")
  /\ worker' = [worker EXCEPT ![o] = [IdleWorker EXCEPT !.pc = "reconciling",
                  !.held = IF heldOn = "evm" THEN OpenLots(LotOwner) ELSE << >>]]
  /\ stale' = stale \cup
       (IF \E x \in Worker : WorkerAt(x, "filled") /\ worker[x].side = "sell" THEN {"checkup"} ELSE {})
  /\ UNCHANGED checkup
  /\ UNCHANGED <<mode, heldOn, owned, account, balance, bookedTrades, departed, adjusted>>

ReadsBalance(o) ==
  /\ WorkerAt(o, "reconciling")
  /\ worker' = [worker EXCEPT ![o].pc = "adjusting", ![o].seen = balance,
                              ![o].departed = departed]
  /\ UNCHANGED checkup /\ UntilChecked

\* The network does not answer.
CheckupFails(o) ==
  /\ WorkerAt(o, "reconciling")
  /\ checkup' = [checkup EXCEPT !.status = "failed"]
  /\ worker' = [worker EXCEPT ![o] = IdleWorker]
  /\ UntilChecked

Checked(o, status, lots) ==
  /\ checkup' = [status |-> status, lots |-> DOMAIN lots, departed |-> worker[o].departed]
  /\ worker' = [worker EXCEPT ![o] = IdleWorker]

\* reconcileSolana adds the lots of a mint up; reconcileHypercore compares each lot
\* alone with the whole balance or position.
Covers(held, actual) ==
  IF heldOn = "hypercore" THEN \A i \in DOMAIN held : held[i] <= actual
                          ELSE TotalHeld(held) <= actual

\* On Solana and HyperCore the lots of the moment must be covered.
Verifies(o) ==
  /\ WorkerAt(o, "adjusting") /\ heldOn # "evm"
  /\ Checked(o, IF Covers(OpenLots(LotOwner), worker[o].seen) THEN "passed" ELSE "failed",
                OpenLots(LotOwner))
  /\ UntilChecked

\* Fault: the lots are reduced by what the wallet holds, not by what it lacks.
ShortfallSwapped(held, actual) == AtMost(TotalHeld(held), actual)

\* planExternalBalanceAdjustment
Shortfall(held, actual) == AtLeast(0, TotalHeld(held) - actual)

\* reconcileEvm takes what the wallet lacks from the lots it had read.
Adjusts(o) ==
  LET held == worker[o].held
      missing == Shortfall(held, worker[o].seen)
  IN
  /\ WorkerAt(o, "adjusting") /\ heldOn = "evm"
  /\ owned' = Reduced(held, missing)
  /\ adjusted' = adjusted + missing
  /\ stale' = stale \cup LotsMoved(held, missing)
  /\ Checked(o, "passed", held)
  /\ UNCHANGED <<mode, heldOn, account, balance, bookedTrades, departed>>

\* The operator sells from the wallet by other means.
Departs ==
  /\ mode = "live" /\ balance > 0 /\ departed < MaxDeparted
  /\ balance' = balance - 1 /\ departed' = departed + 1
  /\ UNCHANGED <<mode, heldOn, owned, account, worker, bookedTrades, adjusted, checkup, stale>>

-----------------------------------------------------------------------------
(* Shadow positions are closed, and market prices refreshed                 *)

ListsGroups(o, groups) ==
  /\ mode = "shadow" /\ WorkerAt(o, "idle") /\ groups # {}
  /\ worker' = [worker EXCEPT ![o] = [IdleWorker EXCEPT !.pc = "closing", !.groups = groups]]
  /\ UNCHANGED <<mode, heldOn, owned, account, balance, bookedTrades, departed, adjusted, checkup, stale>>

\* closeAllTradingPositions takes the lots of all owners as one position ...
ClosesAll(o) == ListsGroups(o, {g \in {OpenLots(LotOwner)} : TotalHeld(g) > 0})

\* ... the reconciliation with the source wallets each wallet's on its own.
ChecksSources(o) == ListsGroups(o, {g \in {OpenLots({w}) : w \in Source} : TotalHeld(g) > 0})

\* The source wallet still holds the position.
KeepsGroup(o, held) ==
  /\ WorkerAt(o, "closing") /\ held \in worker[o].groups
  /\ worker' = [worker EXCEPT ![o] = IF @.groups = {held} THEN IdleWorker
                                     ELSE [worker[o] EXCEPT !.groups = worker[o].groups \ {held}]]
  /\ UNCHANGED <<mode, heldOn, owned, account, balance, bookedTrades, departed, adjusted, checkup, stale>>

\* closeShadowExecutionLots sells a group, with the lots as they were listed.
ClosesGroup(o, held) ==
  /\ WorkerAt(o, "closing") /\ held \in worker[o].groups
  /\ worker' = [worker EXCEPT ![o] = [IdleWorker EXCEPT !.pc = "quoting", !.side = "sell",
                  !.amount = TotalHeld(held), !.held = held, !.groups = worker[o].groups \ {held}]]
  /\ UNCHANGED <<mode, heldOn, owned, account, balance, bookedTrades, departed, adjusted, checkup, stale>>

Closes(o) == \E held \in worker[o].groups : KeepsGroup(o, held) \/ ClosesGroup(o, held)

\* refreshExecutionMarkets reads the account, awaits the price of the funding token
\* and writes the account back.
PriceRefreshStarts(o) ==
  /\ mode = "shadow" /\ WorkerAt(o, "idle")
  /\ worker' = [worker EXCEPT ![o] = [IdleWorker EXCEPT !.pc = "pricing", !.seen = account]]
  /\ UNCHANGED <<mode, heldOn, owned, account, balance, bookedTrades, departed, adjusted, checkup, stale>>

RefreshBooks(o) ==
  /\ WorkerAt(o, "pricing")
  /\ \/ account' = worker[o].seen /\ stale' = stale \cup StaleAccount(o)
     \/ UNCHANGED <<account, stale>>
  /\ worker' = [worker EXCEPT ![o] = IdleWorker]
  /\ UNCHANGED <<mode, heldOn, owned, balance, bookedTrades, departed, adjusted, checkup>>

-----------------------------------------------------------------------------
(* The handlers                                                             *)

Copies(o) ==
  \/ \E w \in Source : Buys(o, w) \/ CopySellsLots(o, w)
  \/ worker[o].owner \in Source /\ worker[o].groups = {} /\ CarriesOut(o)
Manuals(o) ==
  \/ Buys(o, NoSource) \/ ManualSellsLots(o)
  \/ worker[o].owner = NoSource /\ CarriesOut(o)

EvmCopies(o) == heldOn = "evm" /\ Copies(o)
SolanaCopies(o) == heldOn = "solana" /\ Copies(o)
HypercoreCopies(o) == heldOn = "hypercore" /\ Copies(o)
EvmManuals(o) == heldOn = "evm" /\ Manuals(o)
SolanaManuals(o) == heldOn = "solana" /\ Manuals(o)
HypercoreManuals(o) == heldOn = "hypercore" /\ Manuals(o)

CloseEvm(o) == heldOn = "evm" /\ Closes(o)
CloseSolana(o) == heldOn = "solana" /\ Closes(o)
CloseHypercore(o) == heldOn = "hypercore" /\ Closes(o)

Reconciles(o) ==
  CheckupStarts(o) \/ ReadsBalance(o) \/ CheckupFails(o) \/ Verifies(o) \/ Adjusts(o)

LotsNext ==
  \/ \E o \in Worker :
       \/ EvmCopies(o) \/ SolanaCopies(o) \/ HypercoreCopies(o)
       \/ EvmManuals(o) \/ SolanaManuals(o) \/ HypercoreManuals(o)
       \/ ClosesAll(o) \/ ChecksSources(o)
       \/ CloseEvm(o) \/ CloseSolana(o) \/ CloseHypercore(o)
       \/ PriceRefreshStarts(o) \/ RefreshBooks(o) \/ Reconciles(o)
  \/ Departs

LotsSpec == LotsInit /\ [][LotsNext]_lotVars

-----------------------------------------------------------------------------
\* Every variable has its type; no lot, account or balance is negative.
LotsTypeOK ==
  /\ mode \in {"shadow", "live"} /\ heldOn \in {"evm", "solana", "hypercore"}
  /\ owned \in Seq([owner : LotOwner, amount : Nat])
  /\ account \in Nat /\ balance \in Nat /\ adjusted \in Nat
  /\ departed \in 0..MaxDeparted /\ bookedTrades.count \in 0..MaxLotTrades
  /\ checkup \in [status : {"pending", "passed", "failed"}, lots : SUBSET DOMAIN owned,
                  departed : 0..MaxDeparted]
  /\ stale \subseteq {"lots", "account", "checkup"}
  /\ \A o \in Worker :
       /\ worker[o].pc \in {"idle", "quoting", "funding", "executing", "filled", "verifying",
                            "reconciling", "adjusting", "closing", "pricing"}
       /\ worker[o].side \in {"none", "buy", "sell"}
       /\ worker[o].amount \in Nat /\ worker[o].seen \in Nat
       /\ DOMAIN worker[o].held \subseteq DOMAIN owned

\* Unless a handler wrote over a lot or an account that had changed since it read
\* it, the open lots are what was bought, less what was sold and what the
\* reconciliation took, and the shadow account is what it started with and what
\* the trades paid: the fees of a purchase included, and a purchase that found too
\* little money excluded.
BooksMatchTrades ==
  /\ "lots" \notin stale => TotalHeld(Amounts(owned)) = bookedTrades.token - adjusted
  /\ mode = "shadow" /\ "account" \notin stale => account = ShadowMoney + bookedTrades.money

ComparedAreHeld ==
  IF heldOn = "hypercore"
  THEN \A i \in checkup.lots : owned[i].amount <= balance
  ELSE SumFunctionOnSet(Amounts(owned), checkup.lots) <= balance

\* Unless a sale settled or was booked in the middle of it, the reconciliation takes
\* no more from the lots than left the wallet behind the program's back; and when
\* it has passed, and nothing left since, the wallet holds what the lots it compared
\* say: all of them together, but on HyperCore, where the code never adds them up,
\* only each of them alone (two lots of one unit pass there against a position of
\* one).  A lot that is booked while it awaits the balance is not among them.
LotsAreCovered ==
  stale \cap {"lots", "checkup"} = {} =>
    /\ adjusted <= departed
    /\ /\ checkup.status = "passed" /\ checkup.departed = departed
       /\ \A o \in Worker : WorkerAt(o, "filled") => worker[o].side = "buy"
       => ComparedAreHeld

===============================================================================
