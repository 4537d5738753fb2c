----------------------------- MODULE LiveLimits -------------------------------
(***************************************************************************)
(* The limits of a live network (assertLiveDailyLossLimit): the loss since *)
(* the day began, the number of positions, the cost of a token's and of a  *)
(* source wallet's lots, the cash reserve.  A buy is held against the lots *)
(* booked so far, and books its own after the order is done: buys of other *)
(* handlers may be booked in between.                                      *)
(*                                                                         *)
(* Amounts are whole dollars and percentages; the equity of the account is *)
(* any of a set of values whenever it is read, as prices move.  One side   *)
(* per asset.  Left out are the quote, the order, and the breaker, which   *)
(* refuses everything while it halts.                                      *)
(***************************************************************************)
EXTENDS Integers, FiniteSets, Functions

CONSTANTS
  Asset, Wallet,
  NoWallet,         \* of a manual trade
  BuyRequest,          \* handlers under way at the same time
  Equity,           \* the values the account's equity may have
  TradeAmount,            \* the sizes of buys
  MaxFee,           \* bound of the fee booked with a lot's cost
  MaxOpenPositions, \* of the network
  GlobalPositions,  \* settings.maxOpenPositions
  MinPosition, CashReserve, LossLimit, TokenExposure, WalletExposure, \* percentages
  MinTrade,         \* the network's minTradeUsd, or what the venue requires if that is more
  MaxCost,          \* bound of the cost of a token's lots
  MaxMet            \* bound of the buys booked while another is under way

ASSUME LimitsAssumption ==
  /\ IsFiniteSet(Asset) /\ IsFiniteSet(Wallet) /\ NoWallet \notin Wallet
  /\ Equity \subseteq Nat /\ TradeAmount \subseteq Nat \ {0}
  /\ {MaxFee, MinTrade, MaxCost, MaxMet} \subseteq Nat
  /\ {MaxOpenPositions, GlobalPositions} \subseteq Int
  /\ {MinPosition, CashReserve, LossLimit, TokenExposure, WalletExposure} \subseteq 0..100

VARIABLES
  cost,     \* remainingExecutionCost of the open lots, by asset and source wallet
  buy,
  daily,    \* live_daily_baselines of today, None before the first reading
  initial,  \* the oldest live_daily_baselines
  executed  \* lots or confirmed attempts exist

baselines == <<daily, initial>>
limitVars == <<cost, buy, baselines, executed>>

None == -1
Source == Wallet \cup {NoWallet}
Larger(x, y) == IF x > y THEN x ELSE y
Smaller(x, y) == IF x < y THEN x ELSE y

NoMore == [buys |-> 0, token |-> 0, wallet |-> 0, positions |-> 0]
NoBuy == [pc |-> "idle", asset |-> "none", wallet |-> NoWallet, usd |-> 0, known |-> FALSE,
          equity |-> 0, more |-> NoMore]

LimitsInit ==
  /\ cost = [a \in Asset |-> [w \in Source |-> 0]]
  /\ buy = [r \in BuyRequest |-> NoBuy]
  /\ daily = None /\ initial = None
  /\ executed = FALSE

-----------------------------------------------------------------------------
(* What the open lots add up to.                                            *)

TokenCostIn(table, a) == SumFunction(table[a])
WalletCostIn(table, w) == SumFunction([a \in Asset |-> table[a][w]])
PositionsIn(table) == {a \in Asset : TokenCostIn(table, a) > 0}

TokenCost(a) == TokenCostIn(cost, a)
WalletCost(w) == WalletCostIn(cost, w)
Positions == PositionsIn(cost)

-----------------------------------------------------------------------------
(* The limits.                                                              *)

\* resolveLivePositionLimit
PositionLimit(e, usd) ==
  LET configured == Larger(1, MaxOpenPositions)
      unit == Larger(50, Larger(usd * 100, Larger(MinTrade * 100, e * MinPosition)))
      capacity == Larger(1, (e * (100 - CashReserve)) \div unit)
  IN Smaller(Larger(configured, GlobalPositions), Larger(configured, capacity))

\* resolveExposureLimitUsd, in cents
ExposureLimit(e, percent) == Larger(e * percent, MinTrade * 100)

\* getOrCreateLiveDailyBaseline
Baseline(e) == IF daily = None THEN e ELSE daily
StoreBaseline(e) ==
  /\ daily' = Baseline(e)
  /\ initial' = IF initial = None THEN e ELSE initial

\* A baseline of zero knows no loss.
LossReached(e) == Baseline(e) > 0 /\ (Baseline(e) - e) * 100 >= LossLimit * Baseline(e)

\* Fault: one position too many.
PositionIfNotOver(known, e, usd) == known \/ Cardinality(Positions) <= PositionLimit(e, usd)

PositionAllowed(known, e, usd) == known \/ Cardinality(Positions) < PositionLimit(e, usd)

\* assertLivePositionRisk
RiskAllowed(a, w, usd, e) ==
  /\ PositionAllowed(a \in Positions, e, usd)
  /\ (TokenCost(a) + usd) * 100 <= ExposureLimit(e, TokenExposure)
  /\ w # NoWallet => (WalletCost(w) + usd) * 100 <= ExposureLimit(e, WalletExposure)
  /\ usd * 100 <= e * (100 - CashReserve)

-----------------------------------------------------------------------------
(* The trades.                                                              *)

\* The baseline is stored even if the buy is refused.
BuyAllowed(r) ==
  /\ buy[r].pc = "idle"
  /\ \E a \in Asset, w \in Source, usd \in TradeAmount, e \in Equity :
       /\ StoreBaseline(e)
       /\ ~LossReached(e) /\ RiskAllowed(a, w, usd, e)
       /\ buy' = [buy EXCEPT ![r] = [pc |-> "buying", asset |-> a, wallet |-> w, usd |-> usd,
                        known |-> a \in Positions, equity |-> e, more |-> NoMore]]
  /\ UNCHANGED <<cost, executed>>

BuyRefused ==
  /\ \E a \in Asset, w \in Source, usd \in TradeAmount, e \in Equity :
       /\ StoreBaseline(e)
       /\ LossReached(e) \/ ~RiskAllowed(a, w, usd, e)
  /\ UNCHANGED <<cost, buy, executed>>

\* insertExecutionLot: the cost of the lot is the trade and its network fee.
Booked(r, paid) ==
  LET b == buy[r]
      More(q) == [buys |-> q.more.buys + 1,
                  token |-> q.more.token + (IF q.asset = b.asset THEN paid ELSE 0),
                  wallet |-> q.more.wallet + (IF q.wallet = b.wallet THEN paid ELSE 0),
                  positions |-> q.more.positions + (IF b.asset \in Positions THEN 0 ELSE 1)]
  IN /\ cost' = [cost EXCEPT ![b.asset][b.wallet] = @ + paid]
     /\ buy' = [q \in BuyRequest |->
          IF q = r \/ buy[q].pc = "idle" THEN NoBuy
          ELSE [buy[q] EXCEPT !.more = More(buy[q])]]

Book(r) ==
  /\ buy[r].pc = "buying"
  /\ \A q \in BuyRequest \ {r} : buy[q].more.buys < MaxMet
  /\ \E fee \in 0..MaxFee :
       /\ TokenCost(buy[r].asset) + buy[r].usd + fee <= MaxCost
       /\ Booked(r, buy[r].usd + fee)
  /\ executed' = TRUE
  /\ UNCHANGED baselines

BuyFails(r) ==
  /\ buy[r].pc = "buying"
  /\ buy' = [buy EXCEPT ![r] = NoBuy]
  /\ UNCHANGED <<cost, baselines, executed>>

\* A sale is held to the loss only.  It closes the lots of one
\* source, or half of them.
Sell ==
  /\ \E a \in Asset, w \in Source, e \in Equity :
       /\ cost[a][w] > 0 /\ ~LossReached(e)
       /\ StoreBaseline(e)
       /\ \E left \in {0, (cost[a][w] + 1) \div 2} : cost' = [cost EXCEPT ![a][w] = left]
  /\ UNCHANGED <<buy, executed>>

-----------------------------------------------------------------------------
(* getLiveNetworkPortfolio, and the date.                                   *)

\* An account first read empty takes its first real equity as its baseline, as
\* long as nothing was executed.
ReadPortfolio ==
  /\ \E e \in Equity :
       IF (IF initial = None THEN e ELSE initial) = 0 /\ e > 0 /\ ~executed
         THEN /\ initial' = e
              /\ daily' = IF daily \in {None, 0} THEN e ELSE daily
         ELSE StoreBaseline(e)
  /\ UNCHANGED <<cost, buy, executed>>

NextDay ==
  /\ daily' = None
  /\ UNCHANGED <<cost, buy, initial, executed>>

LimitsNext ==
  \/ \E r \in BuyRequest : BuyAllowed(r) \/ Book(r) \/ BuyFails(r)
  \/ BuyRefused \/ Sell \/ ReadPortfolio \/ NextDay

LimitsSpec == LimitsInit /\ [][LimitsNext]_limitVars

-----------------------------------------------------------------------------
(* Properties                                                               *)

\* Every variable holds what the code keeps in it.
LimitsTypeOK ==
  /\ cost \in [Asset -> [Source -> 0..MaxCost]]
  /\ daily \in Equity \cup {None} /\ initial \in Equity \cup {None}
  /\ executed \in BOOLEAN

\* Between the check of a buy and its booking other buys are booked.  What the
\* account then holds exceeds the limits the buy was held to by no more than they
\* and its own fee cost, and the positions by no more than those they opened; a
\* buy that meets no other stays within them (assertLivePositionRisk).
OverLimitByOthersOnly ==
  [][\A r \in BuyRequest :
       LET b == buy[r]
           Within(total, percent, others) == total * 100 <= ExposureLimit(b.equity, percent) + others * 100
       IN b.pc = "buying" /\ buy'[r].pc = "idle" /\ cost' # cost =>
            /\ Within(TokenCostIn(cost', b.asset), TokenExposure, MaxFee + b.more.token)
            /\ b.wallet # NoWallet => Within(WalletCostIn(cost', b.wallet), WalletExposure, MaxFee + b.more.wallet)
            /\ ~b.known => Cardinality(PositionsIn(cost')) <= PositionLimit(b.equity, b.usd) + b.more.positions
    ]_limitVars

===============================================================================
