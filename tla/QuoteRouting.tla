----------------------------- MODULE QuoteRouting -----------------------------
(***************************************************************************)
(* The way of a live order for one token from its signal to its execution: *)
(* the market is resolved, a plan is prepared by the network's adapter     *)
(* (prepareEvmExecution, prepareRobinhoodExecution, the Solana adapter),   *)
(* refreshed once if it is old (prepareFreshQuote), its exit is verified   *)
(* (exit-route-verifier), and the policies and limits are asked.           *)
(* Orders for the token run concurrently and share two caches: the pool    *)
(* that last gave a quote and the last verdict on the exit.                *)
(* What a check compares (prices, fees, balances, scores) is left out: the *)
(* check may pass or refuse.  Kept are the order of the checks, what each  *)
(* one remembers, and the age of what it relies on.  One tick of the clock *)
(* is the age limit of a quote divided by MaxAge.                          *)
(***************************************************************************)
EXTENDS Naturals, Sequences

CONSTANTS
  Request,    \* orders under way at the same time
  PoolTtl,    \* ticks a pool of Robinhood Chain is remembered (one hour)
  ExitTtl,    \* ticks a verdict on the exit is remembered (five minutes)
  MaxAge,     \* ticks a quote may age (maxQuoteAgeMs)
  MaxChanges  \* bound of the changes of the market and the setting

ASSUME RoutingAssumption ==
  /\ PoolTtl \in Nat \ {0} /\ ExitTtl \in Nat \ {0} /\ MaxAge \in Nat
  /\ MaxChanges \in Nat

VARIABLES
  tradedOn,   \* where the token is traded
  young,     \* its market is younger than youngPoolAgeMinutes
  listed,    \* the market data provider knows a pool of it
  open,      \* the venues that quote it now
  exits,     \* the venues it can be sold at now
  required,  \* the setting requireVerifiedExitRoute
  poolCache, \* the remembered pool and for how long
  routeCache,\* the remembered verdict, for how long, and what gave it
  request,   \* the orders
  changes,   \* how often the market or the setting has changed
  idle       \* ticks since the token could last be sold anywhere

routingVars == <<tradedOn, young, listed, open, exits, required, poolCache, routeCache, request,
          changes, idle>>

Pools == <<"pool1", "pool2">>  \* by liquidity
Venues(net) ==
  CASE net = "ethereum" -> {"0x"}
    [] net = "base" -> {"0x", "lifi", "uniswap"}
    [] net = "robinhood" -> {"pool1", "pool2", "portal"}
    [] net = "solana" -> {"jupiter"}

NoRequest == [pc |-> "idle", side |-> "buy", kind |-> "amm", left |-> <<>>, venue |-> "none", age |-> 0,
              refreshed |-> FALSE, strict |-> TRUE, verified |-> FALSE, by |-> "none", idle |-> 0]

Old == MaxAge + 1              \* any age beyond the limit
Forgotten == ExitTtl + MaxAge  \* any idle time beyond what matters

RoutingInit ==
  /\ tradedOn \in {"ethereum", "base", "robinhood", "solana"}
  /\ young \in BOOLEAN /\ listed \in BOOLEAN
  /\ tradedOn # "robinhood" => listed
  /\ required = TRUE
  /\ open = Venues(tradedOn)
  /\ exits \in {{}, Venues(tradedOn)}
  /\ poolCache = [pool |-> "none", left |-> 0]
  /\ routeCache = [verified |-> FALSE, left |-> 0, by |-> "none"]
  /\ request = [r \in Request |-> NoRequest]
  /\ changes = 0
  /\ idle = IF exits = {} THEN Forgotten ELSE 0

RequestAt(r, pc) == request[r].pc = pc
Goto(r, pc) == request' = [request EXCEPT ![r].pc = pc]
Forget(r) == request' = [request EXCEPT ![r] = NoRequest]
world == <<tradedOn, young, listed, open, exits, required, changes, idle>>
caches == <<poolCache, routeCache>>

-----------------------------------------------------------------------------
(* The signal and its market                                                *)

\* An order for a market starts with the settings of the moment and keeps them,
\* through a refresh of its quote too.
StartOrder(r, side, kind) ==
  request' = [request EXCEPT ![r] = [NoRequest EXCEPT !.pc = "prepare", !.side = side,
                                       !.kind = kind, !.strict = required]]

\* A portal position counts as sellable when selling what the observed wallet
\* bought can be simulated, or fails for want of the wallet's allowance only.
PortalExitSeen == "portal" \in exits

ResolveMarket(r) ==
  /\ RequestAt(r, "idle")
  /\ listed
  /\ \E side \in {"buy", "sell"} : StartOrder(r, side, "amm")
  /\ UNCHANGED <<world, caches>>

\* Only for an observed purchase.
ResolvePortalMarket(r) ==
  /\ RequestAt(r, "idle")
  /\ ~listed /\ PortalExitSeen
  /\ StartOrder(r, "buy", "portal")
  /\ UNCHANGED <<world, caches>>

-----------------------------------------------------------------------------
(* prepare: the venues to ask, in order                                     *)

\* No account, no balance, or no market: nothing is prepared.
Unprepared(r) ==
  /\ RequestAt(r, "prepare")
  /\ Forget(r) /\ UNCHANGED <<world, caches>>

Ask(r, venues) ==
  request' = [request EXCEPT ![r].pc = "asking", ![r].left = venues]

PrepareEvm(r) ==
  /\ RequestAt(r, "prepare") /\ tradedOn \in {"ethereum", "base"}
  /\ Ask(r, IF tradedOn = "base" THEN <<"0x", "lifi", "uniswap">> ELSE <<"0x">>)
  /\ UNCHANGED <<world, caches>>

PrepareSolana(r) ==
  /\ RequestAt(r, "prepare") /\ tradedOn = "solana"
  /\ Ask(r, <<"jupiter">>) /\ UNCHANGED <<world, caches>>

PreparePortal(r) ==
  /\ RequestAt(r, "prepare") /\ tradedOn = "robinhood" /\ request[r].kind = "portal"
  /\ Ask(r, <<"portal">>) /\ UNCHANGED <<world, caches>>

\* While a pool is remembered it is the only candidate.
UseCachedPool(r) ==
  /\ RequestAt(r, "prepare") /\ tradedOn = "robinhood" /\ request[r].kind = "amm"
  /\ poolCache.left > 0
  /\ Ask(r, <<poolCache.pool>>) /\ UNCHANGED <<world, caches>>

\* Pools with hooks, or whose Initialize event is not found, are passed over.
ResolvePools(r) ==
  /\ RequestAt(r, "prepare") /\ tradedOn = "robinhood" /\ request[r].kind = "amm"
  /\ poolCache.left = 0
  /\ \E verified \in {Pools, <<"pool1">>, <<"pool2">>} : Ask(r, verified)
  /\ UNCHANGED <<world, caches>>

\* The venue whose turn it is.
Asked(r) == Head(request[r].left)

Answers(r, v) == RequestAt(r, "asking") /\ request[r].left # <<>> /\ Asked(r) = v
Plan(r) == request' = [request EXCEPT ![r].pc = "simulate", ![r].venue = Asked(r), ![r].age = 0]

ZeroExQuotes(r) ==
  /\ Answers(r, "0x") /\ "0x" \in open
  /\ Plan(r) /\ UNCHANGED <<world, caches>>

LifiQuotes(r) ==
  /\ Answers(r, "lifi") /\ "lifi" \in open
  /\ Plan(r) /\ UNCHANGED <<world, caches>>

\* Base only: purchases go through a verified Uniswap v3 pool.
UniswapBuys(r) ==
  /\ Answers(r, "uniswap") /\ request[r].side = "buy" /\ "uniswap" \in open
  /\ Plan(r) /\ UNCHANGED <<world, caches>>

\* Sales go through the Uniswap v2 pair, if the token can be transferred to it.
UniswapSells(r) ==
  /\ Answers(r, "uniswap") /\ request[r].side = "sell" /\ "uniswap" \in open \intersect exits
  /\ Plan(r) /\ UNCHANGED <<world, caches>>

\* The pool that quoted is remembered before the purchase has been simulated.
PoolQuotes(r) ==
  /\ \E p \in {"pool1", "pool2"} :
       /\ Answers(r, p) /\ p \in open
       /\ poolCache' = [pool |-> p, left |-> PoolTtl]
  /\ Plan(r) /\ UNCHANGED <<world, routeCache>>

PortalQuotes(r) ==
  /\ Answers(r, "portal") /\ "portal" \in open
  /\ Plan(r) /\ UNCHANGED <<world, caches>>

\* The quote is dated before the swap is built from it.
JupiterQuotes(r) ==
  /\ Answers(r, "jupiter") /\ "jupiter" \in open
  /\ Plan(r) /\ UNCHANGED <<world, caches>>

\* No route: the next venue is asked.  Errors of a pool are passed over too.
NoRoute(r) ==
  /\ RequestAt(r, "asking") /\ request[r].left # <<>>
  /\ Asked(r) \notin open \/ Asked(r) \in {"pool1", "pool2"}
  /\ request' = [request EXCEPT ![r].left = Tail(@)]
  /\ UNCHANGED <<world, caches>>

NoRouteLeft(r) ==
  /\ RequestAt(r, "asking") /\ request[r].left = <<>>
  /\ Forget(r) /\ UNCHANGED <<world, caches>>

\* Any other error of a provider, or a quote that does not match what was
\* asked for, ends the attempt; so does a swap that cannot be built.
QuoteError(r) ==
  /\ RequestAt(r, "asking") /\ request[r].left # <<>>
  /\ Asked(r) \notin {"pool1", "pool2"}
  /\ Forget(r) /\ UNCHANGED <<world, caches>>

\* Purchases are simulated on EVM networks.
MustSimulate(r) == tradedOn # "solana" /\ request[r].side = "buy"

Simulated(r) ==
  /\ RequestAt(r, "simulate")
  /\ Goto(r, "age") /\ UNCHANGED <<world, caches>>

\* On Base a purchase that cannot be simulated counts as no route of 0x, and as
\* no route of LI.FI when it was reverted.
SimulationReroutes(r) ==
  /\ RequestAt(r, "simulate") /\ MustSimulate(r)
  /\ tradedOn = "base" /\ request[r].venue \in {"0x", "lifi"}
  /\ request' = [request EXCEPT ![r].pc = "asking", ![r].left = Tail(@)]
  /\ UNCHANGED <<world, caches>>

SimulationFails(r) ==
  /\ RequestAt(r, "simulate") /\ MustSimulate(r)
  /\ tradedOn # "base" \/ request[r].venue # "0x"
  /\ Forget(r) /\ UNCHANGED <<world, caches>>

-----------------------------------------------------------------------------
(* prepareFreshQuote                                                        *)

Fresh(r) == request[r].age <= MaxAge

FreshQuote(r) ==
  /\ RequestAt(r, "age") /\ Fresh(r)
  /\ Goto(r, "exit") /\ UNCHANGED <<world, caches>>

RefreshQuote(r) ==
  /\ RequestAt(r, "age") /\ ~Fresh(r) /\ ~request[r].refreshed
  /\ request' = [request EXCEPT ![r].pc = "prepare", ![r].refreshed = TRUE]
  /\ UNCHANGED <<world, caches>>

StaleAgain(r) ==
  /\ RequestAt(r, "age") /\ ~Fresh(r) /\ request[r].refreshed
  /\ Forget(r) /\ UNCHANGED <<world, caches>>

-----------------------------------------------------------------------------
(* exit-route-verifier                                                      *)

SaleNeedsNoExit(r) ==
  /\ RequestAt(r, "exit") /\ request[r].side = "sell"
  /\ request' = [request EXCEPT ![r].pc = "policy", ![r].verified = TRUE]
  /\ UNCHANGED <<world, caches>>

Remembered == routeCache.left > 0

CachedVerdict(r) ==
  /\ RequestAt(r, "exit") /\ request[r].side = "buy" /\ Remembered
  /\ request' = [request EXCEPT ![r].pc = "policy", ![r].verified = routeCache.verified,
                                ![r].by = routeCache.by]
  /\ UNCHANGED <<world, caches>>

AskExit(r) ==
  /\ RequestAt(r, "exit") /\ request[r].side = "buy" /\ ~Remembered
  /\ Goto(r, "verifying") /\ UNCHANGED <<world, caches>>

\* Whether the amount the plan buys could be sold again now.  EVM plans are
\* checked with 0x and then LI.FI, whoever gave the quote; a portal plan repeats
\* what was found when its market was resolved.
ZeroExExit == "0x" \in exits
LifiExit == "lifi" \in exits
JupiterExit == "jupiter" \in exits
PoolExit(r) == request[r].venue = "portal" \/ request[r].venue \in exits
ExitOf(r) ==
  CASE tradedOn = "robinhood" -> PoolExit(r)
    [] tradedOn = "solana" -> JupiterExit
    [] OTHER -> ZeroExExit \/ LifiExit

Remember(r, verdict) ==
  LET by == IF request[r].venue = "portal" THEN "portal" ELSE "quote"
  IN /\ routeCache' = [verified |-> verdict, left |-> ExitTtl, by |-> by]
     /\ request' = [request EXCEPT ![r].pc = "policy", ![r].verified = verdict, ![r].by = by]

ExitAnswered(r) ==
  /\ RequestAt(r, "verifying")
  /\ Remember(r, ExitOf(r)) /\ UNCHANGED <<world, poolCache>>

\* Fault: a verification that failed counts as passed.
ExitAssumed(r) ==
  /\ RequestAt(r, "verifying")
  /\ Remember(r, TRUE) /\ UNCHANGED <<world, poolCache>>

ExitFails(r) ==
  /\ RequestAt(r, "verifying")
  /\ Remember(r, FALSE) /\ UNCHANGED <<world, poolCache>>

-----------------------------------------------------------------------------
(* The policies and limits, in the order of executeEvmCopyTrade             *)

\* evaluateAssetExecutionPolicy: sales are exempt, and so is every purchase if the
\* order's settings do not ask for a verified exit.
PolicyAccepts(r) ==
  request[r].side = "sell" \/ ~young \/ ~request[r].strict \/ request[r].verified

PassPolicy(r) ==
  /\ RequestAt(r, "policy") /\ PolicyAccepts(r)
  /\ Goto(r, "risk") /\ UNCHANGED <<world, caches>>

\* The denylist, the safety score, the liquidity, the wallets of a young market.
FailPolicy(r) ==
  /\ RequestAt(r, "policy") /\ request[r].side = "buy"
  /\ Forget(r) /\ UNCHANGED <<world, caches>>

\* The gas price or the price of the native coin is not to be had.
NoNativePrice(r) ==
  /\ RequestAt(r, "risk")
  /\ Forget(r) /\ UNCHANGED <<world, caches>>

\* assertEvmExecutionRisk: the target of a Robinhood plan must be the Universal
\* Router, which a portal plan's is not.
TargetAllowed(r) == request[r].venue # "portal"

PassRisk(r) ==
  /\ RequestAt(r, "risk") /\ TargetAllowed(r)
  /\ Goto(r, "guard") /\ UNCHANGED <<world, caches>>

\* The trade is too large, or the contracts it calls are not the provider's.
FailRisk(r) ==
  /\ RequestAt(r, "risk")
  /\ Forget(r) /\ UNCHANGED <<world, caches>>

\* assertPriceDeviation ends with the age of the quote; it is not refreshed.
PassGuard(r) ==
  /\ RequestAt(r, "guard") /\ Fresh(r)
  /\ request' = [request EXCEPT ![r].pc = "limits", ![r].idle = idle]
  /\ UNCHANGED <<world, caches>>

FailGuard(r) ==
  /\ RequestAt(r, "guard")
  /\ Forget(r) /\ UNCHANGED <<world, caches>>

FailNetworkLimit(r) ==
  /\ RequestAt(r, "limits")
  /\ Forget(r) /\ UNCHANGED <<world, caches>>

FailFeeLimit(r) ==
  /\ RequestAt(r, "limits")
  /\ Forget(r) /\ UNCHANGED <<world, caches>>

\* The daily loss is awaited, and then the plan is executed as it is.
Execute(r) ==
  /\ RequestAt(r, "limits")
  /\ Forget(r) /\ UNCHANGED <<world, caches>>

-----------------------------------------------------------------------------
(* The operator, the market and the clock                                   *)

\* The operator switches requireVerifiedExitRoute, orders under way or not.
SaveSettings ==
  /\ changes < MaxChanges /\ changes' = changes + 1
  /\ required' = ~required
  /\ UNCHANGED <<tradedOn, young, listed, open, exits, idle, caches, request>>

VenueChanges ==
  /\ changes < MaxChanges /\ changes' = changes + 1
  /\ \E o \in {open} \cup {open \ {v} : v \in open} \cup {open \cup {v} : v \in Venues(tradedOn)} :
     \E e \in {{}, exits, Venues(tradedOn)} : open' = o /\ exits' = e
  /\ idle' = IF exits = {} /\ exits' = {} THEN idle ELSE 0
  /\ listed' \in {listed, TRUE}
  /\ UNCHANGED <<tradedOn, young, required, caches, request>>

CountDown(n) == IF n = 0 THEN 0 ELSE n - 1
Grow(n, limit) == IF n = limit THEN n ELSE n + 1

Tick ==
  /\ poolCache' = [poolCache EXCEPT !.left = CountDown(@)]
  /\ routeCache' = [routeCache EXCEPT !.left = CountDown(@)]
  /\ request' = [r \in Request |-> [request[r] EXCEPT !.age = Grow(@, Old)]]
  /\ idle' = IF exits = {} THEN Grow(idle, Forgotten) ELSE 0
  /\ UNCHANGED <<tradedOn, young, listed, open, exits, required, changes>>

\* The process restarts: both caches are in memory only, the settings are stored.
Restart ==
  /\ poolCache' = [pool |-> "none", left |-> 0]
  /\ routeCache' = [verified |-> FALSE, left |-> 0, by |-> "none"]
  /\ request' = [r \in Request |-> NoRequest]
  /\ UNCHANGED world

Prepare(r) ==
  \/ Unprepared(r) \/ PrepareEvm(r) \/ PrepareSolana(r) \/ PreparePortal(r)
  \/ UseCachedPool(r) \/ ResolvePools(r)
  \/ ZeroExQuotes(r) \/ LifiQuotes(r) \/ UniswapBuys(r) \/ UniswapSells(r)
  \/ PoolQuotes(r) \/ PortalQuotes(r) \/ JupiterQuotes(r)
  \/ NoRoute(r) \/ NoRouteLeft(r) \/ QuoteError(r)
  \/ Simulated(r) \/ SimulationReroutes(r) \/ SimulationFails(r)
  \/ FreshQuote(r) \/ RefreshQuote(r) \/ StaleAgain(r)

VerifyExit(r) ==
  SaleNeedsNoExit(r) \/ CachedVerdict(r) \/ AskExit(r) \/ ExitAnswered(r) \/ ExitFails(r)

Decide(r) ==
  \/ PassPolicy(r) \/ FailPolicy(r) \/ NoNativePrice(r) \/ PassRisk(r) \/ FailRisk(r)
  \/ PassGuard(r) \/ FailGuard(r) \/ FailNetworkLimit(r) \/ FailFeeLimit(r) \/ Execute(r)

RoutingNext ==
  \/ \E r \in Request :
       ResolveMarket(r) \/ ResolvePortalMarket(r) \/ Prepare(r) \/ VerifyExit(r) \/ Decide(r)
  \/ SaveSettings \/ VenueChanges \/ Tick \/ Restart

RoutingSpec == RoutingInit /\ [][RoutingNext]_routingVars

-----------------------------------------------------------------------------
(* Properties                                                               *)

\* The caches and orders hold what the code keeps in them.
RoutingTypeOK ==
  /\ tradedOn \in {"ethereum", "base", "robinhood", "solana"}
  /\ young \in BOOLEAN /\ listed \in BOOLEAN /\ required \in BOOLEAN
  /\ open \subseteq Venues(tradedOn) /\ exits \subseteq Venues(tradedOn)
  /\ poolCache.left \in 0..PoolTtl /\ routeCache.left \in 0..ExitTtl
  /\ \A r \in Request : request[r].age \in 0..Old /\ request[r].strict \in BOOLEAN

\* A purchase in a young market that started while the settings asked for a verified
\* exit passes the checks only if the token could be sold somewhere a short while
\* ago: within the time a verdict is remembered and a quote may age, and whatever
\* the operator switches meanwhile.  It is not claimed of a purchase whose settings
\* waive the exit, nor of a verdict that a portal plan left behind: that one repeats
\* what was seen before the plan was prepared (exit-route-verifier.ts,
\* asset-execution-policy.ts, execution-quote-guard.ts).
BoughtCouldBeSold ==
  \A r \in Request :
    /\ RequestAt(r, "limits") /\ request[r].side = "buy"
    /\ young /\ request[r].strict /\ request[r].by = "quote"
    => request[r].idle < ExitTtl + MaxAge

===============================================================================
