# NERAXON in TLA+

NERAXON watches wallets on three EVM chains, Solana and HyperCore, and copies
their trades with its own accounts.  The risk is in what a unit test reaches
least: handlers suspended at every `await`, a maintenance tick that repairs what
they left, a database that survives the process, networks that answer late or
not at all.  The modules here model those parts of the code under `src/`, TLC
checks them on small instances, and TLAPS proves every safety property that TLC
checks for all instances.

Paths below are relative to `src/src/` unless they start with `tests/`.

## 1. The system

### Processes, and what they share

One Node process runs the Next.js server.  In it, request handlers, watcher
callbacks and timers interleave: JavaScript runs each one without interruption
until it awaits.  Several processes may share the SQLite database; a row of
`runtime_leases` says which of them may watch the chains.  Rows survive a
restart, everything else (pending starts, watchers, caches, the set of observed
transactions) does not.

    chain, exchange --> adapter --> bot orchestrator --> copy trade handlers
                                      |   ^                   |
                                      v   | 60 s tick         v
                                 lease, cursor        consensus, attempt,
                                 status (SQLite)      lot, reconciliation,
                                                      breaker (SQLite)
                                                              ^
    operator (panel, Telegram) --> routes --------------------+

### Components

| Component | State | What is hard | What makes it correct | Module |
|---|---|---|---|---|
| Execution lifecycle (`lib/services/execution-lifecycle.ts`, `execution_attempts`) | status, accounting, reconciliation, error of an attempt | duplicate requests, lost replies, three writes outside a transaction, a crash between any two steps | an order is sent at most once; a fill is booked once; what is reported settled is booked | ExecutionLifecycle, OrderLedger |
| Live reconciliation and recovery (`live-certification.ts`) | `live_reconciliation`, the breaker | rows read before an await and written after it; recovery and handler on one row | every fill gets a verdict; a failed verdict halts trading | ExecutionLifecycle, ExecutionLots |
| Circuit breaker (`circuit-breaker-service.ts`) | halted, since when, why | one reason replacing another | a halt is lifted only by what it waits for | ExecutionLifecycle |
| Bot orchestrator, runtime lease (`bot-orchestrator.ts`, `runtime-monitor.ts`) | lease, status, stop handlers, pending starts | start and stop crossing, lease lost during an await | one reachable watcher per chain; the loser stops; what should run is watched | ChainWatcher |
| Chain adapters (`lib/chains/*`) | cursor, batch, sockets, subscriptions, endpoints at rest | a stop between fetch and cursor; sockets that close late; lists that change | nothing skipped between fetch and cursor; what is watched is subscribed | ChainWatcher, SolanaFeed, HypercoreFeed, EvmRpcPool |
| Copy buy consensus (`copy-buy-consensus.ts`, two tables) | counted wallets, copied stages, pending stage | two wallets at once, failures after the order, restart | one buy at a time; no stage twice | CopyConsensus |
| Copy and manual handlers (`copy-trading-service.ts`, `hypercore-copy-execution.ts`, the trade routes) | a task per transaction | every error path ends its stage; stale lots | a stage given out is ended | CopyConsensus, ExecutionLots, PaperBooks |
| Quotes and exit check (`exit-route-verifier.ts`, `execution-quote-guard.ts`, route builders) | remembered pools and verdicts | a verdict outlives what it was about; the setting that asks for it may be off | what is bought under that setting could be sold | QuoteRouting, QuoteSearch |
| Execution adapters (`lib/execution/*`) | nonces, references, balances before and after | lost answers, lagging nodes, a second transaction | one swap per execution; what it brought is measured right | SwapExecution, HypercoreOrders |
| Execution lots (`store.ts`, `execution-accounting.ts`) | lots, shadow account | absolute amounts written from a snapshot | books match trades; lots are covered by the wallet (on HyperCore each alone) | ExecutionLots |
| Paper trading, source reconciliation (`lib/engine/paper-*`, `hypercore-paper-trading.ts`) | cash, lots, positions | balances and quantities written back after awaits | cash and holdings are what the trades made | PaperBooks |
| Risk limits (`live-equity.ts`, `live-position-capacity.ts`) | day start, limits | buys in flight are not counted | limits are exceeded by others' buys only | LiveLimits |
| Live tests (`api/live-readiness/certify`) | step results | overlapping requests, steps out of turn | what passed was traded | LiveCertification |
| HyperCore Info client (`hypercore-api.ts`) | queue, caches, cooldown | shared and kept answers | an answer is as new as its type allows | HypercoreInfo |
| Notification outbox (`notification-outbox.ts`, `audit-service.ts`) | rows, attempts | overlapping deliveries, partial messages, restart | sent means complete; every row ends | NotificationOutbox |
| Telegram commands (`telegram-command-service.ts`) | offset, pending actions | redelivery, restart, expiry | one confirmation, one order | TelegramCommands |
| Social signals (`telegram-user-signal-service.ts`) | client, handler, selection, batches | settings changed between awaits; reconnection | the selection settles; opinions respect the cooldown | SocialSignals |
| Wallet states, discovery and scoring, credentials, panel | | | see section 6 | none |

The hazards these parts are exposed to, each with its line and the properties
that cover it, are listed under `hazards` in `PROJECT.json`.

## 2. The modules

### ExecutionLifecycle and OrderLedger

The life of a live order.  `attempt` is the row of `execution_attempts`, `age`
the class of its `updated_at` that the recovery distinguishes (under two
minutes, two to three, over three), `record` the row of `live_reconciliation`,
`breaker` the stored circuit breaker.  `handler`, `check`, `recovery` and `route`
say where a request handler, a `reconcileAfterLiveExecution` call, the recovery
loop with the rows it listed, and the operator's reconcile route are suspended.
`venue` is what the network or exchange really did; `sends` and `booked` count
submissions and lots.

| Actions | Code |
|---|---|
| `Claim`, `PrepareFails` | `claimExecutionAttempt`, the checks of `executeEvmCopyTrade` and the manual routes |
| `BeginSubmission`, `OnSubmitted`, `Send`, `SubmissionFails`, `AdapterReturns` | `runLiveSubmission` around an adapter's `execute()`: EVM and Solana learn the reference from the reply, HyperCore stores a client order id before it sends |
| `Confirm`, `BookLot`, `MarkAccounted` | the three SQLite writes after a fill, in one stretch without an await; only `Crash` separates them |
| `Answered`, `CheckFails`, `External...`, `Portfolio...` | `reconcileAfterLiveExecution`, called by a handler, the recovery or a route, and its catch |
| `RecoveryStart` ... `LoopDone` | `recoverPendingLiveExecutions`, which works on the rows as it listed them |
| `ReconcilePortfolio`, `TickEnds`, `ProbeEnds` | the rest of the tick: the periodic reconciliation and the two automatic resets of the breaker |
| `HaltTrading`, `ResetCircuitBreaker`, `OperatorLists`, `OperatorReconciles`, `ExpirePreparing` | the operator's routes and the dashboard's expiry |
| `VenueDecides`, `TimePasses`, `Crash` | the network, the clock, a restart |

An error message is the class `execution-outcome.ts` assigns it and whether it
reads like an RPC error; amounts and prices are left out.

`OrderLedger` is the abstract specification: an order is sent at most once, only
a fill is booked and only once, settled means booked, closed means that there is
no fill.  `ExecutionLifecycle` instantiates it with `LedgerOrder` and
`LedgerVerdict` as its refinement mapping (`ImplementsLedger`).

### CopyConsensus

Stage `n` of an asset is bought when `2^(n+1) - 1` distinct wallets have bought it
(1, 3, 7, ...).  `signals`, `copied` and `pending` are the two tables; `task` is the
handling of each source transaction: it is observed (`Observe`), analysed, given
a stage or not (`Register`), executed under a claimed attempt (`ClaimAttempt`),
booked (`BookLot`), its stage ended (`FinishStage`) and reconciled.  `Reject`,
`ExecutionFails`, `ClaimRefused` and `ReconciliationFails` are the error paths,
each with the release of the stage the code performs, and `Crash` forgets the
tasks and the observed set, so that a transaction is delivered again.  `Step` is
that of HyperCore and of the EVM and Solana handlers, which share it.

### ChainWatcher

How one EVM chain is watched.  `lease`, `status`, `lastBlock` and `cursor` are rows;
`watcher`, `current` (`stopHandlers`), `start` (`pendingStarts`) and `tick` belong to
a process.

| Actions | Code |
|---|---|
| `OperatorStarts`, `StartSucceeds`, `StartFails`, `StartReturns` | `start` and `startInternal`, cut at the awaited health check and at the published event |
| `OperatorStops` | `stop`, by the control route, the emergency stop or Telegram |
| `TickStarts`, `TickDeposed`, `TickAborts`, `TickRenews`, `TickRestarts`, `TickEnds` | `reconcileInternal` |
| `Poll`, `FetchRange`, `NoticesStop`, `FinishRange`, `RangeFails` | the replay loop of `evm-chain-adapter.ts` |
| `Deliver`, `Depose`, `Handle`, `MonitorError`, `Trip` | the callbacks the orchestrator gives the adapter |
| `Heartbeat`, `Boot`, `Ends`, `LeaseExpires`, `NewBlock` | the runtime monitor, the database being opened, a process that ends, clock and chain |

What happens to a transaction after `Handle` is CopyConsensus; both meet at
`claimObservedTransaction`, whose effect across restarts is `observed` there.

### SolanaFeed, HypercoreFeed

`SolanaFeed` is the closure of `startWatching`: `socket` (the reference) and
`sockets` (all that were opened and what each is subscribed to), `timer`,
`intentional`, `fingerprint`, and the replay with its cursor filter, page by page.
`CloseEvent` and `CloseEventIntended` are the two sides of the close listener;
`LiveHandled` moves the cursor beside a replay.  `HypercoreFeed` is one
synchronization (`ShardsClosed`, `OpenSocket`, `Subscribe`, `SyncEnds`,
`SyncFails`) against `SubscriptionFails`, `SocketTerminates`, `SwitchList` and
`StopFeed`, which come while it awaits; `SyncEnds` stores the list it started with.

### EvmRpcPool, HypercoreInfo

`EvmRpcPool` is `request` of the pool: a call walks over the endpoints that do not
rest (over all if all rest), and each failure class sets a rest, clears one, or
bars a method.  `HypercoreInfo` is `hypercoreInfo`: the answer cache with its times
to live, requests shared by callers, the queue, the cooldown and the attempts, and
the last list of markets kept on top.

### ExecutionLots, PaperBooks

`ExecutionLots` follows the copy, manual, close-all and source-check handlers of
the three kinds of network, the refresh and the reconciliation, over the lots of
one asset.  Every handler keeps what it read before an await and writes back what
the code writes back: absolute remainders, a whole shadow account.  `stale` says
that such a write has hit something that had changed.  What a reconciliation compares
with the wallet differs by network (`Adjusts`, `Covers`): the sum of the lots on the
EVM chains and Solana, each lot alone on HyperCore, where the code never adds them up.
`PaperBooks` does the same
for the paper cash, the lots and the position row of a token and the HyperCore
positions; `adrift` and the record of `trades` say what the books should hold.

### SwapExecution, HypercoreOrders, QuoteSearch, QuoteRouting

`SwapExecution` is `execute` of the EVM, Robinhood and Solana adapters (`Adapter`):
allowance, simulation, send, record, receipt, and balances before and after, read
from nodes that lag by a state; `chain` is the history of the account.
`HypercoreOrders` sizes, records, orders and measures, beside `Liquidate` and
`CatchUp` (the API that lags).  `QuoteSearch` is the doubling and bisection for a
portal's minimum return, and the bisection over block timestamps with the scan in
chunks that finds a pool's Initialize event; any of its calls may fail, and
`resolvePools` then passes the pool over (`BlockCallFails`).  `QuoteRouting` is the order
of checks from a signal to an execution, with the caches of pools and of exit verdicts.
An order keeps the settings it began with: `SaveSettings` is the settings route, of which
the model has `requireVerifiedExitRoute` (`required`, an order's copy `strict`), on by
default; the age below which a market is young is not changed in a behaviour.

### LiveLimits, LiveCertification

`LiveLimits` holds a buy against the booked lots (`BuyAllowed`) and books its own
later (`Book`), with other buys, sales, a moving equity and the turn of the day in
between.  `LiveCertification` is the live test route: a step is refused, finds its
attempt confirmed, or claims, looks at the lots, orders and reconciles; requests
overlap, because the key that holds off a second one changes every thirty
seconds (`createCertificationExecutionKey` exists, but the route does not use it).

### NotificationOutbox, TelegramCommands, SocialSignals

`NotificationOutbox` is `publishEvent`, `enqueueNotification` and the delivery of a
row by its publisher or by a flush, message by message from the first one, with
retries, dead letters and restarts.  `TelegramCommands` is the poll loop: `offset`,
the batch, the two-step confirmation with its deadline, and `ExecuteTradeAction`
per position.  `SocialSignals` is the user session: connecting, installing the
handler for the selection read before the dialogs, and the batches that ask one
opinion per window.

### MC modules

`MCExecutionLifecycle`, `MCCopyConsensus`, `MCChainWatcher` and `MCSocialSignals` give
one component its constants.  `MCLiveTrading`, `MCTradeSignals`, `MCChainFeeds`,
`MCTradingServices`, `MCOperatorServices` and `MCLiveness` put several components
into one run.  They share no state in these instances, so the run does not
multiply them: a variable `part`, chosen initially and never changed, says which
component takes steps, and the others rest in one initial state.  In a part the
behaviours are exactly those of its component.  All but `MCLiveness` EXTEND the
components, so that a run checks the components' own properties, the ones the
theorems state; the components of one run therefore have names of their own for their
variables and operators.  Only liveness properties are restated with a guard on
`part` (`ListenersSettle` is `SelectionSettles` of SocialSignals), since a component
at rest takes no step.  Fairness is asserted of disjunctions of steps of different
parts; as `part` is constant, it is the fairness of the step of the part at hand.

### Seeded faults

Operators whose comment starts with "Fault" are no part of the specifications.
Each is a plausible bug in the definition that follows it; put in its place, it
makes the property it is paired with in `PROJECT.json` fail.  That is how each
property is known to say something about the code.

## 3. What is checked

| Run | Instance | Shows |
|---|---|---|
| `lifecycle_safety` | one HyperCore order, two handlers that race for it, one restart, every error, the operator; two requests for live tests; two buys against the limits; two HyperCore trades | one submission, one lot, "confirmed and reconciled" means booked, a failed verdict halts, `OrderLedger` is implemented; a passed test was traded; only the buys met in between lead over a limit; a close never reverses the position, and a purchase made alone is measured right |
| `watcher_safety` | two processes, two watcher slots, two blocks, one process that ends; Solana with two transactions and two sockets; HyperCore with three wallets, two to a socket; two endpoints, two calls; two callers of the Info API, three bodies | no orphaned watcher, the cursor covers what it passed; the replay is complete; what has settled is subscribed; who gives up has tried; answers are current |
| `trade_signals` | four transactions of three wallets, one wallet twice, one restart; two chats, two requests, two clients; three mentions of a token | one buy at a time, stages booked once, counted wallets stay, without restarts a stage given out is ended; the wanted selection is installed; one opinion within the cooldown |
| `trading_services` | a sale and a purchase of one token on each kind of network; searches up to 9 with three turns, six blocks; one order through the checks; two paper operations; two handlers of lots | quantities measured right, one swap unless an answer was lost, references stored; the largest minimum is found, and the pool unless it is far or a call fails; what is bought while the settings ask for an exit could be sold; paper cash, holdings, lots and shadow account match the trades; the lots a passed reconciliation compared are covered, together on EVM and Solana, each alone on HyperCore |
| `operator_services` | one position, three updates, three actions, one restart; an event of two messages with publisher and flush, one restart | one order per confirmation and position, as confirmed; sent means complete; rows and updates are worked off |
| `liveness` | one Solana order, one handler, one restart, no operator; two processes with a slot each, no blocks | "submitting" ends, an accounted fill gets a verdict; the process without the lease stops, a wanted chain is watched again |
| `reconciliation_keeps_operator_halt`, `fill_never_forgotten`, `pending_has_buyer`, `stop_is_final`, `cursor_loses_nothing`, `selected_chats_are_heard` | minimal instances | six disagreements between the code and what it says of itself; section 5 |

### Bounds

* One order suffices for a property of each order alone: orders share only the
  breaker and the recovery loop.  Two handlers are the fewest that race; a third
  can only do what the second does, since a claim excludes all others.  Several
  orders and restarts are covered by the proofs.
* HyperCore is the network of the safety run because its rejections are final
  answers and its reference precedes the order, the richest case; liveness uses
  Solana, whose answers may stay open.
* One restart separates any two steps, and what the second life does with what
  the first one left is in the run.
* Three wallets reach the second stage of the consensus, where a stage needs
  more than one wallet; the fourth transaction repeats a wallet.
* `BatchSize` and `MaxReplay` of 1 with two blocks give polls that skip blocks older
  than the window; two slots give a stopped watcher that still awaits beside the
  new one; a `MaxLag` of 1 lets the stall check hold and not hold.
  `watcher_safety` restricts the second process to a monitor that may take the
  lease (`MonitorNext`); the proofs and `liveness` use the unrestricted steps.
* A page of one signature and two pages make the Solana replay page; the cap on
  pages is not reached with two transactions.  Two wallets to a socket make three
  wallets take two sockets.
* Amounts are small whole numbers: enough that a sale can meet a part of a lot,
  money can be too little, and a limit can be met and missed.  `MaxTrades`,
  `MaxChanges`, `MaxClients`, `MaxTime`, `MaxMet`, `MaxOutside`, `MaxReads`, `MaxVersion`, `MaxCalls`,
  `MaxActions`, `MaxUpdates`, `MaxEnds` and the like stop counters that the program lets
  grow; each is commented where it is declared.  `MaxChanges` of QuoteRouting counts
  the changes of the market and of the setting together.
* Nine as the largest return and three turns let a search end with and without
  the range closed; six blocks with windows of one and chunks of two have pools
  on every edge.
* Deadlock is not looked for where the model stops at a bound or the system may
  rest (all work done).

Symmetry is used over handlers, watcher slots and interchangeable operations, in
runs without liveness only.

### Fairness, and why the code justifies it

* The tick is a `setInterval` of 60 s that reconciles again whatever happened
  before; `SF` on the checks, because a check may be overtaken by another one
  again and again.  A call to a network returns or times out: the clients are
  built with timeouts, and the recovery covers the age of a row, so `TimePasses`
  is weakly fair.  `Booking` has no await in it.
* The operator is never fair: `Unattended` leaves halts and manual requests out,
  for a halt asked again for ever may keep the tick from its end.  Nor is a venue:
  no liveness property depends on an order being decided.
* A copy task's steps are strongly fair: it only awaits calls that time out.
* In ChainWatcher a start is strongly fair: the health check succeeds infinitely
  often if it is tried infinitely often.  `Boot` is an assumption about the
  environment: somebody starts the process again and opens its panel, which
  builds the orchestrator.  `LeaseExpires` is weakly fair only when the holder is
  gone: a living holder may renew for ever.
* The heartbeat flushes the outbox every 30 s, the time of the next attempt
  comes, and a call to Telegram ends; that it succeeds is not assumed:
  `OutboxDrains` also counts a dead letter as an end.
* The Telegram poll is started again after every poll (`WF` on its steps), and
  Telegram can be reached again and again (`SF` on `FetchReturns`); the owner, the
  clock and failing replies are not fair.
* The dashboard ensures the social session again and again (`WF` on `Ensure` and
  `Service`); a connection that is tried infinitely often succeeds infinitely often, and
  so do the dialogs it awaits (`SF` on `ConnectSucceeds` and `Install`).  The bound on
  changes of the settings is what "leaves the settings alone" means in
  `SelectionSettles`.

## 4. What is proved

Every invariant and every action property of the passing runs, and the refinement
of `OrderLedger`, is a theorem of its component's specification, for all values of the
constants that satisfy the component's assumption (`ConstantsAssumption` of
ExecutionLifecycle, `ConsensusAssumption`, `WatcherAssumption`, `FeedAssumption`,
`HypercoreAssumption`, `PoolAssumption`, `InfoAssumption`, `CertificationAssumption`,
`OrdersAssumption`, `LimitsAssumption`, `SwapAssumption`, `SearchAssumption`,
`RoutingAssumption`, `PaperAssumption`, `LotsAssumption`, `OutboxAssumption`,
`TelegramAssumption`, `SocialAssumption`).  They say that names are distinct, that bounds
are natural numbers and what is divided or counted down is positive, that
percentages lie between 0 and 100, and that wallets, assets, handlers and endpoints
are finitely many: they are rows, requests and entries of a setting.  TLC evaluates
each assumption on the instances of the runs.

Each proof follows one pattern: an inductive invariant that strengthens the
property, its initial states, one step per action, and the conclusion by temporal logic.

**ExecutionLifecycleProofs** (`IInv`, `HaltInv`): `TypeCorrect`, `Safety`,
`SubmittedOnce`, `BookedOnce`, `AppliedIsBooked`, `PassedIsBooked`, and `Refinement`,
that the lifecycle implements `OrderLedger`.  `ReconciledMeansBooked` alone is not
inductive: a verdict is reached after awaits, so `CallInv` says what a suspended check
knows (that the lot it saw is there), `HandlerInv` what a suspended handler implies about
the network, `OrderInv` ties the counts to the network, and `VerdictInv` says that a
passed verdict has a lot or no fill.  `FailureHalts`: a verdict that becomes "failed"
halts trading in the same step.  `recordExecutionFailure` would fail the verdict of a
row that says "submitting" and halt nothing, so `HaltInv` bounds who can meet such a
row: it says so only while its own handler is between `runLiveSubmission` and the
reference, and the recovery loop never writes that status back to a row it checks.

**CopyConsensusProofs**: `OneBuy`, `StageOnce`, `WalletStays` from `IInv`: `StageInv`
says that a task given a stage holds the pending one, and `BookedInv` that a booked stage
is copied or pending and that its wallet does not buy again, which is what survives a
crash between the lot and the end of the stage.  `OneOpinionEach` of SocialSignals from
`OpinionInv`: a candidate is chosen against the opinions of the time its batch began, and
while the batch waits no other opinion is stored and no stored signal gets younger.

**ChainProofs**, five components that watch the chains:

* ChainWatcher: `TypeCorrect`, `Safety`, `NoOrphan`, `Covers`.  `StartInv` (a process
  that is starting the chain has no watcher, as nothing but a start installs one and
  a start is never entered twice) makes `NoOrphanWatcher` inductive; `RangeInv` (what is
  before a watcher's next range is covered, and the range up to its batch) makes
  `CursorCovers` inductive.
* HypercoreInfo: `InfoAnswersAreCurrent` (`InfoInv`): no request and no caller is ahead
  of the exchange, and what is cached is as new as its time to live says.
* HypercoreFeed: `FeedIsSubscribed` (`SyncInv`): the target is empty while a
  synchronization runs, and the wallets it has been through are subscribed or were lost
  since.
* EvmRpcPool: `EndpointsWereTried` (`PoolInv`): an endpoint that knows the method has
  been asked, was spared, or is still to be asked.  The proof also shows that the order by
  cooldown exists, for any number of endpoints, by counting how many come before each.
* SolanaFeed: `FeedSettles`, `ReplaysAreComplete` (`FeedInv`): the current socket was
  opened for the list of the last comparison and has asked for it; what a replay owes is
  handed over, found, waived, or ahead of the cursor of a wallet still to be listed.
  That the pages reach such a transaction is a count of the newer ones.

**LiveTradingProofs**: `PassedWasAlwaysTraded` (`CertInv`: lots and tests that sell exist
only where one that buys was traded, and what a suspended request knows of the lots it
looked at); `AlwaysReduces`, `AloneIsMeasured`, `FilledCanBeFound` (`OrdersInv`: what a
trade has recorded at each step, and that what was read before and after encloses its
own order when it is alone); `OverByOthersOnly` (`LimitsInv`: a buy under way, with what
it will pay and less what others booked since its check, is within the limits it was
held to).

**TradeExecutionProofs**:

* QuoteSearch: `LargestIsFound`, `NoNearPoolIsMissed` (`SearchInv`): below the range is
  paid or too old, above it refused or young enough, and the blocks the scan has
  passed do not hold the event.  When a call of the search failed (`missed`), the minimum is
  still one that is paid, but need not be the largest, and a pool may be given up.
* SwapExecution: `SubmissionsAreRecorded`, `OneSwapEach`, `DifferenceIsOwn` (`SwapInv`).
  What is measured is the difference of two states of the account, so the invariant says
  which states they are and that the token moves only where a swap is: states with no
  swap between them show one balance, however far the nodes lag.
* QuoteRouting: `BoughtCouldBeSoldThen` (`RoutingInv`): from the use of a remembered
  verdict on, the order's quote ages with the clock, so that its age bounds how long ago
  the token could be sold.  It speaks of orders whose settings asked for a verified exit
  when they began; the setting may change any number of times beside them.

**BooksProofs**: `CashAlwaysMatches`, `HeldAlwaysMatches` (paper), `BooksAlwaysMatch`,
`LotsStayCovered` (execution lots).

* `CashInv`: an operation which waits keeps a balance that was not negative and, when it
  buys, an amount that is a number, so that cutting off negative balances never
  changes one.
* `HeldInv`: a sale asks for no more than the lots it read hold, and they are still
  there; then it takes its whole quantity and no more (`SaleTakesAll`, a fact about sums).
* `LotsInv`: the same for the execution lots, and what the reconciliation may take.
  `FundsInv` says what the wallet holds at least: all that was booked, what is filled
  and not booked yet, less what left.  `ReadersInv` says that what a suspended
  reconciliation has read is still accounted for by the balance, or another one
  has reduced the oldest of these lots meanwhile, so that taking anything writes a stale lot.
  `ComparedAreHeld` is what a passed one leaves behind: the sum of what it compared, or
  on HyperCore each lot of it, is within the wallet.

**OperatorServicesProofs**: `SentWasComplete` (`OutboxInv`: a delivery at message `n` has
itself sent the ones before it, whoever else sends the same row); `OrderedOnce`,
`OrdersWereConfirmed` (`TelegramInv`: nothing was ordered for an action that waits; the
first click ends its waiting for good, as an identifier is handed out once).

**SumTheorems** holds what these proofs need of `SumFunctionOnSet` of the community
modules: that its recursion has a solution whatever order it takes the elements in,
that sums split, grow and shrink with their terms, and what is left when a quantity is
taken from terms in order (`SumUsedUp`, `SumAfterUse`).  They are facts about sums, not
about this program, and are not listed as results.  The library's induction theorems
take an operator as parameter and cannot be used here; an argument by induction is
therefore one about a smallest counterexample (`SmallestSet`, `SmallestNumber`).

Model-checked only:

* liveness and what needs ENABLED, which the prover does not treat:
  `SubmittingResolves`, `AccountedGetsVerdict`, `PendingResolves`, `LoserStops`,
  `WantedGetsWatched`, `SelectionSettles`, `OutboxDrains`, `UpdatesAreConsumed`;
* the six disagreements of section 5, which TLC shows by a counterexample;
* that the components of one run share no state: the theorems are about each
  component's own specification.

## 5. What the code does otherwise than it says

Each is a run that TLC finds violated; `findings` in `PROJECT.json` quotes the text
it disagrees with.

1. A failing reconciliation overwrites the reason of an operator's halt, and the next
   successful one lifts it (`live-certification.ts:104`, `bot-orchestrator.ts:78`).
2. An order whose reply is lost can be filled while its attempt ends as "failed"
   with reconciliation "pending", which no list shows
   (`execution-lifecycle.ts:51` and the caller's catch).
3. A restart during a buy leaves `pending_stage` set, and the asset is not bought
   again.
4. A chain stopped while its start awaits the health check runs afterwards.
5. A watcher stopped in the middle of a batch stores a cursor past the rest of it.
6. A Telegram client that is replaced leaves its handler behind, and the session is
   connected but hears nothing (`telegram-user-signal-service.ts:186`).

Other behaviours met while modelling, which no text of the repository plainly
forbids, so that no run states them:

* the recovery writes back the status it listed before awaiting, so that a row
  its handler confirmed meanwhile reads "submitted" until the next tick; when the
  row a check was about changes meanwhile, the verdict is the later one;
* the automatic reset after health checks tests the breaker before them and
  resets after them, so that a halt in between is lifted;
* a reverted EVM swap stays submitted, and each tick fails its reconciliation;
* a copied buy that throws releases its stage even when its outcome is unknown, and
  the order may still be filled (`ExecutionFails` after `Fill`);
* the properties with an exception say where the code gives way: a stale balance
  written over a trade (`CashMatchesTrades`, `BooksMatchTrades`), buys that pass a limit
  together (`OverLimitByOthersOnly`), concurrent swaps measured together
  (`MeasuredAlone`, `SpotMeasuredAlone`), a live transaction that overtakes a Solana
  replay (`ReplayIsComplete`), a second Solana transaction after a lost answer
  (`OneSwapUnlessLost`), and an opinion asked again when the signal of the first one
  was old (`OneOpinionUnlessOld`; the title at `tests/social-ai-policy.test.ts:57` has
  no older signal in its test);
* a HyperCore reconciliation passes though the lots together exceed the position, as
  long as none of them does alone (`live-certification.ts:275`), so that
  `LotsAreCovered` says no more there;
* with `requireVerifiedExitRoute` switched off a young market is bought with no way
  out known (`asset-execution-policy.ts:84`); `BoughtCouldBeSold` is about the others;
* a call that fails while a Robinhood pool's event is looked for makes the pool count as
  not found, however near the event is (`robinhood-v4-execution.ts:440`);
* outside the properties: lots on both sides of one HyperCore coin net into one
  position; a list of markets that could not be renewed is kept while the quote
  is dated now; polls for the fee of a fill repeat an empty answer kept for 15 s;
  a signal stored as detected is not taken up again after a restart; a remembered
  pool that no longer quotes is asked until it expires; the native balance after a
  sale on EVM is read once; a Telegram client keeps listening after the session is
  disabled.

## 6. What is not modelled

* Wallet states and activity limits: single-statement updates, the automatic
  pause included, made without an await before a transaction is handled; a refused
  wallet is a rejection in CopyConsensus.
* Discovery and scoring: floating-point heuristics over provider data.
* Credentials, administration, migrations, backups, reports: I/O.
* The panel and `live-readiness.ts`: presentation of rows the modules have.
* Market data clients other than the HyperCore Info API: stateless calls whose
  answers are nondeterministic here.
* The AI's advice itself, which gates no order; its budget is in SocialSignals.
* Within the modelled parts: prices, fees in detail, slippage arithmetic, calldata,
  signatures, the parsing of transactions and fills, the sizing of trades below
  the limits, the wording of messages, the profit figures of lots.  Where a check
  compares such data, it may pass or refuse.
* The change of mode while a handler is under way; the runtime sessions and the
  shadow soak.

SQLite is taken to be atomic per statement (and per transaction where the code
opens one) and never to fail.

## 7. How the project grew, and what is left

The lifecycle of live orders came first, then what gives orders out (consensus)
and what feeds it (watchers), then their proofs.  On that followed the books
(lots, paper), the adapters, quotes and limits, and the operator's side, and then the
theorems about all of them.  Worth adding next: a composition of ChainWatcher and
CopyConsensus from block to stage; type correctness as a theorem where only the
part an invariant needs is stated; sharing of one account between HyperCore lots on
both sides.
