----------------------------- MODULE ChainWatcher ------------------------------
(***************************************************************************)
(* How NERAXON watches one EVM chain: which process may (the runtime       *)
(* lease), which watcher of the process does (the bot orchestrator's start,*)
(* stop, stall detection and restart), and which blocks the watcher has    *)
(* covered (the chain cursor, from which the next one resumes).            *)
(*                                                                         *)
(* Lease, status and cursor are rows of SQLite, shared by the processes    *)
(* and kept across restarts; watchers, stopHandlers, pendingStarts and the *)
(* tick live in a process.  Steps are cut where the code awaits.           *)
(*                                                                         *)
(* Abstracted: time (a lease expires, a cursor is old, a latency is too    *)
(* high at any moment the clock could make it so) and what becomes of a    *)
(* transaction once its handling has begun (see CopyConsensus).  The mode  *)
(* is live and the chain within its scope.                                 *)
(***************************************************************************)
EXTENDS Integers, FiniteSets

CONSTANTS
  Process,     \* NERAXON processes that share the database
  Watcher,     \* slots for the watchers a process has started and not yet ended
  NoProcess, NoWatcher,
  Tx,          \* transactions of tracked wallets
  BlockOf,     \* the block a transaction is in
  BatchSize,   \* getEvmReplayBatchSize
  MaxReplay,   \* MAX_REPLAY_BLOCKS
  MaxLag,      \* MAX_CURSOR_LAG
  MaxBlock,    \* bound on the head of the chain
  MaxCrashes   \* bound on processes that end

ASSUME WatcherAssumption ==
  /\ NoProcess \notin Process /\ NoWatcher \notin Watcher
  /\ MaxBlock \in Nat /\ BlockOf \in [Tx -> 0..MaxBlock]
  /\ BatchSize \in Nat \ {0} /\ MaxReplay \in Nat \ {0}
  /\ MaxLag \in Nat /\ MaxCrashes \in Nat

VARIABLES
  lease,      \* runtime_leases: who holds it, and whether it has not expired
  status,     \* chains.status
  lastBlock,  \* chains.last_block
  cursor,     \* chain_cursors, NoCursor before the first start
  head,       \* the chain's latest block
  up,         \* the processes that run
  watcher,    \* per process and slot
  current,    \* stopHandlers: the watcher the process can stop
  start,      \* pendingStarts
  tick,       \* reconcileInternal
  handled,    \* history: transactions looked at
  waived,     \* history: older than the first start or than the replay window
  dropped,    \* history: left in the batch of a watcher that was stopped
  crashes

shared == <<lease, status, lastBlock, cursor>>
control == <<current, start, tick>>
covered == <<handled, waived, dropped>>
vars == <<shared, head, up, watcher, control, covered, crashes>>

NoCursor == -1
Off == [pc |-> "off", active |-> FALSE, last |-> 0, end |-> 0, to |-> 0, todo |-> {}]
Statuses == {"stopped", "starting", "running", "error"}

Larger(a, b) == IF a > b THEN a ELSE b
Smaller(a, b) == IF a < b THEN a ELSE b
TxIn(from, to) == {t \in Tx : BlockOf[t] \in from..to}

-----------------------------------------------------------------------------
Init ==
  /\ lease = [holder |-> NoProcess, fresh |-> FALSE]
  /\ status = "stopped" /\ lastBlock = 0 /\ cursor = NoCursor /\ head = 0
  /\ up = {}
  /\ watcher = [p \in Process |-> [w \in Watcher |-> Off]]
  /\ current = [p \in Process |-> NoWatcher]
  /\ start = [p \in Process |-> "none"]
  /\ tick = [p \in Process |-> "idle"]
  /\ handled = {} /\ waived = {} /\ dropped = {}
  /\ crashes = 0

-----------------------------------------------------------------------------
(* claimRuntimeLease, and the effect of a stop handler.                     *)

Claimable(p) == lease.holder \in {p, NoProcess} \/ ~lease.fresh
ClaimLease(p) ==
  /\ Claimable(p)
  /\ lease' = [holder |-> p, fresh |-> TRUE]

Becomes(p, w, r) == watcher' = [watcher EXCEPT ![p][w] = r]

\* Fault: a watcher in the middle of a poll is not stopped.
StoppedIfIdle(r) == IF r.pc = "idle" THEN Off ELSE r

\* stop(): the watcher is inactive from now on; one that awaits something
\* notices later.
Stopped(r) == IF r.pc = "idle" THEN Off ELSE [r EXCEPT !.active = FALSE]
StopCurrent(p) ==
  /\ watcher' = [watcher EXCEPT ![p] =
       [w \in Watcher |-> IF w = current[p] THEN Stopped(@[w]) ELSE @[w]]]
  /\ current' = [current EXCEPT ![p] = NoWatcher]

-----------------------------------------------------------------------------
(* Starting and stopping.                                                   *)

\* start() past its claim of the lease: a start under way is joined, a
\* running watcher kept.
BeginStart(p) ==
  IF start[p] # "none" \/ (status = "running" /\ current[p] # NoWatcher)
    THEN UNCHANGED <<watcher, current, status, start>>
    ELSE /\ StopCurrent(p)
         /\ status' = "starting"
         /\ start' = [start EXCEPT ![p] = "checking"]

OperatorStarts(p) ==
  /\ ClaimLease(p)
  /\ BeginStart(p)
  /\ UNCHANGED <<lastBlock, cursor, head, up, tick, covered, crashes>>

\* The health check succeeds: the new watcher resumes from the cursor, which
\* the first start sets to the head.
StartSucceeds(p, w) ==
  /\ start[p] = "checking" /\ watcher[p][w].pc = "off"
  /\ status' = "running" /\ lastBlock' = head
  /\ cursor' = IF cursor = NoCursor THEN head ELSE cursor
  /\ waived' = waived \cup (IF cursor = NoCursor THEN TxIn(0, head) ELSE {})
  /\ Becomes(p, w, [Off EXCEPT !.pc = "idle", !.active = TRUE, !.last = cursor'])
  /\ current' = [current EXCEPT ![p] = w]
  /\ start' = [start EXCEPT ![p] = "reporting"]
  /\ UNCHANGED <<lease, head, up, tick, handled, dropped, crashes>>

StartFails(p) ==
  /\ start[p] = "checking"
  /\ status' = "error"
  /\ start' = [start EXCEPT ![p] = "reporting"]
  /\ UNCHANGED <<lease, lastBlock, cursor, head, up, watcher, current, tick,
                 covered, crashes>>

\* The event is published and the pending start forgotten.
StartReturns(p) ==
  /\ start[p] = "reporting"
  /\ start' = [start EXCEPT ![p] = "none"]
  /\ UNCHANGED <<shared, head, up, watcher, current, tick, covered, crashes>>

\* stop(), by the chain control route, the emergency stop or Telegram.
OperatorStops(p) ==
  /\ StopCurrent(p)
  /\ status' = "stopped"
  /\ UNCHANGED <<lease, lastBlock, cursor, head, up, start, tick, covered, crashes>>

-----------------------------------------------------------------------------
(* The maintenance tick.                                                    *)

TickStarts(p) ==
  /\ tick[p] = "idle"
  /\ ClaimLease(p)
  /\ tick' = [tick EXCEPT ![p] = "working"]
  /\ UNCHANGED <<status, lastBlock, cursor, head, up, watcher, current, start,
                 covered, crashes>>

\* Fault: the tick only returns.
TickDeposedQuietly(p) ==
  /\ tick[p] = "idle" /\ ~Claimable(p)
  /\ UNCHANGED vars

\* Another process holds the lease: deactivateLocalWatchers.
TickDeposed(p) ==
  /\ tick[p] = "idle" /\ ~Claimable(p)
  /\ StopCurrent(p)
  /\ UNCHANGED <<shared, head, up, start, tick, covered, crashes>>

\* A halt keeps the health checks failing, or a recovery step throws.
TickAborts(p) ==
  /\ tick[p] = "working"
  /\ tick' = [tick EXCEPT ![p] = "idle"]
  /\ UNCHANGED <<shared, head, up, watcher, current, start, covered, crashes>>

\* isEvmCursorStalled of a chain with a watcher.
Stalled(p) ==
  /\ status = "running" /\ current[p] # NoWatcher
  /\ cursor # NoCursor /\ lastBlock - cursor > MaxLag

\* Its watcher is stopped; the event is published.
TickRenews(p) ==
  /\ tick[p] = "working" /\ Stalled(p)
  /\ StopCurrent(p)
  /\ status' = "error"
  /\ tick' = [tick EXCEPT ![p] = "renewing"]
  /\ UNCHANGED <<lease, lastBlock, cursor, head, up, start, covered, crashes>>

\* Fault: a chain that died with its process stays "running".
RecoverableIfFailed(p) == status = "error"

\* A chain in error, or running without a watcher, is started again.
Recoverable(p) == status = "error" \/ (status = "running" /\ current[p] = NoWatcher)
TickRestarts(p) ==
  /\ tick[p] \in {"working", "renewing"} /\ Recoverable(p)
  /\ ClaimLease(p)
  /\ BeginStart(p)
  /\ tick' = [tick EXCEPT ![p] = "restarting"]
  /\ UNCHANGED <<lastBlock, cursor, head, up, covered, crashes>>

TickEnds(p) ==
  /\ \/ tick[p] \in {"working", "renewing"} /\ ~(Recoverable(p) /\ Claimable(p))
     \/ tick[p] = "restarting" /\ start[p] = "none"
  /\ tick' = [tick EXCEPT ![p] = "idle"]
  /\ UNCHANGED <<shared, head, up, watcher, current, start, covered, crashes>>

-----------------------------------------------------------------------------
(* A watcher: the EVM adapter's replay loop and the orchestrator's          *)
(* callbacks.                                                               *)

\* Where the replay loop goes when a poll is done with.
Rest(r) == IF r.active THEN [r EXCEPT !.pc = "idle", !.todo = {}] ELSE Off

\* A new block number n: what is older than the replay window is skipped, and
\* onBlock reports the chain as running.
ReplayFrom(r, n) == IF n - r.last > MaxReplay THEN n - MaxReplay + 1 ELSE r.last + 1
Poll(p, w, n) ==
  LET r == watcher[p][w] IN
  /\ r.pc = "idle" /\ n \in (r.last + 1)..head
  /\ Becomes(p, w, [r EXCEPT !.pc = "ranges", !.last = ReplayFrom(r, n) - 1, !.to = n])
  /\ waived' = waived \cup TxIn(r.last + 1, ReplayFrom(r, n) - 1)
  /\ status' = "running" /\ lastBlock' = n
  /\ UNCHANGED <<lease, cursor, head, up, control, handled, dropped, crashes>>

\* The next range is fetched.
FetchRange(p, w) ==
  LET r == watcher[p][w]
      end == Smaller(r.last + BatchSize, r.to) IN
  /\ r.pc = "ranges" /\ r.active
  /\ Becomes(p, w, [r EXCEPT !.pc = "fetching", !.end = end, !.todo = TxIn(r.last + 1, end)])
  /\ UNCHANGED <<shared, head, up, control, covered, crashes>>

NoticesStop(p, w) ==
  /\ watcher[p][w].pc = "ranges" /\ ~watcher[p][w].active
  /\ Becomes(p, w, Off)
  /\ UNCHANGED <<shared, head, up, control, covered, crashes>>

\* onTransactions of an active watcher renews the lease ...
Deliver(p, w) ==
  LET r == watcher[p][w] IN
  /\ r.pc = "fetching" /\ r.todo # {} /\ r.active
  /\ ClaimLease(p)
  /\ Becomes(p, w, [r EXCEPT !.pc = "handling"])
  /\ UNCHANGED <<status, lastBlock, cursor, head, up, control, covered, crashes>>

\* ... or finds that another process holds it.
Depose(p, w) ==
  LET r == watcher[p][w] IN
  /\ r.pc = "fetching" /\ r.todo # {} /\ r.active
  /\ ~Claimable(p)
  /\ StopCurrent(p)
  /\ UNCHANGED <<shared, head, up, start, tick, covered, crashes>>

\* The next transaction of the batch.
Handle(p, w, t) ==
  LET r == watcher[p][w] IN
  /\ r.pc = "handling" /\ r.active /\ t \in r.todo
  /\ handled' = handled \cup {t}
  /\ Becomes(p, w, [r EXCEPT !.todo = @ \ {t}])
  /\ UNCHANGED <<shared, head, up, control, waived, dropped, crashes>>

\* Fault: the cursor is stored before the batch is handled.
FinishRangeEarly(p, w) ==
  LET r == watcher[p][w] IN
  /\ r.pc \in {"fetching", "handling"}
  /\ cursor' = Larger(cursor, r.end)
  /\ dropped' = IF r.active THEN dropped ELSE dropped \cup r.todo
  /\ Becomes(p, w, IF r.end < r.to
                     THEN [r EXCEPT !.pc = "ranges", !.last = r.end, !.todo = {}]
                     ELSE Rest([r EXCEPT !.last = r.end]))
  /\ UNCHANGED <<lease, status, lastBlock, head, up, control, handled, waived, crashes>>

\* onTransactions has returned, at once if the watcher is no longer active:
\* the range is done and the cursor moves to its end.
FinishRange(p, w) ==
  LET r == watcher[p][w] IN
  /\ r.pc \in {"fetching", "handling"} /\ (r.todo = {} \/ ~r.active)
  /\ cursor' = Larger(cursor, r.end)
  /\ dropped' = dropped \cup r.todo
  /\ Becomes(p, w, IF r.end < r.to
                     THEN [r EXCEPT !.pc = "ranges", !.last = r.end, !.todo = {}]
                     ELSE Rest([r EXCEPT !.last = r.end]))
  /\ UNCHANGED <<lease, status, lastBlock, head, up, control, handled, waived, crashes>>

\* Fetching or handling throws: the next poll tries the range again; onError,
\* unless the watcher was stopped, keeps the chain running.
RangeFails(p, w) ==
  LET r == watcher[p][w] IN
  /\ r.pc \in {"fetching", "handling"}
  /\ Becomes(p, w, Rest(r))
  /\ status' = IF r.active THEN "running" ELSE status
  /\ UNCHANGED <<lease, lastBlock, cursor, head, up, control, covered, crashes>>

\* An error of the watcher or of the block number poll, at any time: the chain
\* goes on running ...
MonitorError(p) ==
  /\ current[p] # NoWatcher
  /\ status' = "running"
  /\ UNCHANGED <<lease, lastBlock, cursor, head, up, watcher, control, covered, crashes>>

\* ... or, after too many errors or slow answers, its watcher is stopped.
Trip(p) ==
  /\ current[p] # NoWatcher
  /\ StopCurrent(p)
  /\ status' = "error"
  /\ UNCHANGED <<lease, lastBlock, cursor, head, up, start, tick, covered, crashes>>

-----------------------------------------------------------------------------
(* The chain, the clock and the processes.                                  *)

NewBlock ==
  /\ head < MaxBlock /\ head' = head + 1
  /\ UNCHANGED <<shared, up, watcher, control, covered, crashes>>

\* Two minutes without a claim by the holder.
LeaseExpires ==
  /\ lease.fresh
  /\ lease' = [lease EXCEPT !.fresh = FALSE]
  /\ UNCHANGED <<status, lastBlock, cursor, head, up, watcher, control, covered, crashes>>

\* The runtime monitor's timer.
Heartbeat(p) ==
  /\ ClaimLease(p)
  /\ UNCHANGED <<status, lastBlock, cursor, head, up, watcher, control, covered, crashes>>

\* A process opens the database, which ends starts that were interrupted.
Boot(p) ==
  /\ p \notin up
  /\ up' = up \cup {p}
  /\ status' = IF status = "starting" THEN "stopped" ELSE status
  /\ UNCHANGED <<lease, lastBlock, cursor, head, watcher, control, covered, crashes>>

\* A process dies, or exits and releases the lease.
Ends(p) ==
  /\ crashes < MaxCrashes /\ crashes' = crashes + 1
  /\ up' = up \ {p}
  /\ \/ lease' = lease
     \/ lease.holder = p /\ lease' = [holder |-> NoProcess, fresh |-> FALSE]
  /\ watcher' = [watcher EXCEPT ![p] = [w \in Watcher |-> Off]]
  /\ current' = [current EXCEPT ![p] = NoWatcher]
  /\ start' = [start EXCEPT ![p] = "none"]
  /\ tick' = [tick EXCEPT ![p] = "idle"]
  /\ UNCHANGED <<status, lastBlock, cursor, head, covered>>

-----------------------------------------------------------------------------
ControlStep(p) ==
  \/ OperatorStarts(p) \/ OperatorStops(p) \/ Heartbeat(p)
  \/ \E w \in Watcher : StartSucceeds(p, w)
  \/ StartFails(p) \/ StartReturns(p) \/ MonitorError(p) \/ Trip(p)

TickStep(p) ==
  \/ TickStarts(p) \/ TickDeposed(p) \/ TickAborts(p)
  \/ TickRenews(p) \/ TickRestarts(p) \/ TickEnds(p)

WatchStep(p, w) ==
  \/ \E n \in 1..MaxBlock : Poll(p, w, n)
  \/ FetchRange(p, w) \/ NoticesStop(p, w) \/ Deliver(p, w) \/ Depose(p, w)
  \/ \E t \in Tx : Handle(p, w, t)
  \/ FinishRange(p, w) \/ RangeFails(p, w)

WorldStep == NewBlock \/ LeaseExpires \/ \E p \in Process : Boot(p)
ProcessStep(p) ==
  Ends(p) \/ ControlStep(p) \/ TickStep(p) \/ \E w \in Watcher : WatchStep(p, w)

Next == WorldStep \/ \E p \in up : ProcessStep(p)

Spec == Init /\ [][Next]_vars

\* The clock advances, timers fire, a process is started again, and calls
\* return: the network's answers are good ones infinitely often.
Fairness ==
  /\ WF_vars(LeaseExpires /\ lease.holder \notin up)
  /\ \A p \in Process :
       /\ WF_vars(Boot(p))
       /\ \A w \in Watcher : SF_vars(p \in up /\ StartSucceeds(p, w))
       /\ WF_vars(p \in up /\ StartReturns(p))
       /\ SF_vars(p \in up /\ (TickStarts(p) \/ TickDeposed(p)))
       /\ SF_vars(p \in up /\ TickRestarts(p))
       /\ WF_vars(p \in up /\ TickEnds(p))
       /\ \A w \in Watcher :
            /\ WF_vars(p \in up /\ (FetchRange(p, w) \/ NoticesStop(p, w)))
            /\ SF_vars(p \in up /\ FinishRange(p, w))

FairSpec == Spec /\ Fairness

-----------------------------------------------------------------------------
(* Properties                                                               *)

WatcherState ==
  [pc : {"off", "idle", "ranges", "fetching", "handling"}, active : BOOLEAN,
   last : Int, end : Int, to : Int, todo : SUBSET Tx]

\* Every variable stays in the values the code can give it.
TypeOK ==
  /\ lease \in [holder : Process \cup {NoProcess}, fresh : BOOLEAN]
  /\ status \in Statuses
  /\ lastBlock \in Nat /\ cursor \in Int /\ head \in 0..MaxBlock
  /\ up \subseteq Process
  /\ watcher \in [Process -> [Watcher -> WatcherState]]
  /\ current \in [Process -> Watcher \cup {NoWatcher}]
  /\ start \in [Process -> {"none", "checking", "reporting"}]
  /\ tick \in [Process -> {"idle", "working", "renewing", "restarting"}]
  /\ handled \subseteq Tx /\ waived \subseteq Tx /\ dropped \subseteq Tx
  /\ crashes \in 0..MaxCrashes

Watching(p) == \E w \in Watcher : watcher[p][w].active

\* The active watcher of a process is the one its stopHandlers knows: there is
\* never a second one, and none that stop(), the stall check or the loss of
\* the lease cannot reach, however starts, stops and errors interleave.
NoOrphanWatcher ==
  \A p \in Process, w \in Watcher : watcher[p][w].active <=> current[p] = w

\* What the cursor leaves behind was looked at, or is older than the first
\* start or the replay window, or was in the batch of a watcher that was
\* stopped: no crash, failure or restart between a fetch and the cursor's
\* write skips a block.
Covered(n) == \A t \in Tx : BlockOf[t] <= n => t \in handled \cup waived \cup dropped
CursorCovers == Covered(cursor)

\* The invariant behind NoOrphanWatcher and CursorCovers: a process that is
\* starting the chain has no watcher, and a watcher has covered what is before
\* its next range, the range itself up to its batch.
StartInv == \A p \in Process : start[p] = "checking" => current[p] = NoWatcher
RecordInv(r) ==
  r.pc # "off" =>
    /\ Covered(r.last)
    /\ r.pc \in {"fetching", "handling"} =>
         TxIn(r.last + 1, r.end) \subseteq handled \cup r.todo
RangeInv == \A p \in Process, w \in Watcher : RecordInv(watcher[p][w])
IInv == TypeOK /\ NoOrphanWatcher /\ StartInv /\ CursorCovers /\ RangeInv

\* A process that finds the lease with another stops watching, even when a
\* start that was under way installs a watcher afterwards.
LoserStops ==
  \A p, q \in Process : p # q /\ lease.holder = q /\ lease.fresh /\ Watching(p)
    ~> ~Watching(p) \/ lease.holder # q \/ ~lease.fresh

\* A chain that is running, or in error, is watched again by some process,
\* whichever of them died or lost the lease, unless it is stopped.
WantedGetsWatched ==
  status \in {"running", "error"} ~> status = "stopped" \/ \E p \in up : Watching(p)

\* "No new transactions will be taken" (the event of stop()): in a single
\* process a stopped chain goes on running only after it is started again.
StopIsFinal == [][status = "stopped" => status' # "running"]_vars

\* "Missed blocks will be scanned again from the stored cursor" (the event of
\* the stall check): the cursor passes no transaction of the replay window
\* that nobody looked at and no active watcher still has before it.
CursorLosesNothing ==
  \A t \in Tx : BlockOf[t] <= cursor =>
    \/ t \in handled \cup waived
    \/ \E p \in Process, w \in Watcher :
         watcher[p][w].active /\ watcher[p][w].last < BlockOf[t]

===============================================================================
