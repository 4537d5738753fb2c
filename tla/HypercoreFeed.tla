----------------------------- MODULE HypercoreFeed -----------------------------
(***************************************************************************)
(* One watcher of HyperCore (HypercoreAdapter.startWatching): every ten    *)
(* seconds the subscriptions are compared with the tracked wallets and, if *)
(* they differ or one has failed, all sockets are closed and opened again, *)
(* PerSocket wallets to a socket, one wallet after the other.              *)
(*                                                                         *)
(* Left out: the fills themselves, and how often failures are reported.    *)
(* The sockets reconnect and renew their subscriptions by themselves (the  *)
(* library does); what the code sees are the ones that cannot.             *)
(***************************************************************************)
EXTENDS Naturals, FiniteSets

CONSTANTS
  Wallet,      \* the wallets, as numbers in the order of their addresses
  Tracked,     \* the lists the operator switches between
  PerSocket,   \* HYPERCORE_USERS_PER_SOCKET (10)
  MaxSwitches, \* bound of the changes of the list
  MaxFailures  \* bound of the subscriptions that fail

ASSUME HypercoreAssumption ==
  /\ Wallet \subseteq Nat /\ \A ws \in Tracked : ws \subseteq Wallet
  /\ PerSocket \in Nat \ {0} /\ {MaxSwitches, MaxFailures} \subseteq Nat

VARIABLES
  running,  \* active
  tracked,  \* trackedAddresses()
  switches,
  missed,   \* replayMissedFills
  sync,     \* synchronizeSubscriptions; syncing unless its pc is "idle"
  target,   \* targetFingerprint; {} is the empty string
  open,     \* shards: the groups of wallets that have a socket
  subscribed, \* the wallets whose subscription is up
  failures,
  lost   \* history: wallets that failed while the synchronization ran

subscriptionVars == <<running, tracked, switches, missed, sync, target, open, subscribed, failures, lost>>

NoSync == [pc |-> "idle", list |-> {}, left |-> {}, group |-> {}]
world == <<running, tracked, switches>>

SubscriptionsInit ==
  /\ running = TRUE /\ tracked \in Tracked /\ switches = 0
  /\ missed = "fetching"
  /\ sync = NoSync /\ target = {}
  /\ open = {} /\ subscribed = {} /\ failures = 0 /\ lost = {}

Syncing == sync.pc # "idle"

\* shardHypercoreAddresses: the group of w when the wallets ws are divided.
Rank(ws, w) == Cardinality({v \in ws : v < w})
Group(ws, w) == {v \in ws : Rank(ws, v) \div PerSocket = Rank(ws, w) \div PerSocket}

-----------------------------------------------------------------------------
(* synchronizeSubscriptions                                                 *)

\* Called every ten seconds, and when the replay is over.
MustSync == running /\ ~Syncing /\ tracked # target
Begin ==
  /\ sync' = [NoSync EXCEPT !.pc = "closing", !.list = tracked, !.left = tracked]
  /\ target' = {}
  /\ UNCHANGED <<open, subscribed, failures, lost>>

SyncTimer == MustSync /\ Begin /\ UNCHANGED <<world, missed>>

\* The fills since the stored cursor are handed over, once, at the start; the
\* timer does not wait for them.
MissedHandled ==
  /\ missed = "fetching" /\ missed' = "handing"
  /\ UNCHANGED <<world, sync, target, open, subscribed, failures, lost>>

MissedEnds ==
  /\ missed \in {"fetching", "handing"} /\ missed' = "done"
  /\ IF MustSync THEN Begin ELSE UNCHANGED <<sync, target, open, subscribed, failures, lost>>
  /\ UNCHANGED world

ShardsClosed ==
  /\ sync.pc = "closing"
  /\ open' = {} /\ subscribed' = {} /\ lost' = {}
  /\ sync' = [sync EXCEPT !.pc = "next"]
  /\ UNCHANGED <<world, missed, target, failures>>

OpenNext ==
  /\ \E w \in sync.left :
       LET group == Group(sync.list, w)
       IN /\ \A v \in sync.left : w <= v
          /\ open' = open \cup {group}
          /\ sync' = [sync EXCEPT !.pc = "subscribing", !.group = group]
  /\ UNCHANGED <<world, missed, target, subscribed, failures, lost>>

OpenSocket == sync.pc = "next" /\ running /\ OpenNext

\* The watcher was stopped: the rest is not opened.
SyncStopped ==
  /\ sync.pc = "next" /\ ~running /\ sync.left # {}
  /\ sync' = NoSync
  /\ UNCHANGED <<world, missed, target, open, subscribed, failures, lost>>

Subscribe ==
  /\ sync.pc = "subscribing" /\ sync.group \in open
  /\ \E w \in sync.group \intersect sync.left :
       LET rest == [sync EXCEPT !.left = @ \ {w}]
       IN /\ \A v \in sync.group \intersect sync.left : w <= v
          /\ subscribed' = subscribed \cup {w}
          /\ sync' = IF sync.group \intersect rest.left = {}
                     THEN [rest EXCEPT !.pc = "next", !.group = {}] ELSE rest
  /\ UNCHANGED <<world, missed, target, open, failures, lost>>

\* The list that was read at the start is what is compared from now on.
SyncEnds ==
  /\ sync.pc = "next" /\ sync.left = {}
  /\ target' = sync.list /\ sync' = NoSync
  /\ UNCHANGED <<world, missed, open, subscribed, failures, lost>>

\* The socket is not ready in time, or a subscription is refused.
SyncFails ==
  /\ sync.pc = "subscribing" /\ failures < MaxFailures
  /\ failures' = failures + 1
  /\ sync' = NoSync /\ open' = {} /\ subscribed' = {}
  /\ target' = IF running THEN {} ELSE target
  /\ UNCHANGED <<world, missed, lost>>

\* After a stop: the sockets it closed refuse what is still asked of them.
SyncOfStopped ==
  /\ sync.pc = "subscribing" /\ ~running /\ sync.group \notin open
  /\ sync' = NoSync
  /\ UNCHANGED <<world, missed, target, open, subscribed, failures, lost>>

-----------------------------------------------------------------------------
(* Subscriptions that fail                                                  *)

\* Fault: the failure is counted and reported, but the target kept.
ForgetNothing == target' = target

\* handleRecoverableFailure; the end of a running synchronization undoes it.
ForgetTarget == target' = IF running THEN {} ELSE target

Drop(ws) ==
  /\ failures < MaxFailures /\ failures' = failures + 1
  /\ subscribed' = subscribed \ ws
  /\ lost' = IF Syncing THEN lost \cup ws ELSE lost
  /\ ForgetTarget
  /\ UNCHANGED <<world, missed, sync, open>>

SubscriptionFails == \E w \in subscribed : Drop({w})

\* A socket ends for good, and with it the subscriptions it carries.
SocketTerminates == \E group \in open : Drop(group)

-----------------------------------------------------------------------------
SwitchList ==
  /\ switches < MaxSwitches /\ switches' = switches + 1
  /\ \E next \in Tracked \ {tracked} : tracked' = next
  /\ UNCHANGED <<running, missed, sync, target, open, subscribed, failures, lost>>

StopFeed ==
  /\ running /\ running' = FALSE
  /\ open' = {} /\ subscribed' = {}
  /\ UNCHANGED <<tracked, switches, missed, sync, target, failures, lost>>

SubscriptionsNext ==
  \/ SyncTimer \/ MissedHandled \/ MissedEnds \/ ShardsClosed \/ OpenSocket \/ SyncStopped
  \/ Subscribe \/ SyncEnds \/ SyncFails \/ SyncOfStopped
  \/ SubscriptionFails \/ SocketTerminates \/ SwitchList \/ StopFeed

SubscriptionsSpec == SubscriptionsInit /\ [][SubscriptionsNext]_subscriptionVars

-----------------------------------------------------------------------------
(* Properties                                                               *)

\* The closure's variables hold what the code keeps in them.
SubscriptionsTypeOK ==
  /\ running \in BOOLEAN /\ tracked \in Tracked
  /\ sync.pc \in {"idle", "closing", "next", "subscribing"}
  /\ target \subseteq Wallet /\ subscribed \subseteq UNION open
  /\ \A group \in open : Cardinality(group) <= PerSocket
  /\ failures \in 0..MaxFailures

\* When the timer finds nothing to do, every tracked wallet is subscribed: a
\* list that changed or a subscription that failed, at whatever moment, is seen
\* by a later comparison.  The one exception is a wallet whose subscription
\* failed while the synchronization that made it was still running: its end
\* stores the target over the reset, and nothing subscribes that wallet again
\* (handleRecoverableFailure and synchronizeSubscriptions in
\* hypercore-adapter.ts).
SettledMeansSubscribed ==
  running /\ ~Syncing /\ target = tracked /\ tracked # {} => tracked \subseteq subscribed \cup lost

===============================================================================
