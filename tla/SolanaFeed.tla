------------------------------ MODULE SolanaFeed ------------------------------
(***************************************************************************)
(* One watcher of Solana (SolanaAdapter.startWatching): a WebSocket that   *)
(* announces the transactions of the tracked wallets, a replay of what was *)
(* missed when the socket is lost, and a timer that reconnects when the    *)
(* list of wallets changes.  The variables of the closure are the          *)
(* variables here; steps are cut where the code awaits or is called back.  *)
(*                                                                         *)
(* What a transaction says is left out: it has an owner and a slot.  The   *)
(* fetch of a transaction may find nothing (three tries), and a call may   *)
(* throw (four tries).                                                     *)
(***************************************************************************)
EXTENDS Integers, Sequences, FiniteSets

CONSTANTS
  Announced,          \* the transactions to come, 1..n in the order of the chain
  Owner,       \* the wallet of each
  Slot,        \* the slot of each; several may share one
  Lists,       \* the lists of wallets the operator switches between
  PageSize,    \* signatures per page of getSignaturesForAddress (100)
  MaxPages,    \* pages read per wallet (5)
  MaxSockets,  \* bound of the sockets opened
  MaxChanges   \* bound of the changes of the list

ASSUME FeedAssumption ==
  /\ Announced = 1..Cardinality(Announced)
  /\ \A t, u \in Announced : t < u => Slot[t] <= Slot[u]
  /\ \A t \in Announced : Slot[t] \in Nat \ {0}
  /\ {PageSize, MaxPages, MaxSockets} \subseteq Nat \ {0} /\ MaxChanges \in Nat

VARIABLES
  watching,    \* active
  list,        \* trackedAddresses(): the wallets the operator has enabled
  changes,
  socket,      \* the socket the closure refers to, NoSocket if none
  sockets,     \* every socket opened
  fingerprint, \* the list the last connect() was for
  timer,       \* reconnectScheduled
  intentional, \* intentionalClose
  replay,      \* replayMissedTransactions
  replayed,      \* lastCursor
  height,      \* how many transactions the chain has
  live,        \* how far the announcement of a transaction has been handled
  handed       \* the transactions handed to the orchestrator while it listens

connection == <<socket, sockets, fingerprint>>
solanaVars == <<watching, list, changes, connection, timer, intentional, replay, replayed, height,
          live, handed>>

NoSocket == 0
NothingReplayed == -1
NoReplay == [pc |-> "idle", base |-> 0, todo |-> {}, found |-> {}, due |-> {}, waived |-> {}]

SolanaInit ==
  /\ watching = TRUE
  /\ list \in Lists /\ changes = 0
  /\ socket = NoSocket /\ sockets = <<>> /\ fingerprint = {}
  /\ timer = FALSE /\ intentional = FALSE
  /\ replay = [NoReplay EXCEPT !.pc = "boot"]
  /\ replayed \in {NothingReplayed, 0}
  /\ height = 0
  /\ live = [t \in Announced |-> "unseen"]
  /\ handed = {}

LaterSlot(a, b) == IF a > b THEN a ELSE b
Replaying == replay.pc \in {"list", "hand"}
On(t) == t <= height
HandOver(ts) == handed' = IF watching THEN handed \cup ts ELSE handed

-----------------------------------------------------------------------------
(* connect                                                                  *)

\* Opens a socket for the list as it is; nothing closes the one before.
ConnectAfter(before) ==
  IF ~watching
  THEN sockets' = before /\ UNCHANGED <<socket, fingerprint>>
  ELSE /\ fingerprint' = list
       /\ IF list = {}
          THEN sockets' = before /\ UNCHANGED socket
          ELSE /\ Len(before) < MaxSockets
               /\ sockets' = Append(before, [state |-> "opening", for |-> list, subs |-> {}])
               /\ socket' = Len(before) + 1

Connect == ConnectAfter(sockets)
Close(s) == [sockets EXCEPT ![s].state = "closing"]
Up(s) == sockets[s].state \in {"opening", "open"}

\* The subscriptions are sent through whatever `socket` refers to by then.
SocketOpens(s) ==
  /\ sockets[s].state = "opening"
  /\ LET opened == [sockets EXCEPT ![s].state = "open"]
     IN sockets' = IF socket # NoSocket /\ opened[socket].state = "open"
                   THEN [opened EXCEPT ![socket].subs = @ \cup sockets[s].for]
                   ELSE opened
  /\ UNCHANGED <<watching, list, changes, socket, fingerprint, timer, intentional, replay,
                 replayed, height, live, handed>>

\* An error, or eight minutes of silence on the current socket.
SocketFails(s) ==
  /\ Up(s)
  /\ sockets' = Close(s)
  /\ UNCHANGED <<watching, list, changes, socket, fingerprint, timer, intentional, replay,
                 replayed, height, live, handed>>

Gone(s) == [sockets EXCEPT ![s] = [state |-> "closed", for |-> {}, subs |-> {}]]

\* The reference is cleared whichever socket it was that closed.
CloseEvent(s) ==
  /\ sockets[s].state # "closed"
  /\ socket' = NoSocket /\ sockets' = Gone(s)
  /\ ~watching \/ timer \/ ~intentional
  /\ timer' = (timer \/ watching)
  /\ UNCHANGED <<watching, list, changes, fingerprint, intentional, replay, replayed, height,
                 live, handed>>

\* A close of our own: connected again at once, without a replay.
CloseEventIntended(s) ==
  /\ sockets[s].state # "closed" /\ watching /\ ~timer /\ intentional
  /\ intentional' = FALSE
  /\ IF list = {}
     THEN socket' = NoSocket /\ sockets' = Gone(s) /\ fingerprint' = list
     ELSE ConnectAfter(Gone(s))
  /\ UNCHANGED <<watching, list, changes, timer, replay, replayed, height, live, handed>>

-----------------------------------------------------------------------------
(* replayMissedTransactions, and connect() when it is over                  *)

\* Nothing to resume from, or a replay under way: connected at once.
ReplayOrConnect(rest) ==
  IF replayed = NothingReplayed \/ Replaying
  THEN replay' = rest /\ Connect
  ELSE /\ replay' = [NoReplay EXCEPT !.pc = "list", !.base = replayed, !.todo = list,
                       !.due = {t \in 1..height : Owner[t] \in list /\ Slot[t] > replayed}]
       /\ UNCHANGED connection

StartWatching ==
  /\ replay.pc = "boot" /\ watching
  /\ ReplayOrConnect(NoReplay)
  /\ UNCHANGED <<watching, list, changes, timer, intentional, replayed, height, live, handed>>

TimerFires ==
  /\ timer /\ watching /\ timer' = FALSE
  /\ ReplayOrConnect(replay)
  /\ UNCHANGED <<watching, list, changes, intentional, replayed, height, live, handed>>

\* The transactions of a, newest first, are read page by page: the k-th page.
Of(a) == {t \in 1..height : Owner[t] = a}
Newer(a, t) == Cardinality({u \in Of(a) : u > t})
Page(a, k) == {t \in Of(a) : Newer(a, t) \in (k - 1) * PageSize..k * PageSize - 1}

\* Fault: a page that has something new is taken for the last one.
PageIsLastIfNew(a, k) ==
  Cardinality(Page(a, k)) < PageSize \/ \E t \in Page(a, k) : Slot[t] > replayed

PageIsLast(a, k) ==
  Cardinality(Page(a, k)) < PageSize \/ \E t \in Page(a, k) : Slot[t] <= replayed

\* getMissedSignatures
Missed(a) ==
  LET read == {k \in 1..MaxPages : \A j \in 1..k - 1 : ~PageIsLast(a, j)}
  IN {t \in UNION {Page(a, k) : k \in read} : Slot[t] > replayed}

\* One wallet's signatures are listed and fetched; some may not be found.  A
\* transaction beyond the last page, or at or before a cursor that live
\* transactions have moved meanwhile, is not among them.
ListMissed(a) ==
  /\ replay.pc = "list" /\ a \in replay.todo
  /\ \E lost \in SUBSET Missed(a) :
       LET beyond == Of(a) \ UNION {Page(a, k) : k \in 1..MaxPages}
       IN replay' = [replay EXCEPT !.todo = @ \ {a}, !.found = @ \cup (Missed(a) \ lost),
                                   !.waived = @ \cup lost \cup beyond]
  /\ UNCHANGED <<watching, list, changes, connection, timer, intentional, replayed, height,
                 live, handed>>

AllListed ==
  /\ replay.pc = "list" /\ replay.todo = {}
  /\ replay' = [replay EXCEPT !.pc = "hand"]
  /\ UNCHANGED <<watching, list, changes, connection, timer, intentional, replayed, height,
                 live, handed>>

\* In the order of the slots, each awaited before the cursor moves.
ReplayNext ==
  /\ replay.pc = "hand"
  /\ \E t \in replay.found :
       /\ \A u \in replay.found : Slot[t] <= Slot[u]
       /\ HandOver({t})
       /\ replayed' = LaterSlot(replayed, Slot[t])
       /\ replay' = [replay EXCEPT !.found = @ \ {t}]
  /\ UNCHANGED <<watching, list, changes, connection, timer, intentional, height, live>>

ReplayEnds ==
  /\ replay.pc = "hand" /\ replay.found = {}
  /\ replay' = NoReplay /\ Connect
  /\ UNCHANGED <<watching, list, changes, timer, intentional, replayed, height, live, handed>>

\* Fault: the connection is made only after a replay that succeeded.
ReplayGivesUp ==
  /\ Replaying
  /\ replay' = NoReplay /\ UNCHANGED connection
  /\ UNCHANGED <<watching, list, changes, timer, intentional, replayed, height, live, handed>>

ReplayFails ==
  /\ Replaying
  /\ replay' = NoReplay /\ Connect
  /\ UNCHANGED <<watching, list, changes, timer, intentional, replayed, height, live, handed>>

-----------------------------------------------------------------------------
(* handleMessage                                                            *)

\* A transaction is confirmed and announced on the sockets that asked for it,
\* unless they are being closed; the first announcement alone is looked at.
Confirm ==
  /\ height + 1 \in Announced
  /\ height' = height + 1
  /\ LET asked == \E s \in DOMAIN sockets :
                    sockets[s].state = "open" /\ Owner[height + 1] \in sockets[s].subs
     IN \/ asked /\ live' = [live EXCEPT ![height + 1] = "fetching"]
        \/ UNCHANGED live
  /\ UNCHANGED <<watching, list, changes, connection, timer, intentional, replay, replayed,
                 handed>>

\* Fetched and handed over; then the cursor moves, past whatever a replay has
\* yet to list.
LiveHandled(t) ==
  /\ live[t] = "fetching"
  /\ live' = [live EXCEPT ![t] = "processed"]
  /\ HandOver({t})
  /\ replayed' = LaterSlot(replayed, Slot[t])
  /\ replay' = IF Replaying
               THEN [replay EXCEPT !.waived = @ \cup {u \in replay.due : Slot[u] <= Slot[t]}]
               ELSE replay
  /\ UNCHANGED <<watching, list, changes, connection, timer, intentional, height>>

\* Not found, or a call throws: nobody asks for it again.
LiveMissed(t) ==
  /\ live[t] = "fetching"
  /\ live' = [live EXCEPT ![t] = "processed"]
  /\ UNCHANGED <<watching, list, changes, connection, timer, intentional, replay, replayed,
                 height, handed>>

-----------------------------------------------------------------------------
(* The list, the timer that looks at it, and the end                        *)

ChangeList ==
  /\ changes < MaxChanges /\ changes' = changes + 1
  /\ \E next \in Lists \ {list} : list' = next
  /\ UNCHANGED <<watching, connection, timer, intentional, replay, replayed, height, live, handed>>

\* Every ten seconds.  The flag is set even if there is no socket to close: the
\* next close is then taken for an intended one.
CheckList ==
  /\ watching /\ list # fingerprint
  /\ intentional' = TRUE
  /\ IF socket = NoSocket THEN Connect
     ELSE sockets' = (IF Up(socket) THEN Close(socket) ELSE sockets) /\ UNCHANGED <<socket, fingerprint>>
  /\ UNCHANGED <<watching, list, changes, timer, replay, replayed, height, live, handed>>

\* A replay under way goes on, and so does a message.
Stop ==
  /\ watching /\ watching' = FALSE /\ timer' = FALSE
  /\ sockets' = IF socket # NoSocket /\ Up(socket) THEN Close(socket) ELSE sockets
  /\ UNCHANGED <<list, changes, socket, fingerprint, intentional, replay, replayed, height, live,
                 handed>>

SolanaNext ==
  \/ StartWatching \/ TimerFires \/ AllListed \/ ReplayNext \/ ReplayEnds \/ ReplayFails
  \/ Confirm \/ ChangeList \/ CheckList \/ Stop
  \/ \E a \in replay.todo : ListMissed(a)
  \/ \E s \in DOMAIN sockets :
       SocketOpens(s) \/ SocketFails(s) \/ CloseEvent(s) \/ CloseEventIntended(s)
  \/ \E t \in Announced : LiveHandled(t) \/ LiveMissed(t)

SolanaSpec == SolanaInit /\ [][SolanaNext]_solanaVars

-----------------------------------------------------------------------------
(* Properties                                                               *)

\* The closure's variables hold what the code keeps in them.
SolanaTypeOK ==
  /\ watching \in BOOLEAN /\ timer \in BOOLEAN /\ intentional \in BOOLEAN
  /\ socket \in 0..Len(sockets) /\ Len(sockets) <= MaxSockets
  /\ replay.pc \in {"boot", "idle", "list", "hand"}
  /\ live \in [Announced -> {"unseen", "fetching", "processed"}]
  /\ handed \subseteq 1..height

\* When a replay of a watcher that runs is over, the transactions its wallets
\* had made since the cursor were handed over, by it or by a socket, however
\* many pages they filled.  Excepted are those that could not be fetched, that
\* lie beyond the last page, and those a live transaction's cursor overtook: a
\* socket the list's timer opened during the replay moves the cursor past the
\* wallets it has yet to list (solana-adapter.ts, replayMissedTransactions).
ReplayIsComplete ==
  watching /\ replay.pc = "hand" /\ replay.found = {}
    => replay.due \subseteq handed \cup replay.waived

\* Whenever no replay and no reconnection is pending and the timer has nothing
\* to change, the current socket is up, or about to be closed and replaced, and
\* once open it is subscribed to every wallet, whatever other sockets opened and
\* closed in between (connect and its listeners in solana-adapter.ts).
SettledIsSubscribed ==
  watching /\ ~timer /\ replay.pc = "idle" /\ fingerprint = list /\ list # {}
    => /\ socket # NoSocket /\ sockets[socket].state # "closed"
       /\ sockets[socket].state = "open" => list \subseteq sockets[socket].subs

===============================================================================
