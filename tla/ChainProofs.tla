------------------------------ MODULE ChainProofs ------------------------------
(***************************************************************************)
(* Theorems on what watches the chains.  First the watchers of the EVM     *)
(* chains, for any processes, watcher slots, blocks and transactions:      *)
(* their types, that no watcher is orphaned, and that the cursor covers    *)
(* what it passed.  Then what stands beside them: the client of            *)
(* HyperCore's Info API, the subscriptions on HyperCore, the pool of RPC   *)
(* endpoints and the feed of Solana.                                       *)
(***************************************************************************)
EXTENDS ChainWatcher, SolanaFeed, HypercoreFeed, EvmRpcPool, HypercoreInfo,
        FiniteSetTheorems, TLAPS

USE WatcherAssumption DEF NoCursor

-----------------------------------------------------------------------------
(* The operators that change watchers.                                      *)

\* A watcher is replaced, and no other one touched.
LEMMA BecomesFacts ==
  ASSUME TypeOK, NEW p \in Process, NEW w \in Watcher, NEW r \in WatcherState,
         Becomes(p, w, r)
  PROVE  /\ watcher' \in [Process -> [Watcher -> WatcherState]]
         /\ watcher'[p][w] = r
         /\ \A q \in Process, x \in Watcher :
              q # p \/ x # w => watcher'[q][x] = watcher[q][x]
  BY DEF TypeOK, Becomes

\* What a stop handler makes of its watcher.
LEMMA StoppedFacts ==
  ASSUME NEW r \in WatcherState
  PROVE  /\ Stopped(r) \in WatcherState
         /\ ~Stopped(r).active
         /\ Stopped(r).pc # "off" =>
              /\ Stopped(r).pc = r.pc /\ Stopped(r).last = r.last
              /\ Stopped(r).end = r.end /\ Stopped(r).todo = r.todo
<1>1. Off \in WatcherState /\ ~Off.active /\ Off.pc = "off"
  BY DEF WatcherState, Off
<1>2. CASE r.pc = "idle"
  BY <1>1, <1>2 DEF Stopped
<1>3. CASE r.pc # "idle"
  BY <1>3 DEF Stopped, WatcherState
<1>. QED  BY <1>2, <1>3

\* Stopping the process's current watcher touches no other one.
LEMMA StopFacts ==
  ASSUME TypeOK, NEW p \in Process, StopCurrent(p)
  PROVE  /\ watcher' \in [Process -> [Watcher -> WatcherState]]
         /\ current' \in [Process -> Watcher \cup {NoWatcher}]
         /\ current'[p] = NoWatcher
         /\ \A q \in Process : q # p => current'[q] = current[q]
         /\ \A q \in Process, x \in Watcher :
              watcher'[q][x] = IF q = p /\ x = current[p]
                                 THEN Stopped(watcher[q][x]) ELSE watcher[q][x]
<1>1. \A x \in Watcher : Stopped(watcher[p][x]) \in WatcherState
  BY StoppedFacts DEF TypeOK
<1>. QED  BY <1>1 DEF TypeOK, StopCurrent

-----------------------------------------------------------------------------
(* Types.                                                                   *)

\* The record of a slot without a watcher.
LEMMA OffType == Off \in WatcherState
  BY DEF Off, WatcherState

\* What the steps of a watcher make of its record.
LEMMA RecordTypes ==
  ASSUME NEW r \in WatcherState
  PROVE  /\ Rest(r) \in WatcherState
         /\ \A a, b \in Int : Larger(a, b) \in Int /\ Smaller(a, b) \in Int
         /\ \A n \in Int : ReplayFrom(r, n) \in Int
         /\ \A a, b \in Int : TxIn(a, b) \subseteq Tx
<1>2. [r EXCEPT !.pc = "idle", !.todo = {}] \in WatcherState
  BY DEF WatcherState
<1>3. Rest(r) \in WatcherState
  BY OffType, <1>2 DEF Rest
<1>4. \A n \in Int : ReplayFrom(r, n) \in Int
  BY DEF ReplayFrom, WatcherState
<1>. QED  BY <1>3, <1>4 DEF Larger, Smaller, TxIn

\* The steps of the control of a chain are well typed.
LEMMA ControlTypes ==
  ASSUME TypeOK, NEW p \in Process, ControlStep(p)
  PROVE  TypeOK'
<1>1. CASE OperatorStarts(p)
  <2>1. CASE UNCHANGED <<watcher, current, status, start>>
    BY <1>1, <2>1 DEF OperatorStarts, ClaimLease, TypeOK, covered
  <2>2. CASE ~UNCHANGED <<watcher, current, status, start>>
    BY <1>1, <2>2, StopFacts
       DEF OperatorStarts, BeginStart, ClaimLease, TypeOK, covered, Statuses
  <2>. QED  BY <2>1, <2>2
<1>2. CASE OperatorStops(p)
  BY <1>2, StopFacts DEF OperatorStops, TypeOK, covered, Statuses
<1>3. CASE Heartbeat(p)
  BY <1>3 DEF Heartbeat, ClaimLease, TypeOK, covered, control
<1>4. ASSUME NEW w \in Watcher, StartSucceeds(p, w)  PROVE  TypeOK'
  <2>1. cursor' \in Int /\ waived' \subseteq Tx
    BY <1>4 DEF StartSucceeds, TypeOK, TxIn
  <2>2. \A c \in Int :
          [Off EXCEPT !.pc = "idle", !.active = TRUE, !.last = c] \in WatcherState
    BY OffType DEF WatcherState
  <2>3. watcher' \in [Process -> [Watcher -> WatcherState]]
    BY <1>4, <2>1, <2>2, BecomesFacts DEF StartSucceeds
  <2>4. /\ current' \in [Process -> Watcher \cup {NoWatcher}]
        /\ start' \in [Process -> {"none", "checking", "reporting"}]
    BY <1>4 DEF StartSucceeds, TypeOK
  <2>5. lastBlock' \in Nat
    BY <1>4 DEF StartSucceeds, TypeOK
  <2>. QED  BY <1>4, <2>1, <2>3, <2>4, <2>5 DEF StartSucceeds, TypeOK, Statuses
<1>5. CASE StartFails(p)
  BY <1>5 DEF StartFails, TypeOK, covered, Statuses
<1>6. CASE StartReturns(p)
  BY <1>6 DEF StartReturns, TypeOK, covered, shared
<1>7. CASE MonitorError(p)
  BY <1>7 DEF MonitorError, TypeOK, covered, control, Statuses
<1>8. CASE Trip(p)
  BY <1>8, StopFacts DEF Trip, TypeOK, covered, Statuses
<1>. QED
  BY <1>1, <1>2, <1>3, <1>4, <1>5, <1>6, <1>7, <1>8 DEF ControlStep

\* The steps of the maintenance tick are well typed.
LEMMA TickTypes ==
  ASSUME TypeOK, NEW p \in Process, TickStep(p)
  PROVE  TypeOK'
<1>1. CASE TickStarts(p)
  BY <1>1 DEF TickStarts, ClaimLease, TypeOK, covered
<1>2. CASE TickDeposed(p)
  BY <1>2, StopFacts DEF TickDeposed, TypeOK, covered, shared
<1>3. CASE TickAborts(p)
  BY <1>3 DEF TickAborts, TypeOK, covered, shared
<1>4. CASE TickRenews(p)
  BY <1>4, StopFacts DEF TickRenews, TypeOK, covered, Statuses
<1>5. CASE TickRestarts(p)
  <2>1. CASE UNCHANGED <<watcher, current, status, start>>
    BY <1>5, <2>1 DEF TickRestarts, ClaimLease, TypeOK, covered
  <2>2. CASE ~UNCHANGED <<watcher, current, status, start>>
    <3>1. /\ watcher' \in [Process -> [Watcher -> WatcherState]]
          /\ current' \in [Process -> Watcher \cup {NoWatcher}]
      BY <1>5, <2>2, StopFacts DEF TickRestarts, BeginStart
    <3>2. /\ lease' \in [holder : Process \cup {NoProcess}, fresh : BOOLEAN]
          /\ tick' \in [Process -> {"idle", "working", "renewing", "restarting"}]
          /\ start' \in [Process -> {"none", "checking", "reporting"}]
          /\ status' \in Statuses
      BY <1>5, <2>2 DEF TickRestarts, BeginStart, ClaimLease, TypeOK, Statuses
    <3>. QED  BY <1>5, <3>1, <3>2 DEF TickRestarts, TypeOK, covered
  <2>. QED  BY <2>1, <2>2
<1>6. CASE TickEnds(p)
  BY <1>6 DEF TickEnds, TypeOK, covered, shared
<1>. QED  BY <1>1, <1>2, <1>3, <1>4, <1>5, <1>6 DEF TickStep

\* The steps of a watcher are well typed.
LEMMA WatchTypes ==
  ASSUME TypeOK, NEW p \in Process, NEW w \in Watcher, WatchStep(p, w)
  PROVE  TypeOK'
<1>. DEFINE r == watcher[p][w]
<1>0. r \in WatcherState
  BY DEF TypeOK
<1>. HIDE DEF r
<1>1. ASSUME NEW n \in 1..MaxBlock, Poll(p, w, n)  PROVE  TypeOK'
  <2>. DEFINE last == ReplayFrom(r, n) - 1
  <2>a. last \in Int /\ n \in Int
    BY <1>0, RecordTypes
  <2>1. [r EXCEPT !.pc = "ranges", !.last = last, !.to = n] \in WatcherState
    <3>. HIDE DEF last
    <3>. QED  BY <1>0, <2>a DEF WatcherState
  <2>2. watcher' \in [Process -> [Watcher -> WatcherState]]
    BY <1>1, <2>1, BecomesFacts DEF Poll, r
  <2>3. waived' \subseteq Tx
    BY <1>1 DEF Poll, TypeOK, TxIn
  <2>. QED  BY <1>1, <2>2, <2>3 DEF Poll, TypeOK, control, Statuses
<1>2. CASE FetchRange(p, w)
  <2>. DEFINE end == Smaller(r.last + BatchSize, r.to)
  <2>. DEFINE todo == TxIn(r.last + 1, end)
  <2>a. end \in Int /\ todo \in SUBSET Tx
    BY <1>0 DEF WatcherState, Smaller, TxIn
  <2>1. [r EXCEPT !.pc = "fetching", !.end = end, !.todo = todo] \in WatcherState
    <3>. HIDE DEF end, todo
    <3>. QED  BY <1>0, <2>a DEF WatcherState
  <2>2. watcher' \in [Process -> [Watcher -> WatcherState]]
    BY <1>2, <2>1, BecomesFacts DEF FetchRange, r
  <2>. QED  BY <1>2, <2>2 DEF FetchRange, TypeOK, control, shared, covered
<1>3. CASE NoticesStop(p, w)
  <2>1. watcher' \in [Process -> [Watcher -> WatcherState]]
    BY <1>3, OffType, BecomesFacts DEF NoticesStop
  <2>. QED  BY <1>3, <2>1 DEF NoticesStop, TypeOK, control, shared, covered
<1>4. CASE Deliver(p, w)
  <2>1. [r EXCEPT !.pc = "handling"] \in WatcherState
    BY <1>0 DEF WatcherState
  <2>2. watcher' \in [Process -> [Watcher -> WatcherState]]
    BY <1>4, <2>1, BecomesFacts DEF Deliver, r
  <2>. QED  BY <1>4, <2>2 DEF Deliver, ClaimLease, TypeOK, control, covered
<1>5. CASE Depose(p, w)
  BY <1>5, StopFacts DEF Depose, TypeOK, covered, shared
<1>6. ASSUME NEW t \in Tx, Handle(p, w, t)  PROVE  TypeOK'
  <2>1. [r EXCEPT !.todo = @ \ {t}] \in WatcherState
    BY <1>0 DEF WatcherState
  <2>2. watcher' \in [Process -> [Watcher -> WatcherState]]
    BY <1>6, <2>1, BecomesFacts DEF Handle, r
  <2>. QED  BY <1>6, <2>2 DEF Handle, TypeOK, control, shared
<1>7. CASE FinishRange(p, w)
  <2>. DEFINE n == IF r.end < r.to
                     THEN [r EXCEPT !.pc = "ranges", !.last = r.end, !.todo = {}]
                     ELSE Rest([r EXCEPT !.last = r.end])
  <2>a. [r EXCEPT !.pc = "ranges", !.last = r.end, !.todo = {}] \in WatcherState
    BY <1>0 DEF WatcherState
  <2>b. [r EXCEPT !.last = r.end] \in WatcherState
    BY <1>0 DEF WatcherState
  <2>1. n \in WatcherState
    BY <2>a, <2>b, RecordTypes
  <2>2. watcher' \in [Process -> [Watcher -> WatcherState]]
    BY <1>7, <2>1, BecomesFacts DEF FinishRange, r
  <2>3. cursor' \in Int /\ dropped' \subseteq Tx
    BY <1>7, <1>0 DEF FinishRange, TypeOK, WatcherState, Larger, r
  <2>. QED  BY <1>7, <2>2, <2>3 DEF FinishRange, TypeOK, control
<1>8. CASE RangeFails(p, w)
  <2>1. watcher' \in [Process -> [Watcher -> WatcherState]]
    BY <1>8, <1>0, RecordTypes, BecomesFacts DEF RangeFails, r
  <2>. QED  BY <1>8, <2>1 DEF RangeFails, TypeOK, control, covered, Statuses
<1>. QED
  BY <1>1, <1>2, <1>3, <1>4, <1>5, <1>6, <1>7, <1>8 DEF WatchStep

\* Every step is well typed.
LEMMA TypeStep ==
  ASSUME TypeOK, [Next]_vars
  PROVE  TypeOK'
<1>1. CASE UNCHANGED vars
  BY <1>1 DEF vars, shared, control, covered, TypeOK
<1>2. CASE NewBlock
  BY <1>2 DEF NewBlock, shared, control, covered, TypeOK
<1>3. CASE LeaseExpires
  BY <1>3 DEF LeaseExpires, control, covered, TypeOK
<1>4. ASSUME NEW p \in Process, Boot(p)  PROVE  TypeOK'
  BY <1>4 DEF Boot, control, covered, TypeOK, Statuses
<1>5. ASSUME NEW p \in up, Ends(p)  PROVE  TypeOK'
  <2>1. [w \in Watcher |-> Off] \in [Watcher -> WatcherState]
    BY OffType
  <2>2. watcher' \in [Process -> [Watcher -> WatcherState]]
    BY <1>5, <2>1 DEF Ends, TypeOK
  <2>3. lease' \in [holder : Process \cup {NoProcess}, fresh : BOOLEAN]
    <3>1. CASE lease' = lease
      BY <3>1 DEF TypeOK
    <3>2. CASE lease' = [holder |-> NoProcess, fresh |-> FALSE]
      BY <3>2
    <3>. QED  BY <1>5, <3>1, <3>2 DEF Ends
  <2>4. crashes' \in 0..MaxCrashes
    BY <1>5 DEF Ends, TypeOK
  <2>5. /\ current' \in [Process -> Watcher \cup {NoWatcher}]
        /\ start' \in [Process -> {"none", "checking", "reporting"}]
        /\ tick' \in [Process -> {"idle", "working", "renewing", "restarting"}]
    BY <1>5 DEF Ends, TypeOK
  <2>. QED  BY <1>5, <2>2, <2>3, <2>4, <2>5 DEF Ends, TypeOK, covered
<1>. QED
  BY <1>1, <1>2, <1>3, <1>4, <1>5, ControlTypes, TickTypes, WatchTypes
     DEF Next, WorldStep, ProcessStep, TypeOK

\* The initial state is well typed.
LEMMA TypeInit == Init => TypeOK
  BY DEF Init, TypeOK, Statuses, WatcherState, Off

-----------------------------------------------------------------------------
(* No watcher is orphaned.                                                  *)

\* Steps that leave the watchers alone.
LEMMA SameKnown ==
  ASSUME NoOrphanWatcher, StartInv, UNCHANGED <<watcher, current>>,
         \A q \in Process : start'[q] = "checking" => start[q] = "checking"
  PROVE  NoOrphanWatcher' /\ StartInv'
  BY DEF NoOrphanWatcher, StartInv

\* Steps that stop the process's watcher, to begin a start or for good.
LEMMA StopKnown ==
  ASSUME TypeOK, NoOrphanWatcher, StartInv, NEW p \in Process, StopCurrent(p),
         \A q \in Process : q # p => start'[q] = start[q]
  PROVE  NoOrphanWatcher' /\ StartInv'
<1>1. ASSUME NEW q \in Process, NEW x \in Watcher
      PROVE  watcher'[q][x].active <=> current'[q] = x
  <2>1. CASE q = p /\ x = current[p]
    BY <2>1, StopFacts, StoppedFacts DEF TypeOK
  <2>2. CASE q = p /\ x # current[p]
    BY <2>2, StopFacts DEF NoOrphanWatcher
  <2>3. CASE q # p
    BY <2>3, StopFacts DEF NoOrphanWatcher
  <2>. QED  BY <2>1, <2>2, <2>3
<1>2. StartInv'
  BY StopFacts DEF StartInv
<1>. QED  BY <1>1, <1>2 DEF NoOrphanWatcher

\* Steps of a watcher that neither starts nor stops.
LEMMA TurnKnown ==
  ASSUME TypeOK, NoOrphanWatcher, StartInv, NEW p \in Process, NEW w \in Watcher,
         NEW r, Becomes(p, w, r), r.active = watcher[p][w].active,
         UNCHANGED <<current, start>>
  PROVE  NoOrphanWatcher' /\ StartInv'
<1>1. ASSUME NEW q \in Process, NEW x \in Watcher
      PROVE  watcher'[q][x].active = watcher[q][x].active
  BY DEF Becomes, TypeOK
<1>. QED  BY <1>1 DEF NoOrphanWatcher, StartInv

\* Every step keeps each active watcher known to its process, because a start
\* has stopped the old one before it awaits and nothing installs one meanwhile.
LEMMA OrphanStep ==
  ASSUME TypeOK, NoOrphanWatcher, StartInv, [Next]_vars
  PROVE  NoOrphanWatcher' /\ StartInv'
<1>1. CASE UNCHANGED vars \/ WorldStep
  BY <1>1, SameKnown
     DEF vars, control, WorldStep, NewBlock, LeaseExpires, Boot
<1>2. ASSUME NEW p \in Process, Ends(p)  PROVE  NoOrphanWatcher' /\ StartInv'
  BY <1>2 DEF Ends, NoOrphanWatcher, StartInv, TypeOK, Off
<1>3. ASSUME NEW p \in Process, ControlStep(p)
      PROVE  NoOrphanWatcher' /\ StartInv'
  <2>1. CASE OperatorStarts(p)
    BY <2>1, SameKnown, StopKnown DEF OperatorStarts, BeginStart, TypeOK
  <2>2. CASE OperatorStops(p)
    BY <2>2, StopKnown DEF OperatorStops
  <2>3. CASE Heartbeat(p) \/ StartFails(p) \/ StartReturns(p) \/ MonitorError(p)
    BY <2>3, SameKnown
       DEF Heartbeat, StartFails, StartReturns, MonitorError, control, TypeOK
  <2>4. CASE Trip(p)
    BY <2>4, StopKnown DEF Trip
  <2>5. ASSUME NEW w \in Watcher, StartSucceeds(p, w)
        PROVE  NoOrphanWatcher' /\ StartInv'
    <3>1. /\ watcher'[p][w].active
          /\ \A q \in Process, x \in Watcher :
               q # p \/ x # w => watcher'[q][x] = watcher[q][x]
      BY <2>5 DEF StartSucceeds, Becomes, TypeOK, Off
    <3>2. current[p] = NoWatcher
      BY <2>5 DEF StartSucceeds, StartInv
    <3>3. current' = [current EXCEPT ![p] = w]
      BY <2>5 DEF StartSucceeds
    <3>4. ASSUME NEW q \in Process, NEW x \in Watcher
          PROVE  watcher'[q][x].active <=> current'[q] = x
      BY <3>1, <3>2, <3>3 DEF NoOrphanWatcher, TypeOK
    <3>5. StartInv'
      BY <2>5 DEF StartSucceeds, StartInv, TypeOK
    <3>. QED  BY <3>4, <3>5 DEF NoOrphanWatcher
  <2>. QED  BY <1>3, <2>1, <2>2, <2>3, <2>4, <2>5 DEF ControlStep
<1>4. ASSUME NEW p \in Process, TickStep(p)
      PROVE  NoOrphanWatcher' /\ StartInv'
  <2>1. CASE TickStarts(p) \/ TickAborts(p) \/ TickEnds(p)
    BY <2>1, SameKnown DEF TickStarts, TickAborts, TickEnds
  <2>2. CASE TickDeposed(p) \/ TickRenews(p)
    BY <2>2, StopKnown DEF TickDeposed, TickRenews
  <2>3. CASE TickRestarts(p)
    BY <2>3, SameKnown, StopKnown DEF TickRestarts, BeginStart, TypeOK
  <2>. QED  BY <1>4, <2>1, <2>2, <2>3 DEF TickStep
<1>5. ASSUME NEW p \in Process, NEW w \in Watcher, WatchStep(p, w)
      PROVE  NoOrphanWatcher' /\ StartInv'
  <2>. DEFINE r == watcher[p][w]
  <2>0. r \in WatcherState
    BY DEF TypeOK
  <2>1. CASE Depose(p, w)
    BY <2>1, StopKnown DEF Depose
  <2>2. ASSUME NEW n \in 1..MaxBlock, Poll(p, w, n)
        PROVE  NoOrphanWatcher' /\ StartInv'
    <3>1. [r EXCEPT !.pc = "ranges", !.last = ReplayFrom(r, n) - 1, !.to = n].active = r.active
      BY <2>0 DEF WatcherState
    <3>. QED  BY <2>2, <3>1, TurnKnown DEF Poll, control
  <2>3. CASE FetchRange(p, w)
    <3>. DEFINE end == Smaller(r.last + BatchSize, r.to)
    <3>1. [r EXCEPT !.pc = "fetching", !.end = end, !.todo = TxIn(r.last + 1, end)].active
            = r.active
      BY <2>0 DEF WatcherState
    <3>. QED  BY <2>3, <3>1, TurnKnown DEF FetchRange, control
  <2>4. CASE NoticesStop(p, w)
    <3>1. Off.active = r.active
      BY <2>0, <2>4 DEF NoticesStop, WatcherState, Off
    <3>. QED  BY <2>4, <3>1, TurnKnown DEF NoticesStop, control
  <2>5. CASE Deliver(p, w)
    <3>1. [r EXCEPT !.pc = "handling"].active = r.active
      BY <2>0 DEF WatcherState
    <3>. QED  BY <2>5, <3>1, TurnKnown DEF Deliver, control
  <2>6. ASSUME NEW t \in Tx, Handle(p, w, t)
        PROVE  NoOrphanWatcher' /\ StartInv'
    <3>1. [r EXCEPT !.todo = @ \ {t}].active = r.active
      BY <2>0 DEF WatcherState
    <3>. QED  BY <2>6, <3>1, TurnKnown DEF Handle, control
  <2>7. CASE FinishRange(p, w)
    <3>. DEFINE n == IF r.end < r.to
                       THEN [r EXCEPT !.pc = "ranges", !.last = r.end, !.todo = {}]
                       ELSE Rest([r EXCEPT !.last = r.end])
    <3>1. n.active = r.active
      BY <2>0 DEF WatcherState, Rest, Off
    <3>. HIDE DEF n
    <3>2. Becomes(p, w, n)
      BY <2>7 DEF FinishRange, n
    <3>. QED  BY <2>7, <3>1, <3>2, TurnKnown DEF FinishRange, control
  <2>8. CASE RangeFails(p, w)
    <3>1. Rest(r).active = r.active
      BY <2>0 DEF WatcherState, Rest, Off
    <3>. QED  BY <2>8, <3>1, TurnKnown DEF RangeFails, control
  <2>. QED  BY <1>5, <2>1, <2>2, <2>3, <2>4, <2>5, <2>6, <2>7, <2>8 DEF WatchStep
<1>. QED
  BY <1>1, <1>2, <1>3, <1>4, <1>5 DEF Next, ProcessStep, TypeOK

-----------------------------------------------------------------------------
(* The cursor covers what it has passed.                                    *)

\* What was covered stays so.
LEMMA CoveredGrows ==
  ASSUME NEW n \in Int, Covered(n),
         handled \subseteq handled', waived \subseteq waived', dropped \subseteq dropped'
  PROVE  Covered(n)'
  BY DEF Covered

\* So do the records of the watchers that do not move.
LEMMA RecordGrows ==
  ASSUME NEW r \in WatcherState, RecordInv(r),
         handled \subseteq handled', waived \subseteq waived', dropped \subseteq dropped'
  PROVE  RecordInv(r)'
  BY CoveredGrows DEF RecordInv, WatcherState

\* A watcher that is stopped keeps its place.
LEMMA RecordStopped ==
  ASSUME NEW r \in WatcherState, RecordInv(r), UNCHANGED covered
  PROVE  RecordInv(r)' /\ RecordInv(Stopped(r))'
<1>1. RecordInv(r)'
  BY RecordGrows DEF covered
<1>. QED  BY <1>1, StoppedFacts DEF RecordInv

\* Stopping the process's watcher.
LEMMA StopCovers ==
  ASSUME TypeOK, RangeInv, NEW p \in Process, StopCurrent(p), UNCHANGED covered
  PROVE  RangeInv'
<1>1. ASSUME NEW q \in Process, NEW x \in Watcher
      PROVE  RecordInv(watcher[q][x])'
  <2>. DEFINE r == watcher[q][x]
  <2>1. r \in WatcherState /\ RecordInv(r)
    BY DEF TypeOK, RangeInv
  <2>2. watcher'[q][x] \in {r, Stopped(r)}
    BY StopFacts
  <2>. HIDE DEF r
  <2>3. CASE watcher'[q][x] = r
    BY <2>1, <2>3, RecordStopped DEF RecordInv, Covered
  <2>4. CASE watcher'[q][x] = Stopped(r)
    BY <2>1, <2>4, RecordStopped DEF RecordInv, Covered
  <2>. QED  BY <2>2, <2>3, <2>4
<1>. QED  BY <1>1 DEF RangeInv

\* A step of one watcher.
LEMMA TurnCovers ==
  ASSUME TypeOK, RangeInv, NEW p \in Process, NEW w \in Watcher,
         NEW n, Becomes(p, w, n), RecordInv(n)',
         handled \subseteq handled', waived \subseteq waived', dropped \subseteq dropped'
  PROVE  RangeInv'
<1>1. ASSUME NEW q \in Process, NEW x \in Watcher
      PROVE  RecordInv(watcher[q][x])'
  <2>. DEFINE r == watcher[q][x]
  <2>1. r \in WatcherState /\ RecordInv(r)
    BY DEF TypeOK, RangeInv
  <2>2. watcher'[q][x] = IF q = p /\ x = w THEN n ELSE r
    BY DEF Becomes, TypeOK
  <2>. HIDE DEF r
  <2>3. CASE q = p /\ x = w
    BY <2>2, <2>3 DEF RecordInv, Covered
  <2>4. CASE ~(q = p /\ x = w)
    BY <2>1, <2>2, <2>4, RecordGrows DEF RecordInv, Covered
  <2>. QED  BY <2>3, <2>4
<1>. QED  BY <1>1 DEF RangeInv

\* The first start waives what is before the head.
LEMMA StartCovers ==
  ASSUME TypeOK, CursorCovers, RangeInv, NEW p \in Process, NEW w \in Watcher,
         StartSucceeds(p, w)
  PROVE  CursorCovers' /\ RangeInv'
<1>1. handled \subseteq handled' /\ waived \subseteq waived' /\ dropped \subseteq dropped'
  BY DEF StartSucceeds
<1>2. CursorCovers'
  <2>1. CASE cursor = NoCursor
    BY <2>1 DEF StartSucceeds, CursorCovers, Covered, TxIn, TypeOK
  <2>2. CASE cursor # NoCursor
    BY <2>2 DEF StartSucceeds, CursorCovers, Covered, TypeOK
  <2>. QED  BY <2>1, <2>2
<1>. DEFINE n == [Off EXCEPT !.pc = "idle", !.active = TRUE, !.last = cursor']
<1>3. n.pc = "idle" /\ n.last = cursor'
  BY DEF Off
<1>4. Becomes(p, w, n)
  BY DEF StartSucceeds
<1>. HIDE DEF n
<1>5. watcher'[p][w] = n
  BY <1>4 DEF Becomes, TypeOK
<1>6. ASSUME NEW q \in Process, NEW x \in Watcher
      PROVE  RecordInv(watcher[q][x])'
  <2>1. CASE q = p /\ x = w
    BY <1>2, <1>3, <1>5, <2>1 DEF RecordInv, CursorCovers, Covered
  <2>2. CASE ~(q = p /\ x = w)
    <3>1. watcher'[q][x] = watcher[q][x]
      BY <1>4, <2>2 DEF Becomes, TypeOK
    <3>. QED
      BY <1>1, <3>1, RecordGrows DEF RecordInv, Covered, RangeInv, TypeOK
  <2>. QED  BY <2>1, <2>2
<1>. QED  BY <1>2, <1>6 DEF RangeInv

\* The steps of a watcher: a poll waives what is before the replay window, a
\* transaction leaves the batch when it is handled, and the cursor moves past
\* a range whose batch is handled or dropped.
LEMMA WatchCovers ==
  ASSUME TypeOK, CursorCovers, RangeInv, NEW p \in Process, NEW w \in Watcher,
         WatchStep(p, w), NEW r, watcher[p][w] = r
  PROVE  CursorCovers' /\ RangeInv'
<1>0. r \in WatcherState /\ RecordInv(r) /\ cursor \in Int
  BY DEF TypeOK, RangeInv
<1>. DEFINE Grows == handled \subseteq handled' /\ waived \subseteq waived'
                       /\ dropped \subseteq dropped'
<1>1. ASSUME NEW n, Becomes(p, w, n), Grows, cursor' = cursor, RecordInv(n)'
      PROVE  CursorCovers' /\ RangeInv'
  BY <1>0, <1>1, TurnCovers, CoveredGrows DEF CursorCovers, Covered
<1>2. ASSUME NEW k \in 1..MaxBlock, Poll(p, w, k)
      PROVE  CursorCovers' /\ RangeInv'
  <2>. DEFINE last == ReplayFrom(r, k) - 1
              n == [r EXCEPT !.pc = "ranges", !.last = last, !.to = k]
  <2>1. last \in Int /\ waived' = waived \cup TxIn(r.last + 1, last) /\ r.pc = "idle"
    BY <1>0, <1>2, RecordTypes DEF Poll
  <2>2. n.pc = "ranges" /\ n.last = last
    BY <1>0 DEF WatcherState
  <2>3. Becomes(p, w, n) /\ Grows /\ cursor' = cursor
    BY <1>2 DEF Poll
  <2>. HIDE DEF n, last
  <2>4. RecordInv(n)'
    BY <1>0, <2>1, <2>2, <2>3 DEF RecordInv, Covered, TxIn, WatcherState
  <2>. QED  BY <1>1, <2>3, <2>4
<1>3. CASE FetchRange(p, w)
  <2>. DEFINE end == Smaller(r.last + BatchSize, r.to)
              n == [r EXCEPT !.pc = "fetching", !.end = end, !.todo = TxIn(r.last + 1, end)]
  <2>1. r.pc = "ranges"
    BY <1>3 DEF FetchRange
  <2>2. n.pc = "fetching" /\ n.last = r.last /\ n.end = end /\ n.todo = TxIn(r.last + 1, end)
    BY <1>0 DEF WatcherState
  <2>3. Becomes(p, w, n) /\ Grows /\ cursor' = cursor /\ UNCHANGED covered
    BY <1>3 DEF FetchRange, covered, shared
  <2>. HIDE DEF n
  <2>4. RecordInv(n)'
    BY <1>0, <2>1, <2>2, <2>3 DEF RecordInv, Covered, covered
  <2>. QED  BY <1>1, <2>3, <2>4
<1>4. CASE NoticesStop(p, w)
  <2>1. RecordInv(Off)'
    BY DEF RecordInv, Off
  <2>. QED  BY <1>1, <1>4, <2>1 DEF NoticesStop, covered, shared
<1>5. CASE Deliver(p, w)
  <2>. DEFINE n == [r EXCEPT !.pc = "handling"]
  <2>1. r.pc = "fetching"
    BY <1>5 DEF Deliver
  <2>2. n.pc = "handling" /\ n.last = r.last /\ n.end = r.end /\ n.todo = r.todo
    BY <1>0 DEF WatcherState
  <2>3. Becomes(p, w, n) /\ Grows /\ cursor' = cursor /\ UNCHANGED covered
    BY <1>5 DEF Deliver, covered
  <2>. HIDE DEF n
  <2>4. RecordInv(n)'
    BY <1>0, <2>1, <2>2, <2>3 DEF RecordInv, Covered, covered
  <2>. QED  BY <1>1, <2>3, <2>4
<1>6. CASE Depose(p, w)
  BY <1>0, <1>6, StopCovers, CoveredGrows DEF Depose, covered, shared, CursorCovers, Covered
<1>7. ASSUME NEW t \in Tx, Handle(p, w, t)
      PROVE  CursorCovers' /\ RangeInv'
  <2>. DEFINE n == [r EXCEPT !.todo = @ \ {t}]
  <2>1. r.pc = "handling" /\ handled' = handled \cup {t}
    BY <1>7 DEF Handle
  <2>2. n.pc = r.pc /\ n.last = r.last /\ n.end = r.end /\ n.todo = r.todo \ {t}
    BY <1>0 DEF WatcherState
  <2>3. Becomes(p, w, n) /\ Grows /\ cursor' = cursor
    BY <1>7 DEF Handle, shared
  <2>. HIDE DEF n
  <2>4. RecordInv(n)'
    BY <1>0, <2>1, <2>2, <2>3 DEF RecordInv, Covered
  <2>. QED  BY <1>1, <2>3, <2>4
<1>8. CASE FinishRange(p, w)
  <2>. DEFINE n == IF r.end < r.to
                     THEN [r EXCEPT !.pc = "ranges", !.last = r.end, !.todo = {}]
                     ELSE Rest([r EXCEPT !.last = r.end])
  <2>1. /\ r.pc \in {"fetching", "handling"} /\ cursor' = Larger(cursor, r.end)
        /\ dropped' = dropped \cup r.todo
    BY <1>8 DEF FinishRange
  <2>2. n.pc \in {"ranges", "idle", "off"} /\ (n.pc # "off" => n.last = r.end)
    BY <1>0 DEF WatcherState, Rest, Off
  <2>3. Becomes(p, w, n) /\ Grows
    BY <1>8 DEF FinishRange
  <2>. HIDE DEF n
  <2>4. Covered(r.end)'
    <3>1. ASSUME NEW t \in Tx, BlockOf[t] <= r.end
          PROVE  t \in handled \cup waived \cup dropped \cup r.todo
      BY <1>0, <2>1, <3>1 DEF RecordInv, Covered, TxIn, WatcherState
    <3>. QED  BY <2>1, <2>3, <3>1 DEF Covered
  <2>5. CursorCovers'
    BY <1>0, <2>1, <2>3, <2>4 DEF CursorCovers, Covered, Larger
  <2>6. RecordInv(n)'
    BY <2>2, <2>4 DEF RecordInv, Covered
  <2>. QED  BY <2>3, <2>5, <2>6, TurnCovers
<1>9. CASE RangeFails(p, w)
  <2>1. Rest(r).pc \in {"idle", "off"} /\ (Rest(r).pc # "off" => Rest(r).last = r.last)
    BY <1>0 DEF WatcherState, Rest, Off
  <2>2. Becomes(p, w, Rest(r)) /\ Grows /\ cursor' = cursor /\ UNCHANGED covered
    BY <1>9 DEF RangeFails, covered
  <2>3. r.pc # "off"
    BY <1>9 DEF RangeFails
  <2>4. RecordInv(Rest(r))'
    BY <1>0, <2>1, <2>2, <2>3 DEF RecordInv, Covered, covered
  <2>. QED  BY <1>1, <2>2, <2>4
<1>. QED
  BY <1>2, <1>3, <1>4, <1>5, <1>6, <1>7, <1>8, <1>9 DEF WatchStep

\* Every step keeps what the cursor and the watchers have passed covered.
LEMMA CoverStep ==
  ASSUME TypeOK, CursorCovers, RangeInv, [Next]_vars
  PROVE  CursorCovers' /\ RangeInv'
<1>1. ASSUME UNCHANGED <<cursor, watcher>>, UNCHANGED covered
      PROVE  CursorCovers' /\ RangeInv'
  BY <1>1 DEF CursorCovers, RangeInv, RecordInv, Covered, covered
<1>2. ASSUME NEW p \in Process, StopCurrent(p), cursor' = cursor, UNCHANGED covered
      PROVE  CursorCovers' /\ RangeInv'
  BY <1>2, StopCovers DEF CursorCovers, Covered, covered
<1>3. CASE UNCHANGED vars \/ WorldStep
  BY <1>1, <1>3
     DEF vars, shared, covered, WorldStep, NewBlock, LeaseExpires, Boot
<1>4. ASSUME NEW p \in Process, Ends(p)  PROVE  CursorCovers' /\ RangeInv'
  <2>1. ASSUME NEW q \in Process, NEW x \in Watcher
        PROVE  watcher'[q][x] \in {Off, watcher[q][x]}
    BY <1>4 DEF Ends, TypeOK
  <2>2. cursor' = cursor /\ UNCHANGED covered
    BY <1>4 DEF Ends
  <2>3. Off.pc = "off"
    BY DEF Off
  <2>. QED
    BY <2>1, <2>2, <2>3 DEF CursorCovers, RangeInv, RecordInv, Covered, covered
<1>5. ASSUME NEW p \in Process, ControlStep(p)  PROVE  CursorCovers' /\ RangeInv'
  <2>1. CASE OperatorStarts(p)
    BY <1>1, <1>2, <2>1 DEF OperatorStarts, BeginStart
  <2>2. CASE OperatorStops(p) \/ Trip(p)
    BY <1>2, <2>2 DEF OperatorStops, Trip
  <2>3. CASE Heartbeat(p) \/ StartFails(p) \/ StartReturns(p) \/ MonitorError(p)
    BY <1>1, <2>3 DEF Heartbeat, StartFails, StartReturns, MonitorError, shared
  <2>. QED  BY <1>5, <2>1, <2>2, <2>3, StartCovers DEF ControlStep
<1>6. ASSUME NEW p \in Process, TickStep(p)  PROVE  CursorCovers' /\ RangeInv'
  <2>1. CASE TickStarts(p) \/ TickAborts(p) \/ TickEnds(p)
    BY <1>1, <2>1 DEF TickStarts, TickAborts, TickEnds, shared
  <2>2. CASE TickDeposed(p) \/ TickRenews(p)
    BY <1>2, <2>2 DEF TickDeposed, TickRenews, shared
  <2>3. CASE TickRestarts(p)
    BY <1>1, <1>2, <2>3 DEF TickRestarts, BeginStart
  <2>. QED  BY <1>6, <2>1, <2>2, <2>3 DEF TickStep
<1>. QED
  BY <1>3, <1>4, <1>5, <1>6, WatchCovers DEF Next, ProcessStep, TypeOK

-----------------------------------------------------------------------------
(* The theorems.                                                            *)

\* Every reachable state is well typed.
THEOREM TypeCorrect == Spec => []TypeOK
<1>1. TypeOK /\ [Next]_vars => TypeOK'
  BY TypeStep
<1>. QED  BY TypeInit, <1>1, PTL DEF Spec

\* IInv is an invariant: it holds initially and every step of the
\* orchestrator, its watchers and the world preserves it.
THEOREM Safety == Spec => []IInv
<1>1. Init => IInv
  <2>1. Init => NoOrphanWatcher /\ StartInv /\ RangeInv
    BY DEF Init, NoOrphanWatcher, StartInv, RangeInv, RecordInv, Off
  <2>2. Init => CursorCovers
    BY DEF Init, CursorCovers, Covered
  <2>. QED  BY <2>1, <2>2, TypeInit DEF IInv
<1>2. IInv /\ [Next]_vars => IInv'
  BY TypeStep, OrphanStep, CoverStep DEF IInv
<1>. QED  BY <1>1, <1>2, PTL DEF Spec

\* No process ever has a watcher that its stop cannot reach.
THEOREM NoOrphan == Spec => []NoOrphanWatcher
<1>1. IInv => NoOrphanWatcher
  BY DEF IInv
<1>. QED  BY <1>1, Safety, PTL

\* The cursor only passes transactions that were looked at, waived or dropped
\* by a watcher that was stopped.
THEOREM Covers == Spec => []CursorCovers
<1>1. IInv => CursorCovers
  BY DEF IInv
<1>. QED  BY <1>1, Safety, PTL

HIDE WatcherAssumption DEF NoCursor

-----------------------------------------------------------------------------
(***************************************************************************)
(* An answer of the Info API is current, for any number of callers and     *)
(* bodies, of attempts, and any time an answer is kept.                    *)
(*                                                                         *)
(* What makes it inductive: a caller that waits has noted a state of the   *)
(* exchange that is not ahead of the present one, whether the request it   *)
(* waits for is its own or an earlier one that it shares.                  *)
(***************************************************************************)
USE InfoAssumption

InfoState == [version : Nat, at : Nat]
CallState == [pc : {"idle", "waiting", "answered", "failed"}, body : Body \cup {None},
              since : InfoState, got : InfoState \cup {None}]

InfoType ==
  /\ now \in Nat /\ version \in Nat
  /\ call \in [Caller -> CallState]

\* Neither a request nor a caller is ahead of the exchange.
RequestsPast == \A b \in Body : request[b] # None => request[b] \in InfoState /\ request[b].version <= version
CallersPast == \A c \in Caller : call[c].pc = "waiting" => call[c].since.version <= version

InfoShape ==
  /\ DOMAIN request = Body /\ queue \in Seq(Body) /\ cache \in [Kept -> InfoState \cup {None}]
  /\ markets \in InfoState \cup {None}

InfoInv == InfoType /\ InfoShape /\ RequestsPast /\ CallersPast /\ AnswersAreCurrent

-----------------------------------------------------------------------------
LEMMA InfoInitial == InfoInit => InfoInv
<1> SUFFICES ASSUME InfoInit PROVE InfoInv
  OBVIOUS
<1>1. NoAnswer \in InfoState
  BY DEF NoAnswer, InfoState
<1>2. Idle \in CallState /\ Idle.pc = "idle"
  BY <1>1 DEF Idle, CallState
<1>3. InfoType /\ CallersPast /\ AnswersAreCurrent
  BY <1>2 DEF InfoInit, InfoType, CallersPast, AnswersAreCurrent
<1>4. InfoShape /\ RequestsPast
  BY DEF InfoInit, InfoShape, RequestsPast
<1> QED
  BY <1>3, <1>4 DEF InfoInv

LEMMA HereIsNow == InfoType => Here \in InfoState /\ Here.version = version /\ Here.at = now
  BY DEF InfoType, Here, InfoState

\* One caller goes on to c2.
LEMMA CallerGoesOn ==
  ASSUME InfoInv, NEW c \in Caller, NEW c2 \in CallState, call' = [call EXCEPT ![c] = c2],
         UNCHANGED <<now, version>>,
         c2.pc = "waiting" => c2.since.version <= version,
         c2.pc = "answered" => c2.body \in Kept /\ c2.got.at + Ttl > c2.since.at
  PROVE  (InfoType /\ CallersPast /\ AnswersAreCurrent)'
  BY DEF InfoInv, InfoType, CallersPast, AnswersAreCurrent

LEMMA AskKeeps == ASSUME InfoInv, NEW c \in Caller, NEW b \in Body, Ask(c, b) PROVE InfoInv'
<1> USE DEF InfoInv
<1>1. Here \in InfoState /\ Here.version = version /\ Here.at = now
  BY HereIsNow
<1>2. UNCHANGED <<now, version, attempt, resting, markets>>
  BY DEF Ask, Unchanged
<1>3. NoAnswer \in InfoState
  BY DEF NoAnswer, InfoState
<1>4. CASE AnswerKept(c, b)
  <2> DEFINE kept == cache[b]
             c2 == [Idle EXCEPT !.pc = "answered", !.body = b, !.since = Here, !.got = kept]
  <2>1. kept \in InfoState \cup {None} /\ b \in Kept /\ kept.at + Ttl > now
    BY <1>4 DEF AnswerKept, FreshAnswer, InfoShape
  <2>2. call' = [call EXCEPT ![c] = c2] /\ UNCHANGED <<cache, request, queue>>
    BY <1>4 DEF AnswerKept
  <2> HIDE DEF kept
  <2>3. c2.pc = "answered" /\ c2.body = b /\ c2.since = Here /\ c2.got = kept
    BY DEF Idle
  <2>4. c2 \in CallState
    BY <1>1, <2>1 DEF Idle, CallState
  <2> HIDE DEF c2
  <2>5. (InfoType /\ CallersPast /\ AnswersAreCurrent)'
    BY <1>1, <1>2, <2>1, <2>2, <2>3, <2>4, CallerGoesOn
  <2> QED
    BY <1>2, <2>2, <2>5 DEF InfoShape, RequestsPast
<1>5. CASE Wait(c, b)
  <2> DEFINE since == request'[b]
             c2 == [Idle EXCEPT !.pc = "waiting", !.body = b, !.since = since]
  <2>1. cache' \in [Kept -> InfoState \cup {None}]
    BY <1>5 DEF Wait, Forgotten, InfoShape
  <2>2. since \in InfoState /\ since.version <= version
    BY <1>1, <1>5 DEF Wait, InfoShape, RequestsPast, InfoType
  <2>3. call' = [call EXCEPT ![c] = c2]
    BY <1>5 DEF Wait
  <2>4. InfoShape' /\ RequestsPast'
    <3>1. CASE request[b] # None
      BY <1>2, <1>5, <2>1, <3>1 DEF Wait, InfoShape, RequestsPast
    <3>2. CASE request[b] = None
      <4>1. request' = [request EXCEPT ![b] = Here] /\ queue' = Append(queue, b)
        BY <1>5, <3>2 DEF Wait
      <4>2. queue' \in Seq(Body)
        BY <4>1 DEF InfoShape
      <4>3. version <= version
        BY DEF InfoType
      <4> QED
        BY <1>1, <1>2, <2>1, <4>1, <4>2, <4>3 DEF InfoShape, RequestsPast
    <3> QED
      BY <3>1, <3>2
  <2> HIDE DEF since
  <2>5. c2.pc = "waiting" /\ c2.since = since
    BY DEF Idle
  <2>6. c2 \in CallState
    BY <1>3, <2>2 DEF Idle, CallState
  <2> HIDE DEF c2
  <2>7. (InfoType /\ CallersPast /\ AnswersAreCurrent)'
    BY <1>2, <2>2, <2>3, <2>5, <2>6, CallerGoesOn
  <2> QED
    BY <2>4, <2>7
<1> QED
  BY <1>4, <1>5 DEF Ask

LEMMA UseKeeps == ASSUME InfoInv, NEW c \in Caller, Use(c) PROVE InfoInv'
<1>1. NoAnswer \in InfoState
  BY DEF NoAnswer, InfoState
<1>2. Idle \in CallState /\ Idle.pc = "idle"
  BY <1>1 DEF Idle, CallState
<1>3. (InfoType /\ CallersPast /\ AnswersAreCurrent)'
  BY <1>2, CallerGoesOn DEF Use, Unchanged
<1> QED
  BY <1>3 DEF InfoInv, Use, Unchanged, InfoShape, RequestsPast

\* The callers of a body are given its outcome: one that is not older than the
\* present, or a list of markets.
LEMMA DeliveryKeeps ==
  ASSUME InfoInv, NEW b \in Body, NEW pc \in {"answered", "failed"}, NEW got \in InfoState \cup {None},
         DeliverAnswer(b, pc, got), queue # <<>>, UNCHANGED <<now, version>>,
         pc = "answered" => got.version = version \/ b = Market,
         cache' \in [Kept -> InfoState \cup {None}], markets' \in InfoState \cup {None}
  PROVE  InfoInv'
<1> USE DEF InfoInv
<1> DEFINE Given(c) == call[c].pc = "waiting" /\ call[c].body = b
<1>1. ASSUME NEW c \in Caller
      PROVE  /\ call'[c] \in CallState
             /\ ~Given(c) => call'[c] = call[c]
             /\ Given(c) => /\ call'[c].pc = pc /\ call'[c].body = b
                            /\ call'[c].since = call[c].since /\ call'[c].got = got
  BY <1>1 DEF DeliverAnswer, InfoType, CallState
<1>2. call' \in [Caller -> CallState]
  BY <1>1 DEF DeliverAnswer
<1>3. InfoType' /\ CallersPast'
  BY <1>1, <1>2 DEF InfoType, CallersPast
<1>4. ASSUME NEW c \in Caller, Given(c) PROVE call[c].since.version <= version
  BY <1>4 DEF CallersPast
<1>5. AnswersAreCurrent'
  <2> SUFFICES ASSUME NEW c \in Caller, call'[c].pc = "answered", call'[c].body # Market
               PROVE  \/ call'[c].got.version >= call'[c].since.version
                      \/ call'[c].body \in Kept /\ call'[c].got.at + Ttl > call'[c].since.at
    BY DEF AnswersAreCurrent
  <2>1. CASE Given(c)
    <3>1. got.version = version /\ call'[c].got = got /\ call'[c].since = call[c].since
      BY <1>1, <2>1
    <3>2. call[c].since.version \in Nat /\ version \in Nat
      BY DEF InfoType, CallState, InfoState
    <3> QED
      BY <1>4, <2>1, <3>1, <3>2
  <2>2. CASE ~Given(c)
    BY <1>1, <2>2 DEF AnswersAreCurrent
  <2> QED
    BY <2>1, <2>2
<1>6. queue' \in Seq(Body)
  <2>1. queue' = Tail(queue) /\ queue \in Seq(Body)
    BY DEF DeliverAnswer, InfoShape
  <2>2. \A q \in Seq(Body) : q # <<>> => Tail(q) \in Seq(Body)
    OBVIOUS
  <2> QED
    BY <2>1, <2>2
<1>7. DOMAIN request' = Body /\ \A k \in Body : request'[k] # None => request'[k] = request[k]
  BY DEF DeliverAnswer, InfoShape
<1>8. InfoShape'
  BY <1>6, <1>7 DEF InfoShape
<1>9. RequestsPast'
  BY <1>7 DEF RequestsPast
<1> QED
  BY <1>3, <1>5, <1>8, <1>9

LEMMA HeadIsBody == ASSUME InfoShape, queue # <<>> PROVE Head(queue) \in Body
  BY DEF InfoShape

LEMMA SucceedKeeps == ASSUME InfoInv, Succeed PROVE InfoInv'
<1> DEFINE b == Head(queue)
<1>1. b \in Body /\ queue # <<>>
  BY HeadIsBody DEF InfoInv, Succeed
<1>2. Here \in InfoState /\ Here.version = version
  BY HereIsNow DEF InfoInv
<1>3. DeliverAnswer(b, "answered", Here) /\ UNCHANGED <<now, version>>
  BY DEF Succeed, Unchanged
<1>4. cache' \in [Kept -> InfoState \cup {None}]
  BY <1>2 DEF Succeed, InfoInv, InfoShape
<1>5. markets' \in InfoState \cup {None}
  BY <1>2 DEF Succeed, Loaded, InfoInv, InfoShape
<1> HIDE DEF b
<1> QED
  BY <1>1, <1>2, <1>3, <1>4, <1>5, DeliveryKeeps

LEMMA FailKeeps == ASSUME InfoInv, Fail PROVE InfoInv'
<1> DEFINE b == Head(queue)
           got == IF Failure(b) = "failed" THEN NoAnswer ELSE markets
<1>1. b \in Body /\ queue # <<>>
  BY HeadIsBody DEF InfoInv, Fail
<1>2. Failure(b) \in {"answered", "failed"} /\ (Failure(b) = "answered" => b = Market)
  BY DEF Failure
<1>3. got \in InfoState \cup {None}
  BY DEF NoAnswer, InfoState, InfoInv, InfoShape
<1>4. DeliverAnswer(b, Failure(b), got) /\ UNCHANGED <<now, version>>
  BY DEF Fail, Unchanged
<1>5. cache' \in [Kept -> InfoState \cup {None}] /\ markets' \in InfoState \cup {None}
  BY DEF Fail, InfoInv, InfoShape
<1> HIDE DEF b, got
<1> QED
  BY <1>1, <1>2, <1>3, <1>4, <1>5, DeliveryKeeps

LEMMA WorldKeeps == ASSUME InfoInv, Tick \/ Change \/ Retry PROVE InfoInv'
<1> USE DEF InfoInv
<1>1. UNCHANGED <<call, request, cache, queue, markets>> /\ now' \in Nat /\ version' \in Nat /\ version <= version'
  BY DEF Tick, Change, Retry, Unchanged, InfoType
<1>2. \A v \in Nat : v <= version => v <= version'
  BY <1>1 DEF InfoType
<1>3. InfoType' /\ InfoShape' /\ AnswersAreCurrent'
  BY <1>1 DEF InfoType, InfoShape, AnswersAreCurrent
<1>4. RequestsPast'
  BY <1>1, <1>2 DEF RequestsPast, InfoState
<1>5. CallersPast'
  BY <1>1, <1>2 DEF CallersPast, InfoType, CallState, InfoState
<1> QED
  BY <1>3, <1>4, <1>5

LEMMA InfoStepKeeps == InfoInv /\ [InfoNext]_infoVars => InfoInv'
<1> SUFFICES ASSUME InfoInv, [InfoNext]_infoVars PROVE InfoInv'
  OBVIOUS
<1>1. CASE InfoNext
  BY <1>1, AskKeeps, UseKeeps, SucceedKeeps, FailKeeps, WorldKeeps DEF InfoNext
<1>2. CASE UNCHANGED infoVars
  BY <1>2 DEF infoVars, InfoInv, InfoType, InfoShape, RequestsPast, CallersPast, AnswersAreCurrent
<1> QED
  BY <1>1, <1>2

\* An answer of the Info API is as new as the request it came with or, if its
\* type is kept, was no older than Ttl when it was asked for; the list of the
\* markets alone may be older (hypercoreInfo, getHypercoreMarkets).
THEOREM InfoAnswersAreCurrent == InfoSpec => []AnswersAreCurrent
<1>1. InfoInv => AnswersAreCurrent
  BY DEF InfoInv
<1> QED
  BY <1>1, InfoInitial, InfoStepKeeps, PTL DEF InfoSpec

HIDE InfoAssumption

-----------------------------------------------------------------------------
(***************************************************************************)
(* A watcher of HyperCore at rest has every wallet subscribed, for any     *)
(* lists, any size of the groups and any number of failures.               *)
(*                                                                         *)
(* What makes it inductive: while a synchronization runs the target is     *)
(* empty, so that nothing is taken for settled, and the wallets it has     *)
(* been through are subscribed or were lost since it closed the sockets;   *)
(* between two of them a failure empties the target.                       *)
(***************************************************************************)
USE HypercoreAssumption

SyncState == [pc : {"idle", "closing", "next", "subscribing"}, list : SUBSET Wallet,
              left : SUBSET Wallet, group : SUBSET Wallet]

SyncShape == running \in BOOLEAN /\ tracked \in Tracked /\ sync \in SyncState

NoTargetYet == Syncing => target = {}
ClosingIsNew == sync.pc = "closing" => sync.left = sync.list
DoneAreSubscribed ==
  running /\ sync.pc \in {"next", "subscribing"} => sync.list \ sync.left \subseteq subscribed \cup lost
TargetSubscribed == running => target \subseteq subscribed \cup lost

SyncInv == SyncShape /\ NoTargetYet /\ ClosingIsNew /\ DoneAreSubscribed /\ TargetSubscribed

-----------------------------------------------------------------------------
LEMMA SyncInitial == SubscriptionsInit => SyncInv
  BY DEF SubscriptionsInit, SyncInv, SyncShape, SyncState, NoSync, NoTargetYet, ClosingIsNew,
         DoneAreSubscribed, TargetSubscribed, Syncing

\* The synchronization ends or goes back to rest, the target being the one given.
LEMMA SyncRests ==
  ASSUME SyncInv, sync' = NoSync, UNCHANGED <<running, tracked>>,
         running => target' \subseteq (subscribed \cup lost)'
  PROVE  SyncInv'
  BY DEF SyncInv, SyncShape, SyncState, NoSync, NoTargetYet, ClosingIsNew, DoneAreSubscribed,
         TargetSubscribed, Syncing

LEMMA BeginKeeps == ASSUME SyncInv, Begin, UNCHANGED world PROVE SyncInv'
<1>1. tracked \in SUBSET Wallet
  BY DEF SyncInv, SyncShape
<1>2. sync' \in SyncState /\ sync'.pc = "closing" /\ sync'.left = sync'.list
  BY <1>1 DEF Begin, NoSync, SyncState
<1>3. target' = {} /\ UNCHANGED <<running, tracked>>
  BY DEF Begin, world
<1> QED
  BY <1>2, <1>3 DEF SyncInv, SyncShape, NoTargetYet, ClosingIsNew, DoneAreSubscribed, TargetSubscribed

LEMMA TimersKeep == ASSUME SyncInv, SyncTimer \/ MissedHandled \/ MissedEnds PROVE SyncInv'
<1>1. CASE SyncTimer
  BY <1>1, BeginKeeps DEF SyncTimer
<1>2. CASE MissedHandled \/ (MissedEnds /\ ~MustSync)
  BY <1>2 DEF MissedHandled, MissedEnds, world, SyncInv, SyncShape, NoTargetYet, ClosingIsNew,
              DoneAreSubscribed, TargetSubscribed, Syncing
<1>3. CASE MissedEnds /\ MustSync
  BY <1>3, BeginKeeps DEF MissedEnds
<1> QED
  BY <1>1, <1>2, <1>3

LEMMA ShardsClosedKeeps == ASSUME SyncInv, ShardsClosed PROVE SyncInv'
<1>1. /\ sync' \in SyncState /\ sync'.pc = "next"
      /\ sync'.list = sync.list /\ sync'.left = sync.left
  BY DEF ShardsClosed, SyncInv, SyncShape, SyncState
<1>2. target = {} /\ sync.left = sync.list
  BY DEF ShardsClosed, SyncInv, NoTargetYet, ClosingIsNew, Syncing
<1> QED
  BY <1>1, <1>2 DEF ShardsClosed, world, SyncInv, SyncShape, NoTargetYet, ClosingIsNew,
                    DoneAreSubscribed, TargetSubscribed

LEMMA OpenSocketKeeps == ASSUME SyncInv, OpenSocket PROVE SyncInv'
<1>1. PICK w \in sync.left : sync' = [sync EXCEPT !.pc = "subscribing", !.group = Group(sync.list, w)]
  BY DEF OpenSocket, OpenNext
<1>2. Group(sync.list, w) \in SUBSET Wallet
  BY DEF Group, SyncInv, SyncShape, SyncState
<1>3. /\ sync' \in SyncState /\ sync'.pc = "subscribing"
      /\ sync'.list = sync.list /\ sync'.left = sync.left
  BY <1>1, <1>2 DEF SyncInv, SyncShape, SyncState
<1> QED
  BY <1>3 DEF OpenSocket, OpenNext, world, SyncInv, SyncShape, NoTargetYet, ClosingIsNew,
              DoneAreSubscribed, TargetSubscribed, Syncing

LEMMA SubscribeKeeps == ASSUME SyncInv, Subscribe PROVE SyncInv'
<1>1. PICK w \in sync.group \intersect sync.left :
        /\ subscribed' = subscribed \cup {w}
        /\ sync' \in {[[sync EXCEPT !.left = @ \ {w}] EXCEPT !.pc = "next", !.group = {}],
                      [sync EXCEPT !.left = @ \ {w}]}
  BY DEF Subscribe
<1>2. PICK s : s = sync
  OBVIOUS
<1>3. s \in SyncState /\ s.pc = "subscribing"
  BY <1>2 DEF Subscribe, SyncInv, SyncShape
<1> DEFINE rest == [s EXCEPT !.left = @ \ {w}]
<1>4. rest \in SyncState /\ rest.pc = "subscribing" /\ rest.list = s.list /\ rest.left = s.left \ {w}
  BY <1>3 DEF SyncState
<1>5. sync' \in {[rest EXCEPT !.pc = "next", !.group = {}], rest}
  BY <1>1, <1>2
<1> HIDE DEF rest
<1>6. /\ sync' \in SyncState /\ sync'.pc \in {"next", "subscribing"}
      /\ sync'.list = sync.list /\ sync'.left = sync.left \ {w}
  BY <1>2, <1>4, <1>5 DEF SyncState
<1> QED
  BY <1>1, <1>6 DEF Subscribe, world, SyncInv, SyncShape, NoTargetYet, ClosingIsNew,
                    DoneAreSubscribed, TargetSubscribed, Syncing

LEMMA EndsKeep ==
  ASSUME SyncInv, SyncStopped \/ SyncEnds \/ SyncFails \/ SyncOfStopped PROVE SyncInv'
<1>1. CASE SyncStopped
  BY <1>1, SyncRests DEF SyncStopped, world
<1>2. CASE SyncEnds
  BY <1>2, SyncRests DEF SyncEnds, world, SyncInv, DoneAreSubscribed
<1>3. CASE SyncFails
  BY <1>3, SyncRests DEF SyncFails, world
<1>4. CASE SyncOfStopped
  BY <1>4, SyncRests DEF SyncOfStopped, world
<1> QED
  BY <1>1, <1>2, <1>3, <1>4

LEMMA DropKeeps == ASSUME SyncInv, NEW ws, Drop(ws) PROVE SyncInv'
  BY DEF Drop, ForgetTarget, world, SyncInv, SyncShape, NoTargetYet, ClosingIsNew,
         DoneAreSubscribed, TargetSubscribed, Syncing

LEMMA OperatorKeeps == ASSUME SyncInv, SwitchList \/ StopFeed PROVE SyncInv'
<1>1. UNCHANGED <<sync, target>> /\ running' \in BOOLEAN /\ tracked' \in Tracked
  BY DEF SwitchList, StopFeed, SyncInv, SyncShape
<1>2. ~running' \/ UNCHANGED <<running, subscribed, lost>>
  BY DEF SwitchList, StopFeed
<1> QED
  BY <1>1, <1>2 DEF SyncInv, SyncShape, NoTargetYet, ClosingIsNew, DoneAreSubscribed,
                    TargetSubscribed, Syncing

LEMMA SyncStepKeeps == SyncInv /\ [SubscriptionsNext]_subscriptionVars => SyncInv'
<1> SUFFICES ASSUME SyncInv, [SubscriptionsNext]_subscriptionVars PROVE SyncInv'
  OBVIOUS
<1>1. CASE SubscriptionFails \/ SocketTerminates
  BY <1>1, DropKeeps DEF SubscriptionFails, SocketTerminates
<1>2. CASE SubscriptionsNext /\ ~(SubscriptionFails \/ SocketTerminates)
  BY <1>2, TimersKeep, ShardsClosedKeeps, OpenSocketKeeps, SubscribeKeeps, EndsKeep, OperatorKeeps
     DEF SubscriptionsNext
<1>3. CASE UNCHANGED subscriptionVars
  BY <1>3 DEF subscriptionVars, SyncInv, SyncShape, NoTargetYet, ClosingIsNew, DoneAreSubscribed,
              TargetSubscribed, Syncing
<1> QED
  BY <1>1, <1>2, <1>3

\* When the timer finds nothing to do, every tracked wallet is subscribed, save
\* those whose subscription failed while the synchronization ran
\* (synchronizeSubscriptions and handleRecoverableFailure).
THEOREM FeedIsSubscribed == SubscriptionsSpec => []SettledMeansSubscribed
<1>1. SyncInv => SettledMeansSubscribed
  BY DEF SyncInv, TargetSubscribed, SettledMeansSubscribed
<1> QED
  BY <1>1, SyncInitial, SyncStepKeeps, PTL DEF SubscriptionsSpec

HIDE HypercoreAssumption

-----------------------------------------------------------------------------
(***************************************************************************)
(* A request gives up only when it has asked every endpoint it could, for  *)
(* any number of endpoints and methods, of concurrent requests, and any    *)
(* length of the cooldowns.                                                *)
(*                                                                         *)
(* What makes it inductive: the endpoints that know the method are asked,  *)
(* spared or still to be asked; others only ever forget it.  For its start *)
(* it must be shown that endpoints can be put in the order of their        *)
(* cooldowns at all: the place of each is how many come before it, and as  *)
(* no two share a place, all places are taken.                             *)
(***************************************************************************)
USE PoolAssumption

RequestState == [pc : {"idle", "asking"}, method : Method \cup {"none"}, left : Seq(Endpoint),
                 asked : SUBSET Endpoint, spared : SUBSET Endpoint]
Pending(s) == {s[i] : i \in DOMAIN s}

PoolType ==
  /\ cooldown \in [Endpoint -> Nat]
  /\ rpc \in [Call -> RequestState]

\* Nothing that knows the method is passed over.
PassesNone(r) ==
  r.pc = "asking" => /\ Knowing(r.method) \subseteq r.asked \cup r.spared \cup Pending(r.left)
                     /\ r.asked # {} \/ r.left # <<>>

PoolInv == PoolType /\ \A c \in Call : PassesNone(rpc[c])

-----------------------------------------------------------------------------
(* The order of the endpoints                                               *)

Precedes(rank, e, f) == rank[e] < rank[f] \/ (rank[e] = rank[f] /\ e < f)
InOrder(s, rank) == \A i, j \in DOMAIN s : i < j => Precedes(rank, s[i], s[j])

LEMMA PrecedesIsOrder ==
  ASSUME NEW rank \in [Endpoint -> Nat], NEW e \in Endpoint, NEW f \in Endpoint
  PROVE  /\ ~Precedes(rank, e, e)
         /\ e = f \/ Precedes(rank, e, f) \/ Precedes(rank, f, e)
         /\ \A g \in Endpoint : Precedes(rank, e, f) /\ Precedes(rank, f, g) => Precedes(rank, e, g)
<1>1. e \in Nat /\ f \in Nat /\ \A g \in Endpoint : g \in Nat
  BY FS_CardinalityType
<1>2. rank[e] \in Nat /\ rank[f] \in Nat /\ \A g \in Endpoint : rank[g] \in Nat
  OBVIOUS
<1> HIDE PoolAssumption
<1> QED
  BY <1>1, <1>2 DEF Precedes

\* A set of endpoints can be put in order.
LEMMA OrderExists ==
  ASSUME NEW es \in SUBSET Endpoint, NEW rank \in [Endpoint -> Nat]
  PROVE  \E s \in [1..Cardinality(es) -> es] : InOrder(s, rank)
<1> DEFINE n == Cardinality(es)
           Ahead(e) == {f \in es : Precedes(rank, f, e)}
           place == [e \in es |-> Cardinality(Ahead(e)) + 1]
<1>1. IsFiniteSet(es) /\ n \in Nat
  BY FS_Subset, FS_CardinalityType
<1>2. ASSUME NEW e \in es PROVE IsFiniteSet(Ahead(e)) /\ Cardinality(Ahead(e)) \in Nat
  BY <1>1, FS_Subset, FS_CardinalityType
<1>3. ASSUME NEW e \in es, NEW f \in es, Precedes(rank, e, f)
      PROVE  Cardinality(Ahead(e)) < Cardinality(Ahead(f))
  <2>1. Ahead(e) \in SUBSET Ahead(f) /\ e \in Ahead(f) /\ e \notin Ahead(e)
    BY <1>3, PrecedesIsOrder
  <2>2. /\ Cardinality(Ahead(e)) <= Cardinality(Ahead(f))
        /\ Cardinality(Ahead(f)) = Cardinality(Ahead(e)) => Ahead(f) = Ahead(e)
    BY <1>2, <2>1, FS_Subset
  <2> HIDE DEF Ahead
  <2> QED
    BY <1>2, <2>1, <2>2
<1>4. ASSUME NEW e \in es PROVE Cardinality(Ahead(e)) < n
  <2>1. Ahead(e) \in SUBSET es /\ e \notin Ahead(e)
    BY PrecedesIsOrder
  <2>2. Cardinality(Ahead(e)) <= n /\ (n = Cardinality(Ahead(e)) => es = Ahead(e))
    BY <1>1, <2>1, FS_Subset
  <2> HIDE DEF Ahead, n
  <2> QED
    BY <1>1, <1>2, <2>1, <2>2
<1> HIDE DEF Ahead
<1>5. ASSUME NEW e \in es PROVE place[e] \in 1..n
  <2> HIDE DEF n
  <2> QED
    BY <1>1, <1>2, <1>4
<1>6. ASSUME NEW e \in es, NEW f \in es, Precedes(rank, e, f) PROVE place[e] < place[f]
  BY <1>2, <1>3, <1>6
<1> HIDE DEF place
<1>7. \A e, f \in es : e # f => Precedes(rank, e, f) \/ Precedes(rank, f, e)
  BY PrecedesIsOrder
<1>8. \A e, f \in es : place[e] = place[f] => e = f
  BY <1>1, <1>5, <1>6, <1>7
<1>9. place \in Injection(es, 1..n)
  <2>1. place \in [es -> 1..n]
    BY <1>5 DEF place
  <2> QED
    BY <1>8, <2>1 DEF Injection, IsInjective
<1>10. \A i \in 1..n : \E e \in es : place[e] = i
  <2>1. IsFiniteSet(1..n) /\ Cardinality(1..n) = n
    <3> HIDE DEF n
    <3> QED
      BY <1>1, FS_Interval
  <2>2. Cardinality(es) = n
    OBVIOUS
  <2> HIDE DEF n
  <2>3. place \in Surjection(es, 1..n)
    BY <1>9, <2>1, <2>2, FS_Injection
  <2> QED
    BY <2>3 DEF Surjection
<1> DEFINE s == [i \in 1..n |-> CHOOSE e \in es : place[e] = i]
<1>11. ASSUME NEW i \in 1..n PROVE s[i] \in es /\ place[s[i]] = i
  BY <1>10
<1>12. s \in [1..n -> es]
  BY <1>11
<1> HIDE DEF s
<1>13. ASSUME NEW i \in 1..n, NEW j \in 1..n, i < j PROVE Precedes(rank, s[i], s[j])
  BY <1>1, <1>6, <1>7, <1>11, <1>13
<1> QED
  BY <1>12, <1>13 DEF InOrder

\* What is put in order is all there and nothing else.
LEMMA OrderedIsAll ==
  ASSUME NEW es \in SUBSET Endpoint, NEW rank \in [Endpoint -> Nat]
  PROVE  Ordered(es, rank) \in Seq(Endpoint) /\ Pending(Ordered(es, rank)) = es
<1> DEFINE n == Cardinality(es)
           s == Ordered(es, rank)
<1>1. IsFiniteSet(es) /\ n \in Nat
  BY FS_Subset, FS_CardinalityType
<1>2. s \in [1..n -> es] /\ InOrder(s, rank)
  <2> DEFINE P(q) == \A i, j \in DOMAIN q : i < j => rank[q[i]] < rank[q[j]] \/ (rank[q[i]] = rank[q[j]] /\ q[i] < q[j])
  <2>1. \E q \in [1..n -> es] : P(q)
    BY OrderExists DEF InOrder, Precedes
  <2>2. s = CHOOSE q \in [1..n -> es] : P(q)
    BY DEF Ordered
  <2>3. s \in [1..n -> es] /\ P(s)
    <3> HIDE DEF P, s, n
    <3> QED
      BY <2>1, <2>2
  <2> QED
    BY <2>3 DEF InOrder, Precedes
<1> HIDE DEF s, n
<1>3. \A i, j \in 1..n : s[i] = s[j] => i = j
  <2>1. \A i, j \in 1..n : i # j => i < j \/ j < i
    BY <1>1
  <2>2. \A i, j \in 1..n : i < j => s[i] # s[j]
    BY <1>2, PrecedesIsOrder DEF InOrder
  <2> QED
    BY <2>1, <2>2
<1>4. s \in Injection(1..n, es)
  BY <1>2, <1>3 DEF Injection, IsInjective
<1>5. IsFiniteSet(1..n) /\ Cardinality(1..n) = n
  BY <1>1, FS_Interval
<1>6. \A e \in es : \E i \in 1..n : s[i] = e
  BY <1>1, <1>4, <1>5, FS_Injection DEF Surjection, n
<1>7. Pending(s) = es
  BY <1>2, <1>6 DEF Pending
<1>8. s \in Seq(Endpoint)
  BY <1>1, <1>2
<1> QED
  BY <1>7, <1>8 DEF s

-----------------------------------------------------------------------------
LEMMA QuietRequest == Quiet \in RequestState /\ Quiet.pc = "idle"
  BY DEF Quiet, RequestState

LEMMA PoolInitial == PoolInit => PoolInv
  BY QuietRequest DEF PoolInit, PoolInv, PoolType, PassesNone

\* What a request begins with leaves out only those that rest while others do not.
LEMMA CandidatesCover ==
  ASSUME PoolType, NEW m, Knowing(m) # {}
  PROVE  /\ Candidates(m) \in Seq(Endpoint) /\ Candidates(m) # <<>>
         /\ Available(m) # {} => Pending(Candidates(m)) = Available(m)
         /\ Available(m) = {} => Pending(Candidates(m)) = Knowing(m)
<1>1. Knowing(m) \in SUBSET Endpoint /\ Available(m) \in SUBSET Endpoint
  BY DEF Knowing, Available
<1>2. cooldown \in [Endpoint -> Nat] /\ [e \in Endpoint |-> 0] \in [Endpoint -> Nat]
  BY DEF PoolType
<1>3. /\ Candidates(m) \in Seq(Endpoint)
      /\ Available(m) # {} => Pending(Candidates(m)) = Available(m)
      /\ Available(m) = {} => Pending(Candidates(m)) = Knowing(m)
  BY <1>1, <1>2, OrderedIsAll DEF Candidates
<1>4. Pending(Candidates(m)) # {}
  BY <1>3
<1>5. \A q \in Seq(Endpoint) : Pending(q) # {} => q # <<>>
  BY DEF Pending
<1> QED
  BY <1>3, <1>4, <1>5

LEMMA TailPending ==
  ASSUME NEW s \in Seq(Endpoint), s # <<>>
  PROVE  /\ Head(s) \in Endpoint /\ Tail(s) \in Seq(Endpoint)
         /\ Pending(s) \subseteq {Head(s)} \cup Pending(Tail(s))
<1>1. Head(s) \in Endpoint /\ Tail(s) \in Seq(Endpoint)
  OBVIOUS
<1>2. ASSUME NEW i \in DOMAIN s, s[i] # Head(s) PROVE s[i] \in Pending(Tail(s))
  <2>1. i # 1 /\ i \in 1..Len(s) /\ Len(s) \in Nat
    BY <1>2
  <2>2. i - 1 \in DOMAIN Tail(s) /\ Tail(s)[i - 1] = s[i]
    BY <2>1
  <2> QED
    BY <2>2 DEF Pending
<1> QED
  BY <1>1, <1>2 DEF Pending

\* Request c goes on to r; the others are where they were.
LEMMA RequestGoesOn ==
  ASSUME PoolInv, NEW c \in Call, NEW r \in RequestState, rpc' = [rpc EXCEPT ![c] = r],
         cooldown' \in [Endpoint -> Nat], unsupported \subseteq unsupported', PassesNone(r)'
  PROVE  PoolInv'
<1>1. PoolType'
  BY DEF PoolInv, PoolType
<1>2. ASSUME NEW d \in Call PROVE PassesNone(rpc[d])'
  <2>1. CASE d = c
    <3>1. rpc'[d] = r
      BY <2>1 DEF PoolInv, PoolType
    <3> QED
      BY <3>1 DEF PassesNone
  <2>2. CASE d # c
    <3>1. rpc'[d] = rpc[d] /\ PassesNone(rpc[d])
      BY <2>2 DEF PoolInv, PoolType
    <3>2. Knowing(rpc[d].method)' \subseteq Knowing(rpc[d].method)
      BY <3>1 DEF Knowing
    <3> QED
      BY <3>1, <3>2 DEF PassesNone
  <2> QED
    BY <2>1, <2>2
<1> QED
  BY <1>1, <1>2 DEF PoolInv

LEMMA BeginCallKeeps == ASSUME PoolInv, NEW c \in Call, BeginCall(c) PROVE PoolInv'
<1>1. PICK m \in Method :
        /\ Knowing(m) # {}
        /\ rpc' = [rpc EXCEPT ![c] = [Quiet EXCEPT !.pc = "asking", !.method = m, !.left = Candidates(m),
                       !.spared = IF Available(m) # {} THEN Knowing(m) \ Available(m) ELSE {}]]
  BY DEF BeginCall
<1>2. PICK candidates, spared :
        /\ candidates = Candidates(m)
        /\ spared = IF Available(m) # {} THEN Knowing(m) \ Available(m) ELSE {}
  OBVIOUS
<1> DEFINE r == [Quiet EXCEPT !.pc = "asking", !.method = m, !.left = candidates, !.spared = spared]
<1>3. /\ candidates \in Seq(Endpoint) /\ candidates # <<>> /\ spared \in SUBSET Endpoint
      /\ Knowing(m) \subseteq spared \cup Pending(candidates)
  BY <1>1, <1>2, CandidatesCover DEF PoolInv, Knowing
<1>4. r.pc = "asking" /\ r.method = m /\ r.left = candidates /\ r.spared = spared
  BY DEF Quiet
<1>5. r \in RequestState
  BY <1>3 DEF Quiet, RequestState
<1>6. rpc' = [rpc EXCEPT ![c] = r] /\ UNCHANGED <<cooldown, unsupported>>
  BY <1>1, <1>2 DEF BeginCall
<1> HIDE DEF r
<1>7. Knowing(m)' = Knowing(m)
  BY <1>6 DEF Knowing
<1>8. PassesNone(r)'
  BY <1>3, <1>4, <1>7 DEF PassesNone
<1> QED
  BY <1>5, <1>6, <1>8, RequestGoesOn DEF PoolInv, PoolType

\* The endpoint whose turn it is has been asked, or the method is now known to
\* be none of its.
LEMMA MoveKeeps ==
  ASSUME PoolInv, NEW c \in Call, Asking(c), Move(c), cooldown' \in [Endpoint -> Nat],
         unsupported \subseteq unsupported'
  PROVE  PoolInv'
<1>1. PICK s : s = rpc[c]
  OBVIOUS
<1>2. s \in RequestState /\ PassesNone(s) /\ s.pc = "asking" /\ s.left # <<>>
  BY <1>1 DEF PoolInv, PoolType, Asking
<1>3. s.left \in Seq(Endpoint)
  BY <1>2 DEF RequestState
<1>4. PICK e, rest : e = Head(s.left) /\ rest = Tail(s.left)
  OBVIOUS
<1>5. e \in Endpoint /\ rest \in Seq(Endpoint) /\ Pending(s.left) \subseteq {e} \cup Pending(rest)
  BY <1>2, <1>3, <1>4, TailPending
<1> DEFINE r == [s EXCEPT !.left = rest, !.asked = @ \cup {e}]
<1>6. r.pc = "asking" /\ r.method = s.method /\ r.left = rest /\ r.asked = s.asked \cup {e} /\ r.spared = s.spared
  BY <1>2 DEF RequestState
<1>7. r \in RequestState
  BY <1>2, <1>5 DEF RequestState
<1>8. rpc' = [rpc EXCEPT ![c] = r]
  <2>1. rpc' = [rpc EXCEPT ![c] = [rpc[c] EXCEPT !.left = Tail(rpc[c].left), !.asked = rpc[c].asked \cup {Head(rpc[c].left)}]]
    BY DEF Move, Turn, PoolInv, PoolType
  <2> QED
    BY <1>1, <1>4, <2>1
<1> HIDE DEF r
<1>9. Knowing(s.method)' \subseteq Knowing(s.method)
  BY DEF Knowing
<1>10. PassesNone(r)'
  BY <1>2, <1>5, <1>6, <1>9 DEF PassesNone
<1> QED
  BY <1>7, <1>8, <1>10, RequestGoesOn

LEMMA RequestEnds ==
  ASSUME PoolInv, NEW c \in Call, rpc' = [rpc EXCEPT ![c] = Quiet],
         cooldown' \in [Endpoint -> Nat], UNCHANGED unsupported
  PROVE  PoolInv'
<1>1. PassesNone(Quiet)'
  BY QuietRequest DEF PassesNone
<1> QED
  BY <1>1, QuietRequest, RequestGoesOn

LEMMA AnsweringKeeps ==
  ASSUME PoolInv, NEW c \in Call, Answered(c) \/ RequestError(c) \/ GivesUp(c) PROVE PoolInv'
<1>1. cooldown' \in [Endpoint -> Nat]
  BY DEF Answered, RequestError, GivesUp, PoolInv, PoolType
<1> QED
  BY <1>1, RequestEnds DEF Answered, RequestError, GivesUp

LEMMA FailingKeeps ==
  ASSUME PoolInv, NEW c \in Call, FailsOver(c) \/ RateLimited(c) \/ CapacityUsedUp(c) \/ Unsupported(c)
  PROVE  PoolInv'
<1>1. RateLimitRest \in Nat /\ MonthlyRest \in Nat
  OBVIOUS
<1>2. cooldown' \in [Endpoint -> Nat]
  BY <1>1 DEF FailsOver, RateLimited, CapacityUsedUp, Unsupported, RestFor, PoolInv, PoolType
<1>3. unsupported \subseteq unsupported' /\ Asking(c) /\ Move(c)
  BY DEF FailsOver, RateLimited, CapacityUsedUp, Unsupported
<1> QED
  BY <1>2, <1>3, MoveKeeps

LEMMA CoolDownKeeps == ASSUME PoolInv, CoolDown PROVE PoolInv'
<1>1. cooldown' \in [Endpoint -> Nat]
  BY DEF CoolDown, PoolInv, PoolType
<1> QED
  BY <1>1 DEF CoolDown, PoolInv, PoolType, PassesNone, Knowing

LEMMA PoolStepKeeps == PoolInv /\ [PoolNext]_poolVars => PoolInv'
<1> SUFFICES ASSUME PoolInv, [PoolNext]_poolVars PROVE PoolInv'
  OBVIOUS
<1>1. CASE PoolNext
  BY <1>1, BeginCallKeeps, AnsweringKeeps, FailingKeeps, CoolDownKeeps DEF PoolNext
<1>2. CASE UNCHANGED poolVars
  BY <1>2 DEF poolVars, PoolInv, PoolType, PassesNone, Knowing
<1> QED
  BY <1>1, <1>2

\* A request gives up only when it has asked at least one endpoint, and every
\* one that knows the method, save those that rested while others did not
\* (availableRpcUrls, fetchEvmRpcJson).
THEOREM EndpointsWereTried == PoolSpec => []GaveUpMeansTried
<1>1. PoolInv => GaveUpMeansTried
  <2> SUFFICES ASSUME PoolInv, NEW c \in Call, rpc[c].pc = "asking", rpc[c].left = <<>>
               PROVE  rpc[c].asked # {} /\ Knowing(rpc[c].method) \subseteq rpc[c].asked \cup rpc[c].spared
    BY DEF GaveUpMeansTried
  <2>1. Pending(rpc[c].left) = {}
    BY DEF Pending
  <2> QED
    BY <2>1 DEF PoolInv, PassesNone
<1> QED
  BY <1>1, PoolInitial, PoolStepKeeps, PTL DEF PoolSpec

HIDE PoolAssumption

-----------------------------------------------------------------------------
(***************************************************************************)
(* The feed of Solana: a feed at rest is subscribed, and a replay that is  *)
(* over was complete, for any transactions, any lists and size of the      *)
(* pages, and any number of sockets and of changes of the list.            *)
(*                                                                         *)
(* What makes the first inductive: the current socket was opened for the   *)
(* list of the last comparison, is not closed, and asked for that list     *)
(* when it opened; and it is there unless a reconnection or a replay is    *)
(* pending.  For the second, a transaction that is due and whose wallet is *)
(* not yet listed is ahead of the cursor or was overtaken by it.  That the *)
(* pages then hold it rests on a count: of the transactions newer than it  *)
(* no two have the same rank, so that the pages before its own are full.   *)
(***************************************************************************)
USE FeedAssumption

Watched == UNION Lists
SocketState == [state : {"opening", "open", "closing", "closed"}, for : SUBSET Watched,
                subs : SUBSET Watched]
ReplayState == [pc : {"boot", "idle", "list", "hand"}, base : Int, todo : SUBSET Watched,
                found : SUBSET Announced, due : SUBSET Announced, waived : SUBSET Announced]

FeedShape ==
  /\ watching \in BOOLEAN /\ timer \in BOOLEAN /\ intentional \in BOOLEAN
  /\ list \in SUBSET Watched
  /\ sockets \in Seq(SocketState) /\ socket \in 0..Len(sockets)
  /\ replay \in ReplayState /\ replayed \in Int
  /\ height \in Nat /\ 1..height \subseteq Announced

\* The socket the closure refers to.
CurrentIsUp ==
  socket # NoSocket =>
    /\ sockets[socket].state # "closed"
    /\ sockets[socket].state = "open" => sockets[socket].for \subseteq sockets[socket].subs
    /\ fingerprint # {} => sockets[socket].for = fingerprint
SocketThere == watching /\ ~timer /\ replay.pc = "idle" /\ fingerprint # {} => socket # NoSocket

\* Where a transaction is that the replay owes.
Accounted(t) ==
  \/ t \in handed \/ t \in replay.waived \/ t \in replay.found
  \/ replay.pc = "list" /\ Owner[t] \in replay.todo /\ Slot[t] > replayed
NothingLost ==
  /\ replay.due \subseteq 1..height
  /\ watching /\ replay.pc \in {"list", "hand"} => \A t \in replay.due : Accounted(t)

FeedInv == FeedShape /\ CurrentIsUp /\ SocketThere /\ NothingLost

-----------------------------------------------------------------------------
(* The pages                                                                *)

\* Of the transactions of a wallet, no two have as many newer ones, and every
\* number of newer ones below theirs is that of one of them.
LEMMA RanksAreTaken ==
  ASSUME FeedShape, NEW a
  PROVE  LET n == Cardinality(Of(a))
         IN /\ n \in Nat
            /\ \A t \in Of(a) : Newer(a, t) \in 0..n - 1
            /\ \A t, u \in Of(a) : t < u => Newer(a, u) < Newer(a, t)
            /\ \A i \in 0..n - 1 : \E t \in Of(a) : Newer(a, t) = i
<1> DEFINE of == Of(a)
           n == Cardinality(of)
           After(t) == {u \in of : u > t}
<1>1. height \in Nat /\ of \in SUBSET (1..height)
  BY DEF FeedShape, Of
<1>2. IsFiniteSet(1..height)
  BY <1>1, FS_Interval
<1>3. IsFiniteSet(of) /\ n \in Nat /\ \A t \in of : t \in Nat
  BY <1>1, <1>2, FS_Subset, FS_CardinalityType
<1>4. \A t \in of : Newer(a, t) = Cardinality(After(t))
  BY DEF Newer
<1> HIDE DEF of
<1>5. ASSUME NEW t \in of PROVE IsFiniteSet(After(t)) /\ Cardinality(After(t)) \in Nat
  BY <1>3, FS_Subset, FS_CardinalityType
<1>6. ASSUME NEW t \in of PROVE Cardinality(After(t)) < n
  <2>1. After(t) \in SUBSET of /\ t \notin After(t)
    BY <1>3
  <2>2. Cardinality(After(t)) <= n /\ (n = Cardinality(After(t)) => of = After(t))
    BY <1>3, <2>1, FS_Subset
  <2> HIDE DEF After, n
  <2> QED
    BY <1>3, <1>5, <2>1, <2>2
<1>7. ASSUME NEW t \in of, NEW u \in of, t < u PROVE Cardinality(After(u)) < Cardinality(After(t))
  <2>1. After(u) \in SUBSET After(t) /\ u \in After(t) /\ u \notin After(u)
    BY <1>3, <1>7
  <2>2. /\ Cardinality(After(u)) <= Cardinality(After(t))
        /\ Cardinality(After(t)) = Cardinality(After(u)) => After(t) = After(u)
    BY <1>5, <2>1, FS_Subset
  <2> HIDE DEF After
  <2> QED
    BY <1>5, <2>1, <2>2
<1> HIDE DEF After
<1> DEFINE rank == [t \in of |-> Cardinality(After(t))]
<1>8. ASSUME NEW t \in of PROVE rank[t] \in 0..n - 1
  <2> HIDE DEF n
  <2> QED
    BY <1>3, <1>5, <1>6
<1>9. \A t, u \in of : t < u => rank[u] < rank[t]
  BY <1>7
<1>10. rank \in [of -> 0..n - 1]
  BY <1>8
<1> HIDE DEF rank
<1>11. \A t, u \in of : rank[t] = rank[u] => t = u
  <2>1. \A t, u \in of : t = u \/ t < u \/ u < t
    BY <1>3
  <2>2. \A t, u \in of : t < u => rank[t] # rank[u]
    BY <1>8, <1>9
  <2> QED
    BY <2>1, <2>2
<1>12. rank \in Injection(of, 0..n - 1)
  BY <1>10, <1>11 DEF Injection, IsInjective
<1>13. IsFiniteSet(0..n - 1) /\ Cardinality(0..n - 1) = n
  <2> HIDE DEF n
  <2>1. 0 \in Int /\ n - 1 \in Int
    BY <1>3
  <2>2. IsFiniteSet(0..n - 1) /\ Cardinality(0..n - 1) = IF 0 > n - 1 THEN 0 ELSE n - 1 - 0 + 1
    BY <2>1, FS_Interval
  <2> QED
    BY <1>3, <2>2
<1>14. Cardinality(of) = n
  OBVIOUS
<1> HIDE DEF n
<1>15. rank \in Surjection(of, 0..n - 1)
  BY <1>12, <1>13, <1>14, FS_Injection
<1>16. \A t \in of : rank[t] = Newer(a, t)
  BY <1>4 DEF rank
<1>17. /\ \A t \in of : Newer(a, t) \in 0..n - 1
       /\ \A t, u \in of : t < u => Newer(a, u) < Newer(a, t)
       /\ \A i \in 0..n - 1 : \E t \in of : Newer(a, t) = i
  BY <1>8, <1>9, <1>15, <1>16 DEF Surjection
<1> QED
  BY <1>3, <1>17 DEF n, of

\* A page is full if a transaction has as many newer ones as end it.
LEMMA FullPage ==
  ASSUME FeedShape, NEW a, NEW t \in Of(a), NEW k \in Nat \ {0}, k * PageSize <= Newer(a, t)
  PROVE  Cardinality(Page(a, k)) = PageSize
<1> DEFINE n == Cardinality(Of(a))
           page == Page(a, k)
           rank == [u \in page |-> Newer(a, u)]
<1>1. /\ n \in Nat /\ Newer(a, t) \in 0..n - 1
      /\ \A u \in Of(a) : Newer(a, u) \in 0..n - 1
      /\ \A u, v \in Of(a) : u < v => Newer(a, v) < Newer(a, u)
      /\ \A i \in 0..n - 1 : \E u \in Of(a) : Newer(a, u) = i
  BY RanksAreTaken
<1>2. PICK lo : lo = (k - 1) * PageSize
  OBVIOUS
<1>3. PageSize \in Nat \ {0}
  OBVIOUS
<1>4. lo \in Nat /\ k * PageSize = lo + PageSize
  BY <1>2, <1>3
<1>5. page = {u \in Of(a) : Newer(a, u) \in lo..lo + PageSize - 1}
  BY <1>2, <1>4 DEF Page
<1>6. lo + PageSize <= Newer(a, t)
  BY <1>4
<1> HIDE DEF n, page
<1>7. ASSUME NEW i \in lo..lo + PageSize - 1 PROVE i \in 0..n - 1
  BY <1>1, <1>3, <1>4, <1>6
<1>8. \A i \in lo..lo + PageSize - 1 : \E u \in page : Newer(a, u) = i
  BY <1>1, <1>5, <1>7
<1>9. \A u \in Of(a) : u \in Nat
  BY DEF Of
<1>10. \A u, v \in page : Newer(a, u) = Newer(a, v) => u = v
  <2>1. \A u, v \in page : u < v \/ u = v \/ v < u
    BY <1>5, <1>9
  <2>2. \A u, v \in page : u < v => Newer(a, u) # Newer(a, v)
    BY <1>1, <1>5
  <2> QED
    BY <2>1, <2>2
<1>11. rank \in [page -> lo..lo + PageSize - 1]
  BY <1>5
<1>12. rank \in Injection(page, lo..lo + PageSize - 1)
  BY <1>10, <1>11 DEF Injection, IsInjective
<1>13. rank \in Surjection(page, lo..lo + PageSize - 1)
  BY <1>8, <1>11 DEF Surjection
<1>14. IsFiniteSet(lo..lo + PageSize - 1) /\ Cardinality(lo..lo + PageSize - 1) = PageSize
  <2> DEFINE hi == lo + PageSize - 1
  <2>1. lo \in Int /\ hi \in Int /\ lo <= hi /\ hi - lo + 1 = PageSize
    BY <1>3, <1>4
  <2> HIDE DEF hi
  <2>2. IsFiniteSet(lo..hi) /\ Cardinality(lo..hi) = IF lo > hi THEN 0 ELSE hi - lo + 1
    BY <2>1, FS_Interval
  <2>3. IsFiniteSet(lo..hi) /\ Cardinality(lo..hi) = PageSize
    BY <2>1, <2>2
  <2> QED
    BY <2>3 DEF hi
<1> HIDE DEF rank
<1> QED
  BY <1>12, <1>13, <1>14, FS_Injection DEF page

\* A transaction ahead of the cursor is among those that are listed, unless it
\* lies beyond the last page.
LEMMA PagesHold ==
  ASSUME FeedShape, NEW a, NEW t \in Of(a), Slot[t] > replayed,
         NEW k \in 1..MaxPages, t \in Page(a, k)
  PROVE  t \in Missed(a)
<1>1. PageSize \in Nat \ {0} /\ MaxPages \in Nat
  OBVIOUS
<1>2. k \in Nat \ {0} /\ (k - 1) * PageSize <= Newer(a, t)
  BY <1>1 DEF Page
<1>3. /\ \A u \in Of(a) : Newer(a, u) \in Nat
      /\ \A u, v \in Of(a) : u < v => Newer(a, v) < Newer(a, u)
  BY RanksAreTaken
<1>4. replayed \in Int /\ \A u \in Of(a) : u \in Announced /\ u \in Nat
  BY DEF FeedShape, Of
<1>5. ASSUME NEW j \in 1..k - 1 PROVE ~PageIsLast(a, j)
  <2>1. j \in Nat \ {0} /\ j <= k - 1
    BY <1>2
  <2>2. j * PageSize <= (k - 1) * PageSize
    <3>1. (k - 1 - j) * PageSize \in Nat
      BY <1>1, <1>2, <2>1
    <3>2. (k - 1) * PageSize = j * PageSize + (k - 1 - j) * PageSize
      BY <1>1, <1>2, <2>1
    <3>3. j * PageSize \in Nat
      BY <1>1, <2>1
    <3> QED
      BY <3>1, <3>2, <3>3
  <2>3. j * PageSize \in Nat /\ (k - 1) * PageSize \in Nat
    BY <1>1, <1>2, <2>1
  <2>4. j * PageSize <= Newer(a, t)
    BY <1>2, <1>3, <2>2, <2>3
  <2>5. Cardinality(Page(a, j)) = PageSize
    BY <2>1, <2>4, FullPage
  <2>6. ASSUME NEW u \in Page(a, j) PROVE Slot[u] > replayed
    <3>1. u \in Of(a) /\ Newer(a, u) < j * PageSize
      BY <1>3, <2>3 DEF Page
    <3>2. Newer(a, u) < Newer(a, t)
      BY <1>3, <2>3, <2>4, <3>1
    <3>3. ~(u < t) /\ u # t
      BY <1>3, <3>1, <3>2
    <3>4. t < u
      BY <1>4, <3>1, <3>3
    <3>5. Slot[t] <= Slot[u] /\ Slot[t] \in Nat /\ Slot[u] \in Nat
      BY <1>4, <3>1, <3>4
    <3> QED
      BY <1>4, <3>5
  <2>7. \A u \in Page(a, j) : Slot[u] \in Nat
    BY <1>4 DEF Page
  <2> HIDE FeedAssumption
  <2> QED
    BY <1>1, <1>4, <2>5, <2>6, <2>7 DEF PageIsLast
<1> QED
  BY <1>5 DEF Missed

-----------------------------------------------------------------------------
(* The sockets                                                              *)

LEMMA SetSocket ==
  ASSUME NEW q \in Seq(SocketState), NEW s \in 1..Len(q), NEW r \in SocketState
  PROVE  /\ [q EXCEPT ![s] = r] \in Seq(SocketState) /\ Len([q EXCEPT ![s] = r]) = Len(q)
         /\ [q EXCEPT ![s] = r][s] = r
         /\ \A i \in 1..Len(q) : i # s => [q EXCEPT ![s] = r][i] = q[i]
  OBVIOUS

\* What the current socket's record is afterwards decides CurrentIsUp.
LEMMA SocketsChange ==
  ASSUME FeedShape, CurrentIsUp, UNCHANGED <<socket, fingerprint>>,
         sockets' \in Seq(SocketState), Len(sockets') = Len(sockets),
         socket # NoSocket =>
           /\ sockets'[socket].state # "closed" /\ sockets'[socket].for = sockets[socket].for
           /\ sockets'[socket].state = "open" => sockets'[socket].for \subseteq sockets'[socket].subs
  PROVE  CurrentIsUp' /\ sockets' \in Seq(SocketState) /\ socket' \in 0..Len(sockets')
  BY DEF FeedShape, CurrentIsUp

\* connect(): nothing when the watcher was stopped, no socket for no wallets.
LEMMA Connects ==
  ASSUME FeedShape, NEW before \in Seq(SocketState), Len(before) = Len(sockets), ConnectAfter(before)
  PROVE  /\ sockets' \in Seq(SocketState) /\ socket' \in 0..Len(sockets')
         /\ ~watching => UNCHANGED <<socket, fingerprint>> /\ sockets' = before
         /\ watching /\ list = {} => fingerprint' = {} /\ UNCHANGED socket /\ sockets' = before
         /\ watching /\ list # {} =>
              /\ socket' # NoSocket /\ sockets'[socket'].state = "opening"
              /\ sockets'[socket'].for = list /\ fingerprint' = list
<1>1. CASE ~watching \/ list = {}
  BY <1>1 DEF ConnectAfter, FeedShape
<1>2. CASE watching /\ list # {}
  <2>1. PICK r : r = [state |-> "opening", for |-> list, subs |-> {}]
    OBVIOUS
  <2>2. r \in SocketState /\ r.state = "opening" /\ r.for = list
    BY <2>1 DEF SocketState, FeedShape
  <2>3. sockets' = Append(before, r) /\ socket' = Len(before) + 1 /\ fingerprint' = list
    BY <1>2, <2>1 DEF ConnectAfter
  <2>4. /\ sockets' \in Seq(SocketState) /\ socket' \in 1..Len(sockets')
        /\ sockets'[socket'] = r
    BY <2>2, <2>3
  <2> QED
    BY <1>2, <2>2, <2>3, <2>4 DEF NoSocket
<1> QED
  BY <1>1, <1>2

\* The socket a connection is made for is the current one from then on.
LEMMA ConnectKeeps ==
  ASSUME FeedShape, CurrentIsUp, Connect, UNCHANGED watching
  PROVE  /\ sockets' \in Seq(SocketState) /\ socket' \in 0..Len(sockets')
         /\ CurrentIsUp' /\ SocketThere'
<1>1. sockets \in Seq(SocketState)
  BY DEF FeedShape
<1>2. /\ sockets' \in Seq(SocketState) /\ socket' \in 0..Len(sockets')
      /\ ~watching => UNCHANGED <<socket, fingerprint>> /\ sockets' = sockets
      /\ watching /\ list = {} => fingerprint' = {} /\ UNCHANGED socket /\ sockets' = sockets
      /\ watching /\ list # {} =>
           /\ socket' # NoSocket /\ sockets'[socket'].state = "opening"
           /\ sockets'[socket'].for = list /\ fingerprint' = list
  BY <1>1, Connects DEF Connect
<1>3. watching \in BOOLEAN
  BY DEF FeedShape
<1> QED
  BY <1>2, <1>3 DEF CurrentIsUp, SocketThere

\* Nothing of the replay is touched.
LEMMA ReplayRests ==
  ASSUME NothingLost, UNCHANGED <<replay, replayed, height, handed>>, watching' => watching
  PROVE  NothingLost'
  BY DEF NothingLost, Accounted

LEMMA OpensKeeps == ASSUME FeedInv, NEW s \in DOMAIN sockets, SocketOpens(s) PROVE FeedInv'
<1> USE DEF FeedInv
<1>1. sockets \in Seq(SocketState) /\ socket \in 0..Len(sockets) /\ s \in 1..Len(sockets) /\ Len(sockets) \in Nat
  BY DEF FeedShape
<1>2. PICK r : r = sockets[s]
  OBVIOUS
<1>3. r \in SocketState
  BY <1>1, <1>2
<1> DEFINE raised == [r EXCEPT !.state = "open"]
           opened == [sockets EXCEPT ![s] = raised]
<1>4. raised \in SocketState /\ raised.state = "open" /\ raised.for = r.for
  BY <1>3 DEF SocketState
<1> HIDE DEF raised
<1>5. /\ opened \in Seq(SocketState) /\ Len(opened) = Len(sockets) /\ opened[s] = raised
      /\ \A i \in 1..Len(sockets) : i # s => opened[i] = sockets[i]
  BY <1>1, <1>4, SetSocket
<1>6. sockets' = IF socket # NoSocket /\ opened[socket].state = "open"
                 THEN [opened EXCEPT ![socket].subs = @ \cup r.for] ELSE opened
  BY <1>1, <1>2 DEF SocketOpens, raised
<1>7. UNCHANGED <<watching, list, socket, fingerprint, timer, intentional, replay, replayed, height, handed>>
  BY DEF SocketOpens
<1> HIDE DEF opened
<1>8. CASE ~(socket # NoSocket /\ opened[socket].state = "open")
  <2>1. sockets' = opened
    BY <1>6, <1>8
  <2>2. socket # NoSocket => socket \in 1..Len(sockets) /\ socket # s
    BY <1>1, <1>4, <1>5, <1>8 DEF NoSocket
  <2>3. CurrentIsUp' /\ sockets' \in Seq(SocketState) /\ socket' \in 0..Len(sockets')
    BY <1>5, <1>7, <2>1, <2>2, SocketsChange DEF CurrentIsUp
  <2>4. NothingLost'
    BY <1>7, ReplayRests
  <2> QED
    BY <1>7, <2>3, <2>4 DEF FeedShape, SocketThere
<1>9. CASE socket # NoSocket /\ opened[socket].state = "open"
  <2>1. socket \in 1..Len(opened)
    BY <1>1, <1>5, <1>9 DEF NoSocket
  <2>2. PICK now1 : now1 = opened[socket]
    OBVIOUS
  <2>3. now1 \in SocketState /\ now1.state = "open" /\ now1.for = sockets[socket].for
    BY <1>2, <1>4, <1>5, <1>9, <2>1, <2>2
  <2> DEFINE asked == [now1 EXCEPT !.subs = @ \cup r.for]
  <2>4. asked \in SocketState /\ asked.state = "open" /\ asked.for = now1.for /\ asked.subs = now1.subs \cup r.for
    BY <1>3, <2>3 DEF SocketState
  <2>5. sockets' = [opened EXCEPT ![socket] = asked]
    BY <1>5, <1>6, <1>9, <2>1, <2>2
  <2> HIDE DEF asked
  <2>6. sockets' \in Seq(SocketState) /\ Len(sockets') = Len(sockets) /\ sockets'[socket] = asked
    BY <1>5, <2>1, <2>4, <2>5, SetSocket
  <2>7. asked.for \subseteq asked.subs
    <3>1. CASE socket = s
      BY <1>2, <2>3, <2>4, <3>1
    <3>2. CASE socket # s
      <4>1. now1 = sockets[socket]
        BY <1>1, <1>5, <2>1, <2>2, <3>2
      <4>2. sockets[socket].for \subseteq sockets[socket].subs
        BY <1>9, <2>3, <4>1 DEF CurrentIsUp
      <4> QED
        BY <2>4, <4>1, <4>2
    <3> QED
      BY <3>1, <3>2
  <2>8. CurrentIsUp' /\ sockets' \in Seq(SocketState) /\ socket' \in 0..Len(sockets')
    BY <1>7, <2>3, <2>4, <2>6, <2>7, SocketsChange
  <2>9. NothingLost'
    BY <1>7, ReplayRests
  <2> QED
    BY <1>7, <2>8, <2>9 DEF FeedShape, SocketThere
<1> QED
  BY <1>8, <1>9

\* A socket begins to close; if it is the current one, its list stays.
LEMMA ClosingKeeps ==
  ASSUME FeedInv, NEW s \in DOMAIN sockets, sockets' = Close(s), UNCHANGED <<socket, fingerprint>>
  PROVE  CurrentIsUp' /\ sockets' \in Seq(SocketState) /\ socket' \in 0..Len(sockets')
<1> USE DEF FeedInv
<1>1. sockets \in Seq(SocketState) /\ socket \in 0..Len(sockets) /\ s \in 1..Len(sockets) /\ Len(sockets) \in Nat
  BY DEF FeedShape
<1>2. PICK r : r = sockets[s]
  OBVIOUS
<1> DEFINE down == [r EXCEPT !.state = "closing"]
<1>3. r \in SocketState
  BY <1>1, <1>2
<1>4. down \in SocketState /\ down.state = "closing" /\ down.for = r.for
  BY <1>3 DEF SocketState
<1>5. sockets' = [sockets EXCEPT ![s] = down]
  BY <1>1, <1>2 DEF Close
<1> HIDE DEF down
<1>6. /\ sockets' \in Seq(SocketState) /\ Len(sockets') = Len(sockets) /\ sockets'[s] = down
      /\ \A i \in 1..Len(sockets) : i # s => sockets'[i] = sockets[i]
  BY <1>1, <1>4, <1>5, SetSocket
<1>7. socket # NoSocket => socket \in 1..Len(sockets)
  BY <1>1 DEF NoSocket
<1> QED
  BY <1>2, <1>4, <1>6, <1>7, SocketsChange DEF CurrentIsUp

LEMMA FailsKeeps == ASSUME FeedInv, NEW s \in DOMAIN sockets, SocketFails(s) PROVE FeedInv'
<1>1. CurrentIsUp' /\ sockets' \in Seq(SocketState) /\ socket' \in 0..Len(sockets')
  BY ClosingKeeps DEF SocketFails
<1>2. NothingLost'
  BY ReplayRests DEF SocketFails, FeedInv
<1> QED
  BY <1>1, <1>2 DEF FeedInv, SocketFails, FeedShape, SocketThere

LEMMA GoneIsSockets ==
  ASSUME FeedShape, NEW s \in DOMAIN sockets
  PROVE  Gone(s) \in Seq(SocketState) /\ Len(Gone(s)) = Len(sockets)
<1>1. sockets \in Seq(SocketState) /\ s \in 1..Len(sockets)
  BY DEF FeedShape
<1>2. [state |-> "closed", for |-> {}, subs |-> {}] \in SocketState
  BY DEF SocketState
<1> QED
  BY <1>1, <1>2, SetSocket DEF Gone

LEMMA CloseKeeps == ASSUME FeedInv, NEW s \in DOMAIN sockets, CloseEvent(s) PROVE FeedInv'
<1> USE DEF FeedInv
<1>1. Gone(s) \in Seq(SocketState) /\ Len(Gone(s)) = Len(sockets)
  BY GoneIsSockets
<1>2. /\ socket' = NoSocket /\ sockets' = Gone(s) /\ timer' = (timer \/ watching)
      /\ UNCHANGED <<watching, list, fingerprint, intentional, replay, replayed, height, handed>>
  BY DEF CloseEvent
<1>3. sockets' \in Seq(SocketState) /\ socket' \in 0..Len(sockets')
  BY <1>1, <1>2 DEF NoSocket
<1>4. CurrentIsUp'
  BY <1>2 DEF CurrentIsUp
<1>5. SocketThere' /\ timer' \in BOOLEAN
  BY <1>2 DEF SocketThere, FeedShape
<1>6. NothingLost'
  BY <1>2, ReplayRests
<1>7. FeedShape'
  BY <1>2, <1>3, <1>5 DEF FeedShape
<1> QED
  BY <1>4, <1>5, <1>6, <1>7

LEMMA IntendedKeeps == ASSUME FeedInv, NEW s \in DOMAIN sockets, CloseEventIntended(s) PROVE FeedInv'
<1> USE DEF FeedInv
<1>1. Gone(s) \in Seq(SocketState) /\ Len(Gone(s)) = Len(sockets)
  BY GoneIsSockets
<1>2. /\ watching /\ intentional' = FALSE
      /\ UNCHANGED <<watching, list, timer, replay, replayed, height, handed>>
  BY DEF CloseEventIntended
<1>3. NothingLost'
  BY <1>2, ReplayRests
<1>4. CASE list = {}
  <2>1. socket' = NoSocket /\ sockets' = Gone(s) /\ fingerprint' = {}
    BY <1>4 DEF CloseEventIntended
  <2>2. sockets' \in Seq(SocketState) /\ socket' \in 0..Len(sockets')
    BY <1>1, <2>1 DEF NoSocket
  <2>3. CurrentIsUp' /\ SocketThere'
    BY <2>1 DEF CurrentIsUp, SocketThere
  <2> QED
    BY <1>2, <1>3, <2>2, <2>3 DEF FeedShape
<1>5. CASE list # {}
  <2>1. ConnectAfter(Gone(s))
    BY <1>5 DEF CloseEventIntended
  <2>2. /\ sockets' \in Seq(SocketState) /\ socket' \in 0..Len(sockets')
        /\ socket' # NoSocket /\ sockets'[socket'].state = "opening"
        /\ sockets'[socket'].for = list /\ fingerprint' = list
    BY <1>1, <1>2, <1>5, <2>1, Connects
  <2>3. CurrentIsUp' /\ SocketThere'
    BY <2>2 DEF CurrentIsUp, SocketThere
  <2> QED
    BY <1>2, <1>3, <2>2, <2>3 DEF FeedShape
<1> QED
  BY <1>4, <1>5

LEMMA CheckListKeeps == ASSUME FeedInv, CheckList PROVE FeedInv'
<1> USE DEF FeedInv
<1>1. /\ intentional' = TRUE
      /\ UNCHANGED <<watching, list, timer, replay, replayed, height, handed>>
  BY DEF CheckList
<1>2. NothingLost'
  BY <1>1, ReplayRests
<1>3. CASE socket = NoSocket
  <2>1. /\ sockets' \in Seq(SocketState) /\ socket' \in 0..Len(sockets')
        /\ CurrentIsUp' /\ SocketThere'
    BY <1>1, <1>3, ConnectKeeps DEF CheckList
  <2> QED
    BY <1>1, <1>2, <2>1 DEF FeedShape
<1>4. CASE socket # NoSocket
  <2>1. socket \in DOMAIN sockets /\ UNCHANGED <<socket, fingerprint>>
    BY <1>4 DEF FeedShape, NoSocket, CheckList
  <2>2. CurrentIsUp' /\ sockets' \in Seq(SocketState) /\ socket' \in 0..Len(sockets')
    <3>1. CASE Up(socket)
      BY <1>4, <2>1, <3>1, ClosingKeeps DEF CheckList
    <3>2. CASE ~Up(socket)
      BY <1>4, <2>1, <3>2 DEF CheckList, CurrentIsUp, FeedShape
    <3> QED
      BY <3>1, <3>2
  <2>3. SocketThere'
    BY <1>1, <1>4, <2>1 DEF SocketThere
  <2> QED
    BY <1>1, <1>2, <2>2, <2>3 DEF FeedShape
<1> QED
  BY <1>3, <1>4

LEMMA StopKeeps == ASSUME FeedInv, Stop PROVE FeedInv'
<1> USE DEF FeedInv
<1>1. /\ watching' = FALSE /\ timer' = FALSE
      /\ UNCHANGED <<list, socket, fingerprint, intentional, replay, replayed, height, handed>>
  BY DEF Stop
<1>2. CurrentIsUp' /\ sockets' \in Seq(SocketState) /\ socket' \in 0..Len(sockets')
  <2>1. CASE socket # NoSocket /\ Up(socket)
    <3>1. socket \in DOMAIN sockets /\ sockets' = Close(socket)
      BY <2>1 DEF FeedShape, NoSocket, Stop
    <3> QED
      BY <1>1, <3>1, ClosingKeeps
  <2>2. CASE ~(socket # NoSocket /\ Up(socket))
    BY <1>1, <2>2 DEF Stop, CurrentIsUp, FeedShape
  <2> QED
    BY <2>1, <2>2
<1>3. NothingLost' /\ SocketThere'
  BY <1>1, ReplayRests DEF SocketThere
<1> QED
  BY <1>1, <1>2, <1>3 DEF FeedShape

-----------------------------------------------------------------------------
(* The replay                                                               *)

LEMMA NoReplayIsReplay == NoReplay \in ReplayState /\ NoReplay.pc = "idle" /\ NoReplay.due = {}
  BY DEF NoReplay, ReplayState

LEMMA FeedInitial == SolanaInit => FeedInv
<1> SUFFICES ASSUME SolanaInit PROVE FeedInv
  OBVIOUS
<1>1. /\ replay \in ReplayState /\ replay.pc = "boot" /\ replay.due = {}
  BY NoReplayIsReplay DEF SolanaInit, NoReplay, ReplayState
<1>2. list \in SUBSET Watched
  BY DEF SolanaInit, Watched
<1>3. sockets \in Seq(SocketState) /\ socket \in 0..Len(sockets)
  BY DEF SolanaInit, NoSocket
<1>4. replayed \in Int /\ height \in Nat /\ 1..height \subseteq Announced
  BY DEF SolanaInit, NothingReplayed
<1>5. FeedShape
  BY <1>1, <1>2, <1>3, <1>4 DEF SolanaInit, FeedShape
<1>6. CurrentIsUp /\ SocketThere /\ NothingLost
  BY <1>1 DEF SolanaInit, CurrentIsUp, SocketThere, NothingLost
<1> QED
  BY <1>5, <1>6 DEF FeedInv

\* A replay begins, or a connection is made at once and the replay becomes rest.
LEMMA ReplayOrConnectKeeps ==
  ASSUME FeedInv, NEW rest \in ReplayState, ReplayOrConnect(rest),
         rest = NoReplay \/ rest = replay,
         UNCHANGED <<watching, list, intentional, replayed, height, handed>>, timer' \in BOOLEAN
  PROVE  FeedInv'
<1> USE DEF FeedInv
<1>1. CASE replayed = NothingReplayed \/ Replaying
  <2>1. replay' = rest /\ Connect
    BY <1>1 DEF ReplayOrConnect
  <2>2. /\ sockets' \in Seq(SocketState) /\ socket' \in 0..Len(sockets')
        /\ CurrentIsUp' /\ SocketThere'
    BY <2>1, ConnectKeeps
  <2>3. NothingLost'
    BY <2>1, NoReplayIsReplay, ReplayRests DEF NothingLost
  <2> QED
    BY <2>1, <2>2, <2>3 DEF FeedShape
<1>2. CASE ~(replayed = NothingReplayed \/ Replaying)
  <2> DEFINE owed == {t \in 1..height : Owner[t] \in list /\ Slot[t] > replayed}
             begun == [NoReplay EXCEPT !.pc = "list", !.base = replayed, !.todo = list, !.due = owed]
  <2>1. replay' = begun /\ UNCHANGED connection
    BY <1>2 DEF ReplayOrConnect
  <2>2. owed \subseteq 1..height /\ owed \subseteq Announced
    BY DEF FeedShape
  <2>3. \A t \in owed : Owner[t] \in list /\ Slot[t] > replayed
    OBVIOUS
  <2> HIDE DEF owed
  <2>4. begun.pc = "list" /\ begun.todo = list /\ begun.due = owed
    BY DEF NoReplay
  <2>5. begun \in ReplayState
    BY <2>2, NoReplayIsReplay DEF NoReplay, ReplayState, FeedShape
  <2> HIDE DEF begun
  <2>6. FeedShape'
    BY <2>1, <2>5 DEF FeedShape, connection
  <2>7. CurrentIsUp' /\ SocketThere'
    BY <2>1, <2>4 DEF CurrentIsUp, SocketThere, connection
  <2>8. NothingLost'
    BY <2>1, <2>2, <2>3, <2>4 DEF NothingLost, Accounted
  <2> QED
    BY <2>6, <2>7, <2>8
<1> QED
  BY <1>1, <1>2

LEMMA StartsKeep == ASSUME FeedInv, StartWatching \/ TimerFires PROVE FeedInv'
<1>1. timer \in BOOLEAN /\ replay \in ReplayState /\ NoReplay \in ReplayState
  BY NoReplayIsReplay DEF FeedInv, FeedShape
<1>2. CASE StartWatching
  BY <1>1, <1>2, ReplayOrConnectKeeps DEF StartWatching
<1>3. CASE TimerFires
  BY <1>1, <1>3, ReplayOrConnectKeeps DEF TimerFires
<1> QED
  BY <1>2, <1>3

LEMMA ReplayOverKeeps == ASSUME FeedInv, ReplayEnds \/ ReplayFails PROVE FeedInv'
<1> USE DEF FeedInv
<1>1. /\ replay' = NoReplay /\ Connect
      /\ UNCHANGED <<watching, list, timer, intentional, replayed, height, handed>>
  BY DEF ReplayEnds, ReplayFails
<1>2. /\ sockets' \in Seq(SocketState) /\ socket' \in 0..Len(sockets')
      /\ CurrentIsUp' /\ SocketThere'
  BY <1>1, ConnectKeeps
<1>3. NothingLost'
  BY <1>1, NoReplayIsReplay DEF NothingLost
<1> QED
  BY <1>1, <1>2, <1>3, NoReplayIsReplay DEF FeedShape

\* The connection is untouched while a replay goes on.
LEMMA SocketsRest ==
  ASSUME CurrentIsUp, SocketThere, UNCHANGED <<watching, connection, timer>>,
         replay'.pc = "idle" => replay.pc = "idle"
  PROVE  CurrentIsUp' /\ SocketThere'
  BY DEF CurrentIsUp, SocketThere, connection

LEMMA ListMissedKeeps == ASSUME FeedInv, NEW a \in replay.todo, ListMissed(a) PROVE FeedInv'
<1> USE DEF FeedInv
<1> DEFINE beyond == Of(a) \ UNION {Page(a, k) : k \in 1..MaxPages}
<1>1. PICK lost1 \in SUBSET Missed(a) :
        replay' = [replay EXCEPT !.todo = @ \ {a}, !.found = @ \cup (Missed(a) \ lost1),
                                 !.waived = @ \cup lost1 \cup beyond]
  BY DEF ListMissed
<1>2. /\ replay.pc = "list"
      /\ UNCHANGED <<watching, list, connection, timer, intentional, replayed, height, handed>>
  BY DEF ListMissed
<1>3. PICK r, hit : r = replay /\ hit = Missed(a)
  OBVIOUS
<1>4. r \in ReplayState /\ r.pc = "list"
  BY <1>2, <1>3 DEF FeedShape
<1>5. Of(a) \subseteq Announced /\ hit \subseteq Announced
  BY <1>3 DEF FeedShape, Of, Missed, Page
<1>6. \A t \in 1..height : Owner[t] = a /\ Slot[t] > replayed => t \in hit \/ t \in beyond
  <2> SUFFICES ASSUME NEW t \in 1..height, Owner[t] = a, Slot[t] > replayed, t \notin beyond
               PROVE  t \in hit
    OBVIOUS
  <2>1. t \in Of(a)
    BY DEF Of
  <2>2. PICK k \in 1..MaxPages : t \in Page(a, k)
    BY <2>1
  <2> QED
    BY <1>3, <2>1, <2>2, PagesHold
<1>7. beyond \subseteq Announced
  BY <1>5
<1> HIDE DEF beyond
<1> DEFINE next == [r EXCEPT !.todo = @ \ {a}, !.found = @ \cup (hit \ lost1),
                             !.waived = @ \cup lost1 \cup beyond]
<1>8. /\ next.pc = "list" /\ next.todo = r.todo \ {a} /\ next.due = r.due
      /\ next.found = r.found \cup (hit \ lost1) /\ next.waived = r.waived \cup lost1 \cup beyond
  BY <1>4 DEF ReplayState
<1>9. next \in ReplayState
  BY <1>1, <1>3, <1>4, <1>5, <1>7 DEF ReplayState
<1>10. replay' = next
  BY <1>1, <1>3
<1> HIDE DEF next
<1>11. FeedShape'
  BY <1>2, <1>9, <1>10 DEF FeedShape, connection
<1>12. CurrentIsUp' /\ SocketThere'
  BY <1>2, <1>8, <1>10, SocketsRest
<1>13. NothingLost'
  <2>1. ASSUME NEW t \in replay'.due, watching PROVE Accounted(t)'
    <3>1. t \in r.due /\ t \in 1..height /\ Accounted(t)
      BY <1>2, <1>3, <1>8, <1>10, <2>1 DEF NothingLost
    <3> QED
      BY <1>2, <1>3, <1>6, <1>8, <1>10, <3>1 DEF Accounted
  <2>2. replay'.due \subseteq 1..height'
    BY <1>2, <1>3, <1>8, <1>10 DEF NothingLost
  <2> QED
    BY <1>2, <2>1, <2>2 DEF NothingLost
<1> QED
  BY <1>11, <1>12, <1>13

LEMMA AllListedKeeps == ASSUME FeedInv, AllListed PROVE FeedInv'
<1> USE DEF FeedInv
<1>1. /\ replay.pc = "list" /\ replay.todo = {} /\ replay' = [replay EXCEPT !.pc = "hand"]
      /\ UNCHANGED <<watching, list, connection, timer, intentional, replayed, height, handed>>
  BY DEF AllListed
<1>2. /\ replay' \in ReplayState /\ replay'.pc = "hand" /\ replay'.due = replay.due
      /\ replay'.found = replay.found /\ replay'.waived = replay.waived
  BY <1>1 DEF FeedShape, ReplayState
<1>3. FeedShape'
  BY <1>1, <1>2 DEF FeedShape, connection
<1>4. CurrentIsUp' /\ SocketThere'
  BY <1>1, <1>2, SocketsRest
<1>5. NothingLost'
  BY <1>1, <1>2 DEF NothingLost, Accounted
<1> QED
  BY <1>3, <1>4, <1>5

LEMMA ReplayNextKeeps == ASSUME FeedInv, ReplayNext PROVE FeedInv'
<1> USE DEF FeedInv
<1>1. PICK t \in replay.found :
        /\ HandOver({t}) /\ replayed' = LaterSlot(replayed, Slot[t])
        /\ replay' = [replay EXCEPT !.found = @ \ {t}]
  BY DEF ReplayNext
<1>2. /\ replay.pc = "hand"
      /\ UNCHANGED <<watching, list, connection, timer, intentional, height>>
  BY DEF ReplayNext
<1>3. /\ replay' \in ReplayState /\ replay'.pc = "hand" /\ replay'.due = replay.due
      /\ replay'.found = replay.found \ {t} /\ replay'.waived = replay.waived
  BY <1>1, <1>2 DEF FeedShape, ReplayState
<1>4. t \in Announced
  BY DEF FeedShape, ReplayState
<1>5. replayed' \in Int
  BY <1>1, <1>4 DEF LaterSlot, FeedShape
<1>6. FeedShape'
  BY <1>2, <1>3, <1>5 DEF FeedShape, connection
<1>7. CurrentIsUp' /\ SocketThere'
  BY <1>2, <1>3, SocketsRest
<1>8. watching => handed' = handed \cup {t}
  BY <1>1 DEF HandOver
<1>9. NothingLost'
  BY <1>2, <1>3, <1>8 DEF NothingLost, Accounted
<1> QED
  BY <1>6, <1>7, <1>9

\* The cursor moves past what is due: that is waived.
LEMMA LiveHandledKeeps == ASSUME FeedInv, NEW t \in Announced, LiveHandled(t) PROVE FeedInv'
<1> USE DEF FeedInv
<1>1. /\ HandOver({t}) /\ replayed' = LaterSlot(replayed, Slot[t])
      /\ UNCHANGED <<watching, list, connection, timer, intentional, height>>
  BY DEF LiveHandled
<1>2. replayed \in Int /\ Slot[t] \in Nat /\ \A u \in replay.due : Slot[u] \in Nat
  BY DEF FeedShape, ReplayState
<1>3. replayed' \in Int /\ replayed' \in {replayed, Slot[t]}
  BY <1>1, <1>2 DEF LaterSlot
<1>4. handed \subseteq handed' \/ ~watching
  BY <1>1 DEF HandOver, FeedShape
<1>5. CASE Replaying
  <2> DEFINE overtaken == {u \in replay.due : Slot[u] <= Slot[t]}
  <2>1. /\ replay' \in ReplayState /\ replay'.pc = replay.pc /\ replay'.due = replay.due
        /\ replay'.found = replay.found /\ replay'.todo = replay.todo
        /\ replay'.waived = replay.waived \cup overtaken
    BY <1>5 DEF LiveHandled, FeedShape, ReplayState
  <2>2. FeedShape'
    BY <1>1, <1>3, <2>1 DEF FeedShape, connection
  <2>3. CurrentIsUp' /\ SocketThere'
    BY <1>1, <2>1, SocketsRest
  <2>4. \A u \in replay.due : Slot[u] > replayed => Slot[u] > replayed' \/ u \in overtaken
    BY <1>2, <1>3
  <2> HIDE DEF overtaken
  <2>5. NothingLost'
    BY <1>1, <1>4, <2>1, <2>4 DEF NothingLost, Accounted
  <2> QED
    BY <2>2, <2>3, <2>5
<1>6. CASE ~Replaying
  <2>1. replay' = replay
    BY <1>6 DEF LiveHandled
  <2>2. NothingLost'
    BY <1>1, <1>6, <2>1 DEF NothingLost, Replaying
  <2> QED
    BY <1>1, <1>3, <2>1, <2>2, SocketsRest DEF FeedShape, connection
<1> QED
  BY <1>5, <1>6

LEMMA ConfirmKeeps == ASSUME FeedInv, Confirm PROVE FeedInv'
<1> USE DEF FeedInv
<1>1. /\ height + 1 \in Announced /\ height' = height + 1
      /\ UNCHANGED <<watching, list, connection, timer, intentional, replay, replayed, handed>>
  BY DEF Confirm
<1>2. height \in Nat /\ 1..height \subseteq Announced
  BY DEF FeedShape
<1>3. height' \in Nat /\ 1..height \subseteq 1..height' /\ 1..height' \subseteq Announced
  <2> HIDE FeedAssumption
  <2> QED
    BY <1>1, <1>2
<1>4. FeedShape'
  BY <1>1, <1>3 DEF FeedShape, connection
<1>5. CurrentIsUp' /\ SocketThere'
  BY <1>1, SocketsRest
<1>6. NothingLost'
  BY <1>1, <1>3 DEF NothingLost, Accounted
<1> QED
  BY <1>4, <1>5, <1>6

LEMMA OthersKeep == ASSUME FeedInv, ChangeList \/ \E t \in Announced : LiveMissed(t) PROVE FeedInv'
<1> USE DEF FeedInv
<1>1. /\ UNCHANGED <<watching, connection, timer, intentional, replay, replayed, height, handed>>
      /\ list' \in SUBSET Watched
  BY DEF ChangeList, LiveMissed, FeedShape, Watched
<1>2. FeedShape'
  BY <1>1 DEF FeedShape, connection
<1>3. CurrentIsUp' /\ SocketThere'
  BY <1>1, SocketsRest
<1>4. NothingLost'
  BY <1>1, ReplayRests
<1> QED
  BY <1>2, <1>3, <1>4

LEMMA FeedStepKeeps == FeedInv /\ [SolanaNext]_solanaVars => FeedInv'
<1> SUFFICES ASSUME FeedInv, [SolanaNext]_solanaVars PROVE FeedInv'
  OBVIOUS
<1>1. CASE StartWatching \/ TimerFires \/ AllListed \/ ReplayNext \/ ReplayEnds \/ ReplayFails
  BY <1>1, StartsKeep, AllListedKeeps, ReplayNextKeeps, ReplayOverKeeps
<1>2. CASE Confirm \/ ChangeList \/ CheckList \/ Stop
  BY <1>2, ConfirmKeeps, OthersKeep, CheckListKeeps, StopKeeps
<1>3. CASE \E a \in replay.todo : ListMissed(a)
  BY <1>3, ListMissedKeeps
<1>4. CASE \E s \in DOMAIN sockets :
             SocketOpens(s) \/ SocketFails(s) \/ CloseEvent(s) \/ CloseEventIntended(s)
  BY <1>4, OpensKeeps, FailsKeeps, CloseKeeps, IntendedKeeps
<1>5. CASE \E t \in Announced : LiveHandled(t) \/ LiveMissed(t)
  BY <1>5, LiveHandledKeeps, OthersKeep
<1>6. CASE UNCHANGED solanaVars
  <2>1. /\ UNCHANGED <<watching, connection, timer, intentional, list, replay, replayed, height, handed>>
    BY <1>6 DEF solanaVars
  <2>2. CurrentIsUp' /\ SocketThere' /\ NothingLost'
    BY <2>1, SocketsRest, ReplayRests DEF FeedInv
  <2> QED
    BY <2>1, <2>2 DEF FeedInv, FeedShape, connection
<1> QED
  BY <1>1, <1>2, <1>3, <1>4, <1>5, <1>6 DEF SolanaNext

LEMMA FeedIsSound == SolanaSpec => []FeedInv
  BY FeedInitial, FeedStepKeeps, PTL DEF SolanaSpec

\* Whenever nothing is pending and the timer has nothing to change, the current
\* socket is not closed, and once open it has asked for every wallet (connect
\* and its listeners).
THEOREM FeedSettles == SolanaSpec => []SettledIsSubscribed
<1>1. FeedInv => SettledIsSubscribed
  BY DEF FeedInv, CurrentIsUp, SocketThere, SettledIsSubscribed
<1> QED
  BY <1>1, FeedIsSound, PTL

\* When the replay of a watcher that runs is over, what it owed was handed over
\* or is one of the exceptions the property names (replayMissedTransactions).
THEOREM ReplaysAreComplete == SolanaSpec => []ReplayIsComplete
<1>1. FeedInv => ReplayIsComplete
  BY DEF FeedInv, NothingLost, Accounted, ReplayIsComplete
<1> QED
  BY <1>1, FeedIsSound, PTL

HIDE FeedAssumption

===============================================================================
