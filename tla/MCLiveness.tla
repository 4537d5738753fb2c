------------------------------ MODULE MCLiveness -------------------------------
(***************************************************************************)
(* One run for what must eventually happen to a live order                 *)
(* (MCExecutionLifecycle) and to the watchers of a chain.  They share no   *)
(* state: part says which of them a behaviour is about, the other rests in *)
(* its initial state.  part never changes, so fairness of a disjunction of *)
(* steps of both parts is fairness of the steps of the part at hand.       *)
(***************************************************************************)
EXTENDS MCExecutionLifecycle

CONSTANTS p1, p2, v1, NoProcess, NoWatcher

VARIABLES part,
  lease, status, lastBlock, cursor, head, up, watcher, current, start, beat, handled, waived,
  dropped, ends

watcherVars == <<lease, status, lastBlock, cursor, head, up, watcher, current, start, beat,
                 handled, waived, dropped, ends>>
allVars == <<part, vars, watcherVars>>

\* Two processes that take the lease from each other; no blocks.
Cw == INSTANCE ChainWatcher WITH
        Process <- {p1, p2}, Watcher <- {v1}, Tx <- {}, BlockOf <- <<>>,
        BatchSize <- 1, MaxReplay <- 2, MaxLag <- 0, MaxBlock <- 0,
        tick <- beat, crashes <- ends

OrderStep(A) == part = "orders" /\ A /\ UNCHANGED <<part, watcherVars>>
WatcherStep(A) == part = "watchers" /\ A /\ UNCHANGED <<part, vars>>
ProcessDoes(p, A) == WatcherStep(p \in up /\ A)

EitherInit == part \in {"orders", "watchers"} /\ Init /\ Cw!Init
EitherNext == OrderStep(Next /\ Unattended) \/ WatcherStep(Cw!Next)

\* The fairness of ExecutionLifecycle and, for each process, of ChainWatcher
\* (whose watchers have no ranges to fetch here).
ProcessFairness(p) ==
  /\ WF_allVars(WatcherStep(Cw!Boot(p)))
  /\ WF_allVars(ProcessDoes(p, Cw!StartReturns(p)))
  /\ WF_allVars(ProcessDoes(p, Cw!TickEnds(p)))
  /\ SF_allVars(ProcessDoes(p, Cw!StartSucceeds(p, v1)))
  /\ SF_allVars(ProcessDoes(p, Cw!TickStarts(p) \/ Cw!TickDeposed(p)))
  /\ SF_allVars(ProcessDoes(p, Cw!TickRestarts(p)))

EitherFairness ==
  /\ ProcessFairness(p1)
  /\ WF_allVars(WatcherStep(Cw!LeaseExpires /\ lease.holder \notin up))
  /\ WF_allVars(OrderStep(TimePasses) \/ WatcherStep(Cw!Boot(p2)))
  /\ WF_allVars(OrderStep(Booking(h1)) \/ ProcessDoes(p2, Cw!StartReturns(p2)))
  /\ WF_allVars(OrderStep(~Uninterrupted /\ LoopStep) \/ ProcessDoes(p2, Cw!TickEnds(p2)))
  /\ WF_allVars(OrderStep(Awaiting /\ TickStep))
  /\ SF_allVars(OrderStep(Awaiting /\ CheckStep(h1)) \/ ProcessDoes(p2, Cw!StartSucceeds(p2, v1)))
  /\ SF_allVars(OrderStep(Awaiting /\ CheckStep(Recovery)) \/ ProcessDoes(p2, Cw!TickStarts(p2) \/ Cw!TickDeposed(p2)))
  /\ SF_allVars(ProcessDoes(p2, Cw!TickRestarts(p2)))

EitherSpec == EitherInit /\ [][EitherNext]_allVars /\ EitherFairness

-----------------------------------------------------------------------------
\* See the definitions of the same name in ChainWatcher.
LoserStops == Cw!LoserStops
WantedGetsWatched == Cw!WantedGetsWatched

===============================================================================
