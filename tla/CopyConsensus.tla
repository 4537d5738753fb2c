---------------------------- MODULE CopyConsensus -----------------------------
(***************************************************************************)
(* The multi-wallet consensus that decides when a live copy buy of one     *)
(* asset may open or enlarge a position: stage n of the asset is bought    *)
(* when enough distinct source wallets have bought it (1, 3, 7, 15, ...),  *)
(* and while the buy of a stage is pending no other may start.             *)
(*                                                                         *)
(* Every observed source transaction is handled by a task of its own       *)
(* (processCopyableSwap or executeHypercoreCopyExecution); steps are cut   *)
(* where it awaits.  The consensus rows and the execution attempts are in  *)
(* SQLite and survive a restart; the set of observed transactions does     *)
(* not, and the chain cursor delivers the last transactions again.         *)
(***************************************************************************)
EXTENDS Naturals, FiniteSets

CONSTANTS
  Wallet,     \* tracked source wallets
  Reference,  \* their buy transactions (or fills) of the asset
  WalletOf,   \* the wallet a transaction comes from
  MaxCrashes  \* bound on process restarts

ASSUME ConsensusAssumption ==
  WalletOf \in [Reference -> Wallet] /\ IsFiniteSet(Wallet) /\ MaxCrashes \in Nat

VARIABLES
  signals,    \* execution_copy_signals: the wallets counted for the asset
  copied,     \* execution_copy_consensus.copied_stages
  pending,    \* execution_copy_consensus.pending_stage, 0 for NULL
  attempts,   \* references with a row in execution_attempts
  observed,   \* neraxonObservedTransactions, in memory
  task,       \* where the handling of each reference is suspended
  filled,     \* the stage whose order was filled on the network, 0 for none
  booked,     \* the stage whose lot was inserted, 0 for none
  crashes

consensus == <<signals, copied, pending>>
vars == <<consensus, attempts, observed, task, filled, booked, crashes>>

TaskPCs == {"idle", "analysing", "deciding", "executing", "booked", "reconciling"}
NoTask == [pc |-> "idle", stage |-> 0]

Init ==
  /\ signals = {} /\ copied = 0 /\ pending = 0
  /\ attempts = {} /\ observed = {}
  /\ task = [r \in Reference |-> NoTask]
  /\ filled = [r \in Reference |-> 0]
  /\ booked = [r \in Reference |-> 0]
  /\ crashes = 0

Go(r, pc) == task' = [task EXCEPT ![r].pc = pc]
End(r) == task' = [task EXCEPT ![r] = NoTask]

\* requiredWalletCountForNextBuy
Required(stages) == 2 ^ (stages + 1) - 1

-----------------------------------------------------------------------------
\* claimObservedTransaction, then the transaction is analysed.
Observe(r) ==
  /\ r \notin observed
  /\ observed' = observed \cup {r}
  /\ Go(r, "analysing")
  /\ UNCHANGED <<consensus, attempts, filled, booked, crashes>>

\* No swap, a stablecoin, an ineligible or too active wallet.
Ignore(r) ==
  /\ task[r].pc = "analysing"
  /\ End(r)
  /\ UNCHANGED <<consensus, attempts, observed, filled, booked, crashes>>

\* registerExecutionBuySignal and canTriggerNextBuy: the wallet is counted;
\* a new wallet that reaches the threshold while no stage is pending buys.
\* (Fault: a pending stage is ignored.)
ShouldCopyWhilePending(w) ==
  w \notin signals /\ Cardinality(signals \cup {w}) >= Required(copied)
ShouldCopy(w) ==
  /\ w \notin signals
  /\ pending = 0
  /\ Cardinality(signals \cup {w}) >= Required(copied)

Register(r) ==
  LET w == WalletOf[r] IN
  /\ task[r].pc = "analysing"
  /\ signals' = signals \cup {w}
  /\ IF ShouldCopy(w)
       THEN /\ pending' = copied + 1
            /\ task' = [task EXCEPT ![r] = [pc |-> "deciding", stage |-> copied + 1]]
       ELSE End(r) /\ UNCHANGED pending
  /\ UNCHANGED <<copied, attempts, observed, filled, booked, crashes>>

\* Fault: a stage is released whether or not it is the pending one.
ReleaseAnyStage(r) == pending' = 0 /\ signals' = signals \ {WalletOf[r]}

\* finishExecutionBuyStage of an unconfirmed buy: if its stage is still the
\* pending one, the stage is released and the wallet may trigger it again.
ReleaseStage(r) ==
  IF pending = task[r].stage
    THEN pending' = 0 /\ signals' = signals \ {WalletOf[r]}
    ELSE UNCHANGED <<pending, signals>>

\* Fault: an early return forgets the stage.
RejectSilently(r) ==
  /\ task[r].pc = "deciding"
  /\ End(r)
  /\ UNCHANGED <<consensus, attempts, observed, filled, booked, crashes>>

\* Market data, token safety, the Pump.fun rule or anything else before the
\* claim rejects the buy.
Reject(r) ==
  /\ task[r].pc = "deciding"
  /\ ReleaseStage(r)
  /\ End(r)
  /\ UNCHANGED <<copied, attempts, observed, filled, booked, crashes>>

\* claimExecutionAttempt under the key of the source transaction.
ClaimAttempt(r) ==
  /\ task[r].pc = "deciding" /\ r \notin attempts
  /\ attempts' = attempts \cup {r}
  /\ Go(r, "executing")
  /\ UNCHANGED <<consensus, observed, filled, booked, crashes>>

\* "if (!claim.created) return": the pending stage stays.
ClaimRefused(r) ==
  /\ task[r].pc = "deciding" /\ r \in attempts
  /\ End(r)
  /\ UNCHANGED <<consensus, attempts, observed, filled, booked, crashes>>

\* The network fills the order of an executing attempt.
Fill(r) ==
  /\ task[r].pc = "executing" /\ filled[r] = 0
  /\ filled' = [filled EXCEPT ![r] = task[r].stage]
  /\ UNCHANGED <<consensus, attempts, observed, task, booked, crashes>>

\* The execution throws: the plan or the risk checks fail, the order is
\* rejected, or its outcome stays unknown.
ExecutionFails(r) ==
  /\ task[r].pc = "executing"
  /\ ReleaseStage(r)
  /\ End(r)
  /\ UNCHANGED <<copied, attempts, observed, filled, booked, crashes>>

\* insertExecutionLot ...
BookLot(r) ==
  /\ task[r].pc = "executing" /\ filled[r] # 0
  /\ booked' = [booked EXCEPT ![r] = task[r].stage]
  /\ Go(r, "booked")
  /\ UNCHANGED <<consensus, attempts, observed, filled, crashes>>

\* ... and, without an await in between, finishExecutionBuyStage of a
\* confirmed buy; reconcileAfterLiveExecution is awaited.
FinishStage(r) ==
  /\ task[r].pc = "booked"
  /\ IF pending = task[r].stage
       THEN copied' = task[r].stage /\ pending' = 0
       ELSE UNCHANGED <<copied, pending>>
  /\ Go(r, "reconciling")
  /\ UNCHANGED <<signals, attempts, observed, filled, booked, crashes>>

Reconciled(r) ==
  /\ task[r].pc = "reconciling"
  /\ End(r)
  /\ UNCHANGED <<consensus, attempts, observed, filled, booked, crashes>>

\* The reconciliation throws: the same catch blocks release the stage.
ReconciliationFails(r) ==
  /\ task[r].pc = "reconciling"
  /\ ReleaseStage(r)
  /\ End(r)
  /\ UNCHANGED <<copied, attempts, observed, filled, booked, crashes>>

\* Fault: a restart clears pending stages, as it does for paper trading.
CrashReleases ==
  /\ crashes < MaxCrashes
  /\ crashes' = crashes + 1
  /\ task' = [r \in Reference |-> NoTask]
  /\ observed' = {} /\ pending' = 0
  /\ UNCHANGED <<signals, copied, attempts, filled, booked>>

\* A restart: tasks and the observed set are gone, rows stay as they are.
Crash ==
  /\ crashes < MaxCrashes
  /\ crashes' = crashes + 1
  /\ task' = [r \in Reference |-> NoTask]
  /\ observed' = {}
  /\ UNCHANGED <<consensus, attempts, filled, booked>>

-----------------------------------------------------------------------------
Uninterrupted == \E r \in Reference : task[r].pc = "booked"

Step(r) ==
  \/ Ignore(r) \/ Register(r) \/ Reject(r) \/ ClaimAttempt(r) \/ ClaimRefused(r)
  \/ ExecutionFails(r) \/ BookLot(r) \/ Reconciled(r) \/ ReconciliationFails(r)

Next ==
  \/ Crash
  \/ \E r \in Reference : FinishStage(r)
  \/ ~Uninterrupted /\ \E r \in Reference : Observe(r) \/ Fill(r) \/ Step(r)

Spec == Init /\ [][Next]_vars

\* Every call a task awaits returns or times out.
FairSpec ==
  /\ Spec
  /\ \A r \in Reference : /\ SF_vars(~Uninterrupted /\ Step(r))
                          /\ WF_vars(FinishStage(r))

-----------------------------------------------------------------------------
(* Properties                                                               *)

\* A buy of the asset is under way on behalf of r.
Buying(r) == task[r].pc \in {"deciding", "executing", "booked"}

\* Every variable stays in the values the code can give it.
TypeOK ==
  /\ signals \subseteq Wallet
  /\ copied \in Nat /\ pending \in Nat
  /\ attempts \subseteq Reference /\ observed \subseteq Reference
  /\ task \in [Reference -> [pc : TaskPCs, stage : Nat]]
  /\ filled \in [Reference -> Nat] /\ booked \in [Reference -> Nat]
  /\ crashes \in 0..MaxCrashes

\* While one buy of the asset is under way no other is: what pending_stage is
\* for, whichever wallets buy at the same time.
OneBuyAtATime == \A r, q \in Reference : Buying(r) /\ Buying(q) => r = q

\* No stage of the progression is bought into the lots twice, by two wallets,
\* after a failure, or after a restart between the lot and the end of the stage.
StageBookedOnce ==
  \A r, q \in Reference : booked[r] # 0 /\ booked[r] = booked[q] => r = q

\* A wallet whose buy was booked stays counted: a reconciliation that fails
\* afterwards does not let it trigger another stage.
BookedWalletCounted == \A r \in Reference : booked[r] # 0 => WalletOf[r] \in signals

\* The inductive invariant behind the first three.
StageInv ==
  /\ pending # 0 => pending = copied + 1
  /\ \A r \in Reference :
       /\ task[r].pc # "idle" => r \in observed
       /\ Buying(r) => task[r].stage = pending /\ pending # 0 /\ WalletOf[r] \in signals
       /\ task[r].pc = "reconciling" => task[r].stage \in 1..copied
       /\ task[r].pc = "executing" => r \in attempts /\ booked[r] = 0
       /\ task[r].pc = "booked" => booked[r] = pending

BookedInv ==
  \A r \in Reference : booked[r] # 0 =>
    /\ r \in attempts
    /\ booked[r] <= copied \/ booked[r] = pending
    /\ \A q \in Reference : Buying(q) /\ task[q].pc # "booked" =>
         WalletOf[q] # WalletOf[r] /\ booked[r] # pending

IInv ==
  /\ TypeOK /\ OneBuyAtATime /\ StageBookedOnce /\ BookedWalletCounted
  /\ StageInv /\ BookedInv

\* A pending stage is resolved: unless the process restarts, no failure path
\* forgets to end it.
PendingResolves == pending # 0 /\ crashes = 0 ~> pending = 0 \/ crashes > 0

\* While a stage is pending the code answers that "the previous buy stage is
\* still being concluded": some task is working on it.
PendingHasBuyer == pending # 0 => \E r \in Reference : Buying(r)

===============================================================================
