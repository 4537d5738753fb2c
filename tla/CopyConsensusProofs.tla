------------------------- MODULE CopyConsensusProofs --------------------------
(***************************************************************************)
(* Theorems on the signals to trade.  First the buys of several wallets:   *)
(* IInv is an inductive invariant of CopyConsensus for any finite set of   *)
(* wallets, any transactions and any number of restarts; the three         *)
(* properties it contains follow.  The thresholds themselves play no part  *)
(* in it.  Then the opinions asked of the AI on the operator's Telegram    *)
(* chats (SocialSignals).                                                  *)
(***************************************************************************)
EXTENDS CopyConsensus, SocialSignals, TLAPS

USE ConsensusAssumption
USE DEF vars, consensus

\* Observing, ignoring or failing to claim only moves the task of r.
LEMMA TaskMoves ==
  ASSUME IInv, NEW r \in Reference, NEW t, t = [task EXCEPT ![r] = NoTask]
                                          \/ t = [task EXCEPT ![r].pc = "analysing"],
         ~Buying(r) \/ t = [task EXCEPT ![r] = NoTask],
         task' = t, observed' \in {observed, observed \cup {r}},
         task'[r].pc = "idle" \/ r \in observed',
         UNCHANGED <<consensus, attempts, filled, booked, crashes>>
  PROVE  IInv'
<1>1. TypeOK'
  BY DEF IInv, TypeOK, NoTask, TaskPCs
<1>2. /\ \A q \in Reference : q # r => task'[q] = task[q]
      /\ task'[r].pc \in {"idle", "analysing"}
      /\ observed \subseteq observed'
  BY DEF IInv, TypeOK, NoTask
<1>3. OneBuyAtATime' /\ StageBookedOnce' /\ BookedWalletCounted'
  BY <1>2 DEF IInv, OneBuyAtATime, Buying, StageBookedOnce, BookedWalletCounted
<1>4. StageInv'
  BY <1>2 DEF IInv, StageInv, Buying
<1>5. BookedInv'
  BY <1>2 DEF IInv, BookedInv, Buying
<1>. QED
  BY <1>1, <1>3, <1>4, <1>5 DEF IInv

\* A wallet is counted, and its buy may become the pending one.
LEMMA RegisterStep ==
  ASSUME IInv, NEW r \in Reference, Register(r)
  PROVE  IInv'
<1> DEFINE w == WalletOf[r]
<1>1. CASE ShouldCopy(w)
  <2>1. /\ pending = 0 /\ pending' = copied + 1 /\ copied' = copied /\ w \notin signals
        /\ booked' = booked /\ attempts' = attempts /\ signals' = signals \cup {w}
        /\ task'[r] = [pc |-> "deciding", stage |-> copied + 1]
        /\ r \in observed /\ observed' = observed
        /\ \A q \in Reference : q # r => task'[q] = task[q]
    BY <1>1 DEF Register, ShouldCopy, IInv, TypeOK, StageInv
  <2>2. \A q \in Reference : ~Buying(q)
    BY <2>1 DEF IInv, StageInv
  <2>3. TypeOK'
    BY <1>1, <2>1 DEF Register, IInv, TypeOK, TaskPCs
  <2>4. OneBuyAtATime'
    BY <2>1, <2>2 DEF OneBuyAtATime, Buying
  <2>5. StageBookedOnce' /\ BookedWalletCounted'
    BY <2>1 DEF IInv, StageBookedOnce, BookedWalletCounted
  <2>6. StageInv'
    BY <2>1, <2>2 DEF IInv, TypeOK, StageInv, Buying
  <2>7. BookedInv'
    <3> SUFFICES ASSUME NEW q \in Reference, booked'[q] # 0
                 PROVE  /\ q \in attempts'
                        /\ booked'[q] <= copied' \/ booked'[q] = pending'
                        /\ \A p \in Reference : Buying(p)' /\ task'[p].pc # "booked" =>
                             WalletOf[p] # WalletOf[q] /\ booked'[q] # pending'
      BY DEF BookedInv
    <3>1. q \in attempts /\ booked[q] <= copied /\ WalletOf[q] # w
      BY <2>1 DEF IInv, BookedInv, BookedWalletCounted, TypeOK
    <3>2. booked[q] # copied + 1
      BY <3>1 DEF IInv, TypeOK
    <3>. QED
      BY <2>1, <2>2, <3>1, <3>2 DEF Buying
  <2>. QED
    BY <2>3, <2>4, <2>5, <2>6, <2>7 DEF IInv
<1>2. CASE ~ShouldCopy(w)
  <2>1. /\ pending' = pending /\ copied' = copied /\ signals' = signals \cup {w}
        /\ booked' = booked /\ attempts' = attempts
        /\ task'[r].pc = "idle" /\ observed' = observed
        /\ \A q \in Reference : q # r => task'[q] = task[q]
    BY <1>2 DEF Register, End, NoTask, IInv, TypeOK
  <2>2. TypeOK'
    BY <1>2, <2>1 DEF Register, End, NoTask, IInv, TypeOK, TaskPCs
  <2>3. OneBuyAtATime' /\ StageBookedOnce' /\ BookedWalletCounted'
    BY <2>1 DEF IInv, OneBuyAtATime, Buying, StageBookedOnce, BookedWalletCounted
  <2>4. StageInv'
    BY <2>1 DEF IInv, StageInv, Buying
  <2>5. BookedInv'
    BY <2>1 DEF IInv, BookedInv, Buying
  <2>. QED
    BY <2>2, <2>3, <2>4, <2>5 DEF IInv
<1>. QED
  BY <1>1, <1>2

\* A buy ends without a confirmed fill: its stage is released only if it is
\* still the pending one.
LEMMA ReleaseStep ==
  ASSUME IInv, NEW r \in Reference, task[r].pc \in {"deciding", "executing", "reconciling"},
         ReleaseStage(r), End(r),
         UNCHANGED <<copied, attempts, observed, filled, booked, crashes>>
  PROVE  IInv'
<1>1. /\ task'[r].pc = "idle"
      /\ \A q \in Reference : q # r => task'[q] = task[q]
  BY DEF End, NoTask, IInv, TypeOK
<1>2. TypeOK'
  BY DEF ReleaseStage, End, NoTask, IInv, TypeOK, TaskPCs
<1>3. CASE task[r].pc = "reconciling"
  <2>1. UNCHANGED <<pending, signals>>
    BY <1>3 DEF ReleaseStage, IInv, StageInv, TypeOK
  <2>2. OneBuyAtATime' /\ StageBookedOnce' /\ BookedWalletCounted'
    BY <1>1, <2>1 DEF IInv, OneBuyAtATime, Buying, StageBookedOnce, BookedWalletCounted
  <2>3. StageInv' /\ BookedInv'
    BY <1>1, <2>1 DEF IInv, StageInv, BookedInv, Buying
  <2>. QED
    BY <1>2, <2>2, <2>3 DEF IInv
<1>4. CASE task[r].pc # "reconciling"
  <2>1. /\ Buying(r) /\ task[r].pc # "booked"
        /\ pending # 0 /\ pending' = 0 /\ signals' = signals \ {WalletOf[r]}
    BY <1>4 DEF ReleaseStage, IInv, StageInv, Buying
  <2>2. \A q \in Reference : ~Buying(q)'
    BY <1>1, <2>1 DEF IInv, OneBuyAtATime, Buying
  <2>3. \A q \in Reference : booked[q] # 0 =>
          WalletOf[q] # WalletOf[r] /\ booked[q] <= copied /\ q \in attempts
    BY <2>1 DEF IInv, BookedInv
  <2>4. OneBuyAtATime' /\ StageBookedOnce' /\ BookedWalletCounted'
    BY <2>1, <2>2, <2>3 DEF IInv, OneBuyAtATime, StageBookedOnce, BookedWalletCounted
  <2>5. StageInv'
    BY <1>1, <2>1, <2>2 DEF IInv, StageInv, Buying
  <2>6. BookedInv'
    BY <2>2, <2>3 DEF BookedInv
  <2>. QED
    BY <1>2, <2>4, <2>5, <2>6 DEF IInv
<1>. QED
  BY <1>3, <1>4

\* The attempt is claimed.
LEMMA ClaimStep ==
  ASSUME IInv, NEW r \in Reference, ClaimAttempt(r)
  PROVE  IInv'
<1>1. /\ task[r].pc = "deciding" /\ task'[r].pc = "executing" /\ task'[r].stage = task[r].stage
      /\ r \notin attempts /\ attempts' = attempts \cup {r}
      /\ \A q \in Reference : q # r => task'[q] = task[q]
      /\ UNCHANGED <<consensus, observed, filled, booked, crashes>>
  BY DEF ClaimAttempt, Go, IInv, TypeOK
<1>2. TypeOK'
  BY <1>1 DEF ClaimAttempt, Go, IInv, TypeOK, TaskPCs
<1>3. booked[r] = 0
  BY <1>1 DEF IInv, BookedInv
<1>4. OneBuyAtATime' /\ StageBookedOnce' /\ BookedWalletCounted'
  BY <1>1 DEF IInv, OneBuyAtATime, Buying, StageBookedOnce, BookedWalletCounted
<1>5. StageInv'
  BY <1>1, <1>3 DEF IInv, StageInv, Buying
<1>6. BookedInv'
  BY <1>1 DEF IInv, BookedInv, Buying
<1>. QED
  BY <1>2, <1>4, <1>5, <1>6 DEF IInv

\* The lot is inserted: no other lot has its stage.
LEMMA BookStep ==
  ASSUME IInv, NEW r \in Reference, BookLot(r)
  PROVE  IInv'
<1>1. /\ task[r].pc = "executing" /\ task'[r].pc = "booked" /\ task'[r].stage = task[r].stage
      /\ task[r].stage = pending /\ pending # 0 /\ booked'[r] = pending
      /\ WalletOf[r] \in Wallet /\ WalletOf[r] \in signals /\ r \in attempts
      /\ r \in observed
      /\ \A q \in Reference : q # r => task'[q] = task[q] /\ booked'[q] = booked[q]
      /\ UNCHANGED <<consensus, attempts, observed, filled, crashes>>
  BY DEF BookLot, Go, IInv, TypeOK, StageInv, Buying
<1>2. TypeOK'
  BY <1>1 DEF BookLot, Go, IInv, TypeOK, TaskPCs
<1>3. \A q \in Reference : q # r => ~Buying(q)
  BY <1>1 DEF IInv, OneBuyAtATime, Buying
<1>4. \A q \in Reference : booked[q] # 0 => booked[q] # pending
  BY <1>1 DEF IInv, BookedInv, Buying
<1>5. OneBuyAtATime'
  BY <1>1, <1>3 DEF OneBuyAtATime, Buying
<1>6. StageBookedOnce'
  BY <1>1, <1>4 DEF IInv, StageBookedOnce
<1>7. StageInv'
  BY <1>1, <1>3 DEF IInv, StageInv, Buying
<1>8. BookedInv'
  BY <1>1, <1>3 DEF IInv, BookedInv, Buying
<1>9. BookedWalletCounted'
  BY <1>1 DEF IInv, BookedWalletCounted
<1>. QED
  BY <1>2, <1>5, <1>6, <1>7, <1>8, <1>9 DEF IInv

\* The stage ends with the confirmed buy.
LEMMA FinishStep ==
  ASSUME IInv, NEW r \in Reference, FinishStage(r)
  PROVE  IInv'
<1>1. /\ task[r].pc = "booked" /\ task'[r].pc = "reconciling" /\ task'[r].stage = task[r].stage
      /\ task[r].stage = pending /\ pending = copied + 1 /\ copied' = pending /\ pending' = 0
      /\ r \in observed
      /\ \A q \in Reference : q # r => task'[q] = task[q]
      /\ UNCHANGED <<signals, attempts, observed, filled, booked, crashes>>
  BY DEF FinishStage, Go, IInv, TypeOK, StageInv, Buying
<1>2. TypeOK'
  BY <1>1 DEF FinishStage, Go, IInv, TypeOK, TaskPCs
<1>3. \A q \in Reference : ~Buying(q)'
  BY <1>1 DEF IInv, OneBuyAtATime, Buying
<1>4. OneBuyAtATime' /\ StageBookedOnce' /\ BookedWalletCounted'
  BY <1>1, <1>3 DEF IInv, OneBuyAtATime, StageBookedOnce, BookedWalletCounted
<1>5. StageInv'
  <2> SUFFICES ASSUME NEW q \in Reference
               PROVE  /\ task'[q].pc # "idle" => q \in observed'
                      /\ task'[q].pc = "reconciling" => task'[q].stage \in 1..copied'
                      /\ task'[q].pc = "executing" => q \in attempts' /\ booked'[q] = 0
                      /\ task'[q].pc = "booked" => booked'[q] = pending'
    BY <1>1, <1>3 DEF StageInv
  <2>1. copied \in Nat
    BY DEF IInv, TypeOK
  <2>2. CASE q = r
    BY <1>1, <2>1, <2>2
  <2>3. CASE q # r
    BY <1>1, <1>3, <2>1, <2>3 DEF IInv, StageInv, Buying
  <2>. QED
    BY <2>2, <2>3
<1>6. BookedInv'
  BY <1>1, <1>3 DEF IInv, TypeOK, BookedInv
<1>. QED
  BY <1>2, <1>4, <1>5, <1>6 DEF IInv

\* A restart loses the tasks but not the pending stage.
LEMMA CrashStep ==
  ASSUME IInv, Crash
  PROVE  IInv'
<1>1. \A r \in Reference : task'[r].pc = "idle"
  BY DEF Crash, NoTask
<1>2. TypeOK'
  BY DEF Crash, NoTask, IInv, TypeOK, TaskPCs
<1>3. OneBuyAtATime' /\ StageBookedOnce' /\ BookedWalletCounted'
  BY <1>1 DEF Crash, IInv, OneBuyAtATime, Buying, StageBookedOnce, BookedWalletCounted
<1>4. StageInv' /\ BookedInv'
  BY <1>1 DEF Crash, IInv, StageInv, BookedInv, Buying
<1>. QED
  BY <1>2, <1>3, <1>4 DEF IInv

\* The invariant of the specification.
THEOREM Safety == Spec => []IInv
<1>1. Init => IInv
  <2> SUFFICES ASSUME Init PROVE IInv
    OBVIOUS
  <2>1. TypeOK
    BY DEF Init, TypeOK, NoTask, TaskPCs
  <2>2. OneBuyAtATime /\ StageBookedOnce /\ BookedWalletCounted
    BY DEF Init, NoTask, OneBuyAtATime, Buying, StageBookedOnce, BookedWalletCounted
  <2>3. StageInv /\ BookedInv
    BY DEF Init, NoTask, StageInv, BookedInv, Buying
  <2>. QED
    BY <2>1, <2>2, <2>3 DEF IInv
<1>2. IInv /\ [Next]_vars => IInv'
  <2> SUFFICES ASSUME IInv, [Next]_vars PROVE IInv'
    OBVIOUS
  <2>1. CASE UNCHANGED vars
    BY <2>1 DEF IInv, TypeOK, OneBuyAtATime, StageBookedOnce, BookedWalletCounted, StageInv,
      BookedInv, Buying
  <2>2. ASSUME NEW r \in Reference, Observe(r) PROVE IInv'
    <3>1. ~Buying(r)
      BY <2>2 DEF Observe, IInv, StageInv, Buying
    <3>. QED
      BY <2>2, <3>1, TaskMoves DEF Observe, Go, IInv, TypeOK
  <2>3. ASSUME NEW r \in Reference, Ignore(r) \/ ClaimRefused(r) \/ Reconciled(r) PROVE IInv'
    BY <2>3, TaskMoves DEF Ignore, ClaimRefused, Reconciled, End, NoTask, IInv, TypeOK
  <2>4. ASSUME NEW r \in Reference, Reject(r) \/ ExecutionFails(r) \/ ReconciliationFails(r)
        PROVE IInv'
    BY <2>4, ReleaseStep DEF Reject, ExecutionFails, ReconciliationFails
  <2>5. ASSUME NEW r \in Reference, Fill(r) PROVE IInv'
    BY <2>5 DEF Fill, IInv, TypeOK, OneBuyAtATime, StageBookedOnce, BookedWalletCounted,
      StageInv, BookedInv, Buying
  <2>. QED
    BY <2>1, <2>2, <2>3, <2>4, <2>5, RegisterStep, ClaimStep, BookStep, FinishStep, CrashStep
    DEF Next, Step
<1>. QED
  BY <1>1, <1>2, PTL DEF Spec

\* While one buy of the asset is under way no other is.
THEOREM OneBuy == Spec => []OneBuyAtATime
<1>1. IInv => OneBuyAtATime
  BY DEF IInv
<1>. QED
  BY <1>1, Safety, PTL

\* No stage is bought into the lots twice.
THEOREM StageOnce == Spec => []StageBookedOnce
<1>1. IInv => StageBookedOnce
  BY DEF IInv
<1>. QED
  BY <1>1, Safety, PTL

\* A wallet whose buy was booked stays counted.
THEOREM WalletStays == Spec => []BookedWalletCounted
<1>1. IInv => BookedWalletCounted
  BY DEF IInv
<1>. QED
  BY <1>1, Safety, PTL

HIDE ConsensusAssumption
-----------------------------------------------------------------------------
(***************************************************************************)
(* No token is put to the AI twice within the cooldown, for any numbers of *)
(* chats, callers, tokens and signals, unless the signal of the first      *)
(* opinion was itself older than that.                                     *)
(*                                                                         *)
(* A candidate is chosen against the opinions of the time at which its     *)
(* batch began, and the answer is stored later: the argument is that in    *)
(* between no other opinion is stored, as there is one batch at a time,    *)
(* and that the signals of stored opinions do not get younger, as no       *)
(* signal is stored twice.                                                 *)
(***************************************************************************)

USE SocialAssumption

SignalsType ==
  /\ window \in Nat
  /\ stored \in [Signal -> Nat]
  /\ status \in [Signal -> {"unseen", "outdated", "detected"} \cup Lookup]
  /\ asked \in [Signal -> Nat]
  /\ batch \in [pc : {"none", "refreshing", "asking"}, at : Nat, signal : SUBSET Signal]

\* Opinions lie in the past, and were asked for on signals that had come.
OpinionsArePast ==
  \A s \in Signal : Asked(s) => asked[s] <= window /\ status[s] # "unseen"

\* The signal a batch asks about has come, and no opinion stands in its way.
BatchMayAsk ==
  /\ batch.at <= window
  /\ batch.pc = "asking" =>
       \A s \in batch.signal : status[s] # "unseen" /\ NotAskedLately(s, batch.at)

OpinionInv == SignalsType /\ OpinionsArePast /\ BatchMayAsk /\ OneOpinionUnlessOld

-----------------------------------------------------------------------------
LEMMA SocialStarts == SocialInit => OpinionInv
<1> SUFFICES ASSUME SocialInit PROVE OpinionInv
  OBVIOUS
<1>1. Cooldown \in Nat /\ Never \in Nat /\ Cooldown + 1 \in Nat
  BY DEF Never
<1>2. SignalsType
  BY <1>1 DEF SocialInit, SignalsType, NoBatch
<1>3. \A s \in Signal : ~Asked(s)
  BY DEF SocialInit, Asked
<1>4. OpinionsArePast /\ OneOpinionUnlessOld
  BY <1>3 DEF OpinionsArePast, OneOpinionUnlessOld, AskedTwice
<1>5. BatchMayAsk
  BY <1>1 DEF SocialInit, BatchMayAsk, NoBatch
<1> QED
  BY <1>2, <1>4, <1>5 DEF OpinionInv

\* No opinion is stored: time may pass, signals may come and be looked up, and the
\* batch may end or a new one begin.
LEMMA NoOpinionKeeps ==
  ASSUME OpinionInv, asked' = asked, SignalsType', window <= window',
         \A s \in Signal : status[s] # "unseen" =>
           status'[s] # "unseen" /\ stored'[s] = stored[s],
         batch' = batch \/ (batch'.pc # "asking" /\ batch'.at <= window')
  PROVE  OpinionInv'
<1>1. \A s \in Signal : Asked(s)' <=> Asked(s)
  BY DEF Asked, Never
<1>2. \A s \in Signal : Asked(s) => status[s] # "unseen" /\ stored'[s] = stored[s]
  BY DEF OpinionInv, OpinionsArePast
<1>3. OpinionsArePast'
  BY <1>1 DEF OpinionInv, OpinionsArePast, SignalsType
<1>4. ASSUME NEW s \in Signal, NEW at, NotAskedLately(s, at) PROVE NotAskedLately(s, at)'
  BY <1>1, <1>2, <1>4 DEF NotAskedLately, Recent, Asked, Never
<1>5. BatchMayAsk'
  <2>1. CASE batch' = batch
    <3>1. batch.at \in Nat /\ batch.signal \subseteq Signal /\ window \in Nat /\ window' \in Nat
      BY DEF OpinionInv, SignalsType
    <3>2. PICK b : b = batch
      OBVIOUS
    <3>3. b.at <= window'
      BY <3>1, <3>2 DEF OpinionInv, BatchMayAsk
    <3>4. ASSUME b.pc = "asking", NEW s \in b.signal
          PROVE  status'[s] # "unseen" /\ NotAskedLately(s, b.at)'
      <4>1. s \in Signal /\ status[s] # "unseen" /\ NotAskedLately(s, b.at)
        BY <3>1, <3>2, <3>4 DEF OpinionInv, BatchMayAsk
      <4>2. NotAskedLately(s, b.at)'
        BY <1>4, <4>1
      <4> QED
        BY <4>1, <4>2
    <3>5. batch' = b
      BY <2>1, <3>2
    <3> QED
      BY <3>3, <3>4, <3>5 DEF BatchMayAsk
  <2>2. CASE batch'.pc # "asking" /\ batch'.at <= window'
    BY <2>2 DEF BatchMayAsk
  <2> QED
    BY <2>1, <2>2
<1>6. OneOpinionUnlessOld'
  <2> SUFFICES ASSUME NEW r \in Signal, NEW s \in Signal, AskedTwice(r, s)'
               PROVE  \/ asked[s] >= stored'[r] + Cooldown
                      \/ asked[r] = asked[s] /\ asked[r] >= stored'[s] + Cooldown
    BY DEF OneOpinionUnlessOld
  <2>1. AskedTwice(r, s) /\ Asked(r) /\ Asked(s)
    BY <1>1 DEF AskedTwice
  <2> QED
    BY <1>2, <2>1 DEF OpinionInv, OneOpinionUnlessOld
<1> QED
  BY <1>3, <1>5, <1>6 DEF OpinionInv

\* What leaves the signals alone, and at most ends the batch or begins a new one.
LEMMA BatchRuns ==
  ASSUME OpinionInv, asked' = asked, UNCHANGED <<window, stored, status>>,
         batch' \in {batch, NoBatch, [NoBatch EXCEPT !.pc = "refreshing", !.at = window]}
  PROVE  OpinionInv'
<1>1. window \in Nat /\ batch \in [pc : {"none", "refreshing", "asking"}, at : Nat, signal : SUBSET Signal]
  BY DEF OpinionInv, SignalsType
<1>2. PICK n \in [pc : {"none", "refreshing", "asking"}, at : Nat, signal : SUBSET Signal] :
        n = NoBatch /\ n.pc = "none" /\ n.at = 0
  BY DEF NoBatch
<1> DEFINE m == [n EXCEPT !.pc = "refreshing", !.at = window]
<1>3. /\ m \in [pc : {"none", "refreshing", "asking"}, at : Nat, signal : SUBSET Signal]
      /\ m.pc = "refreshing" /\ m.at = window
  BY <1>1
<1>4. batch' \in {batch, n, m}
  BY <1>2
<1> HIDE DEF m
<1>5. batch' = batch \/ (batch'.pc # "asking" /\ batch'.at <= window)
  BY <1>1, <1>2, <1>3, <1>4
<1>6. SignalsType'
  BY <1>1, <1>2, <1>3, <1>4 DEF OpinionInv, SignalsType
<1> QED
  BY <1>1, <1>5, <1>6, NoOpinionKeeps

LEMMA RunOnceBatch ==
  ASSUME RunOnce
  PROVE  batch' \in {batch, NoBatch, [NoBatch EXCEPT !.pc = "refreshing", !.at = window]}
BY DEF RunOnce

LEMMA EnsureKeeps ==
  ASSUME OpinionInv, NEW c \in Caller, Ensure(c) \/ Service(c)
  PROVE  OpinionInv'
<1>1. asked' = asked /\ UNCHANGED <<window, stored, status>>
  BY DEF Ensure, Service, Proceed, Install, DialogsFail, signalState, opinions
<1>2. batch' \in {batch, NoBatch, [NoBatch EXCEPT !.pc = "refreshing", !.at = window]}
  BY RunOnceBatch
     DEF Ensure, Disabled, Connected, MustConnect, Service, Proceed, Install, DialogsFail, opinions
<1> QED
  BY <1>1, <1>2, BatchRuns

\* A candidate is one no opinion stands in the way of.
LEMMA ChooseKeeps == ASSUME OpinionInv, Choose PROVE OpinionInv'
<1>1. asked' = asked /\ UNCHANGED <<window, stored, status>>
  BY DEF Choose, signalState
<1>2. CASE batch' = NoBatch
  BY <1>1, <1>2, BatchRuns
<1>3. ASSUME NEW s \in Candidates(batch.at), batch' = [batch EXCEPT !.pc = "asking", !.signal = {s}]
      PROVE  OpinionInv'
  <2>1. PICK b \in [pc : {"none", "refreshing", "asking"}, at : Nat, signal : SUBSET Signal] :
          b = batch
    BY DEF OpinionInv, SignalsType
  <2>2. s \in Signal /\ status[s] # "unseen" /\ NotAskedLately(s, b.at)
    BY <1>3, <2>1 DEF Candidates
  <2> DEFINE n == [b EXCEPT !.pc = "asking", !.signal = {s}]
  <2>3. /\ n \in [pc : {"none", "refreshing", "asking"}, at : Nat, signal : SUBSET Signal]
        /\ n.at = b.at /\ n.signal = {s}
    BY <2>2
  <2>4. batch' = n
    BY <1>3, <2>1
  <2> HIDE DEF n
  <2>5. SignalsType'
    BY <1>1, <2>3, <2>4 DEF OpinionInv, SignalsType
  <2>6. NotAskedLately(s, b.at)'
    BY <1>1, <2>2 DEF NotAskedLately, Recent, Never
  <2>7. b.at <= window
    BY <2>1 DEF OpinionInv, BatchMayAsk
  <2>8. BatchMayAsk'
    BY <1>1, <2>2, <2>3, <2>4, <2>6, <2>7 DEF BatchMayAsk
  <2>9. OpinionsArePast' /\ OneOpinionUnlessOld'
    BY <1>1 DEF OpinionInv, OpinionsArePast, OneOpinionUnlessOld, AskedTwice, Asked, Never
  <2> QED
    BY <2>5, <2>8, <2>9 DEF OpinionInv
<1> QED
  BY <1>2, <1>3 DEF Choose

\* The opinion on s is the latest; the older ones on its token are no hindrance.
LEMMA OpinionStored ==
  ASSUME OpinionInv, batch.pc = "asking", NEW s \in batch.signal, ~Asked(s),
         asked' = [asked EXCEPT ![s] = window], batch' = NoBatch,
         UNCHANGED <<window, stored, status>>
  PROVE  OpinionInv'
<1>1. s \in Signal /\ window \in Nat /\ batch.at \in Nat /\ batch.at <= window
  BY DEF OpinionInv, SignalsType, BatchMayAsk
<1>2. stored \in [Signal -> Nat] /\ asked \in [Signal -> Nat] /\ Cooldown \in Nat
  BY DEF OpinionInv, SignalsType
<1>3. status[s] # "unseen" /\ NotAskedLately(s, batch.at)
  BY DEF OpinionInv, BatchMayAsk
<1>4. asked'[s] = window /\ \A r \in Signal : r # s => asked'[r] = asked[r]
  BY <1>1, <1>2
<1>5. \A r \in Signal : r # s => (Asked(r)' <=> Asked(r))
  BY <1>4 DEF Asked, Never
<1>6. SignalsType' /\ BatchMayAsk'
  BY <1>1 DEF OpinionInv, SignalsType, BatchMayAsk, NoBatch
<1>7. OpinionsArePast'
  BY <1>1, <1>3, <1>4, <1>5 DEF OpinionInv, OpinionsArePast
<1>8. ASSUME NEW r \in Signal, r # s, TokenOf[r] = TokenOf[s], Asked(r),
             window < asked[r] + Cooldown
      PROVE  window >= stored[r] + Cooldown
  <2>1. asked[r] \in Nat /\ stored[r] \in Nat
    BY <1>2
  <2>2. batch.at < asked[r] + Cooldown
    BY <1>1, <1>2, <1>8, <2>1
  <2>3. r \in Recent(batch.at)
    BY <1>8, <2>2 DEF Recent, Asked
  <2>4. batch.at >= stored[r] + Cooldown
    BY <1>3, <1>8, <2>3 DEF NotAskedLately
  <2> QED
    BY <1>1, <1>2, <2>1, <2>4
<1>9. OneOpinionUnlessOld'
  <2> SUFFICES ASSUME NEW r \in Signal, NEW q \in Signal, AskedTwice(r, q)'
               PROVE  \/ asked'[q] >= stored[r] + Cooldown
                      \/ asked'[r] = asked'[q] /\ asked'[r] >= stored[q] + Cooldown
    BY DEF OneOpinionUnlessOld
  <2>1. /\ r # q /\ TokenOf[r] = TokenOf[q] /\ Asked(r)' /\ Asked(q)'
        /\ asked'[r] <= asked'[q] /\ asked'[q] < asked'[r] + Cooldown
    BY DEF AskedTwice
  <2>2. CASE q = s
    BY <1>4, <1>5, <1>8, <2>1, <2>2
  <2>3. CASE r = s
    <3>1. Asked(q) /\ asked'[q] = asked[q] /\ asked[q] <= window /\ asked[q] \in Nat
      BY <1>2, <1>4, <1>5, <2>1, <2>3 DEF OpinionInv, OpinionsArePast
    <3>2. asked[q] = window
      BY <1>1, <1>4, <2>1, <2>3, <3>1
    <3>3. window < asked[q] + Cooldown
      BY <1>4, <2>1, <2>3, <3>1, <3>2
    <3>4. window >= stored[q] + Cooldown
      BY <1>8, <2>1, <2>3, <3>1, <3>3
    <3> QED
      BY <1>4, <2>3, <3>1, <3>2, <3>4
  <2>4. CASE q # s /\ r # s
    <3>1. AskedTwice(r, q) /\ asked'[q] = asked[q] /\ asked'[r] = asked[r]
      BY <1>4, <1>5, <2>1, <2>4 DEF AskedTwice
    <3> QED
      BY <3>1 DEF OpinionInv, OneOpinionUnlessOld
  <2> QED
    BY <2>2, <2>3, <2>4
<1> QED
  BY <1>6, <1>7, <1>9 DEF OpinionInv

LEMMA OpinionKeeps == ASSUME OpinionInv, Opinion PROVE OpinionInv'
<1>1. batch.pc = "asking" /\ batch' = NoBatch /\ UNCHANGED <<window, stored, status>>
  BY DEF Opinion, signalState
<1>2. PICK s \in batch.signal :
        asked' = asked \/ (~Asked(s) /\ asked' = [asked EXCEPT ![s] = window])
  BY DEF Opinion
<1>3. CASE asked' = asked
  BY <1>1, <1>3, BatchRuns
<1>4. CASE ~Asked(s) /\ asked' = [asked EXCEPT ![s] = window]
  BY <1>1, <1>4, OpinionStored
<1> QED
  BY <1>2, <1>3, <1>4

\* A signal comes once, and its market may be found.
LEMMA SignalKeeps ==
  ASSUME OpinionInv, NEW s \in Signal, Hear(s) \/ Resolve(s) \/ RefreshSignal(s)
  PROVE  OpinionInv'
<1>1. asked' = asked /\ batch' = batch /\ window' = window /\ window \in Nat
  BY DEF Hear, Resolve, RefreshSignal, StoreOutcome, opinions, OpinionInv, SignalsType
<1>2. /\ status \in [Signal -> {"unseen", "outdated", "detected"} \cup Lookup]
      /\ stored \in [Signal -> Nat]
  BY DEF OpinionInv, SignalsType
<1>3. PICK found \in {"detected"} \cup Lookup : status' = [status EXCEPT ![s] = found]
  BY DEF Hear, Resolve, RefreshSignal, StoreOutcome, Upsert
<1>4. found # "unseen"
  BY DEF Lookup
<1>5. stored' = stored \/ (status[s] = "unseen" /\ stored' = [stored EXCEPT ![s] = window])
  BY DEF Hear, Resolve, RefreshSignal, StoreOutcome
<1>6. SignalsType'
  BY <1>1, <1>2, <1>3, <1>5 DEF OpinionInv, SignalsType
<1>7. \A q \in Signal : status[q] # "unseen" => status'[q] # "unseen" /\ stored'[q] = stored[q]
  BY <1>2, <1>3, <1>4, <1>5
<1> QED
  BY <1>1, <1>6, <1>7, NoOpinionKeeps

\* The inductive invariant of the opinions (telegram-user-signal-service.ts).
THEOREM OpinionsAreSound == SocialSpec => []OpinionInv
<1>1. ASSUME OpinionInv, [SocialNext]_socialVars PROVE OpinionInv'
  <2>1. ASSUME NEW c \in Caller, Ensure(c) \/ Service(c) PROVE OpinionInv'
    BY <1>1, <2>1, EnsureKeeps
  <2>2. CASE ConnectSucceeds \/ ConnectFails
    BY <1>1, <2>2, BatchRuns DEF ConnectSucceeds, ConnectFails, signalState, opinions
  <2>3. CASE Choose
    BY <1>1, <2>3, ChooseKeeps
  <2>4. CASE Opinion
    BY <1>1, <2>4, OpinionKeeps
  <2>5. CASE TimerFires
    BY <1>1, <2>5, RunOnceBatch, BatchRuns DEF TimerFires, signalState
  <2>6. ASSUME NEW s \in Signal, Hear(s) \/ Resolve(s) \/ RefreshSignal(s) PROVE OpinionInv'
    BY <1>1, <2>6, SignalKeeps
  <2>7. ASSUME NEW chats \in SUBSET Chat, ChangeSettings(chats) PROVE OpinionInv'
    BY <1>1, <2>7, BatchRuns DEF ChangeSettings, signalState, opinions
  <2>8. CASE Telegram
    BY <1>1, <2>8, BatchRuns
       DEF Telegram, LoseConnection, Reconnect, GiveUp, signalState, opinions
  <2>9. CASE Pass
    <3>1. window \in Nat /\ window' = window + 1 /\ asked' = asked /\ batch' = batch
          /\ UNCHANGED <<stored, status>>
      BY <1>1, <2>9 DEF Pass, signalState, opinions, OpinionInv, SignalsType
    <3>2. SignalsType'
      BY <1>1, <3>1 DEF OpinionInv, SignalsType
    <3> QED
      BY <1>1, <3>1, <3>2, NoOpinionKeeps
  <2>10. CASE UNCHANGED socialVars
    BY <1>1, <2>10, BatchRuns DEF socialVars, signalState, opinions
  <2> QED
    BY <1>1, <2>1, <2>2, <2>3, <2>4, <2>5, <2>6, <2>7, <2>8, <2>9, <2>10 DEF SocialNext
<1> QED
  BY <1>1, SocialStarts, PTL DEF SocialSpec

\* Two opinions on one token within the cooldown are only given on an old signal,
\* for any cooldown, budget, numbers of signals and callers, and interleaving of the
\* timer, requests and messages (telegram-user-signal-service.ts).
THEOREM OneOpinionEach == SocialSpec => []OneOpinionUnlessOld
<1>1. OpinionInv => OneOpinionUnlessOld
  BY DEF OpinionInv
<1> QED
  BY <1>1, OpinionsAreSound, PTL

HIDE SocialAssumption

===============================================================================
