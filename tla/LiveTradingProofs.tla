-------------------------- MODULE LiveTradingProofs --------------------------
(***************************************************************************)
(* Theorems on what a live trade goes through, component by component: the *)
(* tests that certify a network, the orders on HyperCore and the limits of *)
(* live entries.                                                           *)
(***************************************************************************)
EXTENDS LiveCertification, HypercoreOrders, LiveLimits, SumTheorems

-----------------------------------------------------------------------------
(***************************************************************************)
(* A live test that is shown as passed was traded, and so were the ones it *)
(* needs, for any number of overlapping requests and of lots.              *)
(*                                                                         *)
(* Why PassedWasTraded is not inductive: a request reads the status of the *)
(* earlier tests when it begins and writes its own when it ends, long      *)
(* after.  What it read stays true in a weaker form: the earlier tests     *)
(* were traded, and that does not change.  A close let through because     *)
(* some lot is open has only proved that some market was opened; it is the *)
(* lots that it must then find in its own market that prove the rest.      *)
(***************************************************************************)

USE CertificationAssumption

OpenedOn(m) == \E o \in applied : Opens(o) /\ Market(o) = m
BeforeTraded(s) == \A p \in Previous(s) : p \in applied
Entitled(s) == BeforeTraded(s) \/ (EndsWithClose(s) /\ OpenedOn(Market(s)))

\* What a request has made sure of, by how far it has got.
Knows(q) ==
  /\ q.pc # "idle" => q.step \in Steps
  /\ q.pc \in {"claimed", "ordering"} => BeforeTraded(q.step) \/ EndsWithClose(q.step)
  /\ q.pc = "ordering" /\ ~Opens(q.step) => OpenedOn(Market(q.step))
  /\ q.pc = "reconciling" => q.step \in applied /\ Entitled(q.step)

RequestRecord ==
  [pc : {"idle", "claimed", "ordering", "reconciling"},
   step : AllSteps \cup {"none"}, seen : SUBSET Nat]

RequestInv ==
  /\ test \in [Test -> RequestRecord]
  /\ \A r \in Test : Knows(test[r])

\* Lots, and tests that sell, are only where one that buys was traded.
LotsInv ==
  /\ lots \in [Markets -> SUBSET Nat] /\ opened \in Nat
  /\ \A m \in Markets : lots[m] # {} => OpenedOn(m)

AppliedInv ==
  /\ network \in {"hypercore", "dex"}
  /\ applied \subseteq Steps
  /\ \A s \in applied : OpenedOn(Market(s))

CertifiedInv ==
  /\ certified \in [Steps -> {"pending", "passed", "failed"}]
  /\ \A s \in Steps : certified[s] = "passed" => s \in applied /\ Entitled(s)

CertInv == AppliedInv /\ LotsInv /\ CertifiedInv /\ RequestInv

-----------------------------------------------------------------------------
(* The order of the tests                                                   *)

LEMMA StepsOfVenue ==
  ASSUME network \in {"hypercore", "dex"}
  PROVE  /\ Required \in Seq(AllSteps) /\ Len(Required) \in Nat
         /\ Steps = {Required[i] : i \in DOMAIN Required}
         /\ Steps \subseteq AllSteps
         /\ \A i, j \in DOMAIN Required : Required[i] = Required[j] => i = j
<1>1. CASE network = "hypercore"
  BY <1>1 DEF Required, Steps, AllSteps, HypercoreSteps, DexSteps, ToSet
<1>2. CASE network = "dex"
  BY <1>2 DEF Required, Steps, AllSteps, HypercoreSteps, DexSteps, ToSet
<1>. QED
  BY <1>1, <1>2

LEMMA IndexOfStep ==
  ASSUME network \in {"hypercore", "dex"}
  PROVE  /\ \A i \in DOMAIN Required : Index(Required[i]) = i
         /\ \A s \in Steps : Previous(s) \subseteq Steps
<1>1. \A i \in DOMAIN Required : Index(Required[i]) = i
  BY StepsOfVenue DEF Index
<1>2. ASSUME NEW s \in Steps PROVE Previous(s) \subseteq Steps
  <2>1. PICK i \in DOMAIN Required : s = Required[i]
    BY StepsOfVenue
  <2>. QED
    BY <2>1, <1>1, StepsOfVenue DEF Previous
<1>. QED
  BY <1>1, <1>2

LEMMA MarketOfStep == \A s : Market(s) \in Markets
  BY DEF Market, Markets

-----------------------------------------------------------------------------
(* What was traded stays traded                                             *)

LEMMA TradesGrow ==
  ASSUME applied \subseteq applied', UNCHANGED network
  PROVE  /\ \A m : OpenedOn(m) => OpenedOn(m)'
         /\ \A s : BeforeTraded(s) => BeforeTraded(s)'
         /\ \A s : Entitled(s) => Entitled(s)'
         /\ \A q : Knows(q) => Knows(q)'
<1>1. \A m : OpenedOn(m) => OpenedOn(m)'
  BY DEF OpenedOn
<1>2. \A s : Previous(s)' = Previous(s)
  BY DEF Previous, Required, Index
<1>3. \A s : BeforeTraded(s) => BeforeTraded(s)'
  BY <1>2 DEF BeforeTraded
<1>4. \A s : Entitled(s) => Entitled(s)'
  BY <1>1, <1>3 DEF Entitled
<1>5. Steps' = Steps
  BY DEF Steps, Required
<1>. QED
  BY <1>1, <1>3, <1>4, <1>5 DEF Knows

\* A request that is let through has the earlier tests behind it, or closes.
LEMMA PermittedMeans ==
  ASSUME CertInv, NEW s \in Steps, Permitted(s)
  PROVE  BeforeTraded(s) \/ EndsWithClose(s)
<1>1. SUFFICES ASSUME ~EndsWithClose(s) PROVE BeforeTraded(s)
  OBVIOUS
<1>2. \A p \in Previous(s) : certified[p] = "passed"
  BY <1>1 DEF Permitted, EmergencyClose
<1>3. Previous(s) \subseteq Steps
  BY IndexOfStep DEF CertInv, AppliedInv
<1>. QED
  BY <1>2, <1>3 DEF CertInv, CertifiedInv, BeforeTraded

\* One request goes on, and nothing else of the invariant is touched but what
\* was traded, which may grow.
LEMMA OneRequest ==
  ASSUME RequestInv, applied \subseteq applied', UNCHANGED network,
         NEW r \in Test, NEW q \in RequestRecord, Knows(q)',
         test' = [test EXCEPT ![r] = q]
  PROVE  RequestInv'
<1>1. \A x \in Test : Knows(test[x])'
  BY TradesGrow DEF RequestInv
<1>. QED
  BY <1>1 DEF RequestInv

LEMMA QuietKnows == NoTest \in RequestRecord /\ Knows(NoTest) /\ Knows(NoTest)'
  BY DEF NoTest, RequestRecord, Knows

\* Nothing is traded.
LEMMA NothingTraded ==
  ASSUME AppliedInv, LotsInv, UNCHANGED <<network, applied, lots, opened>>
  PROVE  AppliedInv' /\ LotsInv'
  BY DEF AppliedInv, LotsInv, OpenedOn, Steps, Required

\* A status that does not become "passed".
LEMMA NotPassed ==
  ASSUME CertifiedInv, UNCHANGED <<network, applied>>, NEW s \in Steps,
         certified' = [certified EXCEPT ![s] = "failed"] \/ UNCHANGED certified
  PROVE  CertifiedInv'
<1>1. Steps' = Steps /\ \A t : Entitled(t) => Entitled(t)'
  BY TradesGrow DEF Steps, Required
<1>. QED
  BY <1>1 DEF CertifiedInv

-----------------------------------------------------------------------------
(* The operations                                                           *)

LEMMA CertificationInitInv == CertificationInit => CertInv
  BY DEF CertificationInit, CertInv, AppliedInv, LotsInv, CertifiedInv, RequestInv, RequestRecord, NoTest, Knows

LEMMA RefusedStep == ASSUME CertInv, NEW s \in AllSteps, Refused(s) PROVE CertInv'
<1>1. AppliedInv' /\ LotsInv'
  BY NothingTraded DEF CertInv, Refused
<1>2. CertifiedInv'
  BY NotPassed DEF CertInv, Refused
<1>3. RequestInv'
  BY TradesGrow DEF CertInv, Refused, RequestInv
<1>. QED
  BY <1>1, <1>2, <1>3 DEF CertInv

LEMMA BeginStep ==
  ASSUME CertInv, NEW r \in Test, NEW s \in AllSteps, FoundConfirmed(r, s) \/ ClaimStep(r, s)
  PROVE  CertInv'
<1>1. UNCHANGED <<network, certified, applied, lots, opened>> /\ Permitted(s) /\ s \in Steps
  BY DEF FoundConfirmed, ClaimStep, CertInv, AppliedInv
<1>2. AppliedInv' /\ LotsInv' /\ CertifiedInv'
  BY <1>1, NothingTraded, NotPassed DEF CertInv
<1>3. BeforeTraded(s) \/ EndsWithClose(s)
  BY <1>1, PermittedMeans
<1>4. CASE FoundConfirmed(r, s)
  <2> DEFINE q == [pc |-> "reconciling", step |-> s, seen |-> {}]
  <2>1. q \in RequestRecord /\ test' = [test EXCEPT ![r] = q]
    BY <1>4 DEF FoundConfirmed, Becomes, RequestRecord
  <2>2. Entitled(s) /\ s \in applied
    BY <1>3, <1>4 DEF FoundConfirmed, Entitled, CertInv, AppliedInv
  <2>3. Knows(q)
    BY <2>2, <1>1 DEF Knows
  <2>4. Knows(q)'
    BY <2>3, <1>1, TradesGrow
  <2>. QED
    BY <1>1, <1>2, <2>1, <2>4, OneRequest DEF CertInv
<1>5. CASE ClaimStep(r, s)
  <2> DEFINE q == [pc |-> "claimed", step |-> s, seen |-> {}]
  <2>1. q \in RequestRecord /\ test' = [test EXCEPT ![r] = q]
    BY <1>5 DEF ClaimStep, Becomes, RequestRecord
  <2>2. Knows(q)
    BY <1>3, <1>1 DEF Knows
  <2>3. Knows(q)'
    BY <2>2, <1>1, TradesGrow
  <2>. QED
    BY <1>1, <1>2, <2>1, <2>3, OneRequest DEF CertInv
<1>. QED
  BY <1>4, <1>5

LEMMA LookStep == ASSUME CertInv, NEW r \in Test, LookAtLots(r) PROVE CertInv'
<1>1. UNCHANGED <<network, certified, applied, lots, opened>>
  BY DEF LookAtLots
<1>0. PICK s : s = test[r].step
  OBVIOUS
<1>2. test[r].pc = "claimed" /\ test[r] \in RequestRecord /\ Knows(test[r])
  BY DEF LookAtLots, CertInv, RequestInv
<1>3. s \in Steps /\ (BeforeTraded(s) \/ EndsWithClose(s))
  BY <1>0, <1>2 DEF Knows
<1>4. s \in AllSteps
  BY <1>3, StepsOfVenue DEF CertInv, AppliedInv
<1>5. PICK seen \in SUBSET lots[Market(s)] :
         (Opens(s) \/ seen # {}) /\ Becomes(r, "ordering", s, seen)
  BY <1>0 DEF LookAtLots
<1> DEFINE q == [pc |-> "ordering", step |-> s, seen |-> seen]
<1>6. q \in RequestRecord
  BY <1>4, <1>5, MarketOfStep DEF RequestRecord, CertInv, LotsInv
<1>7. ~Opens(s) => OpenedOn(Market(s))
  BY <1>5, MarketOfStep DEF CertInv, LotsInv
<1>8. Knows(q)
  BY <1>3, <1>7 DEF Knows
<1>9. Knows(q)'
  BY <1>1, <1>8, TradesGrow
<1>10. AppliedInv' /\ LotsInv' /\ CertifiedInv'
  BY <1>1, <1>3, NothingTraded, NotPassed DEF CertInv
<1>11. RequestInv'
  BY <1>1, <1>5, <1>6, <1>9, OneRequest DEF CertInv, Becomes
<1>. QED
  BY <1>10, <1>11 DEF CertInv

LEMMA EndStep ==
  ASSUME CertInv, NEW r \in Test, Fails(r) \/ Reconciled(r) \/ ReconciliationFails(r)
  PROVE  CertInv'
<1> DEFINE s == test[r].step
<1>1. /\ UNCHANGED <<network, applied, lots, opened>>
      /\ test' = [test EXCEPT ![r] = NoTest] /\ test[r].pc # "idle"
  BY DEF Fails, Reconciled, ReconciliationFails
<1>2. Knows(test[r]) /\ s \in Steps
  BY <1>1 DEF CertInv, RequestInv, Knows
<1>3. AppliedInv' /\ LotsInv'
  BY <1>1, NothingTraded DEF CertInv
<1>4. RequestInv'
  BY <1>1, QuietKnows, OneRequest DEF CertInv
<1>5. CASE Reconciled(r)
  <2>1. s \in applied /\ Entitled(s)
    BY <1>2, <1>5 DEF Reconciled, Knows
  <2>2. Steps' = Steps /\ \A t : Entitled(t) => Entitled(t)'
    BY <1>1, TradesGrow DEF Steps, Required
  <2>3. CertifiedInv'
    BY <1>1, <1>5, <2>1, <2>2 DEF Reconciled, CertInv, CertifiedInv
  <2>. QED
    BY <1>3, <1>4, <2>3 DEF CertInv
<1>6. CASE Fails(r) \/ ReconciliationFails(r)
  <2>1. CertifiedInv'
    BY <1>1, <1>2, <1>6, NotPassed DEF Fails, ReconciliationFails, CertInv
  <2>. QED
    BY <1>3, <1>4, <2>1 DEF CertInv
<1>. QED
  BY <1>5, <1>6

\* An order is booked: the lots of its market change, and it counts as traded.
LEMMA ConfirmedStep == ASSUME CertInv, NEW r \in Test, Confirmed(r) PROVE CertInv'
<1>0. PICK q0 \in RequestRecord : q0 = test[r]
  BY DEF CertInv, RequestInv
<1> DEFINE s == q0.step
<1> DEFINE m == Market(s)
<1> DEFINE seen == q0.seen
<1>1. UNCHANGED <<network, certified>> /\ applied' = applied \cup {s} /\ BookTest(r)
  BY <1>0 DEF Confirmed
<1>2. /\ test[r].pc = "ordering" /\ test[r] \in RequestRecord
      /\ s \in Steps /\ (BeforeTraded(s) \/ EndsWithClose(s))
      /\ (Opens(s) \/ OpenedOn(m))
  BY <1>0 DEF Confirmed, CertInv, RequestInv, Knows
<1>3. OpenedOn(m)'
  BY <1>1, <1>2, TradesGrow DEF OpenedOn
<1>4. \A x : OpenedOn(x) => OpenedOn(x)'
  BY <1>1, TradesGrow
<1>5. m \in Markets /\ seen \subseteq Nat
  BY MarketOfStep DEF RequestRecord
<1>6. AppliedInv'
  BY <1>1, <1>2, <1>3, <1>4 DEF CertInv, AppliedInv, Steps, Required
<1>7. LotsInv'
  <2>1. opened' \in Nat /\ \E ls \in SUBSET Nat : lots' = [lots EXCEPT ![m] = ls]
    <3>1. CASE Opens(s)
      BY <1>0, <1>1, <1>5, <3>1 DEF BookTest, CertInv, LotsInv
    <3>2. CASE ~Opens(s)
      BY <1>0, <1>1, <1>5, <3>2 DEF BookTest, CertInv, LotsInv
    <3>. QED
      BY <3>1, <3>2
  <2>. QED
    BY <1>3, <1>4, <1>5, <2>1 DEF CertInv, LotsInv
<1>8. CertifiedInv'
  <2>1. Steps' = Steps /\ \A t : Entitled(t) => Entitled(t)'
    BY <1>1, TradesGrow DEF Steps, Required
  <2>. QED
    BY <1>1, <2>1 DEF CertInv, CertifiedInv
<1>9. RequestInv'
  <2> DEFINE q == [q0 EXCEPT !.pc = "reconciling", !.seen = {}]
  <2>1. test' = [test EXCEPT ![r] = q] /\ q \in RequestRecord /\ q.step = s /\ q.pc = "reconciling"
    BY <1>0, <1>2 DEF Confirmed, RequestRecord, CertInv, RequestInv
  <2>2. BeforeTraded(s) => BeforeTraded(s)'
    BY <1>1, TradesGrow
  <2>3. EndsWithClose(s)' = EndsWithClose(s) /\ Market(s)' = Market(s)
    BY <1>1 DEF EndsWithClose, Market
  <2>4. s \in applied' /\ s \in Steps' /\ Entitled(s)'
    BY <1>1, <1>2, <1>3, <2>2 DEF Entitled, Steps, Required
  <2>5. Knows(q)'
    BY <2>1, <2>4 DEF Knows
  <2>. QED
    BY <1>1, <2>1, <2>5, OneRequest DEF CertInv
<1>. QED
  BY <1>6, <1>7, <1>8, <1>9 DEF CertInv

LEMMA CrashStep == ASSUME CertInv, Restarts PROVE CertInv'
<1>1. UNCHANGED <<network, certified, applied, lots, opened>> /\ test' = [r \in Test |-> NoTest]
  BY DEF Restarts
<1>2. RequestInv'
  BY <1>1, QuietKnows DEF RequestInv
<1>3. AppliedInv' /\ LotsInv'
  BY <1>1, NothingTraded DEF CertInv
<1>4. CertifiedInv'
  BY <1>1, TradesGrow DEF CertInv, CertifiedInv, Steps, Required
<1>. QED
  BY <1>2, <1>3, <1>4 DEF CertInv

LEMMA RestStep == ASSUME CertInv, OperatorActs \/ UNCHANGED certificationVars PROVE CertInv'
<1>1. UNCHANGED <<network, certified, applied, lots, opened, test>>
  BY DEF OperatorActs, certificationVars
<1>2. AppliedInv' /\ LotsInv'
  BY <1>1, NothingTraded DEF CertInv
<1>3. CertifiedInv' /\ RequestInv'
  BY <1>1, TradesGrow DEF CertInv, CertifiedInv, RequestInv, Steps, Required
<1>. QED
  BY <1>2, <1>3 DEF CertInv

-----------------------------------------------------------------------------
LEMMA InvMeans == CertInv => PassedWasTraded
<1> SUFFICES ASSUME CertInv, NEW i \in DOMAIN Required, certified[Required[i]] = "passed"
             PROVE  /\ Required[i] \in applied
                    /\ \/ \A j \in 1..(i - 1) : Required[j] \in applied
                       \/ EndsWithClose(Required[i])
                            /\ \E o \in applied : Opens(o) /\ Market(o) = Market(Required[i])
  BY DEF PassedWasTraded
<1>1. Required[i] \in Steps /\ Index(Required[i]) = i
  BY StepsOfVenue, IndexOfStep DEF CertInv, AppliedInv
<1>2. Required[i] \in applied /\ Entitled(Required[i])
  BY <1>1 DEF CertInv, CertifiedInv
<1>3. \A j \in 1..(i - 1) : Required[j] \in Previous(Required[i])
  BY <1>1 DEF Previous
<1>. QED
  BY <1>2, <1>3 DEF Entitled, BeforeTraded, OpenedOn

\* A step shown as passed was executed with real funds after every step before
\* it, or closes a market that was opened (certify/route.ts, POST), whatever
\* requests overlap, fail, are repeated or are lost in a restart.
THEOREM PassedWasAlwaysTraded == CertificationSpec => []PassedWasTraded
<1>1. CertInv /\ [CertificationNext]_certificationVars => CertInv'
  <2> SUFFICES ASSUME CertInv, [CertificationNext]_certificationVars PROVE CertInv'
    OBVIOUS
  <2>1. ASSUME NEW s \in AllSteps, Refused(s) PROVE CertInv'
    BY <2>1, RefusedStep
  <2>2. ASSUME NEW r \in Test, NEW s \in AllSteps, FoundConfirmed(r, s) \/ ClaimStep(r, s)
        PROVE  CertInv'
    BY <2>2, BeginStep
  <2>3. ASSUME NEW r \in Test, LookAtLots(r) PROVE CertInv'
    BY <2>3, LookStep
  <2>4. ASSUME NEW r \in Test, Fails(r) \/ Reconciled(r) \/ ReconciliationFails(r)
        PROVE  CertInv'
    BY <2>4, EndStep
  <2>5. ASSUME NEW r \in Test, Confirmed(r) PROVE CertInv'
    BY <2>5, ConfirmedStep
  <2>6. CASE OperatorActs \/ UNCHANGED certificationVars
    BY <2>6, RestStep
  <2>7. CASE Restarts
    BY <2>7, CrashStep
  <2>. QED
    BY <2>1, <2>2, <2>3, <2>4, <2>5, <2>6, <2>7 DEF CertificationNext
<1>. QED
  BY CertificationInitInv, <1>1, InvMeans, PTL DEF CertificationSpec

HIDE CertificationAssumption

-----------------------------------------------------------------------------
(***************************************************************************)
(* Orders on HyperCore, for any number of trades and any bounds: a close   *)
(* never turns the position over, what is filled can be found again, and   *)
(* a purchase made alone is measured right.                                *)
(*                                                                         *)
(* The measured purchase is the one that needs an argument.  While no      *)
(* other trade of the coin is filled, both the balance and what the Info   *)
(* API shows of it stay at the balance read first until the order is       *)
(* filled; from then on the balance is more by what was filled, and what   *)
(* is shown is one or the other, so that any increase is the whole of it.  *)
(***************************************************************************)

USE OrdersAssumption

Pcs == {"idle", "planned", "starting", "sent", "matched", "measuring", "filled", "refused", "unknown"}

TradeRecord ==
  [pc : Pcs, intent : Supported, size : Nat, before : Int, refs : SUBSET {"cloid", "oid"},
   filled : Nat, received : Int, reads : Nat, alone : BOOLEAN]

Buys(r) == r.intent.market = "spot" /\ r.intent.action = "open"

NotYetFilled(r) == r.pc \in {"idle", "planned", "starting", "sent", "refused"} => r.filled = 0
Recorded(r) == r.pc \in {"sent", "matched", "measuring", "filled", "unknown"} => "cloid" \in r.refs
AloneSinceRead(r) == r.pc \in {"idle", "planned"} => ~r.alone
OnlyPurchasesAreMeasured(r) == r.pc = "measuring" => Buys(r)
MeasuredRight(r) == r.pc = "filled" /\ r.alone => r.received = r.filled

\* Of a purchase made alone: the balances since they were read first.
Measurable(r) ==
  r.alone /\ Buys(r) /\ r.pc \in {"starting", "sent", "matched", "measuring"} =>
    /\ spot = r.before + r.filled
    /\ shown \in {r.before, spot}

Good(r) ==
  /\ NotYetFilled(r) /\ Recorded(r) /\ AloneSinceRead(r) /\ OnlyPurchasesAreMeasured(r)
  /\ MeasuredRight(r) /\ Measurable(r)

TradesInv ==
  /\ trade \in [Trade -> TradeRecord]
  /\ \A t \in Trade : Good(trade[t])

OrdersInv == szi \in Int /\ spot \in Int /\ shown \in Int /\ TradesInv

USE DEF Buys, NotYetFilled, Recorded, AloneSinceRead, OnlyPurchasesAreMeasured, MeasuredRight,
        Measurable, Good

-----------------------------------------------------------------------------
LEMMA IdleRecord == IdleTrade \in TradeRecord /\ Good(IdleTrade)
<1>1. [market |-> "perp", side |-> "long", action |-> "open"] \in Supported
  BY DEF Supported, Intent
<1>. QED
  BY <1>1 DEF IdleTrade, TradeRecord, Pcs

LEMMA SmallerOf ==
  ASSUME NEW m \in Int, NEW n \in Int
  PROVE  Lesser(m, n) \in {m, n} /\ Lesser(m, n) <= m /\ Lesser(m, n) <= n
  BY DEF Lesser

\* A record stays one when its fields are written with values of their types.
LEMMA RecordStays ==
  ASSUME NEW q \in TradeRecord
  PROVE  /\ \A pc \in Pcs : [q EXCEPT !.pc = pc] \in TradeRecord
         /\ q.reads \in Nat /\ q.filled \in Nat /\ q.before \in Int /\ q.received \in Int
         /\ \A n \in Nat : [q EXCEPT !.reads = n] \in TradeRecord
         /\ \A n \in Int : [q EXCEPT !.received = n] \in TradeRecord
         /\ \A x \in SUBSET {"cloid", "oid"} : [q EXCEPT !.refs = x] \in TradeRecord
  BY DEF TradeRecord

\* One trade goes on, and the account rests.
LEMMA OneTrade ==
  ASSUME OrdersInv, NEW t \in Trade, NEW r \in TradeRecord, Good(r), Become(t, r),
         UNCHANGED account
  PROVE  OrdersInv'
  BY DEF OrdersInv, TradesInv, Become, account

LEMMA PrepareStep == ASSUME OrdersInv, NEW t \in Trade, Prepare(t) PROVE OrdersInv'
<1>1. CASE PrepareOpen(t)
  <2>1. PICK i \in Supported, quantity \in 1..MaxSize :
          /\ Become(t, [IdleTrade EXCEPT !.pc = "planned", !.intent = i, !.size = quantity])
          /\ UNCHANGED account
    BY <1>1 DEF PrepareOpen
  <2>. DEFINE r == [IdleTrade EXCEPT !.pc = "planned", !.intent = i, !.size = quantity]
  <2>2. quantity \in Nat
    BY DEF OrdersAssumption
  <2>3. r \in TradeRecord /\ Good(r)
    BY <2>2, IdleRecord DEF IdleTrade, TradeRecord, Pcs
  <2>. QED
    BY <2>1, <2>3, OneTrade
<1>2. CASE PrepareClose(t)
  <2>1. PICK i \in Supported, quantity \in 1..MaxSize :
          /\ Closable(i) > 0
          /\ Become(t, [IdleTrade EXCEPT !.pc = "planned", !.intent = i,
                                    !.size = Lesser(Closable(i), quantity)])
          /\ UNCHANGED account
    BY <1>2 DEF PrepareClose
  <2>2. PICK size : size = Lesser(Closable(i), quantity)
    OBVIOUS
  <2>3. size \in Nat
    BY <2>1, <2>2, SmallerOf DEF OrdersInv, Closable, Abs, OrdersAssumption
  <2>. DEFINE r == [IdleTrade EXCEPT !.pc = "planned", !.intent = i, !.size = size]
  <2>4. r \in TradeRecord /\ Good(r)
    BY <2>3, IdleRecord DEF IdleTrade, TradeRecord, Pcs
  <2>. QED
    BY <2>1, <2>2, <2>4, OneTrade
<1>. QED
  BY <1>1, <1>2 DEF Prepare

LEMMA ReadBeforeStep == ASSUME OrdersInv, NEW t \in Trade, ReadBefore(t) PROVE OrdersInv'
<1>1. PICK q \in TradeRecord : q = trade[t] /\ Good(q)
  BY DEF OrdersInv, TradesInv
<1>2. PICK read, alone : read = (IF On(t, "spot") THEN shown ELSE 0) /\ alone = (shown = spot)
  OBVIOUS
<1>3. read \in Int /\ alone \in BOOLEAN
  BY <1>2 DEF OrdersInv
<1>. DEFINE r == [q EXCEPT !.pc = "starting", !.before = read, !.alone = alone]
<1>4. q.pc = "planned" /\ q.filled = 0 /\ Become(t, r) /\ UNCHANGED account
  BY <1>1, <1>2 DEF ReadBefore
<1>5. r \in TradeRecord
  BY <1>1, <1>3 DEF TradeRecord, Pcs
<1>6. Buys(r) => read = shown
  BY <1>1, <1>2 DEF On
<1>7. Good(r)
  BY <1>1, <1>2, <1>4, <1>6 DEF TradeRecord, OrdersInv
<1>. QED
  BY <1>4, <1>5, <1>7, OneTrade

LEMMA SendStep ==
  ASSUME OrdersInv, NEW t \in Trade, LeverageFails(t) \/ Submit(t) \/ Refuse(t) \/ LoseAnswer(t)
  PROVE  OrdersInv'
<1>1. PICK q \in TradeRecord : q = trade[t] /\ Good(q)
  BY DEF OrdersInv, TradesInv
<1>2. CASE LeverageFails(t) \/ Refuse(t)
  <2>1. [q EXCEPT !.pc = "refused"] \in TradeRecord /\ Good([q EXCEPT !.pc = "refused"])
    BY <1>1, <1>2 DEF TradeRecord, Pcs, LeverageFails, Refuse
  <2>. QED
    BY <1>1, <1>2, <2>1, OneTrade DEF LeverageFails, Refuse
<1>3. CASE Submit(t)
  <2>. DEFINE r == [q EXCEPT !.pc = "sent", !.refs = q.refs \union {"cloid"}]
  <2>1. r \in TradeRecord /\ Good(r)
    BY <1>1, <1>3 DEF TradeRecord, Pcs, Submit
  <2>. QED
    BY <1>1, <1>3, <2>1, OneTrade DEF Submit, RecordClientId
<1>4. CASE LoseAnswer(t)
  <2>1. [q EXCEPT !.pc = "unknown"] \in TradeRecord /\ Good([q EXCEPT !.pc = "unknown"])
    BY <1>1, <1>4 DEF TradeRecord, Pcs, LoseAnswer
  <2>. QED
    BY <1>1, <1>4, <2>1, OneTrade DEF LoseAnswer
<1>. QED
  BY <1>2, <1>3, <1>4

LEMMA AnswerStep == ASSUME OrdersInv, NEW t \in Trade, Answer(t) PROVE OrdersInv'
<1>1. PICK q \in TradeRecord : q = trade[t] /\ Good(q)
  BY DEF OrdersInv, TradesInv
<1>. DEFINE r == [q EXCEPT !.pc = IF Buys(q) THEN "measuring" ELSE "filled",
                           !.refs = q.refs \union {"oid"}, !.received = q.filled]
<1>2. q.pc = "matched" /\ Become(t, r) /\ UNCHANGED account
  BY <1>1 DEF Answer, On, Does, Become, TradeRecord
<1>. DEFINE r1 == [q EXCEPT !.pc = IF Buys(q) THEN "measuring" ELSE "filled"]
<1>. DEFINE r2 == [r1 EXCEPT !.refs = q.refs \union {"oid"}]
<1>3. r \in TradeRecord
  <2>1. r1 \in TradeRecord
    BY RecordStays DEF Pcs
  <2>2. q.refs \union {"oid"} \in SUBSET {"cloid", "oid"} /\ q.filled \in Int
    BY DEF TradeRecord
  <2>3. r2 \in TradeRecord
    BY <2>1, <2>2, RecordStays
  <2>4. [r2 EXCEPT !.received = q.filled] \in TradeRecord
    BY <2>2, <2>3, RecordStays
  <2>. QED
    BY <2>4 DEF TradeRecord
<1>4. Good(r)
  BY <1>1, <1>2, <1>3 DEF TradeRecord
<1>. QED
  BY <1>2, <1>3, <1>4, OneTrade

LEMMA MeasureStep == ASSUME OrdersInv, NEW t \in Trade, Measure(t) PROVE OrdersInv'
<1>1. PICK q \in TradeRecord : q = trade[t] /\ Good(q)
  BY DEF OrdersInv, TradesInv
<1>2. q.pc = "measuring" /\ UNCHANGED account
  BY <1>1 DEF Measure
<1>3. CASE shown > q.before
  <2>1. PICK received : received = shown - q.before
    OBVIOUS
  <2>. DEFINE r == [q EXCEPT !.pc = "filled", !.reads = q.reads + 1, !.received = received]
  <2>2. Become(t, r)
    BY <1>1, <1>3, <2>1 DEF Measure, Received, TradeRecord
  <2>3. received \in Int /\ (q.alone => received = q.filled)
    BY <1>1, <1>2, <1>3, <2>1 DEF TradeRecord, OrdersInv
  <2>4. r \in TradeRecord
    <3>. q.reads + 1 \in Nat
      BY RecordStays
    <3>1. [q EXCEPT !.pc = "filled"] \in TradeRecord
      BY RecordStays DEF Pcs
    <3>2. [[q EXCEPT !.pc = "filled"] EXCEPT !.reads = q.reads + 1] \in TradeRecord
      BY <3>1, RecordStays
    <3>3. [[[q EXCEPT !.pc = "filled"] EXCEPT !.reads = q.reads + 1] EXCEPT !.received = received]
             \in TradeRecord
      BY <2>3, <3>2, RecordStays
    <3>. QED
      BY <3>3 DEF TradeRecord
  <2>5. Good(r)
    BY <1>1, <1>2, <2>3 DEF TradeRecord
  <2>. QED
    BY <1>2, <2>2, <2>4, <2>5, OneTrade
<1>4. CASE ~(shown > q.before)
  <2>. DEFINE read == [q EXCEPT !.reads = q.reads + 1]
  <2>. DEFINE lost == [q EXCEPT !.reads = q.reads + 1, !.pc = "unknown"]
  <2>1. Become(t, read) \/ Become(t, lost)
    BY <1>1, <1>4 DEF Measure, TradeRecord
  <2>2. read \in TradeRecord /\ lost \in TradeRecord
    <3>. q.reads + 1 \in Nat
      BY RecordStays
    <3>1. read \in TradeRecord
      BY RecordStays
    <3>2. [read EXCEPT !.pc = "unknown"] \in TradeRecord
      BY <3>1, RecordStays DEF Pcs
    <3>. QED
      BY <3>1, <3>2 DEF TradeRecord
  <2>3. Good(read)
    BY <1>1, <1>2 DEF TradeRecord
  <2>4. Good(lost)
    BY <1>1, <1>2 DEF TradeRecord
  <2>. QED
    BY <1>2, <2>1, <2>2, <2>3, <2>4, OneTrade
<1>. QED
  BY <1>3, <1>4

-----------------------------------------------------------------------------
(* The exchange                                                             *)

\* What an order can be matched with.
LEMMA MatchableNumber ==
  ASSUME OrdersInv, NEW t \in Trade
  PROVE  /\ Matchable(t) \in Int
         /\ Direction(t) \in {1, -1}
         /\ ReduceOnly(t) /\ Matchable(t) > 0 =>
              szi * Direction(t) < 0 /\ Matchable(t) <= Abs(szi)
<1>1. trade[t].size \in Int /\ spot \in Int /\ szi \in Int /\ Abs(szi) \in Int
  BY DEF OrdersInv, TradesInv, TradeRecord, Abs
<1>2. Direction(t) \in {1, -1}
  BY DEF Direction
<1>3. ReduceOnly(t) => On(t, "perp") /\ ~On(t, "spot") /\ ~(On(t, "spot") /\ Does(t, "open"))
  BY DEF ReduceOnly, On
<1>4. Lesser(spot, trade[t].size) \in Int /\ Lesser(Abs(szi), trade[t].size) \in Int
      /\ Lesser(Abs(szi), trade[t].size) <= Abs(szi)
  BY <1>1 DEF Lesser
<1>5. CASE ReduceOnly(t)
  BY <1>1, <1>2, <1>3, <1>4, <1>5 DEF Matchable
<1>6. CASE ~ReduceOnly(t)
  BY <1>1, <1>2, <1>4, <1>6 DEF Matchable
<1>. QED
  BY <1>5, <1>6

LEMMA FillStep == ASSUME OrdersInv, NEW t \in Trade, Fill(t) PROVE OrdersInv'
<1>1. PICK q \in TradeRecord : q = trade[t] /\ Good(q)
  BY DEF OrdersInv, TradesInv
<1>2. PICK n \in 1..Matchable(t) :
        /\ IF On(t, "perp")
           THEN szi' = szi + Direction(t) * n /\ UNCHANGED spot
           ELSE spot' = spot + Direction(t) * n /\ UNCHANGED szi
        /\ trade' = [u \in Trade |->
             IF u = t THEN [trade[t] EXCEPT !.pc = IF @ = "sent" THEN "matched" ELSE @,
                                            !.filled = n]
             ELSE [trade[u] EXCEPT !.alone = @ /\ On(t, "perp")]]
  BY DEF Fill
<1>3. q.pc \in {"sent", "unknown"} /\ q.filled = 0 /\ shown' = shown
  BY <1>1 DEF Fill
<1>4. n \in Nat /\ n # 0 /\ Direction(t) \in {1, -1}
  BY MatchableNumber
<1>5. szi' \in Int /\ spot' \in Int /\ shown' \in Int
  BY <1>2, <1>3, <1>4 DEF OrdersInv
<1>6. Buys(q) => Direction(t) = 1 /\ spot' = spot + n
  <2>1. Buys(q) => Direction(t) = 1 /\ ~On(t, "perp")
    BY <1>1 DEF Direction, Does, On, Supported, TradeRecord
  <2>. QED
    BY <1>2, <2>1 DEF OrdersInv
<1>7. trade'[t] \in TradeRecord /\ Good(trade[t])'
  <2>. DEFINE r == [q EXCEPT !.pc = IF q.pc = "sent" THEN "matched" ELSE q.pc, !.filled = n]
  <2>1. trade'[t] = r
    BY <1>1, <1>2 DEF TradeRecord
  <2>2. r \in TradeRecord
    BY <1>3, <1>4 DEF TradeRecord, Pcs
  <2>3. /\ NotYetFilled(r) /\ Recorded(r) /\ AloneSinceRead(r) /\ OnlyPurchasesAreMeasured(r)
        /\ MeasuredRight(r)
    BY <1>1, <1>3 DEF TradeRecord
  <2>4. r.alone /\ Buys(r) /\ r.pc = "matched" => spot' = r.before + r.filled /\ shown' = r.before
    BY <1>1, <1>3, <1>4, <1>6 DEF TradeRecord, OrdersInv
  <2>5. r.pc \in {"matched", "unknown"}
    BY <1>3 DEF TradeRecord
  <2>. QED
    BY <2>1, <2>2, <2>3, <2>4, <2>5
<1>8. ASSUME NEW u \in Trade, u # t PROVE trade'[u] \in TradeRecord /\ Good(trade[u])'
  <2>1. PICK w \in TradeRecord : w = trade[u] /\ Good(w)
    BY DEF OrdersInv, TradesInv
  <2>2. PICK alone : alone = (w.alone /\ On(t, "perp"))
    OBVIOUS
  <2>3. alone \in BOOLEAN /\ trade'[u] = [w EXCEPT !.alone = alone]
    BY <1>2, <1>8, <2>1, <2>2 DEF TradeRecord
  <2>4. [w EXCEPT !.alone = alone] \in TradeRecord
    BY <2>3 DEF TradeRecord
  <2>5. CASE On(t, "perp")
    <3>1. spot' = spot /\ shown' = shown /\ alone = w.alone
      BY <1>2, <1>3, <2>2, <2>5 DEF TradeRecord
    <3>2. [w EXCEPT !.alone = alone] = w
      BY <3>1 DEF TradeRecord
    <3>. QED
      BY <2>1, <2>3, <2>4, <3>1, <3>2
  <2>6. CASE ~On(t, "perp")
    <3>1. ~alone
      BY <2>2, <2>6
    <3>. QED
      BY <2>1, <2>3, <2>4, <3>1 DEF TradeRecord
  <2>. QED
    BY <2>5, <2>6
<1>9. TradesInv'
  <2>1. \A u \in Trade : trade'[u] \in TradeRecord /\ Good(trade[u])'
    BY <1>7, <1>8
  <2>2. trade' = [u \in Trade |-> trade'[u]]
    BY <1>2
  <2>. QED
    BY <2>1, <2>2 DEF TradesInv
<1>. QED
  BY <1>5, <1>9 DEF OrdersInv

LEMMA ExchangeStep ==
  ASSUME OrdersInv, CatchUp \/ Liquidate \/ UNCHANGED orderVars
  PROVE  OrdersInv'
<1>1. CASE CatchUp
  <2>1. UNCHANGED <<szi, spot, trade>> /\ shown' = spot
    BY <1>1 DEF CatchUp
  <2>2. ASSUME NEW t \in Trade PROVE Good(trade[t])'
    BY <2>1 DEF OrdersInv, TradesInv
  <2>. QED
    BY <2>1, <2>2 DEF OrdersInv, TradesInv
<1>2. CASE Liquidate
  BY <1>2 DEF Liquidate, OrdersInv, TradesInv
<1>3. CASE UNCHANGED orderVars
  BY <1>3 DEF orderVars, OrdersInv, TradesInv
<1>. QED
  BY <1>1, <1>2, <1>3

LEMMA OrdersInduction == OrdersSpec => []OrdersInv
<1>1. OrdersInit => OrdersInv
  BY IdleRecord DEF OrdersInit, OrdersInv, TradesInv
<1>2. OrdersInv /\ [OrdersNext]_orderVars => OrdersInv'
  <2> SUFFICES ASSUME OrdersInv, [OrdersNext]_orderVars PROVE OrdersInv'
    OBVIOUS
  <2>1. ASSUME NEW t \in Trade, Step(t) PROVE OrdersInv'
    BY <2>1, PrepareStep, ReadBeforeStep, SendStep, FillStep, AnswerStep, MeasureStep DEF Step
  <2>. QED
    BY <2>1, ExchangeStep DEF OrdersNext
<1>. QED
  BY <1>1, <1>2, PTL DEF OrdersSpec

-----------------------------------------------------------------------------
\* Only the exchange's matching fills an order.
LEMMA OnlyFillFills ==
  ASSUME OrdersInv, [OrdersNext]_orderVars, NEW t \in Trade, trade'[t].filled # 0, trade[t].filled = 0
  PROVE  Fill(t)
<1>1. ASSUME NEW u \in Trade, NEW r, Become(u, r), r.filled \in {trade[u].filled, 0} PROVE FALSE
  BY <1>1 DEF Become, OrdersInv, TradesInv
<1>2. ASSUME NEW u \in Trade, Prepare(u) PROVE FALSE
  <2>1. Prepare(u) => \E i, size : Become(u, [IdleTrade EXCEPT !.pc = "planned", !.intent = i, !.size = size])
    BY DEF Prepare, PrepareOpen, PrepareClose
  <2>2. PICK i, size : Become(u, [IdleTrade EXCEPT !.pc = "planned", !.intent = i, !.size = size])
    BY <1>2, <2>1
  <2>3. [IdleTrade EXCEPT !.pc = "planned", !.intent = i, !.size = size].filled = 0
    BY DEF IdleTrade
  <2>. QED
    BY <1>1, <2>2, <2>3
<1>3. ASSUME NEW u \in Trade,
             ReadBefore(u) \/ LeverageFails(u) \/ Submit(u) \/ Refuse(u) \/ Answer(u) \/ LoseAnswer(u)
               \/ Measure(u)
      PROVE  FALSE
  <2>1. PICK q \in TradeRecord : q = trade[u]
    BY DEF OrdersInv, TradesInv
  <2>2. CASE ReadBefore(u) \/ LeverageFails(u) \/ Submit(u)
    BY <1>1, <2>1, <2>2 DEF ReadBefore, LeverageFails, Submit, TradeRecord
  <2>3. CASE Refuse(u) \/ LoseAnswer(u)
    BY <1>1, <2>1, <2>3 DEF Refuse, LoseAnswer, TradeRecord
  <2>4. CASE Answer(u)
    BY <1>1, <2>1, <2>4 DEF Answer, TradeRecord
  <2>5. CASE Measure(u)
    BY <1>1, <2>1, <2>5 DEF Measure, TradeRecord
  <2>. QED
    BY <1>3, <2>2, <2>3, <2>4, <2>5
<1>4. ASSUME NEW u \in Trade, Fill(u), u # t PROVE FALSE
  BY <1>4 DEF Fill, OrdersInv, TradesInv, TradeRecord
<1>5. ~UNCHANGED trade
  OBVIOUS
<1>. QED
  BY <1>2, <1>3, <1>4, <1>5 DEF OrdersNext, Step, CatchUp, Liquidate, orderVars

\* A close makes the position smaller and never turns it over, although one
\* position stands for the lots of all wallets and sides and may have changed
\* since the order was planned: it is sent as an order that may only reduce
\* (hypercore-live-execution.ts, executeHypercorePlan).
THEOREM AlwaysReduces == OrdersSpec => ClosesNeverReverse
<1> DEFINE Reduces ==
      \A t \in Trade :
        trade'[t].filled # 0 /\ trade[t].filled = 0 /\ On(t, "perp") /\ Does(t, "close")
          => szi * szi' >= 0 /\ Abs(szi') < Abs(szi)
<1>1. ASSUME OrdersInv, [OrdersNext]_orderVars PROVE [Reduces]_orderVars
  <2> SUFFICES ASSUME NEW t \in Trade,
                      trade'[t].filled # 0, trade[t].filled = 0, On(t, "perp"), Does(t, "close")
               PROVE  szi * szi' >= 0 /\ Abs(szi') < Abs(szi)
    OBVIOUS
  <2>1. Fill(t)
    BY <1>1, OnlyFillFills
  <2>2. PICK n \in 1..Matchable(t) : szi' = szi + Direction(t) * n
    BY <2>1 DEF Fill
  <2>3. ReduceOnly(t) /\ szi \in Int /\ Matchable(t) \in Int /\ Direction(t) \in {1, -1}
    BY <1>1, MatchableNumber DEF ReduceOnly, OrdersInv
  <2>4. szi * Direction(t) < 0 /\ n \in Int /\ n > 0 /\ n <= Abs(szi)
    <3>1. n \in Int /\ n > 0 /\ n <= Matchable(t) /\ Matchable(t) > 0
      BY <2>3
    <3>2. szi * Direction(t) < 0 /\ Matchable(t) <= Abs(szi)
      BY <1>1, <2>3, <3>1, MatchableNumber
    <3>. QED
      BY <2>3, <3>1, <3>2 DEF Abs
  <2>5. CASE Direction(t) = 1
    <3>1. szi < 0 /\ n <= -szi /\ szi' = szi + n
      BY <2>2, <2>3, <2>4, <2>5 DEF Abs
    <3>2. szi' <= 0 /\ Abs(szi') = -szi' /\ Abs(szi) = -szi /\ szi' > szi
      BY <2>3, <2>4, <3>1 DEF Abs
    <3>. QED
      BY <2>3, <2>4, <3>1, <3>2
  <2>6. CASE Direction(t) = -1
    <3>1. szi > 0 /\ n <= szi /\ szi' = szi - n
      BY <2>2, <2>3, <2>4, <2>6 DEF Abs
    <3>2. szi' >= 0 /\ Abs(szi') = szi' /\ Abs(szi) = szi /\ szi' < szi
      BY <2>3, <2>4, <3>1 DEF Abs
    <3>. QED
      BY <2>3, <2>4, <3>1, <3>2
  <2>. QED
    BY <2>3, <2>5, <2>6
<1>. QED
  BY <1>1, OrdersInduction, PTL DEF OrdersSpec, ClosesNeverReverse

\* A purchase reports what its order brought, unless the balance was behind when
\* the trade began or another trade of the coin was filled meanwhile
\* (hypercore-live-execution.ts, waitForSpotBalanceIncrease).
THEOREM AloneIsMeasured == OrdersSpec => []SpotMeasuredAlone
<1>1. OrdersInv => SpotMeasuredAlone
  BY DEF OrdersInv, TradesInv, SpotMeasuredAlone
<1>. QED
  BY <1>1, OrdersInduction, PTL

\* Whatever the exchange filled can be found again by the client's order id,
\* also when its answer was lost: the id is recorded before the order is sent
\* (hypercore-live-execution.ts, hooks.onSubmitted).
THEOREM FilledCanBeFound == OrdersSpec => []FilledIsRecorded
<1>1. OrdersInv => FilledIsRecorded
  BY DEF OrdersInv, TradesInv, FilledIsRecorded, TradeRecord, Pcs
<1>. QED
  BY <1>1, OrdersInduction, PTL

HIDE OrdersAssumption

-----------------------------------------------------------------------------
(***************************************************************************)
(* The limits of live entries are exceeded by no more than other buys and  *)
(* the fee account for, for any number of buys under way, of assets and    *)
(* source wallets, and any limits.                                         *)
(*                                                                         *)
(* What makes it inductive: a buy under way, with what it is about to pay  *)
(* and the others have booked since it was let through, is within the      *)
(* limits it was held to.  Sales only help it.                             *)
(***************************************************************************)

USE LimitsAssumption

CostTable == [Asset -> [Source -> Nat]]

BuyState ==
  [pc : {"idle", "buying"}, asset : Asset \cup {"none"}, wallet : Source, usd : Nat,
   known : BOOLEAN, equity : Nat, more : [buys : Nat, token : Nat, wallet : Nat, positions : Nat]]

KeepsTo(b, table) ==
  /\ b.asset \in Asset
  /\ (TokenCostIn(table, b.asset) + b.usd) * 100
        <= ExposureLimit(b.equity, TokenExposure) + b.more.token * 100
  /\ b.wallet # NoWallet =>
        (WalletCostIn(table, b.wallet) + b.usd) * 100
           <= ExposureLimit(b.equity, WalletExposure) + b.more.wallet * 100
  /\ b.known = FALSE =>
        Cardinality(PositionsIn(table)) < PositionLimit(b.equity, b.usd) + b.more.positions

LimitsInv ==
  /\ cost \in CostTable /\ buy \in [BuyRequest -> BuyState]
  /\ \A r \in BuyRequest : buy[r].pc = "buying" => KeepsTo(buy[r], cost)

-----------------------------------------------------------------------------
\* The limits are numbers.
LEMMA LimitsAreNumbers ==
  ASSUME NEW e \in Nat
  PROVE  /\ ExposureLimit(e, TokenExposure) \in Int /\ ExposureLimit(e, WalletExposure) \in Int
         /\ \A usd \in Nat : PositionLimit(e, usd) \in Int
<1>1. /\ TokenExposure \in Nat /\ WalletExposure \in Nat /\ MinTrade \in Nat
      /\ MinPosition \in Nat /\ CashReserve \in Nat /\ MaxOpenPositions \in Int /\ GlobalPositions \in Int
  BY DEF LimitsAssumption
<1>2. \A x, y \in Int : Larger(x, y) \in Int /\ Smaller(x, y) \in Int /\ Larger(x, y) >= x
  BY DEF Larger, Smaller
<1>3. e * TokenExposure \in Int /\ e * WalletExposure \in Int /\ MinTrade * 100 \in Int
  BY <1>1
<1>4. ASSUME NEW usd \in Nat
      PROVE  PositionLimit(e, usd) \in Int
  <2>1. e * MinPosition \in Int /\ usd * 100 \in Int /\ e * (100 - CashReserve) \in Int
    BY <1>1
  <2>2. PICK x, free : x = e * MinPosition /\ free = e * (100 - CashReserve)
    OBVIOUS
  <2>3. PICK unit \in Nat : unit = Larger(50, Larger(usd * 100, Larger(MinTrade * 100, x))) /\ unit > 0
    <3>1. PICK m \in Int : m = Larger(usd * 100, Larger(MinTrade * 100, x))
      BY <1>2, <1>3, <2>1, <2>2
    <3>2. Larger(50, m) \in Nat /\ Larger(50, m) > 0
      BY DEF Larger
    <3> QED
      BY <3>1, <3>2
  <2>4. PICK d \in Int : d = free \div unit
    BY <2>1, <2>2, <2>3
  <2>5. PICK c \in Int : c = Larger(1, MaxOpenPositions)
    BY <1>1 DEF Larger
  <2>6. PICK k \in Int : k = Larger(1, d)
    BY DEF Larger
  <2>7. PICK m \in Int : m = Larger(c, GlobalPositions)
    BY <1>1 DEF Larger
  <2>8. PICK n \in Int : n = Larger(c, k)
    BY DEF Larger
  <2>9. PositionLimit(e, usd) = Smaller(m, n)
    BY <2>2, <2>3, <2>4, <2>5, <2>6, <2>7, <2>8 DEF PositionLimit
  <2> QED
    BY <2>9 DEF Smaller
<1> QED
  BY <1>1, <1>2, <1>3, <1>4 DEF ExposureLimit

\* What a table of costs adds up to.
LEMMA TableAddsUp ==
  ASSUME NEW table \in CostTable
  PROVE  /\ \A a \in Asset : TokenCostIn(table, a) \in Nat
         /\ \A w \in Source : WalletCostIn(table, w) \in Nat
         /\ IsFiniteSet(PositionsIn(table)) /\ Cardinality(PositionsIn(table)) \in Nat
<1>1. IsFiniteSet(Asset) /\ IsFiniteSet(Source)
  <2>1. IsFiniteSet(Wallet) /\ IsFiniteSet(Asset)
    BY DEF LimitsAssumption
  <2>2. IsFiniteSet(Wallet \cup {NoWallet})
    BY <2>1, FS_AddElement
  <2> QED
    BY <2>1, <2>2 DEF Source
<1>2. ASSUME NEW a \in Asset
      PROVE  TokenCostIn(table, a) \in Nat
  <2>1. PICK f : f = table[a] /\ DOMAIN f = Source /\ \A w \in Source : f[w] \in Nat
    BY DEF CostTable
  <2>2. SumFunctionOnSet(f, Source) \in Nat
    BY <1>1, <2>1, SumOfPart
  <2> QED
    BY <2>1, <2>2 DEF TokenCostIn, SumFunction
<1>3. ASSUME NEW w \in Source
      PROVE  WalletCostIn(table, w) \in Nat
  <2>1. PICK f : f = [a \in Asset |-> table[a][w]]
    OBVIOUS
  <2>2. DOMAIN f = Asset /\ \A a \in Asset : f[a] \in Nat
    BY <2>1 DEF CostTable
  <2>3. SumFunctionOnSet(f, Asset) \in Nat
    BY <1>1, <2>2, SumOfPart
  <2> QED
    BY <2>1, <2>2, <2>3 DEF WalletCostIn, SumFunction
<1>4. IsFiniteSet(PositionsIn(table))
  <2>1. PositionsIn(table) \subseteq Asset
    BY DEF PositionsIn
  <2> QED
    BY <1>1, <2>1, FS_Subset
<1>5. Cardinality(PositionsIn(table)) \in Nat
  BY <1>4, FS_CardinalityType
<1> QED
  BY <1>2, <1>3, <1>4, <1>5

\* The cost of one asset's lots from one source becomes n.
Recosted(table, a, w, n, next) ==
  /\ table \in CostTable /\ a \in Asset /\ w \in Source /\ n \in Nat
  /\ next = [table EXCEPT ![a] = [table[a] EXCEPT ![w] = n]]

LEMMA RecostedFacts ==
  ASSUME NEW table, NEW a, NEW w, NEW n, NEW next, Recosted(table, a, w, n, next)
  PROVE  /\ next \in CostTable
         /\ \A x \in Asset : TokenCostIn(next, x) =
              IF x = a THEN (TokenCostIn(table, x) - table[a][w]) + n ELSE TokenCostIn(table, x)
         /\ \A v \in Source : WalletCostIn(next, v) =
              IF v = w THEN (WalletCostIn(table, v) - table[a][w]) + n ELSE WalletCostIn(table, v)
         /\ PositionsIn(next) \subseteq PositionsIn(table) \cup {a}
         /\ n <= table[a][w] => PositionsIn(next) \subseteq PositionsIn(table)
<1>0. /\ table \in CostTable /\ a \in Asset /\ w \in Source /\ n \in Nat
      /\ next = [table EXCEPT ![a] = [table[a] EXCEPT ![w] = n]]
  BY DEF Recosted
<1>1. IsFiniteSet(Asset) /\ IsFiniteSet(Source)
  <2>1. IsFiniteSet(Wallet) /\ IsFiniteSet(Asset)
    BY DEF LimitsAssumption
  <2>2. IsFiniteSet(Wallet \cup {NoWallet})
    BY <2>1, FS_AddElement
  <2> QED
    BY <2>1, <2>2 DEF Source
<1>2. /\ next \in CostTable
      /\ \A x \in Asset, v \in Source : next[x][v] = IF x = a /\ v = w THEN n ELSE table[x][v]
      /\ \A x \in Asset, v \in Source : next[x][v] \in Nat /\ table[x][v] \in Nat
      /\ \A x \in Asset : x # a => next[x] = table[x]
  BY <1>0 DEF CostTable
<1>3. TokenCostIn(next, a) = (TokenCostIn(table, a) - table[a][w]) + n
  <2>1. PICK f, g : f = table[a] /\ g = next[a]
    OBVIOUS
  <2>2. DOMAIN f = Source /\ DOMAIN g = Source
    BY <1>0, <1>2, <2>1 DEF CostTable
  <2>3. DiffersAt(Source, f, g, w)
    BY <1>0, <1>1, <1>2, <2>1 DEF DiffersAt
  <2>4. SumFunctionOnSet(g, Source) = (SumFunctionOnSet(f, Source) - f[w]) + g[w]
    BY <2>3, SumChanges
  <2> QED
    BY <1>0, <1>2, <2>1, <2>2, <2>4 DEF TokenCostIn, SumFunction
<1>4. ASSUME NEW v \in Source
      PROVE  WalletCostIn(next, v) =
               IF v = w THEN (WalletCostIn(table, v) - table[a][w]) + n ELSE WalletCostIn(table, v)
  <2>1. PICK f, g : f = [x \in Asset |-> table[x][v]] /\ g = [x \in Asset |-> next[x][v]]
    OBVIOUS
  <2>2. /\ DOMAIN f = Asset /\ DOMAIN g = Asset
        /\ \A x \in Asset : f[x] = table[x][v] /\ g[x] = next[x][v]
    BY <2>1
  <2>3. DiffersAt(Asset, f, g, a)
    BY <1>0, <1>1, <1>2, <2>2 DEF DiffersAt
  <2>4. SumFunctionOnSet(g, Asset) = (SumFunctionOnSet(f, Asset) - f[a]) + g[a]
    BY <2>3, SumChanges
  <2>5. WalletCostIn(table, v) = SumFunctionOnSet(f, Asset) /\ WalletCostIn(next, v) = SumFunctionOnSet(g, Asset)
    BY <2>1, <2>2 DEF WalletCostIn, SumFunction
  <2>6. WalletCostIn(next, v) = (WalletCostIn(table, v) - table[a][v]) + next[a][v]
    BY <1>0, <2>2, <2>4, <2>5
  <2>7. WalletCostIn(table, v) \in Nat
    BY <1>0, TableAddsUp
  <2> QED
    BY <1>0, <1>2, <2>6, <2>7
<1>5. \A x \in Asset : x # a => TokenCostIn(next, x) = TokenCostIn(table, x)
  BY <1>2 DEF TokenCostIn
<1>6. PositionsIn(next) \subseteq PositionsIn(table) \cup {a}
  BY <1>5 DEF PositionsIn
<1>7. n <= table[a][w] => PositionsIn(next) \subseteq PositionsIn(table)
  <2>1. n <= table[a][w] => TokenCostIn(next, a) <= TokenCostIn(table, a)
    BY <1>0, <1>2, <1>3, TableAddsUp
  <2>2. TokenCostIn(table, a) \in Nat /\ TokenCostIn(next, a) \in Nat
    BY <1>0, <1>2, TableAddsUp
  <2> QED
    BY <1>5, <2>1, <2>2 DEF PositionsIn
<1> QED
  BY <1>2, <1>3, <1>4, <1>5, <1>6, <1>7

-----------------------------------------------------------------------------
(* The steps                                                                *)

LEMMA LimitsStart == LimitsInit => LimitsInv
<1> SUFFICES ASSUME LimitsInit PROVE LimitsInv
  OBVIOUS
<1>1. NoBuy \in BuyState /\ NoBuy.pc = "idle"
  BY DEF NoBuy, NoMore, BuyState, Source
<1> QED
  BY <1>1 DEF LimitsInit, LimitsInv, CostTable

LEMMA NoBuyIsOne == NoBuy \in BuyState /\ NoBuy.pc = "idle"
  BY DEF NoBuy, NoMore, BuyState, Source

LEMMA AllowedStep ==
  ASSUME LimitsInv, NEW r \in BuyRequest, BuyAllowed(r)
  PROVE  LimitsInv'
<1>1. PICK a \in Asset, w \in Source, usd \in TradeAmount, e \in Equity :
        /\ RiskAllowed(a, w, usd, e)
        /\ buy' = [buy EXCEPT ![r] = [pc |-> "buying", asset |-> a, wallet |-> w, usd |-> usd,
                     known |-> a \in Positions, equity |-> e, more |-> NoMore]]
        /\ cost' = cost
  BY DEF BuyAllowed
<1>2. usd \in Nat /\ e \in Nat /\ NoWallet \in Source
  BY DEF LimitsAssumption, Source
<1>3. PICK known : known = (a \in Positions) /\ known \in BOOLEAN
  <2>1. (a \in Positions) \in BOOLEAN
    BY SMT
  <2> QED
    BY <2>1
<1> DEFINE b == [pc |-> "buying", asset |-> a, wallet |-> w, usd |-> usd,
                  known |-> known, equity |-> e, more |-> NoMore]
<1>4. buy' = [buy EXCEPT ![r] = b]
  BY <1>1, <1>3
<1>5. /\ b \in BuyState /\ b.pc = "buying" /\ b.asset = a /\ b.wallet = w /\ b.usd = usd
      /\ b.known = known /\ b.equity = e
      /\ b.more.token = 0 /\ b.more.wallet = 0 /\ b.more.positions = 0
  <2>1. NoMore \in [buys : Nat, token : Nat, wallet : Nat, positions : Nat]
        /\ NoMore.token = 0 /\ NoMore.wallet = 0 /\ NoMore.positions = 0
    BY DEF NoMore
  <2>2. b \in BuyState
    BY <1>2, <1>3, <2>1 DEF BuyState
  <2> QED
    BY <2>1, <2>2
<1> HIDE DEF b
<1>6. KeepsTo(b, cost)
  <2>1. /\ TokenCostIn(cost, a) \in Nat /\ WalletCostIn(cost, w) \in Nat
        /\ Cardinality(PositionsIn(cost)) \in Nat
    BY TableAddsUp DEF LimitsInv
  <2>2. /\ ExposureLimit(e, TokenExposure) \in Int /\ ExposureLimit(e, WalletExposure) \in Int
        /\ PositionLimit(e, usd) \in Int
    BY <1>2, LimitsAreNumbers
  <2>3. /\ (TokenCostIn(cost, a) + usd) * 100 <= ExposureLimit(e, TokenExposure)
        /\ w # NoWallet => (WalletCostIn(cost, w) + usd) * 100 <= ExposureLimit(e, WalletExposure)
        /\ known = FALSE => Cardinality(PositionsIn(cost)) < PositionLimit(e, usd)
    BY <1>1, <1>3 DEF RiskAllowed, PositionAllowed, TokenCost, WalletCost, Positions
  <2> QED
    BY <1>2, <1>5, <2>1, <2>2, <2>3 DEF KeepsTo
<1>7. buy \in [BuyRequest -> BuyState]
  BY DEF LimitsInv
<1>8. buy' \in [BuyRequest -> BuyState] /\ buy'[r] = b /\ \A q \in BuyRequest : q # r => buy'[q] = buy[q]
  BY <1>4, <1>5, <1>7
<1> QED
  BY <1>1, <1>6, <1>8 DEF LimitsInv

\* What a booking does to a buy that is under way meanwhile.
LEMMA MetByAnother ==
  ASSUME LimitsInv, NEW r \in BuyRequest, NEW paid \in Nat, buy[r].pc = "buying", Booked(r, paid),
         NEW q \in BuyRequest, q # r, buy[q].pc = "buying", cost' \in CostTable,
         Recosted(cost, buy[r].asset, buy[r].wallet, cost[buy[r].asset][buy[r].wallet] + paid, cost')
  PROVE  buy'[q] \in BuyState /\ buy'[q].pc = "buying" /\ KeepsTo(buy'[q], cost')
<1>1. PICK b, s : b = buy[r] /\ s = buy[q] /\ b \in BuyState /\ s \in BuyState /\ KeepsTo(s, cost)
                  /\ KeepsTo(b, cost)
  BY DEF LimitsInv
<1>2. PICK old, new : old = cost /\ new = cost'
  OBVIOUS
<1>3. PICK t, v, p \in Nat : /\ t = (IF s.asset = b.asset THEN paid ELSE 0)
                             /\ v = (IF s.wallet = b.wallet THEN paid ELSE 0)
                             /\ p = (IF b.asset \in PositionsIn(old) THEN 0 ELSE 1)
  OBVIOUS
<1> DEFINE more == [buys |-> s.more.buys + 1, token |-> s.more.token + t,
                    wallet |-> s.more.wallet + v, positions |-> s.more.positions + p]
           n == [s EXCEPT !.more = more]
<1>4. buy'[q] = n
  BY <1>1, <1>2, <1>3 DEF Booked, Positions
<1>5. more \in [buys : Nat, token : Nat, wallet : Nat, positions : Nat]
      /\ more.token = s.more.token + t /\ more.wallet = s.more.wallet + v
      /\ more.positions = s.more.positions + p
  BY <1>1 DEF BuyState
<1> HIDE DEF more
<1>6. /\ n \in BuyState /\ n.pc = s.pc /\ n.asset = s.asset /\ n.wallet = s.wallet /\ n.usd = s.usd
      /\ n.known = s.known /\ n.equity = s.equity /\ n.more = more
  BY <1>1, <1>5 DEF BuyState
<1> HIDE DEF n
<1>7. /\ s.asset \in Asset /\ s.wallet \in Source /\ s.usd \in Nat /\ s.equity \in Nat
      /\ s.more.token \in Nat /\ s.more.wallet \in Nat /\ s.more.positions \in Nat
      /\ b.asset \in Asset /\ b.wallet \in Source
  BY <1>1 DEF BuyState, KeepsTo
<1>8. PICK was \in Nat : was = old[b.asset][b.wallet] /\ Recosted(old, b.asset, b.wallet, was + paid, new)
                         /\ old \in CostTable /\ new \in CostTable
  BY <1>1, <1>2, <1>7 DEF LimitsInv, CostTable
<1>9. /\ TokenCostIn(old, s.asset) \in Nat /\ WalletCostIn(old, s.wallet) \in Nat
      /\ TokenCostIn(new, s.asset) = TokenCostIn(old, s.asset) + t
      /\ WalletCostIn(new, s.wallet) = WalletCostIn(old, s.wallet) + v
  <2>1. /\ \A x \in Asset : TokenCostIn(new, x) =
              IF x = b.asset THEN (TokenCostIn(old, x) - was) + (was + paid) ELSE TokenCostIn(old, x)
        /\ \A x \in Source : WalletCostIn(new, x) =
              IF x = b.wallet THEN (WalletCostIn(old, x) - was) + (was + paid) ELSE WalletCostIn(old, x)
    BY <1>8, RecostedFacts
  <2>2. TokenCostIn(old, s.asset) \in Nat /\ WalletCostIn(old, s.wallet) \in Nat
    BY <1>7, <1>8, TableAddsUp
  <2> QED
    BY <1>3, <1>7, <2>1, <2>2
<1>10. /\ Cardinality(PositionsIn(old)) \in Nat /\ Cardinality(PositionsIn(new)) \in Nat
       /\ Cardinality(PositionsIn(new)) <= Cardinality(PositionsIn(old)) + p
  <2>1. PICK A, B, a : A = PositionsIn(old) /\ B = PositionsIn(new) /\ a = b.asset
    OBVIOUS
  <2>2. B \subseteq A \cup {a} /\ IsFiniteSet(A) /\ IsFiniteSet(B)
    BY <1>8, <2>1, RecostedFacts, TableAddsUp
  <2>3. Cardinality(A) \in Nat /\ Cardinality(B) \in Nat
    BY <2>2, FS_CardinalityType
  <2>a. p = IF a \in A THEN 0 ELSE 1
    BY <1>3, <2>1
  <2>b. /\ IsFiniteSet(A \cup {a})
        /\ Cardinality(A \cup {a}) = IF a \in A THEN Cardinality(A) ELSE Cardinality(A) + 1
    BY <2>2, FS_AddElement
  <2>4. IsFiniteSet(A \cup {a}) /\ Cardinality(A \cup {a}) = Cardinality(A) + p
    BY <2>3, <2>a, <2>b
  <2>5. Cardinality(B) <= Cardinality(A \cup {a})
    BY <2>2, <2>4, FS_Subset
  <2> QED
    BY <2>1, <2>3, <2>4, <2>5
<1>11. /\ ExposureLimit(s.equity, TokenExposure) \in Int /\ ExposureLimit(s.equity, WalletExposure) \in Int
       /\ PositionLimit(s.equity, s.usd) \in Int
  BY <1>7, LimitsAreNumbers
<1>12. KeepsTo(n, new)
  <2>1. (TokenCostIn(new, s.asset) + s.usd) * 100
           <= ExposureLimit(s.equity, TokenExposure) + more.token * 100
    BY <1>1, <1>2, <1>3, <1>5, <1>7, <1>9, <1>11 DEF KeepsTo
  <2>2. s.wallet # NoWallet =>
          (WalletCostIn(new, s.wallet) + s.usd) * 100
             <= ExposureLimit(s.equity, WalletExposure) + more.wallet * 100
    BY <1>1, <1>2, <1>3, <1>5, <1>7, <1>9, <1>11 DEF KeepsTo
  <2>3. s.known = FALSE =>
          Cardinality(PositionsIn(new)) < PositionLimit(s.equity, s.usd) + more.positions
    BY <1>1, <1>2, <1>3, <1>5, <1>7, <1>10, <1>11 DEF KeepsTo
  <2> QED
    BY <1>6, <1>7, <2>1, <2>2, <2>3 DEF KeepsTo
<1> QED
  BY <1>1, <1>2, <1>4, <1>6, <1>12

\* What a buy books.
LEMMA BookFacts ==
  ASSUME LimitsInv, NEW r \in BuyRequest, Book(r)
  PROVE  \E fee \in 0..MaxFee :
           /\ Booked(r, buy[r].usd + fee) /\ buy[r].pc = "buying" /\ buy[r].usd + fee \in Nat
           /\ Recosted(cost, buy[r].asset, buy[r].wallet,
                       cost[buy[r].asset][buy[r].wallet] + (buy[r].usd + fee), cost')
           /\ cost' \in CostTable
<1>1. PICK fee \in 0..MaxFee : Booked(r, buy[r].usd + fee) /\ buy[r].pc = "buying"
  BY DEF Book
<1>2. MaxFee \in Nat
  BY DEF LimitsAssumption
<1>3. buy[r] \in BuyState /\ buy[r].asset \in Asset /\ cost \in CostTable
  BY <1>1 DEF LimitsInv, KeepsTo
<1>4. buy[r].wallet \in Source /\ buy[r].usd \in Nat
  BY <1>3 DEF BuyState
<1>5. fee \in Nat /\ buy[r].usd + fee \in Nat
  BY <1>2, <1>4
<1>6. cost[buy[r].asset][buy[r].wallet] \in Nat
  BY <1>3, <1>4 DEF CostTable
<1>7. cost' = [cost EXCEPT ![buy[r].asset] =
                 [cost[buy[r].asset] EXCEPT
                    ![buy[r].wallet] = cost[buy[r].asset][buy[r].wallet] + (buy[r].usd + fee)]]
  BY <1>1 DEF Booked
<1>8. Recosted(cost, buy[r].asset, buy[r].wallet,
               cost[buy[r].asset][buy[r].wallet] + (buy[r].usd + fee), cost')
  BY <1>3, <1>4, <1>5, <1>6, <1>7 DEF Recosted
<1>9. cost' \in CostTable
  BY <1>8, RecostedFacts
<1> QED
  BY <1>1, <1>5, <1>8, <1>9

LEMMA BookStep ==
  ASSUME LimitsInv, NEW r \in BuyRequest, Book(r)
  PROVE  LimitsInv'
<1>1. PICK paid \in Nat :
        /\ Booked(r, paid) /\ buy[r].pc = "buying" /\ cost' \in CostTable
        /\ Recosted(cost, buy[r].asset, buy[r].wallet, cost[buy[r].asset][buy[r].wallet] + paid, cost')
  BY BookFacts
<1>2. ASSUME NEW q \in BuyRequest
      PROVE  buy'[q] \in BuyState /\ (buy'[q].pc = "buying" => KeepsTo(buy'[q], cost'))
  <2>1. CASE q = r \/ buy[q].pc = "idle"
    BY <1>1, <2>1, NoBuyIsOne DEF Booked
  <2>2. CASE ~(q = r \/ buy[q].pc = "idle")
    <3>1. q # r /\ buy[q].pc = "buying"
      BY <2>2 DEF LimitsInv, BuyState
    <3> QED
      BY <1>1, <3>1, MetByAnother
  <2> QED
    BY <2>1, <2>2
<1>3. buy' \in [BuyRequest -> BuyState]
  <2>1. \A q \in BuyRequest : buy'[q] \in BuyState
    BY <1>2
  <2> QED
    BY <1>1, <2>1 DEF Booked
<1> QED
  BY <1>1, <1>2, <1>3 DEF LimitsInv

\* A sale makes the lots cost less.
LEMMA SellStep ==
  ASSUME LimitsInv, Sell
  PROVE  LimitsInv'
<1>1. PICK a \in Asset, w \in Source : \E left \in {0, (cost[a][w] + 1) \div 2} :
        cost[a][w] > 0 /\ cost' = [cost EXCEPT ![a][w] = left] /\ buy' = buy
  BY DEF Sell
<1>2. PICK old, new, was : /\ old = cost /\ new = cost' /\ was = cost[a][w]
                           /\ old \in CostTable /\ was \in Nat
  BY DEF LimitsInv, CostTable
<1>3. PICK left \in Nat : left <= was /\ new = [old EXCEPT ![a] = [old[a] EXCEPT ![w] = left]]
  <2>1. PICK left \in {0, (was + 1) \div 2} :
          was > 0 /\ new = [old EXCEPT ![a] = [old[a] EXCEPT ![w] = left]]
    BY <1>1, <1>2
  <2>2. left \in Nat /\ left <= was
    BY <1>2, <2>1
  <2> QED
    BY <2>1, <2>2
<1>4. Recosted(old, a, w, left, new)
  BY <1>2, <1>3 DEF Recosted
<1>5. /\ new \in CostTable
      /\ \A x \in Asset : TokenCostIn(new, x) <= TokenCostIn(old, x)
      /\ \A v \in Source : WalletCostIn(new, v) <= WalletCostIn(old, v)
      /\ Cardinality(PositionsIn(new)) <= Cardinality(PositionsIn(old))
  <2>1. /\ new \in CostTable
        /\ \A x \in Asset : TokenCostIn(new, x) =
              IF x = a THEN (TokenCostIn(old, x) - old[a][w]) + left ELSE TokenCostIn(old, x)
        /\ \A v \in Source : WalletCostIn(new, v) =
              IF v = w THEN (WalletCostIn(old, v) - old[a][w]) + left ELSE WalletCostIn(old, v)
        /\ PositionsIn(new) \subseteq PositionsIn(old)
    <3>1. left <= old[a][w]
      BY <1>2, <1>3
    <3> QED
      BY <1>4, <3>1, RecostedFacts
  <2>2. /\ \A x \in Asset : TokenCostIn(old, x) \in Nat
        /\ \A v \in Source : WalletCostIn(old, v) \in Nat
        /\ IsFiniteSet(PositionsIn(old))
    BY <1>2, TableAddsUp
  <2>3. Cardinality(PositionsIn(new)) <= Cardinality(PositionsIn(old))
    BY <2>1, <2>2, FS_Subset
  <2> QED
    <3>0. \A n \in Nat : (n - old[a][w]) + left <= n
      BY <1>2, <1>3
    <3>1. \A x \in Asset : TokenCostIn(new, x) <= TokenCostIn(old, x)
      BY <2>1, <2>2, <3>0
    <3>2. \A v \in Source : WalletCostIn(new, v) <= WalletCostIn(old, v)
      BY <2>1, <2>2, <3>0
    <3> QED
      BY <2>1, <2>3, <3>1, <3>2
<1>6. ASSUME NEW r \in BuyRequest, buy[r].pc = "buying"
      PROVE  KeepsTo(buy[r], new)
  <2>1. PICK b : b = buy[r] /\ b \in BuyState /\ KeepsTo(b, old)
    BY <1>2, <1>6 DEF LimitsInv
  <2>2. /\ b.asset \in Asset /\ b.wallet \in Source /\ b.usd \in Nat /\ b.equity \in Nat
        /\ b.more.token \in Nat /\ b.more.wallet \in Nat /\ b.more.positions \in Nat
    BY <2>1 DEF BuyState, KeepsTo
  <2>3. /\ TokenCostIn(old, b.asset) \in Nat /\ TokenCostIn(new, b.asset) \in Nat
        /\ WalletCostIn(old, b.wallet) \in Nat /\ WalletCostIn(new, b.wallet) \in Nat
        /\ Cardinality(PositionsIn(old)) \in Nat /\ Cardinality(PositionsIn(new)) \in Nat
    BY <1>2, <1>5, <2>2, TableAddsUp
  <2>4. /\ ExposureLimit(b.equity, TokenExposure) \in Int
        /\ ExposureLimit(b.equity, WalletExposure) \in Int
        /\ PositionLimit(b.equity, b.usd) \in Int
    BY <2>2, LimitsAreNumbers
  <2>5. /\ TokenCostIn(new, b.asset) <= TokenCostIn(old, b.asset)
        /\ WalletCostIn(new, b.wallet) <= WalletCostIn(old, b.wallet)
    BY <1>5, <2>2
  <2>6. KeepsTo(b, new)
    BY <1>5, <2>1, <2>2, <2>3, <2>4, <2>5 DEF KeepsTo
  <2> QED
    BY <2>1, <2>6
<1> QED
  BY <1>1, <1>2, <1>5, <1>6 DEF LimitsInv

LEMMA LimitsStep ==
  ASSUME LimitsInv, [LimitsNext]_limitVars
  PROVE  LimitsInv'
<1>1. ASSUME NEW r \in BuyRequest, BuyFails(r)
      PROVE  LimitsInv'
  BY <1>1, NoBuyIsOne DEF BuyFails, LimitsInv
<1>2. CASE UNCHANGED <<cost, buy>>
  BY <1>2 DEF LimitsInv
<1>3. CASE BuyRefused \/ ReadPortfolio \/ NextDay \/ UNCHANGED limitVars
  BY <1>2, <1>3 DEF BuyRefused, ReadPortfolio, NextDay, limitVars
<1> QED
  BY <1>1, <1>3, AllowedStep, BookStep, SellStep DEF LimitsNext

\* A buy leaves the cost of the token's and of the source wallet's lots and the
\* number of positions over the limits it was held to by no more than what others
\* booked since, and its own fee (assertLivePositionRisk, insertExecutionLot).
THEOREM OverByOthersOnly == LimitsSpec => OverLimitByOthersOnly
<1>1. LimitsInv /\ [LimitsNext]_limitVars => LimitsInv'
  BY LimitsStep
<1>2. ASSUME LimitsInv, [LimitsNext]_limitVars, NEW r \in BuyRequest,
             buy[r].pc = "buying", buy'[r].pc = "idle", cost' # cost
      PROVE  /\ TokenCostIn(cost', buy[r].asset) * 100
                  <= ExposureLimit(buy[r].equity, TokenExposure) + (MaxFee + buy[r].more.token) * 100
             /\ buy[r].wallet # NoWallet =>
                  WalletCostIn(cost', buy[r].wallet) * 100
                    <= ExposureLimit(buy[r].equity, WalletExposure) + (MaxFee + buy[r].more.wallet) * 100
             /\ ~buy[r].known =>
                  Cardinality(PositionsIn(cost')) <= PositionLimit(buy[r].equity, buy[r].usd)
                                                      + buy[r].more.positions
  <2>1. Book(r)
    <3>1. ASSUME NEW q \in BuyRequest, q # r, Book(q)
          PROVE  FALSE
      <4>1. PICK paid : Booked(q, paid)
        BY <3>1 DEF Book
      <4>2. buy[r] \in BuyState
        BY <1>2 DEF LimitsInv
      <4>3. buy'[r].pc = buy[r].pc
        BY <1>2, <3>1, <4>1, <4>2 DEF Booked, BuyState
      <4> QED
        BY <1>2, <4>3
    <3> QED
      BY <1>2, <3>1 DEF LimitsNext, BuyAllowed, BuyFails, BuyRefused, Sell, ReadPortfolio, NextDay,
                        limitVars
  <2>2. PICK b, old, new : b = buy[r] /\ old = cost /\ new = cost'
    OBVIOUS
  <2>3. b \in BuyState /\ KeepsTo(b, old)
    BY <1>2, <2>2 DEF LimitsInv
  <2>4. /\ b.asset \in Asset /\ b.wallet \in Source /\ b.usd \in Nat /\ b.equity \in Nat
        /\ b.more.token \in Nat /\ b.more.wallet \in Nat /\ b.more.positions \in Nat
        /\ b.known \in BOOLEAN
    BY <2>3 DEF BuyState, KeepsTo
  <2>5. PICK fee \in 0..MaxFee :
          /\ Recosted(old, b.asset, b.wallet, old[b.asset][b.wallet] + (b.usd + fee), new)
          /\ old \in CostTable /\ new \in CostTable
    BY <1>2, <2>1, <2>2, BookFacts DEF LimitsInv
  <2>6. fee \in Nat /\ fee <= MaxFee /\ MaxFee \in Nat
    BY DEF LimitsAssumption
  <2>7. PICK was \in Nat : was = old[b.asset][b.wallet]
    BY <2>4, <2>5 DEF CostTable
  <2>8. /\ TokenCostIn(old, b.asset) \in Nat /\ WalletCostIn(old, b.wallet) \in Nat
        /\ TokenCostIn(new, b.asset) = TokenCostIn(old, b.asset) + b.usd + fee
        /\ WalletCostIn(new, b.wallet) = WalletCostIn(old, b.wallet) + b.usd + fee
    <3>1. /\ TokenCostIn(new, b.asset) = (TokenCostIn(old, b.asset) - was) + (was + (b.usd + fee))
          /\ WalletCostIn(new, b.wallet) = (WalletCostIn(old, b.wallet) - was) + (was + (b.usd + fee))
      BY <2>4, <2>5, <2>7, RecostedFacts
    <3>2. TokenCostIn(old, b.asset) \in Nat /\ WalletCostIn(old, b.wallet) \in Nat
      BY <2>4, <2>5, TableAddsUp
    <3> QED
      BY <2>4, <2>6, <3>1, <3>2
  <2>9. /\ Cardinality(PositionsIn(old)) \in Nat /\ Cardinality(PositionsIn(new)) \in Nat
        /\ Cardinality(PositionsIn(new)) <= Cardinality(PositionsIn(old)) + 1
    <3>1. PICK A, B, a : A = PositionsIn(old) /\ B = PositionsIn(new) /\ a = b.asset
      OBVIOUS
    <3>2. B \subseteq A \cup {a} /\ IsFiniteSet(A) /\ IsFiniteSet(B)
      BY <2>5, <3>1, RecostedFacts, TableAddsUp
    <3>3. /\ IsFiniteSet(A \cup {a})
          /\ Cardinality(A \cup {a}) = IF a \in A THEN Cardinality(A) ELSE Cardinality(A) + 1
      BY <3>2, FS_AddElement
    <3>4. Cardinality(A) \in Nat /\ Cardinality(B) \in Nat
      BY <3>2, FS_CardinalityType
    <3>5. Cardinality(B) <= Cardinality(A \cup {a})
      BY <3>2, <3>3, FS_Subset
    <3> QED
      BY <3>1, <3>3, <3>4, <3>5
  <2>10. /\ ExposureLimit(b.equity, TokenExposure) \in Int
         /\ ExposureLimit(b.equity, WalletExposure) \in Int
         /\ PositionLimit(b.equity, b.usd) \in Int
    BY <2>4, LimitsAreNumbers
  <2>11. TokenCostIn(new, b.asset) * 100
            <= ExposureLimit(b.equity, TokenExposure) + (MaxFee + b.more.token) * 100
    BY <2>3, <2>4, <2>6, <2>8, <2>10 DEF KeepsTo
  <2>12. b.wallet # NoWallet =>
           WalletCostIn(new, b.wallet) * 100
             <= ExposureLimit(b.equity, WalletExposure) + (MaxFee + b.more.wallet) * 100
    BY <2>3, <2>4, <2>6, <2>8, <2>10 DEF KeepsTo
  <2>13. b.known = FALSE =>
           Cardinality(PositionsIn(new)) <= PositionLimit(b.equity, b.usd) + b.more.positions
    BY <2>3, <2>4, <2>9, <2>10 DEF KeepsTo
  <2> QED
    BY <2>2, <2>4, <2>11, <2>12, <2>13
<1>3. LimitsInv /\ [LimitsNext]_limitVars =>
        \A r \in BuyRequest :
          LET b == buy[r]
              Within(total, percent, others) == total * 100 <= ExposureLimit(b.equity, percent) + others * 100
          IN b.pc = "buying" /\ buy'[r].pc = "idle" /\ cost' # cost =>
               /\ Within(TokenCostIn(cost', b.asset), TokenExposure, MaxFee + b.more.token)
               /\ b.wallet # NoWallet => Within(WalletCostIn(cost', b.wallet), WalletExposure, MaxFee + b.more.wallet)
               /\ ~b.known => Cardinality(PositionsIn(cost')) <= PositionLimit(b.equity, b.usd) + b.more.positions
  BY <1>2
<1> QED
  BY LimitsStart, <1>1, <1>3, PTL DEF LimitsSpec, OverLimitByOthersOnly

HIDE LimitsAssumption

===============================================================================
