-------------------------- MODULE LiveCertification ---------------------------
(***************************************************************************)
(* The live tests of a network (api/live-readiness/certify): small real    *)
(* orders, each allowed once the tests before it have passed, that the     *)
(* operator runs before copying with real funds.  Requests may overlap: a  *)
(* second one for a step under way is held off only by an idempotency key  *)
(* that changes every thirty seconds and with the asset or the amount, so  *)
(* here nothing holds it off.                                              *)
(*                                                                         *)
(* The order itself is one step (see ExecutionLifecycle), the amounts of   *)
(* lots are left out: a step that sells half closes some of the lots it    *)
(* looked at and leaves one of them smaller.                               *)
(***************************************************************************)
EXTENDS Naturals, Sequences, FiniteSets, SequencesExt

CONSTANTS
  Test, \* requests under way at the same time
  MaxLots  \* bound of the lots opened

ASSUME CertificationAssumption == MaxLots \in Nat

VARIABLES
  network,     \* "hypercore", or "dex" for the other networks
  certified, \* live_certification_steps.status
  applied,   \* the steps that have a confirmed and accounted execution attempt
  lots,      \* per market, the open lots of certification
  opened,    \* how many lots were opened
  test,
  cleared    \* live mode, bots stopped, breaker not halted, live trading enabled

certificationVars == <<network, certified, applied, lots, opened, test, cleared>>

-----------------------------------------------------------------------------
(* requiredCertificationSteps                                               *)

HypercoreSteps == <<"spot_open", "spot_close", "perp_open", "perp_reduce", "perp_close">>
DexSteps == <<"small_buy", "partial_sell", "full_sell">>

Required == IF network = "hypercore" THEN HypercoreSteps ELSE DexSteps
Steps == ToSet(Required)
AllSteps == ToSet(HypercoreSteps) \cup ToSet(DexSteps)

Markets == {"spot", "perp", "token"}
Market(s) ==
  CASE s \in ToSet(DexSteps) -> "token"
    [] s \in {"spot_open", "spot_close"} -> "spot"
    [] OTHER -> "perp"

Opens(s) == s \in {"small_buy", "spot_open", "perp_open"}
Halves(s) == s \in {"partial_sell", "perp_reduce"}
EndsWithClose(s) == s \in {"spot_close", "perp_close"}

NoTest == [pc |-> "idle", step |-> "none", seen |-> {}]

CertificationInit ==
  /\ network \in {"hypercore", "dex"}
  /\ certified = [s \in Steps |-> "pending"]
  /\ applied = {}
  /\ lots = [m \in Markets |-> {}] /\ opened = 0
  /\ test = [r \in Test |-> NoTest]
  /\ cleared = TRUE

-----------------------------------------------------------------------------
(* assertCertificationEnvironment                                           *)

Index(s) == CHOOSE i \in DOMAIN Required : Required[i] = s

\* Fault: the step right before is not looked at.
AllButLast(s) == {Required[i] : i \in 1..(Index(s) - 2)}

Previous(s) == {Required[i] : i \in 1..(Index(s) - 1)}

\* A position that a test left open may be closed whatever the tests say.
EmergencyClose(s) == EndsWithClose(s) /\ \E m \in Markets : lots[m] # {}

Permitted(s) ==
  /\ \A p \in Previous(s) : certified[p] = "passed" \/ EmergencyClose(s)
  /\ cleared

\* A refused request marks its step failed, also when it had passed.
Refused(s) ==
  /\ s \in Steps /\ ~Permitted(s)
  /\ certified' = [certified EXCEPT ![s] = "failed"]
  /\ UNCHANGED <<network, applied, lots, opened, test, cleared>>

-----------------------------------------------------------------------------
(* POST                                                                     *)

Becomes(r, pc, s, seen) == test' = [test EXCEPT ![r] = [pc |-> pc, step |-> s, seen |-> seen]]

\* The order was executed before and is not sent again.
FoundConfirmed(r, s) ==
  /\ test[r].pc = "idle" /\ s \in applied /\ Permitted(s)
  /\ Becomes(r, "reconciling", s, {})
  /\ UNCHANGED <<network, certified, applied, lots, opened, cleared>>

\* Also for a step that was executed: with another asset, or more than 500
\* attempts ago.
ClaimStep(r, s) ==
  /\ test[r].pc = "idle" /\ s \in Steps /\ Permitted(s)
  /\ Becomes(r, "claimed", s, {})
  /\ UNCHANGED <<network, certified, applied, lots, opened, cleared>>

\* The open lots of the asset, read before the quote, the checks and the order
\* are awaited; a step that sells needs some.
LookAtLots(r) ==
  /\ test[r].pc = "claimed"
  /\ LET s == test[r].step IN
       IF Opens(s) THEN Becomes(r, "ordering", s, {})
       ELSE \E seen \in SUBSET lots[Market(s)] : seen # {} /\ Becomes(r, "ordering", s, seen)
  /\ UNCHANGED <<network, certified, applied, lots, opened, cleared>>

\* No lots, a check, a refused or a lost order: recordExecutionFailure.
Fails(r) ==
  /\ test[r].pc \in {"claimed", "ordering"}
  /\ certified' = [certified EXCEPT ![test[r].step] = "failed"]
  /\ test' = [test EXCEPT ![r] = NoTest]
  /\ UNCHANGED <<network, applied, lots, opened, cleared>>

\* insertExecutionLot, or reduceExecutionLots, which writes the lots as they were
\* when looked at, less what was sold: one that was closed since may open again.
BookTest(r) ==
  LET s == test[r].step
      m == Market(s)
      seen == test[r].seen
      Set(ls) == lots' = [lots EXCEPT ![m] = ls]
  IN IF Opens(s) THEN opened < MaxLots /\ opened' = opened + 1 /\ Set(lots[m] \cup {opened + 1})
     ELSE /\ UNCHANGED opened
          /\ IF Halves(s)
               THEN \E closed \in SUBSET seen, smaller \in seen :
                      smaller \notin closed /\ Set((lots[m] \ closed) \cup {smaller})
               ELSE Set(lots[m] \ seen)

Confirmed(r) ==
  /\ test[r].pc = "ordering"
  /\ BookTest(r)
  /\ applied' = applied \cup {test[r].step}
  /\ test' = [test EXCEPT ![r].pc = "reconciling", ![r].seen = {}]
  /\ UNCHANGED <<network, certified, cleared>>

\* reconcileAfterLiveExecution found the network's balances to cover the lots.
Reconciled(r) ==
  /\ test[r].pc = "reconciling"
  /\ certified' = [certified EXCEPT ![test[r].step] = "passed"]
  /\ test' = [test EXCEPT ![r] = NoTest]
  /\ UNCHANGED <<network, applied, lots, opened, cleared>>

\* It did not, and the breaker halts; or the network does not know the order yet.
ReconciliationFails(r) ==
  /\ test[r].pc = "reconciling"
  /\ certified' = [certified EXCEPT ![test[r].step] = "failed"]
  /\ test' = [test EXCEPT ![r] = NoTest]
  /\ cleared' \in {FALSE, cleared}
  /\ UNCHANGED <<network, applied, lots, opened>>

-----------------------------------------------------------------------------
\* Modes, bots and breaker change.
OperatorActs ==
  /\ cleared' = ~cleared
  /\ UNCHANGED <<network, certified, applied, lots, opened, test>>

Restarts ==
  /\ test' = [r \in Test |-> NoTest]
  /\ UNCHANGED <<network, certified, applied, lots, opened, cleared>>

CertificationNext ==
  \/ \E s \in AllSteps : Refused(s)
  \/ \E r \in Test :
       \/ \E s \in AllSteps : FoundConfirmed(r, s) \/ ClaimStep(r, s)
       \/ LookAtLots(r) \/ Fails(r) \/ Confirmed(r) \/ Reconciled(r) \/ ReconciliationFails(r)
  \/ OperatorActs \/ Restarts

CertificationSpec == CertificationInit /\ [][CertificationNext]_certificationVars

-----------------------------------------------------------------------------
(* Properties                                                               *)

\* Every variable holds what the code keeps in it.
CertificationTypeOK ==
  /\ certified \in [Steps -> {"pending", "passed", "failed"}]
  /\ applied \subseteq Steps
  /\ lots \in [Markets -> SUBSET (1..MaxLots)]
  /\ \A r \in Test : test[r].seen \subseteq 1..MaxLots

\* A step shown as passed was executed with real funds, and so was every step
\* before it; for a step that closes, which may run out of turn, at least the one
\* that opened its market was.  A failing request, a retry, a recovered attempt, a
\* restart or an overlapping request does not certify what was never tried
\* (certify/route.ts, POST and assertCertificationEnvironment).
PassedWasTraded ==
  \A i \in DOMAIN Required :
    LET s == Required[i]
    IN certified[s] = "passed" =>
         /\ s \in applied
         /\ \/ \A j \in 1..(i - 1) : Required[j] \in applied
            \/ EndsWithClose(s) /\ \E o \in applied : Opens(o) /\ Market(o) = Market(s)

===============================================================================
