----------------------- MODULE ExecutionLifecycleProofs -----------------------
(***************************************************************************)
(* Proofs about ExecutionLifecycle for any number of orders, handlers,     *)
(* integrations and restarts: its types, then that IInv is an inductive    *)
(* invariant; the safety properties and the refinement of OrderLedger      *)
(* follow from it.  Last, with an invariant of its own (HaltInv), that a   *)
(* failed verdict halts trading.                                           *)
(***************************************************************************)
EXTENDS ExecutionLifecycle, TLAPS

USE ConstantsAssumption

\* The values the record-valued helpers return.
LEMMA RowTypes ==
  /\ NewAttempt \in Row
  /\ \A r \in Row, class \in ErrorClasses : Failed(r, class) \in Row
  /\ \A r \in Row, class \in ErrorClasses : FailedTwice(r, class) \in Row
  /\ \A r \in Row : Referenced(r) \in Row
  /\ \A o \in Order : TypeOK /\ Recoverable(o) => Listed(o) \in ListedRow
<1>1. NewAttempt \in Row
  BY DEF NewAttempt, Row, Statuses
<1>2. ASSUME NEW r \in Row, NEW class \in ErrorClasses PROVE Failed(r, class) \in Row
  BY DEF Failed, Row, Statuses, ErrorClasses
<1>3. \A r \in Row, class \in ErrorClasses : FailedTwice(r, class) \in Row
  BY <1>2 DEF FailedTwice
<1>4. \A r \in Row : Referenced(r) \in Row
  BY DEF Referenced, Row, Statuses
<1>5. \A o \in Order : TypeOK /\ Recoverable(o) => Listed(o) \in ListedRow
  BY DEF Listed, ListedRow, TypeOK, Recoverable, Row
<1>. QED
  BY <1>1, <1>2, <1>3, <1>4, <1>5


-----------------------------------------------------------------------------
(* Type correctness.                                                        *)

\* The state groups, unfolded.
USE DEF vars, row, tick, halts, world

\* What Write does to a well-typed table.
LEMMA WriteTypes ==
  ASSUME attempt \in [Order -> Row], age \in [Order -> 0..2],
         NEW o \in Order, NEW r \in Row, Write(o, r)
  PROVE  attempt' \in [Order -> Row] /\ age' \in [Order -> 0..2]
BY DEF Write

\* Halting trading keeps the types of the breaker and of the records.
LEMMA HaltTypes ==
  ASSUME NEW kind \in {"reconciliation", "ambiguous"}, NEW c \in Chain,
         NEW transient \in BOOLEAN,
         NEW rec \in [Chain -> RecordState],
         HaltWith(kind, c, transient, rec)
  PROVE  /\ breaker' \in BreakerState
         /\ record' \in [Chain -> RecordState]
BY DEF HaltWith, BreakerState, RecordState

\* A finished portfolio reconciliation writes a well-typed record.
LEMMA RecordedTypes ==
  ASSUME TypeOK, NEW c \in Chain, NEW status \in {"pending", "passed", "failed"}
  PROVE  Recorded(c, status) \in [Chain -> RecordState]
BY DEF TypeOK, Recorded, Halted, RecordState

\* A busy handler works on an order.
LEMMA BusyHandler ==
  ASSUME TypeOK, NEW h \in Handler, handler[h].pc # "idle"
  PROVE  handler[h].order \in Order /\ attempt[handler[h].order] \in Row
BY DEF TypeOK, HandlerState

\* A call in progress works on an order.
LEMMA BusyCheck ==
  ASSUME TypeOK, NEW a \in Agent, check[a].stage # "none"
  PROVE  /\ check[a].order \in Order /\ attempt[check[a].order] \in Row
         /\ ChainOf[check[a].order] \in Chain
BY DEF TypeOK, CheckState

\* The end of a call keeps the types of what it changes.
LEMMA ReleaseTypes ==
  ASSUME TypeOK, NEW a \in Agent, NEW ok \in BOOLEAN, Release(a, ok)
  PROVE  /\ check' \in [Agent -> CheckState] /\ handler' \in [Handler -> HandlerState]
         /\ recovery' \in TickState
         /\ route' \subseteq Order
BY DEF TypeOK, Release, NoCheck, CheckState, IdleHandler, HandlerState, TickState

\* The catch block of reconcileAfterLiveExecution keeps the types.
LEMMA CheckFailsTypes ==
  ASSUME TypeOK, NEW a \in Agent, check[a].stage # "none", NEW transient \in BOOLEAN,
         NEW rec \in [Chain -> RecordState],
         CheckFails(a, transient, rec)
  PROVE  TypeOK'
<1> DEFINE o == check[a].order
           r == [attempt[o] EXCEPT !.reconciliation = "failed"]
<1>1. o \in Order /\ attempt[o] \in Row /\ ChainOf[o] \in Chain
  BY BusyCheck
<1>2. r \in Row
  BY <1>1 DEF Row
<1>3. attempt' \in [Order -> Row] /\ age' \in [Order -> 0..2]
  <2>1. Write(o, r)
    BY DEF CheckFails
  <2>. QED
    BY <1>1, <1>2, <2>1, WriteTypes DEF TypeOK
<1>4. /\ breaker' \in BreakerState
      /\ record' \in [Chain -> RecordState]
  <2>1. HaltWith("reconciliation", ChainOf[o], transient, rec)
    BY DEF CheckFails
  <2>. QED
    BY <1>1, <2>1, HaltTypes
<1>5. check' \in [Agent -> CheckState]
  <2>1. [check[a] EXCEPT !.stage = "reporting"] \in CheckState
    <3>1. check[a] \in [stage : {"external", "portfolio", "reporting"},
                        order : Order, applied : BOOLEAN]
      BY DEF TypeOK, CheckState
    <3>. QED
      BY <3>1 DEF CheckState
  <2>. QED
    BY <2>1 DEF TypeOK, CheckFails
<1>. QED
  BY <1>3, <1>4, <1>5 DEF TypeOK, CheckFails

\* Every step of a handler keeps the types.
LEMMA HandlerTypes ==
  ASSUME TypeOK, NEW h \in Handler, HandlerStep(h)
  PROVE  TypeOK'
<1> DEFINE o == handler[h].order
<1>1. ASSUME NEW p \in Order, Claim(h, p) PROVE TypeOK'
  <2>1. attempt' \in [Order -> Row] /\ age' \in [Order -> 0..2]
    BY <1>1, RowTypes, WriteTypes DEF Claim, TypeOK
  <2>2. handler' \in [Handler -> HandlerState]
    BY <1>1 DEF Claim, TypeOK, HandlerState, HandlerPCs
  <2>. QED
    BY <1>1, <2>1, <2>2 DEF Claim, TypeOK
<1>2. ASSUME NEW class \in ErrorClasses, PrepareFails(h, class) PROVE TypeOK'
  <2>1. o \in Order /\ attempt[o] \in Row
    BY <1>2, BusyHandler DEF PrepareFails
  <2>2. attempt' \in [Order -> Row] /\ age' \in [Order -> 0..2]
    BY <1>2, <2>1, RowTypes, WriteTypes DEF PrepareFails, TypeOK
  <2>3. handler' \in [Handler -> HandlerState]
    BY <1>2 DEF PrepareFails, Idle, IdleHandler, TypeOK, HandlerState
  <2>. QED
    BY <1>2, <2>2, <2>3 DEF PrepareFails, TypeOK
<1>3. ASSUME NEW class \in ErrorClasses, SubmissionFails(h, class) PROVE TypeOK'
  <2>1. o \in Order /\ attempt[o] \in Row
    BY <1>3, BusyHandler DEF SubmissionFails
  <2>2. attempt' \in [Order -> Row] /\ age' \in [Order -> 0..2]
    BY <1>3, <2>1, RowTypes, WriteTypes DEF SubmissionFails, TypeOK
  <2>3. handler' \in [Handler -> HandlerState]
    BY <1>3 DEF SubmissionFails, Idle, IdleHandler, TypeOK, HandlerState
  <2>. QED
    BY <1>3, <2>2, <2>3 DEF SubmissionFails, TypeOK
<1>4. CASE BeginSubmission(h)
  <2>1. o \in Order /\ attempt[o] \in Row
    BY <1>4, BusyHandler DEF BeginSubmission
  <2>2. [attempt[o] EXCEPT !.status = "submitting", !.reconciliation = "pending"] \in Row
    BY <2>1 DEF Row, Statuses
  <2>3. attempt' \in [Order -> Row] /\ age' \in [Order -> 0..2]
    BY <1>4, <2>1, <2>2, WriteTypes DEF BeginSubmission, TypeOK
  <2>4. handler' \in [Handler -> HandlerState]
    BY <1>4, <2>1 DEF BeginSubmission, Go, TypeOK, HandlerState, HandlerPCs
  <2>. QED
    BY <1>4, <2>3, <2>4 DEF BeginSubmission, TypeOK
<1>5. CASE Send(h)
  <2>1. o \in Order
    BY <1>5, BusyHandler DEF Send
  <2>2. handler' \in [Handler -> HandlerState]
    BY <1>5, <2>1 DEF Send, Go, TypeOK, HandlerState, HandlerPCs
  <2>. QED
    BY <1>5, <2>1, <2>2 DEF Send, TypeOK
<1>6. CASE OnSubmitted(h)
  <2>1. o \in Order /\ attempt[o] \in Row
    BY <1>6, BusyHandler DEF OnSubmitted
  <2>2. attempt' \in [Order -> Row] /\ age' \in [Order -> 0..2]
    BY <1>6, <2>1, RowTypes, WriteTypes DEF OnSubmitted, TypeOK
  <2>3. handler' \in [Handler -> HandlerState]
    BY <1>6, <2>1 DEF OnSubmitted, Go, TypeOK, HandlerState, HandlerPCs
  <2>. QED
    BY <1>6, <2>2, <2>3 DEF OnSubmitted, TypeOK
<1>7. CASE AdapterReturns(h)
  <2>1. o \in Order /\ attempt[o] \in Row
    BY <1>7, BusyHandler DEF AdapterReturns
  <2>2. attempt' \in [Order -> Row] /\ age' \in [Order -> 0..2]
    BY <1>7, <2>1, RowTypes, WriteTypes DEF AdapterReturns, TypeOK
  <2>3. handler' \in [Handler -> HandlerState]
    BY <1>7, <2>1 DEF AdapterReturns, Go, TypeOK, HandlerState, HandlerPCs
  <2>. QED
    BY <1>7, <2>2, <2>3 DEF AdapterReturns, TypeOK
<1>8. CASE Confirm(h)
  <2>1. o \in Order /\ attempt[o] \in Row
    BY <1>8, BusyHandler DEF Confirm
  <2>2. [attempt[o] EXCEPT !.status = "confirmed", !.ref = TRUE] \in Row
    BY <2>1 DEF Row, Statuses
  <2>3. attempt' \in [Order -> Row] /\ age' \in [Order -> 0..2]
    BY <1>8, <2>1, <2>2, WriteTypes DEF Confirm, TypeOK
  <2>4. handler' \in [Handler -> HandlerState]
    BY <1>8, <2>1 DEF Confirm, Go, TypeOK, HandlerState, HandlerPCs
  <2>. QED
    BY <1>8, <2>3, <2>4 DEF Confirm, TypeOK
<1>. QED
  BY <1>1, <1>2, <1>3, <1>4, <1>5, <1>6, <1>7, <1>8 DEF HandlerStep

\* So do the two writes that follow the confirmation.
LEMMA BookingTypes ==
  ASSUME TypeOK, NEW h \in Handler, Booking(h)
  PROVE  TypeOK'
<1> DEFINE o == handler[h].order
<1>1. o \in Order /\ attempt[o] \in Row /\ ChainOf[o] \in Chain
  BY BusyHandler DEF Booking, BookLot, MarkAccounted
<1>2. CASE BookLot(h)
  <2>1. handler' \in [Handler -> HandlerState]
    BY <1>1, <1>2 DEF BookLot, Go, TypeOK, HandlerState, HandlerPCs
  <2>2. record' \in [Chain -> RecordState]
    BY <1>1, <1>2 DEF BookLot, TypeOK, RecordState
  <2>3. booked' \in [Order -> Nat]
    BY <1>1, <1>2 DEF BookLot, TypeOK
  <2>. QED
    BY <1>2, <2>1, <2>2, <2>3 DEF BookLot, TypeOK
<1>3. CASE MarkAccounted(h)
  <2>1. [attempt[o] EXCEPT !.accounting = "applied"] \in Row
    BY <1>1 DEF Row
  <2>2. attempt' \in [Order -> Row] /\ age' \in [Order -> 0..2]
    BY <1>1, <1>3, <2>1, WriteTypes DEF MarkAccounted, TypeOK
  <2>3. handler' \in [Handler -> HandlerState]
    BY <1>1, <1>3 DEF MarkAccounted, Go, TypeOK, HandlerState, HandlerPCs
  <2>4. check' \in [Agent -> CheckState]
    BY <1>1, <1>3 DEF MarkAccounted, TypeOK, CheckState, Agent
  <2>. QED
    BY <1>3, <2>2, <2>3, <2>4 DEF MarkAccounted, TypeOK
<1>. QED
  BY <1>2, <1>3 DEF Booking

\* Every step of a reconciliation call keeps the types.
LEMMA CheckTypes ==
  ASSUME TypeOK, NEW a \in Agent, CheckStep(a)
  PROVE  TypeOK'
<1> DEFINE o == check[a].order
<1>1. o \in Order /\ attempt[o] \in Row /\ ChainOf[o] \in Chain
  BY BusyCheck DEF CheckStep, ExternalConfirmed, ExternalUnaccounted, ExternalPending,
    ExternalTerminal, PortfolioPasses, CheckThrows, ExternalError, PortfolioFails,
    RecoveryOverdue, Answered
<1>2. CASE ExternalConfirmed(a)
  <2>1. check[a] \in [stage : {"external", "portfolio", "reporting"},
                      order : Order, applied : BOOLEAN]
    BY <1>2 DEF ExternalConfirmed, Answered, TypeOK, CheckState
  <2>2. [check[a] EXCEPT !.stage = "portfolio"] \in CheckState
    BY <2>1 DEF CheckState
  <2>3. check' \in [Agent -> CheckState]
    BY <1>2, <2>2 DEF ExternalConfirmed, TypeOK
  <2>. QED
    BY <1>2, <2>3 DEF ExternalConfirmed, TypeOK
<1>3. CASE ExternalUnaccounted(a)
  <2>1. check[a].stage # "none" /\ CheckFails(a, FALSE, record)
    BY <1>3 DEF ExternalUnaccounted, Answered
  <2>. QED
    BY <2>1, CheckFailsTypes DEF TypeOK
<1>4. CASE ExternalPending(a)
  <2>1. Failed(attempt[o], "other") \in Row
    BY <1>1, RowTypes DEF ErrorClasses
  <2>2. attempt' \in [Order -> Row] /\ age' \in [Order -> 0..2]
    BY <1>1, <1>4, <2>1, WriteTypes DEF ExternalPending, TypeOK
  <2>3. Release(a, FALSE)
    BY <1>4 DEF ExternalPending
  <2>. QED
    BY <1>4, <2>2, <2>3, ReleaseTypes DEF ExternalPending, TypeOK
<1>5. CASE ExternalTerminal(a)
  <2>1. /\ Failed(attempt[o], "other") \in Row
        /\ [attempt[o] EXCEPT !.status = "failed", !.reconciliation = "passed"] \in Row
    <3>1. Failed(attempt[o], "other") \in Row
      BY <1>1, RowTypes DEF ErrorClasses
    <3>2. \A r \in Row : [r EXCEPT !.status = "failed", !.reconciliation = "passed"] \in Row
      BY DEF Row, Statuses
    <3>. QED
      BY <1>1, <3>1, <3>2
  <2>2. attempt' \in [Order -> Row] /\ age' \in [Order -> 0..2]
    <3>1. CASE a = Recovery
      BY <1>1, <1>5, <2>1, <3>1, WriteTypes DEF ExternalTerminal, TypeOK
    <3>2. CASE a \in Handler
      BY <1>1, <1>5, <2>1, <3>2, WriteTypes DEF ExternalTerminal, TypeOK
    <3>3. CASE a = Operator
      BY <1>5, <3>3 DEF ExternalTerminal, TypeOK
    <3>. QED
      BY <3>1, <3>2, <3>3 DEF Agent
  <2>3. Release(a, FALSE)
    BY <1>5 DEF ExternalTerminal
  <2>. QED
    BY <1>5, <2>2, <2>3, ReleaseTypes DEF ExternalTerminal, TypeOK
<1>6. CASE PortfolioPasses(a)
  <2>1. [attempt[o] EXCEPT !.status = "confirmed", !.reconciliation = "passed"] \in Row
    BY <1>1 DEF Row, Statuses
  <2>2. attempt' \in [Order -> Row] /\ age' \in [Order -> 0..2]
    BY <1>1, <1>6, <2>1, WriteTypes DEF PortfolioPasses, TypeOK
  <2>3. record' \in [Chain -> RecordState]
    BY <1>1, <1>6, RecordedTypes DEF PortfolioPasses
  <2>4. Release(a, TRUE)
    BY <1>6 DEF PortfolioPasses
  <2>. QED
    BY <1>6, <2>2, <2>3, <2>4, ReleaseTypes DEF PortfolioPasses, TypeOK
<1>7. CASE CheckThrows(a)
  <2>1. Failed(attempt[o], "other") \in Row
    BY <1>1, RowTypes DEF ErrorClasses
  <2>2. attempt' \in [Order -> Row] /\ age' \in [Order -> 0..2]
    BY <1>1, <1>7, <2>1, WriteTypes DEF CheckThrows, TypeOK
  <2>3. Release(a, FALSE)
    BY <1>7 DEF CheckThrows
  <2>. QED
    BY <1>7, <2>2, <2>3, ReleaseTypes DEF CheckThrows, TypeOK
<1>8. ASSUME NEW transient \in BOOLEAN, ExternalError(a, transient) PROVE TypeOK'
  <2>1. check[a].stage # "none" /\ CheckFails(a, transient, record)
    BY <1>8 DEF ExternalError, Answered
  <2>. QED
    BY <2>1, CheckFailsTypes DEF TypeOK
<1>9. ASSUME NEW transient \in BOOLEAN, PortfolioFails(a, transient) PROVE TypeOK'
  <2>1. /\ check[a].stage # "none"
        /\ CheckFails(a, transient, Recorded(ChainOf[o], "failed"))
    BY <1>9 DEF PortfolioFails
  <2>2. Recorded(ChainOf[o], "failed") \in [Chain -> RecordState]
    BY <1>1, RecordedTypes
  <2>. QED
    BY <2>1, <2>2, CheckFailsTypes
<1>10. ASSUME NEW transient \in BOOLEAN, NEW r \in recovery.rows, a = Recovery,
              RecoveryOverdue(r, transient)
       PROVE TypeOK'
  <2>1. r \in ListedRow /\ r.order = o
    BY <1>10 DEF TypeOK, TickState, RecoveryOverdue
  <2>2. [attempt[o] EXCEPT !.status = r.status, !.reconciliation = "failed"] \in Row
    BY <1>1, <2>1 DEF Row, ListedRow, Statuses
  <2>3. attempt' \in [Order -> Row] /\ age' \in [Order -> 0..2]
    BY <1>1, <1>10, <2>1, <2>2, WriteTypes DEF RecoveryOverdue, TypeOK
  <2>4. breaker' \in BreakerState /\ record' \in [Chain -> RecordState]
    BY <1>1, <1>10, <2>1, HaltTypes DEF RecoveryOverdue, TypeOK
  <2>5. Release(a, FALSE)
    BY <1>10 DEF RecoveryOverdue
  <2>. QED
    BY <1>10, <2>3, <2>4, <2>5, ReleaseTypes DEF RecoveryOverdue, TypeOK
<1>. QED
  BY <1>2, <1>3, <1>4, <1>5, <1>6, <1>7, <1>8, <1>9, <1>10 DEF CheckStep

\* And every other step: the recovery loop, the tick, the operator, the
\* network, time and a crash.
LEMMA LoopTypes ==
  ASSUME TypeOK, LoopStep
  PROVE  TypeOK'
<1>1. PICK r \in recovery.rows : RecoverySkips(r) \/ RecoveryGivesUp(r) \/ RecoveryChecks(r)
  BY DEF LoopStep
<1>2. r \in ListedRow /\ r.order \in Order
  BY DEF TypeOK, TickState, ListedRow
<1>3. CASE RecoverySkips(r)
  BY <1>3 DEF RecoverySkips, TypeOK, TickState
<1>4. CASE RecoveryGivesUp(r)
  <2> DEFINE o == r.order
             s == [attempt[o] EXCEPT !.status = "stale", !.reconciliation = "failed"]
  <2>1. s \in Row
    <3>1. attempt[o] \in Row
      BY <1>2 DEF TypeOK
    <3>. QED
      BY <3>1 DEF Row, Statuses
  <2>2. attempt' \in [Order -> Row] /\ age' \in [Order -> 0..2]
    BY <1>2, <1>4, <2>1, WriteTypes DEF RecoveryGivesUp, TypeOK
  <2>3. breaker' \in BreakerState /\ record' \in [Chain -> RecordState]
    BY <1>2, <1>4, HaltTypes DEF RecoveryGivesUp, TypeOK
  <2>4. recovery' \in TickState
    BY <1>4 DEF RecoveryGivesUp, TypeOK, TickState
  <2>. QED
    BY <1>4, <2>2, <2>3, <2>4 DEF RecoveryGivesUp, TypeOK
<1>5. CASE RecoveryChecks(r)
  <2>1. check' \in [Agent -> CheckState]
    BY <1>2, <1>5 DEF RecoveryChecks, TypeOK, CheckState, Agent
  <2>2. recovery' \in TickState
    BY <1>5 DEF RecoveryChecks, TypeOK, TickState
  <2>. QED
    BY <1>5, <2>1, <2>2 DEF RecoveryChecks, TypeOK
<1>. QED
  BY <1>1, <1>3, <1>4, <1>5

\* So does the rest of the maintenance tick.
LEMMA TickTypes ==
  ASSUME TypeOK, TickStep
  PROVE  TypeOK'
<1>1. CASE RecoveryStart
  <2>1. \A o \in Order : Recoverable(o) => Listed(o) \in ListedRow
    BY RowTypes
  <2>2. recovery' \in TickState
    BY <1>1, <2>1 DEF RecoveryStart, TickState
  <2>. QED
    BY <1>1, <2>2 DEF RecoveryStart, TypeOK
<1>2. CASE TickEnds
  BY <1>2 DEF TickEnds, TypeOK, TickState, NotHalted, BreakerState
<1>3. ASSUME NEW healthy \in BOOLEAN, ProbeEnds(healthy) PROVE TypeOK'
  BY <1>3 DEF ProbeEnds, TypeOK, TickState, NotHalted, BreakerState
<1>. QED
  BY <1>1, <1>2, <1>3 DEF TickStep

\* So do the operator's requests and the dashboard.
LEMMA OperatorTypes ==
  ASSUME TypeOK, OperatorStep
  PROVE  TypeOK'
<1>1. CASE HaltTrading
  BY <1>1 DEF HaltTrading, HaltWith, TypeOK, BreakerState, RecordState
<1>2. CASE ResetCircuitBreaker
  BY <1>2 DEF ResetCircuitBreaker, TypeOK, NotHalted, BreakerState
<1>3. ASSUME NEW c \in Chain, OperatorLists(c) PROVE TypeOK'
  BY <1>3 DEF OperatorLists, TypeOK
<1>4. ASSUME NEW o \in Order, OperatorReconciles(o) PROVE TypeOK'
  BY <1>4 DEF OperatorReconciles, TypeOK, CheckState, Agent
<1>5. ASSUME NEW o \in Order, ExpirePreparing(o) PROVE TypeOK'
  <2>1. [attempt[o] EXCEPT !.status = "stale"] \in Row
    <3>1. attempt[o] \in Row
      BY DEF TypeOK
    <3>. QED
      BY <3>1 DEF Row, Statuses
  <2>. QED
    BY <1>5, <2>1, WriteTypes DEF ExpirePreparing, TypeOK
<1>6. ASSUME NEW c \in Chain, NEW status \in {"passed", "failed"},
             ReconcilePortfolio(c, status)
      PROVE TypeOK'
  <2>1. record' \in [Chain -> RecordState]
    BY <1>6, RecordedTypes DEF ReconcilePortfolio
  <2>. QED
    BY <1>6, <2>1 DEF ReconcilePortfolio, TypeOK
<1>. QED
  BY <1>1, <1>2, <1>3, <1>4, <1>5, <1>6 DEF OperatorStep

\* So do the network and the clock.
LEMMA WorldTypes ==
  ASSUME TypeOK, WorldStep
  PROVE  TypeOK'
<1>1. ASSUME NEW o \in Order, NEW verdict \in {"filled", "rejected"}, VenueDecides(o, verdict)
      PROVE TypeOK'
  BY <1>1 DEF VenueDecides, TypeOK
<1>2. CASE TimePasses
  <2>1. \A n \in 0..2 : Older(n) \in 0..2
    BY DEF Older
  <2>2. age' \in [Order -> 0..2]
    BY <1>2, <2>1 DEF TimePasses, TypeOK
  <2>3. \A r \in recovery.rows : r \in ListedRow /\ [r EXCEPT !.age = Older(@)] \in ListedRow
    BY <2>1 DEF TypeOK, TickState, ListedRow
  <2>4. recovery' \in TickState
    BY <1>2, <2>3 DEF TimePasses, TypeOK, TickState
  <2>. QED
    BY <1>2, <2>2, <2>4 DEF TimePasses, TypeOK
<1>. QED
  BY <1>1, <1>2 DEF WorldStep

\* So does a restart.
LEMMA CrashTypes ==
  ASSUME TypeOK, Crash
  PROVE  TypeOK'
BY DEF Crash, TypeOK, IdleHandler, HandlerState, NoCheck, CheckState, TickState

\* Type correctness of the specification.
THEOREM TypeCorrect == Spec => []TypeOK
<1>1. Init => TypeOK
  <2>1. [NewAttempt EXCEPT !.status = "absent"] \in Row
    BY DEF NewAttempt, Row, Statuses
  <2>2. /\ IdleHandler \in HandlerState /\ NoCheck \in CheckState
        /\ NotHalted \in BreakerState
    BY DEF IdleHandler, HandlerState, NoCheck, CheckState, NotHalted, BreakerState
  <2>3. [pc |-> "idle", rows |-> {}] \in TickState
    BY DEF TickState
  <2>4. [status |-> "pending", fresh |-> FALSE] \in RecordState
    BY DEF RecordState
  <2>5. ASSUME Init
        PROVE  /\ attempt \in [Order -> Row] /\ handler \in [Handler -> HandlerState]
               /\ check \in [Agent -> CheckState] /\ record \in [Chain -> RecordState]
    BY <2>1, <2>2, <2>4, <2>5 DEF Init
  <2>6. ASSUME Init
        PROVE  /\ age \in [Order -> 0..2] /\ crashes \in 0..MaxCrashes
               /\ sends \in [Order -> Nat] /\ booked \in [Order -> Nat]
               /\ venue \in [Order -> {"unsent", "open", "filled", "rejected"}]
    BY <2>6 DEF Init
  <2>7. ASSUME Init
        PROVE  /\ recovery \in TickState /\ breaker \in BreakerState
               /\ route \subseteq Order /\ stopped \in BOOLEAN
    BY <2>2, <2>3, <2>7 DEF Init
  <2>. QED
    BY <2>5, <2>6, <2>7 DEF TypeOK
<1>2. TypeOK /\ [Next]_vars => TypeOK'
  <2> SUFFICES ASSUME TypeOK, [Next]_vars PROVE TypeOK'
    OBVIOUS
  <2>1. CASE UNCHANGED vars
    BY <2>1 DEF TypeOK
  <2>. QED
    BY <2>1, HandlerTypes, BookingTypes, CheckTypes, LoopTypes, TickTypes, OperatorTypes,
       WorldTypes, CrashTypes DEF Next
<1>. QED
  BY <1>1, <1>2, PTL DEF Spec

-----------------------------------------------------------------------------
(* IInv.                                                                    *)

\* The parts of IInv beyond the types.
SInv == OneHandlerPerOrder /\ HandlerInv /\ OrderInv /\ VerdictInv /\ CallInv

\* recordExecutionFailure never creates a row or accounts a fill, and claims
\* that nothing was filled only for a filtered or rejected order.
LEMMA FailedFacts ==
  ASSUME NEW r \in Row, NEW class \in ErrorClasses, NEW f,
         f = Failed(r, class) \/ f = FailedTwice(r, class)
  PROVE  /\ f \in Row /\ f.status # "absent" /\ f.accounting = r.accounting
         /\ f.reconciliation = "passed" =>
              class # "other" /\ f.status \in {"failed", "filtered"}
<1>1. ASSUME NEW s \in Row
      PROVE  /\ Failed(s, class) \in Row /\ Failed(s, class).status # "absent"
             /\ Failed(s, class).accounting = s.accounting
             /\ Failed(s, class).reconciliation = "passed" =>
                  class # "other" /\ Failed(s, class).status \in {"failed", "filtered"}
  <2>1. CASE class = "terminal"
    BY <2>1 DEF Failed, Row, Statuses
  <2>2. CASE class # "terminal" /\ s.status \in {"submitted", "confirmed"}
    <3>1. Failed(s, class) = [s EXCEPT !.reconciliation = IF @ = "failed" THEN "failed" ELSE "pending"]
      BY <2>2 DEF Failed
    <3>. QED
      BY <2>2, <3>1 DEF Row, Statuses
  <2>3. CASE class # "terminal" /\ s.status = "submitting"
    BY <2>3 DEF Failed, Row, Statuses
  <2>4. CASE class # "terminal" /\ s.status \notin {"submitting", "submitted", "confirmed"}
    <3>1. Failed(s, class) =
            [s EXCEPT !.status = IF class = "filter" THEN "filtered" ELSE "failed",
                      !.reconciliation = IF class = "filter" THEN "passed" ELSE "pending"]
      BY <2>4 DEF Failed
    <3>. QED
      BY <2>4, <3>1 DEF Row, Statuses, ErrorClasses
  <2>. QED
    BY <2>1, <2>2, <2>3, <2>4
<1>2. CASE f = Failed(r, class)
  BY <1>1, <1>2
<1>3. CASE f = FailedTwice(r, class)
  <2> DEFINE s == Failed(r, class)
  <2>1. s \in Row /\ s.accounting = r.accounting
    BY <1>1
  <2>2. f = Failed(s, class)
    BY <1>3 DEF FailedTwice
  <2> HIDE DEF s
  <2>. QED
    BY <1>1, <2>1, <2>2
<1>. QED
  BY <1>2, <1>3

-----------------------------------------------------------------------------
(* What most steps have in common, variable by variable.                    *)

\* NoFill of the same order in the next state.
NoFillNext(q) ==
  \/ venue'[q] = "rejected"
  \/ venue'[q] = "unsent" /\ \A h \in Handler : handler'[h].order # q

\* A row of q that keeps the invariant.
SoundRow(q, r) ==
  /\ r.status = "absent" => attempt[q].status = "absent"
  /\ attempt[q].accounting = "applied" => r.accounting = "applied"
  /\ r.accounting = "applied" => booked[q] = 1
  /\ r.reconciliation = "passed" =>
       \/ r.status = "confirmed" /\ booked[q] = 1
       \/ r.status \in {"failed", "filtered"} /\ NoFillNext(q)
RowsSound == \A q \in Order : attempt'[q] = attempt[q] \/ SoundRow(q, attempt'[q])

\* A call in progress that keeps it.
SoundCall(c) == (c.applied => booked[c.order] = 1) /\ (c.stage = "portfolio" => c.applied)
CallsSound == \A a \in Agent : check'[a] = check[a] \/ SoundCall(check'[a])

RouteSound ==
  \A o \in route' : o \in route \/ (o \in Order /\ attempt[o].accounting = "applied")

\* Handlers end or stay where they are.
HandlersStay == \A h \in Handler : handler'[h] = IdleHandler \/ handler'[h] = handler[h]

\* No handler takes up an order that is reported passed.
NoNewWork ==
  \A h \in Handler, q \in Order :
    handler'[h].order = q => handler[h].order = q \/ attempt'[q].reconciliation # "passed"

\* Rewriting one row soundly.
LEMMA WriteSound ==
  ASSUME IInv, NEW o \in Order, NEW r, SoundRow(o, r), Write(o, r)
  PROVE  RowsSound
BY DEF IInv, TypeOK, RowsSound, Write

\* Ending, or failing, one call.
LEMMA ReleaseSound ==
  ASSUME IInv, NEW a \in Agent, NEW ok \in BOOLEAN, Release(a, ok)
  PROVE  CallsSound /\ RouteSound /\ HandlersStay
<1>1. SoundCall(NoCheck)
  BY DEF SoundCall, NoCheck
<1>2. CallsSound
  BY <1>1 DEF IInv, TypeOK, Release, CallsSound
<1>3. RouteSound
  BY DEF Release, RouteSound
<1>4. HandlersStay
  BY DEF IInv, TypeOK, Release, HandlersStay
<1>. QED
  BY <1>2, <1>3, <1>4

\* Orders: nothing moves on the network or in the lots.
LEMMA OrdersKept ==
  ASSUME IInv, RowsSound, UNCHANGED <<venue, sends, booked>>
  PROVE  OrderInv'
BY DEF IInv, OrderInv, RowsSound, SoundRow

\* Verdicts.
LEMMA VerdictsKept ==
  ASSUME IInv, RowsSound, NoNewWork, UNCHANGED <<venue, booked>>
  PROVE  VerdictInv'
<1> SUFFICES ASSUME NEW q \in Order, attempt'[q].reconciliation = "passed"
             PROVE  \/ attempt'[q].status = "confirmed" /\ booked'[q] = 1
                    \/ attempt'[q].status \in {"failed", "filtered"} /\ NoFill(q)'
  BY DEF VerdictInv
<1>1. CASE attempt'[q] = attempt[q]
  <2>1. NoFill(q) => NoFill(q)'
    BY DEF NoFill, NoNewWork
  <2>. QED
    BY <1>1, <2>1 DEF IInv, VerdictInv
<1>2. CASE SoundRow(q, attempt'[q])
  BY <1>2 DEF SoundRow, NoFill, NoFillNext
<1>. QED
  BY <1>1, <1>2 DEF RowsSound

\* Calls in progress.
LEMMA CallsKept ==
  ASSUME IInv, RowsSound, CallsSound, RouteSound, UNCHANGED booked
  PROVE  CallInv'
<1>1. ASSUME NEW q \in route' PROVE attempt'[q].accounting = "applied"
  <2>1. q \in Order /\ attempt[q].accounting = "applied"
    BY DEF RouteSound, IInv, CallInv, TypeOK
  <2>. QED
    BY <2>1 DEF RowsSound, SoundRow
<1>2. ASSUME NEW a \in Agent
      PROVE  /\ check'[a].applied => booked'[check'[a].order] = 1
             /\ check'[a].stage = "portfolio" => check'[a].applied
  BY DEF CallsSound, SoundCall, IInv, CallInv
<1>. QED
  BY <1>1, <1>2 DEF CallInv

\* Handlers that end or stay.
LEMMA HandlersKept ==
  ASSUME IInv, RowsSound, HandlersStay, UNCHANGED <<venue, booked>>
  PROVE  OneHandlerPerOrder' /\ HandlerInv' /\ NoNewWork
<1>1. NoNewWork
  BY DEF HandlersStay, NoNewWork, IdleHandler
<1>2. OneHandlerPerOrder'
  <2> SUFFICES ASSUME NEW g \in Handler, NEW h \in Handler, g # h, handler'[g].pc # "idle"
               PROVE  handler'[g].order # handler'[h].order
    BY DEF OneHandlerPerOrder
  <2>1. handler'[g] = handler[g] /\ handler[g].order \in Order
    BY BusyHandler DEF HandlersStay, IInv, IdleHandler
  <2>. QED
    BY <2>1 DEF HandlersStay, IdleHandler, IInv, OneHandlerPerOrder
<1>3. HandlerInv'
  <2> SUFFICES ASSUME NEW h \in Handler, handler'[h].pc # "idle"
               PROVE  HandlerInv!(h)'
    BY DEF HandlerInv
  <2>1. handler'[h] = handler[h] /\ handler[h].order \in Order
    BY BusyHandler DEF HandlersStay, IInv, IdleHandler
  <2>. QED
    BY <2>1 DEF IInv, HandlerInv, RowsSound, SoundRow
<1>. QED
  BY <1>1, <1>2, <1>3

\* A handler that moves on with its order.
LEMMA HandlerMoves ==
  ASSUME IInv, RowsSound, UNCHANGED <<venue, booked>>,
         NEW h \in Handler, handler[h].pc # "idle", NEW pc \in HandlerPCs, pc # "idle", Go(h, pc),
         LET o == handler[h].order IN
           /\ pc \in {"submitting", "referenced"} => venue[o] = "unsent"
           /\ pc = "awaiting" => venue[o] # "unsent" /\ booked[o] = 0
           /\ pc \in {"filled", "confirmed"} => venue[o] = "filled" /\ booked[o] = 0
           /\ pc \notin {"preparing", "sent", "booked"}
  PROVE  OneHandlerPerOrder' /\ HandlerInv' /\ NoNewWork
<1>1. /\ \A g \in Handler : handler'[g].order = handler[g].order
      /\ \A g \in Handler : g # h => handler'[g] = handler[g]
      /\ handler'[h].pc = pc
  BY DEF Go, IInv, TypeOK, HandlerState
<1>2. OneHandlerPerOrder' /\ NoNewWork
  BY <1>1 DEF OneHandlerPerOrder, NoNewWork, IInv
<1>3. HandlerInv'
  <2> SUFFICES ASSUME NEW g \in Handler, handler'[g].pc # "idle"
               PROVE  HandlerInv!(g)'
    BY DEF HandlerInv
  <2>1. handler[g].order \in Order /\ handler[g].pc # "idle"
    BY <1>1, BusyHandler DEF IInv
  <2>2. attempt'[handler'[g].order].status # "absent"
    BY <1>1, <2>1 DEF IInv, HandlerInv, RowsSound, SoundRow
  <2>3. CASE g # h
    BY <1>1, <2>1, <2>2, <2>3 DEF IInv, HandlerInv
  <2>4. CASE g = h
    BY <1>1, <2>1, <2>2, <2>4 DEF HandlerPCs
  <2>. QED
    BY <2>3, <2>4
<1>. QED
  BY <1>2, <1>3

\* Together.
LEMMA AllKept ==
  ASSUME IInv, RowsSound, HandlersStay, CallsSound, RouteSound, UNCHANGED <<venue, sends, booked>>
  PROVE  SInv'
BY HandlersKept, OrdersKept, VerdictsKept, CallsKept DEF SInv

-----------------------------------------------------------------------------
(* The steps, one lemma per process.                                        *)

\* A handler that ends leaves its order to nobody.
LEMMA Abandons ==
  ASSUME IInv, NEW h \in Handler, handler[h].pc # "idle", Idle(h)
  PROVE  HandlersStay /\ \A g \in Handler : handler'[g].order # handler[h].order
<1>1. /\ handler'[h] = IdleHandler
      /\ \A g \in Handler : g # h => handler'[g] = handler[g]
      /\ handler[h].order \in Order
  BY BusyHandler DEF Idle, IInv, TypeOK
<1>2. \A g \in Handler : g # h => handler[g].order # handler[h].order
  BY DEF IInv, OneHandlerPerOrder
<1>. QED
  BY <1>1, <1>2 DEF HandlersStay, IdleHandler

\* The handler's steps up to the confirmation.
LEMMA HandlerSafe ==
  ASSUME IInv, NEW h \in Handler, HandlerStep(h)
  PROVE  SInv'
<1> DEFINE o == handler[h].order
<1>1. ASSUME NEW p \in Order, Claim(h, p) PROVE SInv'
  <2>1. SoundRow(p, NewAttempt)
    BY <1>1 DEF Claim, SoundRow, NewAttempt, IInv, OrderInv
  <2>2. RowsSound
    BY <1>1, <2>1, WriteSound DEF Claim
  <2>3. /\ attempt'[p] = NewAttempt
        /\ handler'[h] = [pc |-> "preparing", order |-> p]
        /\ \A g \in Handler : g # h => handler'[g] = handler[g]
    BY <1>1 DEF Claim, Write, IInv, TypeOK
  <2>4. \A g \in Handler : handler[g].pc # "idle" => handler[g].order # p
    BY <1>1 DEF Claim, IInv, HandlerInv
  <2>5. \A g \in Handler : handler[g].pc = "idle" => handler[g].order # p
    BY DEF IInv, TypeOK, HandlerState
  <2>6. OneHandlerPerOrder'
    BY <2>3, <2>4, <2>5 DEF IInv, OneHandlerPerOrder
  <2>7. NoNewWork
    BY <2>3 DEF NoNewWork, NewAttempt
  <2>8. HandlerInv'
    <3> SUFFICES ASSUME NEW g \in Handler, handler'[g].pc # "idle"
                 PROVE  HandlerInv!(g)'
      BY DEF HandlerInv
    <3>1. CASE g = h
      BY <1>1, <2>3, <3>1 DEF Claim, NewAttempt, IInv, OrderInv
    <3>2. CASE g # h
      <4>1. handler'[g] = handler[g] /\ handler[g].order \in Order
        BY <2>3, <3>2, BusyHandler DEF IInv
      <4>. QED
        BY <1>1, <2>2, <4>1 DEF Claim, IInv, HandlerInv, RowsSound, SoundRow
    <3>. QED
      BY <3>1, <3>2
  <2>9. CallsSound /\ RouteSound /\ UNCHANGED <<venue, sends, booked>>
    BY <1>1 DEF Claim, CallsSound, RouteSound
  <2>. QED
    BY <2>2, <2>6, <2>7, <2>8, <2>9, OrdersKept, VerdictsKept, CallsKept DEF SInv
<1>2. ASSUME NEW class \in ErrorClasses, PrepareFails(h, class) PROVE SInv'
  <2> DEFINE f == Failed(attempt[o], class)
  <2>1. handler[h].pc # "idle" /\ o \in Order /\ attempt[o] \in Row /\ venue[o] = "unsent"
    BY <1>2, BusyHandler DEF PrepareFails, IInv, HandlerInv
  <2>2. HandlersStay /\ NoFillNext(o)
    <3>1. HandlersStay /\ \A g \in Handler : handler'[g].order # o
      BY <1>2, <2>1, Abandons DEF PrepareFails
    <3>2. venue' = venue
      BY <1>2 DEF PrepareFails
    <3>. QED
      BY <2>1, <3>1, <3>2 DEF NoFillNext
  <2>3. SoundRow(o, f)
    BY <2>1, <2>2, FailedFacts DEF SoundRow, IInv, OrderInv
  <2>4. RowsSound
    BY <1>2, <2>1, <2>3, WriteSound DEF PrepareFails
  <2>. QED
    BY <1>2, <2>2, <2>4, AllKept DEF PrepareFails, CallsSound, RouteSound
<1>3. ASSUME NEW class \in ErrorClasses, SubmissionFails(h, class) PROVE SInv'
  <2> DEFINE f == FailedTwice(attempt[o], class)
  <2>1. handler[h].pc # "idle" /\ o \in Order /\ attempt[o] \in Row
    BY <1>3, BusyHandler DEF SubmissionFails, IInv
  <2>2. HandlersStay /\ (class # "other" => NoFillNext(o))
    <3>1. HandlersStay /\ \A g \in Handler : handler'[g].order # o
      BY <1>3, <2>1, Abandons DEF SubmissionFails
    <3>2. venue' = venue /\ (class # "other" => venue[o] \in {"unsent", "rejected"})
      BY <1>3 DEF SubmissionFails, ErrorClasses
    <3>. QED
      BY <3>1, <3>2 DEF NoFillNext
  <2>3. SoundRow(o, f)
    BY <2>1, <2>2, FailedFacts DEF SoundRow, IInv, OrderInv
  <2>4. RowsSound
    BY <1>3, <2>1, <2>3, WriteSound DEF SubmissionFails
  <2>. QED
    BY <1>3, <2>2, <2>4, AllKept DEF SubmissionFails, CallsSound, RouteSound
<1>4. CASE BeginSubmission(h)
  <2> DEFINE r == [attempt[o] EXCEPT !.status = "submitting", !.reconciliation = "pending"]
  <2>1. handler[h].pc # "idle" /\ o \in Order /\ attempt[o] \in Row /\ venue[o] = "unsent"
    BY <1>4, BusyHandler DEF BeginSubmission, IInv, HandlerInv
  <2>2. SoundRow(o, r)
    BY <2>1 DEF SoundRow, IInv, OrderInv, Row
  <2>3. RowsSound /\ Go(h, "submitting")
    BY <1>4, <2>1, <2>2, WriteSound DEF BeginSubmission
  <2>. QED
    BY <1>4, <2>1, <2>3, HandlerMoves, OrdersKept, VerdictsKept, CallsKept
    DEF BeginSubmission, CallsSound, RouteSound, SInv, HandlerPCs
<1>5. CASE Send(h)
  <2>1. /\ o \in Order /\ o # NoOrder /\ venue[o] = "unsent" /\ booked[o] = 0
        /\ handler[h].pc \in {"submitting", "referenced"}
    BY <1>5, BusyHandler DEF Send, IInv, HandlerInv, OrderInv
  <2>2. /\ venue'[o] = "open" /\ sends'[o] = 1
        /\ \A q \in Order : q # o => venue'[q] = venue[q] /\ sends'[q] = sends[q]
    BY <1>5, <2>1 DEF Send, IInv, TypeOK, OrderInv
  <2>3. /\ \A g \in Handler : handler'[g].order = handler[g].order
        /\ \A g \in Handler : g # h => handler'[g] = handler[g]
        /\ handler'[h].pc = "sent"
    BY <1>5 DEF Send, Go, IInv, TypeOK, HandlerState
  <2>4. OneHandlerPerOrder'
    BY <2>1, <2>3 DEF IInv, OneHandlerPerOrder
  <2>5. OrderInv'
    BY <1>5, <2>1, <2>2 DEF Send, IInv, OrderInv, HandlerInv
  <2>6. HandlerInv'
    BY <1>5, <2>1, <2>2, <2>3, BusyHandler DEF Send, IInv, OneHandlerPerOrder, HandlerInv
  <2>7. VerdictInv'
    BY <1>5, <2>1, <2>2, <2>3 DEF Send, IInv, VerdictInv, NoFill
  <2>8. CallInv'
    BY <1>5 DEF Send, IInv, CallInv
  <2>. QED
    BY <2>4, <2>5, <2>6, <2>7, <2>8 DEF SInv
<1>6. CASE OnSubmitted(h)
  <2>1. handler[h].pc # "idle" /\ o \in Order /\ attempt[o] \in Row
    BY <1>6, BusyHandler DEF OnSubmitted, IInv
  <2>2. SoundRow(o, Referenced(attempt[o]))
    BY <2>1 DEF SoundRow, Referenced, IInv, OrderInv, Row
  <2>3. RowsSound
    BY <1>6, <2>1, <2>2, WriteSound DEF OnSubmitted
  <2>4. OneHandlerPerOrder' /\ HandlerInv' /\ NoNewWork
    <3>1. CASE handler[h].pc = "submitting" /\ Go(h, "referenced")
      BY <1>6, <2>1, <2>3, <3>1, HandlerMoves DEF OnSubmitted, HandlerPCs, IInv, HandlerInv
    <3>2. CASE handler[h].pc = "sent" /\ Go(h, "awaiting")
      BY <1>6, <2>1, <2>3, <3>2, HandlerMoves DEF OnSubmitted, HandlerPCs, IInv, HandlerInv
    <3>. QED
      BY <1>6, <3>1, <3>2 DEF OnSubmitted
  <2>. QED
    BY <1>6, <2>3, <2>4, OrdersKept, VerdictsKept, CallsKept
    DEF OnSubmitted, CallsSound, RouteSound, SInv
<1>7. CASE AdapterReturns(h)
  <2>1. /\ handler[h].pc # "idle" /\ o \in Order /\ attempt[o] \in Row
        /\ venue[o] = "filled" /\ booked[o] = 0
    BY <1>7, BusyHandler DEF AdapterReturns, IInv, HandlerInv
  <2>2. SoundRow(o, Referenced(attempt[o]))
    BY <2>1 DEF SoundRow, Referenced, IInv, OrderInv, Row
  <2>3. RowsSound /\ Go(h, "filled")
    <3>1. CASE attempt[o].status = "submitting"
      BY <1>7, <2>1, <2>2, <3>1, WriteSound DEF AdapterReturns
    <3>2. CASE attempt[o].status # "submitting"
      BY <1>7, <3>2 DEF AdapterReturns, RowsSound
    <3>. QED
      BY <3>1, <3>2
  <2>4. OneHandlerPerOrder' /\ HandlerInv' /\ NoNewWork
    BY <1>7, <2>1, <2>3, HandlerMoves DEF AdapterReturns, HandlerPCs
  <2>. QED
    BY <1>7, <2>3, <2>4, OrdersKept, VerdictsKept, CallsKept
    DEF AdapterReturns, CallsSound, RouteSound, SInv
<1>8. CASE Confirm(h)
  <2> DEFINE r == [attempt[o] EXCEPT !.status = "confirmed", !.ref = TRUE]
  <2>1. /\ handler[h].pc # "idle" /\ o \in Order /\ attempt[o] \in Row
        /\ venue[o] = "filled" /\ booked[o] = 0
    BY <1>8, BusyHandler DEF Confirm, IInv, HandlerInv
  <2>2. attempt[o].reconciliation # "passed"
    BY <2>1 DEF IInv, VerdictInv, NoFill
  <2>3. SoundRow(o, r)
    BY <2>1, <2>2 DEF SoundRow, IInv, OrderInv, Row
  <2>4. RowsSound /\ Go(h, "confirmed")
    BY <1>8, <2>1, <2>3, WriteSound DEF Confirm
  <2>5. OneHandlerPerOrder' /\ HandlerInv' /\ NoNewWork
    BY <1>8, <2>1, <2>4, HandlerMoves DEF Confirm, HandlerPCs
  <2>. QED
    BY <1>8, <2>4, <2>5, OrdersKept, VerdictsKept, CallsKept
    DEF Confirm, CallsSound, RouteSound, SInv
<1>. QED
  BY <1>1, <1>2, <1>3, <1>4, <1>5, <1>6, <1>7, <1>8 DEF HandlerStep

\* Booking the fill.
LEMMA BookingSafe ==
  ASSUME IInv, NEW h \in Handler, Booking(h)
  PROVE  SInv'
<1> DEFINE o == handler[h].order
<1>1. CASE BookLot(h)
  <2>1. o \in Order /\ venue[o] = "filled" /\ booked[o] = 0
    BY <1>1, BusyHandler DEF BookLot, IInv, HandlerInv
  <2>2. booked'[o] = 1 /\ \A q \in Order : q # o => booked'[q] = booked[q]
    BY <1>1, <2>1 DEF BookLot, IInv, TypeOK
  <2>3. /\ \A g \in Handler : handler'[g].order = handler[g].order
        /\ \A g \in Handler : g # h => handler'[g] = handler[g]
        /\ handler'[h].pc = "booked"
    BY <1>1 DEF BookLot, Go, IInv, TypeOK, HandlerState
  <2>4. OneHandlerPerOrder'
    BY <1>1, <2>3 DEF BookLot, IInv, OneHandlerPerOrder
  <2>5. OrderInv'
    BY <1>1, <2>1, <2>2 DEF BookLot, IInv, OrderInv
  <2>6. HandlerInv'
    BY <1>1, <2>1, <2>2, <2>3, BusyHandler DEF BookLot, IInv, OneHandlerPerOrder, HandlerInv
  <2>7. VerdictInv'
    BY <1>1, <2>1, <2>2, <2>3 DEF BookLot, IInv, VerdictInv, NoFill
  <2>8. CallInv'
    BY <1>1, <2>1, <2>2 DEF BookLot, IInv, CallInv, TypeOK, CheckState
  <2>. QED
    BY <2>4, <2>5, <2>6, <2>7, <2>8 DEF SInv
<1>2. CASE MarkAccounted(h)
  <2> DEFINE r == [attempt[o] EXCEPT !.accounting = "applied"]
  <2>1. /\ handler[h].pc # "idle" /\ o \in Order /\ attempt[o] \in Row /\ booked[o] = 1
        /\ attempt[o].status # "absent" /\ venue[o] = "filled"
    BY <1>2, BusyHandler DEF MarkAccounted, IInv, HandlerInv, OrderInv
  <2>2. SoundRow(o, r)
    BY <2>1 DEF SoundRow, IInv, VerdictInv, NoFill, Row
  <2>3. RowsSound /\ Go(h, "reconciling")
    BY <1>2, <2>1, <2>2, WriteSound DEF MarkAccounted
  <2>4. OneHandlerPerOrder' /\ HandlerInv' /\ NoNewWork
    BY <1>2, <2>1, <2>3, HandlerMoves DEF MarkAccounted, HandlerPCs
  <2>5. CallsSound
    BY <1>2, <2>1 DEF MarkAccounted, CallsSound, SoundCall, IInv, TypeOK
  <2>. QED
    BY <1>2, <2>3, <2>4, <2>5, OrdersKept, VerdictsKept, CallsKept
    DEF MarkAccounted, RouteSound, SInv
<1>. QED
  BY <1>1, <1>2 DEF Booking

\* A call whose row's reconciliation fails.
LEMMA CheckFailsSafe ==
  ASSUME IInv, NEW a \in Agent, check[a].stage # "none", NEW transient, NEW rec,
         CheckFails(a, transient, rec)
  PROVE  SInv'
<1> DEFINE o == check[a].order
           r == [attempt[o] EXCEPT !.reconciliation = "failed"]
<1>1. o \in Order /\ attempt[o] \in Row
  BY BusyCheck DEF IInv
<1>2. RowsSound
  <2>1. SoundRow(o, r)
    BY <1>1 DEF SoundRow, Row, IInv, OrderInv
  <2>. QED
    BY <1>1, <2>1, WriteSound DEF CheckFails
<1>3. CallsSound
  <2>1. check[a] \in [stage : {"external", "portfolio", "reporting"},
                      order : Order, applied : BOOLEAN]
    BY DEF IInv, TypeOK, CheckState
  <2>2. SoundCall([check[a] EXCEPT !.stage = "reporting"])
    BY <2>1 DEF SoundCall, IInv, CallInv
  <2>. QED
    BY <2>2 DEF CheckFails, CallsSound, IInv, TypeOK
<1>. QED
  BY <1>2, <1>3, AllKept DEF CheckFails, HandlersStay, RouteSound

\* The calls in progress.
LEMMA CheckSafe ==
  ASSUME IInv, NEW a \in Agent, CheckStep(a)
  PROVE  SInv'
<1> DEFINE o == check[a].order
<1>1. o \in Order /\ attempt[o] \in Row
  BY BusyCheck DEF IInv, CheckStep, ExternalConfirmed, ExternalUnaccounted, ExternalPending,
    ExternalTerminal, PortfolioPasses, CheckThrows, ExternalError, PortfolioFails,
    RecoveryOverdue, Answered
\* A handler's catch block records an error without a verdict.
<1>2. SoundRow(o, Failed(attempt[o], "other"))
  BY <1>1, FailedFacts DEF ErrorClasses, SoundRow, IInv, OrderInv
<1>3. CASE ExternalConfirmed(a)
  <2>1. check[a] \in [stage : {"external", "portfolio", "reporting"},
                      order : Order, applied : BOOLEAN]
    BY <1>3 DEF ExternalConfirmed, Answered, IInv, TypeOK, CheckState
  <2>2. SoundCall([check[a] EXCEPT !.stage = "portfolio"])
    BY <1>3, <2>1 DEF ExternalConfirmed, SoundCall, IInv, CallInv
  <2>3. CallsSound
    BY <1>3, <2>2 DEF ExternalConfirmed, CallsSound, IInv, TypeOK
  <2>. QED
    BY <1>3, <2>3, AllKept DEF ExternalConfirmed, RowsSound, HandlersStay, RouteSound
<1>4. CASE ExternalUnaccounted(a)
  BY <1>4, CheckFailsSafe DEF ExternalUnaccounted, Answered
<1>5. CASE ExternalPending(a)
  <2>1. RowsSound
    BY <1>1, <1>2, <1>5, WriteSound DEF ExternalPending, RowsSound
  <2>. QED
    BY <1>5, <2>1, ReleaseSound, AllKept DEF ExternalPending
<1>6. CASE ExternalTerminal(a)
  <2> DEFINE r == [attempt[o] EXCEPT !.status = "failed", !.reconciliation = "passed"]
  <2>1. venue[o] = "rejected" /\ venue' = venue
    BY <1>6 DEF ExternalTerminal, Answered, Answers
  <2>2. SoundRow(o, r)
    BY <1>1, <2>1 DEF SoundRow, NoFillNext, Row, IInv, OrderInv
  <2>3. RowsSound
    <3>1. CASE a = Recovery
      BY <1>1, <1>6, <2>2, <3>1, WriteSound DEF ExternalTerminal
    <3>2. CASE a \in Handler
      BY <1>1, <1>2, <1>6, <3>2, WriteSound DEF ExternalTerminal
    <3>3. CASE a = Operator
      BY <1>6, <3>3 DEF ExternalTerminal, RowsSound
    <3>. QED
      BY <3>1, <3>2, <3>3 DEF Agent
  <2>. QED
    BY <1>6, <2>3, ReleaseSound, AllKept DEF ExternalTerminal
<1>7. CASE PortfolioPasses(a)
  <2> DEFINE r == [attempt[o] EXCEPT !.status = "confirmed", !.reconciliation = "passed"]
  <2>1. booked[o] = 1
    BY <1>7 DEF PortfolioPasses, IInv, CallInv
  <2>2. SoundRow(o, r)
    BY <1>1, <2>1 DEF SoundRow, Row
  <2>3. RowsSound
    BY <1>1, <1>7, <2>2, WriteSound DEF PortfolioPasses
  <2>. QED
    BY <1>7, <2>3, ReleaseSound, AllKept DEF PortfolioPasses
<1>8. CASE CheckThrows(a)
  <2>1. RowsSound
    BY <1>1, <1>2, <1>8, WriteSound DEF CheckThrows, RowsSound
  <2>. QED
    BY <1>8, <2>1, ReleaseSound, AllKept DEF CheckThrows
<1>9. ASSUME NEW transient \in BOOLEAN, ExternalError(a, transient) PROVE SInv'
  BY <1>9, CheckFailsSafe DEF ExternalError, Answered
<1>10. ASSUME NEW transient \in BOOLEAN, PortfolioFails(a, transient) PROVE SInv'
  BY <1>10, CheckFailsSafe DEF PortfolioFails
<1>11. ASSUME NEW transient \in BOOLEAN, NEW listed \in recovery.rows, a = Recovery,
              RecoveryOverdue(listed, transient)
       PROVE SInv'
  <2> DEFINE r == [attempt[o] EXCEPT !.status = listed.status, !.reconciliation = "failed"]
  <2>1. listed.order = o /\ listed.status # "absent"
    BY <1>11 DEF RecoveryOverdue, IInv, TypeOK, TickState, ListedRow
  <2>2. SoundRow(o, r)
    BY <1>1, <2>1 DEF SoundRow, Row, IInv, OrderInv
  <2>3. RowsSound
    BY <1>1, <1>11, <2>1, <2>2, WriteSound DEF RecoveryOverdue
  <2>. QED
    BY <1>11, <2>3, ReleaseSound, AllKept DEF RecoveryOverdue
<1>. QED
  BY <1>3, <1>4, <1>5, <1>6, <1>7, <1>8, <1>9, <1>10, <1>11 DEF CheckStep

\* The recovery loop between two calls.
LEMMA LoopSafe ==
  ASSUME IInv, LoopStep
  PROVE  SInv'
<1>1. PICK r \in recovery.rows : RecoverySkips(r) \/ RecoveryGivesUp(r) \/ RecoveryChecks(r)
  BY DEF LoopStep
<1>2. r.order \in Order /\ attempt[r.order] \in Row
  BY DEF IInv, TypeOK, TickState, ListedRow
<1>3. CASE RecoverySkips(r)
  BY <1>3, AllKept DEF RecoverySkips, RowsSound, HandlersStay, CallsSound, RouteSound
<1>4. CASE RecoveryGivesUp(r)
  <2> DEFINE o == r.order
             s == [attempt[o] EXCEPT !.status = "stale", !.reconciliation = "failed"]
  <2>1. SoundRow(o, s)
    BY <1>2 DEF SoundRow, Row, IInv, OrderInv
  <2>2. RowsSound
    BY <1>2, <1>4, <2>1, WriteSound DEF RecoveryGivesUp
  <2>. QED
    BY <1>4, <2>2, AllKept DEF RecoveryGivesUp, HandlersStay, CallsSound, RouteSound
<1>5. CASE RecoveryChecks(r)
  <2>1. CallsSound
    BY <1>2, <1>5 DEF RecoveryChecks, CallsSound, SoundCall, IInv, OrderInv, TypeOK
  <2>. QED
    BY <1>5, <2>1, AllKept DEF RecoveryChecks, RowsSound, HandlersStay, RouteSound
<1>. QED
  BY <1>1, <1>3, <1>4, <1>5

\* The rest of the tick changes only the tick, the records and the breaker.
LEMMA TickSafe ==
  ASSUME IInv, TickStep
  PROVE  SInv'
BY AllKept DEF TickStep, RecoveryStart, TickEnds, ProbeEnds, RowsSound, HandlersStay,
   CallsSound, RouteSound

\* The operator.
LEMMA OperatorSafe ==
  ASSUME IInv, OperatorStep
  PROVE  SInv'
<1>1. CASE HaltTrading \/ ResetCircuitBreaker
  BY <1>1, AllKept DEF HaltTrading, ResetCircuitBreaker, RowsSound, HandlersStay, CallsSound,
     RouteSound
<1>2. ASSUME NEW c \in Chain, OperatorLists(c) PROVE SInv'
  BY <1>2, AllKept DEF OperatorLists, RowsSound, HandlersStay, CallsSound, RouteSound
<1>3. ASSUME NEW o \in Order, OperatorReconciles(o) PROVE SInv'
  <2>1. booked[o] = 1
    BY <1>3 DEF OperatorReconciles, IInv, CallInv, OrderInv
  <2>2. CallsSound
    BY <1>3, <2>1 DEF OperatorReconciles, CallsSound, SoundCall, IInv, TypeOK
  <2>. QED
    BY <1>3, <2>2, AllKept DEF OperatorReconciles, RowsSound, HandlersStay, RouteSound
<1>4. ASSUME NEW o \in Order, ExpirePreparing(o) PROVE SInv'
  <2>1. attempt[o] \in Row /\ attempt[o].reconciliation # "passed"
    BY <1>4 DEF ExpirePreparing, IInv, TypeOK, VerdictInv
  <2>2. SoundRow(o, [attempt[o] EXCEPT !.status = "stale"])
    BY <2>1 DEF SoundRow, Row, IInv, OrderInv
  <2>3. RowsSound
    BY <1>4, <2>2, WriteSound DEF ExpirePreparing
  <2>. QED
    BY <1>4, <2>3, AllKept DEF ExpirePreparing, HandlersStay, CallsSound, RouteSound
<1>5. ASSUME NEW c \in Chain, NEW status \in {"passed", "failed"},
             ReconcilePortfolio(c, status)
      PROVE SInv'
  BY <1>5, AllKept DEF ReconcilePortfolio, RowsSound, HandlersStay, CallsSound, RouteSound
<1>. QED
  BY <1>1, <1>2, <1>3, <1>4, <1>5 DEF OperatorStep

\* The network and time.
LEMMA WorldSafe ==
  ASSUME IInv, WorldStep
  PROVE  SInv'
<1>1. CASE TimePasses
  BY <1>1, AllKept DEF TimePasses, RowsSound, HandlersStay, CallsSound, RouteSound
<1>2. ASSUME NEW o \in Order, NEW verdict \in {"filled", "rejected"}, VenueDecides(o, verdict)
      PROVE SInv'
  <2>1. /\ venue[o] = "open" /\ venue'[o] = verdict
        /\ \A q \in Order : q # o => venue'[q] = venue[q]
    BY <1>2 DEF VenueDecides, IInv, TypeOK
  <2>2. OrderInv'
    BY <1>2, <2>1 DEF VenueDecides, IInv, OrderInv
  <2>3. HandlerInv'
    BY <1>2, <2>1, BusyHandler DEF VenueDecides, IInv, HandlerInv
  <2>4. VerdictInv'
    BY <1>2, <2>1 DEF VenueDecides, IInv, VerdictInv, NoFill
  <2>. QED
    BY <1>2, <2>2, <2>3, <2>4 DEF VenueDecides, IInv, OneHandlerPerOrder, CallInv, SInv
<1>. QED
  BY <1>1, <1>2 DEF WorldStep

\* A crash and restart.
LEMMA CrashSafe ==
  ASSUME IInv, Crash
  PROVE  SInv'
<1>1. SoundCall(NoCheck)
  BY DEF SoundCall, NoCheck
<1>. QED
  BY <1>1, AllKept DEF Crash, RowsSound, HandlersStay, CallsSound, RouteSound

-----------------------------------------------------------------------------
(* The invariant and what follows from it.                                  *)

\* Every step keeps the safety part of the invariant.
LEMMA SafeNext == IInv /\ [Next]_vars => SInv'
<1> SUFFICES ASSUME IInv, [Next]_vars PROVE SInv'
  OBVIOUS
<1>1. CASE UNCHANGED vars
  BY <1>1, AllKept DEF RowsSound, HandlersStay, CallsSound, RouteSound
<1>. QED
  BY <1>1, HandlerSafe, BookingSafe, CheckSafe, LoopSafe, TickSafe, OperatorSafe, WorldSafe,
     CrashSafe DEF Next

\* IInv is an invariant of the specification.
THEOREM Safety == Spec => []IInv
<1>1. Init => SInv
  <2> SUFFICES ASSUME Init PROVE SInv
    OBVIOUS
  <2>1. OneHandlerPerOrder /\ HandlerInv
    BY DEF Init, OneHandlerPerOrder, HandlerInv, IdleHandler
  <2>2. OrderInv /\ VerdictInv
    BY DEF Init, OrderInv, VerdictInv, NewAttempt
  <2>3. CallInv
    BY DEF Init, CallInv, NoCheck
  <2>. QED
    BY <2>1, <2>2, <2>3 DEF SInv
<1>2. TypeOK /\ SInv <=> IInv
  BY DEF SInv, IInv
<1>. QED
  BY <1>1, <1>2, SafeNext, TypeCorrect, PTL DEF Spec

\* The named safety properties, each a consequence of the invariant.
THEOREM SubmittedOnce == Spec => []AtMostOneSubmission
<1>1. IInv => AtMostOneSubmission
  BY DEF IInv, OrderInv, AtMostOneSubmission
<1>. QED
  BY <1>1, Safety, PTL

\* A fill is booked once, and nothing else is.
THEOREM BookedOnce == Spec => []FillBookedOnce
<1>1. IInv => FillBookedOnce
  BY DEF IInv, OrderInv, FillBookedOnce
<1>. QED
  BY <1>1, Safety, PTL

\* "applied" means that the lot exists.
THEOREM AppliedIsBooked == Spec => []AccountedMeansBooked
<1>1. IInv => AccountedMeansBooked
  BY DEF IInv, OrderInv, AccountedMeansBooked
<1>. QED
  BY <1>1, Safety, PTL

\* "confirmed" and "passed" mean that the lot exists.
THEOREM PassedIsBooked == Spec => []ReconciledMeansBooked
<1>1. IInv => ReconciledMeansBooked
  BY DEF IInv, VerdictInv, ReconciledMeansBooked
<1>. QED
  BY <1>1, Safety, PTL

-----------------------------------------------------------------------------
(* The refinement of OrderLedger.                                           *)

\* A step rewrites at most one row, or moves one order.
OneRow ==
  /\ UNCHANGED <<venue, sends, booked>>
  /\ attempt' = attempt \/ \E o \in Order : \A q \in Order : q # o => attempt'[q] = attempt[q]

\* updateExecutionAttempt changes one row.
LEMMA WriteOneRow ==
  ASSUME IInv, NEW o \in Order, NEW r, Write(o, r)
  PROVE  \E p \in Order : \A q \in Order : q # p => attempt'[q] = attempt[q]
BY DEF Write, IInv, TypeOK

\* Every step is one of the shapes the ledger tells apart.
LEMMA StepShapes ==
  ASSUME IInv, [Next]_vars
  PROVE  \/ OneRow
         \/ \E h \in Handler : Send(h) \/ BookLot(h)
         \/ \E o \in Order, verdict \in {"filled", "rejected"} : VenueDecides(o, verdict)
<1>1. CASE UNCHANGED vars \/ Crash
  BY <1>1 DEF OneRow, Crash
<1>2. ASSUME NEW h \in Handler, HandlerStep(h), ~Send(h) PROVE OneRow
  <2>1. CASE \E o \in Order : Claim(h, o)
    BY <2>1, WriteOneRow DEF Claim, OneRow
  <2>2. CASE ~\E o \in Order : Claim(h, o)
    <3>1. handler[h].order \in Order
      BY <1>2, <2>2, BusyHandler DEF IInv, HandlerStep, PrepareFails, SubmissionFails,
        BeginSubmission, OnSubmitted, AdapterReturns, Confirm
    <3>. QED
      BY <1>2, <2>2, <3>1, WriteOneRow DEF HandlerStep, PrepareFails, SubmissionFails,
        BeginSubmission, OnSubmitted, AdapterReturns, Confirm, OneRow
  <2>. QED
    BY <2>1, <2>2
<1>3. ASSUME NEW h \in Handler, MarkAccounted(h) PROVE OneRow
  BY <1>3, BusyHandler, WriteOneRow DEF MarkAccounted, OneRow, IInv
<1>4. ASSUME NEW a \in Agent, CheckStep(a) PROVE OneRow
  <2>1. check[a].order \in Order
    BY <1>4, BusyCheck DEF IInv, CheckStep, ExternalConfirmed, ExternalUnaccounted,
      ExternalPending, ExternalTerminal, PortfolioPasses, CheckThrows, ExternalError,
      PortfolioFails, RecoveryOverdue, Answered
  <2>2. CASE \/ ExternalConfirmed(a) \/ ExternalPending(a) \/ ExternalTerminal(a)
             \/ PortfolioPasses(a) \/ CheckThrows(a)
    BY <2>1, <2>2, WriteOneRow DEF ExternalConfirmed, ExternalPending, ExternalTerminal,
      PortfolioPasses, CheckThrows, OneRow
  <2>3. CASE ExternalUnaccounted(a)
    BY <2>1, <2>3, WriteOneRow DEF ExternalUnaccounted, CheckFails, OneRow
  <2>4. ASSUME NEW transient \in BOOLEAN,
               ExternalError(a, transient) \/ PortfolioFails(a, transient)
        PROVE OneRow
    BY <2>1, <2>4, WriteOneRow DEF ExternalError, PortfolioFails, CheckFails, OneRow
  <2>5. ASSUME NEW transient \in BOOLEAN, NEW r \in recovery.rows,
               RecoveryOverdue(r, transient)
        PROVE OneRow
    <3>1. r.order \in Order
      BY DEF IInv, TypeOK, TickState, ListedRow
    <3>. QED
      BY <2>5, <3>1, WriteOneRow DEF RecoveryOverdue, OneRow
  <2>. QED
    BY <1>4, <2>2, <2>3, <2>4, <2>5 DEF CheckStep
<1>5. CASE LoopStep
  <2>1. PICK r \in recovery.rows : RecoverySkips(r) \/ RecoveryGivesUp(r) \/ RecoveryChecks(r)
    BY <1>5 DEF LoopStep
  <2>2. r.order \in Order
    BY DEF IInv, TypeOK, TickState, ListedRow
  <2>. QED
    BY <2>1, <2>2, WriteOneRow DEF RecoverySkips, RecoveryGivesUp, RecoveryChecks, OneRow
<1>6. CASE TickStep
  BY <1>6 DEF TickStep, RecoveryStart, TickEnds, ProbeEnds, OneRow
<1>7. CASE OperatorStep
  BY <1>7, WriteOneRow DEF OperatorStep, HaltTrading, ResetCircuitBreaker, OperatorLists,
    OperatorReconciles, ExpirePreparing, ReconcilePortfolio, OneRow
<1>8. CASE TimePasses
  BY <1>8 DEF TimePasses, OneRow
<1>. QED
  BY <1>1, <1>2, <1>3, <1>4, <1>5, <1>6, <1>7, <1>8 DEF Next, Booking, WorldStep

\* The ledger's view of an order under the invariant.
LEMMA LedgerView ==
  ASSUME IInv, NEW o \in Order
  PROVE  /\ LedgerOrder(o) = IF booked[o] = 1 THEN "booked" ELSE venue[o]
         /\ LedgerVerdict(o) \in {"none", "settled", "closed"}
         /\ LedgerVerdict(o) = "settled" => booked[o] = 1
         /\ LedgerVerdict(o) = "closed" => booked[o] = 0 /\ venue[o] \in {"unsent", "rejected"}
<1>1. LedgerOrder(o) = IF booked[o] = 1 THEN "booked" ELSE venue[o]
  BY DEF IInv, OrderInv, LedgerOrder
<1>2. /\ LedgerVerdict(o) \in {"none", "settled", "closed"}
      /\ LedgerVerdict(o) = "settled" => booked[o] = 1
      /\ LedgerVerdict(o) = "closed" => booked[o] = 0 /\ venue[o] \in {"unsent", "rejected"}
  BY DEF IInv, OrderInv, VerdictInv, NoFill, LedgerVerdict
<1>. QED
  BY <1>1, <1>2

\* The same view of the next state.
LEMMA LedgerViewNext ==
  ASSUME IInv', NEW o \in Order
  PROVE  /\ LedgerOrder(o)' = IF booked'[o] = 1 THEN "booked" ELSE venue'[o]
         /\ LedgerVerdict(o)' \in {"none", "settled", "closed"}
         /\ LedgerVerdict(o)' = "settled" => booked'[o] = 1
         /\ LedgerVerdict(o)' = "closed" =>
              booked'[o] = 0 /\ venue'[o] \in {"unsent", "rejected"}
<1>1. LedgerOrder(o)' = IF booked'[o] = 1 THEN "booked" ELSE venue'[o]
  BY DEF IInv, OrderInv, LedgerOrder
<1>2. /\ LedgerVerdict(o)' \in {"none", "settled", "closed"}
      /\ LedgerVerdict(o)' = "settled" => booked'[o] = 1
      /\ LedgerVerdict(o)' = "closed" =>
           booked'[o] = 0 /\ venue'[o] \in {"unsent", "rejected"}
  BY DEF IInv, OrderInv, VerdictInv, NoFill, LedgerVerdict
<1>. QED
  BY <1>1, <1>2

\* Every step of the lifecycle is a step of the ledger or leaves it alone.
LEMMA LedgerStep ==
  ASSUME IInv, IInv', [Next]_vars
  PROVE  [Ledger!Next]_(Ledger!vars)
<1> DEFINE ord == [o \in Order |-> LedgerOrder(o)]
           ver == [o \in Order |-> LedgerVerdict(o)]
<1>1. CASE OneRow
  <2>1. ord' = ord
    BY <1>1, LedgerView, LedgerViewNext DEF OneRow
  <2>2. CASE attempt' = attempt
    BY <2>1, <2>2 DEF LedgerVerdict, Ledger!vars
  <2>3. ASSUME NEW p \in Order, \A q \in Order : q # p => attempt'[q] = attempt[q]
        PROVE Ledger!Next
    <3>1. ver' = [ver EXCEPT ![p] = LedgerVerdict(p)']
      BY <2>3 DEF LedgerVerdict
    <3>2. CASE LedgerVerdict(p)' = "none"
      BY <2>1, <3>1, <3>2 DEF Ledger!Next, Ledger!Reopen, Ledger!Judge
    <3>3. CASE LedgerVerdict(p)' = "settled"
      <4>1. ord[p] = "booked"
        BY <1>1, <3>3, LedgerView, LedgerViewNext DEF OneRow
      <4>. QED
        BY <2>1, <3>1, <3>3, <4>1 DEF Ledger!Next, Ledger!Settle, Ledger!Judge
    <3>4. CASE LedgerVerdict(p)' = "closed"
      <4>1. ord[p] \in {"unsent", "rejected"}
        BY <1>1, <3>4, LedgerView, LedgerViewNext DEF OneRow
      <4>. QED
        BY <2>1, <3>1, <3>4, <4>1 DEF Ledger!Next, Ledger!Close, Ledger!Judge
    <3>. QED
      BY <3>2, <3>3, <3>4, LedgerViewNext
  <2>. QED
    BY <1>1, <2>2, <2>3 DEF OneRow
\* Where one order moves, it carries no verdict.
<1>2. ASSUME NEW o \in Order, NEW from, NEW to,
             from = LedgerOrder(o), to = LedgerOrder(o)',
             <<from, to>> \in {<<"unsent", "open">>, <<"open", "filled">>,
                               <<"open", "rejected">>, <<"filled", "booked">>},
             \A q \in Order : q # o => venue'[q] = venue[q] /\ booked'[q] = booked[q],
             LedgerVerdict(o) = "none", attempt' = attempt
      PROVE  Ledger!Next
  <2>1. ver' = ver
    BY <1>2 DEF LedgerVerdict
  <2>2. ord' = [ord EXCEPT ![o] = to] /\ ord[o] = from /\ ver[o] = "none"
    <3>1. ASSUME NEW q \in Order, q # o PROVE LedgerOrder(q)' = LedgerOrder(q)
      BY <1>2, <3>1, LedgerView, LedgerViewNext
    <3>. QED
      BY <1>2, <3>1
  <2>3. Ledger!Move(o, from, to)
    BY <2>1, <2>2 DEF Ledger!Move
  <2>. QED
    BY <1>2, <2>3 DEF Ledger!Next, Ledger!Submit, Ledger!Decide, Ledger!Book
<1>3. ASSUME NEW h \in Handler, Send(h) PROVE Ledger!Next
  <2>1. PICK o \in Order : o = handler[h].order
    BY <1>3, BusyHandler DEF Send, IInv
  <2>2. venue[o] = "unsent" /\ booked[o] = 0 /\ LedgerVerdict(o) = "none"
    <3>1. venue[o] = "unsent" /\ booked[o] = 0
      BY <1>3, <2>1 DEF Send, IInv, HandlerInv, OrderInv
    <3>2. ~NoFill(o)
      BY <2>1, <3>1 DEF NoFill
    <3>. QED
      BY <3>1, <3>2 DEF LedgerVerdict, IInv, VerdictInv
  <2>3. /\ venue'[o] = "open" /\ attempt' = attempt /\ booked' = booked
        /\ \A q \in Order : q # o => venue'[q] = venue[q]
    BY <1>3, <2>1 DEF Send, IInv, TypeOK
  <2>. QED
    BY <1>2, <2>2, <2>3, LedgerView, LedgerViewNext
<1>4. ASSUME NEW h \in Handler, BookLot(h) PROVE Ledger!Next
  <2>1. PICK o \in Order : o = handler[h].order
    BY <1>4, BusyHandler DEF BookLot, IInv
  <2>2. venue[o] = "filled" /\ booked[o] = 0 /\ LedgerVerdict(o) = "none"
    <3>1. venue[o] = "filled" /\ booked[o] = 0
      BY <1>4, <2>1 DEF BookLot, IInv, HandlerInv
    <3>. QED
      BY <3>1 DEF LedgerVerdict, NoFill, IInv, VerdictInv
  <2>3. /\ booked'[o] = 1 /\ attempt' = attempt /\ venue' = venue
        /\ \A q \in Order : q # o => booked'[q] = booked[q]
    BY <1>4, <2>1, <2>2 DEF BookLot, IInv, TypeOK
  <2>. QED
    BY <1>2, <2>2, <2>3, LedgerView, LedgerViewNext
<1>5. ASSUME NEW o \in Order, NEW verdict \in {"filled", "rejected"}, VenueDecides(o, verdict)
      PROVE Ledger!Next
  <2>1. venue[o] = "open" /\ booked[o] = 0 /\ LedgerVerdict(o) = "none"
    BY <1>5 DEF VenueDecides, LedgerVerdict, NoFill, IInv, OrderInv, VerdictInv
  <2>2. /\ venue'[o] = verdict /\ attempt' = attempt /\ booked' = booked
        /\ \A q \in Order : q # o => venue'[q] = venue[q]
    BY <1>5 DEF VenueDecides, IInv, TypeOK
  <2>. QED
    BY <1>2, <2>1, <2>2, LedgerView, LedgerViewNext
<1>. QED
  BY <1>1, <1>3, <1>4, <1>5, StepShapes

\* The lifecycle implements the ledger.
THEOREM Refinement == Spec => ImplementsLedger
<1>1. Init => Ledger!Init
  BY DEF Init, Ledger!Init, LedgerOrder, LedgerVerdict, NewAttempt
<1>2. IInv /\ IInv' /\ [Next]_vars => [Ledger!Next]_(Ledger!vars)
  BY LedgerStep
<1>. QED
  BY <1>1, <1>2, Safety, PTL DEF Spec, Ledger!Spec, ImplementsLedger

-----------------------------------------------------------------------------
(* FailedVerdictHalts.  recordExecutionFailure would fail the verdict of a  *)
(* row that says "submitting" without halting anything.  Both who calls it  *)
(* and who writes "submitting" have to be bounded for that: a row says so   *)
(* only while its own handler is between runLiveSubmission and the          *)
(* reference, and the recovery loop never gives it that status back.        *)

\* A row has its reference before it leaves "submitting", and only the handler
\* that submits it works on a row that says "submitting".
UnsentRows ==
  \A o \in Order :
    /\ attempt[o].status \in {"absent", "preparing", "submitting"} => attempt[o].ref = FALSE
    /\ attempt[o].status = "submitting" =>
         \A h \in Handler : handler[h].order = o => handler[h].pc \in {"submitting", "sent"}

\* The rows of the recovery loop, and the one it is checking.
CheckedRow(r) == check[Recovery].stage # "none" /\ r.order = check[Recovery].order
ListedRows ==
  /\ \A r \in recovery.rows : r.status = "submitting" => r.ref = FALSE
  /\ \A r, s \in recovery.rows : r.order = s.order => r.status = s.status
  /\ \A r \in recovery.rows : CheckedRow(r) => r.status # "submitting"
  /\ check[Recovery].stage # "none" =>
       recovery.pc = "running" /\ \E r \in recovery.rows : CheckedRow(r)

\* A handler's own call works on the handler's order.
OwnCalls ==
  \A h \in Handler : check[h].stage # "none" =>
    handler[h].pc = "reconciling" /\ handler[h].order = check[h].order

HaltInv == UnsentRows /\ ListedRows /\ OwnCalls

\* recordExecutionFailure leaves no row "submitting", and does not fail the
\* verdict of another row; twice, it fails no verdict at all.
LEMMA FailedVerdicts ==
  ASSUME NEW r \in Row, NEW class \in ErrorClasses
  PROVE  /\ r.status # "submitting" => /\ Failed(r, class).status \notin {"absent", "preparing", "submitting"}
                                       /\ r.reconciliation # "failed" =>
                                            Failed(r, class).reconciliation # "failed"
         /\ FailedTwice(r, class).status \notin {"absent", "preparing", "submitting"}
         /\ r.reconciliation # "failed" => FailedTwice(r, class).reconciliation # "failed"
<1>1. ASSUME NEW s \in Row
      PROVE  /\ Failed(s, class).status \notin {"absent", "preparing", "submitting"}
             /\ s.status # "submitting" /\ s.reconciliation # "failed" =>
                  Failed(s, class).reconciliation # "failed"
             /\ s.status = "submitting" => \/ Failed(s, class).reconciliation # "failed"
                                           \/ /\ Failed(s, class).status = "stale"
                                              /\ class # "terminal"
  <2>1. CASE class = "terminal"
    BY <2>1 DEF Failed, Row, Statuses
  <2>2. CASE class # "terminal" /\ s.status \in {"submitted", "confirmed"}
    <3>1. Failed(s, class) = [s EXCEPT !.reconciliation = IF @ = "failed" THEN "failed" ELSE "pending"]
      BY <2>2 DEF Failed
    <3>. QED
      BY <2>2, <3>1 DEF Row, Statuses
  <2>3. CASE class # "terminal" /\ s.status = "submitting"
    BY <2>3 DEF Failed, Row, Statuses
  <2>4. CASE class # "terminal" /\ s.status \notin {"submitting", "submitted", "confirmed"}
    <3>1. Failed(s, class) =
            [s EXCEPT !.status = IF class = "filter" THEN "filtered" ELSE "failed",
                      !.reconciliation = IF class = "filter" THEN "passed" ELSE "pending"]
      BY <2>4 DEF Failed
    <3>. QED
      BY <2>4, <3>1 DEF Row, Statuses, ErrorClasses
  <2>. QED
    BY <2>1, <2>2, <2>3, <2>4
<1>. DEFINE f == Failed(r, class)
<1>2. f \in Row /\ FailedTwice(r, class) = Failed(f, class)
  BY RowTypes DEF FailedTwice
<1>3. f.status = "stale" /\ class # "terminal" => Failed(f, class).reconciliation # "failed"
  <2>1. f.status = "stale" /\ class # "terminal" =>
          Failed(f, class) =
            [f EXCEPT !.status = IF class = "filter" THEN "filtered" ELSE "failed",
                      !.reconciliation = IF class = "filter" THEN "passed" ELSE "pending"]
    BY DEF Failed
  <2>. HIDE DEF f
  <2>. QED
    BY <1>2, <2>1 DEF Row
<1>. HIDE DEF f
<1>4. Failed(f, class).status \notin {"absent", "preparing", "submitting"}
  BY <1>1, <1>2
<1>5. r.reconciliation # "failed" => Failed(f, class).reconciliation # "failed"
  BY <1>1, <1>2, <1>3 DEF f
<1>. QED
  BY <1>1, <1>2, <1>4, <1>5

\* A step that rewrites the row of one order and moves only its handlers.
LEMMA UnsentRowsKept ==
  ASSUME UnsentRows, NEW o \in Order,
         \A q \in Order : q # o => attempt'[q] = attempt[q],
         \A g \in Handler : handler'[g] = handler[g] \/ handler'[g].order \in {o, NoOrder},
         attempt'[o].status \in {"absent", "preparing", "submitting"} => attempt'[o].ref = FALSE,
         attempt'[o].status = "submitting" =>
           \A g \in Handler : handler'[g].order = o => handler'[g].pc \in {"submitting", "sent"}
  PROVE  UnsentRows'
BY DEF UnsentRows

\* A verdict does not turn to "failed", or trading is halted.
VerdictsHalt ==
  \A o \in Order :
    attempt[o].reconciliation # "failed" /\ attempt'[o].reconciliation = "failed"
      => breaker'.kind # "none"

\* The steps of a handler up to its lot: the rest of the handlers stays, and no
\* call is made.
LEMMA HandlerHalts ==
  ASSUME IInv, HaltInv, NEW h \in Handler, HandlerStep(h)
  PROVE  UnsentRows' /\ OwnCalls' /\ VerdictsHalt
<1>. DEFINE o == handler[h].order
<1>. USE DEF IInv, HaltInv
<1>1. ASSUME NEW p \in Order, Claim(h, p) PROVE UnsentRows' /\ OwnCalls' /\ VerdictsHalt
  <2>1. attempt' = [attempt EXCEPT ![p] = NewAttempt]
    BY <1>1 DEF Claim, Write
  <2>2. NewAttempt.status = "preparing" /\ NewAttempt.ref = FALSE
        /\ NewAttempt.reconciliation = "pending"
    BY DEF NewAttempt
  <2>3. UnsentRows'
    BY <1>1, <2>1, <2>2, UnsentRowsKept DEF Claim, TypeOK
  <2>4. OwnCalls'
    BY <1>1 DEF Claim, OwnCalls, TypeOK
  <2>. QED
    BY <2>1, <2>2, <2>3, <2>4 DEF VerdictsHalt, TypeOK
<1>2. CASE ~\E p \in Order : Claim(h, p)
  <2>1. /\ o \in Order /\ attempt[o] \in Row /\ handler[h].pc # "idle"
        /\ \A g \in Handler : g # h => handler[g].order # o
    <3>1. handler[h].pc # "idle"
      BY <1>2 DEF HandlerStep, PrepareFails, SubmissionFails, BeginSubmission, Send,
        OnSubmitted, AdapterReturns, Confirm
    <3>. QED
      BY <3>1, BusyHandler DEF OneHandlerPerOrder
  <2>2. \A g \in Handler : handler'[g] = handler[g] \/ handler'[g].order \in {o, NoOrder}
    BY <1>2, <2>1 DEF HandlerStep, PrepareFails, SubmissionFails, BeginSubmission, Send,
      OnSubmitted, AdapterReturns, Confirm, Go, Idle, IdleHandler, TypeOK, HandlerState
  <2>3. OwnCalls'
    <3>1. handler[h].pc # "reconciling" /\ check' = check
          /\ \A g \in Handler : g # h => handler'[g] = handler[g]
      BY <1>2 DEF HandlerStep, PrepareFails, SubmissionFails, BeginSubmission, Send,
        OnSubmitted, AdapterReturns, Confirm, Go, Idle, TypeOK
    <3>. QED
      BY <3>1 DEF OwnCalls
  <2>4. CASE \E class \in ErrorClasses : PrepareFails(h, class) \/ SubmissionFails(h, class)
    <3>1. PICK class \in ErrorClasses : PrepareFails(h, class) \/ SubmissionFails(h, class)
      BY <2>4
    <3>2. PICK f : /\ attempt' = [attempt EXCEPT ![o] = f]
                   /\ \/ f = Failed(attempt[o], class) /\ handler[h].pc = "preparing"
                      \/ f = FailedTwice(attempt[o], class)
      BY <3>1 DEF PrepareFails, SubmissionFails, Write
    <3>3. handler'[h].order = NoOrder
      BY <3>1 DEF PrepareFails, SubmissionFails, Idle, IdleHandler, TypeOK
    <3>4. handler[h].pc = "preparing" => attempt[o].status # "submitting"
      BY <2>1 DEF UnsentRows
    <3>5. /\ f.status \notin {"absent", "preparing", "submitting"}
          /\ attempt[o].reconciliation # "failed" => f.reconciliation # "failed"
      BY <2>1, <3>2, <3>4, FailedVerdicts
    <3>6. attempt'[o] = f /\ \A q \in Order : q # o => attempt'[q] = attempt[q]
      BY <2>1, <3>2 DEF TypeOK
    <3>. QED
      BY <2>1, <2>2, <2>3, <3>5, <3>6, UnsentRowsKept DEF VerdictsHalt
  <2>5. CASE BeginSubmission(h)
    <3>1. /\ attempt'[o].status = "submitting" /\ attempt'[o].ref = attempt[o].ref
          /\ attempt'[o].reconciliation = "pending" /\ attempt[o].status = "preparing"
          /\ handler'[h].pc = "submitting"
          /\ \A q \in Order : q # o => attempt'[q] = attempt[q]
          /\ \A g \in Handler : g # h => handler'[g] = handler[g]
      BY <2>1, <2>5 DEF BeginSubmission, Write, Go, TypeOK, Row
    <3>2. attempt'[o].ref = FALSE
      BY <2>1, <3>1 DEF UnsentRows
    <3>3. \A g \in Handler : handler'[g].order = o => handler'[g].pc \in {"submitting", "sent"}
      BY <2>1, <3>1
    <3>4. UnsentRows'
      BY <2>1, <2>2, <3>1, <3>2, <3>3, UnsentRowsKept
    <3>. QED
      BY <2>3, <3>1, <3>4 DEF VerdictsHalt
  <2>6. CASE Send(h)
    <3>1. attempt' = attempt /\ handler'[h].pc = "sent" /\ handler'[h].order = o
          /\ handler[h].pc \in {"referenced", "submitting"}
          /\ \A g \in Handler : g # h => handler'[g] = handler[g]
      BY <2>1, <2>6 DEF Send, Go, TypeOK
    <3>2. UnsentRows'
      BY <2>1, <3>1 DEF UnsentRows
    <3>. QED
      BY <2>3, <3>1, <3>2 DEF VerdictsHalt
  <2>7. CASE OnSubmitted(h)
    <3>1. attempt'[o].status = "submitted" /\ attempt'[o].reconciliation = "pending"
          /\ \A q \in Order : q # o => attempt'[q] = attempt[q]
      BY <2>1, <2>7 DEF OnSubmitted, Write, Referenced, TypeOK, Row
    <3>. QED
      BY <2>1, <2>2, <2>3, <3>1, UnsentRowsKept DEF VerdictsHalt
  <2>8. CASE AdapterReturns(h)
    <3>1. attempt[o].status # "submitting"
      BY <2>1, <2>8 DEF AdapterReturns, UnsentRows
    <3>2. attempt' = attempt /\ handler'[h].pc = "filled" /\ handler'[h].order = o
          /\ \A g \in Handler : g # h => handler'[g] = handler[g]
      BY <2>1, <2>8, <3>1 DEF AdapterReturns, Go, TypeOK
    <3>3. UnsentRows'
      BY <2>1, <3>1, <3>2 DEF UnsentRows
    <3>. QED
      BY <2>3, <3>2, <3>3 DEF VerdictsHalt
  <2>9. CASE Confirm(h)
    <3>1. attempt'[o].status = "confirmed"
          /\ attempt'[o].reconciliation = attempt[o].reconciliation
          /\ \A q \in Order : q # o => attempt'[q] = attempt[q]
      BY <2>1, <2>9 DEF Confirm, Write, TypeOK, Row
    <3>. QED
      BY <2>1, <2>2, <2>3, <3>1, UnsentRowsKept DEF VerdictsHalt
  <2>. QED
    BY <1>2, <2>4, <2>5, <2>6, <2>7, <2>8, <2>9 DEF HandlerStep
<1>. QED
  BY <1>1, <1>2

\* The lot and its mark, after which the handler's own call begins.
LEMMA BookingHalts ==
  ASSUME IInv, HaltInv, NEW h \in Handler, Booking(h)
  PROVE  UnsentRows' /\ OwnCalls' /\ VerdictsHalt
<1>. DEFINE o == handler[h].order
<1>. USE DEF IInv, HaltInv
<1>1. /\ o \in Order /\ attempt[o] \in Row
      /\ \A g \in Handler : g # h => handler[g].order # o
  BY BusyHandler DEF Booking, BookLot, MarkAccounted, OneHandlerPerOrder
<1>2. attempt[o].status # "submitting"
  BY <1>1 DEF Booking, BookLot, MarkAccounted, UnsentRows
<1>3. handler'[h].order = o /\ \A g \in Handler : g # h => handler'[g] = handler[g]
  <2>1. Go(h, "booked") \/ Go(h, "reconciling")
    BY DEF Booking, BookLot, MarkAccounted
  <2>. QED
    BY <2>1 DEF Go, TypeOK, HandlerState
<1>4. attempt'[o].status = attempt[o].status /\ attempt'[o].ref = attempt[o].ref
      /\ attempt'[o].reconciliation = attempt[o].reconciliation
      /\ \A q \in Order : q # o => attempt'[q] = attempt[q]
  BY <1>1 DEF Booking, BookLot, MarkAccounted, Write, TypeOK, Row
<1>5. UnsentRows'
  BY <1>1, <1>2, <1>3, <1>4, UnsentRowsKept DEF UnsentRows
<1>6. OwnCalls'
  <2>1. CASE BookLot(h)
    BY <1>3, <2>1 DEF BookLot, OwnCalls
  <2>2. CASE MarkAccounted(h)
    <3>1. handler'[h].pc = "reconciling" /\ check'[h].order = o
          /\ \A g \in Handler : g # h => check'[g] = check[g]
      BY <2>2 DEF MarkAccounted, Go, TypeOK, Agent
    <3>. QED
      BY <1>3, <3>1 DEF OwnCalls
  <2>. QED
    BY <2>1, <2>2 DEF Booking
<1>. QED
  BY <1>4, <1>5, <1>6 DEF VerdictsHalt

\* The rows of the loop stay what they are when none is added and its call goes
\* on with the same row or ends.
LEMMA ListedRowsKept ==
  ASSUME ListedRows, recovery'.rows \subseteq recovery.rows,
         \/ check'[Recovery].stage = "none"
         \/ /\ check[Recovery].stage # "none" /\ check'[Recovery].order = check[Recovery].order
            /\ recovery' = recovery
  PROVE  ListedRows'
<1>1. ASSUME NEW r \in recovery'.rows PROVE CheckedRow(r)' => CheckedRow(r)
  BY DEF CheckedRow
<1>2. check'[Recovery].stage # "none" =>
        recovery'.pc = "running" /\ \E r \in recovery'.rows : CheckedRow(r)'
  BY DEF ListedRows, CheckedRow
<1>3. \A r \in recovery'.rows : CheckedRow(r)' => r.status # "submitting"
  BY <1>1 DEF ListedRows
<1>4. /\ \A r \in recovery'.rows : r.status = "submitting" => r.ref = FALSE
      /\ \A r, s \in recovery'.rows : r.order = s.order => r.status = s.status
  BY DEF ListedRows
<1>. QED
  BY <1>2, <1>3, <1>4 DEF ListedRows

\* A call that ends: its handler is done, or the loop forgets the row.
LEMMA ReleaseKeeps ==
  ASSUME IInv, HaltInv, NEW a \in Agent, check[a].stage # "none", NEW ok \in BOOLEAN,
         Release(a, ok)
  PROVE  /\ OwnCalls' /\ ListedRows'
         /\ \A g \in Handler : handler'[g] = handler[g] \/ handler'[g] = IdleHandler
         /\ a \in Handler => handler'[a] = IdleHandler
<1>. USE DEF IInv, HaltInv
<1>1. /\ \A g \in Handler : handler'[g] = handler[g] \/ (g = a /\ handler'[g] = IdleHandler)
      /\ a \in Handler => handler'[a] = IdleHandler
  BY DEF Release, TypeOK
<1>2. check'[a] = NoCheck /\ \A g \in Agent : g # a => check'[g] = check[g]
  BY DEF Release, TypeOK
<1>3. OwnCalls'
  BY <1>1, <1>2 DEF OwnCalls, NoCheck, Agent
<1>4. CASE a = Recovery
  <2>1. recovery'.rows \subseteq recovery.rows /\ check'[Recovery].stage = "none"
    BY <1>2, <1>4 DEF Release, TypeOK, TickState, NoCheck
  <2>. QED
    BY <1>1, <1>3, <2>1, ListedRowsKept
<1>5. CASE a # Recovery
  <2>1. recovery' = recovery /\ check'[Recovery] = check[Recovery]
    BY <1>2, <1>5 DEF Release, Agent
  <2>. QED
    BY <1>1, <1>3, <2>1, ListedRowsKept
<1>. QED
  BY <1>4, <1>5

\* The catch block of a call halts trading.
LEMMA CheckFailsHalts ==
  ASSUME IInv, HaltInv, NEW a \in Agent, check[a].stage # "none",
         NEW transient, NEW rec, CheckFails(a, transient, rec)
  PROVE  HaltInv' /\ VerdictsHalt
<1>. DEFINE o == check[a].order
<1>. USE DEF IInv, HaltInv
<1>1. o \in Order /\ attempt[o] \in Row
  BY BusyCheck
<1>2. /\ attempt'[o].status = attempt[o].status /\ attempt'[o].ref = attempt[o].ref
      /\ \A q \in Order : q # o => attempt'[q] = attempt[q]
      /\ handler' = handler /\ recovery' = recovery /\ breaker'.kind = "reconciliation"
  BY <1>1 DEF CheckFails, Write, HaltWith, TypeOK, Row
<1>3. /\ check'[a].stage # "none" /\ check'[a].order = o
      /\ \A g \in Agent : g # a => check'[g] = check[g]
  BY DEF CheckFails, TypeOK, CheckState
<1>4. UnsentRows'
  BY <1>1, <1>2 DEF UnsentRows
<1>5. OwnCalls'
  BY <1>2, <1>3 DEF OwnCalls, Agent
<1>6. ListedRows'
  BY <1>2, <1>3, ListedRowsKept DEF Agent
<1>. QED
  BY <1>2, <1>4, <1>5, <1>6 DEF VerdictsHalt

\* Every step of a call.
LEMMA CheckHalts ==
  ASSUME IInv, HaltInv, NEW a \in Agent, CheckStep(a)
  PROVE  HaltInv' /\ VerdictsHalt
<1>. DEFINE o == check[a].order
<1>. USE DEF IInv, HaltInv
<1>1. check[a].stage # "none"
  BY DEF CheckStep, ExternalConfirmed, ExternalUnaccounted, ExternalPending, ExternalTerminal,
    PortfolioPasses, CheckThrows, ExternalError, PortfolioFails, RecoveryOverdue, Answered
<1>2. o \in Order /\ attempt[o] \in Row
  BY <1>1, BusyCheck
<1>3. CASE ExternalConfirmed(a)
  <2>1. /\ check'[a].stage # "none" /\ check'[a].order = o
        /\ \A g \in Agent : g # a => check'[g] = check[g]
        /\ UNCHANGED <<attempt, handler, recovery>>
    BY <1>3 DEF ExternalConfirmed, TypeOK, CheckState
  <2>2. OwnCalls' /\ ListedRows'
    BY <1>1, <2>1, ListedRowsKept DEF OwnCalls, Agent
  <2>. QED
    BY <2>1, <2>2 DEF UnsentRows, VerdictsHalt
<1>4. CASE \/ ExternalUnaccounted(a)
           \/ \E transient \in BOOLEAN : ExternalError(a, transient) \/ PortfolioFails(a, transient)
  BY <1>1, <1>4, CheckFailsHalts DEF ExternalUnaccounted, ExternalError, PortfolioFails
<1>5. ASSUME NEW ok \in BOOLEAN, Release(a, ok),
             \A q \in Order : q # o => attempt'[q] = attempt[q],
             \/ attempt'[o] = attempt[o]
             \/ attempt'[o].status \notin {"absent", "preparing", "submitting"},
             VerdictsHalt
      PROVE  HaltInv'
  <2>1. /\ OwnCalls' /\ ListedRows'
        /\ \A g \in Handler : handler'[g] = handler[g] \/ handler'[g] = IdleHandler
    BY <1>1, <1>5, ReleaseKeeps
  <2>2. UnsentRows'
    BY <1>2, <1>5, <2>1 DEF UnsentRows, IdleHandler
  <2>. QED
    BY <2>1, <2>2
<1>6. CASE CheckThrows(a) \/ ExternalPending(a)
  <2>1. Release(a, FALSE)
    BY <1>6 DEF CheckThrows, ExternalPending
  <2>2. CASE a \in Handler
    <3>1. attempt' = [attempt EXCEPT ![o] = Failed(attempt[o], "other")]
      BY <1>6, <2>2 DEF CheckThrows, ExternalPending, Write
    <3>2. attempt[o].status # "submitting"
      BY <1>1, <1>2, <2>2 DEF OwnCalls, UnsentRows
    <3>3. /\ attempt'[o].status \notin {"absent", "preparing", "submitting"}
          /\ attempt[o].reconciliation # "failed" => attempt'[o].reconciliation # "failed"
      BY <1>2, <3>1, <3>2, FailedVerdicts DEF ErrorClasses, TypeOK
    <3>4. \A q \in Order : q # o => attempt'[q] = attempt[q]
      BY <3>1 DEF TypeOK
    <3>. QED
      BY <1>5, <2>1, <3>3, <3>4 DEF VerdictsHalt
  <2>3. CASE a \notin Handler
    <3>1. attempt' = attempt
      BY <1>6, <2>3 DEF CheckThrows, ExternalPending
    <3>. QED
      BY <1>5, <2>1, <3>1 DEF VerdictsHalt
  <2>. QED
    BY <2>2, <2>3
<1>7. CASE PortfolioPasses(a)
  <2>1. /\ Release(a, TRUE)
        /\ attempt'[o].status = "confirmed" /\ attempt'[o].reconciliation = "passed"
        /\ \A q \in Order : q # o => attempt'[q] = attempt[q]
    BY <1>2, <1>7 DEF PortfolioPasses, Write, TypeOK, Row
  <2>. QED
    BY <1>5, <2>1 DEF VerdictsHalt
<1>8. CASE ExternalTerminal(a)
  <2>1. Release(a, FALSE)
    BY <1>8 DEF ExternalTerminal
  <2>2. CASE a = Recovery
    <3>1. attempt' = [attempt EXCEPT ![o] = [attempt[o] EXCEPT !.status = "failed",
                                                             !.reconciliation = "passed"]]
      BY <1>8, <2>2 DEF ExternalTerminal, Write
    <3>2. /\ attempt'[o].status = "failed" /\ attempt'[o].reconciliation = "passed"
          /\ \A q \in Order : q # o => attempt'[q] = attempt[q]
      BY <1>2, <3>1 DEF TypeOK, Row
    <3>. QED
      BY <1>5, <2>1, <3>2 DEF VerdictsHalt
  <2>3. CASE a \in Handler
    <3>1. attempt' = [attempt EXCEPT ![o] = Failed(attempt[o], "other")]
      BY <1>8, <2>3 DEF ExternalTerminal, Write
    <3>2. attempt[o].status # "submitting"
      BY <1>1, <1>2, <2>3 DEF OwnCalls, UnsentRows
    <3>3. /\ attempt'[o].status \notin {"absent", "preparing", "submitting"}
          /\ attempt[o].reconciliation # "failed" => attempt'[o].reconciliation # "failed"
      BY <1>2, <3>1, <3>2, FailedVerdicts DEF ErrorClasses, TypeOK
    <3>4. \A q \in Order : q # o => attempt'[q] = attempt[q]
      BY <3>1 DEF TypeOK
    <3>. QED
      BY <1>5, <2>1, <3>3, <3>4 DEF VerdictsHalt
  <2>4. CASE a = Operator
    <3>1. attempt' = attempt
      BY <1>8, <2>4 DEF ExternalTerminal
    <3>. QED
      BY <1>5, <2>1, <3>1 DEF VerdictsHalt
  <2>. QED
    BY <2>2, <2>3, <2>4 DEF Agent
<1>9. ASSUME NEW r \in recovery.rows, NEW transient \in BOOLEAN, a = Recovery,
             RecoveryOverdue(r, transient)
      PROVE  HaltInv' /\ VerdictsHalt
  <2>1. r \in ListedRow /\ CheckedRow(r) /\ r.order = o
    BY <1>1, <1>9 DEF RecoveryOverdue, CheckedRow, TypeOK, TickState
  <2>2. r.status \in {"submitted", "confirmed"}
    BY <2>1 DEF ListedRows, ListedRow
  <2>3. /\ Release(a, FALSE) /\ breaker'.kind = "ambiguous"
        /\ attempt'[o].status = r.status
        /\ \A q \in Order : q # o => attempt'[q] = attempt[q]
    BY <1>2, <1>9, <2>1 DEF RecoveryOverdue, Write, HaltWith, TypeOK, Row
  <2>4. VerdictsHalt
    BY <2>3 DEF VerdictsHalt
  <2>. QED
    BY <1>5, <2>2, <2>3, <2>4
<1>. QED
  BY <1>3, <1>4, <1>6, <1>7, <1>8, <1>9 DEF CheckStep

\* The recovery loop: a row that lost its reference is given up with a halt, and
\* only another one is checked.
LEMMA LoopHalts ==
  ASSUME IInv, HaltInv, LoopStep
  PROVE  HaltInv' /\ VerdictsHalt
<1>. USE DEF IInv, HaltInv
<1>1. PICK r \in recovery.rows : RecoverySkips(r) \/ RecoveryGivesUp(r) \/ RecoveryChecks(r)
  BY DEF LoopStep
<1>2. r \in ListedRow /\ r.order \in Order /\ check[Recovery].stage = "none"
  BY <1>1 DEF RecoverySkips, RecoveryGivesUp, RecoveryChecks, NextRow, TypeOK, TickState, ListedRow
<1>3. CASE RecoverySkips(r)
  <2>1. recovery'.rows \subseteq recovery.rows
        /\ UNCHANGED <<attempt, handler, check>>
    BY <1>3 DEF RecoverySkips, TypeOK, TickState
  <2>. QED
    BY <1>2, <2>1, ListedRowsKept DEF UnsentRows, OwnCalls, VerdictsHalt
<1>4. CASE RecoveryGivesUp(r)
  <2>1. /\ recovery'.rows \subseteq recovery.rows /\ UNCHANGED <<handler, check>>
        /\ breaker'.kind = "ambiguous" /\ attempt'[r.order].status = "stale"
        /\ \A q \in Order : q # r.order => attempt'[q] = attempt[q]
    BY <1>2, <1>4 DEF RecoveryGivesUp, Write, HaltWith, TypeOK, TickState, Row
  <2>2. UnsentRows'
    BY <2>1 DEF UnsentRows
  <2>. QED
    BY <1>2, <2>1, <2>2, ListedRowsKept DEF OwnCalls, VerdictsHalt
<1>5. CASE RecoveryChecks(r)
  <2>1. /\ recovery'.pc = "running" /\ recovery'.rows = recovery.rows
        /\ check'[Recovery].stage = "external" /\ check'[Recovery].order = r.order
        /\ \A h \in Handler : check'[h] = check[h]
        /\ UNCHANGED <<attempt, handler>>
    BY <1>5 DEF RecoveryChecks, TypeOK, TickState, Agent
  <2>2. r.status # "submitting"
    BY <1>1, <1>2, <1>5 DEF RecoveryChecks, LostReference, ListedRows
  <2>3. \A q \in recovery'.rows : CheckedRow(q)' => q.status # "submitting"
    BY <1>1, <2>1, <2>2 DEF CheckedRow, ListedRows
  <2>4. CheckedRow(r)'
    BY <2>1 DEF CheckedRow
  <2>5. ListedRows'
    BY <1>1, <2>1, <2>3, <2>4 DEF ListedRows
  <2>. QED
    BY <2>1, <2>5 DEF UnsentRows, OwnCalls, VerdictsHalt
<1>. QED
  BY <1>1, <1>3, <1>4, <1>5

\* The tick lists rows with what they say, and forgets them when it ends.
LEMMA TickHalts ==
  ASSUME IInv, HaltInv, TickStep
  PROVE  HaltInv' /\ VerdictsHalt
<1>. USE DEF IInv, HaltInv
<1>1. UNCHANGED <<attempt, handler, check>> /\ check[Recovery].stage = "none"
  BY DEF TickStep, RecoveryStart, TickEnds, ProbeEnds, LoopDone, ListedRows
<1>2. CASE RecoveryStart
  <2>1. recovery'.rows = {Listed(o) : o \in {p \in Order : Recoverable(p)}}
    BY <1>2 DEF RecoveryStart
  <2>2. \A r \in recovery'.rows : \E o \in Order : r.order = o /\ r.status = attempt[o].status
                                                     /\ r.ref = attempt[o].ref
    BY <2>1 DEF Listed
  <2>3. ListedRows'
    BY <1>1, <2>2 DEF ListedRows, CheckedRow, UnsentRows
  <2>. QED
    BY <1>1, <2>3 DEF UnsentRows, OwnCalls, VerdictsHalt
<1>3. CASE TickEnds \/ \E healthy \in BOOLEAN : ProbeEnds(healthy)
  <2>1. recovery'.rows \subseteq recovery.rows
    BY <1>3 DEF TickEnds, ProbeEnds, TypeOK, TickState
  <2>. QED
    BY <1>1, <2>1, ListedRowsKept DEF UnsentRows, OwnCalls, VerdictsHalt
<1>. QED
  BY <1>2, <1>3 DEF TickStep

\* The operator's requests.
LEMMA OperatorHalts ==
  ASSUME IInv, HaltInv, OperatorStep
  PROVE  HaltInv' /\ VerdictsHalt
<1>. USE DEF IInv, HaltInv
<1>1. UNCHANGED <<handler, recovery>> /\ \A a \in Agent : a # Operator => check'[a] = check[a]
  BY DEF OperatorStep, HaltTrading, ResetCircuitBreaker, OperatorLists, OperatorReconciles,
    ExpirePreparing, ReconcilePortfolio, TypeOK
<1>2. ListedRows' /\ OwnCalls'
  BY <1>1, ListedRowsKept DEF OwnCalls, Agent
<1>3. CASE \E o \in Order : ExpirePreparing(o)
  <2>1. PICK o \in Order : ExpirePreparing(o)
    BY <1>3
  <2>2. /\ attempt'[o].status = "stale" /\ attempt'[o].reconciliation = attempt[o].reconciliation
        /\ \A q \in Order : q # o => attempt'[q] = attempt[q]
    BY <2>1 DEF ExpirePreparing, Write, TypeOK, Row
  <2>3. UnsentRows'
    BY <1>1, <2>2 DEF UnsentRows
  <2>. QED
    BY <1>2, <2>2, <2>3 DEF VerdictsHalt
<1>4. CASE attempt' = attempt
  BY <1>1, <1>2, <1>4 DEF UnsentRows, VerdictsHalt
<1>. QED
  BY <1>3, <1>4 DEF OperatorStep, HaltTrading, ResetCircuitBreaker, OperatorLists,
    OperatorReconciles, ReconcilePortfolio

\* The network, time and restarts.
LEMMA WorldHalts ==
  ASSUME IInv, HaltInv, WorldStep
  PROVE  HaltInv' /\ VerdictsHalt
<1>. USE DEF IInv, HaltInv
<1>1. UNCHANGED <<attempt, handler, check>>
  BY DEF WorldStep, TimePasses, VenueDecides
<1>2. CASE recovery' = recovery
  BY <1>1, <1>2 DEF UnsentRows, OwnCalls, VerdictsHalt, ListedRows, CheckedRow
<1>3. CASE TimePasses
  <2>1. recovery'.pc = recovery.pc
        /\ recovery'.rows = {IF r.order = check[Recovery].order THEN r
                             ELSE [r EXCEPT !.age = Older(@)] : r \in recovery.rows}
    BY <1>3 DEF TimePasses, TypeOK, TickState
  <2>2. \A q \in recovery'.rows : \E r \in recovery.rows :
          q.order = r.order /\ q.status = r.status /\ q.ref = r.ref
    BY <2>1 DEF TypeOK, TickState, ListedRow
  <2>3. \A r \in recovery.rows : CheckedRow(r) => r \in recovery'.rows
    BY <2>1 DEF CheckedRow
  <2>4. /\ \A q \in recovery'.rows : q.status = "submitting" => q.ref = FALSE
        /\ \A q, s \in recovery'.rows : q.order = s.order => q.status = s.status
    BY <2>2 DEF ListedRows
  <2>5. \A q \in recovery'.rows : CheckedRow(q)' => q.status # "submitting"
    BY <1>1, <2>2 DEF ListedRows, CheckedRow
  <2>6. check'[Recovery].stage # "none" =>
          recovery'.pc = "running" /\ \E q \in recovery'.rows : CheckedRow(q)'
    BY <1>1, <2>1, <2>3 DEF ListedRows, CheckedRow
  <2>7. ListedRows'
    BY <2>4, <2>5, <2>6 DEF ListedRows
  <2>. QED
    BY <1>1, <2>7 DEF UnsentRows, OwnCalls, VerdictsHalt
<1>. QED
  BY <1>2, <1>3 DEF WorldStep, VenueDecides

\* A restart leaves no handler and no call.
LEMMA CrashHalts ==
  ASSUME IInv, HaltInv, Crash
  PROVE  HaltInv' /\ VerdictsHalt
<1>1. attempt' = attempt /\ \A h \in Handler : handler'[h] = IdleHandler
  BY DEF Crash
<1>2. UnsentRows'
  BY <1>1 DEF HaltInv, UnsentRows, IdleHandler
<1>3. ListedRows' /\ OwnCalls'
  BY DEF Crash, ListedRows, CheckedRow, OwnCalls, NoCheck, Agent
<1>. QED
  BY <1>1, <1>2, <1>3 DEF HaltInv, VerdictsHalt

\* Every step.
LEMMA HaltStep ==
  ASSUME IInv, HaltInv, [Next]_vars
  PROVE  HaltInv' /\ VerdictsHalt
<1>1. CASE UNCHANGED vars
  BY <1>1 DEF HaltInv, UnsentRows, ListedRows, CheckedRow, OwnCalls, VerdictsHalt
<1>2. ASSUME NEW h \in Handler, HandlerStep(h) \/ Booking(h) PROVE HaltInv' /\ VerdictsHalt
  <2>1. recovery' = recovery /\ check'[Recovery] = check[Recovery]
    BY <1>2 DEF HandlerStep, Claim, PrepareFails, SubmissionFails, BeginSubmission, Send,
      OnSubmitted, AdapterReturns, Confirm, Booking, BookLot, MarkAccounted, IInv, TypeOK, Agent
  <2>2. ListedRows'
    BY <2>1 DEF HaltInv, ListedRows, CheckedRow
  <2>. QED
    BY <1>2, <2>2, HandlerHalts, BookingHalts DEF HaltInv
<1>. QED
  BY <1>1, <1>2, CheckHalts, LoopHalts, TickHalts, OperatorHalts, WorldHalts, CrashHalts DEF Next

\* Whoever reaches a verdict that turns to "failed" halts trading (see
\* FailedVerdictHalts).
THEOREM FailureHalts == Spec => FailedVerdictHalts
<1>1. Init => HaltInv
  BY DEF Init, HaltInv, UnsentRows, ListedRows, CheckedRow, OwnCalls, NewAttempt, NoCheck, Agent
<1>2. IInv /\ HaltInv /\ [Next]_vars => HaltInv'
  BY HaltStep
<1>3. IInv /\ HaltInv /\ [Next]_vars =>
        [\A o \in Order :
           attempt[o].reconciliation # "failed" /\ attempt'[o].reconciliation = "failed"
             => breaker'.kind # "none"]_vars
  BY HaltStep DEF VerdictsHalt
<1>. QED
  BY <1>1, <1>2, <1>3, Safety, PTL DEF Spec, FailedVerdictHalts

===============================================================================
