-------------------------- MODULE ExecutionLifecycle --------------------------
(***************************************************************************)
(* The life of a live order in NERAXON: a handler (copy trade, manual      *)
(* trade or certification) claims an execution attempt under an            *)
(* idempotency key, submits the order, books the fill into the local lots  *)
(* and reconciles it; the maintenance tick of the bot orchestrator         *)
(* recovers attempts whose handler died or whose outcome is unknown; both  *)
(* may trip the circuit breaker, and the tick may lift it again.           *)
(*                                                                         *)
(* Steps are cut where the code awaits: between two awaits JavaScript runs *)
(* a handler without interleaving, so such a stretch is one action.  The   *)
(* one stretch a crash can tear apart (three SQLite writes outside a       *)
(* transaction) is three actions that only Crash interrupts.               *)
(*                                                                         *)
(* Abstracted: prices, amounts, quotes and messages.  An error is the      *)
(* class execution-outcome.ts puts its message in ("filter", "terminal",   *)
(* "other") and whether it reads like an RPC error (transient).  The clock *)
(* is the age class of updated_at (0: under 2 min, 1: 2 to 3 min, 2: over  *)
(* 3 min).  SQLite itself does not fail.                                   *)
(***************************************************************************)
EXTENDS Naturals, FiniteSets

CONSTANTS
  Order,      \* idempotency keys of live attempts
  Handler,    \* request handlers that may run concurrently
  Recovery,   \* the maintenance tick's recovery loop
  Operator,   \* the operator's requests to reconcile
  Chain,      \* integrations
  NoOrder, NoChain,
  ChainOf,    \* the integration an order belongs to
  Kind,       \* "evm", "solana" or "hypercore", per integration
  MaxCrashes  \* bound on process restarts

Agent == Handler \cup {Recovery, Operator}

ASSUME ConstantsAssumption ==
  /\ ChainOf \in [Order -> Chain]
  /\ Kind \in [Chain -> {"evm", "solana", "hypercore"}]
  /\ NoOrder \notin Order /\ NoChain \notin Chain
  /\ Recovery \notin Handler /\ Operator \notin Handler /\ Recovery # Operator
  /\ MaxCrashes \in Nat

VARIABLES
  attempt,    \* execution_attempts: one row per order
  age,        \* age class of the row's updated_at
  handler,    \* where each handler is suspended, and the order it works on
  check,      \* reconcileAfterLiveExecution calls in progress
  recovery,   \* the maintenance tick, with the rows it listed as it read them
  route,      \* the manual reconcile route: attempts it has yet to retry
  breaker,    \* the persisted circuit breaker
  stopped,    \* history: an operator halted trading and has not reset it
  record,     \* live_reconciliation: one record per integration
  venue,      \* what the network or exchange did with the order
  sends,      \* how many times the order was put on the wire
  booked,     \* how many times its fill was written into execution_lots
  crashes

\* Groups of variables most actions leave alone together.
row == <<attempt, age>>
tick == <<recovery, route>>
halts == <<breaker, stopped>>
world == <<venue, sends, booked, crashes>>
vars == <<row, handler, check, tick, halts, record, world>>

Statuses == {"absent", "preparing", "submitting", "submitted", "confirmed",
             "failed", "filtered", "stale"}
HandlerPCs == {"idle", "preparing", "submitting", "referenced", "sent",
               "awaiting", "filled", "confirmed", "booked", "reconciling"}
ErrorClasses == {"filter", "terminal", "other"}

Row == [status : Statuses, accounting : {"pending", "applied"},
        reconciliation : {"pending", "passed", "failed"}, ref : BOOLEAN]
ListedRow == [order : Order, status : {"submitting", "submitted", "confirmed"},
              ref : BOOLEAN, age : 0..2]
HandlerState == [pc : {"idle"}, order : {NoOrder}]
                \cup [pc : HandlerPCs \ {"idle"}, order : Order]
CheckState == [stage : {"none"}, order : {NoOrder}, applied : {FALSE}]
              \cup [stage : {"external", "portfolio", "reporting"}, order : Order,
                    applied : BOOLEAN]
TickState == [pc : {"idle", "listing", "running", "probing"}, rows : SUBSET ListedRow]
RecordState == [status : {"pending", "passed", "failed"}, fresh : BOOLEAN]
BreakerState == [kind : {"none", "manual"}, chain : {NoChain}, transient : {FALSE}]
                \cup [kind : {"reconciliation", "ambiguous"}, chain : Chain,
                      transient : BOOLEAN]

NoCheck == [stage |-> "none", order |-> NoOrder, applied |-> FALSE]
IdleHandler == [pc |-> "idle", order |-> NoOrder]
NotHalted == [kind |-> "none", chain |-> NoChain, transient |-> FALSE]
Halted == breaker.kind # "none"
HyperCore(o) == Kind[ChainOf[o]] = "hypercore"

-----------------------------------------------------------------------------
(* The repository operations the actions are built from.                    *)

\* INSERT of a fresh row by insertExecutionAttempt.
NewAttempt == [status |-> "preparing", accounting |-> "pending",
               reconciliation |-> "pending", ref |-> FALSE]

\* recordExecutionFailure applied to a row.
Failed(r, class) ==
  CASE class = "terminal" ->
         [r EXCEPT !.status = "failed", !.reconciliation = "passed"]
    [] class # "terminal" /\ r.status \in {"submitted", "confirmed"} ->
         [r EXCEPT !.reconciliation = IF @ = "failed" THEN "failed" ELSE "pending"]
    [] class # "terminal" /\ r.status = "submitting" ->
         [r EXCEPT !.status = "stale", !.reconciliation = "failed"]
    [] OTHER ->
         [r EXCEPT !.status = IF class = "filter" THEN "filtered" ELSE "failed",
                   !.reconciliation = IF class = "filter" THEN "passed" ELSE "pending"]

\* An error inside runLiveSubmission is recorded there and, once rethrown,
\* recorded again by the caller's own catch block.
FailedTwice(r, class) == Failed(Failed(r, class), class)

\* updateExecutionAttempt: the row changes and updated_at becomes now.
Write(o, r) ==
  /\ attempt' = [attempt EXCEPT ![o] = r]
  /\ age' = [age EXCEPT ![o] = 0]

\* Fault: recovery asks only for attempts that reached the network.
RecoverableIfSubmitted(o) == attempt[o].status = "submitted"

\* listPendingLiveExecutionAttempts
Recoverable(o) ==
  \/ attempt[o].status \in {"submitting", "submitted"}
  \/ attempt[o].status = "confirmed" /\ attempt[o].reconciliation = "pending"

\* countUnresolvedLiveExecutionAttempts
Unresolved(o) ==
  \/ attempt[o].status \in {"submitting", "submitted", "stale"}
  \/ attempt[o].status # "absent" /\ attempt[o].reconciliation = "failed"

\* setCircuitBreaker({...current, halted: true, reason, triggeredAt: now}):
\* whatever halt was in force is replaced, and every earlier reconciliation
\* record becomes older than the halt.
HaltWith(kind, c, transient, rec) ==
  /\ breaker' = [kind |-> kind, chain |-> c, transient |-> transient]
  /\ record' = [d \in Chain |-> [rec[d] EXCEPT !.fresh = FALSE]]

\* setReconciliation of a finished reconcileIntegration.
Recorded(c, status) == [record EXCEPT ![c] = [status |-> status, fresh |-> Halted]]

Go(h, pc) == handler' = [handler EXCEPT ![h].pc = pc]

Idle(h) == handler' = [handler EXCEPT ![h] = IdleHandler]

-----------------------------------------------------------------------------
Init ==
  /\ attempt = [o \in Order |-> [NewAttempt EXCEPT !.status = "absent"]]
  /\ age = [o \in Order |-> 0]
  /\ handler = [h \in Handler |-> IdleHandler]
  /\ check = [a \in Agent |-> NoCheck]
  /\ recovery = [pc |-> "idle", rows |-> {}]
  /\ route = {}
  /\ breaker = NotHalted
  /\ stopped = FALSE
  /\ record = [c \in Chain |-> [status |-> "pending", fresh |-> FALSE]]
  /\ venue = [o \in Order |-> "unsent"]
  /\ sends = [o \in Order |-> 0]
  /\ booked = [o \in Order |-> 0]
  /\ crashes = 0

-----------------------------------------------------------------------------
(* The handler: prepare, submit, account.                                   *)

\* Fault: the claim does not notice a row that exists.
ClaimAgain(h, o) ==
  /\ handler[h].pc = "idle"
  /\ Write(o, NewAttempt)
  /\ handler' = [handler EXCEPT ![h] = [pc |-> "preparing", order |-> o]]
  /\ UNCHANGED <<check, tick, halts, record, world>>

\* A second handler for the same key finds the row and returns: a stutter.
Claim(h, o) ==
  /\ handler[h].pc = "idle"
  /\ attempt[o].status = "absent"
  /\ Write(o, NewAttempt)
  /\ handler' = [handler EXCEPT ![h] = [pc |-> "preparing", order |-> o]]
  /\ UNCHANGED <<check, tick, halts, record, world>>

\* A quote, policy, fee, risk or circuit breaker check throws; so does
\* runLiveSubmission when the row is no longer "preparing".
PrepareFails(h, class) ==
  /\ handler[h].pc = "preparing"
  /\ class # "terminal"
  /\ Write(handler[h].order, Failed(attempt[handler[h].order], class))
  /\ Idle(h)
  /\ UNCHANGED <<check, tick, halts, record, world>>

\* The breaker check that ends assertLiveDailyLossLimit, then the start of
\* runLiveSubmission.
BeginSubmission(h) ==
  LET o == handler[h].order IN
  /\ handler[h].pc = "preparing"
  /\ ~Halted
  /\ attempt[o].status = "preparing"
  /\ Write(o, [attempt[o] EXCEPT !.status = "submitting", !.reconciliation = "pending"])
  /\ Go(h, "submitting")
  /\ UNCHANGED <<check, tick, halts, record, world>>

\* The order goes on the wire.  HyperCore has stored its client order id
\* beforehand; EVM and Solana learn the reference from the reply.
Send(h) ==
  LET o == handler[h].order IN
  /\ \/ handler[h].pc = "referenced"
     \/ handler[h].pc = "submitting" /\ ~HyperCore(o)
  /\ sends' = [sends EXCEPT ![o] = @ + 1]
  /\ venue' = [venue EXCEPT ![o] = "open"]
  /\ Go(h, "sent")
  /\ UNCHANGED <<row, check, tick, halts, record, booked, crashes>>

\* hooks.onSubmitted overwrites the status, whatever it is by then.
Referenced(r) ==
  [r EXCEPT !.status = "submitted", !.ref = TRUE, !.reconciliation = "pending"]

\* HyperCore calls it twice: with the client order id before sending, and
\* with the order id of a reply that is not a rejection.
OnSubmitted(h) ==
  LET o == handler[h].order IN
  /\ \/ /\ handler[h].pc = "submitting" /\ HyperCore(o)
        /\ Go(h, "referenced")
     \/ /\ handler[h].pc = "sent"
        /\ HyperCore(o) => venue[o] # "rejected"
        /\ Go(h, "awaiting")
  /\ Write(o, Referenced(attempt[o]))
  /\ UNCHANGED <<check, tick, halts, record, world>>

\* execute(hooks) throws, before the order is sent or while it is awaited: a
\* lost reply, a receipt timeout, a revert, an unverifiable balance change.
\* A pre-execution message needs an unsent order; a terminal rejection is
\* HyperCore's.
SubmissionFails(h, class) ==
  LET o == handler[h].order IN
  /\ handler[h].pc \in {"submitting", "referenced", "sent", "awaiting"}
  /\ class = "filter" => venue[o] = "unsent"
  /\ class = "terminal" => HyperCore(o) /\ venue[o] \in {"unsent", "rejected"}
  /\ Write(o, FailedTwice(attempt[o], class))
  /\ Idle(h)
  /\ UNCHANGED <<check, tick, halts, record, world>>

\* execute(hooks) returns a complete fill.
AdapterReturns(h) ==
  LET o == handler[h].order IN
  /\ handler[h].pc = "awaiting"
  /\ venue[o] = "filled"
  /\ IF attempt[o].status = "submitting"
       THEN Write(o, Referenced(attempt[o]))
       ELSE UNCHANGED row
  /\ Go(h, "filled")
  /\ UNCHANGED <<check, tick, halts, record, world>>

\* Three writes in one stretch without an await: the confirmation ...
Confirm(h) ==
  LET o == handler[h].order IN
  /\ handler[h].pc = "filled"
  /\ Write(o, [attempt[o] EXCEPT !.status = "confirmed", !.ref = TRUE])
  /\ Go(h, "confirmed")
  /\ UNCHANGED <<check, tick, halts, record, world>>

\* ... the lot, which makes the integration's record pending again ...
BookLot(h) ==
  LET o == handler[h].order IN
  /\ handler[h].pc = "confirmed"
  /\ booked' = [booked EXCEPT ![o] = @ + 1]
  /\ record' = [record EXCEPT ![ChainOf[o]] = [status |-> "pending", fresh |-> FALSE]]
  /\ Go(h, "booked")
  /\ UNCHANGED <<row, check, tick, halts, venue, sends, crashes>>

\* ... and markExecutionAccounted, after which reconcileAfterLiveExecution
\* reads the row and awaits the external answer.
MarkAccounted(h) ==
  LET o == handler[h].order IN
  /\ handler[h].pc = "booked"
  /\ Write(o, [attempt[o] EXCEPT !.accounting = "applied"])
  /\ check' = [check EXCEPT ![h] = [stage |-> "external", order |-> o, applied |-> TRUE]]
  /\ Go(h, "reconciling")
  /\ UNCHANGED <<tick, halts, record, world>>

-----------------------------------------------------------------------------
(* reconcileAfterLiveExecution, called by handlers, the recovery loop and   *)
(* the operator's requests.                                                 *)

\* Fault: an open HyperCore order is taken for a cancelled one.
AnswersTerminalIfOpen(o) ==
  {"error"} \cup (IF ~attempt[o].ref THEN {} ELSE
     {"pending"} \cup (IF venue[o] = "filled" THEN {"confirmed"} ELSE {})
                 \cup (IF venue[o] \in {"open", "rejected"} /\ HyperCore(o)
                          THEN {"terminal"} ELSE {}))

\* What assertExternalExecutionConfirmed may report of an order with a
\* reference.  A node that lags reports a mined transaction as not found.
Answers(o) ==
  {"error"}
  \cup (IF attempt[o].ref THEN {"pending"} ELSE {})
  \cup (IF attempt[o].ref /\ venue[o] = "filled" THEN {"confirmed"} ELSE {})
  \cup (IF attempt[o].ref /\ venue[o] = "rejected" /\ HyperCore(o)
          THEN {"terminal"} ELSE {})

Answered(a, answer) ==
  check[a].stage = "external" /\ answer \in Answers(check[a].order)

\* The call returns (ok) or throws: a handler ends, the recovery loop goes to
\* its next row, the reconcile route to its next attempt unless it threw.
Release(a, ok) ==
  LET o == check[a].order IN
  /\ check' = [check EXCEPT ![a] = NoCheck]
  /\ handler' = IF a \in Handler THEN [handler EXCEPT ![a] = IdleHandler] ELSE handler
  /\ recovery' = IF a = Recovery
                   THEN [recovery EXCEPT !.rows = {r \in @ : r.order # o}]
                   ELSE recovery
  /\ route' = IF a # Operator THEN route ELSE IF ok THEN route \ {o} ELSE {}

\* Fault: the failure is recorded but trading goes on.
CheckFailsQuietly(a, transient, rec) ==
  LET o == check[a].order IN
  /\ Write(o, [attempt[o] EXCEPT !.reconciliation = "failed"])
  /\ check' = [check EXCEPT ![a].stage = "reporting"]
  /\ UNCHANGED <<handler, tick, halts, record, world>>

\* The catch block: the row's reconciliation fails, the breaker halts, and
\* the call awaits the publication of both.
CheckFails(a, transient, rec) ==
  LET o == check[a].order IN
  /\ Write(o, [attempt[o] EXCEPT !.reconciliation = "failed"])
  /\ HaltWith("reconciliation", ChainOf[o], transient, rec)
  /\ check' = [check EXCEPT ![a].stage = "reporting"]
  /\ UNCHANGED <<handler, tick, stopped, world>>

\* Then it throws, and a handler's own catch block records the error again.
CheckThrows(a) ==
  LET o == check[a].order IN
  /\ check[a].stage = "reporting"
  /\ IF a \in Handler THEN Write(o, Failed(attempt[o], "other")) ELSE UNCHANGED row
  /\ Release(a, FALSE)
  /\ UNCHANGED <<halts, record, world>>

\* Fault: a confirmed fill is reconciled whether accounted or not.
ExternalConfirmedAnyway(a) ==
  /\ Answered(a, "confirmed")
  /\ check' = [check EXCEPT ![a].stage = "portfolio"]
  /\ UNCHANGED <<row, handler, tick, halts, record, world>>

\* The fill is confirmed and was accounted when the call began.
ExternalConfirmed(a) ==
  /\ Answered(a, "confirmed") /\ check[a].applied
  /\ check' = [check EXCEPT ![a].stage = "portfolio"]
  /\ UNCHANGED <<row, handler, tick, halts, record, world>>

\* The fill is confirmed but had no lot when the call began.
ExternalUnaccounted(a) ==
  /\ Answered(a, "confirmed") /\ ~check[a].applied
  /\ CheckFails(a, FALSE, record)

\* The query fails or the transaction reverted.
ExternalError(a, transient) ==
  /\ Answered(a, "error")
  /\ CheckFails(a, transient, record)

\* Not found or not final yet.  A handler records the error; the recovery
\* loop leaves a row alone that was listed younger than three minutes.
ExternalPending(a) ==
  LET o == check[a].order IN
  /\ Answered(a, "pending")
  /\ a = Recovery => \E r \in recovery.rows : r.order = o /\ r.age < 2
  /\ IF a \in Handler THEN Write(o, Failed(attempt[o], "other")) ELSE UNCHANGED row
  /\ Release(a, FALSE)
  /\ UNCHANGED <<halts, record, world>>

\* An older row gets its listed status back, its reconciliation fails and the
\* breaker halts.  Solana's message names the RPC history.
RecoveryOverdue(r, transient) ==
  LET o == r.order IN
  /\ Answered(Recovery, "pending")
  /\ o = check[Recovery].order /\ r.age = 2
  /\ transient => Kind[ChainOf[o]] = "solana"
  /\ Write(o, [attempt[o] EXCEPT !.status = r.status, !.reconciliation = "failed"])
  /\ HaltWith("ambiguous", ChainOf[o], transient, record)
  /\ Release(Recovery, FALSE)
  /\ UNCHANGED <<stopped, world>>

\* HyperCore reports the order cancelled or rejected.
ExternalTerminal(a) ==
  LET o == check[a].order IN
  /\ Answered(a, "terminal")
  /\ CASE a = Recovery -> Write(o, [attempt[o] EXCEPT !.status = "failed",
                                                      !.reconciliation = "passed"])
       [] a \in Handler -> Write(o, Failed(attempt[o], "other"))
       [] OTHER -> UNCHANGED row
  /\ Release(a, FALSE)
  /\ UNCHANGED <<halts, record, world>>

\* reconcileIntegration finds that the account covers the local lots.
PortfolioPasses(a) ==
  LET o == check[a].order IN
  /\ check[a].stage = "portfolio"
  /\ Write(o, [attempt[o] EXCEPT !.status = "confirmed", !.reconciliation = "passed"])
  /\ record' = Recorded(ChainOf[o], "passed")
  /\ Release(a, TRUE)
  /\ UNCHANGED <<halts, world>>

\* It does not, or cannot be asked.
PortfolioFails(a, transient) ==
  /\ check[a].stage = "portfolio"
  /\ CheckFails(a, transient, Recorded(ChainOf[check[a].order], "failed"))

-----------------------------------------------------------------------------
(* The maintenance tick: recoverPendingLiveExecutions, then the periodic    *)
(* portfolio reconciliation, then the automatic lifting of halts.           *)

Listed(o) == [order |-> o, status |-> attempt[o].status, ref |-> attempt[o].ref,
              age |-> age[o]]

RecoveryStart ==
  /\ recovery.pc = "idle"
  /\ recovery' = [pc |-> "listing", rows |-> {Listed(o) : o \in {p \in Order : Recoverable(p)}}]
  /\ UNCHANGED <<row, handler, check, route, halts, record, world>>

\* The next listed row, in any order (the code sorts by created_at).
NextRow(r) ==
  /\ recovery.pc \in {"listing", "running"}
  /\ check[Recovery].stage = "none"
  /\ r \in recovery.rows

LostReference(r) == r.status = "submitting" /\ ~r.ref

\* A row caught between "submitting" and its reference, younger than 2 min.
RecoverySkips(r) ==
  /\ NextRow(r) /\ LostReference(r) /\ r.age = 0
  /\ recovery' = [recovery EXCEPT !.rows = @ \ {r}]
  /\ UNCHANGED <<row, handler, check, route, halts, record, world>>

\* ... older: the row becomes stale and the breaker halts.
RecoveryGivesUp(r) ==
  LET o == r.order IN
  /\ NextRow(r) /\ LostReference(r) /\ r.age > 0
  /\ Write(o, [attempt[o] EXCEPT !.status = "stale", !.reconciliation = "failed"])
  /\ HaltWith("ambiguous", ChainOf[o], FALSE, record)
  /\ recovery' = [pc |-> "running", rows |-> recovery.rows \ {r}]
  /\ UNCHANGED <<handler, check, route, stopped, world>>

\* ... with a reference: reconcileAfterLiveExecution is called.
RecoveryChecks(r) ==
  LET o == r.order IN
  /\ NextRow(r) /\ ~LostReference(r)
  /\ check' = [check EXCEPT ![Recovery] =
                 [stage |-> "external", order |-> o,
                  applied |-> attempt[o].accounting = "applied"]]
  /\ recovery' = [recovery EXCEPT !.pc = "running"]
  /\ UNCHANGED <<row, handler, route, halts, record, world>>

LoopDone == recovery.pc \in {"listing", "running"} /\ recovery.rows = {}

\* reconcileIntegration alone: reconcileLivePortfolioIfDue for one running
\* integration, or the end of the manual reconcile route.
ReconcilePortfolio(c, status) ==
  /\ \/ LoopDone
     \/ check[Operator].stage = "none" /\ route = {}
  /\ record' = Recorded(c, status)
  /\ UNCHANGED <<row, handler, check, tick, halts, world>>

\* isRecoverableReconciliationHalt
ReconciliationRecovered ==
  /\ breaker.kind = "reconciliation"
  /\ record[breaker.chain].status = "passed"
  /\ record[breaker.chain].fresh

\* A halt older than its integration's successful reconciliation is lifted; a
\* halt whose reason reads like an RPC error starts a health check of every
\* chain.
TickEnds ==
  /\ LoopDone
  /\ breaker' = IF ReconciliationRecovered THEN NotHalted ELSE breaker
  /\ recovery' = [pc |-> IF breaker'.transient THEN "probing" ELSE "idle", rows |-> {}]
  /\ stopped' = stopped
  /\ UNCHANGED <<row, handler, check, route, record, world>>

\* Every chain answers: whatever halt is in force by then is lifted.
ProbeEnds(healthy) ==
  /\ recovery.pc = "probing"
  /\ breaker' = IF healthy THEN NotHalted ELSE breaker
  /\ recovery' = [recovery EXCEPT !.pc = "idle"]
  /\ UNCHANGED <<row, handler, check, route, stopped, record, world>>

-----------------------------------------------------------------------------
(* The operator, the network, time and crashes.                             *)

\* The circuit breaker route: halt and reset.
HaltTrading ==
  /\ HaltWith("manual", NoChain, FALSE, record)
  /\ stopped' = TRUE
  /\ UNCHANGED <<row, handler, check, tick, world>>

ResetCircuitBreaker ==
  /\ Halted
  /\ breaker' = NotHalted
  /\ stopped' = FALSE
  /\ UNCHANGED <<row, handler, check, tick, record, world>>

\* The manual reconcile route lists the attempts of an integration to retry ...
OperatorLists(c) ==
  /\ route = {} /\ check[Operator].stage = "none"
  /\ route' = {o \in Order : /\ ChainOf[o] = c
                             /\ attempt[o].accounting = "applied"
                             /\ attempt[o].status \in {"submitted", "confirmed"}
                             /\ attempt[o].reconciliation # "passed"}
  /\ route' # {}
  /\ UNCHANGED <<row, handler, check, recovery, halts, record, world>>

\* ... and retries them one by one, whatever became of them.  Certification,
\* asked again for a step it confirmed, checks that attempt once more.
OperatorReconciles(o) ==
  /\ check[Operator].stage = "none"
  /\ \/ o \in route
     \/ /\ route = {}
        /\ attempt[o].status = "confirmed" /\ attempt[o].accounting = "applied"
  /\ check' = [check EXCEPT ![Operator] = [stage |-> "external", order |-> o, applied |-> TRUE]]
  /\ UNCHANGED <<row, handler, tick, halts, record, world>>

\* expirePreparingExecutionAttempts, run by the dashboard.
ExpirePreparing(o) ==
  /\ attempt[o].status = "preparing" /\ age[o] = 2
  /\ Write(o, [attempt[o] EXCEPT !.status = "stale"])
  /\ UNCHANGED <<handler, check, tick, halts, record, world>>

VenueDecides(o, verdict) ==
  /\ venue[o] = "open"
  /\ venue' = [venue EXCEPT ![o] = verdict]
  /\ UNCHANGED <<row, handler, check, tick, halts, record, sends, booked, crashes>>

Older(n) == IF n = 2 THEN 2 ELSE n + 1

\* Only rows that something selects by age need one.  The recovery loop
\* measures a listed row's age when it turns to it.
TimePasses ==
  /\ age' = [o \in Order |-> IF Recoverable(o) \/ attempt[o].status = "preparing"
                               THEN Older(age[o]) ELSE age[o]]
  /\ recovery' = [recovery EXCEPT !.rows =
       {IF r.order = check[Recovery].order THEN r ELSE [r EXCEPT !.age = Older(@)] : r \in @}]
  /\ UNCHANGED <<attempt, handler, check, route, halts, record, world>>

\* The process dies and restarts on the same database.
Crash ==
  /\ crashes < MaxCrashes
  /\ crashes' = crashes + 1
  /\ handler' = [h \in Handler |-> IdleHandler]
  /\ check' = [a \in Agent |-> NoCheck]
  /\ recovery' = [pc |-> "idle", rows |-> {}]
  /\ route' = {}
  /\ UNCHANGED <<row, halts, record, venue, sends, booked>>

-----------------------------------------------------------------------------
\* A stretch without an await is under way; nothing else in the process runs.
Uninterrupted == \E h \in Handler : handler[h].pc \in {"confirmed", "booked"}
Listing == recovery.pc = "listing" /\ recovery.rows # {}
Awaiting == ~Uninterrupted /\ ~Listing

Booking(h) == BookLot(h) \/ MarkAccounted(h)

HandlerStep(h) ==
  \/ \E o \in Order : Claim(h, o)
  \/ \E class \in ErrorClasses : PrepareFails(h, class) \/ SubmissionFails(h, class)
  \/ BeginSubmission(h) \/ Send(h) \/ OnSubmitted(h) \/ AdapterReturns(h) \/ Confirm(h)

CheckStep(a) ==
  \/ ExternalConfirmed(a) \/ ExternalUnaccounted(a) \/ ExternalPending(a)
  \/ ExternalTerminal(a) \/ PortfolioPasses(a) \/ CheckThrows(a)
  \/ \E transient \in BOOLEAN :
       \/ ExternalError(a, transient) \/ PortfolioFails(a, transient)
       \/ a = Recovery /\ \E r \in recovery.rows : RecoveryOverdue(r, transient)

LoopStep ==
  \E r \in recovery.rows : RecoverySkips(r) \/ RecoveryGivesUp(r) \/ RecoveryChecks(r)

TickStep ==
  RecoveryStart \/ TickEnds \/ \E healthy \in BOOLEAN : ProbeEnds(healthy)

OperatorStep ==
  \/ HaltTrading \/ ResetCircuitBreaker
  \/ \E c \in Chain : OperatorLists(c)
  \/ \E o \in Order : OperatorReconciles(o) \/ ExpirePreparing(o)
  \/ \E c \in Chain, status \in {"passed", "failed"} : ReconcilePortfolio(c, status)

WorldStep ==
  TimePasses \/ \E o \in Order, verdict \in {"filled", "rejected"} : VenueDecides(o, verdict)

Next ==
  \/ \E h \in Handler : Booking(h)
  \/ Crash \/ WorldStep
  \/ ~Uninterrupted /\ LoopStep
  \/ Awaiting /\ \/ \E h \in Handler : HandlerStep(h)
                 \/ \E a \in Agent : CheckStep(a)
                 \/ TickStep \/ OperatorStep

Spec == Init /\ [][Next]_vars

\* Time passes, the tick's timer fires, and every call that the tick or a
\* handler awaits while reconciling ends, with an answer or a timeout, however
\* often the process is busy elsewhere.
Fairness ==
  /\ WF_vars(TimePasses)
  /\ \A h \in Handler : WF_vars(Booking(h))
  /\ \A a \in Agent : SF_vars(Awaiting /\ CheckStep(a))
  /\ WF_vars(~Uninterrupted /\ LoopStep)
  /\ WF_vars(Awaiting /\ TickStep)

FairSpec == Spec /\ Fairness

-----------------------------------------------------------------------------
(* Properties                                                               *)

\* Every variable stays in the values the code can give it.
TypeOK ==
  /\ attempt \in [Order -> Row]
  /\ age \in [Order -> 0..2]
  /\ handler \in [Handler -> HandlerState]
  /\ check \in [Agent -> CheckState]
  /\ recovery \in TickState
  /\ route \subseteq Order
  /\ breaker \in BreakerState
  /\ stopped \in BOOLEAN
  /\ record \in [Chain -> RecordState]
  /\ venue \in [Order -> {"unsent", "open", "filled", "rejected"}]
  /\ sends \in [Order -> Nat]
  /\ booked \in [Order -> Nat]
  /\ crashes \in 0..MaxCrashes

\* No order is put on the wire twice, across concurrent handlers, recovery,
\* retries by the operator and restarts: what claimExecutionAttempt and
\* runLiveSubmission's status check are for.
AtMostOneSubmission == \A o \in Order : sends[o] <= 1

\* Only a filled order changes the lots, and only once.
FillBookedOnce ==
  \A o \in Order : booked[o] <= 1 /\ (booked[o] = 1 => venue[o] = "filled")

\* A row that says "applied" has its lot, even if the process died between
\* the three accounting writes.
AccountedMeansBooked ==
  \A o \in Order : attempt[o].accounting = "applied" => booked[o] = 1

\* A row reported confirmed and reconciled has its fill in the lots: neither
\* the recovery of a crashed handler nor an answer that arrives after the row
\* changed may pass an unaccounted fill.
ReconciledMeansBooked ==
  \A o \in Order :
    attempt[o].status = "confirmed" /\ attempt[o].reconciliation = "passed"
      => booked[o] = 1

\* Two handlers never work on the same order.
OneHandlerPerOrder ==
  \A g, h \in Handler :
    g # h /\ handler[g].pc # "idle" => handler[g].order # handler[h].order

\* The inductive invariant: what a suspended handler, a row, a verdict and a
\* call in progress each imply about the order on the network and its lots.
HandlerInv ==
  \A h \in Handler : handler[h].pc # "idle" =>
    LET o == handler[h].order
        pc == handler[h].pc IN
    /\ attempt[o].status # "absent"
    /\ pc \in {"preparing", "submitting", "referenced"} => venue[o] = "unsent"
    /\ pc \in {"sent", "awaiting"} => venue[o] # "unsent" /\ booked[o] = 0
    /\ pc \in {"filled", "confirmed"} => venue[o] = "filled" /\ booked[o] = 0
    /\ pc = "booked" => booked[o] = 1

OrderInv ==
  \A o \in Order :
    /\ sends[o] = IF venue[o] = "unsent" THEN 0 ELSE 1
    /\ booked[o] = 0 \/ (booked[o] = 1 /\ venue[o] = "filled")
    /\ attempt[o].status = "absent" => venue[o] = "unsent"
    /\ attempt[o].accounting = "applied" => booked[o] = 1

\* Nothing was filled and no handler can still send it.
NoFill(o) ==
  \/ venue[o] = "rejected"
  \/ venue[o] = "unsent" /\ \A h \in Handler : handler[h].order # o

VerdictInv ==
  \A o \in Order : attempt[o].reconciliation = "passed" =>
    \/ attempt[o].status = "confirmed" /\ booked[o] = 1
    \/ attempt[o].status \in {"failed", "filtered"} /\ NoFill(o)

CallInv ==
  /\ \A a \in Agent : /\ check[a].applied => booked[check[a].order] = 1
                      /\ check[a].stage = "portfolio" => check[a].applied
  /\ \A o \in route : attempt[o].accounting = "applied"

IInv ==
  TypeOK /\ OneHandlerPerOrder /\ HandlerInv /\ OrderInv /\ VerdictInv /\ CallInv

\* A reconciliation verdict that turns to "failed" leaves the breaker halted,
\* whoever reaches it (reconcileAfterLiveExecution, recoverPendingLiveExecutions).
FailedVerdictHalts ==
  [][\A o \in Order :
       attempt[o].reconciliation # "failed" /\ attempt'[o].reconciliation = "failed"
         => breaker'.kind # "none"]_vars

\* The lifecycle, however interleaved, is a ledger of orders.
LedgerOrder(o) ==
  IF sends[o] > 1 \/ booked[o] > 1 THEN "duplicated"
  ELSE IF booked[o] = 1 THEN "booked" ELSE venue[o]
LedgerVerdict(o) ==
  CASE attempt[o].reconciliation # "passed" -> "none"
    [] attempt[o].reconciliation = "passed" /\ attempt[o].status = "confirmed" -> "settled"
    [] OTHER -> "closed"
Ledger == INSTANCE OrderLedger WITH
            order <- [o \in Order |-> LedgerOrder(o)],
            verdict <- [o \in Order |-> LedgerVerdict(o)]
ImplementsLedger == Ledger!Spec

\* No attempt stays "submitting": its handler moves on or the recovery loop
\* gives it up, also after a crash.
SubmittingResolves ==
  \A o \in Order : attempt[o].status = "submitting" ~> attempt[o].status # "submitting"

\* Every accounted fill gets a reconciliation verdict.
AccountedGetsVerdict ==
  \A o \in Order :
    attempt[o].accounting = "applied" ~> attempt[o].reconciliation # "pending"

\* The tick does not lift a halt the operator asked for on the strength of a
\* reconciliation: "manual and operational halts are not lifted by a
\* reconciliation result" (tests/circuit-breaker-recovery.test.ts).
ReconciliationKeepsOperatorHalt == [][stopped /\ TickEnds => breaker' = breaker]_vars

\* A fill that no handler works on any more and that no lot records stays
\* visible as pending or unresolved, so that live-readiness reports it.
FillNeverForgotten ==
  \A o \in Order :
    venue[o] = "filled" /\ booked[o] = 0 /\ (\A h \in Handler : handler[h].order # o)
      => Recoverable(o) \/ Unresolved(o)

===============================================================================
