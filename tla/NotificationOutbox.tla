-------------------------- MODULE NotificationOutbox --------------------------
(***************************************************************************)
(* Events and their delivery to Telegram: publishEvent                     *)
(* (lib/services/audit-service.ts), the outbox table and                   *)
(* lib/services/notification-outbox.ts.  An event is delivered at once by  *)
(* the call that published it, and again by the flush that the heartbeat   *)
(* and the maintenance tick start, until Telegram has taken all of its     *)
(* messages, refuses it for good, or the attempts are used up.             *)
(*                                                                         *)
(* next_attempt_at is reduced to whether it has come (wait); the flush     *)
(* takes every row that is due, not the first twenty.                      *)
(***************************************************************************)
EXTENDS Naturals, FiniteSets

CONSTANTS
  Event,
  Flush,         \* the agent that is the pending flush of the process
  Messages,      \* how many messages an event takes (topics, long texts)
  MaxAttempts,   \* shouldDeadLetterNotification's limit
  MaxEnds        \* bound: the process ends so often

ASSUME OutboxAssumption ==
  /\ Flush \notin Event
  /\ Messages \in [Event -> Nat \ {0}]
  /\ MaxAttempts \in Nat \ {0}
  /\ MaxEnds \in Nat

VARIABLES
  stored,      \* the events table
  row,         \* notification_outbox, by event
  call,        \* publishEvent and flush: where each is suspended
  queue,       \* the rows the flush has listed and not come to
  configured,  \* are the token and the chat configured?
  got,         \* how often Telegram has taken each message of an event
  skipped,     \* events handled while nothing was configured
  ends

outboxVars == <<stored, row, call, queue, configured, got, skipped, ends>>
sent == <<got, skipped>>

Agent == Event \cup {Flush}

NoRow == [status |-> "none", attempts |-> 0, error |-> "none", wait |-> FALSE]
Resting == [pc |-> "none", event |-> Flush, attempts |-> 0, part |-> 0]

OutboxInit ==
  /\ stored = {}
  /\ row = [e \in Event |-> NoRow]
  /\ call = [g \in Agent |-> Resting]
  /\ queue = {}
  /\ configured \in BOOLEAN
  /\ got = [e \in Event |-> [m \in 1..Messages[e] |-> 0]]
  /\ skipped = {}
  /\ ends = 0

-----------------------------------------------------------------------------
\* shouldDeadLetterNotification
DeadLetter(error, attempts) == attempts >= MaxAttempts \/ error = "permanent"

\* markNotificationSent, -Retry and -Dead change a pending row only.
Mark(e, status, error, wait) ==
  row' = IF row[e].status = "pending"
         THEN [row EXCEPT ![e] = [status |-> status, attempts |-> @.attempts + 1,
                                  error |-> error, wait |-> wait]]
         ELSE row

Rest(g) == call' = [call EXCEPT ![g] = Resting]

\* publishEvent inserts the event once; for a transaction its identity is the
\* transaction's, so that a second publication of it ends here.
InsertEvent(e) ==
  /\ e \notin stored
  /\ stored' = stored \cup {e}
  /\ call' = [call EXCEPT ![e] = [Resting EXCEPT !.pc = "inserted", !.event = e]]
  /\ UNCHANGED <<row, queue, configured, sent, ends>>

\* The next statement of the same stretch.
EnqueueNotification(e) ==
  /\ call[e].pc = "inserted"
  /\ row' = [row EXCEPT ![e] = [NoRow EXCEPT !.status = "pending"]]
  /\ call' = [call EXCEPT ![e].pc = "deliver"]
  /\ UNCHANGED <<stored, queue, configured, sent, ends>>

-----------------------------------------------------------------------------
(* deliverNotification, by the publisher or by the flush                    *)

\* The row is read; what it says of earlier attempts is what this one knows.
BeginDelivery(g) ==
  LET e == call[g].event IN
  /\ call[g].pc = "deliver"
  /\ row[e].status = "pending"
  /\ ~DeadLetter(row[e].error, row[e].attempts)
  /\ configured
  /\ call' = [call EXCEPT ![g] = [@ EXCEPT !.pc = "sending", !.attempts = row[e].attempts,
                                           !.part = 1]]
  /\ UNCHANGED <<stored, row, queue, configured, got, skipped, ends>>

NothingToDeliver(g) ==
  /\ call[g].pc = "deliver"
  /\ row[call[g].event].status # "pending"
  /\ Rest(g)
  /\ UNCHANGED <<stored, row, queue, configured, sent, ends>>

GivesUp(g) ==
  LET e == call[g].event IN
  /\ call[g].pc = "deliver"
  /\ row[e].status = "pending"
  /\ DeadLetter(row[e].error, row[e].attempts)
  /\ Mark(e, "dead", row[e].error, FALSE)
  /\ Rest(g)
  /\ UNCHANGED <<stored, queue, configured, sent, ends>>

\* Without a token or a chat, send() returns and the row counts as sent.
NotConfigured(g) ==
  LET e == call[g].event IN
  /\ call[g].pc = "deliver"
  /\ row[e].status = "pending"
  /\ ~DeadLetter(row[e].error, row[e].attempts)
  /\ ~configured
  /\ skipped' = skipped \cup {e}
  /\ Mark(e, "sent", "none", FALSE)
  /\ Rest(g)
  /\ UNCHANGED <<stored, queue, configured, got, ends>>

\* Telegram takes one message of the event.
MessageSent(g) ==
  LET e == call[g].event IN
  /\ call[g].pc = "sending"
  /\ call[g].part \in 1..Messages[e]
  /\ got' = [got EXCEPT ![e][call[g].part] = @ + 1]
  /\ call' = [call EXCEPT ![g].part = @ + 1]
  /\ UNCHANGED <<stored, row, queue, configured, skipped, ends>>

\* Fault: the row is marked after the first message.
MarkSentEarly(g) ==
  LET e == call[g].event IN
  /\ call[g].pc = "sending"
  /\ call[g].part = 2
  /\ Mark(e, "sent", "none", FALSE)
  /\ Rest(g)
  /\ UNCHANGED <<stored, queue, configured, sent, ends>>

MarkSent(g) ==
  LET e == call[g].event IN
  /\ call[g].pc = "sending"
  /\ call[g].part = Messages[e] + 1
  /\ Mark(e, "sent", "none", FALSE)
  /\ Rest(g)
  /\ UNCHANGED <<stored, queue, configured, sent, ends>>

\* It does not, or its answer is lost.  What was sent before is sent again.
SendFails(g, error) ==
  LET e == call[g].event IN
  /\ call[g].pc = "sending"
  /\ call[g].part \in 1..Messages[e]
  /\ IF DeadLetter(error, call[g].attempts + 1)
     THEN Mark(e, "dead", error, FALSE)
     ELSE Mark(e, "pending", error, TRUE)
  /\ Rest(g)
  /\ UNCHANGED <<stored, queue, configured, got, skipped, ends>>

-----------------------------------------------------------------------------
(* flushNotificationOutbox: one flush at a time                             *)

\* Fault: a row that has failed once is not listed again.
DueOnce == {e \in Event : row[e].status = "pending" /\ row[e].attempts = 0}

Due == {e \in Event : row[e].status = "pending" /\ ~row[e].wait}

StartFlush ==
  /\ call[Flush].pc = "none"
  /\ queue = {}
  /\ Due # {}
  /\ queue' = Due
  /\ UNCHANGED <<stored, row, call, configured, sent, ends>>

FlushNext(e) ==
  /\ call[Flush].pc = "none"
  /\ e \in queue
  /\ queue' = queue \ {e}
  /\ call' = [call EXCEPT ![Flush] = [Resting EXCEPT !.pc = "deliver", !.event = e]]
  /\ UNCHANGED <<stored, row, configured, sent, ends>>

\* next_attempt_at comes.
BecomesDue(e) ==
  /\ row[e].wait
  /\ row' = [row EXCEPT ![e].wait = FALSE]
  /\ UNCHANGED <<stored, call, queue, configured, sent, ends>>

Configure ==
  /\ configured' = ~configured
  /\ UNCHANGED <<stored, row, call, queue, sent, ends>>

\* The process ends at any point; calls and the flush are gone.
DeliveryRestarts ==
  /\ ends < MaxEnds
  /\ ends' = ends + 1
  /\ call' = [g \in Agent |-> Resting]
  /\ queue' = {}
  /\ UNCHANGED <<stored, row, configured, sent>>

Deliver(g) ==
  \/ BeginDelivery(g) \/ NothingToDeliver(g) \/ GivesUp(g) \/ NotConfigured(g)
  \/ MessageSent(g) \/ MarkSent(g)
  \/ \E error \in {"transient", "permanent"} : SendFails(g, error)

FlushStep == StartFlush \/ \E e \in Event : FlushNext(e) \/ BecomesDue(e)

OutboxNext ==
  \/ \E e \in Event : InsertEvent(e) \/ EnqueueNotification(e)
  \/ \E g \in Agent : Deliver(g)
  \/ FlushStep \/ Configure \/ DeliveryRestarts

OutboxSpec == OutboxInit /\ [][OutboxNext]_outboxVars

\* The heartbeat starts a flush every 30 s, time passes, calls end.
OutboxFairness ==
  /\ \A g \in Agent : WF_outboxVars(Deliver(g))
  /\ \A e \in Event : WF_outboxVars(EnqueueNotification(e)) /\ WF_outboxVars(FlushNext(e))
                      /\ WF_outboxVars(BecomesDue(e))
  /\ WF_outboxVars(StartFlush)
OutboxFairSpec == OutboxSpec /\ OutboxFairness

-----------------------------------------------------------------------------
OutboxTypeOK ==
  /\ stored \subseteq Event
  /\ row \in [Event -> [status : {"none", "pending", "sent", "dead"}, attempts : Nat,
                        error : {"none", "transient", "permanent"}, wait : BOOLEAN]]
  /\ call \in [Agent -> [pc : {"none", "inserted", "deliver", "sending"}, event : Agent,
                         attempts : Nat, part : Nat]]
  /\ \A g \in Agent : call[g].pc # "none" => call[g].event \in Event
  /\ queue \subseteq Event
  /\ configured \in BOOLEAN
  /\ got \in [Event -> UNION {[1..n -> Nat] : n \in {Messages[e] : e \in Event}}]
  /\ skipped \subseteq Event
  /\ ends \in Nat

\* A row marked sent has had every message taken by Telegram, unless nothing was
\* configured: partial deliveries of the publisher and of the flush do not add
\* up to one.
SentMeansComplete ==
  \A e \in Event : row[e].status = "sent" =>
    e \in skipped \/ \A m \in 1..Messages[e] : got[e][m] > 0

\* What is in the outbox is delivered or given up.
OutboxDrains ==
  \A e \in Event : []<>(row[e].status # "pending")

===============================================================================
