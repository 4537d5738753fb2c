------------------------ MODULE OperatorServicesProofs ------------------------
(***************************************************************************)
(* Theorems on the operator's side: the outbox of the notifications and    *)
(* the commands from the Telegram chat.                                    *)
(***************************************************************************)
EXTENDS NotificationOutbox, TelegramCommands, TLAPS

-----------------------------------------------------------------------------
(***************************************************************************)
(* A notification that is marked sent was taken by Telegram as a whole,    *)
(* for any number of events, of messages and of restarts.                  *)
(*                                                                         *)
(* What makes it inductive: a delivery under way, the publisher's or the   *)
(* flush's, has itself sent every message before the one it is at.  That   *)
(* the publisher sent some and the flush others never counts, since each   *)
(* begins with the first.                                                  *)
(***************************************************************************)

CallRecord == [pc : {"none", "inserted", "deliver", "sending"}, event : Agent, attempts : Nat, part : Nat]
RowRecord == [status : {"none", "pending", "sent", "dead"}, attempts : Nat,
              error : {"none", "transient", "permanent"}, wait : BOOLEAN]

Complete(e) == e \in skipped \/ \A m \in 1..Messages[e] : got[e][m] > 0

\* What an agent has sent by the time it is at a part.
HasSent(c) ==
  /\ c.pc # "none" => c.event \in Event
  /\ c.pc = "sending" => \A m \in 1..Messages[c.event] : m < c.part => got[c.event][m] > 0

OutboxType ==
  /\ call \in [Agent -> CallRecord]
  /\ row \in [Event -> RowRecord]
  /\ queue \subseteq Event
  /\ DOMAIN got = Event
  /\ \A e \in Event : got[e] \in [1..Messages[e] -> Nat]

OutboxInv ==
  /\ OutboxType
  /\ \A g \in Agent : HasSent(call[g])
  /\ SentMeansComplete

-----------------------------------------------------------------------------
LEMMA RestingRecord == Resting \in CallRecord /\ HasSent(Resting)
  BY DEF Resting, CallRecord, HasSent, Agent

\* An agent goes on, and nothing more is sent.
LEMMA AgentGoesOn ==
  ASSUME OutboxInv, NEW g \in Agent, NEW c \in CallRecord, HasSent(c),
         call' = [call EXCEPT ![g] = c], UNCHANGED <<row, got, skipped>>, queue' \subseteq Event
  PROVE  OutboxInv'
  BY DEF OutboxInv, OutboxType, HasSent, SentMeansComplete

\* A row is marked: "sent" only if all of the event was taken, or nothing was
\* configured.
LEMMA MarkedRow ==
  ASSUME OutboxInv, NEW e \in Event, NEW status \in {"pending", "sent", "dead"},
         NEW error \in {"none", "transient", "permanent"}, NEW wait \in BOOLEAN,
         Mark(e, status, error, wait), NEW g \in Agent, Rest(g),
         UNCHANGED <<queue, got>>, skipped \subseteq skipped',
         status = "sent" => Complete(e)'
  PROVE  OutboxInv'
<1>1. row' \in [Event -> RowRecord] /\ \A x \in Event : row'[x].status = "sent" =>
                                          row[x].status = "sent" \/ (x = e /\ status = "sent")
  <2>1. PICK w \in RowRecord : w = row[e]
    BY DEF OutboxInv, OutboxType
  <2>. DEFINE marked == [status |-> status, attempts |-> w.attempts + 1, error |-> error, wait |-> wait]
  <2>2. marked \in RowRecord
    BY DEF RowRecord
  <2>3. row' = row \/ row' = [row EXCEPT ![e] = marked]
    BY <2>1 DEF Mark, OutboxInv, OutboxType
  <2>4. row \in [Event -> RowRecord]
    BY DEF OutboxInv, OutboxType
  <2>5. marked.status = status
    OBVIOUS
  <2>. HIDE DEF marked
  <2>. QED
    BY <2>2, <2>3, <2>4, <2>5
<1>2. SentMeansComplete'
  BY <1>1 DEF OutboxInv, SentMeansComplete, Complete
<1>3. call' \in [Agent -> CallRecord] /\ \A x \in Agent : HasSent(call[x])'
  BY RestingRecord DEF Rest, OutboxInv, OutboxType, HasSent, Resting
<1>. QED
  BY <1>1, <1>2, <1>3 DEF OutboxInv, OutboxType

LEMMA PublishStep ==
  ASSUME OutboxInv, NEW e \in Event, InsertEvent(e) \/ EnqueueNotification(e)
  PROVE  OutboxInv'
<1>1. CASE InsertEvent(e)
  <2>. DEFINE c == [Resting EXCEPT !.pc = "inserted", !.event = e]
  <2>1. c \in CallRecord /\ HasSent(c) /\ e \in Agent
    BY DEF Resting, CallRecord, HasSent, Agent
  <2>. QED
    BY <1>1, <2>1, AgentGoesOn DEF InsertEvent, sent, OutboxInv, OutboxType
<1>2. CASE EnqueueNotification(e)
  <2>1. row' \in [Event -> RowRecord] /\ row'[e].status = "pending"
        /\ \A x \in Event \ {e} : row'[x] = row[x]
    BY <1>2 DEF EnqueueNotification, NoRow, RowRecord, OutboxInv, OutboxType
  <2>2. UNCHANGED <<queue, got, skipped>>
    BY <1>2 DEF EnqueueNotification, sent
  <2>3. PICK c \in CallRecord : c = call[e]
    BY DEF OutboxInv, OutboxType, Agent
  <2>. DEFINE d == [c EXCEPT !.pc = "deliver"]
  <2>4. d \in CallRecord /\ call' = [call EXCEPT ![e] = d] /\ c.pc = "inserted" /\ HasSent(c)
    BY <1>2, <2>3 DEF EnqueueNotification, CallRecord, OutboxInv, OutboxType, Agent
  <2>5. HasSent(d)
    BY <2>3, <2>4 DEF CallRecord, HasSent
  <2>6. call' \in [Agent -> CallRecord] /\ \A x \in Agent : HasSent(call[x])'
    BY <2>2, <2>4, <2>5 DEF HasSent, OutboxInv, OutboxType
  <2>. QED
    BY <2>1, <2>2, <2>6 DEF OutboxInv, OutboxType, SentMeansComplete
<1>. QED
  BY <1>1, <1>2

LEMMA DeliverStep ==
  ASSUME OutboxInv, NEW g \in Agent, Deliver(g)
  PROVE  OutboxInv'
<1>1. PICK c \in CallRecord : c = call[g] /\ HasSent(c)
  BY DEF OutboxInv, OutboxType
<1>. DEFINE e == c.event
<1>2. CASE BeginDelivery(g)
  <2>1. PICK n : n = row[e].attempts
    OBVIOUS
  <2>2. n \in Nat /\ c.pc = "deliver" /\ e \in Event
    BY <1>1, <1>2, <2>1 DEF BeginDelivery, HasSent, OutboxInv, OutboxType, RowRecord
  <2>. DEFINE d == [c EXCEPT !.pc = "sending", !.attempts = n, !.part = 1]
  <2>3. d \in CallRecord
    BY <2>2 DEF CallRecord
  <2>4. HasSent(d)
    BY <2>2 DEF CallRecord, HasSent
  <2>5. call' = [call EXCEPT ![g] = d]
    BY <1>1, <1>2, <2>1 DEF BeginDelivery, OutboxInv, OutboxType
  <2>. QED
    BY <1>2, <2>3, <2>4, <2>5, AgentGoesOn DEF BeginDelivery, OutboxInv, OutboxType
<1>3. CASE NothingToDeliver(g)
  BY <1>3, RestingRecord, AgentGoesOn DEF NothingToDeliver, Rest, sent, OutboxInv, OutboxType
<1>4. CASE GivesUp(g)
  <2>1. e \in Event /\ row[e].error \in {"none", "transient", "permanent"}
    BY <1>1, <1>4 DEF GivesUp, HasSent, OutboxInv, OutboxType, RowRecord
  <2>2. /\ Mark(e, "dead", row[e].error, FALSE) /\ Rest(g)
        /\ UNCHANGED <<queue, got, skipped>>
    BY <1>1, <1>4 DEF GivesUp, sent
  <2>3. PICK error \in {"none", "transient", "permanent"} : error = row[e].error
    BY <2>1
  <2>. QED
    BY <2>1, <2>2, <2>3, MarkedRow
<1>5. CASE NotConfigured(g)
  <2>1. e \in Event /\ Mark(e, "sent", "none", FALSE) /\ Rest(g)
        /\ UNCHANGED <<queue, got>> /\ skipped' = skipped \cup {e}
    BY <1>1, <1>5 DEF NotConfigured, HasSent
  <2>. QED
    BY <2>1, MarkedRow DEF Complete
<1>6. CASE MessageSent(g)
  <2>1. /\ c.pc = "sending" /\ e \in Event /\ c.part \in 1..Messages[e]
        /\ got' = [got EXCEPT ![e][c.part] = @ + 1]
        /\ call' = [call EXCEPT ![g].part = @ + 1]
        /\ UNCHANGED <<row, queue, skipped>>
    BY <1>1, <1>6 DEF MessageSent, HasSent
  <2>0. PICK taken : taken = got[e]
    OBVIOUS
  <2>. DEFINE more == [taken EXCEPT ![c.part] = taken[c.part] + 1]
  <2>8. taken \in [1..Messages[e] -> Nat] /\ got' = [got EXCEPT ![e] = more]
    BY <2>0, <2>1 DEF OutboxInv, OutboxType
  <2>9. more \in [1..Messages[e] -> Nat] /\ \A m \in 1..Messages[e] : taken[m] > 0 => more[m] > 0
    BY <2>1, <2>8
  <2>2. DOMAIN got' = Event /\ \A x \in Event : got'[x] \in [1..Messages[x] -> Nat]
    BY <2>1, <2>8, <2>9 DEF OutboxInv, OutboxType
  <2>3. \A x \in Event : \A m \in 1..Messages[x] : got[x][m] > 0 => got'[x][m] > 0
    BY <2>0, <2>1, <2>8, <2>9 DEF OutboxInv, OutboxType
  <2>4. got'[e][c.part] > 0
    <3>1. taken[c.part] \in Nat /\ more[c.part] = taken[c.part] + 1
      BY <2>1, <2>8
    <3>2. got'[e] = more
      BY <2>1, <2>8 DEF OutboxInv, OutboxType
    <3>. QED
      BY <3>1, <3>2
  <2>5. \A x \in Agent : HasSent(call[x]) => HasSent(call[x])'
    <3>1. ASSUME NEW x \in Agent, x # g, HasSent(call[x]) PROVE HasSent(call[x])'
      BY <2>1, <2>3, <3>1 DEF HasSent, OutboxInv, OutboxType
    <3>2. call'[g] = [c EXCEPT !.part = c.part + 1]
      BY <1>1, <2>1 DEF OutboxInv, OutboxType
    <3>3. \A m \in 1..Messages[e] : m < c.part + 1 => got'[e][m] > 0
      <4>1. Messages[e] \in Nat
        BY <2>1, OutboxAssumption
      <4>. QED
        BY <1>1, <2>1, <2>3, <2>4, <4>1 DEF HasSent, CallRecord
    <3>4. HasSent(call[g])'
      BY <2>1, <3>2, <3>3 DEF HasSent, CallRecord
    <3>. QED
      BY <3>1, <3>4
  <2>6. call' \in [Agent -> CallRecord]
    <3>1. [c EXCEPT !.part = c.part + 1] \in CallRecord
      BY DEF CallRecord
    <3>2. call' = [call EXCEPT ![g] = [c EXCEPT !.part = c.part + 1]]
      BY <1>1, <2>1 DEF OutboxInv, OutboxType
    <3>. QED
      BY <3>1, <3>2 DEF OutboxInv, OutboxType
  <2>7. SentMeansComplete'
    BY <2>1, <2>3 DEF OutboxInv, SentMeansComplete
  <2>. QED
    BY <2>1, <2>2, <2>5, <2>6, <2>7 DEF OutboxInv, OutboxType
<1>7. CASE MarkSent(g)
  <2>1. /\ c.pc = "sending" /\ e \in Event /\ c.part = Messages[e] + 1
        /\ Mark(e, "sent", "none", FALSE) /\ Rest(g) /\ UNCHANGED <<queue, got, skipped>>
    BY <1>1, <1>7 DEF MarkSent, sent, HasSent
  <2>2. Messages[e] \in Nat
    BY <2>1, OutboxAssumption
  <2>3. \A m \in 1..Messages[e] : got[e][m] > 0
    BY <1>1, <2>1, <2>2 DEF HasSent
  <2>4. Complete(e)'
    BY <2>1, <2>3 DEF Complete
  <2>. QED
    BY <2>1, <2>4, MarkedRow
<1>8. ASSUME NEW error \in {"transient", "permanent"}, SendFails(g, error) PROVE OutboxInv'
  <2>1. /\ e \in Event /\ Rest(g) /\ UNCHANGED <<queue, got, skipped>>
        /\ Mark(e, "dead", error, FALSE) \/ Mark(e, "pending", error, TRUE)
    BY <1>1, <1>8 DEF SendFails, HasSent
  <2>. QED
    BY <2>1, MarkedRow
<1>. QED
  BY <1>2, <1>3, <1>4, <1>5, <1>6, <1>7, <1>8 DEF Deliver

LEMMA FlushAndRestart ==
  ASSUME OutboxInv, FlushStep \/ Configure \/ DeliveryRestarts \/ UNCHANGED outboxVars
  PROVE  OutboxInv'
<1>1. CASE StartFlush
  BY <1>1 DEF StartFlush, Due, sent, OutboxInv, OutboxType, HasSent, SentMeansComplete
<1>2. ASSUME NEW e \in Event, FlushNext(e) PROVE OutboxInv'
  <2>. DEFINE c == [Resting EXCEPT !.pc = "deliver", !.event = e]
  <2>1. c \in CallRecord /\ HasSent(c) /\ Flush \in Agent
    BY DEF Resting, CallRecord, HasSent, Agent
  <2>. QED
    BY <1>2, <2>1, AgentGoesOn DEF FlushNext, sent, OutboxInv, OutboxType
<1>3. ASSUME NEW e \in Event, BecomesDue(e) PROVE OutboxInv'
  <2>1. row' \in [Event -> RowRecord] /\ \A x \in Event : row'[x].status = row[x].status
    <3>1. PICK w \in RowRecord : w = row[e]
      BY DEF OutboxInv, OutboxType
    <3>2. [w EXCEPT !.wait = FALSE] \in RowRecord /\ [w EXCEPT !.wait = FALSE].status = w.status
      BY DEF RowRecord
    <3>3. row' = [row EXCEPT ![e] = [w EXCEPT !.wait = FALSE]]
      BY <1>3, <3>1 DEF BecomesDue, OutboxInv, OutboxType
    <3>. QED
      BY <3>1, <3>2, <3>3 DEF OutboxInv, OutboxType
  <2>. QED
    BY <1>3, <2>1 DEF BecomesDue, sent, OutboxInv, OutboxType, HasSent, SentMeansComplete
<1>4. CASE Configure \/ UNCHANGED outboxVars
  BY <1>4 DEF Configure, outboxVars, sent, OutboxInv, OutboxType, HasSent, SentMeansComplete
<1>5. CASE DeliveryRestarts
  <2>1. call' \in [Agent -> CallRecord] /\ \A x \in Agent : HasSent(call[x])'
    BY <1>5, RestingRecord DEF DeliveryRestarts, HasSent, Resting
  <2>. QED
    BY <1>5, <2>1 DEF DeliveryRestarts, sent, OutboxInv, OutboxType, SentMeansComplete
<1>. QED
  BY <1>1, <1>2, <1>3, <1>4, <1>5 DEF FlushStep

\* A row marked sent has had every message taken by Telegram, unless nothing was
\* configured (notification-outbox.ts, deliverNotification): also when the
\* publisher and the flush deliver the same event at once, and each in part.
THEOREM SentWasComplete == OutboxSpec => []SentMeansComplete
<1>1. OutboxInit => OutboxInv
  BY RestingRecord
     DEF OutboxInit, NoRow, RowRecord, OutboxInv, OutboxType, SentMeansComplete, Resting, HasSent
<1>2. OutboxInv /\ [OutboxNext]_outboxVars => OutboxInv'
  BY PublishStep, DeliverStep, FlushAndRestart DEF OutboxNext
<1>3. OutboxInv => SentMeansComplete
  BY DEF OutboxInv
<1>. QED
  BY <1>1, <1>2, <1>3, PTL DEF OutboxSpec

-----------------------------------------------------------------------------
(***************************************************************************)
(* The Telegram commands order what the owner confirmed, and order it      *)
(* once, for any number of positions, updates, actions and restarts.       *)
(*                                                                         *)
(* An action that waits has never been touched: nothing was ordered for it *)
(* and the service has not come to a click of the owner on it.  Handling   *)
(* the first click ends the waiting for good, because an identifier is     *)
(* handed out once and what is consumed or forgotten never waits again, so *)
(* the click that started an execution is the first of them.               *)
(***************************************************************************)

USE TelegramAssumption

Update == [kind : Commands \cup Buttons, action : Nat, by : {"owner", "stranger"}, at : Nat]
BotPc == {"idle", "fetching", "batch", "preparing", "announcing", "executing", "replying"}
BotState == [pc : BotPc,
             upto : Nat, update : Nat, ids : SUBSET ActionId, parts : SUBSET Position]

TelegramType ==
  /\ chat \in Seq(Update)
  /\ acked \in Nat /\ offset \in Nat /\ minute \in Nat
  /\ bot \in BotState
  /\ held \in [ActionId -> {"absent", "waiting", "consumed"}]
  /\ action \in [ActionId -> [type : {"none", "confirm", "position"},
                              parts : SUBSET Position, deadline : Nat]]
  /\ lastId \in 0..MaxActions
  /\ orders \in [ActionId -> [Position -> Nat]]

\* What is known, shown or under way was handed out; a click is about what was shown,
\* and no update is from the future.
HandedOut ==
  /\ shown \subseteq 1..lastId /\ bot.ids \subseteq 1..lastId
  /\ bot.upto <= Len(chat) /\ Following <= Len(chat) + 1
  /\ \A u \in 1..Len(chat) :
       /\ chat[u].action <= lastId /\ chat[u].at <= minute
       /\ chat[u].kind \in Commands <=> chat[u].action = 0
  /\ \A a \in ActionId : held[a] # "absent" \/ Ordered(a) => a <= lastId

\* Of an action that waits nothing was ordered, and no click of the owner was handled.
WaitsUntouched(a) ==
  held[a] = "waiting" => ~Ordered(a) /\ \A u \in ClicksOn(a) : u >= Following

\* The first click decided for the order, in time.
ConfirmedBy(a, u) ==
  /\ u \in ClicksOn(a)
  /\ chat[u].kind = "confirm" /\ chat[u].at < action[a].deadline
  /\ \A v \in ClicksOn(a) : u <= v

\* What is being executed no longer waits, and what is left of it was not ordered yet.
ExecutesOnce ==
  bot.pc = "executing" =>
    \E a \in 1..lastId :
      /\ bot.ids = {a} /\ held[a] # "waiting"
      /\ \A p \in bot.parts : orders[a][p] = 0
      /\ ConfirmedBy(a, bot.update)

TelegramInv ==
  /\ TelegramType /\ HandedOut /\ ExecutesOnce
  /\ \A a \in ActionId : WaitsUntouched(a)
  /\ OneOrderPerConfirmation /\ OrderedAsConfirmed

-----------------------------------------------------------------------------
\* What the assignments to bot leave.
LEMMA BotAt ==
  ASSUME NEW b \in BotState, NEW pc \in BotPc
  PROVE  LET c == [b EXCEPT !.pc = pc] IN
           c \in BotState /\ c.pc = pc /\ c.upto = b.upto /\ c.ids = b.ids
BY DEF BotState, BotPc

LEMMA QuietState ==
  Quiet \in BotState /\ Quiet.pc = "idle" /\ Quiet.ids = {} /\ Quiet.upto = 0
BY DEF Quiet, BotState, BotPc

LEMMA FollowingType ==
  ASSUME TelegramType
  PROVE  Following \in Nat /\ Following >= 1 /\ Following > acked /\ Following >= offset
BY DEF TelegramType, Following, Larger

\* The numbers of the state, apart from its records.
LEMMA Numbers ==
  ASSUME TelegramInv
  PROVE  /\ acked \in Nat /\ offset \in Nat /\ minute \in Nat /\ Len(chat) \in Nat
         /\ lastId \in Nat /\ lastId <= MaxActions /\ MaxActions \in Nat
         /\ bot.upto \in Nat /\ bot.upto <= Len(chat)
         /\ Following \in Nat /\ Following >= 1 /\ Following <= Len(chat) + 1
<1>1. TelegramType /\ HandedOut
  BY DEF TelegramInv
<1>2. Following \in Nat /\ Following >= 1
  BY <1>1, FollowingType
<1>3. /\ acked \in Nat /\ offset \in Nat /\ minute \in Nat /\ lastId \in 0..MaxActions
      /\ MaxActions \in Nat
  BY <1>1 DEF TelegramType
<1>4. lastId \in Nat /\ lastId <= MaxActions
  BY <1>3
<1>5. chat \in Seq(Update)
  BY <1>1 DEF TelegramType
<1>6. Len(chat) \in Nat
  BY <1>5
<1>7. bot \in BotState
  BY <1>1 DEF TelegramType
<1>8. bot.upto \in Nat
  BY <1>7 DEF BotState
<1>9. bot.upto <= Len(chat) /\ Following <= Len(chat) + 1
  BY <1>1 DEF HandedOut
<1>. QED
  BY <1>2, <1>3, <1>4, <1>6, <1>8, <1>9

\* Its sets and tables.
LEMMA Tables ==
  ASSUME TelegramInv
  PROVE  /\ bot \in BotState /\ chat \in Seq(Update)
         /\ shown \subseteq 1..lastId /\ bot.ids \subseteq 1..lastId
         /\ held \in [ActionId -> {"absent", "waiting", "consumed"}]
  BY DEF TelegramInv, TelegramType, HandedOut

\* What is needed of the order of numbers, apart from all else.
LEMMA Ordering ==
  /\ \A n \in Nat : n >= n /\ n <= n + 1
  /\ \A m, n \in Nat : m <= n => m <= n + 1 /\ m + 1 <= n + 1
  /\ \A m, n \in Nat : n >= m /\ n # m => n >= m + 1
  /\ \A i, m, n \in Nat : i <= m /\ n >= m => i <= n
  /\ \A n \in Nat : \A i \in 1..n : i \in Nat /\ i <= n /\ i \in 1..(n + 1)
  /\ \A n \in Nat : \A i \in 1..(n + 1) : i \in 1..n \/ i = n + 1
  /\ \A n \in Nat : n + 1 \in 1..(n + 1)
OBVIOUS

\* Identifiers, and the next one.
LEMMA Identifiers ==
  ASSUME TelegramInv, NEW n, n \in 1..lastId \/ (n = lastId + 1 /\ lastId < MaxActions)
  PROVE  n \in ActionId /\ n \in Nat
<1>1. lastId \in Nat /\ lastId <= MaxActions /\ MaxActions \in Nat
  BY Numbers
<1>. QED
  BY <1>1 DEF ActionId

LEMMA UpdatesKnown ==
  ASSUME TelegramInv, NEW u \in 1..Len(chat)
  PROVE  /\ chat[u] \in Update /\ chat[u].action \in Nat /\ chat[u].at \in Nat
         /\ chat[u].action <= lastId /\ chat[u].at <= minute
<1>1. chat[u] \in Update
  BY DEF TelegramInv, TelegramType
<1>. QED
  BY <1>1 DEF Update, TelegramInv, HandedOut

\* Taking an update passes it.
LEMMA Takes ==
  ASSUME TelegramInv, NEW kinds, Take(kinds)
  PROVE  /\ Following \in 1..Len(chat) /\ Following \in Nat
         /\ offset' \in Nat /\ Following' = Following + 1
         /\ chat[Following] \in Update /\ chat[Following].kind \in kinds
         /\ bot.pc = "batch" /\ bot \in BotState
         /\ chat[Following].at <= minute /\ chat[Following].action <= lastId
<1>1. Following \in Nat /\ Following >= 1 /\ Following > acked /\ acked \in Nat
  BY FollowingType DEF TelegramInv, TelegramType
<1>2. bot.upto <= Len(chat) /\ bot.upto \in Nat /\ bot \in BotState
      /\ chat \in Seq(Update) /\ Len(chat) \in Nat
  BY Numbers, Tables
<1>3. Following <= bot.upto /\ bot.pc = "batch" /\ chat[Following].kind \in kinds
      /\ offset' = Following + 1 /\ acked' = acked
  BY DEF Take
<1>4. Following \in 1..Len(chat)
  BY <1>1, <1>2, <1>3
<1>5. Following' = Following + 1
  BY <1>1, <1>3 DEF Following, Larger
<1>. QED
  BY <1>1, <1>2, <1>3, <1>4, <1>5 DEF TelegramInv, HandedOut

\* A step that hands out nothing and orders nothing keeps the invariant when it makes
\* nothing wait and passes no click on what waits.
Calm ==
  /\ UNCHANGED <<chat, action, orders, lastId>>
  /\ minute' >= minute
  /\ shown' \subseteq 1..lastId /\ bot'.ids \subseteq 1..lastId
  /\ bot'.upto <= Len(chat) /\ Following' <= Len(chat) + 1
  /\ \A a \in ActionId :
       /\ held'[a] # "absent" => held[a] # "absent"
       /\ held'[a] = "waiting" =>
            /\ held[a] = "waiting"
            /\ \A u \in ClicksOn(a) : u >= Following => u >= Following'

LEMMA CalmKeeps ==
  ASSUME TelegramInv, Calm, TelegramType', ExecutesOnce'
  PROVE  TelegramInv'
<1>1. minute \in Nat /\ minute' \in Nat
  BY Numbers DEF TelegramType
<1>7. \A u \in 1..Len(chat) :
        /\ chat[u].action <= lastId /\ chat[u].at <= minute'
        /\ chat[u].kind \in Commands <=> chat[u].action = 0
  <2>1. ASSUME NEW u \in 1..Len(chat) PROVE chat[u].at <= minute'
    <3>1. chat[u].at \in Nat /\ chat[u].at <= minute /\ minute' >= minute
      BY UpdatesKnown DEF Calm
    <3>. QED
      BY <1>1, <3>1, Ordering
  <2>2. \A u \in 1..Len(chat) :
          chat[u].action <= lastId /\ (chat[u].kind \in Commands <=> chat[u].action = 0)
    BY DEF TelegramInv, HandedOut
  <2>. QED
    BY <2>1, <2>2
<1>8. \A a \in ActionId : held'[a] # "absent" \/ Ordered(a)' => a <= lastId
  BY DEF TelegramInv, HandedOut, Calm, Ordered
<1>3. HandedOut'
  BY <1>7, <1>8 DEF HandedOut, Calm
<1>4. \A a \in ActionId : WaitsUntouched(a)'
  BY DEF TelegramInv, WaitsUntouched, Calm, Ordered, ClicksOn
<1>5. OneOrderPerConfirmation' /\ OrderedAsConfirmed'
  BY DEF TelegramInv, OneOrderPerConfirmation, OrderedAsConfirmed, Calm, Ordered, ClicksOn
<1>. QED
  BY <1>3, <1>4, <1>5 DEF TelegramInv

\* The polling itself, and the ends of a handler.
LEMMA PollKeeps ==
  ASSUME TelegramInv,
         \/ FetchReturns \/ FetchFails \/ BatchDone \/ PrepareFails
         \/ Announced \/ AnnounceFails \/ Executed
  PROVE  TelegramInv'
<1>1. bot \in BotState
      /\ bot.ids \subseteq 1..lastId /\ bot.upto <= Len(chat)
      /\ Len(chat) \in Nat /\ minute \in Nat /\ shown \subseteq 1..lastId
  BY Numbers, Tables
<1>2. /\ bot' \in BotState /\ bot'.pc # "executing"
      /\ bot'.ids \subseteq 1..lastId /\ bot'.upto <= Len(chat)
      /\ shown' \subseteq 1..lastId
  <2>0. PICK b \in BotState : b = bot
    BY <1>1
  <2>1. CASE FetchReturns
    <3> DEFINE c == [b EXCEPT !.pc = "batch", !.upto = Len(chat)]
    <3>1. c \in BotState /\ c.pc = "batch" /\ c.ids = b.ids /\ c.upto = Len(chat)
      BY <1>1 DEF BotState, BotPc
    <3>2. bot' = c /\ shown' = shown
      BY <2>0, <2>1 DEF FetchReturns
    <3>. QED
      BY <1>1, <2>0, <3>1, <3>2
  <2>2. CASE FetchFails \/ BatchDone
    <3>1. bot' = Quiet /\ shown' = shown
      BY <2>2 DEF FetchFails, BatchDone
    <3>. QED
      BY <1>1, <3>1, QuietState
  <2>3. CASE PrepareFails \/ Executed
    <3>1. bot' = [bot EXCEPT !.pc = "replying"] /\ shown' = shown
      BY <2>3 DEF PrepareFails, Executed
    <3>. QED
      BY <1>1, <3>1, BotAt DEF BotPc
  <2>4. CASE Announced
    <3> DEFINE c == [b EXCEPT !.pc = "batch", !.update = 0, !.ids = {}, !.parts = {}]
    <3>1. c \in BotState /\ c.pc = "batch" /\ c.ids = {} /\ c.upto = b.upto
      BY DEF BotState, BotPc
    <3>2. bot' = c /\ shown' = shown \cup bot.ids
      BY <2>0, <2>4 DEF Announced, NextUpdate
    <3>. QED
      BY <1>1, <2>0, <3>1, <3>2
  <2>5. CASE AnnounceFails
    <3> DEFINE c == [b EXCEPT !.pc = "replying", !.ids = {}, !.parts = {}]
    <3>1. c \in BotState /\ c.pc = "replying" /\ c.ids = {} /\ c.upto = b.upto
      BY DEF BotState, BotPc
    <3>2. bot' \in {Quiet, c} /\ shown' \in {shown, shown \cup bot.ids}
      BY <2>0, <2>5 DEF AnnounceFails
    <3> HIDE DEF c
    <3>. QED
      BY <1>1, <2>0, <3>1, <3>2, QuietState
  <2>. QED
    BY <2>1, <2>2, <2>3, <2>4, <2>5
<1>3. UNCHANGED <<chat, acked, offset, held, action, lastId, orders, minute>>
  BY DEF FetchReturns, FetchFails, BatchDone, PrepareFails, Announced, AnnounceFails, Executed
<1>4. TelegramType'
  BY <1>2, <1>3 DEF TelegramInv, TelegramType
<1>5. Following' = Following
  BY <1>3 DEF Following, Larger
<1>6. Calm
  BY <1>1, <1>2, <1>3, <1>5 DEF Calm, TelegramInv, HandedOut
<1>7. ExecutesOnce'
  BY <1>2 DEF ExecutesOnce
<1>. QED
  BY <1>4, <1>6, <1>7, CalmKeeps

\* What is consumed or dropped does not wait; a restart drops everything.
LEMMA DropKeeps ==
  ASSUME TelegramInv, StartPoll \/ Replied \/ ReplyFails \/ BotRestarts
  PROVE  TelegramInv'
<1>1. /\ acked \in Nat /\ offset \in Nat /\ bot \in BotState
      /\ held \in [ActionId -> {"absent", "waiting", "consumed"}]
      /\ bot.ids \subseteq 1..lastId /\ bot.upto <= Len(chat) /\ Len(chat) \in Nat
      /\ minute \in Nat /\ shown \subseteq 1..lastId
  BY Numbers, Tables
<1>2. UNCHANGED <<chat, action, lastId, shown, orders, minute>>
  BY DEF StartPoll, Replied, ReplyFails, BotRestarts
<1>3. \E drop \in SUBSET ActionId :
        held' = [a \in ActionId |-> IF a \in drop THEN "absent" ELSE held[a]]
  <2>1. CASE StartPoll
    <3> DEFINE drop == {a \in ActionId : Expired(a) \/ held[a] = "consumed"}
    <3>1. held' = [a \in ActionId |-> IF a \in drop THEN "absent" ELSE held[a]]
      BY <2>1 DEF StartPoll
    <3>. QED
      BY <3>1
  <2>2. CASE Replied \/ ReplyFails
    <3> DEFINE drop == {a \in ActionId : a \in bot.ids}
    <3>1. held' = [a \in ActionId |-> IF a \in drop THEN "absent" ELSE held[a]]
      BY <2>2 DEF Replied, ReplyFails
    <3>. QED
      BY <3>1
  <2>3. CASE BotRestarts
    <3>1. held' = [a \in ActionId |-> IF a \in ActionId THEN "absent" ELSE held[a]]
      BY <2>3 DEF BotRestarts
    <3>. QED
      BY <3>1
  <2>. QED
    BY <2>1, <2>2, <2>3
<1>4. /\ held' \in [ActionId -> {"absent", "waiting", "consumed"}]
      /\ \A a \in ActionId : held'[a] \in {"absent", held[a]}
  BY <1>1, <1>3
<1>5. bot' \in BotState /\ bot'.pc # "executing" /\ bot'.ids = {} /\ bot'.upto <= Len(chat)
  <2>0. PICK b \in BotState : b = bot
    BY <1>1
  <2>1. CASE StartPoll
    <3>1. bot' = [Quiet EXCEPT !.pc = "fetching"]
      BY <2>1 DEF StartPoll
    <3>2. Quiet.upto = 0 /\ Quiet.ids = {} /\ "fetching" \in BotPc
      BY QuietState DEF BotPc
    <3>. QED
      BY <1>1, <3>1, <3>2, QuietState, BotAt
  <2>2. CASE Replied
    <3> DEFINE c == [b EXCEPT !.pc = "batch", !.update = 0, !.ids = {}, !.parts = {}]
    <3>1. c \in BotState /\ c.pc = "batch" /\ c.ids = {} /\ c.upto = b.upto
      BY DEF BotState, BotPc
    <3>2. bot' = c
      BY <2>0, <2>2 DEF Replied, NextUpdate
    <3>. QED
      BY <1>1, <2>0, <3>1, <3>2
  <2>3. CASE ReplyFails \/ BotRestarts
    <3>1. bot' = Quiet
      BY <2>3 DEF ReplyFails, BotRestarts
    <3>. QED
      BY <1>1, <3>1, QuietState
  <2>. QED
    BY <2>1, <2>2, <2>3
<1>12. acked \in Nat /\ offset \in Nat /\ Following <= Len(chat) + 1
  BY Numbers
<1>13. /\ offset' \in {0, offset} /\ (offset' = offset \/ BotRestarts)
       /\ acked' \in {acked, Larger(acked, offset - 1)} /\ (acked' = acked \/ StartPoll)
  BY DEF StartPoll, Replied, ReplyFails, BotRestarts
<1>6. acked' \in Nat /\ offset' \in Nat
  BY <1>12, <1>13 DEF Larger
<1>7. TelegramType'
  BY <1>2, <1>4, <1>5, <1>6 DEF TelegramInv, TelegramType
<1>8. /\ Following' = Following \/ \A a \in ActionId : held'[a] = "absent"
      /\ Following' <= Len(chat) + 1
  <2>4. Len(chat') = Len(chat) /\ Len(chat) \in Nat
    BY <1>2, Numbers
  <2>1. CASE StartPoll
    <3>1. acked' = IF offset = 0 THEN acked ELSE Larger(acked, offset - 1)
      BY <2>1 DEF StartPoll
    <3>2. offset' = offset
      BY <2>1 DEF StartPoll
    <3>3. Following' = Following
      BY <1>12, <3>1, <3>2 DEF Following, Larger
    <3>. QED
      BY <1>12, <2>4, <3>3
  <2>2. CASE Replied \/ ReplyFails
    <3>1. acked' = acked /\ offset' = offset
      BY <2>2 DEF Replied, ReplyFails
    <3>2. Following' = Following
      BY <3>1 DEF Following
    <3>. QED
      BY <1>12, <2>4, <3>2
  <2>3. CASE BotRestarts
    <3>1. acked' = acked /\ offset' = 0 /\ \A a \in ActionId : held'[a] = "absent"
      BY <2>3 DEF BotRestarts
    <3>2. Following' <= Following
      BY <1>12, <3>1 DEF Following, Larger
    <3>3. Following' \in Nat /\ Following \in Nat
      BY <1>12, <3>1 DEF Following, Larger
    <3>. QED
      BY <1>12, <2>4, <3>1, <3>2, <3>3
  <2>. QED
    BY <2>1, <2>2, <2>3
<1>9. Calm
  <2>1. minute' >= minute /\ shown' \subseteq 1..lastId /\ bot'.ids \subseteq 1..lastId
    BY <1>1, <1>2, <1>5
  <2>2. ASSUME NEW a \in ActionId
        PROVE  /\ held'[a] # "absent" => held[a] # "absent"
               /\ held'[a] = "waiting" => held[a] = "waiting"
    BY <1>4
  <2>3. ASSUME NEW a \in ActionId, held'[a] = "waiting" PROVE Following' = Following
    BY <1>8, <2>3
  <2>. QED
    BY <1>2, <1>5, <1>8, <2>1, <2>2, <2>3 DEF Calm
<1>10. ExecutesOnce'
  BY <1>5 DEF ExecutesOnce
<1>. QED
  BY <1>7, <1>9, <1>10, CalmKeeps

LEMMA TimeKeeps ==
  ASSUME TelegramInv, MinutePasses
  PROVE  TelegramInv'
<1>1. minute \in Nat /\ UNCHANGED <<chat, acked, offset, bot, held, action, lastId, shown, orders>>
      /\ minute' = minute + 1
  BY Numbers DEF MinutePasses
<1>2. TelegramType'
  <2>1. minute' \in Nat
    BY <1>1
  <2>. QED
    BY <1>1, <2>1 DEF TelegramInv, TelegramType
<1>3. Following' = Following
  BY <1>1 DEF Following, Larger
<1>4. Calm
  BY <1>1, <1>3 DEF Calm, TelegramInv, HandedOut
<1>6. \A a, u : ConfirmedBy(a, u) => ConfirmedBy(a, u)'
  BY <1>1 DEF ConfirmedBy, ClicksOn
<1>5. ExecutesOnce'
  BY <1>1, <1>6 DEF TelegramInv, ExecutesOnce
<1>. QED
  BY <1>2, <1>4, <1>5, CalmKeeps

\* A click is about an action shown, and comes after every update before it.
LEMMA PostKeeps ==
  ASSUME TelegramInv, NEW kind \in Commands \cup Buttons, NEW a \in {0} \cup shown,
         NEW by \in {"owner", "stranger"}, Post(kind, a, by), kind \in Commands <=> a = 0
  PROVE  TelegramInv'
<1> DEFINE u == [kind |-> kind, action |-> a, by |-> by, at |-> minute]
<1>1. /\ minute \in Nat /\ lastId \in Nat /\ acked \in Nat /\ offset \in Nat
      /\ chat \in Seq(Update) /\ Len(chat) \in Nat /\ shown \subseteq 1..lastId
      /\ bot \in BotState /\ action \in [ActionId -> [type : {"none", "confirm", "position"},
                              parts : SUBSET Position, deadline : Nat]]
  BY DEF TelegramInv, TelegramType, HandedOut
<1>14. a <= lastId /\ a \in Nat
  BY <1>1
<1>2. u \in Update /\ a <= lastId /\ a \in Nat
  BY <1>1, <1>14 DEF Update
<1>3. chat' = Append(chat, u)
      /\ UNCHANGED <<acked, offset, bot, held, action, lastId, shown, orders, minute>>
  BY DEF Post
<1> HIDE DEF u
<1>4. /\ chat' \in Seq(Update) /\ Len(chat') = Len(chat) + 1
      /\ \A n \in 1..Len(chat) : chat'[n] = chat[n]
      /\ chat'[Len(chat) + 1] = u
  BY <1>1, <1>2, <1>3
<1>15. /\ Len(chat) \in Nat /\ minute \in Nat /\ lastId \in Nat /\ Len(chat') = Len(chat) + 1
       /\ acked \in Nat /\ offset \in Nat /\ Following \in Nat /\ Following <= Len(chat) + 1
       /\ bot.upto \in Nat /\ bot.upto <= Len(chat)
  <2>1. Len(chat') = Len(chat) + 1
    BY <1>4
  <2>. QED
    BY <2>1, Numbers
<1>16. \A n \in 1..Len(chat) : chat'[n] = chat[n] /\ n \in 1..Len(chat')
  <2>1. \A n \in 1..Len(chat) : n \in 1..Len(chat')
    BY <1>15, Ordering
  <2>. QED
    BY <1>4, <2>1
<1>17. ASSUME NEW n \in 1..Len(chat') PROVE n \in 1..Len(chat) \/ n = Len(chat) + 1
  BY <1>15, Ordering
<1>18. UNCHANGED <<acked, offset, bot, held, action, lastId, shown, orders, minute>>
  BY <1>3
<1>5. TelegramType'
  BY <1>3, <1>4 DEF TelegramInv, TelegramType
<1>6. u.action = a /\ u.at = minute /\ u.kind = kind
  BY DEF u
<1>7. HandedOut'
  <2>2. bot'.upto <= Len(chat')
    <3>1. bot'.upto = bot.upto
      BY <1>18
    <3>2. /\ bot.upto \in Nat /\ bot.upto <= Len(chat)
          /\ Len(chat) \in Nat /\ Len(chat') = Len(chat) + 1
      BY <1>15
    <3>3. bot.upto <= Len(chat) + 1
      BY <3>2, Ordering
    <3>. QED
      BY <3>1, <3>2, <3>3
  <2>3. ASSUME NEW n \in 1..Len(chat')
         PROVE  /\ chat'[n].action <= lastId /\ chat'[n].at <= minute
                /\ chat'[n].kind \in Commands <=> chat'[n].action = 0
    <3>2. CASE n \in 1..Len(chat)
      BY <1>16, <3>2 DEF TelegramInv, HandedOut
    <3>3. CASE n = Len(chat) + 1
      <4>1. chat'[n] = u /\ u.action = a /\ u.at = minute /\ u.kind = kind
        BY <1>4, <1>6, <3>3
      <4>2. a <= lastId /\ minute <= minute
        BY <1>2, <1>15
      <4>. QED
        BY <4>1, <4>2
    <3>. QED
      BY <1>17, <3>2, <3>3
  <2>4. Following' <= Len(chat') + 1
    <3>1. Following' = Following
      BY <1>18 DEF Following
    <3>. QED
      BY <1>15, <3>1
  <2>. QED
    BY <1>3, <2>2, <2>3, <2>4 DEF TelegramInv, HandedOut, Ordered
<1>8. \A x \in ActionId : \A n \in ClicksOn(x)' : n \in ClicksOn(x) \/ n = Len(chat) + 1
  <2>1. ASSUME NEW x \in ActionId, NEW n \in ClicksOn(x)', n # Len(chat) + 1
        PROVE  n \in ClicksOn(x)
    <3>1. n \in 1..Len(chat') /\ chat'[n].action = x /\ chat'[n].by = "owner"
      BY <2>1 DEF ClicksOn
    <3>2. n \in 1..Len(chat) /\ chat'[n] = chat[n]
      BY <1>16, <1>17, <2>1, <3>1
    <3>. QED
      BY <3>1, <3>2 DEF ClicksOn
  <2>. QED
    BY <2>1
<1>9. \A x \in ActionId : WaitsUntouched(x)'
  <2>1. Following' = Following
    BY <1>18 DEF Following
  <2>2. Following <= Len(chat) + 1
    BY <1>15
  <2>. QED
    BY <1>18, <1>8, <2>1, <2>2 DEF TelegramInv, WaitsUntouched, Ordered
<1>10. ASSUME NEW x \in ActionId, NEW n \in ClicksOn(x), ConfirmedBy(x, n)
       PROVE  ConfirmedBy(x, n)'
  <2>3. n \in 1..Len(chat) /\ chat[n].action = x /\ chat[n].by = "owner"
    BY <1>10 DEF ClicksOn
  <2>4. n \in 1..Len(chat') /\ chat'[n] = chat[n]
    BY <1>16, <2>3
  <2>1. n \in 1..Len(chat) /\ n \in ClicksOn(x)' /\ chat'[n] = chat[n]
    BY <2>3, <2>4 DEF ClicksOn
  <2>2. \A v \in ClicksOn(x)' : n <= v
    <3>1. ASSUME NEW v \in ClicksOn(x)' PROVE n <= v
      <4>1. CASE v \in ClicksOn(x)
        BY <1>10, <4>1 DEF ConfirmedBy
      <4>2. CASE v = Len(chat) + 1
        <5>1. n \in Nat /\ n <= Len(chat)
          BY <1>15, <2>3, Ordering
        <5>. QED
          BY <1>15, <4>2, <5>1, Ordering
      <4>. QED
        BY <1>8, <4>1, <4>2
    <3>. QED
      BY <3>1
  <2>. QED
    BY <1>3, <1>10, <2>1, <2>2 DEF ConfirmedBy
<1>11. OrderedAsConfirmed'
  BY <1>3, <1>10 DEF TelegramInv, OrderedAsConfirmed, Ordered, ConfirmedBy
<1>12. ExecutesOnce'
  <2>1. 1..lastId \subseteq ActionId
    BY DEF TelegramInv, TelegramType, ActionId
  <2>. QED
    BY <1>3, <1>10, <2>1 DEF TelegramInv, ExecutesOnce, ConfirmedBy
<1>13. OneOrderPerConfirmation'
  BY <1>3 DEF TelegramInv, OneOrderPerConfirmation
<1>. QED
  BY <1>5, <1>7, <1>9, <1>11, <1>12, <1>13 DEF TelegramInv

\* The route is called for what is left of the action that was confirmed.
LEMMA OrderKeeps ==
  ASSUME TelegramInv, NEW p \in Position, ExecuteTradeAction(p)
  PROVE  TelegramInv'
<1>1. /\ bot \in BotState /\ orders \in [ActionId -> [Position -> Nat]]
      /\ bot.pc = "executing" /\ p \in bot.parts
  BY DEF ExecuteTradeAction, TelegramInv, TelegramType
<1>2. PICK a \in 1..lastId :
        /\ bot.ids = {a} /\ held[a] # "waiting"
        /\ \A q \in bot.parts : orders[a][q] = 0
        /\ ConfirmedBy(a, bot.update)
  BY <1>1 DEF TelegramInv, ExecutesOnce
<1>3. a \in ActionId
  BY DEF TelegramInv, TelegramType, ActionId
<1>4. /\ orders' = [orders EXCEPT ![a][p] = @ + 1]
      /\ bot' = [bot EXCEPT !.parts = @ \ {p}]
      /\ UNCHANGED <<chat, acked, offset, held, action, lastId, shown, minute>>
  BY <1>2 DEF ExecuteTradeAction
<1>5. /\ orders' \in [ActionId -> [Position -> Nat]]
      /\ \A b \in ActionId \ {a} : orders'[b] = orders[b]
      /\ \A q \in Position \ {p} : orders'[a][q] = orders[a][q]
      /\ orders'[a][p] = 1
  BY <1>1, <1>2, <1>3, <1>4
<1>6. /\ bot' \in BotState /\ bot'.pc = "executing" /\ bot'.ids = bot.ids
      /\ bot'.update = bot.update /\ bot'.upto = bot.upto /\ bot'.parts = bot.parts \ {p}
  <2>1. PICK b \in BotState : b = bot
    BY <1>1
  <2> DEFINE c == [b EXCEPT !.parts = @ \ {p}]
  <2>2. c \in BotState /\ c.pc = b.pc /\ c.ids = b.ids /\ c.update = b.update
        /\ c.upto = b.upto /\ c.parts = b.parts \ {p}
    BY DEF BotState
  <2>3. bot' = c
    BY <1>4, <2>1
  <2> HIDE DEF c
  <2>. QED
    BY <1>1, <2>1, <2>2, <2>3
<1>7. TelegramType'
  BY <1>4, <1>5, <1>6 DEF TelegramInv, TelegramType
<1>8. \A b \in ActionId \ {a} : Ordered(b)' <=> Ordered(b)
  BY <1>5 DEF Ordered
<1>9. Following' = Following
  BY <1>4 DEF Following, Larger
<1>10. HandedOut'
  BY <1>2, <1>4, <1>6, <1>8, <1>9 DEF TelegramInv, HandedOut
<1>11. \A b \in ActionId : WaitsUntouched(b)'
  BY <1>2, <1>4, <1>8, <1>9 DEF TelegramInv, WaitsUntouched, ClicksOn
<1>12. \A b, u : ConfirmedBy(b, u) => ConfirmedBy(b, u)'
  BY <1>4 DEF ConfirmedBy, ClicksOn
<1>13. ExecutesOnce'
  <2>1. BotState # {} /\ bot'.parts \subseteq Position
    BY <1>6 DEF BotState
  <2>2. \A q \in bot'.parts : orders'[a][q] = 0
    BY <1>2, <1>5, <1>6, <2>1
  <2>. QED
    BY <1>2, <1>4, <1>6, <1>12, <2>2 DEF ExecutesOnce
<1>14. OneOrderPerConfirmation'
  BY <1>5 DEF TelegramInv, OneOrderPerConfirmation
<1>15. OrderedAsConfirmed'
  <2>1. \A b \in ActionId : Ordered(b)' => \E u : ConfirmedBy(b, u)
    BY <1>2, <1>8 DEF TelegramInv, OrderedAsConfirmed, ConfirmedBy
  <2>. QED
    BY <1>12, <2>1 DEF OrderedAsConfirmed, ConfirmedBy
<1>. QED
  BY <1>7, <1>10, <1>11, <1>13, <1>14, <1>15 DEF TelegramInv

\* An action stored under a new identifier waits untouched.
LEMMA StoreKeeps ==
  ASSUME TelegramInv, NEW type \in {"confirm", "position"}, NEW parts \in SUBSET Position,
         NEW ttl \in Nat, Store(type, parts, ttl), UNCHANGED <<chat, acked, shown, orders, minute>>,
         offset' \in Nat, Following' \in {Following, Following + 1}, Following' <= Len(chat) + 1,
         Following' = Following + 1 =>
           Following \in 1..Len(chat) /\ chat[Following].kind \in Commands
             /\ chat[Following].action = 0,
         bot' \in BotState, bot'.pc = "announcing", bot'.ids = {lastId + 1}, bot'.upto = bot.upto
  PROVE  TelegramInv'
<1> DEFINE new == lastId + 1
<1>14. lastId < MaxActions
  BY DEF Store
<1>12. /\ lastId \in Nat /\ lastId < MaxActions /\ MaxActions \in Nat /\ Following \in Nat
       /\ Len(chat) \in Nat /\ minute \in Nat
  BY <1>14, Numbers
<1>13. new \in ActionId /\ new \in Nat
  BY <1>12 DEF ActionId
<1>1. /\ lastId \in Nat /\ lastId < MaxActions /\ new \in ActionId /\ new \in Nat
      /\ held \in [ActionId -> {"absent", "waiting", "consumed"}]
      /\ action \in [ActionId -> [type : {"none", "confirm", "position"},
                                  parts : SUBSET Position, deadline : Nat]]
      /\ minute \in Nat /\ Following \in Nat /\ Len(chat) \in Nat
  BY <1>12, <1>13 DEF TelegramInv, TelegramType
<1>2. /\ held' = [held EXCEPT ![new] = "waiting"] /\ lastId' = new
      /\ action' = [action EXCEPT ![new] = [type |-> type, parts |-> parts,
                                            deadline |-> minute + ttl]]
  BY DEF Store
<1>3. [type |-> type, parts |-> parts, deadline |-> minute + ttl]
        \in [type : {"none", "confirm", "position"}, parts : SUBSET Position, deadline : Nat]
  <2>1. minute + ttl \in Nat
    BY <1>12
  <2>. QED
    BY <2>1
<1>4. /\ held' \in [ActionId -> {"absent", "waiting", "consumed"}]
      /\ action' \in [ActionId -> [type : {"none", "confirm", "position"},
                                   parts : SUBSET Position, deadline : Nat]]
      /\ \A a \in ActionId \ {new} : held'[a] = held[a] /\ action'[a] = action[a]
  BY <1>1, <1>2, <1>3
<1>5. TelegramType'
  <2>1. lastId' \in 0..MaxActions
    <3>1. lastId' = lastId + 1
      BY <1>2
    <3>2. lastId + 1 \in 0..MaxActions
      BY <1>12
    <3>. QED
      BY <3>1, <3>2
  <2>2. TelegramType
    BY DEF TelegramInv
  <2>. QED
    BY <1>4, <2>1, <2>2 DEF TelegramType
<1>6. HandedOut'
  <2>1. shown' \subseteq 1..lastId' /\ bot'.ids \subseteq 1..lastId'
    <3>1. shown \subseteq 1..lastId /\ 1..lastId \subseteq 1..new /\ new \in 1..new
      BY <1>12, Tables, Ordering
    <3>. QED
      BY <1>2, <3>1
  <2>3. \A u \in 1..Len(chat) : chat[u].action <= lastId' /\ chat[u].at <= minute
    <3>1. lastId' = lastId + 1
      BY <1>2
    <3>2. ASSUME NEW u \in 1..Len(chat) PROVE chat[u].action <= lastId + 1 /\ chat[u].at <= minute
      <4>1. chat[u].action \in Nat /\ chat[u].action <= lastId /\ chat[u].at <= minute
        BY UpdatesKnown
      <4>2. \A m \in Nat : m <= lastId => m <= lastId + 1
        BY <1>12
      <4>. QED
        BY <4>1, <4>2
    <3>. QED
      BY <3>1, <3>2
  <2>5. \A u \in 1..Len(chat) : chat[u].kind \in Commands <=> chat[u].action = 0
    BY DEF TelegramInv, HandedOut
  <2>4. ASSUME NEW a \in ActionId, held'[a] # "absent" \/ Ordered(a)' PROVE a <= lastId'
    <3>1. CASE a = new
      BY <1>1, <1>2, <3>1
    <3>2. CASE a # new
      <4>3. held[a] # "absent" \/ Ordered(a)
        BY <1>4, <2>4, <3>2 DEF Ordered
      <4>1. a <= lastId /\ a \in Nat
        BY <4>3 DEF TelegramInv, HandedOut, ActionId
      <4>. QED
        BY <1>1, <1>2, <4>1
    <3>. QED
      BY <3>1, <3>2
  <2>. QED
    BY <2>1, <2>3, <2>4, <2>5 DEF TelegramInv, HandedOut
<1>7. ~Ordered(new) /\ ClicksOn(new) = {}
  <2>3. \A n \in Nat : n <= lastId => n # new
    BY <1>12
  <2>1. ~Ordered(new)
    <3>1. Ordered(new) => new <= lastId
      BY <1>13 DEF TelegramInv, HandedOut
    <3>. QED
      BY <1>13, <2>3, <3>1
  <2>2. ASSUME NEW u \in 1..Len(chat) PROVE chat[u].action # new
    <3>1. chat[u].action \in Nat /\ chat[u].action <= lastId
      BY UpdatesKnown
    <3>. QED
      BY <2>3, <3>1
  <2>. QED
    BY <2>1, <2>2 DEF ClicksOn
<1>8. ASSUME NEW a \in ActionId PROVE WaitsUntouched(a)'
  <2>1. CASE a = new
    BY <1>7, <2>1 DEF WaitsUntouched, Ordered, ClicksOn
  <2>2. CASE a # new
    <3>1. ASSUME held[a] = "waiting", NEW u \in ClicksOn(a) PROVE u >= Following'
      <4>1. u >= Following
        <5>1. \A b \in ActionId : WaitsUntouched(b)
          BY DEF TelegramInv
        <5>2. held[a] = "waiting" /\ u \in ClicksOn(a)
          BY <3>1
        <5>. QED
          BY <5>1, <5>2 DEF WaitsUntouched
      <4>2. u \in Nat /\ chat[u].action = a /\ a # 0
        BY DEF ClicksOn, ActionId
      <4>3. Following' = Following \/ u # Following
        BY <4>2
      <4>4. u # Following => u >= Following + 1
        BY <1>12, <4>1, <4>2, Ordering
      <4>. QED
        BY <4>1, <4>3, <4>4
    <3>. QED
      BY <1>4, <2>2, <3>1 DEF TelegramInv, WaitsUntouched, Ordered, ClicksOn
  <2>. QED
    BY <2>1, <2>2
<1>9. ASSUME NEW a \in ActionId, NEW u, ConfirmedBy(a, u) PROVE ConfirmedBy(a, u)'
  <2>1. a # new
    BY <1>7, <1>9 DEF ConfirmedBy
  <2>. QED
    BY <1>4, <1>9, <2>1 DEF ConfirmedBy, ClicksOn
<1>10. OrderedAsConfirmed'
  <2>1. \A a \in ActionId : Ordered(a)' => \E u : ConfirmedBy(a, u)
    BY DEF TelegramInv, OrderedAsConfirmed, ConfirmedBy, Ordered
  <2>. QED
    BY <1>9, <2>1 DEF OrderedAsConfirmed, ConfirmedBy
<1>11. ExecutesOnce' /\ OneOrderPerConfirmation'
  BY DEF ExecutesOnce, TelegramInv, OneOrderPerConfirmation
<1>. QED
  BY <1>5, <1>6, <1>8, <1>10, <1>11 DEF TelegramInv

\* Messages, and clicks of no effect.
LEMMA MessageKeeps ==
  ASSUME TelegramInv,
         MessageIgnored \/ NotUnderstood \/ RateLimited \/ Answer \/ PrepareBuy
  PROVE  TelegramInv'
<1>1. Take(Commands)
  <2>1. PrepareBuy \/ NotUnderstood => Take(Commands)
    BY DEF PrepareBuy, NotUnderstood, Take, Commands
  <2>. QED
    BY <2>1 DEF MessageIgnored, RateLimited, Answer
<1>2. /\ Following \in 1..Len(chat) /\ Following \in Nat
      /\ offset' \in Nat /\ Following' = Following + 1
      /\ chat[Following].kind \in Commands /\ bot.pc = "batch" /\ bot \in BotState
  BY <1>1, Takes
<1>3. UNCHANGED <<chat, acked, held, action, lastId, shown, orders, minute>>
  BY <1>1 DEF Take, MessageIgnored, NotUnderstood, RateLimited, Answer, PrepareBuy
<1>4. bot' \in BotState /\ bot'.pc # "executing" /\ bot'.ids = bot.ids /\ bot'.upto = bot.upto
  <2>0. PICK b \in BotState : b = bot
    BY <1>2
  <2>1. CASE MessageIgnored
    BY <1>2, <2>1 DEF MessageIgnored
  <2>2. CASE NotUnderstood \/ RateLimited \/ Answer
    <3> DEFINE c == [b EXCEPT !.pc = "replying", !.update = Following]
    <3>1. c \in BotState /\ c.pc = "replying" /\ c.ids = b.ids /\ c.upto = b.upto
      BY <1>2 DEF BotState, BotPc
    <3>2. bot' = c
      BY <2>0, <2>2 DEF NotUnderstood, RateLimited, Answer, At
    <3> HIDE DEF c
    <3>. QED
      BY <2>0, <3>1, <3>2
  <2>3. CASE PrepareBuy
    <3>1. PICK p \in Position :
            bot' = [bot EXCEPT !.pc = "preparing", !.update = Following, !.parts = {p}]
      BY <2>3 DEF PrepareBuy
    <3> DEFINE c == [b EXCEPT !.pc = "preparing", !.update = Following, !.parts = {p}]
    <3>2. c \in BotState /\ c.pc = "preparing" /\ c.ids = b.ids /\ c.upto = b.upto
      BY <1>2 DEF BotState, BotPc
    <3>3. bot' = c
      BY <2>0, <3>1
    <3> HIDE DEF c
    <3>. QED
      BY <2>0, <3>2, <3>3
  <2>. QED
    BY <2>1, <2>2, <2>3
<1>5. TelegramType'
  BY <1>2, <1>3, <1>4 DEF TelegramInv, TelegramType
<1>6. chat[Following].action = 0
  BY <1>2 DEF TelegramInv, HandedOut
<1>7. \A a \in ActionId : \A u \in ClicksOn(a) : u >= Following => u >= Following'
  <2>1. SUFFICES ASSUME NEW a \in ActionId, NEW u \in ClicksOn(a), u >= Following
                 PROVE  u >= Following'
    OBVIOUS
  <2>2. u \in Nat /\ chat[u].action # 0
    BY <2>1 DEF ClicksOn, ActionId
  <2>3. u # Following
    BY <1>6, <2>2
  <2>. QED
    BY <1>2, <2>1, <2>2, <2>3, Ordering
<1>8. Calm
  <2>1. /\ minute' >= minute /\ Following' <= Len(chat) + 1
        /\ bot'.upto <= Len(chat)
    <3>1. minute' = minute /\ bot'.upto = bot.upto
      BY <1>3, <1>4
    <3>2. Len(chat) \in Nat /\ minute \in Nat /\ bot.upto <= Len(chat)
      BY Numbers
    <3>3. Following <= Len(chat)
      BY <1>2, <3>2, Ordering
    <3>4. Following + 1 <= Len(chat) + 1 /\ minute >= minute
      BY <1>2, <3>2, <3>3, Ordering
    <3>. QED
      BY <1>2, <3>1, <3>2, <3>4
  <2>2. shown' \subseteq 1..lastId /\ bot'.ids \subseteq 1..lastId
    BY <1>3, <1>4, Tables
  <2>3. \A a \in ActionId : held'[a] = held[a]
    BY <1>3
  <2>. QED
    BY <1>3, <1>7, <2>1, <2>2, <2>3 DEF Calm
<1>9. ExecutesOnce'
  BY <1>4 DEF ExecutesOnce
<1>. QED
  BY <1>5, <1>8, <1>9, CalmKeeps

LEMMA StoringKeeps ==
  ASSUME TelegramInv, PrepareSellAll \/ SendPositions \/ Prepared
  PROVE  TelegramInv'
<1>1. CASE PrepareSellAll \/ SendPositions
  <2>1. Take(Commands)
    BY <1>1 DEF PrepareSellAll, SendPositions, Take, Commands
  <2>2. /\ Following \in 1..Len(chat) /\ Following \in Nat
        /\ offset' \in Nat /\ Following' = Following + 1
        /\ chat[Following].kind \in Commands /\ bot \in BotState
    BY <2>1, Takes
  <2>3. chat[Following].action = 0
    BY <2>2 DEF TelegramInv, HandedOut
  <2>4. PICK type \in {"confirm", "position"}, parts \in SUBSET Position, ttl \in Nat :
          Store(type, parts, ttl)
    <3>1. ConfirmTtl \in Nat /\ PositionTtl \in Nat
      OBVIOUS
    <3>. QED
      BY <1>1, <3>1 DEF PrepareSellAll, SendPositions, OpenPositions
  <2>5. UNCHANGED <<chat, acked, shown, orders, minute>>
    BY <1>1, <2>1 DEF Take, PrepareSellAll, SendPositions
  <2>6. lastId + 1 \in ActionId
    <3>1. lastId < MaxActions
      BY <2>4 DEF Store
    <3>. QED
      BY <3>1, Identifiers
  <2>7. bot' \in BotState /\ bot'.pc = "announcing" /\ bot'.ids = {lastId + 1}
        /\ bot'.upto = bot.upto
    <3>0. PICK b \in BotState : b = bot
      BY <2>2
    <3> DEFINE c == [b EXCEPT !.pc = "announcing", !.update = Following,
                               !.ids = {lastId + 1}, !.parts = {}]
    <3>1. c \in BotState /\ c.pc = "announcing" /\ c.ids = {lastId + 1} /\ c.upto = b.upto
      BY <2>2, <2>6 DEF BotState, BotPc
    <3>2. bot' = c
      BY <1>1, <3>0 DEF PrepareSellAll, SendPositions, Announcing
    <3> HIDE DEF c
    <3>. QED
      BY <3>0, <3>1, <3>2
  <2>8. Following' <= Len(chat) + 1 /\ Following' \in {Following, Following + 1}
    <3>1. Len(chat) \in Nat
      BY DEF TelegramInv, TelegramType
    <3>. QED
      BY <2>2, <3>1
  <2>. QED
    BY <2>2, <2>3, <2>4, <2>5, <2>7, <2>8, StoreKeeps
<1>2. CASE Prepared
  <2>1. bot \in BotState /\ bot.parts \in SUBSET Position /\ ConfirmTtl \in Nat
    BY DEF TelegramInv, TelegramType, BotState
  <2>2. Store("confirm", bot.parts, ConfirmTtl)
        /\ UNCHANGED <<chat, acked, offset, shown, orders, minute>>
    BY <1>2 DEF Prepared
  <2>3. lastId + 1 \in ActionId
    <3>1. lastId < MaxActions
      BY <2>2 DEF Store
    <3>. QED
      BY <3>1, Identifiers
  <2>4. bot' \in BotState /\ bot'.pc = "announcing" /\ bot'.ids = {lastId + 1}
        /\ bot'.upto = bot.upto
    <3>0. PICK b \in BotState : b = bot
      BY <2>1
    <3> DEFINE c == [b EXCEPT !.pc = "announcing", !.ids = {lastId + 1}, !.parts = {}]
    <3>1. c \in BotState /\ c.pc = "announcing" /\ c.ids = {lastId + 1} /\ c.upto = b.upto
      BY <2>3 DEF BotState, BotPc
    <3>2. bot' = c
      BY <1>2, <3>0 DEF Prepared
    <3> HIDE DEF c
    <3>. QED
      BY <3>0, <3>1, <3>2
  <2>5. Following' = Following /\ Following \in Nat /\ offset' \in Nat
        /\ Following <= Len(chat) + 1
    <3>1. Following' = Following /\ offset' = offset
      BY <2>2 DEF Following
    <3>. QED
      BY <3>1, Numbers
  <2>6. Following' # Following + 1
    BY <2>5
  <2>. QED
    BY <2>1, <2>2, <2>4, <2>5, <2>6, StoreKeeps
<1>. QED
  BY <1>1, <1>2

\* A click ends the waiting of its action, in time or not.
LEMMA ClickKeeps ==
  ASSUME TelegramInv, NotAuthorized \/ TooLate \/ Cancel \/ ChoosePercent \/ Confirm
  PROVE  TelegramInv'
<1>0. PICK a : a = chat[Following].action
  OBVIOUS
<1>1. Take(Buttons)
  BY DEF NotAuthorized, TooLate, Cancel, ChoosePercent, Confirm, Take, Buttons
<1>2. /\ Following \in 1..Len(chat) /\ Following \in Nat
      /\ offset' \in Nat /\ Following' = Following + 1
      /\ chat[Following].kind \in Buttons /\ bot.pc = "batch" /\ bot \in BotState
      /\ chat[Following] \in Update /\ chat[Following].at <= minute
  BY <1>0, <1>1, Takes
<1>3. a \in 1..lastId /\ a \in ActionId /\ minute \in Nat /\ lastId \in Nat /\ Len(chat) \in Nat
      /\ chat[Following].at \in Nat
  <2>1. a # 0 /\ a <= lastId
    BY <1>0, <1>2 DEF TelegramInv, HandedOut, Buttons, Commands
  <2>2. a \in Nat /\ chat[Following].at \in Nat
    BY <1>0, <1>2 DEF Update
  <2>3. lastId \in Nat /\ minute \in Nat /\ Len(chat) \in Nat
    BY Numbers
  <2>4. a \in 1..lastId
    BY <2>1, <2>2, <2>3
  <2>5. a \in ActionId
    BY <2>4, Identifiers
  <2>. QED
    BY <2>2, <2>3, <2>4, <2>5
<1>4. UNCHANGED <<chat, acked, action, lastId, shown, orders, minute>>
  BY <1>0, <1>1 DEF Take, NotAuthorized, TooLate, Cancel, ChoosePercent, Confirm
<1>5. /\ held \in [ActionId -> {"absent", "waiting", "consumed"}]
      /\ action \in [ActionId -> [type : {"none", "confirm", "position"},
                                  parts : SUBSET Position, deadline : Nat]]
  BY DEF TelegramInv, TelegramType
<1>6. /\ held' \in [ActionId -> {"absent", "waiting", "consumed"}]
      /\ \A b \in ActionId \ {a} : held'[b] = held[b]
      /\ held'[a] # "absent" => held[a] # "absent"
      /\ chat[Following].by = "owner" => held'[a] # "waiting"
      /\ held'[a] = "waiting" => held[a] = "waiting"
  <2>1. CASE NotAuthorized
    BY <1>0, <1>3, <1>5, <2>1 DEF NotAuthorized
  <2>2. CASE TooLate \/ Cancel \/ ChoosePercent
    <3>1. held' = [held EXCEPT ![a] = "absent"]
      BY <1>0, <2>2 DEF TooLate, Cancel, ChoosePercent
    <3>. QED
      BY <1>0, <1>3, <1>5, <3>1
  <2>3. CASE Confirm
    <3>1. held' = [held EXCEPT ![a] = "consumed"] /\ held[a] = "waiting"
      BY <1>0, <2>3 DEF Confirm, Confirmable
    <3>. QED
      BY <1>0, <1>3, <1>5, <3>1
  <2>. QED
    BY <1>0, <1>1, <2>1, <2>2, <2>3
<1>7. /\ bot' \in BotState /\ bot'.upto = bot.upto /\ bot'.ids \subseteq 1..lastId
      /\ \/ bot'.pc # "executing"
         \/ /\ Confirm /\ bot'.ids = {a} /\ bot'.update = Following
            /\ bot'.parts \subseteq Position
  <2>0. PICK b \in BotState : b = bot
    BY <1>0, <1>2
  <2>1. bot.ids \subseteq 1..lastId
    BY DEF TelegramInv, HandedOut
  <2>2. CASE NotAuthorized \/ TooLate
    BY <1>0, <1>2, <2>1, <2>2 DEF NotAuthorized, TooLate
  <2>3. CASE Cancel
    <3> DEFINE c == [b EXCEPT !.pc = "replying", !.update = Following]
    <3>1. c \in BotState /\ c.pc = "replying" /\ c.ids = b.ids /\ c.upto = b.upto
      BY <1>0, <1>2 DEF BotState, BotPc
    <3>2. bot' = c
      BY <1>0, <2>0, <2>3 DEF Cancel, At
    <3> HIDE DEF c
    <3>. QED
      BY <1>0, <2>0, <2>1, <3>1, <3>2
  <2>4. CASE ChoosePercent
    <3> DEFINE parts == action[a].parts
    <3> DEFINE c == [b EXCEPT !.pc = "preparing", !.update = Following, !.parts = parts]
    <3>1. parts \in SUBSET Position
      BY <1>0, <1>3, <1>5
    <3>2. bot' = c
      BY <1>0, <2>0, <2>4 DEF ChoosePercent
    <3> HIDE DEF parts
    <3>3. c \in BotState /\ c.pc = "preparing" /\ c.ids = b.ids /\ c.upto = b.upto
      BY <1>0, <1>2, <3>1 DEF BotState, BotPc
    <3> HIDE DEF c
    <3>. QED
      BY <1>0, <2>0, <2>1, <3>2, <3>3
  <2>5. CASE Confirm
    <3> DEFINE parts == action[a].parts
    <3> DEFINE c == [b EXCEPT !.pc = "executing", !.update = Following, !.ids = {a}, !.parts = parts]
    <3>1. parts \in SUBSET Position
      BY <1>0, <1>3, <1>5
    <3>2. bot' = c
      BY <1>0, <2>0, <2>5 DEF Confirm
    <3> HIDE DEF parts
    <3>3. c \in BotState /\ c.pc = "executing" /\ c.ids = {a} /\ c.upto = b.upto
          /\ c.update = Following /\ c.parts = parts
      BY <1>0, <1>2, <1>3, <3>1 DEF BotState, BotPc
    <3> HIDE DEF c
    <3>. QED
      BY <1>0, <1>3, <2>0, <2>5, <3>1, <3>2, <3>3
  <2>. QED
    BY <1>0, <2>2, <2>3, <2>4, <2>5
<1>8. TelegramType'
  BY <1>0, <1>2, <1>4, <1>6, <1>7 DEF TelegramInv, TelegramType
<1>9. ASSUME NEW b \in ActionId, held'[b] = "waiting", NEW u \in ClicksOn(b), u >= Following
      PROVE  u >= Following'
  <2>1. u \in Nat /\ chat[u].action = b /\ chat[u].by = "owner"
    BY DEF ClicksOn
  <2>2. u # Following
    BY <1>0, <1>6, <1>9, <2>1
  <2>. QED
    BY <1>2, <1>9, <2>1, <2>2, Ordering
<1>10. Calm
  <2>1. bot.upto <= Len(chat) /\ shown \subseteq 1..lastId
    BY DEF TelegramInv, HandedOut
  <2>2. Following' <= Len(chat) + 1
    BY <1>0, <1>2, <1>3
  <2>3. \A b \in ActionId :
          /\ held'[b] # "absent" => held[b] # "absent"
          /\ held'[b] = "waiting" => held[b] = "waiting"
    BY <1>0, <1>6
  <2>. QED
    <3>1. minute' >= minute /\ bot'.upto <= Len(chat)
      BY <1>3, <1>4, <1>7, <2>1
    <3>2. shown' \subseteq 1..lastId /\ bot'.ids \subseteq 1..lastId
      BY <1>4, <1>7, <2>1
    <3>. QED
      BY <1>4, <1>9, <2>2, <2>3, <3>1, <3>2 DEF Calm
<1>11. ExecutesOnce'
  <2> SUFFICES ASSUME bot'.pc = "executing"
               PROVE  \E b \in 1..lastId :
                        /\ bot'.ids = {b} /\ held'[b] # "waiting"
                        /\ \A p \in bot'.parts : orders[b][p] = 0
                        /\ ConfirmedBy(b, bot.update)'
    BY <1>0, <1>4 DEF ExecutesOnce
  <2>1. Confirm /\ bot'.ids = {a} /\ bot'.update = Following /\ bot'.parts \subseteq Position
    BY <1>0, <1>7
  <2>2. /\ chat[Following].by = "owner" /\ chat[Following].kind = "confirm"
        /\ held[a] = "waiting" /\ ~(action[a].deadline <= minute)
    BY <1>0, <2>1 DEF Confirm, Take, Confirmable, Expired
  <2>3. ~Ordered(a) /\ \A u \in ClicksOn(a) : u >= Following
    BY <1>0, <1>3, <2>2 DEF TelegramInv, WaitsUntouched
  <2>4. orders \in [ActionId -> [Position -> Nat]]
    BY DEF TelegramInv, TelegramType
  <2>5. \A p \in bot'.parts : orders[a][p] = 0
    <3>1. ASSUME NEW p \in Position PROVE orders[a][p] = 0
      <4>1. orders[a][p] \in Nat /\ ~(orders[a][p] > 0)
        BY <1>0, <1>3, <2>3, <2>4 DEF Ordered
      <4>. QED
        BY <1>0, <4>1
    <3>. QED
      BY <1>0, <2>1, <3>1
  <2>6. Following \in ClicksOn(a) /\ \A v \in ClicksOn(a) : Following <= v
    BY <1>0, <1>2, <2>2, <2>3 DEF ClicksOn
  <2>7. chat[Following].at < action[a].deadline
    <3>1. action[a].deadline \in Nat
      BY <1>3, <1>5
    <3>2. \A at, now, deadline \in Nat : at <= now /\ ~(deadline <= now) => at < deadline
      OBVIOUS
    <3>. QED
      BY <1>2, <1>3, <2>2, <3>1, <3>2
  <2>10. ConfirmedBy(a, Following)
    BY <1>0, <2>2, <2>6, <2>7 DEF ConfirmedBy
  <2>9. held'[a] # "waiting"
    BY <1>0, <1>6, <2>2
  <2>11. \A b, u : ConfirmedBy(b, u) => (ConfirmedBy(b, u))'
    BY <1>0, <1>4 DEF ConfirmedBy, ClicksOn
  <2>8. ConfirmedBy(a, bot.update)'
    BY <1>0, <1>4, <2>1, <2>6, <2>10 DEF ConfirmedBy, ClicksOn
  <2>. QED
    BY <1>0, <1>3, <2>1, <2>5, <2>8, <2>9
<1>. QED
  BY <1>0, <1>8, <1>10, <1>11, CalmKeeps

THEOREM CommandsAreSound == CommandsSpec => []TelegramInv
<1>1. CommandsInit => TelegramInv
  <2> SUFFICES ASSUME CommandsInit PROVE TelegramInv
    OBVIOUS
  <2>1. Quiet \in BotState /\ Quiet.pc = "idle" /\ Quiet.ids = {} /\ Quiet.upto = 0
    BY QuietState
  <2>2. NoAction \in [type : {"none", "confirm", "position"}, parts : SUBSET Position, deadline : Nat]
    BY DEF NoAction
  <2>3. TelegramType
    BY <2>1, <2>2 DEF CommandsInit, TelegramType
  <2>4. HandedOut
    BY <2>1 DEF CommandsInit, HandedOut, Following, Larger, Ordered
  <2>5. ExecutesOnce
    BY <2>1 DEF CommandsInit, ExecutesOnce
  <2>. QED
    BY <2>3, <2>4, <2>5
       DEF CommandsInit, TelegramInv, WaitsUntouched, OneOrderPerConfirmation, OrderedAsConfirmed, Ordered
<1>2. TelegramInv /\ [CommandsNext]_commandVars => TelegramInv'
  <2> SUFFICES ASSUME TelegramInv, [CommandsNext]_commandVars PROVE TelegramInv'
    OBVIOUS
  <2>1. CASE UNCHANGED commandVars
    <3>1. UNCHANGED <<chat, acked, offset, bot, held, action, lastId, shown, orders, minute>>
      BY <2>1 DEF commandVars
    <3>2. TelegramType'
      BY <3>1 DEF TelegramInv, TelegramType
    <3>3. Following' = Following /\ minute \in Nat
      BY <3>1 DEF Following, Larger, TelegramInv, TelegramType
    <3>4. Calm
      BY <3>1, <3>3 DEF Calm, TelegramInv, HandedOut
    <3>5. \A a, u : ConfirmedBy(a, u) => ConfirmedBy(a, u)'
      BY <3>1 DEF ConfirmedBy, ClicksOn
    <3>6. ExecutesOnce'
      BY <3>1, <3>5 DEF TelegramInv, ExecutesOnce
    <3>. QED
      BY <3>2, <3>4, <3>6, CalmKeeps
  <2>2. CASE Say
    <3>1. PICK kind \in Commands : Post(kind, 0, "owner")
      BY <2>2 DEF Say
    <3>. QED
      BY <3>1, PostKeeps
  <2>3. CASE Click
    <3>1. PICK a \in shown, kind \in Buttons, by \in {"owner", "stranger"} : Post(kind, a, by)
      BY <2>3 DEF Click, ButtonsOf, Buttons
    <3>2. a # 0 /\ kind \notin Commands
      BY DEF TelegramInv, HandedOut, Buttons, Commands
    <3>. QED
      BY <3>1, <3>2, PostKeeps
  <2>4. CASE PollStep
    <3>1. CASE StartPoll \/ FetchReturns \/ BatchDone
      BY <3>1, DropKeeps, PollKeeps
    <3>2. CASE HandleMessage
      BY <3>2, MessageKeeps, StoringKeeps DEF HandleMessage
    <3>3. CASE HandleCallback
      BY <3>3, ClickKeeps DEF HandleCallback
    <3>4. CASE HandlerContinues
      BY <3>4, StoringKeeps, PollKeeps, OrderKeeps, DropKeeps DEF HandlerContinues
    <3>. QED
      BY <2>4, <3>1, <3>2, <3>3, <3>4 DEF PollStep
  <2>5. CASE FetchFails \/ MinutePasses \/ BotRestarts
    BY <2>5, PollKeeps, TimeKeeps, DropKeeps
  <2>. QED
    BY <2>1, <2>2, <2>3, <2>4, <2>5 DEF CommandsNext
<1>. QED
  BY <1>1, <1>2, PTL DEF CommandsSpec

\* executePending consumes the action before it calls the trade route: a second click, a
\* redelivered update or a restart never calls it again for a position (see
\* OneOrderPerConfirmation).
THEOREM OrderedOnce == CommandsSpec => []OneOrderPerConfirmation
<1>1. TelegramInv => OneOrderPerConfirmation
  BY DEF TelegramInv
<1>. QED
  BY <1>1, CommandsAreSound, PTL

\* Whatever is ordered was confirmed by the owner's first click on it, before the deadline
\* (see OrderedAsConfirmed).
THEOREM OrdersWereConfirmed == CommandsSpec => []OrderedAsConfirmed
<1>1. TelegramInv => OrderedAsConfirmed
  BY DEF TelegramInv
<1>. QED
  BY <1>1, CommandsAreSound, PTL

HIDE TelegramAssumption

===============================================================================
