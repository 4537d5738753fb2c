--------------------------- MODULE TelegramCommands ---------------------------
(***************************************************************************)
(* TelegramCommandService (lib/services/telegram-command-service.ts): the  *)
(* owner's messages and button clicks are polled from Telegram one batch   *)
(* after the other and handled one at a time.  A trade is asked for with a *)
(* message, confirmed with a button within its time to live, and then      *)
(* handed to the manual trade route once per position.                     *)
(*                                                                         *)
(* Telegram keeps an update until a getUpdates call names a higher offset; *)
(* offset, rate windows and pending actions are memory of the process.     *)
(* Time is counted in minutes.  A batch is not cut at 50 updates.  The     *)
(* button that offers a misspelt command anew is left out.                 *)
(***************************************************************************)
EXTENDS Naturals, Sequences

CONSTANTS
  Position,          \* the open positions of the book
  ConfirmTtl,        \* CONFIRMATION_TTL_MS
  PositionTtl,       \* POSITION_BUTTON_TTL_MS
  MaxAge,            \* COMMAND_MAX_AGE_MS
  MaxCommands,       \* MAX_COMMANDS_PER_MINUTE
  MaxTrades,         \* MAX_TRADE_REQUESTS_PER_MINUTE
  MaxUpdates, MaxActions, MaxTime, MaxRestarts \* bounds of the instance

ASSUME TelegramAssumption ==
  /\ Position # {}
  /\ {ConfirmTtl, PositionTtl} \subseteq Nat \ {0}
  /\ {MaxAge, MaxCommands, MaxTrades} \subseteq Nat
  /\ {MaxUpdates, MaxActions, MaxTime, MaxRestarts} \subseteq Nat
  /\ MaxUpdates <= MaxActions

VARIABLES
  chat,     \* every update ever posted; its place is its update_id
  acked,    \* the updates Telegram has forgotten: 1..acked
  offset,   \* this.offset
  bot,      \* where poll() and the handler it awaits are suspended
  window,   \* rateWindows of the owner
  held,     \* pendingActions: is the action absent, waiting or consumed?
  action,   \* what an action identifier stands for
  lastId,   \* identifiers handed out so far
  shown,    \* the actions whose buttons the chat shows
  orders,   \* calls of the manual trade route, by action and position
  minute, restarts

commandVars == <<chat, acked, offset, bot, window, held, action, lastId, shown, orders,
          minute, restarts>>

ActionId == 1..MaxActions
Commands == {"query", "buy", "sellAll", "positions"}
Buttons == {"confirm", "cancel", "choose"}
TradeCommands == {"buy", "sellAll"}

\* What openPositionActions may find in the book.
OpenPositions == (SUBSET Position) \ {{}}

Larger(m, n) == IF m > n THEN m ELSE n

Quiet == [pc |-> "idle", upto |-> 0, update |-> 0, ids |-> {}, parts |-> {}]
NoAction == [type |-> "none", parts |-> {}, deadline |-> 0]

CommandsInit ==
  /\ chat = <<>>
  /\ acked = 0
  /\ offset = 0
  /\ bot = Quiet
  /\ window = <<>>
  /\ held = [a \in ActionId |-> "absent"]
  /\ action = [a \in ActionId |-> NoAction]
  /\ lastId = 0
  /\ shown = {}
  /\ orders = [a \in ActionId |-> [p \in Position |-> 0]]
  /\ minute = 0
  /\ restarts = 0

-----------------------------------------------------------------------------
(* The chat: a message, or a click on a button it shows.  The buttons are   *)
(* removed by a call that may fail, so they may always be clicked again.    *)

Post(kind, a, by) ==
  /\ Len(chat) < MaxUpdates
  /\ chat' = Append(chat, [kind |-> kind, action |-> a, by |-> by, at |-> minute])
  /\ UNCHANGED <<acked, offset, bot, window, held, action, lastId, shown, orders,
                 minute, restarts>>

\* Of what strangers may post, a click on a confirmation; their messages are
\* ignored like old ones.
Say == \E kind \in Commands : Post(kind, 0, "owner")

ButtonsOf(a) == IF action[a].type = "confirm" THEN {"confirm", "cancel"} ELSE {"choose"}

Click ==
  \E a \in shown : \/ \E button \in ButtonsOf(a) : Post(button, a, "owner")
                   \/ "confirm" \in ButtonsOf(a) /\ Post("confirm", a, "stranger")

-----------------------------------------------------------------------------
(* poll()                                                                   *)

Expired(a) == action[a].deadline <= minute

StartPoll ==
  /\ bot.pc = "idle"
  /\ held' = [a \in ActionId |->
                IF Expired(a) \/ held[a] = "consumed" THEN "absent" ELSE held[a]]
  /\ acked' = IF offset = 0 THEN acked ELSE Larger(acked, offset - 1)
  /\ bot' = [Quiet EXCEPT !.pc = "fetching"]
  /\ UNCHANGED <<chat, offset, window, action, lastId, shown, orders, minute, restarts>>

\* getUpdates answers with what it has from the offset on.
FetchReturns ==
  /\ bot.pc = "fetching"
  /\ bot' = [bot EXCEPT !.pc = "batch", !.upto = Len(chat)]
  /\ UNCHANGED <<chat, acked, offset, window, held, action, lastId, shown, orders,
                 minute, restarts>>

FetchFails ==
  /\ bot.pc = "fetching"
  /\ bot' = Quiet
  /\ UNCHANGED <<chat, acked, offset, window, held, action, lastId, shown, orders,
                 minute, restarts>>

Following == Larger(offset, acked + 1)

BatchDone ==
  /\ bot.pc = "batch"
  /\ Following > bot.upto
  /\ bot' = Quiet
  /\ UNCHANGED <<chat, acked, offset, window, held, action, lastId, shown, orders,
                 minute, restarts>>

\* Fault: the offset is the update's number, not the one after it.
TakeAgain(kinds) ==
  /\ bot.pc = "batch"
  /\ Following <= bot.upto
  /\ chat[Following].kind \in kinds
  /\ offset' = Following
  /\ UNCHANGED <<chat, acked, orders, minute, restarts>>

\* The next update of the batch; the offset passes it before it is handled.
Take(kinds) ==
  /\ bot.pc = "batch"
  /\ Following <= bot.upto
  /\ chat[Following].kind \in kinds
  /\ offset' = Following + 1
  /\ UNCHANGED <<chat, acked, orders, minute, restarts>>

NextUpdate == [bot EXCEPT !.pc = "batch", !.update = 0, !.ids = {}, !.parts = {}]
At(pc) == bot' = [bot EXCEPT !.pc = pc, !.update = Following]

-----------------------------------------------------------------------------
(* handleMessage                                                            *)

Heard(u) == chat[u].by = "owner" /\ minute - chat[u].at <= MaxAge

Recent == SelectSeq(window, LAMBDA w : w.at + 1 > minute)
RateAllows(trade) ==
  /\ Len(Recent) < MaxCommands
  /\ trade => Len(SelectSeq(Recent, LAMBDA w : w.trade)) < MaxTrades
\* window.filter keeps what is less than a minute old.
ConsumeRateLimit(trade) ==
  /\ RateAllows(trade)
  /\ window' = Append(Recent, [at |-> minute, trade |-> trade])

\* isAuthorizedMessage and the age of the message.
MessageIgnored ==
  /\ Take(Commands)
  /\ ~Heard(Following)
  /\ UNCHANGED bot
  /\ UNCHANGED <<window, held, action, lastId, shown>>

RateLimited ==
  /\ Take(Commands)
  /\ Heard(Following)
  /\ ~RateAllows(chat[Following].kind \in TradeCommands)
  /\ At("replying")
  /\ UNCHANGED <<window, held, action, lastId, shown>>

\* A message that is no command: its reply does not count against the rates.
NotUnderstood ==
  /\ Take({"query"})
  /\ Heard(Following)
  /\ At("replying")
  /\ UNCHANGED <<window, held, action, lastId, shown>>

\* A command that only reads, or whose checks fail before it awaits anything.
Answer ==
  /\ Take(Commands)
  /\ Heard(Following)
  /\ ConsumeRateLimit(chat[Following].kind \in TradeCommands)
  /\ At("replying")
  /\ UNCHANGED <<held, action, lastId, shown>>

\* prepareBuy and prepareHyperBuy await a quote and the balances.
PrepareBuy ==
  /\ Take({"buy"})
  /\ Heard(Following)
  /\ ConsumeRateLimit(TRUE)
  /\ lastId < MaxActions
  /\ \E p \in Position :
       bot' = [bot EXCEPT !.pc = "preparing", !.update = Following, !.parts = {p}]
  /\ UNCHANGED <<held, action, lastId, shown>>

\* storePending.
Store(type, parts, ttl) ==
  /\ lastId < MaxActions
  /\ lastId' = lastId + 1
  /\ held' = [held EXCEPT ![lastId + 1] = "waiting"]
  /\ action' = [action EXCEPT ![lastId + 1] =
                  [type |-> type, parts |-> parts, deadline |-> minute + ttl]]

Announcing == bot' = [bot EXCEPT !.pc = "announcing", !.update = Following,
                                 !.ids = {lastId + 1}, !.parts = {}]

\* prepareSellAll: one action for every open position of a chain.
PrepareSellAll ==
  /\ Take({"sellAll"})
  /\ Heard(Following)
  /\ ConsumeRateLimit(TRUE)
  /\ \E open \in OpenPositions : Store("confirm", open, ConfirmTtl)
  /\ Announcing
  /\ UNCHANGED shown

\* sendPositions: one of the positions it lists; the others are alike.  The
\* bound leaves an identifier for each update to come.
SendPositions ==
  /\ Take({"positions"})
  /\ Heard(Following)
  /\ ConsumeRateLimit(FALSE)
  /\ lastId + MaxUpdates < MaxActions + Following
  /\ \E p \in Position : Store("position", {p}, PositionTtl)
  /\ Announcing
  /\ UNCHANGED shown

\* createConfirmation stores the action before it sends the message.
Prepared ==
  /\ bot.pc = "preparing"
  /\ Store("confirm", bot.parts, ConfirmTtl)
  /\ bot' = [bot EXCEPT !.pc = "announcing", !.ids = {lastId + 1}, !.parts = {}]
  /\ UNCHANGED <<chat, acked, offset, window, shown, orders, minute, restarts>>

PrepareFails ==
  /\ bot.pc = "preparing"
  /\ chat[bot.update].kind = "buy"
  /\ bot' = [bot EXCEPT !.pc = "replying"]
  /\ UNCHANGED <<chat, acked, offset, window, held, action, lastId, shown, orders,
                 minute, restarts>>

Announced ==
  /\ bot.pc = "announcing"
  /\ shown' = shown \cup bot.ids
  /\ bot' = NextUpdate
  /\ UNCHANGED <<chat, acked, offset, window, held, action, lastId, orders, minute,
                 restarts>>

\* The message is not sent, or sent without an answer.  After a message of the
\* owner the error is reported; after a click it ends the poll.
AnnounceFails ==
  /\ bot.pc = "announcing"
  /\ shown' \in {shown, shown \cup bot.ids}
  /\ bot' = IF chat[bot.update].kind = "choose" THEN Quiet
            ELSE [bot EXCEPT !.pc = "replying", !.ids = {}, !.parts = {}]
  /\ UNCHANGED <<chat, acked, offset, window, held, action, lastId, orders, minute,
                 restarts>>

-----------------------------------------------------------------------------
(* handleCallback                                                           *)

NotAuthorized ==
  /\ Take(Buttons)
  /\ chat[Following].by # "owner"
  /\ UNCHANGED bot
  /\ UNCHANGED <<window, held, action, lastId, shown>>

\* Fault: an action that runs or ran may be confirmed again.
ConfirmableAgain(a) == action[a].type # "none" /\ ~Expired(a)

Confirmable(a) == held[a] = "waiting" /\ ~Expired(a)

TooLate ==
  /\ Take(Buttons)
  /\ LET a == chat[Following].action IN
       /\ chat[Following].by = "owner"
       /\ ~Confirmable(a)
       /\ held' = [held EXCEPT ![a] = "absent"]
  /\ UNCHANGED bot
  /\ UNCHANGED <<window, action, lastId, shown>>

\* Fault: the buttons are removed but the action stays.
CancelKeeps ==
  /\ Take({"cancel"})
  /\ LET a == chat[Following].action IN
       /\ chat[Following].by = "owner"
       /\ Confirmable(a)
  /\ At("replying")
  /\ UNCHANGED <<window, held, action, lastId, shown>>

Cancel ==
  /\ Take({"cancel"})
  /\ LET a == chat[Following].action IN
       /\ chat[Following].by = "owner"
       /\ Confirmable(a)
       /\ held' = [held EXCEPT ![a] = "absent"]
  /\ At("replying")
  /\ UNCHANGED <<window, action, lastId, shown>>

\* A percentage of a position is chosen: a confirmation takes its place.
ChoosePercent ==
  /\ Take({"choose"})
  /\ LET a == chat[Following].action IN
       /\ chat[Following].by = "owner"
       /\ Confirmable(a)
       /\ held' = [held EXCEPT ![a] = "absent"]
       /\ bot' = [bot EXCEPT !.pc = "preparing", !.update = Following,
                             !.parts = action[a].parts]
  /\ UNCHANGED <<window, action, lastId, shown>>

Confirm ==
  /\ Take({"confirm"})
  /\ LET a == chat[Following].action IN
       /\ chat[Following].by = "owner"
       /\ Confirmable(a)
       /\ held' = [held EXCEPT ![a] = "consumed"]
       /\ bot' = [bot EXCEPT !.pc = "executing", !.update = Following,
                             !.ids = {a}, !.parts = action[a].parts]
  /\ UNCHANGED <<window, action, lastId, shown>>

\* executePending: the route is called for one position after the other; a
\* failure of one does not keep the rest from being tried.
ExecuteTradeAction(p) ==
  /\ bot.pc = "executing"
  /\ p \in bot.parts
  /\ \E a \in bot.ids : orders' = [orders EXCEPT ![a][p] = @ + 1]
  /\ bot' = [bot EXCEPT !.parts = @ \ {p}]
  /\ UNCHANGED <<chat, acked, offset, window, held, action, lastId, shown, minute,
                 restarts>>

Executed ==
  /\ bot.pc = "executing"
  /\ bot.parts = {}
  /\ bot' = [bot EXCEPT !.pc = "replying"]
  /\ UNCHANGED <<chat, acked, offset, window, held, action, lastId, shown, orders,
                 minute, restarts>>

\* The result, or the error, is sent, and an executed action is dropped.
Replied ==
  /\ bot.pc = "replying"
  /\ held' = [a \in ActionId |-> IF a \in bot.ids THEN "absent" ELSE held[a]]
  /\ bot' = NextUpdate
  /\ UNCHANGED <<chat, acked, offset, window, action, lastId, shown, orders, minute,
                 restarts>>

\* Telegram does not take the reply: the rest of the batch is left for the
\* next poll.
ReplyFails ==
  /\ bot.pc = "replying"
  /\ held' = [a \in ActionId |-> IF a \in bot.ids THEN "absent" ELSE held[a]]
  /\ bot' = Quiet
  /\ UNCHANGED <<chat, acked, offset, window, action, lastId, shown, orders, minute,
                 restarts>>

-----------------------------------------------------------------------------
MinutePasses ==
  /\ minute < MaxTime
  /\ minute' = minute + 1
  /\ UNCHANGED <<chat, acked, offset, bot, window, held, action, lastId, shown, orders,
                 restarts>>

\* The process ends and starts again: its memory is gone, the chat is not.
BotRestarts ==
  /\ restarts < MaxRestarts
  /\ restarts' = restarts + 1
  /\ offset' = 0
  /\ bot' = Quiet
  /\ window' = <<>>
  /\ held' = [a \in ActionId |-> "absent"]
  /\ UNCHANGED <<chat, acked, action, lastId, shown, orders, minute>>

HandleMessage ==
  MessageIgnored \/ NotUnderstood \/ RateLimited \/ Answer \/ PrepareBuy \/ PrepareSellAll \/ SendPositions

HandleCallback == NotAuthorized \/ TooLate \/ Cancel \/ ChoosePercent \/ Confirm

HandlerContinues ==
  \/ Prepared \/ PrepareFails \/ Announced \/ AnnounceFails
  \/ \E p \in Position : ExecuteTradeAction(p)
  \/ Executed \/ Replied \/ ReplyFails

PollStep == StartPoll \/ FetchReturns \/ BatchDone \/ HandleMessage \/ HandleCallback
            \/ HandlerContinues

CommandsNext == Say \/ Click \/ PollStep \/ FetchFails \/ MinutePasses \/ BotRestarts

CommandsSpec == CommandsInit /\ [][CommandsNext]_commandVars

\* The timer polls again after every poll, every awaited call ends, and
\* Telegram can be reached again and again.
CommandsFairness == WF_commandVars(PollStep) /\ SF_commandVars(FetchReturns)
CommandsFairSpec == CommandsSpec /\ CommandsFairness

-----------------------------------------------------------------------------
CommandsTypeOK ==
  /\ chat \in Seq([kind : Commands \cup Buttons, action : 0..MaxActions,
                   by : {"owner", "stranger"}, at : 0..MaxTime])
  /\ Len(chat) <= MaxUpdates
  /\ acked \in 0..MaxUpdates
  /\ offset \in 0..MaxUpdates + 1
  /\ bot \in [pc : {"idle", "fetching", "batch", "preparing", "announcing",
                    "executing", "replying"},
              upto : 0..MaxUpdates, update : 0..MaxUpdates,
              ids : SUBSET ActionId, parts : SUBSET Position]
  /\ window \in Seq([at : 0..MaxTime, trade : BOOLEAN])
  /\ held \in [ActionId -> {"absent", "waiting", "consumed"}]
  /\ action \in [ActionId -> [type : {"none", "confirm", "position"},
                              parts : SUBSET Position, deadline : Nat]]
  /\ lastId \in 0..MaxActions
  /\ shown \subseteq ActionId
  /\ orders \in [ActionId -> [Position -> Nat]]
  /\ minute \in 0..MaxTime
  /\ restarts \in 0..MaxRestarts

Ordered(a) == \E p \in Position : orders[a][p] > 0
ClicksOn(a) == {u \in 1..Len(chat) : chat[u].action = a /\ chat[u].by = "owner"}

\* However often a confirmation is clicked, redelivered or interrupted, each
\* position of the action goes to the trade route at most once.
OneOrderPerConfirmation == \A a \in ActionId, p \in Position : orders[a][p] <= 1

\* An order needs a confirmation that the owner gave before the deadline the
\* message stated, however late the update arrives, and what the owner did first
\* with the buttons decides: nothing revives an action that was cancelled.
OrderedAsConfirmed ==
  \A a \in ActionId : Ordered(a) =>
    \E u \in ClicksOn(a) : /\ chat[u].kind = "confirm"
                          /\ chat[u].at < action[a].deadline
                          /\ \A v \in ClicksOn(a) : u <= v

\* Every update is eventually handled and forgotten by Telegram, across failed
\* replies, failed polls and a restart.
UpdatesAreConsumed == []<>(acked = Len(chat))

===============================================================================
