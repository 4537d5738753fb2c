----------------------------- MODULE SocialSignals -----------------------------
(***************************************************************************)
(* Social signals (telegram-user-signal-service): the operator's own       *)
(* Telegram session listens to selected chats, keeps a signal for every    *)
(* token that is mentioned, and asks the AI about one token in each window *)
(* of fifteen minutes.                                                     *)
(*                                                                         *)
(* A client is numbered by its creation; the library may reconnect one     *)
(* that lost its connection, until it gives up.  A signal either names a   *)
(* token by its ticker or gives its address.  Time is counted in windows.  *)
(* Left out: titles, prices, the order among candidates, and the research  *)
(* of a project, which adds only text to the question.                     *)
(***************************************************************************)
EXTENDS Naturals, FiniteSets

CONSTANTS
  Chat, Known, \* the chats, and those the account is still a member of
  Caller,      \* requests that call ensureTelegramUserSignalService
  Token,
  Signal, Ticker, ChatOf, TokenOf, \* what messages mention; Ticker \subseteq Signal
  Outdated,    \* addresses whose market an earlier release may have failed to find
  Cooldown,    \* SOCIAL_AI_BACKLOG_MS = SOCIAL_AI_COOLDOWN_MS, in windows (24)
  DailyLimit,  \* dailyAiLimit
  MaxClients, MaxChanges, MaxTime \* bounds

ASSUME SocialAssumption ==
  /\ Known \subseteq Chat /\ Ticker \subseteq Signal /\ Outdated \subseteq Signal \ Ticker
  /\ ChatOf \in [Signal -> Chat] /\ TokenOf \in [Signal -> Token]
  /\ {Cooldown, DailyLimit, MaxClients, MaxChanges, MaxTime} \subseteq Nat

VARIABLES
  wanted,    \* the stored settings: the selected chats, {} when disabled
  changes,
  client,    \* the current client, 0 if none
  online,    \* clients that are connected
  retrying,  \* clients the library still reconnects
  listens,   \* for each client the chats its event handler accepts
  selection, \* selectionKey; {} without a handler
  connecting, \* a connect() is under way
  call,
  window,    \* the time
  stored,    \* for each signal when it was stored
  status,
  timer,     \* aiBatchTimer
  served,    \* aiBatchWindow
  batch,     \* aiBatchRunning
  asked,     \* for each signal when an opinion on it was stored
  used       \* ai_request_usage of the day

connection == <<client, online, retrying, listens, selection, connecting, call>>
signalState == <<stored, status>>
opinions == <<timer, served, batch, asked, used>>
socialVars == <<wanted, changes, connection, window, signalState, opinions>>

Never == MaxTime + Cooldown + 1
Idle == [pc |-> "idle", chats |-> {}]
NoBatch == [pc |-> "none", at |-> 0, signal |-> {}]

SocialInit ==
  /\ wanted = {} /\ changes = 0
  /\ client = 0 /\ online = {} /\ retrying = {}
  /\ listens = [k \in 1..MaxClients |-> {}] /\ selection = {}
  /\ connecting = FALSE /\ call = [c \in Caller |-> Idle]
  /\ window = Cooldown + 1
  /\ \E old \in SUBSET Outdated :
       /\ stored = [s \in Signal |-> IF s \in old THEN Cooldown ELSE Never]
       /\ status = [s \in Signal |-> IF s \in old THEN "outdated" ELSE "unseen"]
  /\ timer = FALSE /\ served = Never /\ batch = NoBatch
  /\ asked = [s \in Signal |-> Never] /\ used = 0

Become(c, pc, chats) == call' = [call EXCEPT ![c] = [pc |-> pc, chats |-> chats]]

\* The row of a signal.
Upsert(s, result) == status' = [status EXCEPT ![s] = result]

\* The requests of today, and reserving one more of them.
BudgetLeft == used < DailyLimit
Reserve == BudgetLeft /\ used' = used + 1

-----------------------------------------------------------------------------
(* The batch of questions                                                   *)

\* runSocialAiBatchOnce: one batch at a time, and one for each window; it only
\* begins within the budget of the day.
RunOnce ==
  IF batch.pc # "none" \/ served = window THEN UNCHANGED <<served, batch>>
  ELSE /\ served' = window
       /\ batch' = IF wanted # {} /\ BudgetLeft
                   THEN [NoBatch EXCEPT !.pc = "refreshing", !.at = window] ELSE NoBatch

\* Opinions of the last six hours, by the signals they were given on.
Recent(at) == {s \in Signal : asked[s] # Never /\ at < asked[s] + Cooldown}

\* shouldRequestSocialAi: no opinion on the token, as far as the signals that
\* were asked about are themselves younger than the cooldown.
NoHistory(s, at) == TRUE
NotAskedLately(s, at) ==
  \A r \in Recent(at) :
    TokenOf[r] = TokenOf[s] /\ r # s => at >= stored[r] + Cooldown

\* A token whose ticker was mentioned in the backlog, with an address whose
\* market is known.
Mentioned(t, at) ==
  \E s \in Ticker : TokenOf[s] = t /\ at <= stored[s] + Cooldown /\ stored[s] < at

Candidates(at) ==
  {s \in Signal \ Ticker :
     status[s] = "analyzed" /\ Mentioned(TokenOf[s], at) /\ NotAskedLately(s, at)}

\* runSocialAiBatch after the markets were refreshed: the best candidate is
\* asked about, or no candidate's market is worth it.
Choose ==
  /\ batch.pc = "refreshing" /\ \A s \in Signal : status[s] # "outdated"
  /\ \/ batch' = NoBatch
     \/ \E s \in Candidates(batch.at) : batch' = [batch EXCEPT !.pc = "asking", !.signal = {s}]
  /\ UNCHANGED <<wanted, changes, connection, window, signalState, timer, served, asked, used>>

\* queueTradeAdvisory: nothing is asked twice about a signal, nor beyond the
\* budget.  A question that is not answered counts, and its window may be tried
\* again.
Asked(s) == asked[s] # Never

Opinion ==
  /\ batch.pc = "asking" /\ batch' = NoBatch
  /\ \E s \in batch.signal :
       \/ Asked(s) /\ UNCHANGED <<served, asked, used>>
       \/ /\ ~Asked(s) /\ Reserve
          /\ \/ asked' = [asked EXCEPT ![s] = window] /\ UNCHANGED served
             \/ served' = Never /\ UNCHANGED asked
       \/ ~Asked(s) /\ ~BudgetLeft /\ served' = Never /\ UNCHANGED <<asked, used>>
  /\ UNCHANGED <<wanted, changes, connection, window, signalState, timer>>

\* The timer at the end of the window; it is set again if still enabled (once the
\* batch is over, which makes no difference: ensure sets it meanwhile).
TimerFires ==
  /\ timer /\ RunOnce /\ timer' = (wanted # {})
  /\ UNCHANGED <<wanted, changes, connection, window, signalState, asked, used>>

-----------------------------------------------------------------------------
(* ensureTelegramUserSignalService, called by the dashboard and the page of *)
(* the signals                                                              *)

\* removeHandler takes the handler off the current client.
Removed == IF selection = {} THEN listens ELSE [listens EXCEPT ![client] = {}]

Disabled(c) ==
  /\ wanted = {} /\ listens' = Removed /\ selection' = {}
  /\ timer' = FALSE /\ served' = Never
  /\ UNCHANGED <<client, online, retrying, connecting, call, batch>>

\* Once connected: the batch is looked after, and the handler is replaced if
\* the selection has changed since it was installed.
HasHandler(chats) == selection # {}
SelectionInstalled(chats) == selection = chats

Connected(c, chats) ==
  /\ timer' = TRUE /\ RunOnce
  /\ IF SelectionInstalled(chats) THEN Become(c, "idle", {}) ELSE Become(c, "dialogs", chats)
  /\ UNCHANGED <<client, online, retrying, listens, selection, connecting>>

\* connect() is shared by all callers that find the client offline.
MustConnect(c) ==
  /\ client \notin online /\ (~connecting => client < MaxClients)
  /\ connecting' = TRUE /\ Become(c, "connecting", wanted)
  /\ UNCHANGED <<client, online, retrying, listens, selection, timer, served, batch>>

Ensure(c) ==
  /\ call[c].pc = "idle"
  /\ \/ Disabled(c)
     \/ wanted # {} /\ client \in online /\ Connected(c, wanted)
     \/ wanted # {} /\ MustConnect(c)
  /\ UNCHANGED <<wanted, changes, window, signalState, asked, used>>

Waiting(pc) == [c \in Caller |-> IF call[c].pc = "connecting" THEN [call[c] EXCEPT !.pc = pc] ELSE call[c]]

ConnectSucceeds ==
  /\ connecting /\ connecting' = FALSE
  /\ client' = client + 1
  /\ online' = online \union {client + 1} /\ retrying' = retrying \union {client + 1}
  /\ call' = Waiting("connected")
  /\ UNCHANGED <<wanted, changes, listens, selection, window, signalState, opinions>>

\* The error is shown in the status; the next call tries again.
ConnectFails ==
  /\ connecting /\ connecting' = FALSE
  /\ call' = [c \in Caller |-> IF call[c].pc = "connecting" THEN Idle ELSE call[c]]
  /\ UNCHANGED <<wanted, changes, client, online, retrying, listens, selection, window, signalState, opinions>>

Proceed(c) ==
  /\ call[c].pc = "connected" /\ Connected(c, call[c].chats)
  /\ UNCHANGED <<wanted, changes, window, signalState, asked, used>>

\* The dialogs have come: the handler is installed for the chats that were read
\* at the start of the call, on the client that is current now; or only taken
\* off, when the account knows none of the chats.
Installable(chats) == IF chats \intersect Known = {} THEN {} ELSE chats

Install(c) ==
  /\ call[c].pc = "dialogs"
  /\ listens' = [Removed EXCEPT ![client] = Installable(call[c].chats)]
  /\ selection' = Installable(call[c].chats)
  /\ Become(c, "idle", {})
  /\ UNCHANGED <<wanted, changes, client, online, retrying, connecting, window, signalState, opinions>>

DialogsFail(c) ==
  /\ call[c].pc = "dialogs" /\ Become(c, "idle", {})
  /\ UNCHANGED <<wanted, changes, client, online, retrying, listens, selection, connecting, window,
                 signalState, opinions>>

-----------------------------------------------------------------------------
(* Messages                                                                 *)

\* A message of an accepted chat reaches the handler of a connected client;
\* processReference stores each reference once.
Hear(s) ==
  /\ status[s] = "unseen"
  /\ \E k \in online : ChatOf[s] \in listens[k]
  /\ stored' = [stored EXCEPT ![s] = window]
  /\ Upsert(s, "detected")
  /\ UNCHANGED <<wanted, changes, connection, window, opinions>>

\* What a lookup of the market at DexScreener or the provider ends with.
Lookup == {"analyzed", "market_unavailable"}

StoreOutcome(s) ==
  /\ \E found \in Lookup : Upsert(s, found)
  /\ UNCHANGED <<wanted, changes, connection, window, stored, opinions>>

\* A ticker stays as it is; of an address the market is looked up.
Resolve(s) == status[s] = "detected" /\ s \notin Ticker /\ StoreOutcome(s)

\* refreshSocialSignalMarkets, for the page or the batch: what an earlier
\* release could not find is looked up again; the others get new prices only.
RefreshSignal(s) == status[s] = "outdated" /\ StoreOutcome(s)

-----------------------------------------------------------------------------
(* The operator, Telegram and time                                          *)

\* The settings are stored; the request then calls ensure like any other.
ChangeSettings(chats) ==
  /\ changes < MaxChanges /\ chats # wanted
  /\ wanted' = chats /\ changes' = changes + 1
  /\ UNCHANGED <<connection, window, signalState, opinions>>

LoseConnection(k) ==
  /\ k \in online /\ online' = online \ {k}
  /\ client < MaxClients
  /\ UNCHANGED <<wanted, changes, client, retrying, listens, selection, connecting, call, window,
                 signalState, opinions>>

Reconnect(k) ==
  /\ k \in retrying \ online /\ online' = online \union {k}
  /\ UNCHANGED <<wanted, changes, client, retrying, listens, selection, connecting, call, window,
                 signalState, opinions>>

GiveUp(k) ==
  /\ k \in retrying \ online /\ retrying' = retrying \ {k}
  /\ UNCHANGED <<wanted, changes, client, online, listens, selection, connecting, call, window,
                 signalState, opinions>>

Pass ==
  /\ window < MaxTime /\ window' = window + 1
  /\ UNCHANGED <<wanted, changes, connection, signalState, opinions>>

Service(c) == Proceed(c) \/ Install(c) \/ DialogsFail(c)

Telegram == \E k \in 1..client : LoseConnection(k) \/ Reconnect(k) \/ GiveUp(k)

SocialNext ==
  \/ \E c \in Caller : Ensure(c) \/ Service(c)
  \/ ConnectSucceeds \/ ConnectFails
  \/ Choose \/ Opinion \/ TimerFires
  \/ \E s \in Signal : Hear(s) \/ Resolve(s) \/ RefreshSignal(s)
  \/ \E chats \in SUBSET Chat : ChangeSettings(chats)
  \/ Telegram \/ Pass

SocialSpec == SocialInit /\ [][SocialNext]_socialVars

\* The dashboard calls ensure again and again; what it awaits returns, and
\* connections and dialogs do not fail for ever.
SocialFairness ==
  /\ SF_socialVars(ConnectSucceeds)
  /\ \A c \in Caller :
       WF_socialVars(Ensure(c)) /\ WF_socialVars(Service(c)) /\ SF_socialVars(Install(c))

SocialFairSpec == SocialSpec /\ SocialFairness

-----------------------------------------------------------------------------
\* Clients, calls and signals have their types.
SocialTypeOK ==
  /\ wanted \subseteq Chat /\ selection \subseteq Chat
  /\ client \in 0..MaxClients /\ online \subseteq 1..client /\ retrying \subseteq 1..client
  /\ \A c \in Caller : call[c].pc \in {"idle", "connecting", "connected", "dialogs"}
  /\ batch.pc \in {"none", "refreshing", "asking"}

\* When the operator leaves the settings alone, the installed selection becomes
\* theirs and stays so, although calls that read older settings may be the last
\* to install theirs.
SelectionSettles == <>[](selection = Installable(wanted))

\* When the operator leaves the settings alone and a client stays connected, the
\* messages of the selected chats reach a handler: "an optional Telegram user
\* session can read one explicitly configured source group" (README.md).
Heard == \A chat \in Installable(wanted) : \E k \in online : chat \in listens[k]
SelectedChatsAreHeard ==
  \A k \in 1..MaxClients : <>[](k \in online) => <>[]Heard

AskedTwice(r, s) ==
  /\ r # s /\ TokenOf[r] = TokenOf[s] /\ Asked(r) /\ Asked(s)
  /\ asked[r] <= asked[s] /\ asked[s] < asked[r] + Cooldown

\* Two opinions on one token are given within the cooldown only if the signal
\* of the first was itself older than the cooldown: not by two batches at once,
\* by a window that is tried again, nor by the timer and a request together.
\* (The test that "the same token is not sent to the AI again within six hours"
\* has no older signal.)
OneOpinionUnlessOld ==
  \A r, s \in Signal : AskedTwice(r, s) =>
    \/ asked[s] >= stored[r] + Cooldown
    \/ asked[r] = asked[s] /\ asked[r] >= stored[s] + Cooldown

===============================================================================
