---------------------------- MODULE MCTradeSignals -----------------------------
(***************************************************************************)
(* One run for the signals to trade: the buys of several wallets           *)
(* (MCCopyConsensus) and the operator's Telegram chats (SocialSignals),    *)
(* once for the connection and once for the opinions asked of the AI.      *)
(* They share no state: part says which one a behaviour is about, the      *)
(* others rest in an initial state.  part never changes, so fairness of a  *)
(* disjunction of steps of different parts is fairness of the steps of the *)
(* part at hand.                                                           *)
(***************************************************************************)
EXTENDS MCCopyConsensus, SocialSignals

CONSTANTS chat1, chat2, caller1, caller2, token, ticker, signal1, signal2

VARIABLE part

allVars == <<part, vars, socialVars>>

\* Three mentions of one token in one chat, one of them by its ticker.
OneChat == [s \in Signal |-> chat1]
OneToken == [s \in Signal |-> token]

Buys(A) == part = "buys" /\ A /\ UNCHANGED <<part, socialVars>>

\* Two callers and two chats, of which the account has left one; no messages.
Listening(A) == part = "listening" /\ A /\ UNCHANGED <<part, vars, window, signalState>>

\* One chat, one caller and one client; the settings change once.
OneClient == client <= 1 /\ changes <= 1 /\ call[caller2] = Idle /\ wanted \subseteq {chat1}
Opinions(A) == part = "opinions" /\ A /\ OneClient' /\ UNCHANGED <<part, vars>>

SignalsInit ==
  /\ part \in {"buys", "listening", "opinions"}
  /\ Init /\ SocialInit
  /\ part # "opinions" => \A s \in Signal : status[s] = "unseen"

SignalsNext == Buys(Next) \/ Listening(SocialNext) \/ Opinions(SocialNext)

\* The fairness of CopyConsensus and of SocialSignals.
SignalsFairness ==
  /\ SF_allVars(Buys(~Uninterrupted /\ Step(r1)) \/ Listening(ConnectSucceeds))
  /\ SF_allVars(Buys(~Uninterrupted /\ Step(r2)) \/ Listening(Install(caller1)))
  /\ SF_allVars(Buys(~Uninterrupted /\ Step(r3)) \/ Listening(Install(caller2)))
  /\ SF_allVars(Buys(~Uninterrupted /\ Step(r4)))
  /\ WF_allVars(Buys(FinishStage(r1)) \/ Listening(Ensure(caller1)))
  /\ WF_allVars(Buys(FinishStage(r2)) \/ Listening(Ensure(caller2)))
  /\ WF_allVars(Buys(FinishStage(r3)) \/ Listening(Service(caller1)))
  /\ WF_allVars(Buys(FinishStage(r4)) \/ Listening(Service(caller2)))

SignalsSpec == SignalsInit /\ [][SignalsNext]_allVars /\ SignalsFairness

-----------------------------------------------------------------------------
\* See SelectionSettles in SocialSignals.
ListenersSettle == part = "listening" => SelectionSettles

===============================================================================
