-------------------------- MODULE MCOperatorServices --------------------------
(***************************************************************************)
(* One run for the components on the operator's side, which share no       *)
(* state: part says which one a behaviour is about; the others rest in an  *)
(* initial state of theirs.                                                *)
(***************************************************************************)
EXTENDS TelegramCommands, NotificationOutbox, TLC

CONSTANTS position, event

VARIABLE part

\* Every event takes two messages.
TwoMessages == event :> 2

ServicesInit ==
  /\ part \in {"commands", "outbox"}
  /\ CommandsInit /\ OutboxInit
  /\ part # "outbox" => configured

ServicesNext ==
  /\ UNCHANGED part
  /\ \/ part = "commands" /\ CommandsNext /\ UNCHANGED outboxVars
     \/ part = "outbox" /\ OutboxNext /\ UNCHANGED commandVars

ServicesSpec == ServicesInit /\ [][ServicesNext]_<<part, commandVars, outboxVars>>

FairServicesSpec ==
  /\ ServicesSpec
  /\ WF_commandVars(part = "commands" /\ PollStep) /\ SF_commandVars(part = "commands" /\ FetchReturns)
  /\ OutboxFairness

===============================================================================
