--------------------------- MODULE MCSocialSignals ----------------------------
(***************************************************************************)
(* An instance of SocialSignals for TLC: the connection alone, without     *)
(* messages.                                                               *)
(***************************************************************************)
EXTENDS SocialSignals

CONSTANTS chat1, caller1

NoSignals == [s \in {} |-> s]

===============================================================================
