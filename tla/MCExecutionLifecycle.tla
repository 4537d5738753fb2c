------------------------ MODULE MCExecutionLifecycle --------------------------
(***************************************************************************)
(* Instances of ExecutionLifecycle for TLC.                                *)
(***************************************************************************)
EXTENDS ExecutionLifecycle, TLC

CONSTANTS h1, h2, o1, o2, chain1, chain2

\* One order on one integration of each kind.
OnlyChain == [o \in Order |-> chain1]
Evm == [c \in Chain |-> "evm"]
HyperCoreOnly == [c \in Chain |-> "hypercore"]
SolanaOnly == [c \in Chain |-> "solana"]

\* Without the operator's halts and requests.
Unattended == UNCHANGED <<route, stopped>> /\ check'[Operator] = NoCheck
UnattendedFairSpec == Init /\ [][Next /\ Unattended]_vars /\ Fairness

HandlerSymmetry == Permutations(Handler)

===============================================================================
