---------------------------- MODULE MCChainWatcher -----------------------------
(***************************************************************************)
(* Instances of ChainWatcher for TLC: two transactions in one block and    *)
(* one in the next.                                                        *)
(***************************************************************************)
EXTENDS ChainWatcher, TLC

CONSTANTS p1, p2, v1, v2, t1, t2, t3

Blocks == [t \in Tx |-> IF t = t3 THEN 2 ELSE 1]

\* The operator stops nothing, and nothing fails: a watcher is stopped by the
\* stall check only, long after its start was reported.
OnlyStalls == /\ status' = "stopped" => status = "stopped"
              /\ status' = "error" => status = "error" \/ tick' # tick
              /\ \A p \in Process : tick'[p] = "renewing" => start[p] = "none"
StallSpec == Init /\ [][Next /\ OnlyStalls]_vars

\* The second process has a runtime monitor, but nobody uses its interface.
MonitorNext ==
  \/ WorldStep
  \/ p1 \in up /\ ProcessStep(p1)
  \/ p2 \in up /\ Heartbeat(p2)
MonitorSpec == Init /\ [][MonitorNext]_vars

WatcherSymmetry == Permutations(Watcher)

===============================================================================
