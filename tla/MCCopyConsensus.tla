--------------------------- MODULE MCCopyConsensus ----------------------------
(***************************************************************************)
(* Instances of CopyConsensus for TLC: the third distinct wallet triggers  *)
(* the second stage; w1 buys twice.                                        *)
(***************************************************************************)
EXTENDS CopyConsensus, TLC

CONSTANTS w1, w2, w3, r1, r2, r3, r4

ThreeWallets ==
  (r1 :> w1) @@ (r2 :> w1) @@ (r3 :> w2) @@ (r4 :> w3)

TwoWallets == (r1 :> w1) @@ (r2 :> w1) @@ (r3 :> w2)

===============================================================================
