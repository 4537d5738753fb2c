---------------------------- MODULE MCLiveTrading -----------------------------
(***************************************************************************)
(* One run for what a live trade goes through: the tests that certify the  *)
(* network beforehand (LiveCertification), the limits it is held to        *)
(* (LiveLimits), the lifecycle of its order (MCExecutionLifecycle) and, on *)
(* HyperCore, the order itself (HypercoreOrders).  They share no state:    *)
(* part says which one a behaviour is about, and the others rest in an     *)
(* initial state.                                                          *)
(***************************************************************************)
EXTENDS MCExecutionLifecycle, LiveCertification, LiveLimits, HypercoreOrders

VARIABLE part

allVars == <<part, vars, certificationVars, limitVars, orderVars>>

LiveInit ==
  /\ part \in {"orders", "certification", "limits", "hypercore"}
  /\ Init /\ CertificationInit /\ LimitsInit /\ OrdersInit
  /\ part # "certification" => network = "dex"
  /\ part # "hypercore" => szi = 0 /\ spot = 0

LiveNext ==
  /\ UNCHANGED part
  /\ \/ part = "orders" /\ Next /\ UNCHANGED <<certificationVars, limitVars, orderVars>>
     \/ part = "certification" /\ CertificationNext /\ UNCHANGED <<vars, limitVars, orderVars>>
     \/ part = "limits" /\ LimitsNext /\ UNCHANGED <<vars, certificationVars, orderVars>>
     \/ part = "hypercore" /\ OrdersNext /\ UNCHANGED <<vars, certificationVars, limitVars>>

LiveSpec == LiveInit /\ [][LiveNext]_allVars

===============================================================================
