-------------------------- MODULE MCTradingServices ---------------------------
(***************************************************************************)
(* One run for several components that share no state: part says which one *)
(* a behaviour is about; the others rest in an initial state of theirs.    *)
(***************************************************************************)
EXTENDS SwapExecution, QuoteSearch, QuoteRouting, PaperBooks, ExecutionLots, TLC

CONSTANTS sale, purchase, order, mirror, rival, source

VARIABLE part

allVars == <<part, swapVars, searchVars, routingVars, paperVars, lotVars>>

\* One purchase and one sale of a token, of one unit each.
SideOfEach == sale :> "sell" @@ purchase :> "buy"
OneUnit == sale :> 1 @@ purchase :> 1

ServicesInit ==
  /\ part \in {"swap", "search", "routing", "paper", "lots"}
  /\ SwapsInit /\ SearchInit /\ RoutingInit /\ PaperInit /\ LotsInit
  /\ part # "swap" => network = "evm"
  /\ part # "search" => job = "buy" /\ yield = 0 /\ high = 0
  /\ part # "routing" => tradedOn = "base" /\ ~young /\ exits = {}
  /\ part # "lots" => mode = "shadow" /\ heldOn = "evm"

ServicesNext ==
  /\ UNCHANGED part
  /\ \/ part = "swap" /\ SwapsNext /\ UNCHANGED <<searchVars, routingVars, paperVars, lotVars>>
     \/ part = "search" /\ SearchNext /\ UNCHANGED <<swapVars, routingVars, paperVars, lotVars>>
     \/ part = "routing" /\ RoutingNext /\ UNCHANGED <<swapVars, searchVars, paperVars, lotVars>>
     \/ part = "paper" /\ PaperNext /\ UNCHANGED <<swapVars, searchVars, routingVars, lotVars>>
     \/ part = "lots" /\ LotsNext /\ UNCHANGED <<swapVars, searchVars, routingVars, paperVars>>

ServicesSpec == ServicesInit /\ [][ServicesNext]_allVars

\* The operations on paper, and the handlers of the lots, are interchangeable.
Interchangeable == Permutations({mirror, rival})

===============================================================================
