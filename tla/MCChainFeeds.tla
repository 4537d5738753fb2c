----------------------------- MODULE MCChainFeeds ------------------------------
(***************************************************************************)
(* One run for what watches the chains.  The watchers of the EVM chain are *)
(* MCChainWatcher's; the feeds of Solana and Hyperliquid, the pool of RPC  *)
(* endpoints and the client of HyperCore's Info API share no state with    *)
(* them, nor with each other: part says which of them a behaviour is       *)
(* about, and the others rest in an initial state.                         *)
(***************************************************************************)
EXTENDS MCChainWatcher, SolanaFeed, HypercoreFeed, EvmRpcPool, HypercoreInfo

CONSTANTS marketList, prices, fills

VARIABLE part

allVars == <<part, vars, solanaVars, subscriptionVars, poolVars, infoVars>>

\* Two transactions of one wallet of the Solana lists.
OwnerOfEach == <<"a", "a">>
SlotOfEach == <<1, 2>>

FeedsInit ==
  /\ part \in {"watchers", "solana", "hypercore", "pool", "info"}
  /\ Init /\ SolanaInit /\ SubscriptionsInit /\ PoolInit /\ InfoInit
  /\ part # "solana" => list = {} /\ replayed = 0
  /\ part # "hypercore" => tracked = {}
  /\ part # "pool" => refusing = {}

FeedsNext ==
  /\ UNCHANGED part
  /\ \/ part = "watchers" /\ MonitorNext /\ UNCHANGED <<solanaVars, subscriptionVars, poolVars, infoVars>>
     \/ part = "solana" /\ SolanaNext /\ UNCHANGED <<vars, subscriptionVars, poolVars, infoVars>>
     \/ part = "hypercore" /\ SubscriptionsNext /\ UNCHANGED <<vars, solanaVars, poolVars, infoVars>>
     \/ part = "pool" /\ PoolNext /\ UNCHANGED <<vars, solanaVars, subscriptionVars, infoVars>>
     \/ part = "info" /\ InfoNext /\ UNCHANGED <<vars, solanaVars, subscriptionVars, poolVars>>

FeedsSpec == FeedsInit /\ [][FeedsNext]_allVars

===============================================================================
