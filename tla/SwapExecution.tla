----------------------------- MODULE SwapExecution -----------------------------
(***************************************************************************)
(* The execute half of the adapters in lib/execution: an accepted plan of  *)
(* one token is approved, simulated, sent, recorded, waited for, and       *)
(* measured by the change of the account's balances.  Several executions   *)
(* of the token run at once: copy trades, manual trades and exits share    *)
(* the account and nothing serialises them.                                *)
(*                                                                         *)
(* chain is the history of the account: what each transaction left behind. *)
(* An RPC node answers a read with the latest state or the one before it;  *)
(* two reads may be answered by different nodes.  Amounts are small        *)
(* numbers; a poll that still reads the old value is a step not taken, one *)
(* that gives up is Throws.                                                *)
(***************************************************************************)
EXTENDS Integers, Sequences

CONSTANTS
  Swap,      \* the executions
  Side,      \* "buy" or "sell", by execution
  Amount,    \* what the plan sells: coins of a purchase, tokens of a sale
  Held,      \* what the account holds of the token at first
  Coins,     \* and of the native coin
  Networks   \* where the token may be traded

ASSUME SwapAssumption ==
  /\ Side \in [Swap -> {"buy", "sell"}]
  /\ Amount \in [Swap -> Nat \ {0}]
  /\ Held \in Nat
  /\ Coins \in Nat
  /\ Networks \subseteq {"evm", "robinhood", "solana", "hypercore"}
  /\ Swap \cap {"genesis", "approval"} = {}

VARIABLES
  network,   \* where the token is traded; "evm" is Ethereum or Base
  venue,     \* Robinhood: the Uniswap v4 pool ("amm") or the portal
  chain,     \* what the account's transactions left behind, oldest first
  tx,        \* each transaction an execution may send
  run,       \* where each execution is, and its local variables
  recorded,  \* executions whose submission onSubmitted has stored
  lost,      \* executions with an answer to a submission that never came
  result     \* what an execution reports

swapVars == <<network, venue, chain, tx, run, recorded, lost, result>>

Spender == {"router", "permit2", "portal"}
\* Approvals, the swap, and the swap a slippage error makes Solana send anew.
Slot == {"approve1", "approve2", "swap", "again"}

NoResult == [token |-> 0, native |-> 0, from |-> 0, base |-> 0, to |-> 0]
FreshSwap == [pc |-> "planned", need |-> 1, before |-> 0, from |-> 0, native |-> 0,
          base |-> 0, retried |-> FALSE, to |-> 0, after |-> 0]

SwapsInit ==
  /\ network \in Networks
  /\ venue \in IF network = "robinhood" THEN {"amm", "portal"} ELSE {"amm"}
  /\ chain = <<[by |-> "genesis", token |-> Held, native |-> Coins,
                allowance |-> [p \in Spender |-> 0]]>>
  /\ tx = [s \in Swap |-> [k \in Slot |-> "none"]]
  /\ run = [s \in Swap |-> FreshSwap]
  /\ recorded = {}
  /\ lost = {}
  /\ result = [s \in Swap |-> NoResult]

Latest == chain[Len(chain)]
\* The states an RPC node may answer with.
Nodes == {n \in {Len(chain) - 1, Len(chain)} : n > 0}

SwapAt(s, pc) == run[s].pc = pc
Go(s, pc) == run' = [run EXCEPT ![s].pc = pc]
SwapEnds(s, pc) == run' = [run EXCEPT ![s] = [FreshSwap EXCEPT !.pc = pc, !.retried = run[s].retried]]

-----------------------------------------------------------------------------
(* The balance before, and the approvals of a sale                          *)

ReadBalance(s, next) ==
  /\ SwapAt(s, "planned")
  /\ \E n \in Nodes :
       run' = [run EXCEPT ![s].before = chain[n].token, ![s].from = n,
                          ![s].pc = next]
  /\ UNCHANGED <<network, venue, chain, tx, recorded, lost, result>>

EvmReadBalance(s) ==
  /\ network = "evm"
  /\ ReadBalance(s, IF Side[s] = "sell" THEN "approving" ELSE "sending")

RobinhoodReadBalance(s) ==
  /\ network = "robinhood"
  /\ ReadBalance(s, IF Side[s] = "sell" THEN "approving" ELSE "sending")

SolanaReadBalance(s) == network = "solana" /\ ReadBalance(s, "sending")

\* A balance is read for every order here and used for spot purchases only.
HypercoreReadBalance(s) == network = "hypercore" /\ ReadBalance(s, "sending")

\* Whom a sale must have approved, in order.
RobinhoodNeeds == IF venue = "portal" THEN <<"portal">> ELSE <<"permit2", "router">>
Needs == IF network = "robinhood" THEN RobinhoodNeeds
         ELSE IF network = "evm" THEN <<"router">> ELSE <<>>

Spending(s) == Needs[run[s].need]
MoreNeeds(s) == run[s].need <= Len(Needs)
ApproveSlot(s) == IF run[s].need = 1 THEN "approve1" ELSE "approve2"

NextNeed(s) == run' = [run EXCEPT ![s].need = @ + 1, ![s].pc = "approving"]

AllowanceSuffices(s) ==
  /\ SwapAt(s, "approving")
  /\ MoreNeeds(s)
  /\ \E n \in Nodes : chain[n].allowance[Spending(s)] >= Amount[s]
  /\ NextNeed(s)
  /\ UNCHANGED <<network, venue, chain, tx, recorded, lost, result>>

\* An approval of exactly the amount is sent, whatever was approved before.
ApprovesToken(s) ==
  /\ SwapAt(s, "approving")
  /\ MoreNeeds(s)
  /\ tx' = [tx EXCEPT ![s][ApproveSlot(s)] = "pending"]
  /\ Go(s, "approval")
  /\ UNCHANGED <<network, venue, chain, recorded, lost, result>>

Approve(s) ==
  /\ ApprovesToken(s)
  /\ \E n \in Nodes : chain[n].allowance[Spending(s)] < Amount[s]

\* The router's Permit2 approval is renewed when it is about to expire.
RenewPermit(s) ==
  /\ ApprovesToken(s)
  /\ network = "robinhood" /\ Spending(s) = "router"

\* Its receipt has come and a node shows the allowance.
Approved(s) ==
  /\ SwapAt(s, "approval")
  /\ tx[s][ApproveSlot(s)] = "mined"
  /\ \E n \in Nodes : chain[n].allowance[Spending(s)] >= Amount[s]
  /\ NextNeed(s)
  /\ UNCHANGED <<network, venue, chain, tx, recorded, lost, result>>

Succeeds(s, state) ==
  IF Side[s] = "buy" THEN state.native >= Amount[s]
  ELSE /\ state.token >= Amount[s]
       /\ \A i \in DOMAIN Needs : state.allowance[Needs[i]] >= Amount[s]

\* A sale reads the native balance; on the portal it is quoted once more first,
\* by simulating the sale on a node.
ReadNative(s) ==
  /\ SwapAt(s, "approving")
  /\ ~MoreNeeds(s)
  /\ venue = "portal" => \E n \in Nodes : Succeeds(s, chain[n])
  /\ \E n \in Nodes :
       run' = [run EXCEPT ![s].native = chain[n].native, ![s].base = n,
                          ![s].pc = "sending"]
  /\ UNCHANGED <<network, venue, chain, tx, recorded, lost, result>>

-----------------------------------------------------------------------------
(* Simulation and submission                                                *)

Current(s) == IF run[s].retried THEN "again" ELSE "swap"

\* HyperCore stores the client order id before it sends the order.
RecordFirst(s) ==
  /\ SwapAt(s, "sending")
  /\ network = "hypercore"
  /\ s \notin recorded
  /\ recorded' = recorded \cup {s}
  /\ UNCHANGED <<network, venue, chain, tx, run, lost, result>>

\* Fault: as above.
ReadyUnrecorded(s) ==
  /\ SwapAt(s, "sending")
  /\ \E n \in Nodes : Succeeds(s, chain[n])

Ready(s) ==
  /\ SwapAt(s, "sending")
  /\ network = "hypercore" => s \in recorded
  /\ \E n \in Nodes : Succeeds(s, chain[n])

Send(s) == tx' = [tx EXCEPT ![s][Current(s)] = IF @ = "none" THEN "pending" ELSE @]

\* The hash is answered and onSubmitted stores it in the same stretch.
Submitted(s) ==
  /\ network # "hypercore"
  /\ Ready(s)
  /\ Send(s)
  /\ recorded' = recorded \cup {s}
  /\ Go(s, "waiting")
  /\ UNCHANGED <<network, venue, chain, lost, result>>

\* An order is answered with its outcome.
Ordered(s) ==
  /\ network = "hypercore"
  /\ Ready(s)
  /\ Send(s)
  /\ Go(s, "waiting")
  /\ UNCHANGED <<network, venue, chain, recorded, lost, result>>

\* The request arrives but its answer does not.  The RPC clients repeat the
\* signed transaction, so that it stays one transaction.
AnswerLost(s) ==
  /\ network # "hypercore"
  /\ Ready(s)
  /\ Send(s)
  /\ lost' = lost \cup {s}
  /\ UNCHANGED <<network, venue, chain, run, recorded, result>>

\* An order is not repeated.
OrderAnswerLost(s) ==
  /\ network = "hypercore"
  /\ Ready(s)
  /\ Send(s)
  /\ lost' = lost \cup {s}
  /\ SwapEnds(s, "failed")
  /\ UNCHANGED <<network, venue, chain, recorded, result>>

\* Fault: a confirmation that does not come counts as a rejection too.
SlippageOrTimeout(s) ==
  /\ network = "solana"
  /\ SwapAt(s, "sending") \/ SwapAt(s, "waiting")
  /\ ~run[s].retried
  /\ run' = [run EXCEPT ![s].retried = TRUE, ![s].pc = "sending"]
  /\ UNCHANGED <<network, venue, chain, tx, recorded, lost, result>>

\* Solana: the preflight of the transaction reports too much slippage; a new
\* quote and a new transaction, once.
SlippageRejected(s) ==
  /\ network = "solana"
  /\ SwapAt(s, "sending")
  /\ ~run[s].retried
  /\ run' = [run EXCEPT ![s].retried = TRUE]
  /\ UNCHANGED <<network, venue, chain, tx, recorded, lost, result>>

-----------------------------------------------------------------------------
(* The network                                                              *)

Effect(s, k) ==
  IF k \in {"approve1", "approve2"}
    THEN {[Latest EXCEPT !.by = "approval", !.native = @ - 1,
                         !.allowance[Needs[IF k = "approve1" THEN 1 ELSE 2]] = Amount[s]]}
  ELSE IF Side[s] = "buy"
    THEN {[Latest EXCEPT !.by = s, !.native = @ - Amount[s], !.token = @ + n] : n \in 1..2}
    ELSE {[Latest EXCEPT !.by = s, !.native = @ + Amount[s], !.token = @ - Amount[s],
                         !.allowance = [p \in Spender |->
                           IF \E i \in DOMAIN Needs : Needs[i] = p
                           THEN Latest.allowance[p] - Amount[s]
                           ELSE Latest.allowance[p]]]}

Mine(s, k) ==
  /\ tx[s][k] = "pending"
  /\ k \in {"swap", "again"} => Succeeds(s, Latest)
  /\ tx' = [tx EXCEPT ![s][k] = "mined"]
  /\ \E state \in Effect(s, k) : chain' = Append(chain, state)
  /\ UNCHANGED <<network, venue, run, recorded, lost, result>>

\* A swap that cannot be carried out any more, or whose price has moved, reverts;
\* on Solana it may expire, an order may be refused.
Revert(s, k) ==
  /\ tx[s][k] = "pending"
  /\ k \in {"swap", "again"}
  /\ tx' = [tx EXCEPT ![s][k] = "reverted"]
  /\ UNCHANGED <<network, venue, chain, run, recorded, lost, result>>

-----------------------------------------------------------------------------
(* Receipt and measurement                                                  *)

Confirmed(s) ==
  /\ SwapAt(s, "waiting")
  /\ tx[s][Current(s)] = "mined"
  /\ Go(s, "measuring")
  /\ UNCHANGED <<network, venue, chain, tx, recorded, lost, result>>

\* EVM takes any change of the balance.
EvmChanged(s, balance) == balance # run[s].before

\* The others take one in the right direction.
RightWay(s, balance) ==
  IF Side[s] = "buy" THEN balance > run[s].before ELSE balance < run[s].before

\* Fault: the first read counts.
ChangedAtOnce(s, balance) == TRUE

Changed(s, balance) ==
  IF network = "evm" THEN EvmChanged(s, balance) ELSE RightWay(s, balance)

Measure(s, next) ==
  /\ SwapAt(s, "measuring")
  /\ \E n \in Nodes :
       /\ Changed(s, chain[n].token)
       /\ run' = [run EXCEPT ![s].after = chain[n].token, ![s].to = n, ![s].pc = next]
  /\ UNCHANGED <<network, venue, chain, tx, recorded, lost, result>>

EvmMeasure(s) == network = "evm" /\ Measure(s, "proceeds")
RobinhoodMeasure(s) == network = "robinhood" /\ Measure(s, "proceeds")
SolanaMeasure(s) == network = "solana" /\ Measure(s, "proceeds")
HypercoreMeasure(s) == network = "hypercore" /\ Side[s] = "buy" /\ Measure(s, "proceeds")

\* Any other order reports the size of its fill.
FillReported(s) ==
  /\ network = "hypercore" /\ Side[s] = "sell"
  /\ SwapAt(s, "measuring")
  /\ run' = [run EXCEPT ![s].after = run[s].before - Amount[s], ![s].to = Len(chain),
                        ![s].pc = "proceeds"]
  /\ UNCHANGED <<network, venue, chain, tx, recorded, lost, result>>

\* Robinhood waits for the native balance to change, EVM reads it once.
NativeSeen(s, native) == network = "robinhood" => native # run[s].native

Earned(s, n) == chain[n].native - run[s].native

TokenDelta(s) ==
  IF Side[s] = "buy" THEN run[s].after - run[s].before ELSE run[s].before - run[s].after

Reports(s, n, native) ==
  /\ SwapAt(s, "proceeds")
  /\ result' = [result EXCEPT ![s] =
       [token |-> TokenDelta(s), native |-> native, from |-> run[s].from,
        base |-> run[s].base, to |-> IF n > run[s].to THEN n ELSE run[s].to]]
  /\ SwapEnds(s, "done")
  /\ UNCHANGED <<network, venue, chain, tx, recorded, lost>>

EvmReport(s) ==
  /\ network = "evm"
  /\ \E n \in Nodes : Reports(s, n, IF Side[s] = "sell" THEN Earned(s, n) ELSE Amount[s])

RobinhoodReport(s) ==
  /\ network = "robinhood"
  /\ \E n \in Nodes :
       /\ Side[s] = "sell" => NativeSeen(s, chain[n].native)
       /\ Reports(s, n, IF Side[s] = "sell" THEN Earned(s, n) ELSE Amount[s])

\* Solana reports the quote's other side.
SolanaReport(s) == network = "solana" /\ Reports(s, run[s].to, Amount[s])

\* HyperCore the price of the fill, when it finds the fill in time.
HypercoreReport(s) == network = "hypercore" /\ Reports(s, run[s].to, Amount[s])

\* A call fails, a check does not pass, a receipt reports a failure, or a poll
\* gives up.
Throws(s) ==
  /\ run[s].pc \notin {"done", "failed"}
  /\ SwapEnds(s, "failed")
  /\ UNCHANGED <<network, venue, chain, tx, recorded, lost, result>>

Adapter(s) ==
  \/ EvmReadBalance(s) \/ RobinhoodReadBalance(s) \/ SolanaReadBalance(s)
  \/ HypercoreReadBalance(s)
  \/ AllowanceSuffices(s) \/ Approve(s) \/ RenewPermit(s) \/ Approved(s) \/ ReadNative(s)
  \/ RecordFirst(s) \/ Submitted(s) \/ Ordered(s) \/ AnswerLost(s) \/ OrderAnswerLost(s)
  \/ SlippageRejected(s) \/ Confirmed(s)
  \/ EvmMeasure(s) \/ RobinhoodMeasure(s) \/ SolanaMeasure(s) \/ HypercoreMeasure(s)
  \/ FillReported(s)
  \/ EvmReport(s) \/ RobinhoodReport(s) \/ SolanaReport(s) \/ HypercoreReport(s)
  \/ Throws(s)

SwapsNext == \E s \in Swap : Adapter(s) \/ \E k \in Slot : Mine(s, k) \/ Revert(s, k)

SwapsSpec == SwapsInit /\ [][SwapsNext]_swapVars

-----------------------------------------------------------------------------
AccountState ==
  [by : Swap \cup {"genesis", "approval"}, token : Nat, native : Int,
   allowance : [Spender -> Nat]]

RunState ==
  [pc : {"planned", "approving", "approval", "sending", "waiting", "measuring",
         "proceeds", "done", "failed"},
   retried : BOOLEAN, need : 1..3, before : Nat, from : Nat, native : Int,
   base : Nat, to : Nat, after : Int]

SwapsTypeOK ==
  /\ network \in Networks
  /\ chain \in Seq(AccountState) /\ chain # <<>>
  /\ tx \in [Swap -> [Slot -> {"none", "pending", "mined", "reverted"}]]
  /\ run \in [Swap -> RunState]
  /\ recorded \subseteq Swap
  /\ lost \subseteq Swap
  /\ result \in [Swap -> [token : Int, native : Int, from : Nat, base : Nat, to : Nat]]

\* What happened to the account between the state a report starts from and the
\* last one it has read.
Between(first, last) == {n \in DOMAIN chain : first < n /\ n <= last}
Reported(s) == result[s] # NoResult
Swapped(n) == chain[n].by \in Swap

Moved(n) == chain[n].token - chain[n - 1].token

TokensMeasured(s, n) ==
  {m \in Between(result[s].from, result[s].to) : Swapped(m)} = {n}
    => result[s].token = IF Side[s] = "buy" THEN Moved(n) ELSE 0 - Moved(n)

ProceedsMeasured(s, n) ==
  network = "robinhood" /\ Side[s] = "sell" /\ Between(result[s].base, result[s].to) = {n}
    => result[s].native = chain[n].native - chain[n - 1].native

\* However far the nodes lag: a reported quantity is the one the own transaction
\* moved when no other swap of the token happened between the two readings, and a
\* sale on Robinhood reports what it earned when nothing else touched the account.
MeasuredAlone ==
  \A s \in Swap : Reported(s) =>
    \A n \in DOMAIN chain :
      chain[n].by = s => TokensMeasured(s, n) /\ ProceedsMeasured(s, n)

\* The tokens move once for an execution, also when Solana sends a second
\* transaction, unless the answer to the first one was lost.
OneSwapUnlessLost ==
  \A s \in Swap \ lost : tx[s]["swap"] \in {"none", "reverted"} \/ tx[s]["again"] = "none"

\* Whatever reached the network can be found again: its reference is stored, or
\* its answer was lost; for HyperCore, even then.
SubmittedIsRecorded ==
  \A s \in Swap : (\E k \in {"swap", "again"} : tx[s][k] # "none") =>
    s \in recorded \/ (s \in lost /\ network # "hypercore")

================================================================================
