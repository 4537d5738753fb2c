------------------------- MODULE TradeExecutionProofs -------------------------
(***************************************************************************)
(* Theorems on how a trade is carried out: the searches for a price and    *)
(* for a pool, the swap itself, and the checks between a quote and its     *)
(* execution.                                                              *)
(***************************************************************************)
EXTENDS QuoteSearch, SwapExecution, QuoteRouting, TLAPS

-----------------------------------------------------------------------------
(***************************************************************************)
(* The searches find what they look for, for any bounds, numbers of turns, *)
(* windows and chunks.  Of the portal's calls any may fail; a call that    *)
(* fails while a pool is looked for ends that search.                      *)
(*                                                                         *)
(* Both arguments are that of a bisection: the range left lies between     *)
(* what is known to be paid and what is known to be refused, or between    *)
(* the blocks that are too old and one that is young enough.  The scan     *)
(* adds that the blocks it has passed do not hold the event.               *)
(***************************************************************************)

USE SearchAssumption

SearchType ==
  /\ job \in {"buy", "sell", "block"}
  /\ yield \in Nat /\ low \in Nat /\ high \in Nat /\ reach \in Nat /\ turn \in Nat /\ from \in Nat
  /\ made \in Block /\ target \in Nat
  /\ stamp \in [Block -> 0..MaxTimestamp]
  /\ \A a, b \in Block : a <= b => stamp[a] <= stamp[b]
  /\ missed \in BOOLEAN

\* A return in the range is paid at its lower end, and is refused above it unless a
\* call has failed.
PortalRange ==
  Portal =>
    /\ phase \in {"doubling", "bisecting", "found", "none"}
    /\ LowIsPaid
    /\ phase = "doubling" => low < high
    /\ phase # "doubling" => low <= high /\ high <= reach
    /\ ~missed /\ phase # "doubling" => yield <= high \/ high = reach

\* Blocks before the range are too old, its last block is not.
BlockRange ==
  job = "block" =>
    /\ phase \in {"bisecting", "scanning", "found", "none"}
    /\ low <= high /\ high <= MaxBlock
    /\ \A b \in 0..(low - 1) : stamp[b] < target
    /\ stamp[high] >= target \/ high = MaxBlock
    /\ phase # "bisecting" /\ ~missed => low = high
    /\ phase # "none" => ~missed

NotPassedOver ==
  job = "block" =>
    /\ phase = "scanning" => low <= from + Window
    /\ phase = "scanning" /\ made \in Scanned => from <= made
    /\ phase = "none" /\ ~missed => made \notin Scanned

SearchInv == SearchType /\ PortalRange /\ BlockRange /\ NotPassedOver

-----------------------------------------------------------------------------
LEMMA HalfOf ==
  ASSUME NEW m \in Nat, NEW n \in Nat, m < n
  PROVE  /\ (m + n) \div 2 \in Nat /\ m <= (m + n) \div 2 /\ (m + n) \div 2 < n
         /\ (m + n + 1) \div 2 \in Nat /\ m < (m + n + 1) \div 2 /\ (m + n + 1) \div 2 <= n
  OBVIOUS

LEMMA SearchInitInv == SearchInit => SearchInv
<1> SUFFICES ASSUME SearchInit PROVE SearchInv
  OBVIOUS
<1> USE DEF SearchAssumption
<1>1. /\ turn = 0 /\ missed = FALSE /\ from = 0
      /\ MaxBlock \in Nat /\ MaxTimestamp \in Nat /\ MaxYield \in Nat /\ MaxSupply \in Nat
  BY DEF SearchInit
<1>2. NoStamp \in [Block -> 0..MaxTimestamp] /\ \A a, b \in Block : NoStamp[a] <= NoStamp[b]
  BY <1>1 DEF NoStamp
<1>3. 0 \in Block /\ MaxBlock \in Block
  BY <1>1 DEF Block
<1>0. missed \in BOOLEAN
  BY <1>1
<1>4. ASSUME NEW supply \in 0..MaxSupply, BuySearchStarts(supply) PROVE SearchInv
  <2>1. SearchType
    BY <1>0, <1>1, <1>2, <1>3, <1>4 DEF BuySearchStarts, SearchType
  <2>. QED
    BY <2>1, <1>1, <1>4 DEF BuySearchStarts, SearchInv, PortalRange, BlockRange, NotPassedOver, LowIsPaid
<1>5. CASE SellStarts
  <2>1. SearchType
    BY <1>0, <1>1, <1>2, <1>3, <1>5 DEF SellStarts, SellStart, SearchType
  <2>. QED
    BY <2>1, <1>1, <1>5 DEF SellStarts, SellStart, SearchInv, PortalRange, BlockRange,
                            NotPassedOver, LowIsPaid
<1>6. CASE BlockStarts
  <2>1. SearchType
    BY <1>0, <1>1, <1>3, <1>6 DEF BlockStarts, Monotone, SearchType
  <2>. QED
    BY <2>1, <1>1, <1>6 DEF BlockStarts, SearchInv, PortalRange, BlockRange, NotPassedOver, Portal
<1>. QED
  BY <1>4, <1>5, <1>6 DEF SearchInit

\* The steps of the portal's search.
LEMMA DoubleStep ==
  ASSUME SearchInv, Double \/ DoubledOut \/ \E failed \in BOOLEAN : StopDoubling(failed)
  PROVE  SearchInv'
<1> USE DEF SearchInv, SearchType, PortalRange, BlockRange, NotPassedOver, Portal, LowIsPaid
<1>1. CASE Double
  BY <1>1 DEF Double
<1>2. CASE DoubledOut
  BY <1>2 DEF DoubledOut
<1>3. ASSUME NEW failed \in BOOLEAN, StopDoubling(failed) PROVE SearchInv'
  BY <1>3 DEF StopDoubling
<1>. QED
  BY <1>1, <1>2, <1>3

LEMMA BisectStep ==
  ASSUME SearchInv, Accepted \/ \E failed \in BOOLEAN : Refused(failed)
  PROVE  SearchInv'
<1>1. Portal /\ phase = "bisecting" /\ low < high
  BY DEF Accepted, Refused, Searching
<1>2. PICK middle : middle = Middle
  OBVIOUS
<1>3. middle \in Nat /\ low < middle /\ middle <= high
  BY <1>1, <1>2, HalfOf DEF Middle, SearchInv, SearchType
<1> USE DEF SearchInv, SearchType, PortalRange, BlockRange, NotPassedOver, Portal, LowIsPaid
<1>4. CASE Accepted
  BY <1>1, <1>2, <1>3, <1>4 DEF Accepted
<1>5. ASSUME NEW failed \in BOOLEAN, Refused(failed) PROVE SearchInv'
  BY <1>1, <1>2, <1>3, <1>5 DEF Refused
<1>. QED
  BY <1>4, <1>5

\* The steps of the block's search.
LEMMA ReadBlockStep == ASSUME SearchInv, ReadBlock PROVE SearchInv'
<1>1. job = "block" /\ ~Portal /\ phase = "bisecting" /\ low < high
  BY DEF ReadBlock, Searching, Portal
<1>2. PICK middle : middle = Middle
  OBVIOUS
<1>3. middle \in Nat /\ low <= middle /\ middle < high
  BY <1>1, <1>2, HalfOf DEF Middle, SearchInv, SearchType
<1>4. high <= MaxBlock /\ middle \in Block /\ MaxBlock \in Nat
  BY <1>1, <1>3 DEF SearchInv, BlockRange, Block, SearchAssumption, SearchType
<1>5. UNCHANGED <<job, yield, stamp, target, made, from, phase, turn, missed, reach>>
  BY DEF ReadBlock
<1>6. SearchType'
  BY <1>2, <1>3, <1>5 DEF ReadBlock, SearchInv, SearchType
<1>7. PortalRange' /\ NotPassedOver'
  BY <1>1, <1>5 DEF PortalRange, Portal, NotPassedOver
<1>8. CASE stamp[middle] < target
  <2>1. low' = middle + 1 /\ high' = high
    BY <1>2, <1>8 DEF ReadBlock
  <2>2. \A b \in 0..middle : stamp[b] < target
    BY <1>3, <1>4, <1>8 DEF SearchInv, SearchType, Block
  <2>. QED
    BY <1>1, <1>3, <1>4, <1>5, <1>6, <1>7, <2>1, <2>2 DEF SearchInv, BlockRange, SearchType
<1>9. CASE ~(stamp[middle] < target)
  <2>1. high' = middle /\ low' = low
    BY <1>2, <1>9 DEF ReadBlock
  <2>. QED
    BY <1>1, <1>3, <1>4, <1>5, <1>6, <1>7, <1>9, <2>1 DEF SearchInv, BlockRange, SearchType, Block
<1>. QED
  BY <1>6, <1>7, <1>8, <1>9 DEF SearchInv

LEMMA FinishStep == ASSUME SearchInv, Finish PROVE SearchInv'
<1> USE DEF SearchInv, SearchType, PortalRange, BlockRange, NotPassedOver, Portal, LowIsPaid
<1>. QED
  BY DEF Finish

\* The scan starts no later than the first block of its window.
LEMMA StartScanStep == ASSUME SearchInv, StartScan PROVE SearchInv'
<1>1. job = "block" /\ ~Portal /\ phase = "bisecting" /\ low = high /\ Window \in Nat
  BY DEF StartScan, Searching, Portal, SearchInv, BlockRange, SearchType, SearchAssumption
<1>2. /\ UNCHANGED <<job, yield, stamp, target, made, turn, low, high, missed, reach>>
      /\ phase' = "scanning"
      /\ from' = IF low > Window THEN low - Window ELSE 0
  BY DEF StartScan
<1>3. from' \in Nat /\ low <= from' + Window /\ \A b \in Scanned : from' <= b
  BY <1>1, <1>2 DEF SearchInv, SearchType, Scanned, Block
<1>4. Scanned' = Scanned
  BY <1>2 DEF Scanned, Block
<1>5. SearchType'
  BY <1>2, <1>3 DEF SearchInv, SearchType
<1>6. PortalRange' /\ BlockRange'
  BY <1>1, <1>2 DEF SearchInv, SearchType, PortalRange, BlockRange, Portal
<1>7. NotPassedOver'
  BY <1>2, <1>3, <1>4 DEF NotPassedOver
<1>. QED
  BY <1>5, <1>6, <1>7 DEF SearchInv

\* A failed call ends the search; what is known of the range stays.
LEMMA FailedCallStep == ASSUME SearchInv, BlockCallFails PROVE SearchInv'
<1> USE DEF SearchInv, SearchType, PortalRange, BlockRange, NotPassedOver, Portal, LowIsPaid
<1>. QED
  BY DEF BlockCallFails

LEMMA ScanStep ==
  ASSUME SearchInv, EventFound \/ NextChunk \/ NoEvent
  PROVE  SearchInv'
<1>1. /\ phase = "scanning" /\ job = "block"
      /\ Window \in Nat /\ Chunk \in Nat \ {0} /\ MaxBlock \in Nat
  BY DEF EventFound, NextChunk, NoEvent, SearchInv, SearchType, PortalRange, Portal, SearchAssumption
<1>2. /\ UNCHANGED <<job, yield, stamp, target, made, turn, low, high, missed, reach>>
      /\ from' \in Nat /\ phase' \in {"scanning", "found", "none"}
  BY <1>1 DEF EventFound, NextChunk, NoEvent, SearchInv, SearchType
<1>3. Scanned' = Scanned
  BY <1>2 DEF Scanned, Block
<1>4. SearchType' /\ PortalRange' /\ BlockRange'
  BY <1>1, <1>2 DEF SearchInv, SearchType, PortalRange, BlockRange, Portal
<1>5. CASE EventFound
  BY <1>2, <1>4, <1>5 DEF EventFound, NotPassedOver, SearchInv
<1>6. CASE NextChunk
  <2>1. (made \in Scanned => from' <= made) /\ low <= from' + Window
    BY <1>1, <1>6 DEF NextChunk, ChunkOf, SearchInv, SearchType, NotPassedOver, Scanned, Block
  <2>. QED
    BY <1>2, <1>3, <1>4, <1>6, <1>1, <2>1 DEF NextChunk, NotPassedOver, SearchInv
<1>7. CASE NoEvent
  <2>1. made \notin Scanned
    <3>1. SUFFICES ASSUME made \in Scanned PROVE from \in Scanned
      BY <1>7 DEF NoEvent
    <3>2. from <= made
      BY <3>1, <1>1 DEF SearchInv, NotPassedOver
    <3>. QED
      BY <3>1, <3>2, <1>1 DEF SearchInv, SearchType, NotPassedOver, Scanned, Block
  <2>. QED
    BY <1>3, <1>4, <1>7, <1>2, <2>1 DEF NoEvent, NotPassedOver, SearchInv
<1>. QED
  BY <1>5, <1>6, <1>7

THEOREM SearchRanges == SearchSpec => []SearchInv
<1>1. SearchInit => SearchInv
  BY SearchInitInv
<1>2. SearchInv /\ [SearchNext]_searchVars => SearchInv'
  <2> SUFFICES ASSUME SearchInv, [SearchNext]_searchVars PROVE SearchInv'
    OBVIOUS
  <2>1. CASE UNCHANGED searchVars
    BY <2>1 DEF searchVars, SearchInv, SearchType, PortalRange, BlockRange, NotPassedOver, Portal,
                LowIsPaid, Scanned, Block
  <2>2. CASE SearchNext
    BY <2>2, DoubleStep, BisectStep, ReadBlockStep, FinishStep, StartScanStep, ScanStep,
       FailedCallStep DEF SearchNext
  <2>. QED
    BY <2>1, <2>2
<1>. QED
  BY <1>1, <1>2, PTL DEF SearchSpec

\* The plan of a portal trade carries the largest minimum return, whatever the
\* numbers (see LargestMinimum).
THEOREM LargestIsFound == SearchSpec => []LargestMinimum
<1>1. SearchInv => LargestMinimum
  <2> SUFFICES ASSUME SearchInv, Portal PROVE LargestMinimum
    BY DEF LargestMinimum, LowIsPaid
  <2> USE DEF SearchInv, SearchType, PortalRange
  <2>1. LowIsPaid
    OBVIOUS
  <2>2. ASSUME ~missed, phase = "found", low >= high
        PROVE  low = IF yield < reach THEN yield ELSE reach
    <3>1. low = high /\ high <= reach /\ low <= yield /\ (yield <= high \/ high = reach)
      BY <2>1, <2>2 DEF LowIsPaid
    <3>. QED
      BY <3>1
  <2>. QED
    BY <2>1, <2>2 DEF LargestMinimum
<1>. QED
  BY <1>1, SearchRanges, PTL

\* Unless a call fails, findPoolInitialize gives up only a pool whose event is out of
\* the window (see OnlyFarPoolsMissed).
THEOREM NoNearPoolIsMissed == SearchSpec => []OnlyFarPoolsMissed
<1>1. ASSUME SearchInv PROVE OnlyFarPoolsMissed
  <2> SUFFICES ASSUME job = "block", phase = "none", ~missed
               PROVE  \E first \in Block :
                        /\ \A b \in 0..(first - 1) : stamp[b] < target
                        /\ stamp[first] >= target \/ first = MaxBlock
                        /\ made + Window < first \/ first + Window < made
    BY DEF OnlyFarPoolsMissed
  <2>1. /\ low = high /\ low \in Block
        /\ \A b \in 0..(low - 1) : stamp[b] < target
        /\ stamp[low] >= target \/ low = MaxBlock
    BY <1>1 DEF SearchInv, SearchType, BlockRange, Block, SearchAssumption
  <2>2. made \in Block /\ made \notin Scanned /\ Window \in Nat
    BY <1>1 DEF SearchInv, SearchType, NotPassedOver, SearchAssumption
  <2>3. made + Window < low \/ low + Window < made
    BY <2>1, <2>2, <1>1 DEF Scanned, Block, SearchAssumption
  <2>. QED
    BY <2>1, <2>3
<1>. QED
  BY <1>1, SearchRanges, PTL

HIDE SearchAssumption
-----------------------------------------------------------------------------
(***************************************************************************)
(* Executions that share an account measure what they moved, send one swap *)
(* and can be found again, for any number of executions, of any amounts    *)
(* and on any network, and however the nodes lag.                          *)
(*                                                                         *)
(* What is measured is the difference of two states of the account, so the *)
(* invariant says which states they are, and that the token moves only     *)
(* where a swap is: two states with no swap between them show the same     *)
(* balance.  That the own swap lies after the first reading makes a node   *)
(* that lags harmless.                                                     *)
(***************************************************************************)

USE SwapAssumption

\* Nothing is sent before the approvals are done; without a lost answer only one of
\* the two transactions of an execution is ever sent.
SentOnce(s) ==
  /\ run[s].pc \in {"planned", "approving", "approval"} =>
       tx[s]["swap"] = "none" /\ tx[s]["again"] = "none" /\ run[s].retried = FALSE
  /\ s \notin lost =>
       /\ run[s].retried = TRUE => tx[s]["swap"] = "none"
       /\ run[s].retried = FALSE => tx[s]["again"] = "none"
       /\ run[s].pc = "sending" /\ run[s].retried = FALSE => tx[s]["swap"] = "none"

\* Only swaps move the token, and a sale moves the amount of its plan.
NoSwapAfter(i, j) == \A m \in DOMAIN chain : i < m /\ m <= j => chain[m].by \notin Swap
QuietKeepsToken ==
  \A i, j \in DOMAIN chain : i <= j /\ NoSwapAfter(i, j) => chain[i].token = chain[j].token
SalesMoveAmount ==
  \A n \in DOMAIN chain : \A s \in Swap :
    chain[n].by = s /\ Side[s] = "sell" =>
      n > 1 /\ chain[n].token = chain[n - 1].token - Amount[s]

\* What an execution remembers is what the account held; its own swap is younger than
\* the balance it has read before.
Remembers(s) ==
  /\ run[s].from <= Len(chain)
  /\ run[s].pc \notin {"planned", "done", "failed"} =>
       run[s].from >= 1 /\ run[s].before = chain[run[s].from].token
  /\ \A k \in {"swap", "again"} : tx[s][k] = "mined" => run[s].from < Len(chain)
  /\ run[s].pc = "measuring" => run[s].from < Len(chain)
  /\ run[s].pc = "approval" => MoreNeeds(s)

RemembersNative(s) ==
  network = "robinhood" /\ Side[s] = "sell"
      /\ run[s].pc \in {"sending", "waiting", "measuring", "proceeds"} =>
    run[s].base \in DOMAIN chain /\ run[s].native = chain[run[s].base].native

HasMeasured(s) ==
  run[s].pc = "proceeds" =>
    /\ run[s].to \in DOMAIN chain /\ run[s].from <= run[s].to
    /\ IF network = "hypercore" /\ Side[s] = "sell"
       THEN run[s].after = run[s].before - Amount[s]
       ELSE run[s].after = chain[run[s].to].token /\ run[s].after # run[s].before

RecordedOf(s) ==
  (\E k \in {"swap", "again"} : tx[s][k] # "none") =>
    s \in recorded \/ (s \in lost /\ network # "hypercore")

ResultOf(s) ==
  Reported(s) =>
    /\ result[s].from >= 1 /\ result[s].to <= Len(chain)
    /\ network = "robinhood" /\ Side[s] = "sell" => result[s].base >= 1
    /\ \A n \in DOMAIN chain :
         chain[n].by = s => TokensMeasured(s, n) /\ ProceedsMeasured(s, n)

OwnInv(s) ==
  /\ RecordedOf(s) /\ SentOnce(s)
  /\ Remembers(s) /\ RemembersNative(s) /\ HasMeasured(s) /\ ResultOf(s)

ChainInv == QuietKeepsToken /\ SalesMoveAmount

SwapInv == SwapsTypeOK /\ ChainInv /\ \A s \in Swap : OwnInv(s)

-----------------------------------------------------------------------------
LEMMA NodesAnswer ==
  ASSUME SwapsTypeOK, NEW n \in Nodes
  PROVE  /\ n \in DOMAIN chain /\ n \in Nat /\ n >= Len(chain) - 1 /\ n <= Len(chain)
         /\ Len(chain) \in Nat
         /\ chain[n] \in AccountState
<1>1. Len(chain) \in Nat /\ chain \in Seq(AccountState)
  BY DEF SwapsTypeOK
<1>2. n \in 1..Len(chain) /\ n >= Len(chain) - 1
  BY <1>1 DEF Nodes
<1>. QED
  BY <1>1, <1>2

LEMMA NeedsRange == Len(Needs) \in 0..2
BY DEF Needs, RobinhoodNeeds

LEMMA LatestType ==
  SwapsTypeOK => Len(chain) \in Nat \ {0} /\ Latest \in AccountState /\ Len(chain) \in DOMAIN chain
<1> SUFFICES ASSUME SwapsTypeOK PROVE Len(chain) \in Nat \ {0} /\ Latest \in AccountState
                                      /\ Len(chain) \in DOMAIN chain
  OBVIOUS
<1>1. chain \in Seq(AccountState) /\ chain # <<>>
  BY DEF SwapsTypeOK
<1>2. Len(chain) \in Nat \ {0} /\ Len(chain) \in DOMAIN chain
  BY <1>1
<1>. QED
  BY <1>1, <1>2 DEF Latest

\* A transaction leaves a state of the account, and moves the token only if it is a swap.
LEMMA EffectOf ==
  ASSUME SwapsTypeOK, NEW s \in Swap, NEW k \in Slot, Mine(s, k), NEW state \in Effect(s, k)
  PROVE  /\ state \in AccountState
         /\ state.by \notin Swap => state.token = Latest.token
         /\ \A t \in Swap : state.by = t /\ Side[t] = "sell" => state.token = Latest.token - Amount[t]
         /\ \A t \in Swap : state.by = t => t = s /\ k \in {"swap", "again"}
<1>1. Latest \in AccountState /\ Amount[s] \in Nat /\ Side[s] \in {"buy", "sell"}
  BY LatestType
<1>2. /\ Latest.by \in Swap \cup {"genesis", "approval"} /\ Latest.token \in Nat
      /\ Latest.native \in Int /\ Latest.allowance \in [Spender -> Nat]
  BY <1>1 DEF AccountState
<1>3. CASE k \in {"approve1", "approve2"}
  <2>1. PICK p : state = [Latest EXCEPT !.by = "approval", !.native = @ - 1,
                                        !.allowance[p] = Amount[s]]
    BY <1>3 DEF Effect
  <2> DEFINE given == [Latest.allowance EXCEPT ![p] = Amount[s]]
  <2>2. given \in [Spender -> Nat]
    BY <1>1, <1>2
  <2>3. state = [by |-> "approval", token |-> Latest.token, native |-> Latest.native - 1,
                 allowance |-> given]
    BY <1>1, <2>1 DEF AccountState
  <2>. HIDE DEF given
  <2>. QED
    BY <1>1, <1>2, <2>2, <2>3 DEF AccountState
<1>4. CASE k \in {"swap", "again"} /\ Side[s] = "buy"
  <2>1. PICK n \in 1..2 : state = [Latest EXCEPT !.by = s, !.native = @ - Amount[s], !.token = @ + n]
    BY <1>4 DEF Effect
  <2>2. state = [by |-> s, token |-> Latest.token + n, native |-> Latest.native - Amount[s],
                 allowance |-> Latest.allowance]
    BY <1>1, <2>1 DEF AccountState
  <2>. QED
    BY <1>1, <1>2, <1>4, <2>2 DEF AccountState
<1>5. CASE k \in {"swap", "again"} /\ Side[s] = "sell"
  <2> DEFINE left == [p \in Spender |-> IF \E i \in DOMAIN Needs : Needs[i] = p
                                         THEN Latest.allowance[p] - Amount[s]
                                         ELSE Latest.allowance[p]]
  <2>1. state = [Latest EXCEPT !.by = s, !.native = @ + Amount[s], !.token = @ - Amount[s],
                               !.allowance = left]
    BY <1>5 DEF Effect
  <2>2. Latest.token >= Amount[s]
        /\ \A i \in DOMAIN Needs : Latest.allowance[Needs[i]] >= Amount[s]
    BY <1>5 DEF Mine, Succeeds
  <2>3. left \in [Spender -> Nat]
    BY <1>1, <1>2, <2>2
  <2>. HIDE DEF left
  <2>4. state = [by |-> s, token |-> Latest.token - Amount[s], native |-> Latest.native + Amount[s],
                 allowance |-> left]
    BY <1>1, <2>1 DEF AccountState
  <2>. QED
    BY <1>1, <1>2, <1>5, <2>2, <2>3, <2>4 DEF AccountState
<1>. QED
  BY <1>1, <1>3, <1>4, <1>5 DEF Slot

-----------------------------------------------------------------------------
(* Steps of an execution                                                    *)

\* Nothing but the execution itself changes.
OnlyOf(s) ==
  /\ UNCHANGED <<network, venue, chain>>
  /\ \A t \in Swap \ {s} :
       /\ run'[t] = run[t] /\ tx'[t] = tx[t] /\ result'[t] = result[t]
       /\ t \in recorded' <=> t \in recorded
       /\ t \in lost' <=> t \in lost

LEMMA OthersKept ==
  ASSUME NEW s \in Swap, OnlyOf(s), NEW t \in Swap \ {s}, OwnInv(t)
  PROVE  OwnInv(t)'
<1>1. /\ chain' = chain /\ network' = network /\ venue' = venue
      /\ run'[t] = run[t] /\ tx'[t] = tx[t] /\ result'[t] = result[t]
      /\ t \in recorded' <=> t \in recorded
      /\ t \in lost' <=> t \in lost
  BY DEF OnlyOf
<1>2. RecordedOf(t)'
  <2>1. RecordedOf(t)
    BY DEF OwnInv
  <2>. QED
    BY <1>1, <2>1 DEF RecordedOf
<1>3. SentOnce(t)'
  <2>1. SentOnce(t)
    BY DEF OwnInv
  <2>. QED
    BY <1>1, <2>1 DEF SentOnce
<1>4. Remembers(t)'
  <2>1. Remembers(t) /\ (MoreNeeds(t)' <=> MoreNeeds(t))
    BY <1>1 DEF OwnInv, MoreNeeds, Needs, RobinhoodNeeds
  <2>. QED
    BY <1>1, <2>1 DEF Remembers
<1>5. RemembersNative(t)'
  <2>1. RemembersNative(t)
    BY DEF OwnInv
  <2>. QED
    BY <1>1, <2>1 DEF RemembersNative
<1>6. HasMeasured(t)'
  <2>1. HasMeasured(t)
    BY DEF OwnInv
  <2>. QED
    BY <1>1, <2>1 DEF HasMeasured
<1>7. ResultOf(t)'
  <2>1. ResultOf(t)
    BY DEF OwnInv
  <2>2. \A n \in DOMAIN chain : TokensMeasured(t, n)' <=> TokensMeasured(t, n)
    BY <1>1 DEF TokensMeasured, Between, Swapped, Moved
  <2>3. \A n \in DOMAIN chain : ProceedsMeasured(t, n)' <=> ProceedsMeasured(t, n)
    BY <1>1 DEF ProceedsMeasured, Between
  <2>. QED
    BY <1>1, <2>1, <2>2, <2>3 DEF ResultOf, Reported
<1>. QED
  BY <1>2, <1>3, <1>4, <1>5, <1>6, <1>7 DEF OwnInv

LEMMA ResultKept ==
  ASSUME NEW s \in Swap, result' = result, chain' = chain, network' = network, ResultOf(s)
  PROVE  ResultOf(s)'
BY DEF ResultOf, Reported, TokensMeasured, ProceedsMeasured, Between, Swapped, Moved

\* A step that is about the local variables only.
LocalStep(s, r) ==
  /\ run' = [run EXCEPT ![s] = r]
  /\ UNCHANGED <<network, venue, chain, tx, recorded, lost, result>>

LEMMA LocalStepKeeps ==
  ASSUME SwapsTypeOK, NEW s \in Swap, OwnInv(s), NEW r \in RunState, LocalStep(s, r)
  PROVE  /\ SwapsTypeOK' /\ OnlyOf(s)
         /\ run'[s] = r /\ RecordedOf(s)' /\ ResultOf(s)'
<1>1. run \in [Swap -> RunState]
  BY DEF SwapsTypeOK
<1>2. run' \in [Swap -> RunState] /\ run'[s] = r /\ \A t \in Swap \ {s} : run'[t] = run[t]
  BY <1>1 DEF LocalStep
<1>3. SwapsTypeOK' /\ OnlyOf(s)
  BY <1>2 DEF LocalStep, SwapsTypeOK, OnlyOf
<1>4. RecordedOf(s)' /\ ResultOf(s)'
  BY ResultKept DEF LocalStep, OwnInv, RecordedOf
<1>. QED
  BY <1>2, <1>3, <1>4

LEMMA ReadBalanceKeeps ==
  ASSUME SwapsTypeOK, NEW s \in Swap, OwnInv(s), NEW next \in {"approving", "sending"},
         ReadBalance(s, next), next = "sending" => ~(network = "robinhood" /\ Side[s] = "sell")
  PROVE  SwapsTypeOK' /\ OnlyOf(s) /\ OwnInv(s)'
<1>1. PICK n \in Nodes :
        run' = [run EXCEPT ![s].before = chain[n].token, ![s].from = n, ![s].pc = next]
  BY DEF ReadBalance
<1> DEFINE r == [run[s] EXCEPT !.before = chain[n].token, !.from = n, !.pc = next]
<1>2. run \in [Swap -> RunState] /\ run[s] \in RunState
  BY DEF SwapsTypeOK
<1>3. /\ n \in Nat /\ n \in DOMAIN chain /\ n >= 1 /\ n <= Len(chain)
      /\ chain[n].token \in Nat
  BY NodesAnswer DEF AccountState, Nodes
<1>4. r \in RunState /\ r.before = chain[n].token /\ r.from = n /\ r.pc = next
      /\ r.retried = run[s].retried
  BY <1>2, <1>3 DEF RunState
<1>5. run' = [run EXCEPT ![s] = r]
  BY <1>1, <1>2
<1> HIDE DEF r
<1>6. LocalStep(s, r)
  BY <1>5 DEF ReadBalance, LocalStep
<1>7. SwapsTypeOK' /\ OnlyOf(s) /\ run'[s] = r /\ RecordedOf(s)' /\ ResultOf(s)'
  BY <1>4, <1>6, LocalStepKeeps
<1>8. tx[s]["swap"] = "none" /\ tx[s]["again"] = "none" /\ run[s].retried = FALSE
  BY DEF OwnInv, SentOnce, ReadBalance, SwapAt
<1>9. SentOnce(s)'
  BY <1>4, <1>6, <1>7, <1>8 DEF SentOnce, LocalStep
<1>10. Remembers(s)'
  BY <1>3, <1>4, <1>6, <1>7, <1>8 DEF Remembers, LocalStep
<1>11. RemembersNative(s)' /\ HasMeasured(s)'
  BY <1>4, <1>6, <1>7 DEF RemembersNative, HasMeasured, LocalStep
<1>. QED
  BY <1>7, <1>9, <1>10, <1>11 DEF OwnInv

LEMMA NextNeedKeeps ==
  ASSUME SwapsTypeOK, NEW s \in Swap, OwnInv(s), SwapAt(s, "approving") \/ SwapAt(s, "approval"),
         MoreNeeds(s), NextNeed(s), UNCHANGED <<network, venue, chain, tx, recorded, lost, result>>
  PROVE  SwapsTypeOK' /\ OnlyOf(s) /\ OwnInv(s)'
<1> DEFINE r == [run[s] EXCEPT !.need = @ + 1, !.pc = "approving"]
<1>1. run \in [Swap -> RunState] /\ run[s] \in RunState
  BY DEF SwapsTypeOK
<1> DEFINE need == run[s].need
<1>11. need \in 1..3
  BY <1>1 DEF RunState
<1>12. need <= Len(Needs)
  BY DEF MoreNeeds
<1>2. need + 1 \in 1..3
  <2>1. ASSUME NEW last \in 0..2, NEW m \in 1..3, m <= last PROVE m + 1 \in 1..3
    BY <2>1
  <2> HIDE DEF need
  <2>. QED
    BY <1>11, <1>12, <2>1, NeedsRange
<1>3. r \in RunState /\ r.pc = "approving" /\ r.retried = run[s].retried
      /\ r.from = run[s].from /\ r.before = run[s].before
  BY <1>1, <1>2 DEF RunState
<1>4. run' = [run EXCEPT ![s] = r]
  BY <1>1 DEF NextNeed
<1> HIDE DEF r
<1>5. LocalStep(s, r)
  BY <1>4 DEF LocalStep
<1>6. SwapsTypeOK' /\ OnlyOf(s) /\ run'[s] = r /\ RecordedOf(s)' /\ ResultOf(s)'
  BY <1>3, <1>5, LocalStepKeeps
<1>7. tx[s]["swap"] = "none" /\ tx[s]["again"] = "none" /\ run[s].retried = FALSE
  BY DEF OwnInv, SentOnce, SwapAt
<1>8. SentOnce(s)'
  BY <1>3, <1>5, <1>6, <1>7 DEF SentOnce, LocalStep
<1>9. Remembers(s)'
  BY <1>3, <1>5, <1>6, <1>7 DEF OwnInv, Remembers, LocalStep, SwapAt
<1>10. RemembersNative(s)' /\ HasMeasured(s)'
  BY <1>3, <1>5, <1>6 DEF RemembersNative, HasMeasured, LocalStep
<1>. QED
  BY <1>6, <1>8, <1>9, <1>10 DEF OwnInv

LEMMA ReadNativeKeeps ==
  ASSUME SwapsTypeOK, NEW s \in Swap, OwnInv(s), ReadNative(s)
  PROVE  SwapsTypeOK' /\ OnlyOf(s) /\ OwnInv(s)'
<1>1. PICK n \in Nodes :
        run' = [run EXCEPT ![s].native = chain[n].native, ![s].base = n, ![s].pc = "sending"]
  BY DEF ReadNative
<1> DEFINE r == [run[s] EXCEPT !.native = chain[n].native, !.base = n, !.pc = "sending"]
<1>2. run \in [Swap -> RunState] /\ run[s] \in RunState
  BY DEF SwapsTypeOK
<1>3. n \in Nat /\ n \in DOMAIN chain /\ chain[n].native \in Int
  BY NodesAnswer DEF AccountState
<1>4. /\ r \in RunState /\ r.native = chain[n].native /\ r.base = n /\ r.pc = "sending"
      /\ r.retried = run[s].retried /\ r.from = run[s].from /\ r.before = run[s].before
  BY <1>2, <1>3 DEF RunState
<1>5. run' = [run EXCEPT ![s] = r]
  BY <1>1, <1>2
<1> HIDE DEF r
<1>6. LocalStep(s, r)
  BY <1>5 DEF ReadNative, LocalStep
<1>7. SwapsTypeOK' /\ OnlyOf(s) /\ run'[s] = r /\ RecordedOf(s)' /\ ResultOf(s)'
  BY <1>4, <1>6, LocalStepKeeps
<1>8. tx[s]["swap"] = "none" /\ tx[s]["again"] = "none" /\ run[s].retried = FALSE
  BY DEF OwnInv, SentOnce, ReadNative, SwapAt
<1>9. SentOnce(s)'
  BY <1>4, <1>6, <1>7, <1>8 DEF SentOnce, LocalStep
<1>10. Remembers(s)'
  BY <1>4, <1>6, <1>7, <1>8 DEF OwnInv, Remembers, LocalStep, ReadNative, SwapAt
<1>11. RemembersNative(s)' /\ HasMeasured(s)'
  BY <1>3, <1>4, <1>6, <1>7 DEF RemembersNative, HasMeasured, LocalStep
<1>. QED
  BY <1>7, <1>9, <1>10, <1>11 DEF OwnInv

\* An execution is answered that its transaction was mined.
LEMMA ConfirmedKeeps ==
  ASSUME SwapsTypeOK, NEW s \in Swap, OwnInv(s), Confirmed(s)
  PROVE  SwapsTypeOK' /\ OnlyOf(s) /\ OwnInv(s)'
<1> DEFINE r == [run[s] EXCEPT !.pc = "measuring"]
<1>1. run \in [Swap -> RunState] /\ run[s] \in RunState
  BY DEF SwapsTypeOK
<1>2. /\ r \in RunState /\ r.pc = "measuring" /\ r.retried = run[s].retried
      /\ r.from = run[s].from /\ r.before = run[s].before
      /\ r.base = run[s].base /\ r.native = run[s].native
  BY <1>1 DEF RunState
<1>3. run' = [run EXCEPT ![s] = r]
  BY <1>1 DEF Confirmed, Go
<1> HIDE DEF r
<1>4. LocalStep(s, r)
  BY <1>3 DEF Confirmed, LocalStep
<1>5. SwapsTypeOK' /\ OnlyOf(s) /\ run'[s] = r /\ RecordedOf(s)' /\ ResultOf(s)'
  BY <1>2, <1>4, LocalStepKeeps
<1>6. run[s].pc = "waiting" /\ \E k \in {"swap", "again"} : tx[s][k] = "mined"
  BY DEF Confirmed, SwapAt, Current
<1>7. SentOnce(s)'
  BY <1>2, <1>4, <1>5 DEF OwnInv, SentOnce, LocalStep
<1>8. Remembers(s)'
  BY <1>2, <1>4, <1>5, <1>6 DEF OwnInv, Remembers, LocalStep
<1>9. RemembersNative(s)' /\ HasMeasured(s)'
  BY <1>2, <1>4, <1>5, <1>6 DEF OwnInv, RemembersNative, HasMeasured, LocalStep
<1>. QED
  BY <1>5, <1>7, <1>8, <1>9 DEF OwnInv

LEMMA RejectedKeeps ==
  ASSUME SwapsTypeOK, NEW s \in Swap, OwnInv(s), SlippageRejected(s)
  PROVE  SwapsTypeOK' /\ OnlyOf(s) /\ OwnInv(s)'
<1> DEFINE r == [run[s] EXCEPT !.retried = TRUE]
<1>1. run \in [Swap -> RunState] /\ run[s] \in RunState
  BY DEF SwapsTypeOK
<1>2. /\ r \in RunState /\ r.pc = run[s].pc /\ r.retried = TRUE
      /\ r.from = run[s].from /\ r.before = run[s].before
      /\ r.base = run[s].base /\ r.native = run[s].native
  BY <1>1 DEF RunState
<1>3. run' = [run EXCEPT ![s] = r]
  BY <1>1 DEF SlippageRejected
<1> HIDE DEF r
<1>4. LocalStep(s, r)
  BY <1>3 DEF SlippageRejected, LocalStep
<1>5. SwapsTypeOK' /\ OnlyOf(s) /\ run'[s] = r /\ RecordedOf(s)' /\ ResultOf(s)'
  BY <1>2, <1>4, LocalStepKeeps
<1>6. run[s].pc = "sending"
  BY DEF SlippageRejected, SwapAt
<1>7. run[s].retried = FALSE
  BY <1>1 DEF SlippageRejected, RunState
<1>8. SentOnce(s)'
  BY <1>2, <1>4, <1>5, <1>6, <1>7 DEF OwnInv, SentOnce, LocalStep
<1>9. Remembers(s)'
  BY <1>2, <1>4, <1>5, <1>6 DEF OwnInv, Remembers, LocalStep
<1>10. RemembersNative(s)' /\ HasMeasured(s)'
  BY <1>2, <1>4, <1>5, <1>6 DEF OwnInv, RemembersNative, HasMeasured, LocalStep
<1>. QED
  BY <1>5, <1>8, <1>9, <1>10 DEF OwnInv

\* Of a fresh record nothing is remembered.
LEMMA EndsAt ==
  ASSUME SwapsTypeOK, NEW s \in Swap, NEW pc \in {"done", "failed"}, SwapEnds(s, pc)
  PROVE  /\ run' \in [Swap -> RunState] /\ \A t \in Swap \ {s} : run'[t] = run[t]
         /\ run'[s].pc = pc /\ run'[s].retried = run[s].retried /\ run'[s].from = 0
<1> DEFINE r == [FreshSwap EXCEPT !.pc = pc, !.retried = run[s].retried]
<1>1. run \in [Swap -> RunState] /\ run[s] \in RunState
  BY DEF SwapsTypeOK
<1>11. run[s].retried \in BOOLEAN
  BY <1>1 DEF RunState
<1>12. FreshSwap \in RunState /\ FreshSwap.from = 0
  BY DEF RunState, FreshSwap
<1>2. r \in RunState /\ r.pc = pc /\ r.retried = run[s].retried /\ r.from = 0
  BY <1>11, <1>12 DEF RunState
<1>3. run' = [run EXCEPT ![s] = r]
  BY DEF SwapEnds
<1> HIDE DEF r
<1>. QED
  BY <1>1, <1>2, <1>3

\* Only the slot the execution is at is filled, and nothing is mined by it.
LEMMA Sends ==
  ASSUME SwapsTypeOK, NEW s \in Swap, Send(s)
  PROVE  /\ tx' \in [Swap -> [Slot -> {"none", "pending", "mined", "reverted"}]]
         /\ \A t \in Swap \ {s} : tx'[t] = tx[t]
         /\ \A k \in Slot : tx'[s][k] = "mined" <=> tx[s][k] = "mined"
         /\ run[s].retried = TRUE => tx'[s]["swap"] = tx[s]["swap"]
         /\ run[s].retried = FALSE => tx'[s]["again"] = tx[s]["again"]
<1> DEFINE k == Current(s)
<1> DEFINE sent == IF tx[s][k] = "none" THEN "pending" ELSE tx[s][k]
<1>1. tx \in [Swap -> [Slot -> {"none", "pending", "mined", "reverted"}]] /\ run[s] \in RunState
  BY DEF SwapsTypeOK
<1>2. run[s].retried \in BOOLEAN
  BY <1>1 DEF RunState
<1>3. k \in {"swap", "again"}
  BY DEF Current
<1>4. /\ run[s].retried = TRUE => k = "again"
      /\ run[s].retried = FALSE => k = "swap"
  BY DEF Current
<1>5. tx' = [tx EXCEPT ![s][k] = sent]
  BY DEF Send
<1>6. tx[s][k] \in {"none", "pending", "mined", "reverted"}
  BY <1>1, <1>3 DEF Slot
<1>7. sent \in {"none", "pending", "mined", "reverted"} /\ (sent = "mined" <=> tx[s][k] = "mined")
  BY <1>6
<1> HIDE DEF sent, k
<1>. QED
  BY <1>1, <1>3, <1>4, <1>5, <1>7 DEF Slot

\* An execution that sends is at the same place as before, or waits for the receipt.
LEMMA SendKeeps ==
  ASSUME SwapsTypeOK, NEW s \in Swap, OwnInv(s), Ready(s), Send(s),
         UNCHANGED <<network, venue, chain, result>>,
         recorded' \in {recorded, recorded \cup {s}}, lost' \in {lost, lost \cup {s}},
         s \in recorded' \/ (s \in lost' /\ network # "hypercore"),
         \/ Go(s, "waiting")
         \/ s \in lost' /\ run' = run
         \/ s \in lost' /\ SwapEnds(s, "failed")
  PROVE  SwapsTypeOK' /\ OnlyOf(s) /\ OwnInv(s)'
<1>1. run \in [Swap -> RunState] /\ run[s] \in RunState /\ run[s].pc = "sending"
  BY DEF SwapsTypeOK, Ready, SwapAt
<1>2. /\ run' \in [Swap -> RunState] /\ \A t \in Swap \ {s} : run'[t] = run[t]
      /\ \/ /\ run'[s].pc \in {"sending", "waiting"}
            /\ run'[s].pc = "sending" => s \in lost'
            /\ run'[s].retried = run[s].retried /\ run'[s].from = run[s].from
            /\ run'[s].before = run[s].before /\ run'[s].base = run[s].base
            /\ run'[s].native = run[s].native
         \/ s \in lost' /\ SwapEnds(s, "failed")
  <2>1. CASE Go(s, "waiting")
    BY <1>1, <2>1 DEF Go, RunState
  <2>2. CASE s \in lost' /\ run' = run
    BY <1>1, <2>2
  <2>3. CASE s \in lost' /\ SwapEnds(s, "failed")
    BY <2>3, EndsAt
  <2>4. Go(s, "waiting") \/ (s \in lost' /\ run' = run) \/ (s \in lost' /\ SwapEnds(s, "failed"))
    OBVIOUS
  <2>. QED
    BY <2>1, <2>2, <2>3, <2>4
<1>3. SwapsTypeOK' /\ OnlyOf(s)
  <2>1. SwapsTypeOK'
    BY <1>2, Sends DEF SwapsTypeOK
  <2>2. OnlyOf(s)
    BY <1>2, Sends DEF OnlyOf
  <2>. QED
    BY <2>1, <2>2
<1>4. RecordedOf(s)' /\ ResultOf(s)'
  BY ResultKept DEF OwnInv, RecordedOf
<1>5. CASE run'[s].pc \in {"sending", "waiting"} /\ run'[s].retried = run[s].retried
           /\ run'[s].from = run[s].from
           /\ run'[s].before = run[s].before /\ run'[s].base = run[s].base
           /\ run'[s].native = run[s].native /\ (run'[s].pc = "sending" => s \in lost')
  <2>1. SentOnce(s)'
    <3>1. s \notin lost' =>
            /\ s \notin lost /\ run'[s].pc = "waiting"
            /\ run[s].retried = TRUE => tx'[s]["swap"] = tx[s]["swap"]
            /\ run[s].retried = FALSE => tx'[s]["again"] = tx[s]["again"]
      <4>1. /\ run[s].retried = TRUE => tx'[s]["swap"] = tx[s]["swap"]
            /\ run[s].retried = FALSE => tx'[s]["again"] = tx[s]["again"]
        BY Sends
      <4>2. s \notin lost' => s \notin lost
        OBVIOUS
      <4>3. s \notin lost' => run'[s].pc = "waiting"
        BY <1>5
      <4>. QED
        BY <4>1, <4>2, <4>3
    <3>2. run'[s].pc \notin {"planned", "approving", "approval"} /\ run'[s].retried = run[s].retried
      BY <1>5
    <3>3. SentOnce(s)
      BY DEF OwnInv
    <3>4. s \notin lost' =>
            /\ run'[s].retried = TRUE => tx'[s]["swap"] = "none"
            /\ run'[s].retried = FALSE => tx'[s]["again"] = "none"
            /\ run'[s].pc # "sending"
      <4>1. s \notin lost =>
              /\ run[s].retried = TRUE => tx[s]["swap"] = "none"
              /\ run[s].retried = FALSE => tx[s]["again"] = "none"
        BY <3>3 DEF SentOnce
      <4>. QED
        BY <3>1, <3>2, <4>1
    <3>. QED
      BY <3>2, <3>4 DEF SentOnce
  <2>2. Remembers(s)'
    BY <1>1, <1>5, Sends DEF OwnInv, Remembers, Slot
  <2>3. RemembersNative(s)' /\ HasMeasured(s)'
    BY <1>1, <1>5 DEF OwnInv, RemembersNative, HasMeasured
  <2>. QED
    BY <1>3, <1>4, <2>1, <2>2, <2>3 DEF OwnInv
<1>6. CASE s \in lost' /\ SwapEnds(s, "failed")
  <2>1. run'[s].pc = "failed" /\ run'[s].from = 0 /\ Len(chain) \in Nat \ {0}
    BY <1>6, EndsAt, LatestType
  <2>2. SentOnce(s)' /\ Remembers(s)' /\ RemembersNative(s)' /\ HasMeasured(s)'
    BY <1>6, <2>1 DEF SentOnce, Remembers, RemembersNative, HasMeasured
  <2>. QED
    BY <1>3, <1>4, <2>2 DEF OwnInv
<1>. QED
  BY <1>2, <1>5, <1>6

LEMMA SendingKeeps ==
  ASSUME SwapsTypeOK, NEW s \in Swap, OwnInv(s),
         Submitted(s) \/ Ordered(s) \/ AnswerLost(s) \/ OrderAnswerLost(s)
  PROVE  SwapsTypeOK' /\ OnlyOf(s) /\ OwnInv(s)'
<1>1. CASE Submitted(s)
  BY <1>1, SendKeeps DEF Submitted
<1>2. CASE Ordered(s)
  BY <1>2, SendKeeps DEF Ordered, Ready
<1>3. CASE AnswerLost(s)
  BY <1>3, SendKeeps DEF AnswerLost
<1>4. CASE OrderAnswerLost(s)
  BY <1>4, SendKeeps DEF OrderAnswerLost, Ready
<1>. QED
  BY <1>1, <1>2, <1>3, <1>4

LEMMA RecordFirstKeeps ==
  ASSUME SwapsTypeOK, NEW s \in Swap, OwnInv(s), RecordFirst(s)
  PROVE  SwapsTypeOK' /\ OnlyOf(s) /\ OwnInv(s)'
<1>1. SwapsTypeOK' /\ OnlyOf(s)
  BY DEF RecordFirst, SwapsTypeOK, OnlyOf
<1>2. RecordedOf(s)' /\ ResultOf(s)'
  BY ResultKept DEF RecordFirst, OwnInv, RecordedOf
<1>3. SentOnce(s)'
  BY DEF RecordFirst, OwnInv, SentOnce
<1>4. Remembers(s)' /\ RemembersNative(s)' /\ HasMeasured(s)'
  BY DEF RecordFirst, OwnInv, Remembers, RemembersNative, HasMeasured, MoreNeeds, Needs, RobinhoodNeeds
<1>. QED
  BY <1>1, <1>2, <1>3, <1>4 DEF OwnInv

LEMMA ThrowsKeeps ==
  ASSUME SwapsTypeOK, NEW s \in Swap, OwnInv(s), Throws(s)
  PROVE  SwapsTypeOK' /\ OnlyOf(s) /\ OwnInv(s)'
<1>1. /\ run' \in [Swap -> RunState] /\ \A t \in Swap \ {s} : run'[t] = run[t]
      /\ run'[s].pc = "failed" /\ run'[s].retried = run[s].retried /\ run'[s].from = 0
      /\ Len(chain) \in Nat \ {0}
  BY EndsAt, LatestType DEF Throws
<1>2. SwapsTypeOK' /\ OnlyOf(s)
  BY <1>1 DEF Throws, SwapsTypeOK, OnlyOf
<1>3. RecordedOf(s)' /\ ResultOf(s)'
  BY ResultKept DEF Throws, OwnInv, RecordedOf
<1>4. SentOnce(s)'
  BY <1>1 DEF Throws, OwnInv, SentOnce
<1>5. Remembers(s)' /\ RemembersNative(s)' /\ HasMeasured(s)'
  BY <1>1 DEF Throws, Remembers, RemembersNative, HasMeasured
<1>. QED
  BY <1>2, <1>3, <1>4, <1>5 DEF OwnInv

\* What is measured is a state of the account after the own swap.
LEMMA MeasureKeeps ==
  ASSUME SwapsTypeOK, NEW s \in Swap, OwnInv(s), Measure(s, "proceeds"),
         network = "hypercore" => Side[s] = "buy"
  PROVE  SwapsTypeOK' /\ OnlyOf(s) /\ OwnInv(s)'
<1>1. PICK n \in Nodes :
        /\ Changed(s, chain[n].token)
        /\ run' = [run EXCEPT ![s].after = chain[n].token, ![s].to = n, ![s].pc = "proceeds"]
  BY DEF Measure
<1> DEFINE seen == chain[n].token
<1> DEFINE r == [run[s] EXCEPT !.after = seen, !.to = n, !.pc = "proceeds"]
<1>2. run \in [Swap -> RunState] /\ run[s] \in RunState /\ Side[s] \in {"buy", "sell"}
  BY DEF SwapsTypeOK
<1>3. /\ n \in Nat /\ n \in DOMAIN chain /\ n >= Len(chain) - 1 /\ Len(chain) \in Nat
      /\ seen \in Nat
  BY NodesAnswer DEF AccountState
<1>5. run' = [run EXCEPT ![s] = r]
  BY <1>1, <1>2
<1> HIDE DEF seen
<1>14. r \in RunState
  <2>1. n \in Nat /\ seen \in Int /\ run[s] \in RunState
    BY <1>2, <1>3
  <2>. QED
    BY <2>1 DEF RunState
<1>15. r.after = seen /\ r.to = n /\ r.pc = "proceeds"
  BY <1>2 DEF RunState
<1>4. /\ r.retried = run[s].retried /\ r.from = run[s].from /\ r.before = run[s].before
      /\ r.base = run[s].base /\ r.native = run[s].native
  BY <1>2 DEF RunState
<1> HIDE DEF r
<1>6. LocalStep(s, r)
  BY <1>5 DEF Measure, LocalStep
<1>7. SwapsTypeOK' /\ OnlyOf(s) /\ run'[s] = r /\ RecordedOf(s)' /\ ResultOf(s)'
  BY <1>14, <1>6, LocalStepKeeps
<1>8. run[s].pc = "measuring" /\ run[s].from < Len(chain) /\ run[s].from \in Nat
      /\ run[s].before \in Nat
  BY <1>2 DEF Measure, SwapAt, OwnInv, Remembers, RunState
<1>9. seen # run[s].before /\ seen = chain[n].token
  BY <1>1, <1>3, <1>8 DEF seen, Changed, EvmChanged, RightWay
<1>10. SentOnce(s)'
  BY <1>4, <1>15, <1>6, <1>7, <1>8 DEF OwnInv, SentOnce, LocalStep
<1>11. Remembers(s)'
  BY <1>4, <1>15, <1>6, <1>7, <1>8 DEF OwnInv, Remembers, LocalStep
<1>12. RemembersNative(s)'
  BY <1>4, <1>15, <1>6, <1>7, <1>8 DEF OwnInv, RemembersNative, LocalStep
<1>13. HasMeasured(s)'
  BY <1>2, <1>3, <1>4, <1>15, <1>6, <1>7, <1>8, <1>9 DEF HasMeasured, LocalStep
<1>. QED
  BY <1>7, <1>10, <1>11, <1>12, <1>13 DEF OwnInv

LEMMA FillReportedKeeps ==
  ASSUME SwapsTypeOK, NEW s \in Swap, OwnInv(s), FillReported(s)
  PROVE  SwapsTypeOK' /\ OnlyOf(s) /\ OwnInv(s)'
<1> DEFINE after == run[s].before - Amount[s]
<1> DEFINE r == [run[s] EXCEPT !.after = after, !.to = Len(chain), !.pc = "proceeds"]
<1>1. run \in [Swap -> RunState] /\ run[s] \in RunState /\ Amount[s] \in Nat
  BY DEF SwapsTypeOK
<1>2. Len(chain) \in Nat /\ Len(chain) \in DOMAIN chain
  BY LatestType
<1>3. after \in Int
  BY <1>1 DEF RunState
<1>4. run' = [run EXCEPT ![s] = r]
  BY <1>1 DEF FillReported
<1> HIDE DEF after
<1>5. /\ r \in RunState /\ r.after = after /\ r.to = Len(chain) /\ r.pc = "proceeds"
      /\ r.retried = run[s].retried /\ r.from = run[s].from /\ r.before = run[s].before
  BY <1>1, <1>2, <1>3 DEF RunState
<1> HIDE DEF r
<1>6. LocalStep(s, r)
  BY <1>4 DEF FillReported, LocalStep
<1>7. SwapsTypeOK' /\ OnlyOf(s) /\ run'[s] = r /\ RecordedOf(s)' /\ ResultOf(s)'
  BY <1>5, <1>6, LocalStepKeeps
<1>8. run[s].pc = "measuring" /\ run[s].from < Len(chain) /\ run[s].from \in Nat
      /\ network = "hypercore" /\ Side[s] = "sell"
  BY <1>1 DEF FillReported, SwapAt, OwnInv, Remembers, RunState
<1>9. SentOnce(s)'
  BY <1>5, <1>6, <1>7, <1>8 DEF OwnInv, SentOnce, LocalStep
<1>10. Remembers(s)'
  BY <1>5, <1>6, <1>7, <1>8 DEF OwnInv, Remembers, LocalStep
<1>11. RemembersNative(s)'
  BY <1>6, <1>8 DEF RemembersNative, LocalStep
<1>12. HasMeasured(s)'
  BY <1>2, <1>5, <1>6, <1>7, <1>8 DEF HasMeasured, LocalStep, after
<1>. QED
  BY <1>7, <1>9, <1>10, <1>11, <1>12 DEF OwnInv

\* When one swap only lies between two states, it moved what they differ by.
LEMMA OneSwapMoves ==
  ASSUME SwapsTypeOK, QuietKeepsToken, NEW i \in DOMAIN chain, NEW j \in DOMAIN chain,
         NEW n \in DOMAIN chain, {m \in Between(i, j) : Swapped(m)} = {n}
  PROVE  /\ n > i /\ n <= j /\ n - 1 \in DOMAIN chain
         /\ chain[n - 1].token = chain[i].token /\ chain[j].token = chain[n].token
<1>1. DOMAIN chain = 1..Len(chain) /\ Len(chain) \in Nat
  BY DEF SwapsTypeOK
<1>2. n \in Between(i, j) /\ \A m \in Between(i, j) : chain[m].by \in Swap => m = n
  BY DEF Swapped
<1>3. n > i /\ n <= j /\ n - 1 \in DOMAIN chain
  BY <1>1, <1>2 DEF Between
<1>4. NoSwapAfter(i, n - 1)
  BY <1>1, <1>2, <1>3 DEF NoSwapAfter, Between
<1>5. NoSwapAfter(n, j)
  BY <1>1, <1>2, <1>3 DEF NoSwapAfter, Between
<1>. QED
  BY <1>1, <1>3, <1>4, <1>5 DEF QuietKeepsToken

LEMMA DeltaIsMoved ==
  ASSUME SwapsTypeOK, ChainInv, NEW s \in Swap, OwnInv(s), run[s].pc = "proceeds",
         NEW j \in DOMAIN chain, j >= run[s].to,
         NEW n \in DOMAIN chain, chain[n].by = s,
         {m \in Between(run[s].from, j) : Swapped(m)} = {n}
  PROVE  TokenDelta(s) = IF Side[s] = "buy" THEN Moved(n) ELSE 0 - Moved(n)
<1> DEFINE i == run[s].from  k == run[s].to
<1>6. chain \in Seq(AccountState)
  BY DEF SwapsTypeOK
<1>7. \A m \in DOMAIN chain : chain[m] \in AccountState
  BY <1>6
<1>1. DOMAIN chain = 1..Len(chain) /\ Len(chain) \in Nat
      /\ \A m \in DOMAIN chain : chain[m].token \in Int
  BY <1>6, <1>7 DEF AccountState
<1>2. /\ i \in DOMAIN chain /\ k \in DOMAIN chain /\ i <= k /\ run[s].before = chain[i].token
      /\ IF network = "hypercore" /\ Side[s] = "sell"
         THEN run[s].after = run[s].before - Amount[s]
         ELSE run[s].after = chain[k].token /\ run[s].after # run[s].before
  <2>1. run[s].from \in Nat
    BY DEF SwapsTypeOK, RunState
  <2>. QED
    BY <1>1, <2>1 DEF OwnInv, Remembers, HasMeasured
<1>3. /\ n > i /\ n <= j /\ n - 1 \in DOMAIN chain
      /\ chain[n - 1].token = chain[i].token /\ chain[j].token = chain[n].token
  BY <1>2, OneSwapMoves DEF ChainInv
<1>4. CASE network = "hypercore" /\ Side[s] = "sell"
  <2>1. chain[n].token = chain[n - 1].token - Amount[s]
    BY <1>4 DEF ChainInv, SalesMoveAmount
  <2>2. Amount[s] \in Int
    OBVIOUS
  <2>. QED
    BY <1>1, <1>2, <1>3, <1>4, <2>1, <2>2 DEF TokenDelta, Moved
<1>5. CASE ~(network = "hypercore" /\ Side[s] = "sell")
  <2>1. k >= n
    <3> SUFFICES ASSUME k < n PROVE FALSE
      BY <1>1, <1>2
    <3>1. \A m \in Between(i, j) : chain[m].by \in Swap => m = n
      BY DEF Swapped
    <3>2. NoSwapAfter(i, k)
      BY <1>1, <1>2, <3>1 DEF NoSwapAfter, Between
    <3>. QED
      BY <1>2, <1>5, <3>2 DEF ChainInv, QuietKeepsToken
  <2>2. {m \in Between(i, k) : Swapped(m)} = {n}
    <3>1. \A m \in Between(i, j) : Swapped(m) <=> m = n
      OBVIOUS
    <3>2. Between(i, k) \subseteq Between(i, j) /\ n \in Between(i, k)
      BY <1>1, <1>2, <1>3, <2>1 DEF Between
    <3>. QED
      BY <3>1, <3>2
  <2>3. chain[k].token = chain[n].token
    <3>1. i \in DOMAIN chain /\ k \in DOMAIN chain /\ QuietKeepsToken
      BY <1>2 DEF ChainInv
    <3> HIDE DEF i, k
    <3>. QED
      BY <2>2, <3>1, OneSwapMoves
  <2>. QED
    BY <1>1, <1>2, <1>3, <1>5, <2>3 DEF TokenDelta, Moved
<1>. QED
  BY <1>4, <1>5

\* The state a report names as its last is not older than the one its token was read in.
LEMMA ReportsKeep ==
  ASSUME SwapsTypeOK, ChainInv, NEW s \in Swap, OwnInv(s),
         NEW n \in DOMAIN chain, NEW native \in Int, Reports(s, n, native),
         network = "robinhood" /\ Side[s] = "sell" =>
           /\ n >= Len(chain) - 1
           /\ native = chain[n].native - run[s].native /\ native # 0
  PROVE  SwapsTypeOK' /\ OnlyOf(s) /\ OwnInv(s)'
<1> DEFINE to == IF n > run[s].to THEN n ELSE run[s].to
<1> DEFINE r == [token |-> TokenDelta(s), native |-> native, from |-> run[s].from,
                 base |-> run[s].base, to |-> to]
<1>1. /\ run' \in [Swap -> RunState] /\ \A t \in Swap \ {s} : run'[t] = run[t]
      /\ run'[s].pc = "done" /\ run'[s].retried = run[s].retried /\ run'[s].from = 0
  BY EndsAt DEF Reports
<1>2. /\ run[s] \in RunState /\ chain \in Seq(AccountState)
      /\ result \in [Swap -> [token : Int, native : Int, from : Nat, base : Nat, to : Nat]]
  BY DEF SwapsTypeOK
<1>3. /\ run[s].from \in Nat /\ run[s].base \in Nat /\ run[s].to \in Nat /\ run[s].before \in Nat
      /\ run[s].after \in Int /\ run[s].native \in Int
  BY <1>2 DEF RunState
<1>4. DOMAIN chain = 1..Len(chain) /\ Len(chain) \in Nat /\ n \in Nat
  BY <1>2
<1>5. /\ run[s].pc = "proceeds" /\ run[s].from >= 1 /\ run[s].to \in DOMAIN chain
  BY DEF Reports, SwapAt, OwnInv, Remembers, HasMeasured
<1>6. to \in DOMAIN chain /\ to \in Nat /\ to >= run[s].to /\ to >= n /\ (to = n \/ to = run[s].to)
  BY <1>3, <1>4, <1>5
<1>7. TokenDelta(s) \in Int
  <2>1. /\ \A a, b \in Int : a - b \in Int /\ b - a \in Int
        /\ run[s].after \in Int /\ run[s].before \in Int
    BY <1>3
  <2>. QED
    BY <2>1 DEF TokenDelta
<1>8. r \in [token : Int, native : Int, from : Nat, base : Nat, to : Nat]
  <2> HIDE DEF to
  <2>. QED
    BY <1>3, <1>6, <1>7
<1>9. result' = [result EXCEPT ![s] = r]
  BY DEF Reports
<1>10. /\ result' \in [Swap -> [token : Int, native : Int, from : Nat, base : Nat, to : Nat]]
       /\ result'[s] = r /\ \A t \in Swap \ {s} : result'[t] = result[t]
  <2> HIDE DEF r
  <2>. QED
    BY <1>2, <1>8, <1>9
<1>11. SwapsTypeOK' /\ OnlyOf(s)
  BY <1>1, <1>10 DEF Reports, SwapsTypeOK, OnlyOf
<1>12. RecordedOf(s)' /\ SentOnce(s)'
  BY <1>1, <1>5 DEF Reports, OwnInv, RecordedOf, SentOnce
<1>13. Remembers(s)' /\ RemembersNative(s)' /\ HasMeasured(s)'
  <2>1. Len(chain) > 0
    BY LatestType
  <2>. QED
    BY <1>1, <2>1 DEF Reports, Remembers, RemembersNative, HasMeasured
<1>14. ASSUME NEW m \in DOMAIN chain, chain[m].by = s
       PROVE  TokensMeasured(s, m)'
  <2>1. {k \in Between(run[s].from, to) : Swapped(k)} = {m} =>
          TokenDelta(s) = IF Side[s] = "buy" THEN Moved(m) ELSE 0 - Moved(m)
    <3> HIDE DEF to
    <3>. QED
      BY <1>5, <1>6, <1>14, DeltaIsMoved
  <2>2. r.from = run[s].from /\ r.to = to /\ r.token = TokenDelta(s) /\ chain' = chain
    BY DEF Reports
  <2> HIDE DEF r, to
  <2>3. result'[s].from = run[s].from /\ result'[s].to = to /\ result'[s].token = TokenDelta(s)
    BY <1>10, <2>2
  <2>4. {k \in Between(result'[s].from, result'[s].to) : Swapped(k)'}
          = {k \in Between(run[s].from, to) : Swapped(k)}
    BY <2>2, <2>3 DEF Between, Swapped
  <2>. QED
    BY <2>1, <2>2, <2>3, <2>4 DEF TokensMeasured, Between, Swapped, Moved
<1>15. ASSUME NEW m \in DOMAIN chain, network = "robinhood", Side[s] = "sell",
              Between(run[s].base, to) = {m}
       PROVE  native = chain[m].native - chain[m - 1].native
  <2>1. run[s].base \in DOMAIN chain /\ run[s].native = chain[run[s].base].native
    BY <1>5, <1>15 DEF OwnInv, RemembersNative
  <2>2. m > run[s].base /\ m <= to
    BY <1>15 DEF Between
  <2>3. to \in Between(run[s].base, to) /\ run[s].base + 1 \in Between(run[s].base, to)
    <3> HIDE DEF to
    <3>. QED
      BY <1>4, <1>6, <2>1, <2>2 DEF Between
  <2>4. m = to /\ run[s].base = m - 1
    <3> HIDE DEF to
    <3>. QED
      BY <1>4, <1>15, <2>1, <2>3
  <2>5. n = m \/ n = m - 1
    <3> HIDE DEF to
    <3>. QED
      BY <1>4, <1>6, <1>15, <2>4
  <2>6. chain[n].native \in Int /\ chain[m].native \in Int
    <3>1. chain[n] \in AccountState /\ chain[m] \in AccountState
      BY <1>2
    <3>. QED
      BY <3>1 DEF AccountState
  <2>7. n # m - 1
    BY <1>3, <1>15, <2>1, <2>4, <2>6
  <2>. QED
    BY <1>15, <2>1, <2>4, <2>5, <2>7
<1>16. ResultOf(s)'
  <2>1. r.from = run[s].from /\ r.to = to /\ r.base = run[s].base /\ r.native = native
    OBVIOUS
  <2> HIDE DEF r, to
  <2>2. /\ result'[s].from = run[s].from /\ result'[s].to = to
        /\ result'[s].base = run[s].base /\ result'[s].native = native
        /\ chain' = chain /\ network' = network
    BY <1>10, <2>1 DEF Reports
  <2>4. network = "robinhood" /\ Side[s] = "sell" => run[s].base >= 1
    BY <1>4, <1>5 DEF OwnInv, RemembersNative
  <2>3. \A m \in DOMAIN chain : chain[m].by = s => ProceedsMeasured(s, m)'
    BY <1>15, <2>2 DEF ProceedsMeasured, Between
  <2>. QED
    BY <1>4, <1>5, <1>6, <1>14, <2>2, <2>3, <2>4 DEF ResultOf
<1>. QED
  BY <1>11, <1>12, <1>13, <1>16 DEF OwnInv

LEMMA AnyReportKeeps ==
  ASSUME SwapsTypeOK, ChainInv, NEW s \in Swap, OwnInv(s),
         EvmReport(s) \/ RobinhoodReport(s) \/ SolanaReport(s) \/ HypercoreReport(s)
  PROVE  SwapsTypeOK' /\ OnlyOf(s) /\ OwnInv(s)'
<1>1. run[s] \in RunState /\ Amount[s] \in Int /\ Side[s] \in {"buy", "sell"}
  BY DEF SwapsTypeOK
<1>2. run[s].native \in Int
  BY <1>1 DEF RunState
<1>3. ASSUME NEW n \in Nodes
      PROVE  n \in DOMAIN chain /\ n >= Len(chain) - 1 /\ Earned(s, n) \in Int
             /\ chain[n].native \in Int
  <2>1. n \in DOMAIN chain /\ n >= Len(chain) - 1 /\ chain[n].native \in Int
    BY NodesAnswer DEF AccountState
  <2>. QED
    BY <1>2, <2>1 DEF Earned
<1>4. CASE EvmReport(s)
  <2>1. PICK n \in Nodes : Reports(s, n, IF Side[s] = "sell" THEN Earned(s, n) ELSE Amount[s])
    BY <1>4 DEF EvmReport
  <2>2. (IF Side[s] = "sell" THEN Earned(s, n) ELSE Amount[s]) \in Int /\ network = "evm"
    BY <1>1, <1>3, <1>4 DEF EvmReport
  <2>. QED
    BY <1>3, <2>1, <2>2, ReportsKeep
<1>5. CASE RobinhoodReport(s)
  <2>1. PICK n \in Nodes :
          /\ Side[s] = "sell" => NativeSeen(s, chain[n].native)
          /\ Reports(s, n, IF Side[s] = "sell" THEN Earned(s, n) ELSE Amount[s])
    BY <1>5 DEF RobinhoodReport
  <2> DEFINE native == IF Side[s] = "sell" THEN Earned(s, n) ELSE Amount[s]
  <2>2. native \in Int /\ network = "robinhood"
    BY <1>1, <1>3, <1>5 DEF RobinhoodReport
  <2>3. Side[s] = "sell" => native = chain[n].native - run[s].native /\ native # 0
    BY <1>2, <1>3, <2>1, <2>2 DEF NativeSeen, Earned
  <2>4. Reports(s, n, native) /\ n \in DOMAIN chain /\ n >= Len(chain) - 1
    BY <1>3, <2>1
  <2> HIDE DEF native
  <2>. QED
    BY <2>2, <2>3, <2>4, ReportsKeep
<1>6. CASE SolanaReport(s) \/ HypercoreReport(s)
  <2>1. Reports(s, run[s].to, Amount[s]) /\ network # "robinhood"
    BY <1>6 DEF SolanaReport, HypercoreReport
  <2>2. run[s].to \in DOMAIN chain
    BY <2>1 DEF Reports, SwapAt, OwnInv, HasMeasured
  <2>. QED
    BY <1>1, <2>1, <2>2, ReportsKeep
<1>. QED
  BY <1>4, <1>5, <1>6

LEMMA ApprovesKeeps ==
  ASSUME SwapsTypeOK, NEW s \in Swap, OwnInv(s), ApprovesToken(s)
  PROVE  SwapsTypeOK' /\ OnlyOf(s) /\ OwnInv(s)'
<1> DEFINE k == ApproveSlot(s)
<1>1. run \in [Swap -> RunState] /\ tx \in [Swap -> [Slot -> {"none", "pending", "mined", "reverted"}]]
  BY DEF SwapsTypeOK
<1>2. k \in {"approve1", "approve2"}
  BY DEF ApproveSlot
<1>3. tx' = [tx EXCEPT ![s][k] = "pending"]
  BY DEF ApprovesToken
<1> HIDE DEF k
<1>4. /\ tx' \in [Swap -> [Slot -> {"none", "pending", "mined", "reverted"}]]
      /\ \A t \in Swap \ {s} : tx'[t] = tx[t]
      /\ \A j \in {"swap", "again"} : tx'[s][j] = tx[s][j]
  BY <1>1, <1>2, <1>3 DEF Slot
<1> DEFINE r == [run[s] EXCEPT !.pc = "approval"]
<1>12. r \in RunState
  <2>1. \A q \in RunState : [q EXCEPT !.pc = "approval"] \in RunState
    BY DEF RunState
  <2>. QED
    BY <1>1, <2>1
<1>13. run' = [run EXCEPT ![s] = r]
  BY <1>1 DEF ApprovesToken, Go
<1>5. /\ run' \in [Swap -> RunState] /\ \A t \in Swap \ {s} : run'[t] = run[t]
      /\ run'[s] = r
  <2> HIDE DEF r
  <2>. QED
    BY <1>1, <1>12, <1>13
<1>6. /\ run'[s].pc = "approval" /\ run'[s].retried = run[s].retried
      /\ run'[s].from = run[s].from /\ run'[s].before = run[s].before
      /\ run'[s].need = run[s].need
  BY <1>1, <1>5 DEF RunState
<1>7. SwapsTypeOK' /\ OnlyOf(s)
  BY <1>4, <1>5 DEF ApprovesToken, SwapsTypeOK, OnlyOf
<1>8. RecordedOf(s)' /\ ResultOf(s)'
  BY <1>4, ResultKept DEF ApprovesToken, OwnInv, RecordedOf
<1>9. SentOnce(s)'
  BY <1>4, <1>6 DEF ApprovesToken, SwapAt, OwnInv, SentOnce
<1>10. Remembers(s)'
  BY <1>4, <1>6 DEF ApprovesToken, SwapAt, OwnInv, Remembers, MoreNeeds, Needs, RobinhoodNeeds
<1>11. RemembersNative(s)' /\ HasMeasured(s)'
  BY <1>6 DEF RemembersNative, HasMeasured
<1>. QED
  BY <1>7, <1>8, <1>9, <1>10, <1>11 DEF OwnInv

LEMMA AdapterKeeps ==
  ASSUME SwapsTypeOK, ChainInv, NEW s \in Swap, OwnInv(s), Adapter(s)
  PROVE  SwapsTypeOK' /\ OnlyOf(s) /\ OwnInv(s)'
<1>1. CASE EvmReadBalance(s) \/ RobinhoodReadBalance(s) \/ SolanaReadBalance(s)
           \/ HypercoreReadBalance(s)
  <2>1. PICK next \in {"approving", "sending"} :
          /\ ReadBalance(s, next)
          /\ next = "sending" => ~(network = "robinhood" /\ Side[s] = "sell")
    BY <1>1 DEF EvmReadBalance, RobinhoodReadBalance, SolanaReadBalance, HypercoreReadBalance
  <2>. QED
    BY <2>1, ReadBalanceKeeps
<1>2. CASE AllowanceSuffices(s)
  BY <1>2, NextNeedKeeps DEF AllowanceSuffices
<1>3. CASE Approve(s) \/ RenewPermit(s)
  BY <1>3, ApprovesKeeps DEF Approve, RenewPermit
<1>4. CASE Approved(s)
  <2>1. MoreNeeds(s)
    BY <1>4 DEF Approved, SwapAt, OwnInv, Remembers
  <2>. QED
    BY <1>4, <2>1, NextNeedKeeps DEF Approved
<1>5. CASE ReadNative(s) \/ RecordFirst(s) \/ SlippageRejected(s) \/ Confirmed(s) \/ Throws(s)
  BY <1>5, ReadNativeKeeps, RecordFirstKeeps, RejectedKeeps, ConfirmedKeeps, ThrowsKeeps
<1>6. CASE Submitted(s) \/ Ordered(s) \/ AnswerLost(s) \/ OrderAnswerLost(s)
  BY <1>6, SendingKeeps
<1>7. CASE EvmMeasure(s) \/ RobinhoodMeasure(s) \/ SolanaMeasure(s) \/ HypercoreMeasure(s)
  BY <1>7, MeasureKeeps DEF EvmMeasure, RobinhoodMeasure, SolanaMeasure, HypercoreMeasure
<1>8. CASE FillReported(s)
  BY <1>8, FillReportedKeeps
<1>9. CASE EvmReport(s) \/ RobinhoodReport(s) \/ SolanaReport(s) \/ HypercoreReport(s)
  BY <1>9, AnyReportKeeps
<1>. QED
  BY <1>1, <1>2, <1>3, <1>4, <1>5, <1>6, <1>7, <1>8, <1>9 DEF Adapter

-----------------------------------------------------------------------------
(* Steps of the network                                                     *)

\* The account gets one more state.
LEMMA ChainGrows ==
  ASSUME SwapsTypeOK, NEW state \in AccountState, chain' = Append(chain, state)
  PROVE  /\ chain' \in Seq(AccountState) /\ chain' # <<>>
         /\ Len(chain) \in Nat /\ Len(chain) >= 1 /\ DOMAIN chain = 1..Len(chain)
         /\ Len(chain') = Len(chain) + 1 /\ DOMAIN chain' = 1..(Len(chain) + 1)
         /\ \A n \in DOMAIN chain : chain'[n] = chain[n]
         /\ chain'[Len(chain) + 1] = state /\ Latest = chain[Len(chain)]
<1>1. chain \in Seq(AccountState) /\ chain # <<>>
  BY DEF SwapsTypeOK
<1>. QED
  BY <1>1 DEF Latest

LEMMA GrowingKeepsChain ==
  ASSUME SwapsTypeOK, ChainInv, NEW state \in AccountState, chain' = Append(chain, state),
         state.by \notin Swap => state.token = Latest.token,
         \A t \in Swap : state.by = t /\ Side[t] = "sell" => state.token = Latest.token - Amount[t]
  PROVE  ChainInv'
<1>1. /\ Len(chain) \in Nat /\ Len(chain) >= 1 /\ DOMAIN chain = 1..Len(chain)
      /\ DOMAIN chain' = 1..(Len(chain) + 1)
      /\ \A n \in DOMAIN chain : chain'[n] = chain[n]
      /\ chain'[Len(chain) + 1] = state /\ Latest = chain[Len(chain)]
  BY ChainGrows
<1>2. QuietKeepsToken'
  <2> SUFFICES ASSUME NEW i \in DOMAIN chain', NEW j \in DOMAIN chain', i <= j,
                      NoSwapAfter(i, j)'
               PROVE  chain'[i].token = chain'[j].token
    BY DEF QuietKeepsToken
  <2>1. \A m \in DOMAIN chain' : i < m /\ m <= j => chain'[m].by \notin Swap
    BY DEF NoSwapAfter
  <2>2. CASE j \in DOMAIN chain
    <3>1. i \in DOMAIN chain /\ NoSwapAfter(i, j)
      BY <1>1, <2>1, <2>2 DEF NoSwapAfter
    <3>. QED
      BY <1>1, <2>2, <3>1 DEF ChainInv, QuietKeepsToken
  <2>3. CASE j = Len(chain) + 1 /\ i \in DOMAIN chain
    <3>1. NoSwapAfter(i, Len(chain)) /\ state.by \notin Swap
      BY <1>1, <2>1, <2>3 DEF NoSwapAfter
    <3>2. chain[i].token = chain[Len(chain)].token
      BY <1>1, <2>3, <3>1 DEF ChainInv, QuietKeepsToken
    <3>. QED
      BY <1>1, <2>3, <3>1, <3>2
  <2>. QED
    BY <1>1, <2>2, <2>3
<1>3. SalesMoveAmount'
  <2> SUFFICES ASSUME NEW n \in DOMAIN chain', NEW t \in Swap, chain'[n].by = t, Side[t] = "sell"
               PROVE  n > 1 /\ chain'[n].token = chain'[n - 1].token - Amount[t]
    BY DEF SalesMoveAmount
  <2>1. CASE n \in DOMAIN chain
    <3>1. n > 1 /\ chain[n].token = chain[n - 1].token - Amount[t]
      BY <1>1, <2>1 DEF ChainInv, SalesMoveAmount
    <3>. QED
      BY <1>1, <2>1, <3>1
  <2>2. CASE n = Len(chain) + 1
    BY <1>1, <2>2
  <2>. QED
    BY <1>1, <2>1, <2>2
<1>. QED
  BY <1>2, <1>3 DEF ChainInv

\* A report is about states the account has already been in.
LEMMA GrowingKeepsResult ==
  ASSUME SwapsTypeOK, NEW state \in AccountState, chain' = Append(chain, state),
         UNCHANGED <<network, result>>, NEW t \in Swap, ResultOf(t)
  PROVE  ResultOf(t)'
<1>1. /\ Len(chain) \in Nat /\ DOMAIN chain = 1..Len(chain)
      /\ Len(chain') = Len(chain) + 1 /\ DOMAIN chain' = 1..(Len(chain) + 1)
      /\ \A n \in DOMAIN chain : chain'[n] = chain[n]
  BY ChainGrows
<1> SUFFICES ASSUME Reported(t)
             PROVE  /\ result[t].from >= 1 /\ result[t].to <= Len(chain')
                    /\ network = "robinhood" /\ Side[t] = "sell" => result[t].base >= 1
                    /\ \A n \in DOMAIN chain' :
                         chain'[n].by = t => TokensMeasured(t, n)' /\ ProceedsMeasured(t, n)'
  BY DEF ResultOf, Reported
<1>2. result[t].from \in Nat /\ result[t].to \in Nat /\ result[t].base \in Nat
  BY DEF SwapsTypeOK
<1>3. /\ result[t].from >= 1 /\ result[t].to <= Len(chain)
      /\ network = "robinhood" /\ Side[t] = "sell" => result[t].base >= 1
  BY DEF ResultOf
<1>4. ASSUME NEW i \in Nat
      PROVE  Between(i, result[t].to)' = Between(i, result[t].to)
  BY <1>1, <1>2, <1>3 DEF Between
<1>5. \A m \in Between(result[t].from, result[t].to) :
        Swapped(m)' = Swapped(m) /\ Moved(m)' = Moved(m)
  BY <1>1, <1>2, <1>3 DEF Between, Swapped, Moved
<1>6. ASSUME NEW n \in DOMAIN chain', chain'[n].by = t PROVE TokensMeasured(t, n)'
  <2> DEFINE own == {m \in Between(result[t].from, result[t].to) : Swapped(m)}
  <2>1. {m \in Between(result[t].from, result[t].to)' : Swapped(m)'} = own
    BY <1>2, <1>4, <1>5
  <2>2. CASE own # {n}
    BY <2>1, <2>2 DEF TokensMeasured
  <2>3. CASE own = {n}
    <3>1. n \in Between(result[t].from, result[t].to)
      BY <2>3
    <3>2. n \in DOMAIN chain /\ chain[n].by = t
      BY <1>1, <1>6, <3>1 DEF Between
    <3>3. TokensMeasured(t, n)
      BY <3>2 DEF ResultOf
    <3>. QED
      BY <1>5, <2>3, <3>1, <3>3 DEF TokensMeasured
  <2>. QED
    BY <2>2, <2>3
<1>7. ASSUME NEW n \in DOMAIN chain', chain'[n].by = t PROVE ProceedsMeasured(t, n)'
  <2> SUFFICES ASSUME network = "robinhood", Side[t] = "sell",
                      Between(result[t].base, result[t].to) = {n}
               PROVE  result[t].native = chain'[n].native - chain'[n - 1].native
    BY <1>2, <1>4 DEF ProceedsMeasured
  <2>1. n \in DOMAIN chain /\ n <= result[t].to /\ n > result[t].base
    BY DEF Between
  <2>2. chain[n].by = t
    BY <1>1, <1>7, <2>1
  <2>3. result[t].native = chain[n].native - chain[n - 1].native
    BY <2>1, <2>2 DEF ResultOf, ProceedsMeasured
  <2>. QED
    BY <1>1, <1>2, <1>3, <2>1, <2>3
<1>. QED
  BY <1>1, <1>2, <1>3, <1>6, <1>7

\* Of the own transactions only swaps count, and they lie after the first reading.
LEMMA MineKeeps ==
  ASSUME SwapInv, NEW s \in Swap, NEW k \in Slot, Mine(s, k)
  PROVE  SwapInv'
<1> USE DEF SwapInv
<1>1. PICK state \in Effect(s, k) : chain' = Append(chain, state)
  BY DEF Mine
<1>2. /\ state \in AccountState
      /\ state.by \notin Swap => state.token = Latest.token
      /\ \A t \in Swap : state.by = t /\ Side[t] = "sell" => state.token = Latest.token - Amount[t]
  BY EffectOf
<1>3. /\ chain' \in Seq(AccountState) /\ chain' # <<>>
      /\ Len(chain) \in Nat /\ DOMAIN chain = 1..Len(chain)
      /\ Len(chain') = Len(chain) + 1 /\ DOMAIN chain' = 1..(Len(chain) + 1)
      /\ \A n \in DOMAIN chain : chain'[n] = chain[n]
  BY <1>1, <1>2, ChainGrows
<1>4. tx \in [Swap -> [Slot -> {"none", "pending", "mined", "reverted"}]]
      /\ run \in [Swap -> RunState]
  BY DEF SwapsTypeOK
<1>5. /\ tx' \in [Swap -> [Slot -> {"none", "pending", "mined", "reverted"}]]
      /\ \A t \in Swap : \A j \in Slot : tx'[t][j] = "none" <=> tx[t][j] = "none"
  BY <1>4 DEF Mine
<1>6. SwapsTypeOK'
  BY <1>3, <1>5 DEF SwapsTypeOK, Mine
<1>7. ChainInv'
  BY <1>1, <1>2, GrowingKeepsChain
<1>8. ASSUME NEW t \in Swap PROVE OwnInv(t)'
  <2>1. RecordedOf(t)' /\ SentOnce(t)'
    BY <1>5 DEF OwnInv, RecordedOf, SentOnce, Mine, Slot
  <2>2. run[t].from \in Nat /\ run[t].from <= Len(chain) /\ run[t].from < Len(chain')
    <3>1. run[t].from \in Nat
      BY <1>4 DEF RunState
    <3>2. run[t].from <= Len(chain)
      BY DEF OwnInv, Remembers
    <3>. QED
      BY <1>3, <3>1, <3>2
  <2>3. Remembers(t)'
    BY <1>3, <2>2 DEF OwnInv, Remembers, Mine, MoreNeeds, Needs, RobinhoodNeeds
  <2>4. RemembersNative(t)' /\ HasMeasured(t)'
    BY <1>3 DEF OwnInv, RemembersNative, HasMeasured, Mine
  <2>5. ResultOf(t)'
    BY <1>1, <1>2, GrowingKeepsResult DEF OwnInv, Mine
  <2>. QED
    BY <2>1, <2>3, <2>4, <2>5 DEF OwnInv
<1>. QED
  BY <1>6, <1>7, <1>8

LEMMA RevertKeeps ==
  ASSUME SwapInv, NEW s \in Swap, NEW k \in Slot, Revert(s, k)
  PROVE  SwapInv'
<1> USE DEF SwapInv
<1>1. tx \in [Swap -> [Slot -> {"none", "pending", "mined", "reverted"}]]
  BY DEF SwapsTypeOK
<1>2. /\ tx' \in [Swap -> [Slot -> {"none", "pending", "mined", "reverted"}]]
      /\ \A t \in Swap : \A j \in Slot :
           (tx'[t][j] = "none" <=> tx[t][j] = "none") /\ (tx'[t][j] = "mined" => tx[t][j] = "mined")
  BY <1>1 DEF Revert
<1>3. SwapsTypeOK' /\ ChainInv'
  BY <1>2 DEF Revert, SwapsTypeOK, ChainInv, QuietKeepsToken, NoSwapAfter, SalesMoveAmount
<1>4. ASSUME NEW t \in Swap PROVE OwnInv(t)'
  <2>1. RecordedOf(t)' /\ SentOnce(t)'
    BY <1>2 DEF OwnInv, RecordedOf, SentOnce, Revert, Slot
  <2>2. Remembers(t)'
    BY <1>2 DEF OwnInv, Remembers, Revert, MoreNeeds, Needs, RobinhoodNeeds, Slot
  <2>3. RemembersNative(t)' /\ HasMeasured(t)'
    BY DEF OwnInv, RemembersNative, HasMeasured, Revert
  <2>4. ResultOf(t)'
    BY ResultKept DEF OwnInv, Revert
  <2>. QED
    BY <2>1, <2>2, <2>3, <2>4 DEF OwnInv
<1>. QED
  BY <1>3, <1>4

LEMMA SwapStarts == SwapsInit => SwapInv
<1> SUFFICES ASSUME SwapsInit PROVE SwapInv
  OBVIOUS
<1> DEFINE genesis == [by |-> "genesis", token |-> Held, native |-> Coins,
                       allowance |-> [p \in Spender |-> 0]]
<1>1. genesis \in AccountState /\ genesis.by = "genesis" /\ genesis.token = Held
  BY DEF AccountState
<1>2. FreshSwap \in RunState /\ FreshSwap.pc = "planned" /\ FreshSwap.retried = FALSE
      /\ FreshSwap.from = 0
  BY DEF FreshSwap, RunState
<1>3. NoResult \in [token : Int, native : Int, from : Nat, base : Nat, to : Nat]
  BY DEF NoResult
<1>4. chain = <<genesis>>
  BY DEF SwapsInit
<1> HIDE DEF genesis
<1>5. Len(chain) = 1 /\ DOMAIN chain = {1} /\ chain[1] = genesis
      /\ chain \in Seq(AccountState) /\ chain # <<>>
  BY <1>1, <1>4
<1>6. SwapsTypeOK
  BY <1>2, <1>3, <1>5 DEF SwapsInit, SwapsTypeOK
<1>7. ChainInv
  BY <1>1, <1>5 DEF ChainInv, QuietKeepsToken, SalesMoveAmount
<1>8. ASSUME NEW s \in Swap PROVE OwnInv(s)
  <2>1. run[s] = FreshSwap /\ result[s] = NoResult
        /\ \A k \in Slot : tx[s][k] = "none"
    BY DEF SwapsInit
  <2>2. RecordedOf(s) /\ SentOnce(s)
    BY <1>2, <2>1 DEF RecordedOf, SentOnce, Slot
  <2>3. Remembers(s)
    BY <1>2, <1>5, <2>1 DEF Remembers, Slot
  <2>4. RemembersNative(s) /\ HasMeasured(s) /\ ResultOf(s)
    BY <1>2, <2>1 DEF RemembersNative, HasMeasured, ResultOf, Reported
  <2>. QED
    BY <2>2, <2>3, <2>4 DEF OwnInv
<1>. QED
  BY <1>6, <1>7, <1>8 DEF SwapInv

THEOREM SwapsAreSound == SwapsSpec => []SwapInv
<1>1. SwapsInit => SwapInv
  BY SwapStarts
<1>2. SwapInv /\ [SwapsNext]_swapVars => SwapInv'
  <2> SUFFICES ASSUME SwapInv, [SwapsNext]_swapVars PROVE SwapInv'
    OBVIOUS
  <2>1. CASE UNCHANGED swapVars
    <3>1. UNCHANGED <<network, venue, chain, tx, run, recorded, lost, result>>
      BY <2>1 DEF swapVars
    <3>2. SwapsTypeOK' /\ ChainInv'
      BY <3>1 DEF SwapInv, SwapsTypeOK, ChainInv, QuietKeepsToken, NoSwapAfter, SalesMoveAmount
    <3>3. ASSUME NEW s \in Swap PROVE OwnInv(s)'
      <4>1. RecordedOf(s)' /\ SentOnce(s)' /\ RemembersNative(s)' /\ HasMeasured(s)'
        BY <3>1 DEF SwapInv, OwnInv, RecordedOf, SentOnce, RemembersNative, HasMeasured
      <4>2. Remembers(s)'
        BY <3>1 DEF SwapInv, OwnInv, Remembers, MoreNeeds, Needs, RobinhoodNeeds
      <4>3. ResultOf(s)'
        BY <3>1, ResultKept DEF SwapInv, OwnInv
      <4>. QED
        BY <4>1, <4>2, <4>3 DEF OwnInv
    <3>. QED
      BY <3>2, <3>3 DEF SwapInv
  <2>2. ASSUME NEW s \in Swap, Adapter(s) PROVE SwapInv'
    <3>1. SwapsTypeOK' /\ OnlyOf(s) /\ OwnInv(s)'
      BY <2>2, AdapterKeeps DEF SwapInv
    <3>2. ChainInv'
      BY <3>1 DEF OnlyOf, SwapInv, ChainInv, QuietKeepsToken, NoSwapAfter, SalesMoveAmount
    <3>3. \A t \in Swap \ {s} : OwnInv(t)'
      BY <3>1, OthersKept DEF SwapInv
    <3>. QED
      BY <3>1, <3>2, <3>3 DEF SwapInv
  <2>3. ASSUME NEW s \in Swap, NEW k \in Slot, Mine(s, k) \/ Revert(s, k) PROVE SwapInv'
    BY <2>3, MineKeeps, RevertKeeps
  <2>. QED
    BY <2>1, <2>2, <2>3 DEF SwapsNext
<1>. QED
  BY <1>1, <1>2, PTL DEF SwapsSpec

\* onSubmitted stores the reference of whatever executeSwap sends: a crash between the two
\* leaves an order nobody can find (see SubmittedIsRecorded).
THEOREM SubmissionsAreRecorded == SwapsSpec => []SubmittedIsRecorded
<1>1. SwapInv => SubmittedIsRecorded
  BY DEF SwapInv, OwnInv, RecordedOf, SubmittedIsRecorded
<1>. QED
  BY <1>1, SwapsAreSound, PTL

\* The second transaction of a slippage error never doubles the first one (see
\* OneSwapUnlessLost).
THEOREM OneSwapEach == SwapsSpec => []OneSwapUnlessLost
<1>1. ASSUME SwapInv, NEW s \in Swap \ lost
      PROVE  tx[s]["swap"] \in {"none", "reverted"} \/ tx[s]["again"] = "none"
  <2>1. run[s] \in RunState
    BY <1>1 DEF SwapInv, SwapsTypeOK
  <2>2. run[s].retried \in BOOLEAN
    BY <2>1 DEF RunState
  <2>. QED
    BY <1>1, <2>2 DEF SwapInv, OwnInv, SentOnce
<1>2. SwapInv => OneSwapUnlessLost
  BY <1>1 DEF OneSwapUnlessLost
<1>. QED
  BY <1>2, SwapsAreSound, PTL

\* The balance differences the adapters report are what the own swap moved, when no other
\* swap of the token came between the readings (see MeasuredAlone).
THEOREM DifferenceIsOwn == SwapsSpec => []MeasuredAlone
<1>1. SwapInv => MeasuredAlone
  BY DEF SwapInv, OwnInv, ResultOf, MeasuredAlone
<1>. QED
  BY <1>1, SwapsAreSound, PTL

HIDE SwapAssumption
-----------------------------------------------------------------------------
(***************************************************************************)
(* What a purchase in a young market relies on is recent, for any numbers  *)
(* of orders, lives of the caches and ages of a quote.                     *)
(*                                                                         *)
(* A verdict that the token can be sold is remembered for ExitTtl ticks,   *)
(* so the token could be sold at most so long before it is used.  From     *)
(* then on the order's quote ages with the clock: as long as the quote is  *)
(* not too old, the token could be sold less than ExitTtl ticks before the *)
(* quote was made.  This is kept by the checks in between, which do not    *)
(* look at the verdict again, and gives the property when the guard looks  *)
(* at the age of the quote.  That the policy asks for a verdict before the *)
(* guard asks for the age is what the induction needs.                     *)
(***************************************************************************)

USE RoutingAssumption

VenueName == {"none", "0x", "lifi", "uniswap", "pool1", "pool2", "portal", "jupiter"}
Preparing == {"idle", "prepare", "asking", "simulate", "age", "exit", "verifying"}
Order == [pc : Preparing \cup {"policy", "risk", "guard", "limits"}, side : {"buy", "sell"},
          kind : {"amm", "portal"}, left : Seq(VenueName), venue : VenueName, age : 0..Old,
          refreshed : BOOLEAN, strict : BOOLEAN, verified : BOOLEAN, by : {"none", "quote", "portal"},
          idle : 0..Forgotten]

MarketType ==
  /\ tradedOn \in {"ethereum", "base", "robinhood", "solana"}
  /\ young \in BOOLEAN /\ listed \in BOOLEAN /\ required \in BOOLEAN
  /\ open \subseteq Venues(tradedOn) /\ exits \subseteq Venues(tradedOn)
  /\ idle \in 0..Forgotten
  /\ exits # {} => idle = 0

CacheType ==
  /\ poolCache \in [pool : {"none", "pool1", "pool2"}, left : 0..PoolTtl]
  /\ routeCache \in [verified : BOOLEAN, left : 0..ExitTtl, by : {"none", "quote", "portal"}]

\* A remembered verdict is no older than the time it has been remembered for.
VerdictIsRecent ==
  routeCache.verified = TRUE /\ routeCache.by = "quote" /\ routeCache.left > 0
    => idle + routeCache.left <= ExitTtl

\* The token could be sold less than ExitTtl ticks before the order's quote.
Recent(o) == o.age = Old \/ idle < ExitTtl + o.age

\* What an order has made sure of by the time it has come so far.
MadeSure(o) ==
  /\ o.pc = "simulate" => o.left # <<>>
  /\ o.side = "buy" /\ o.by = "quote" =>
       /\ o.pc = "policy" /\ o.verified = TRUE => Recent(o)
       /\ o.pc \in {"risk", "guard"} /\ young = TRUE /\ o.strict = TRUE => Recent(o)
       /\ o.pc = "limits" /\ young = TRUE /\ o.strict = TRUE => o.idle < ExitTtl + MaxAge

OrdersMadeSure ==
  /\ request \in [Request -> Order]
  /\ \A r \in Request : MadeSure(request[r])

RoutingInv == MarketType /\ CacheType /\ VerdictIsRecent /\ OrdersMadeSure

-----------------------------------------------------------------------------
LEMMA NoRequestIsOrder == NoRequest \in Order /\ MadeSure(NoRequest)
<1>1. MaxAge + 1 \in Nat /\ ExitTtl + MaxAge \in Nat
  OBVIOUS
<1>2. <<>> \in Seq(VenueName)
  OBVIOUS
<1>3. NoRequest \in Order
  BY <1>1, <1>2 DEF NoRequest, Order, Preparing, VenueName, Old, Forgotten
<1>4. MadeSure(NoRequest)
  BY DEF NoRequest, MadeSure
<1> QED
  BY <1>3, <1>4

LEMMA RoutingStarts == RoutingInit => RoutingInv
<1> SUFFICES ASSUME RoutingInit PROVE RoutingInv
  OBVIOUS
<1>1. ExitTtl + MaxAge \in Nat /\ MaxAge + 1 \in Nat
  OBVIOUS
<1>2. MarketType
  BY <1>1 DEF RoutingInit, MarketType, Forgotten
<1>3. CacheType /\ VerdictIsRecent
  BY DEF RoutingInit, CacheType, VerdictIsRecent
<1>4. OrdersMadeSure
  BY NoRequestIsOrder DEF RoutingInit, OrdersMadeSure
<1> QED
  BY <1>2, <1>3, <1>4 DEF RoutingInv

\* One order goes on; the market stands, and the caches are as they should be.
LEMMA OrderGoesOn ==
  ASSUME RoutingInv, NEW r \in Request, NEW o \in Order, MadeSure(o),
         request' = [request EXCEPT ![r] = o], UNCHANGED world,
         CacheType', VerdictIsRecent'
  PROVE  RoutingInv'
<1>1. MarketType'
  BY DEF RoutingInv, MarketType, world, Venues, Forgotten
<1>2. request' \in [Request -> Order]
  BY DEF RoutingInv, OrdersMadeSure
<1>3. \A s \in Request : MadeSure(request'[s])
  BY DEF RoutingInv, OrdersMadeSure
<1>4. young' = young /\ idle' = idle
  BY DEF world
<1>5. OrdersMadeSure'
  BY <1>2, <1>3, <1>4 DEF OrdersMadeSure, MadeSure, Recent
<1> QED
  BY <1>1, <1>5 DEF RoutingInv

LEMMA CachesStay ==
  ASSUME RoutingInv, UNCHANGED caches, UNCHANGED world
  PROVE  CacheType' /\ VerdictIsRecent'
BY DEF RoutingInv, CacheType, VerdictIsRecent, caches, world

\* What an order is, field by field.
LEMMA OrderFields ==
  ASSUME RoutingInv, NEW r \in Request
  PROVE  request[r] \in Order /\ MadeSure(request[r])
BY DEF RoutingInv, OrdersMadeSure

LEMMA IsOrder ==
  ASSUME NEW b \in Order, NEW pc \in Preparing \cup {"policy", "risk", "guard", "limits"}
  PROVE  /\ [b EXCEPT !.pc = pc] \in Order
         /\ [b EXCEPT !.pc = pc].pc = pc
         /\ [b EXCEPT !.pc = pc].side = b.side /\ [b EXCEPT !.pc = pc].by = b.by
         /\ [b EXCEPT !.pc = pc].left = b.left /\ [b EXCEPT !.pc = pc].age = b.age
         /\ [b EXCEPT !.pc = pc].verified = b.verified /\ [b EXCEPT !.pc = pc].idle = b.idle
         /\ [b EXCEPT !.pc = pc].strict = b.strict
BY DEF Order

LEMMA StillPreparing ==
  ASSUME NEW o \in Order, o.pc \in Preparing, o.pc = "simulate" => o.left # <<>>
  PROVE  MadeSure(o)
BY DEF MadeSure, Preparing

LEMMA ForgetKeeps ==
  ASSUME RoutingInv, NEW r \in Request, Forget(r), UNCHANGED <<world, caches>>
  PROVE  RoutingInv'
BY NoRequestIsOrder, OrderGoesOn, CachesStay DEF Forget

\* The order comes to its next check; the caches stay.
LEMMA GotoKeeps ==
  ASSUME RoutingInv, NEW r \in Request,
         NEW pc \in (Preparing \cup {"policy", "risk", "guard", "limits"}) \ {"simulate"},
         Goto(r, pc), UNCHANGED <<world, caches>>,
         pc \notin {"policy", "limits"},
         request[r].side = "buy" /\ request[r].by = "quote" /\ pc \in {"risk", "guard"}
           /\ young = TRUE /\ request[r].strict = TRUE => Recent(request[r])
  PROVE  RoutingInv'
<1>1. PICK b \in Order : b = request[r]
  BY OrderFields
<1> DEFINE o == [b EXCEPT !.pc = pc]
<1>2. /\ o \in Order /\ o.pc = pc /\ o.side = b.side /\ o.by = b.by /\ o.left = b.left
      /\ o.age = b.age /\ o.verified = b.verified /\ o.idle = b.idle /\ o.strict = b.strict
  BY IsOrder
<1>3. request' = [request EXCEPT ![r] = o]
  BY <1>1 DEF Goto
<1> HIDE DEF o
<1>4. pc # "simulate"
  OBVIOUS
<1>5. MadeSure(o)
  BY <1>1, <1>2, <1>4 DEF MadeSure, Recent, Preparing
<1> QED
  BY <1>2, <1>3, <1>5, OrderGoesOn, CachesStay
-----------------------------------------------------------------------------
(* prepare and prepareFreshQuote                                            *)

LEMMA MarketKeeps ==
  ASSUME RoutingInv, NEW r \in Request, ResolveMarket(r) \/ ResolvePortalMarket(r)
  PROVE  RoutingInv'
<1>1. PICK b \in Order : b = NoRequest
  BY NoRequestIsOrder
<1>2. ASSUME NEW o \in Order, o.pc = "prepare", request' = [request EXCEPT ![r] = o]
      PROVE  RoutingInv'
  <2>1. MadeSure(o)
    BY <1>2, StillPreparing DEF Preparing
  <2>2. UNCHANGED <<world, caches>>
    BY DEF ResolveMarket, ResolvePortalMarket
  <2> QED
    BY <1>2, <2>1, <2>2, OrderGoesOn, CachesStay
<1>3. ASSUME NEW side \in {"buy", "sell"}, NEW kind \in {"amm", "portal"}, StartOrder(r, side, kind)
      PROVE  RoutingInv'
  <2> DEFINE o == [b EXCEPT !.pc = "prepare", !.side = side, !.kind = kind, !.strict = required]
  <2>1. required \in BOOLEAN
    BY DEF RoutingInv, MarketType
  <2>2. o \in Order /\ o.pc = "prepare"
    BY <2>1 DEF Order, Preparing
  <2>3. request' = [request EXCEPT ![r] = o]
    BY <1>1, <1>3 DEF StartOrder
  <2> HIDE DEF o
  <2> QED
    BY <1>2, <2>2, <2>3
<1> QED
  BY <1>3 DEF ResolveMarket, ResolvePortalMarket

LEMMA AskKeeps ==
  ASSUME RoutingInv, NEW r \in Request, NEW venues \in Seq(VenueName),
         Ask(r, venues), UNCHANGED <<world, caches>>
  PROVE  RoutingInv'
<1>1. PICK b \in Order : b = request[r]
  BY OrderFields
<1> DEFINE o == [b EXCEPT !.pc = "asking", !.left = venues]
<1>2. o \in Order /\ o.pc = "asking"
  BY DEF Order, Preparing
<1>3. request' = [request EXCEPT ![r] = o]
  BY <1>1 DEF Ask
<1> HIDE DEF o
<1>4. MadeSure(o)
  BY <1>2, StillPreparing DEF Preparing
<1> QED
  BY <1>2, <1>3, <1>4, OrderGoesOn, CachesStay

LEMMA PlanKeeps ==
  ASSUME RoutingInv, NEW r \in Request, request[r].left # <<>>, Plan(r),
         UNCHANGED <<world, routeCache>>, CacheType'
  PROVE  RoutingInv'
<1>1. PICK b \in Order : b = request[r]
  BY OrderFields
<1> DEFINE o == [b EXCEPT !.pc = "simulate", !.venue = Head(b.left), !.age = 0]
<1>2. b.left \in Seq(VenueName) /\ b.left # <<>>
  BY <1>1 DEF Order
<1>3. Head(b.left) \in VenueName
  BY <1>2
<1>4. 0 \in 0..Old
  BY DEF Old
<1>5. o \in Order /\ o.pc = "simulate" /\ o.left = b.left
  BY <1>3, <1>4 DEF Order, Preparing
<1>6. request' = [request EXCEPT ![r] = o]
  BY <1>1 DEF Plan, Asked
<1> HIDE DEF o
<1>7. MadeSure(o)
  BY <1>2, <1>5, StillPreparing DEF Preparing
<1>8. VerdictIsRecent'
  BY DEF RoutingInv, VerdictIsRecent, world
<1> QED
  BY <1>5, <1>6, <1>7, <1>8, OrderGoesOn

LEMMA QuotesKeep ==
  ASSUME RoutingInv, NEW r \in Request,
         ZeroExQuotes(r) \/ LifiQuotes(r) \/ UniswapBuys(r) \/ UniswapSells(r)
           \/ PoolQuotes(r) \/ PortalQuotes(r) \/ JupiterQuotes(r)
  PROVE  RoutingInv'
<1>1. CASE PoolQuotes(r)
  <2>1. PICK p \in {"pool1", "pool2"} :
          Answers(r, p) /\ poolCache' = [pool |-> p, left |-> PoolTtl]
    BY <1>1 DEF PoolQuotes
  <2>2. CacheType'
    BY <1>1, <2>1 DEF RoutingInv, CacheType, PoolQuotes
  <2> QED
    BY <1>1, <2>1, <2>2, PlanKeeps DEF PoolQuotes, Answers
<1>2. CASE ZeroExQuotes(r) \/ LifiQuotes(r) \/ UniswapBuys(r) \/ UniswapSells(r)
             \/ PortalQuotes(r) \/ JupiterQuotes(r)
  <2>1. Plan(r) /\ UNCHANGED <<world, caches>> /\ request[r].left # <<>>
    BY <1>2 DEF ZeroExQuotes, LifiQuotes, UniswapBuys, UniswapSells, PortalQuotes,
                JupiterQuotes, Answers
  <2>2. CacheType'
    BY <2>1, CachesStay
  <2>3. UNCHANGED <<world, routeCache>>
    BY <2>1 DEF caches
  <2> QED
    BY <2>1, <2>2, <2>3, PlanKeeps
<1> QED
  BY <1>1, <1>2

LEMMA PassedOverKeeps ==
  ASSUME RoutingInv, NEW r \in Request, NoRoute(r) \/ SimulationReroutes(r)
  PROVE  RoutingInv'
<1>1. PICK b \in Order : b = request[r] /\ MadeSure(b)
  BY OrderFields
<1> DEFINE o == [b EXCEPT !.pc = "asking", !.left = Tail(b.left)]
<1>2. b.left \in Seq(VenueName) /\ b.left # <<>>
  BY <1>1 DEF Order, NoRoute, SimulationReroutes, RequestAt, MadeSure
<1>3. Tail(b.left) \in Seq(VenueName)
  BY <1>2
<1>4. o \in Order /\ o.pc = "asking"
  BY <1>3 DEF Order, Preparing
<1>5. request' = [request EXCEPT ![r] = o]
  <2>1. CASE NoRoute(r)
    <3>1. b.pc = "asking" /\ request' = [request EXCEPT ![r] = [b EXCEPT !.left = Tail(b.left)]]
      BY <1>1, <2>1 DEF NoRoute, RequestAt
    <3>2. o = [b EXCEPT !.left = Tail(b.left)]
      BY <3>1 DEF Order
    <3> QED
      BY <3>1, <3>2
  <2>2. CASE SimulationReroutes(r)
    BY <1>1, <2>2 DEF SimulationReroutes
  <2> QED
    BY <2>1, <2>2
<1>6. UNCHANGED <<world, caches>>
  BY DEF NoRoute, SimulationReroutes
<1> HIDE DEF o
<1>7. MadeSure(o)
  BY <1>4, StillPreparing DEF Preparing
<1> QED
  BY <1>4, <1>5, <1>6, <1>7, OrderGoesOn, CachesStay

LEMMA RefreshKeeps ==
  ASSUME RoutingInv, NEW r \in Request, RefreshQuote(r)
  PROVE  RoutingInv'
<1>1. PICK b \in Order : b = request[r]
  BY OrderFields
<1> DEFINE o == [b EXCEPT !.pc = "prepare", !.refreshed = TRUE]
<1>2. o \in Order /\ o.pc = "prepare"
  BY DEF Order, Preparing
<1>3. request' = [request EXCEPT ![r] = o]
  BY <1>1 DEF RefreshQuote
<1> HIDE DEF o
<1>4. MadeSure(o)
  BY <1>2, StillPreparing DEF Preparing
<1> QED
  BY <1>2, <1>3, <1>4, OrderGoesOn, CachesStay DEF RefreshQuote

LEMMA PrepareKeeps ==
  ASSUME RoutingInv, NEW r \in Request, Prepare(r)
  PROVE  RoutingInv'
<1>1. CASE \/ Unprepared(r) \/ NoRouteLeft(r) \/ QuoteError(r) \/ SimulationFails(r)
           \/ StaleAgain(r)
  BY <1>1, ForgetKeeps
     DEF Unprepared, NoRouteLeft, QuoteError, SimulationFails, StaleAgain
<1>2. CASE PrepareEvm(r) \/ PrepareSolana(r) \/ PreparePortal(r) \/ UseCachedPool(r)
             \/ ResolvePools(r)
  <2>1. /\ <<"0x", "lifi", "uniswap">> \in Seq(VenueName) /\ <<"0x">> \in Seq(VenueName)
        /\ <<"jupiter">> \in Seq(VenueName) /\ <<"portal">> \in Seq(VenueName)
        /\ <<"pool1">> \in Seq(VenueName) /\ <<"pool2">> \in Seq(VenueName)
        /\ <<"pool1", "pool2">> \in Seq(VenueName)
    BY DEF VenueName
  <2>2. poolCache.pool \in VenueName
    BY DEF RoutingInv, CacheType, VenueName
  <2>3. <<poolCache.pool>> \in Seq(VenueName)
    BY <2>2
  <2>4. CASE PrepareEvm(r)
    BY <2>1, <2>4, AskKeeps DEF PrepareEvm
  <2>5. CASE PrepareSolana(r)
    BY <2>1, <2>5, AskKeeps DEF PrepareSolana
  <2>6. CASE PreparePortal(r)
    BY <2>1, <2>6, AskKeeps DEF PreparePortal
  <2>7. CASE UseCachedPool(r)
    BY <2>3, <2>7, AskKeeps DEF UseCachedPool
  <2>8. CASE ResolvePools(r)
    BY <2>1, <2>8, AskKeeps DEF ResolvePools, Pools
  <2> QED
    BY <1>2, <2>4, <2>5, <2>6, <2>7, <2>8
<1>3. CASE ZeroExQuotes(r) \/ LifiQuotes(r) \/ UniswapBuys(r) \/ UniswapSells(r)
             \/ PoolQuotes(r) \/ PortalQuotes(r) \/ JupiterQuotes(r)
  BY <1>3, QuotesKeep
<1>4. CASE NoRoute(r) \/ SimulationReroutes(r)
  BY <1>4, PassedOverKeeps
<1>5. CASE Simulated(r)
  BY <1>5, GotoKeeps DEF Simulated, Preparing
<1>6. CASE FreshQuote(r)
  BY <1>6, GotoKeeps DEF FreshQuote, Preparing
<1>7. CASE RefreshQuote(r)
  BY <1>7, RefreshKeeps
<1> QED
  BY <1>1, <1>2, <1>3, <1>4, <1>5, <1>6, <1>7 DEF Prepare

-----------------------------------------------------------------------------
(* The verdict on the exit, the policies and the limits                     *)

\* A verdict the order takes is recent: so is what the order is sure of.
LEMMA VerdictTaken ==
  ASSUME RoutingInv, NEW r \in Request, NEW verdict \in BOOLEAN,
         NEW by \in {"none", "quote", "portal"},
         request' = [request EXCEPT ![r].pc = "policy", ![r].verified = verdict, ![r].by = by],
         request[r].side = "buy" /\ by = "quote" /\ verdict = TRUE => idle < ExitTtl,
         UNCHANGED world, CacheType', VerdictIsRecent'
  PROVE  RoutingInv'
<1>1. PICK b \in Order : b = request[r]
  BY OrderFields
<1> DEFINE o == [b EXCEPT !.pc = "policy", !.verified = verdict, !.by = by]
<1>2. o \in Order
  BY DEF Order
<1>3. /\ o.pc = "policy" /\ o.by = by /\ o.side = b.side /\ o.age = b.age
      /\ o.verified = verdict
  BY DEF Order
<1>4. request' = [request EXCEPT ![r] = o]
  BY <1>1
<1> HIDE DEF o
<1>5. o.age \in Nat /\ idle \in Nat /\ ExitTtl \in Nat
  BY <1>2 DEF Order, Old, RoutingInv, MarketType, Forgotten
<1>6. idle < ExitTtl => Recent(o)
  BY <1>5 DEF Recent
<1>7. MadeSure(o)
  BY <1>1, <1>3, <1>6 DEF MadeSure
<1> QED
  BY <1>2, <1>4, <1>7, OrderGoesOn

LEMMA CachedVerdictKeeps ==
  ASSUME RoutingInv, NEW r \in Request, CachedVerdict(r)
  PROVE  RoutingInv'
<1>1. routeCache.verified \in BOOLEAN /\ routeCache.by \in {"none", "quote", "portal"}
  BY DEF RoutingInv, CacheType
<1>2. UNCHANGED world /\ CacheType' /\ VerdictIsRecent'
  BY CachesStay DEF CachedVerdict
<1>3. routeCache.left \in Nat /\ routeCache.left > 0 /\ idle \in Nat
  BY DEF CachedVerdict, Remembered, RoutingInv, CacheType, MarketType, Forgotten
<1>4. routeCache.by = "quote" /\ routeCache.verified = TRUE => idle < ExitTtl
  BY <1>3 DEF RoutingInv, VerdictIsRecent
<1> QED
  BY <1>1, <1>2, <1>4, VerdictTaken DEF CachedVerdict

\* What is answered TRUE, and is not repeated from a portal, was sellable just now.
LEMMA ExitMeansSellable ==
  ASSUME RoutingInv, NEW r \in Request, ExitOf(r) = TRUE, request[r].venue # "portal"
  PROVE  idle = 0
BY DEF RoutingInv, MarketType, ExitOf, PoolExit, JupiterExit, ZeroExExit, LifiExit

LEMMA ExitIsVerdict ==
  ASSUME RoutingInv, NEW r \in Request
  PROVE  ExitOf(r) \in BOOLEAN
<1>1. tradedOn \in {"ethereum", "base", "robinhood", "solana"}
  BY DEF RoutingInv, MarketType
<1>2. PoolExit(r) \in BOOLEAN /\ JupiterExit \in BOOLEAN /\ (ZeroExExit \/ LifiExit) \in BOOLEAN
  BY DEF PoolExit, JupiterExit, ZeroExExit, LifiExit
<1>3. CASE tradedOn = "robinhood"
  BY <1>2, <1>3 DEF ExitOf
<1>4. CASE tradedOn = "solana"
  BY <1>2, <1>4 DEF ExitOf
<1>5. CASE tradedOn \in {"ethereum", "base"}
  BY <1>2, <1>5 DEF ExitOf
<1> QED
  BY <1>1, <1>3, <1>4, <1>5

LEMMA RememberKeeps ==
  ASSUME RoutingInv, NEW r \in Request, NEW verdict \in BOOLEAN, Remember(r, verdict),
         verdict = TRUE => verdict = ExitOf(r), UNCHANGED <<world, poolCache>>
  PROVE  RoutingInv'
<1> DEFINE by == IF request[r].venue = "portal" THEN "portal" ELSE "quote"
<1>1. by \in {"quote", "portal"} /\ (by = "quote" => request[r].venue # "portal")
  OBVIOUS
<1>2. /\ routeCache' = [verified |-> verdict, left |-> ExitTtl, by |-> by]
      /\ request' = [request EXCEPT ![r].pc = "policy", ![r].verified = verdict, ![r].by = by]
  BY DEF Remember
<1> HIDE DEF by
<1>3. by = "quote" /\ verdict = TRUE => idle = 0
  BY <1>1, ExitMeansSellable
<1>4. CacheType'
  BY <1>1, <1>2 DEF RoutingInv, CacheType
<1>5. idle' = idle
  BY DEF world
<1>6. VerdictIsRecent'
  BY <1>2, <1>3, <1>5 DEF VerdictIsRecent
<1>7. by = "quote" /\ verdict = TRUE => idle < ExitTtl
  BY <1>3
<1> QED
  BY <1>1, <1>2, <1>4, <1>6, <1>7, VerdictTaken

LEMMA VerifyExitKeeps ==
  ASSUME RoutingInv, NEW r \in Request, VerifyExit(r)
  PROVE  RoutingInv'
<1>1. CASE SaleNeedsNoExit(r)
  <2>1. PICK b \in Order : b = request[r]
    BY OrderFields
  <2> DEFINE o == [b EXCEPT !.pc = "policy", !.verified = TRUE]
  <2>2. o \in Order /\ o.pc = "policy" /\ o.side = "sell"
    BY <1>1, <2>1 DEF Order, SaleNeedsNoExit
  <2>3. request' = [request EXCEPT ![r] = o]
    BY <1>1, <2>1 DEF SaleNeedsNoExit
  <2> HIDE DEF o
  <2>4. MadeSure(o)
    BY <2>2 DEF MadeSure
  <2> QED
    BY <1>1, <2>2, <2>3, <2>4, OrderGoesOn, CachesStay DEF SaleNeedsNoExit
<1>2. CASE CachedVerdict(r)
  BY <1>2, CachedVerdictKeeps
<1>3. CASE AskExit(r)
  BY <1>3, GotoKeeps DEF AskExit, Preparing
<1>4. CASE ExitAnswered(r)
  BY <1>4, ExitIsVerdict, RememberKeeps DEF ExitAnswered
<1>5. CASE ExitFails(r)
  BY <1>5, RememberKeeps DEF ExitFails
<1> QED
  BY <1>1, <1>2, <1>3, <1>4, <1>5 DEF VerifyExit

LEMMA PassGuardKeeps ==
  ASSUME RoutingInv, NEW r \in Request, PassGuard(r)
  PROVE  RoutingInv'
<1>1. PICK b \in Order : b = request[r] /\ MadeSure(b)
  BY OrderFields
<1>2. idle \in 0..Forgotten /\ young \in BOOLEAN
  BY DEF RoutingInv, MarketType
<1> DEFINE o == [b EXCEPT !.pc = "limits", !.idle = idle]
<1>3. o \in Order
  BY <1>2 DEF Order
<1>4. o.pc = "limits" /\ o.by = b.by /\ o.side = b.side /\ o.idle = idle /\ o.strict = b.strict
  BY DEF Order
<1>5. request' = [request EXCEPT ![r] = o]
  BY <1>1 DEF PassGuard
<1> HIDE DEF o
<1>6. b.pc = "guard" /\ b.age <= MaxAge
  BY <1>1 DEF PassGuard, RequestAt, Fresh
<1>7. b.age \in Nat /\ idle \in Nat /\ b.age # Old
  BY <1>2, <1>6 DEF Order, Old, Forgotten
<1>8. Recent(b) => idle < ExitTtl + MaxAge
  BY <1>6, <1>7 DEF Recent
<1>9. MadeSure(o)
  BY <1>1, <1>4, <1>6, <1>8 DEF MadeSure
<1> QED
  BY <1>3, <1>5, <1>9, OrderGoesOn, CachesStay DEF PassGuard

LEMMA DecideKeeps ==
  ASSUME RoutingInv, NEW r \in Request, Decide(r)
  PROVE  RoutingInv'
<1>1. CASE \/ FailPolicy(r) \/ NoNativePrice(r) \/ FailRisk(r) \/ FailGuard(r)
           \/ FailNetworkLimit(r) \/ FailFeeLimit(r) \/ Execute(r)
  BY <1>1, ForgetKeeps
     DEF FailPolicy, NoNativePrice, FailRisk, FailGuard, FailNetworkLimit, FailFeeLimit, Execute
<1>2. MadeSure(request[r]) /\ request[r].verified \in BOOLEAN
  BY OrderFields DEF Order
<1>3. CASE PassPolicy(r)
  <2>1. request[r].pc = "policy" /\ Goto(r, "risk") /\ UNCHANGED <<world, caches>>
    BY <1>3 DEF PassPolicy, RequestAt
  <2>2. request[r].side = "buy" /\ young = TRUE /\ request[r].strict = TRUE
          => request[r].verified = TRUE
    BY <1>2, <1>3 DEF PassPolicy, PolicyAccepts
  <2>3. request[r].side = "buy" /\ request[r].by = "quote" /\ young = TRUE
          /\ request[r].strict = TRUE => Recent(request[r])
    BY <1>2, <2>1, <2>2 DEF MadeSure
  <2> QED
    BY <2>1, <2>3, GotoKeeps
<1>4. CASE PassRisk(r)
  <2>1. request[r].pc = "risk" /\ Goto(r, "guard") /\ UNCHANGED <<world, caches>>
    BY <1>4 DEF PassRisk, RequestAt
  <2>2. request[r].side = "buy" /\ request[r].by = "quote" /\ young = TRUE
          /\ request[r].strict = TRUE => Recent(request[r])
    BY <1>2, <2>1 DEF MadeSure
  <2> QED
    BY <2>1, <2>2, GotoKeeps
<1>5. CASE PassGuard(r)
  BY <1>5, PassGuardKeeps
<1> QED
  BY <1>1, <1>3, <1>4, <1>5 DEF Decide

-----------------------------------------------------------------------------
(* The operator, the market and the clock                                   *)

\* An order under way keeps the settings it started with.
LEMMA SettingsKeep == ASSUME RoutingInv, SaveSettings PROVE RoutingInv'
<1>1. /\ UNCHANGED <<tradedOn, young, listed, open, exits, idle, caches, request>>
      /\ required' = ~required
  BY DEF SaveSettings
<1>2. MarketType'
  BY <1>1 DEF RoutingInv, MarketType, Venues, Forgotten
<1>3. CacheType' /\ VerdictIsRecent'
  BY <1>1 DEF RoutingInv, CacheType, VerdictIsRecent, caches
<1>4. OrdersMadeSure'
  BY <1>1 DEF RoutingInv, OrdersMadeSure, MadeSure, Recent
<1> QED
  BY <1>2, <1>3, <1>4 DEF RoutingInv

\* The token can only have become sellable.
LEMMA ChangeKeeps == ASSUME RoutingInv, VenueChanges PROVE RoutingInv'
<1>1. PICK o \in {open} \cup {open \ {v} : v \in open} \cup {open \cup {v} : v \in Venues(tradedOn)} :
      \E e \in {{}, exits, Venues(tradedOn)} : open' = o /\ exits' = e
  BY DEF VenueChanges
<1>2. open' \subseteq Venues(tradedOn) /\ exits' \subseteq Venues(tradedOn)
  BY <1>1 DEF RoutingInv, MarketType
<1>3. /\ tradedOn' = tradedOn /\ young' = young /\ UNCHANGED caches /\ request' = request
      /\ listed' \in BOOLEAN /\ required' = required
  BY DEF VenueChanges, RoutingInv, MarketType
<1>4. /\ idle' = IF exits = {} /\ exits' = {} THEN idle ELSE 0
      /\ idle \in 0..Forgotten /\ (exits # {} => idle = 0)
  BY DEF VenueChanges, RoutingInv, MarketType
<1>5. idle' \in 0..Forgotten /\ idle' <= idle /\ (exits' # {} => idle' = 0)
  BY <1>4 DEF Forgotten
<1>6. Venues(tradedOn)' = Venues(tradedOn)
  BY <1>3 DEF Venues
<1>7. MarketType'
  BY <1>2, <1>3, <1>5, <1>6 DEF RoutingInv, MarketType, Forgotten
<1>8. CacheType'
  BY <1>3 DEF RoutingInv, CacheType, caches
<1>9. routeCache' = routeCache /\ routeCache.left \in Nat /\ idle \in Nat /\ idle' \in Nat
  BY <1>3, <1>4, <1>5 DEF RoutingInv, CacheType, caches, Forgotten
<1>10. VerdictIsRecent'
  BY <1>5, <1>9 DEF RoutingInv, VerdictIsRecent
<1>11. ASSUME NEW r \in Request PROVE MadeSure(request[r])'
  <2>1. request[r] \in Order /\ MadeSure(request[r])
    BY OrderFields
  <2>2. request[r].age \in Nat
    BY <2>1 DEF Order, Old
  <2>3. Recent(request[r]) => Recent(request[r])'
    BY <1>3, <1>5, <1>9, <2>2 DEF Recent, Old
  <2> QED
    BY <1>3, <2>1, <2>3 DEF MadeSure
<1>12. OrdersMadeSure'
  BY <1>3, <1>11 DEF RoutingInv, OrdersMadeSure
<1> QED
  BY <1>7, <1>8, <1>10, <1>12 DEF RoutingInv

\* The time since the token could be sold and the age of a quote grow together.
LEMMA TickKeeps == ASSUME RoutingInv, Tick PROVE RoutingInv'
<1>1. UNCHANGED <<tradedOn, young, listed, open, exits, required>>
  BY DEF Tick
<1>2. /\ idle' = IF exits = {} THEN Grow(idle, Forgotten) ELSE 0
      /\ idle \in 0..Forgotten /\ (exits # {} => idle = 0) /\ Forgotten \in Nat
  BY DEF Tick, RoutingInv, MarketType, Forgotten
<1>3. idle' \in 0..Forgotten /\ idle' <= idle + 1 /\ (exits # {} => idle' = 0)
  BY <1>2 DEF Grow
<1>4. idle \in Nat /\ idle' \in Nat /\ idle' <= ExitTtl + MaxAge
  BY <1>2, <1>3 DEF Forgotten
<1>5. Venues(tradedOn)' = Venues(tradedOn)
  BY <1>1 DEF Venues
<1>6. MarketType'
  BY <1>1, <1>3, <1>5 DEF RoutingInv, MarketType, Forgotten
<1>7. PICK p \in [pool : {"none", "pool1", "pool2"}, left : 0..PoolTtl] : p = poolCache
  BY DEF RoutingInv, CacheType
<1>8. PICK c \in [verified : BOOLEAN, left : 0..ExitTtl, by : {"none", "quote", "portal"}] :
        c = routeCache
  BY DEF RoutingInv, CacheType
<1>9. CountDown(p.left) \in 0..PoolTtl
  BY DEF CountDown
<1>10. /\ CountDown(c.left) \in 0..ExitTtl
       /\ CountDown(c.left) > 0 => c.left > 0 /\ CountDown(c.left) = c.left - 1
  BY DEF CountDown
<1>11. poolCache' = [p EXCEPT !.left = CountDown(p.left)]
  BY <1>7 DEF Tick
<1>12. routeCache' = [c EXCEPT !.left = CountDown(c.left)]
  BY <1>8 DEF Tick
<1>13. CacheType'
  BY <1>9, <1>10, <1>11, <1>12 DEF CacheType
<1>14. /\ routeCache'.verified = c.verified /\ routeCache'.by = c.by
       /\ routeCache'.left = CountDown(c.left)
  BY <1>12
<1>15. CountDown(c.left) > 0 /\ idle + c.left <= ExitTtl => idle' + CountDown(c.left) <= ExitTtl
  BY <1>3, <1>4, <1>10
<1>16. VerdictIsRecent'
  BY <1>8, <1>10, <1>14, <1>15 DEF RoutingInv, VerdictIsRecent
<1>17. \A r \in Request : request'[r] = [request[r] EXCEPT !.age = Grow(request[r].age, Old)]
  BY DEF Tick
<1>18. ASSUME NEW r \in Request PROVE request'[r] \in Order /\ MadeSure(request[r])'
  <2>1. PICK b \in Order : b = request[r] /\ MadeSure(b)
    BY OrderFields
  <2>2. b.age \in 0..Old /\ Old \in Nat /\ Old = MaxAge + 1
    BY DEF Order, Old
  <2>3. Grow(b.age, Old) \in 0..Old /\ (Grow(b.age, Old) = Old \/ Grow(b.age, Old) = b.age + 1)
    BY <2>2 DEF Grow
  <2> DEFINE g == Grow(b.age, Old)
             o == [b EXCEPT !.age = g]
  <2>4. request'[r] = o
    BY <1>17, <2>1
  <2>5. g \in 0..Old /\ (g = Old \/ g = b.age + 1) /\ (b.age = Old => g = Old)
    BY <2>2, <2>3 DEF Grow
  <2> HIDE DEF g
  <2>6. o \in Order
    BY <2>5 DEF Order
  <2>7. /\ o.pc = b.pc /\ o.side = b.side /\ o.by = b.by /\ o.left = b.left
        /\ o.verified = b.verified /\ o.idle = b.idle /\ o.strict = b.strict /\ o.age = g
    BY DEF Order
  <2> HIDE DEF o
  <2>8. Recent(b) => o.age = Old \/ idle' < ExitTtl + o.age
    BY <1>3, <1>4, <2>2, <2>5, <2>7 DEF Recent
  <2>9. Old' = Old
    BY DEF Old
  <2>10. Recent(b) => Recent(request[r])'
    BY <2>4, <2>8, <2>9 DEF Recent
  <2>11. MadeSure(request[r])'
    BY <1>1, <2>1, <2>4, <2>7, <2>10 DEF MadeSure
  <2> QED
    BY <2>4, <2>6, <2>11
<1>19. OrdersMadeSure'
  <2>1. request' = [r \in Request |-> request'[r]]
    BY DEF Tick
  <2>2. request' \in [Request -> Order]
    BY <1>18, <2>1
  <2> QED
    BY <1>18, <2>2 DEF OrdersMadeSure
<1> QED
  BY <1>6, <1>13, <1>16, <1>19 DEF RoutingInv

LEMMA RestartKeeps == ASSUME RoutingInv, Restart PROVE RoutingInv'
<1>1. MarketType'
  BY DEF RoutingInv, MarketType, Restart, world, Venues, Forgotten
<1>2. CacheType' /\ VerdictIsRecent'
  BY DEF CacheType, VerdictIsRecent, Restart
<1>3. \A r \in Request : request'[r] = NoRequest
  BY DEF Restart
<1>4. request' \in [Request -> Order]
  BY NoRequestIsOrder DEF Restart
<1>5. ASSUME NEW r \in Request PROVE MadeSure(request[r])'
  BY <1>3 DEF MadeSure, NoRequest
<1> QED
  BY <1>1, <1>2, <1>4, <1>5 DEF RoutingInv, OrdersMadeSure

\* The inductive invariant of the orders for a token: the types, the age of a
\* remembered verdict, and what each order has made sure of (execution-quote-guard.ts,
\* exit-route-verifier.ts).
THEOREM OrdersAreSound == RoutingSpec => []RoutingInv
<1>1. ASSUME RoutingInv, [RoutingNext]_routingVars PROVE RoutingInv'
  <2>1. ASSUME NEW r \in Request,
               ResolveMarket(r) \/ ResolvePortalMarket(r) \/ Prepare(r) \/ VerifyExit(r) \/ Decide(r)
        PROVE  RoutingInv'
    BY <1>1, <2>1, MarketKeeps, PrepareKeeps, VerifyExitKeeps, DecideKeeps
  <2>2. CASE VenueChanges
    BY <1>1, <2>2, ChangeKeeps
  <2>3. CASE Tick
    BY <1>1, <2>3, TickKeeps
  <2>4. CASE Restart
    BY <1>1, <2>4, RestartKeeps
  <2>5. CASE UNCHANGED routingVars
    BY <1>1, <2>5 DEF routingVars, RoutingInv, MarketType, CacheType, VerdictIsRecent,
                      OrdersMadeSure, MadeSure, Recent, Venues, Forgotten, Old
  <2>6. CASE SaveSettings
    BY <1>1, <2>6, SettingsKeep
  <2> QED
    BY <1>1, <2>1, <2>2, <2>3, <2>4, <2>5, <2>6 DEF RoutingNext
<1> QED
  BY <1>1, RoutingStarts, PTL DEF RoutingSpec

\* A purchase in a young market whose settings ask for a verified exit passes the
\* checks only if the token could be sold somewhere within the time a verdict is
\* remembered and a quote may age, for any of these times and any number of orders,
\* and whenever the operator switches the setting (exit-route-verifier.ts,
\* asset-execution-policy.ts).
THEOREM BoughtCouldBeSoldThen == RoutingSpec => []BoughtCouldBeSold
<1>1. RoutingInv => BoughtCouldBeSold
  BY DEF RoutingInv, OrdersMadeSure, MadeSure, BoughtCouldBeSold, RequestAt
<1> QED
  BY <1>1, OrdersAreSound, PTL


HIDE RoutingAssumption

===============================================================================
