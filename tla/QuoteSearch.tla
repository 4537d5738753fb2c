------------------------------ MODULE QuoteSearch ------------------------------
(***************************************************************************)
(* The searches of lib/execution over an ordered range that only answers   *)
(* yes or no: the largest minimum return a Robinhood portal transaction is *)
(* still simulated with (quoteRobinhoodPortalBuy, quoteRobinhoodPortalSell)*)
(* and the first block that is as young as a pool, around which the pool's *)
(* Initialize event is then looked for (findPoolInitialize).               *)
(* One step is one turn of a loop, that is one remote call.  A call of the *)
(* portal that fails counts as a no; one that fails while a pool's event   *)
(* is looked for ends the search, and the pool is passed over.             *)
(***************************************************************************)
EXTENDS Integers

CONSTANTS
  MaxYield,     \* bound of what the portal would return
  MaxSupply,    \* bound of the token's total supply
  Rounds,       \* PORTAL_QUOTE_ITERATIONS
  Doublings,    \* the attempts of the doubling phase of a sale
  MaxBlock,     \* bound of the latest block
  MaxTimestamp, \* bound of the blocks' timestamps
  Window,       \* how many blocks around the one found are scanned
  Chunk         \* blocks per getLogs call

ASSUME SearchAssumption ==
  /\ MaxYield \in Nat /\ MaxSupply \in Nat /\ MaxBlock \in Nat /\ MaxTimestamp \in Nat
  /\ Rounds \in Nat /\ Doublings \in Nat \ {0}
  /\ Window \in Nat /\ Chunk \in Nat \ {0}

VARIABLES
  job,       \* "buy", "sell" or "block"
  yield,     \* the largest minimum return that can be had
  stamp,     \* the timestamp of each block; never decreases
  target,    \* the creation of the pool, in seconds
  made,      \* the block of its Initialize event
  from,      \* the next block to scan
  phase,     \* "doubling", "bisecting", "scanning", "found" or "none"
  turn,      \* turns taken in the phase
  low, high, \* the range left
  missed,    \* a call has failed
  reach      \* the first return the search cannot tell from the largest

searchVars == <<job, yield, stamp, target, made, from, phase, turn, low, high, missed, reach>>

Block == 0..MaxBlock
Monotone ==
  {s \in [Block -> 0..MaxTimestamp] : \A a, b \in Block : a <= b => s[a] <= s[b]}
NoStamp == [b \in Block |-> 0]

\* What the portal pays at least for anything, and where a sale starts.
SellStart == 1

BuySearchStarts(supply) ==
  /\ job = "buy" /\ stamp = NoStamp /\ target = 0 /\ made = 0
  /\ yield \in 0..MaxYield
  /\ phase = "bisecting" /\ low = 0 /\ high = supply /\ reach = supply

SellStarts ==
  /\ job = "sell" /\ stamp = NoStamp /\ target = 0 /\ made = 0
  /\ yield \in 0..MaxYield
  /\ phase = "doubling" /\ low = 0 /\ high = SellStart /\ reach = 0

BlockStarts ==
  /\ job = "block" /\ yield = 0 /\ reach = 0
  /\ stamp \in Monotone /\ target \in 0..MaxTimestamp /\ made \in Block
  /\ phase = "bisecting" /\ low = 0 /\ high = MaxBlock

SearchInit ==
  /\ (\E supply \in 0..MaxSupply : BuySearchStarts(supply)) \/ SellStarts \/ BlockStarts
  /\ turn = 0 /\ missed = FALSE /\ from = 0

Portal == job \in {"buy", "sell"}

-----------------------------------------------------------------------------
(* quoteRobinhoodPortalSell: double the return until it is refused          *)

Double ==
  /\ phase = "doubling" /\ turn < Doublings
  /\ high <= yield
  /\ low' = high /\ high' = 2 * high /\ turn' = turn + 1
  /\ UNCHANGED <<job, yield, stamp, target, made, from, phase, missed, reach>>

StopDoubling(failed) ==
  /\ phase = "doubling" /\ turn < Doublings
  /\ failed \/ high > yield
  /\ phase' = "bisecting" /\ turn' = 0 /\ reach' = high /\ missed' = (missed \/ failed)
  /\ UNCHANGED <<job, yield, stamp, target, made, from, low, high>>

DoubledOut ==
  /\ phase = "doubling" /\ turn = Doublings
  /\ phase' = "bisecting" /\ turn' = 0 /\ reach' = high
  /\ UNCHANGED <<job, yield, stamp, target, made, from, low, high, missed>>

-----------------------------------------------------------------------------
(* The bisections                                                           *)

Searching ==
  /\ phase = "bisecting"
  /\ low < high
  /\ Portal => turn < Rounds

\* The portal's middle is rounded up, the block's down.
Middle == IF Portal THEN (low + high + 1) \div 2 ELSE (low + high) \div 2

Accepted ==
  /\ Searching /\ Portal
  /\ Middle <= yield
  /\ low' = Middle /\ turn' = turn + 1
  /\ UNCHANGED <<job, yield, stamp, target, made, from, phase, high, missed, reach>>

\* Fault: what is paid exactly counts as refused.
RefusesEqual(failed) ==
  /\ Searching /\ Portal
  /\ failed \/ Middle >= yield
  /\ high' = Middle - 1 /\ turn' = turn + 1 /\ missed' = (missed \/ failed)
  /\ UNCHANGED <<job, yield, stamp, target, made, from, phase, low, reach>>

Refused(failed) ==
  /\ Searching /\ Portal
  /\ failed \/ Middle > yield
  /\ high' = Middle - 1 /\ turn' = turn + 1 /\ missed' = (missed \/ failed)
  /\ UNCHANGED <<job, yield, stamp, target, made, from, phase, low, reach>>

ReadBlock ==
  /\ Searching /\ job = "block"
  /\ IF stamp[Middle] < target THEN low' = Middle + 1 /\ UNCHANGED high
                               ELSE high' = Middle /\ UNCHANGED low
  /\ UNCHANGED <<job, yield, stamp, target, made, from, phase, turn, missed, reach>>

\* A portal quote of nothing is an error.
Finish ==
  /\ phase = "bisecting" /\ ~Searching /\ Portal
  /\ phase' = IF low = 0 THEN "none" ELSE "found"
  /\ UNCHANGED <<job, yield, stamp, target, made, from, turn, low, high, missed, reach>>

-----------------------------------------------------------------------------
(* findPoolInitialize: the events around the block found                    *)

Scanned == {b \in Block : low <= b + Window /\ b <= low + Window}

StartScan ==
  /\ phase = "bisecting" /\ ~Searching /\ job = "block"
  /\ phase' = "scanning"
  /\ from' = IF low > Window THEN low - Window ELSE 0
  /\ UNCHANGED <<job, yield, stamp, target, made, turn, low, high, missed, reach>>

\* Fault: the last block of a chunk is left out.
ShortChunk == {b \in Scanned : from <= b /\ b + 1 < from + Chunk}

ChunkOf == {b \in Scanned : from <= b /\ b < from + Chunk}

EventFound ==
  /\ phase = "scanning"
  /\ made \in ChunkOf
  /\ phase' = "found"
  /\ UNCHANGED <<job, yield, stamp, target, made, from, turn, low, high, missed, reach>>

NextChunk ==
  /\ phase = "scanning"
  /\ made \notin ChunkOf
  /\ from \in Scanned
  /\ from' = from + Chunk
  /\ UNCHANGED <<job, yield, stamp, target, made, phase, turn, low, high, missed, reach>>

NoEvent ==
  /\ phase = "scanning"
  /\ from \notin Scanned
  /\ phase' = "none"
  /\ UNCHANGED <<job, yield, stamp, target, made, from, turn, low, high, missed, reach>>

\* getBlockNumber, getBlock or getLogs throws: resolvePools goes on to the next pool.
BlockCallFails ==
  /\ job = "block"
  /\ \/ phase = "bisecting" /\ <<low, high>> = <<0, MaxBlock>>
     \/ Searching
     \/ phase = "scanning" /\ from \in Scanned
  /\ phase' = "none" /\ missed' = TRUE
  /\ UNCHANGED <<job, yield, stamp, target, made, from, turn, low, high, reach>>

SearchNext ==
  \/ Double \/ DoubledOut \/ Accepted \/ ReadBlock \/ Finish
  \/ StartScan \/ EventFound \/ NextChunk \/ NoEvent \/ BlockCallFails
  \/ \E failed \in BOOLEAN : StopDoubling(failed) \/ Refused(failed)

SearchSpec == SearchInit /\ [][SearchNext]_searchVars

-----------------------------------------------------------------------------
SearchTypeOK ==
  /\ job \in {"buy", "sell", "block"}
  /\ yield \in 0..MaxYield
  /\ stamp \in [Block -> 0..MaxTimestamp]
  /\ target \in 0..MaxTimestamp
  /\ made \in Block
  /\ from \in Nat
  /\ phase \in {"doubling", "bisecting", "scanning", "found", "none"}
  /\ turn \in Nat
  /\ low \in Nat /\ high \in Nat /\ reach \in Nat
  /\ missed \in BOOLEAN

LowIsPaid == Portal => low <= yield

\* The plan never carries a minimum return that cannot be had, whatever calls
\* failed; and if none failed and the turns sufficed, it is the largest one.
LargestMinimum ==
  /\ LowIsPaid
  /\ Portal /\ ~missed /\ phase = "found" /\ low >= high =>
       low = IF yield < reach THEN yield ELSE reach

\* A pool is given up only if a call failed, or if its Initialize event is farther
\* than the window from the first block as young as the pool (or the last of all):
\* neither the search nor the edges of the chunks pass over a block.
OnlyFarPoolsMissed ==
  job = "block" /\ phase = "none" /\ ~missed =>
    \E first \in Block :
      /\ \A b \in 0..(first - 1) : stamp[b] < target
      /\ stamp[first] >= target \/ first = MaxBlock
      /\ made + Window < first \/ first + Window < made

================================================================================
