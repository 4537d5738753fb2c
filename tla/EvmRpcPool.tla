------------------------------ MODULE EvmRpcPool ------------------------------
(***************************************************************************)
(* The RPC endpoints of one EVM network (evm-rpc-pool.ts): a request asks  *)
(* them in order until one answers; one that fails rests for a while, and  *)
(* one that does not know a method is not asked for it again.  Requests    *)
(* run concurrently and share what is known of the endpoints.              *)
(*                                                                         *)
(* One tick of the clock is the rest after a plain failure (one minute).   *)
(* The messages are left out: an answer is one of the kinds the code tells *)
(* apart by them.                                                          *)
(***************************************************************************)
EXTENDS Naturals, Sequences, FiniteSets

CONSTANTS
  Endpoint,      \* the endpoints, 1..n in the order of getEvmRpcUrls
  Method,
  Call,          \* requests under way at the same time
  RateLimitRest, \* ticks of RATE_LIMIT_COOLDOWN_MS
  MonthlyRest    \* ticks of MONTHLY_CAPACITY_COOLDOWN_MS

ASSUME PoolAssumption ==
  /\ IsFiniteSet(Endpoint) /\ Endpoint # {} /\ Endpoint = 1..Cardinality(Endpoint)
  /\ RateLimitRest \in Nat \ {0} /\ MonthlyRest \in Nat /\ RateLimitRest <= MonthlyRest

VARIABLES
  cooldown,    \* ticks until the endpoint's cooldown is over
  unsupported, \* unsupportedMethods
  rpc,         \* the requests
  refusing     \* the endpoints whose monthly capacity is used up

poolVars == <<cooldown, unsupported, rpc, refusing>>

Quiet == [pc |-> "idle", method |-> "none", left |-> <<>>, asked |-> {}, spared |-> {}]

PoolInit ==
  /\ cooldown = [e \in Endpoint |-> 0]
  /\ unsupported = {}
  /\ rpc = [c \in Call |-> Quiet]
  /\ refusing \in SUBSET Endpoint

-----------------------------------------------------------------------------
(* availableRpcUrls                                                         *)

Knowing(m) == {e \in Endpoint : <<e, m>> \notin unsupported}
Available(m) == {e \in Knowing(m) : cooldown[e] = 0}

\* es, ordered by the ranks.
Ordered(es, rank) ==
  CHOOSE s \in [1..Cardinality(es) -> es] :
    \A i, j \in DOMAIN s : i < j => rank[s[i]] < rank[s[j]] \/ (rank[s[i]] = rank[s[j]] /\ s[i] < s[j])

\* Fault: an endpoint that rests is not asked, even if all do.
AwakeOnly(m) == Ordered(Available(m), [e \in Endpoint |-> 0])

\* Those that do not rest; if all do, the one whose rest is over first.
Candidates(m) ==
  IF Available(m) # {} THEN Ordered(Available(m), [e \in Endpoint |-> 0])
                       ELSE Ordered(Knowing(m), cooldown)

\* Refused at once when no endpoint is known to support the method.
BeginCall(c) ==
  /\ rpc[c].pc = "idle"
  /\ \E m \in Method :
       /\ Knowing(m) # {}
       /\ rpc' = [rpc EXCEPT ![c] = [Quiet EXCEPT !.pc = "asking", !.method = m, !.left = Candidates(m),
                      !.spared = IF Available(m) # {} THEN Knowing(m) \ Available(m) ELSE {}]]
  /\ UNCHANGED <<cooldown, unsupported, refusing>>

-----------------------------------------------------------------------------
(* fetchEvmRpcJson                                                          *)

Asking(c) == rpc[c].pc = "asking" /\ rpc[c].left # <<>>
Turn(c) == Head(rpc[c].left)
Move(c) == rpc' = [rpc EXCEPT ![c].left = Tail(@), ![c].asked = @ \cup {Turn(c)}]
RestFor(c, ticks) == cooldown' = [cooldown EXCEPT ![Turn(c)] = ticks]

\* Also clears a rest that another request's failure began meanwhile.
Answered(c) ==
  /\ Asking(c) /\ Turn(c) \notin refusing
  /\ cooldown' = [cooldown EXCEPT ![Turn(c)] = 0]
  /\ rpc' = [rpc EXCEPT ![c] = Quiet]
  /\ UNCHANGED <<unsupported, refusing>>

\* An error of the request itself, or an answer that is not JSON, whose message is
\* none of those another endpoint is asked after.
RequestError(c) ==
  /\ Asking(c) /\ Turn(c) \notin refusing
  /\ rpc' = [rpc EXCEPT ![c] = Quiet]
  /\ UNCHANGED <<cooldown, unsupported, refusing>>

\* Not reached, too late, or an error that another may not have.  The rest is set
\* anew, even if a longer one was running.
FailsOver(c) ==
  /\ Asking(c)
  /\ RestFor(c, 1) /\ Move(c)
  /\ UNCHANGED <<unsupported, refusing>>

RateLimited(c) ==
  /\ Asking(c)
  /\ RestFor(c, RateLimitRest) /\ Move(c)
  /\ UNCHANGED <<unsupported, refusing>>

CapacityUsedUp(c) ==
  /\ Asking(c) /\ Turn(c) \in refusing
  /\ RestFor(c, MonthlyRest) /\ Move(c)
  /\ UNCHANGED <<unsupported, refusing>>

\* Remembered until the process ends; it does not rest.
Unsupported(c) ==
  /\ Asking(c) /\ Turn(c) \notin refusing
  /\ unsupported' = unsupported \cup {<<Turn(c), rpc[c].method>>}
  /\ Move(c)
  /\ UNCHANGED <<cooldown, refusing>>

\* The last error is thrown.
GivesUp(c) ==
  /\ rpc[c].pc = "asking" /\ rpc[c].left = <<>>
  /\ rpc' = [rpc EXCEPT ![c] = Quiet]
  /\ UNCHANGED <<cooldown, unsupported, refusing>>

CoolDown ==
  /\ \E e \in Endpoint : cooldown[e] > 0
  /\ cooldown' = [e \in Endpoint |-> IF cooldown[e] = 0 THEN 0 ELSE cooldown[e] - 1]
  /\ UNCHANGED <<unsupported, rpc, refusing>>

PoolNext ==
  \/ \E c \in Call : \/ BeginCall(c) \/ Answered(c) \/ RequestError(c)
                     \/ FailsOver(c) \/ RateLimited(c) \/ CapacityUsedUp(c) \/ Unsupported(c)
                     \/ GivesUp(c)
  \/ CoolDown

PoolSpec == PoolInit /\ [][PoolNext]_poolVars

-----------------------------------------------------------------------------
(* Properties                                                               *)

\* Cooldowns and requests hold what the code keeps in them.
PoolTypeOK ==
  /\ cooldown \in [Endpoint -> 0..MonthlyRest]
  /\ unsupported \subseteq Endpoint \X Method
  /\ \A c \in Call : rpc[c].asked \subseteq Endpoint

\* A request gives up only when it has asked at least one endpoint, and every
\* one that knows the method, save those that were resting when it began while
\* others were not: a rest that other requests cause meanwhile, or all of them
\* resting, does not make it fail unasked (availableRpcUrls, fetchEvmRpcJson).
GaveUpMeansTried ==
  \A c \in Call : rpc[c].pc = "asking" /\ rpc[c].left = <<>>
    => rpc[c].asked # {} /\ Knowing(rpc[c].method) \subseteq rpc[c].asked \cup rpc[c].spared

===============================================================================
