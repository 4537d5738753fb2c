----------------------------- MODULE HypercoreInfo -----------------------------
(***************************************************************************)
(* The client of HyperCore's Info API (hypercoreInfo): answers of some     *)
(* types are kept for a while, callers with the same body share one        *)
(* request, and all requests go out one after the other, each tried        *)
(* MaxAttempts times, with a cooldown that all of them respect.  On top of *)
(* it getHypercoreMarkets keeps the last list of markets it could load     *)
(* (its own 30 seconds are those of the answers the list is made of).      *)
(*                                                                         *)
(* A body is a model value.  What an answer says is abstracted to the      *)
(* version of the exchange's state it was read from.  Left out: the 125 ms *)
(* between requests and the length of the delays.                          *)
(***************************************************************************)
EXTENDS Naturals, Sequences

CONSTANTS
  Caller,
  Body,        \* the requests' bodies
  Kept,        \* those hypercoreInfoCacheTtlMs keeps an answer of
  Market,      \* the body whose answer is the list of markets
  None,
  Ttl,         \* ticks an answer is kept
  MaxAttempts, \* MAX_REQUEST_ATTEMPTS (4)
  MaxTime, MaxVersion, MaxCalls \* bounds

ASSUME InfoAssumption ==
  /\ Kept \subseteq Body /\ Market \in Kept /\ None \notin Body
  /\ {Ttl, MaxAttempts, MaxTime, MaxVersion, MaxCalls} \subseteq Nat /\ MaxAttempts > 0

VARIABLES
  now, version,
  cache,    \* infoCache: for a kept body the last answer and when it expires
  request,  \* infoRequests: for a body the state when its request was made
  queue,    \* the requests in the order they will be sent; the head is under way
  attempt,  \* attempts of the head that failed
  resting, \* __neraxonHypercoreCooldownUntil is ahead
  markets,  \* marketCache: the answer it was made from
  call,
  calls

infoVars == <<now, version, cache, request, queue, attempt, resting, markets, call, calls>>

NoAnswer == [version |-> 0, at |-> 0]
Idle == [pc |-> "idle", body |-> None, since |-> NoAnswer, got |-> NoAnswer]
Here == [version |-> version, at |-> now]

InfoInit ==
  /\ now = 0 /\ version = 0
  /\ cache = [b \in Kept |-> None] /\ request = [b \in Body |-> None]
  /\ queue = <<>> /\ attempt = 0 /\ resting = FALSE
  /\ markets = None /\ call = [c \in Caller |-> Idle] /\ calls = 0

Unchanged == UNCHANGED <<now, version>>

-----------------------------------------------------------------------------
(* hypercoreInfo                                                            *)

\* An answer is used again until it expires.
AnyAnswer(b) == b \in Kept /\ cache[b] # None
FreshAnswer(b) == b \in Kept /\ cache[b] # None /\ cache[b].at + Ttl > now

AnswerKept(c, b) ==
  /\ FreshAnswer(b)
  /\ call' = [call EXCEPT ![c] = [Idle EXCEPT !.pc = "answered", !.body = b, !.since = Here,
                                              !.got = cache[b]]]
  /\ UNCHANGED <<cache, request, queue>>

\* Otherwise the caller waits for the request of the body that is under way,
\* or makes one.
Forgotten(b) == [k \in Kept |-> IF k = b THEN None ELSE cache[k]]

Wait(c, b) ==
  /\ ~FreshAnswer(b)
  /\ cache' = Forgotten(b)
  /\ IF request[b] # None THEN UNCHANGED <<request, queue>>
     ELSE /\ request' = [request EXCEPT ![b] = Here]
          /\ queue' = Append(queue, b)
  /\ call' = [call EXCEPT ![c] = [Idle EXCEPT !.pc = "waiting", !.body = b,
                                              !.since = request'[b]]]

Ask(c, b) ==
  /\ call[c].pc = "idle" /\ calls < MaxCalls /\ calls' = calls + 1
  /\ AnswerKept(c, b) \/ Wait(c, b)
  /\ UNCHANGED <<attempt, resting, markets>> /\ Unchanged

\* Every caller of body b is given the outcome, and the request is forgotten.
DeliverAnswer(b, pc, got) ==
  /\ call' = [c \in Caller |->
       IF call[c].pc = "waiting" /\ call[c].body = b
       THEN [call[c] EXCEPT !.pc = pc, !.got = got]
       ELSE call[c]]
  /\ request' = [request EXCEPT ![b] = None]
  /\ queue' = Tail(queue) /\ attempt' = 0

\* loadHypercoreMarkets, when the answer is the one its list is made from.
Loaded(b) == IF b = Market THEN Here ELSE markets

Succeed ==
  /\ queue # <<>> /\ ~resting
  /\ LET b == Head(queue) IN
     /\ DeliverAnswer(b, "answered", Here)
     /\ cache' = IF b \in Kept THEN [cache EXCEPT ![b] = Here] ELSE cache
     /\ markets' = Loaded(b)
  /\ UNCHANGED <<resting, calls>> /\ Unchanged

\* A 429 or a transient error is tried again after a cooldown.
Retry ==
  /\ queue # <<>> /\ ~resting /\ attempt + 1 < MaxAttempts
  /\ attempt' = attempt + 1 /\ resting' = TRUE
  /\ UNCHANGED <<cache, request, queue, markets, call, calls>> /\ Unchanged

\* getHypercoreMarkets answers a failure with the last list, however old.
Failure(b) == IF b = Market /\ markets # None THEN "answered" ELSE "failed"

\* The last attempt fails, or one with an error that is not transient; the next
\* request in the queue goes on regardless.
Fail ==
  /\ queue # <<>> /\ ~resting
  /\ LET b == Head(queue) IN
     DeliverAnswer(b, Failure(b), IF Failure(b) = "failed" THEN NoAnswer ELSE markets)
  /\ UNCHANGED <<cache, resting, markets, calls>> /\ Unchanged

Use(c) ==
  /\ call[c].pc \in {"answered", "failed"}
  /\ call' = [call EXCEPT ![c] = Idle]
  /\ UNCHANGED <<cache, request, queue, attempt, resting, markets, calls>> /\ Unchanged

-----------------------------------------------------------------------------
(* Time and the exchange                                                    *)

Tick ==
  /\ now < MaxTime /\ now' = now + 1 /\ resting' = FALSE
  /\ UNCHANGED <<version, cache, request, queue, attempt, markets, call, calls>>

Change ==
  /\ version < MaxVersion /\ version' = version + 1
  /\ UNCHANGED <<now, cache, request, queue, attempt, resting, markets, call, calls>>

InfoNext ==
  \/ \E c \in Caller, b \in Body : Ask(c, b)
  \/ \E c \in Caller : Use(c)
  \/ Succeed \/ Retry \/ Fail
  \/ Tick \/ Change

InfoSpec == InfoInit /\ [][InfoNext]_infoVars

-----------------------------------------------------------------------------
\* The queue holds each body that has a request once.
InfoTypeOK ==
  /\ attempt \in 0..MaxAttempts /\ calls \in 0..MaxCalls
  /\ queue \in Seq(Body)
  /\ \A c \in Caller : call[c].pc \in {"idle", "waiting", "answered", "failed"}

\* An answer is as new as the request it came with or, if its type is kept, no
\* older than Ttl when it was asked for; only the list of markets may be older.
AnswersAreCurrent ==
  \A c \in Caller :
    call[c].pc = "answered" /\ call[c].body # Market =>
      \/ call[c].got.version >= call[c].since.version
      \/ call[c].body \in Kept /\ call[c].got.at + Ttl > call[c].since.at

===============================================================================
