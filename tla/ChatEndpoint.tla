---------------------------- MODULE ChatEndpoint ----------------------------
(***************************************************************************)
(* POST /chat up to the turn: the gates of agent/api/chat.py's chat(), the *)
(* ConcurrencyLimiter of agent/rate_limit.py, and the life of the stream() *)
(* generator that has to give the slot back.                               *)
(*                                                                         *)
(* chat() runs from its first line to its return without suspending: both  *)
(* limiters hold their locks over no await, so the locks are always free.  *)
(* Each of its outcomes is one step here.  The generator it returns is run *)
(* by the server: it suspends inside run_turn, and again at each yield     *)
(* while the server sends, and a lost client is noticed in either place.   *)
(*                                                                         *)
(* The rate limit is TokenBucket, which RateLimiter is shown to implement. *)
(***************************************************************************)
EXTENDS Integers, FiniteSets

CONSTANTS
    Requests,     \* the POST /chat requests of a behaviour
    Callers,      \* caller keys
    KeyOf,        \* client_key of each request
    PerMinute,    \* agent_ratelimit_chat_per_min; 0 disables the rate limit
    Minute,       \* its 60.0 seconds, in ticks
    Limit,        \* agent_ratelimit_chat_concurrency; 0 disables it
    Origins,      \* values of the Origin header
    NoOrigin,     \* a request without the header
    AllowList     \* cors_origin_list

ASSUME ChatEndpointAssumption ==
    /\ IsFiniteSet(Requests)
    /\ KeyOf \in [Requests -> Callers]
    /\ PerMinute \in Nat
    /\ Minute \in Nat \ {0}
    /\ Limit \in Nat

VARIABLES
    pc,           \* where each request is
    connected,    \* whether its client is still there
    counts,       \* _counts; a key with no entry counts 0
    level, verdict \* the rate limiter

Limiter == INSTANCE TokenBucket WITH
    Keys <- Callers, Capacity <- PerMinute, Period <- Minute, result <- verdict
limiterVars == <<level, verdict>>
vars == <<pc, connected, counts, level, verdict>>

(* The slot is taken and stream() can still be run to its end.              *)
InFlight == {"responded", "awaiting", "sending", "abandoned"}

(* The slot is taken and there is no generator left that would release it.  *)
Orphaned == {"raised", "never_run"}

Answered == {"forbidden", "rate_limited", "too_many", "closed"}

(* Requests go through the stages of chat() and stream(); a key missing from *)
(* _inflight counts 0, and no count goes below it.                           *)
TypeOK ==
    /\ pc \in [Requests -> {"new"} \cup InFlight \cup Orphaned \cup Answered]
    /\ connected \in [Requests -> BOOLEAN]
    /\ counts \in [Callers -> Nat]

Init ==
    /\ pc = [r \in Requests |-> "new"]
    /\ connected = [r \in Requests |-> TRUE]
    /\ counts = [k \in Callers |-> 0]
    /\ Limiter!TBInit

Move(r, from, to) ==
    /\ pc[r] = from
    /\ pc' = [pc EXCEPT ![r] = to]
    /\ UNCHANGED connected

-----------------------------------------------------------------------------
(* ConcurrencyLimiter. *)
(* Slip: one stream more than the limit. *)
AcquirePastLimit(k) ==
    /\ Limit # 0 => counts[k] <= Limit
    /\ counts' = IF Limit = 0 THEN counts ELSE [counts EXCEPT ![k] = @ + 1]

(* A limit of 0 lets everyone through and counts nobody.                    *)
Acquire(k) ==
    /\ Limit # 0 => counts[k] < Limit
    /\ counts' = IF Limit = 0 THEN counts ELSE [counts EXCEPT ![k] = @ + 1]

(* Slip: the last slot is not given out. *)
AcquireRefusedEarly(k) ==
    /\ Limit # 0
    /\ counts[k] + 1 >= Limit
    /\ UNCHANGED counts

AcquireRefused(k) ==
    /\ Limit # 0
    /\ counts[k] >= Limit
    /\ UNCHANGED counts

(* Slip: the popped entry is missed, where a defaultdict would read 0. *)
ReleasePops(k) ==
    counts' = IF counts[k] <= 1
              THEN [j \in DOMAIN counts \ {k} |-> counts[j]]
              ELSE [counts EXCEPT ![k] = @ - 1]

Release(k) ==
    counts' = IF Limit # 0 /\ counts[k] > 0
              THEN [counts EXCEPT ![k] = @ - 1]
              ELSE counts

OriginAllowed(o) == o = NoOrigin \/ AllowList = {} \/ o \in AllowList

-----------------------------------------------------------------------------
(* chat(): one disjunct per way out of the handler. *)

(* _check_origin raises the 403, before anything is spent. *)
Forbid(r) ==
    /\ \E o \in Origins : ~ OriginAllowed(o)
    /\ Move(r, "new", "forbidden")
    /\ UNCHANGED <<counts, limiterVars>>

OriginPasses == \E o \in Origins \cup {NoOrigin} : OriginAllowed(o)

(* enforce raises the 429 of the rate limit. *)
RateLimited(r) ==
    /\ OriginPasses
    /\ Move(r, "new", "rate_limited")
    /\ Limiter!Refuse(KeyOf[r])
    /\ UNCHANGED counts

(* acquire refuses; the token enforce took is not given back. *)
TooMany(r) ==
    /\ OriginPasses
    /\ Move(r, "new", "too_many")
    /\ Limiter!Allow(KeyOf[r])
    /\ AcquireRefused(KeyOf[r])

(* _is_admin raises: hmac.compare_digest takes no str with a character      *)
(* outside ASCII.  The slot is taken by then and stream() does not exist.   *)
AdminCheckRaises(r) ==
    /\ OriginPasses
    /\ Move(r, "new", "raised")
    /\ Limiter!Allow(KeyOf[r])
    /\ Acquire(KeyOf[r])

(* The handler returns its StreamingResponse around stream(), not started.  *)
Respond(r) ==
    /\ OriginPasses
    /\ Move(r, "new", "responded")
    /\ Limiter!Allow(KeyOf[r])
    /\ Acquire(KeyOf[r])

Chat(r) ==
    Forbid(r) \/ RateLimited(r) \/ TooMany(r) \/ AdminCheckRaises(r)
        \/ Respond(r)

-----------------------------------------------------------------------------
(* The server and stream(). *)

(* First __anext__: the try block is entered. *)
StartBody(r) ==
    /\ Move(r, "responded", "awaiting")
    /\ UNCHANGED <<counts, limiterVars>>

(* The client is gone when the server sends the response head: the body is  *)
(* never iterated, and closing a generator that has not started runs none   *)
(* of it, its finally included.                                             *)
HeadFails(r) ==
    /\ ~ connected[r]
    /\ Move(r, "responded", "never_run")
    /\ UNCHANGED <<counts, limiterVars>>

(* An event of the turn, or the error and the done of the except branch, is *)
(* yielded; is_disconnected() answered no, or was not asked.                *)
YieldEvent(r) ==
    /\ Move(r, "awaiting", "sending")
    /\ UNCHANGED <<counts, limiterVars>>

Sent(r) ==
    /\ connected[r]
    /\ Move(r, "sending", "awaiting")
    /\ UNCHANGED <<counts, limiterVars>>

(* Slip: a turn whose client is gone is left alone. *)
LeaveTryIfConnected(r) ==
    /\ connected[r]
    /\ Move(r, "awaiting", "closed")
    /\ Release(KeyOf[r])
    /\ UNCHANGED limiterVars

(* Every way out of the try block from inside the turn: exhausted, returned *)
(* on is_disconnected(), cancelled, or done with the except branch.         *)
LeaveTry(r) ==
    /\ Move(r, "awaiting", "closed")
    /\ Release(KeyOf[r])
    /\ UNCHANGED limiterVars

(* The client is gone while the generator is suspended at a yield: the      *)
(* server drops it, and the event loop closes it some time later.           *)
Abandon(r) ==
    /\ ~ connected[r]
    /\ Move(r, "sending", "abandoned")
    /\ UNCHANGED <<counts, limiterVars>>

(* Slip: no finally, so a generator that is closed keeps its slot. *)
FinaliseKeeps(r) ==
    /\ Move(r, "abandoned", "closed")
    /\ UNCHANGED <<counts, limiterVars>>

Finalise(r) ==
    /\ Move(r, "abandoned", "closed")
    /\ Release(KeyOf[r])
    /\ UNCHANGED limiterVars

Disconnect(r) ==
    /\ connected[r]
    /\ pc[r] \in InFlight
    /\ connected' = [connected EXCEPT ![r] = FALSE]
    /\ UNCHANGED <<pc, counts, limiterVars>>

ServeStream(r) ==
    StartBody(r) \/ HeadFails(r) \/ YieldEvent(r) \/ Sent(r) \/ LeaveTry(r)
        \/ Abandon(r) \/ Finalise(r)

TimePasses ==
    /\ Limiter!TimePasses
    /\ UNCHANGED <<pc, connected, counts>>

Next ==
    \/ \E r \in Requests : Chat(r) \/ ServeStream(r) \/ Disconnect(r)
    \/ TimePasses

(* The event loop keeps running what it started: a response that is ready   *)
(* is begun, a lost client is noticed, dropped generators are closed, and a *)
(* turn comes to its end (its loop is bounded and its HTTP calls time out). *)
(* Sent owes nothing: it waits for the client to read, and there is no      *)
(* timeout for it.                                                          *)
Fairness ==
    \A r \in Requests :
        /\ WF_vars(StartBody(r) \/ HeadFails(r))
        /\ WF_vars(Abandon(r))
        /\ SF_vars(LeaveTry(r))
        /\ WF_vars(Finalise(r))

Spec == Init /\ [][Next]_vars /\ Fairness

-----------------------------------------------------------------------------
Holding(k) ==
    {r \in Requests : KeyOf[r] = k /\ pc[r] \in InFlight \cup Orphaned}
Streams(k) == {r \in Requests : KeyOf[r] = k /\ pc[r] \in InFlight}

(* The count kept for a key is the number of requests that took a slot and  *)
(* have not given it back: no path releases twice, and none releases what   *)
(* it did not take.                                                         *)
CountsExact ==
    \A k \in Callers :
        counts[k] = IF Limit = 0 THEN 0 ELSE Cardinality(Holding(k))

(* config.py:91, "Maximum concurrent in-flight /chat streams per remote     *)
(* IP": never more streams of one key than the limit.                       *)
CapHolds == Limit # 0 => \A k \in Callers : Cardinality(Streams(k)) <= Limit

Refusal(r) == pc[r] = "new" /\ pc'[r] = "too_many"

(* A request is refused only while Limit slots of its own key are held,     *)
(* whatever the other keys do; never, when the limit is off.                *)
RefusedOnlyAtLimit ==
    [][\A r \in Requests :
          Refusal(r) => /\ Limit # 0
                        /\ Cardinality(Holding(KeyOf[r])) >= Limit]_vars

(* chat.py:121 tells the refused caller "too many concurrent /chat streams":*)
(* the slots that refuse it belong to streams.                              *)
RefusedOnlyByStreams ==
    [][\A r \in Requests :
          Refusal(r) => Cardinality(Streams(KeyOf[r])) >= Limit]_vars

(* A client that neither reads nor leaves keeps the generator at its yield. *)
Stalls(r) == pc[r] = "sending" /\ connected[r]

(* A stream whose body was started gives its slot back in the end, whether  *)
(* it is read to the end, fails, or loses its client at any point; unless   *)
(* its client stays, and from some point on reads nothing.                  *)
SlotReturned ==
    \A r \in Requests :
        []<> ~ Stalls(r) =>
            (pc[r] \in {"awaiting", "sending", "abandoned"} ~> pc[r] = "closed")
=============================================================================
