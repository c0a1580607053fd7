---------------------------- MODULE RateLimiter ----------------------------
(***************************************************************************)
(* The token bucket of agent/rate_limit.py, one bucket per caller key.     *)
(*                                                                         *)
(* The code keeps tokens as a float and refills capacity/period of a token *)
(* per second.  Here the amounts are exact: a token is worth Period units, *)
(* a tick of the clock refills Capacity units, so a full bucket holds      *)
(* Capacity * Period units.  What floats round away is not modelled.       *)
(*                                                                         *)
(* check() holds an asyncio lock with no await under it, so every call of  *)
(* it, and of gc(), is one step of the event loop.                         *)
(***************************************************************************)
EXTENDS Integers, Sequences

CONSTANTS
    Keys,           \* caller keys, as client_key returns them
    Capacity,       \* burst size; 0 disables the limiter
    Period,         \* ticks to refill an empty bucket
    IdleTicks,      \* gc() drops buckets idle for longer than this
    TicksPerSecond  \* ticks in a second, the unit of the Retry-After header

(* config.py has 30 per 60.0 s and gc() a default of 300.0 s: a bucket that *)
(* gc() drops has had the time to refill.                                   *)
ASSUME RateLimiterAssumption ==
    /\ Capacity \in Nat
    /\ Period \in Nat \ {0}
    /\ IdleTicks \in Nat
    /\ IdleTicks >= Period
    /\ TicksPerSecond \in Nat \ {0}

VARIABLES
    clock,     \* time.monotonic()
    buckets,   \* _buckets: a record for every key seen and not yet dropped
    result,    \* what the last check() returned: <<key, allowed>>
    granted    \* history: the times at which each key was let through

rlVars == <<clock, buckets, result, granted>>

FullBucket == Capacity * Period
Bucket == [tokens : 0 .. FullBucket, last_refill : Nat]

HasBucket(k) == k \in DOMAIN buckets

(* No bucket ever holds more than the capacity or less than nothing, and     *)
(* none was touched in the future.                                           *)
RateLimiterTypeOK ==
    /\ clock \in Nat
    /\ DOMAIN buckets \subseteq Keys
    /\ \A k \in DOMAIN buckets :
          /\ buckets[k] \in Bucket
          /\ buckets[k].last_refill <= clock
    /\ result \in {<<>>} \cup (Keys \X BOOLEAN)
    /\ granted \in [Keys -> Seq(Nat)]

RateLimiterInit ==
    /\ clock = 0
    /\ buckets = [k \in {} |-> 0]
    /\ result = <<>>
    /\ granted = [k \in Keys |-> <<>>]

-----------------------------------------------------------------------------
(* Slip: the refill is not held at the capacity. *)
RefilledUncapped(k) ==
    buckets[k].tokens + (clock - buckets[k].last_refill) * Capacity

(* What a bucket holds now: min(capacity, tokens + elapsed * rate). *)
Refilled(k) ==
    LET t == buckets[k].tokens + (clock - buckets[k].last_refill) * Capacity
    IN  IF t > FullBucket THEN FullBucket ELSE t

(* A bucket as check() leaves it. *)
Touched(tokens) == [tokens |-> tokens, last_refill |-> clock]

PutBucket(k, b) ==
    buckets' = [j \in DOMAIN buckets \cup {k} |->
                   IF j = k THEN b ELSE buckets[j]]

Grant(k) == granted' = [granted EXCEPT ![k] = Append(@, clock)]

CheckDisabled(k) ==
    /\ Capacity = 0
    /\ result' = <<k, TRUE>>
    /\ UNCHANGED <<clock, buckets, granted>>

(* Slip: the first call of a key is free. *)
CheckNewKeyFree(k) ==
    /\ Capacity # 0
    /\ ~ HasBucket(k)
    /\ PutBucket(k, Touched(FullBucket))
    /\ result' = <<k, TRUE>>
    /\ Grant(k)
    /\ UNCHANGED clock

CheckNewKey(k) ==
    /\ Capacity # 0
    /\ ~ HasBucket(k)
    /\ PutBucket(k, Touched(FullBucket - Period))
    /\ result' = <<k, TRUE>>
    /\ Grant(k)
    /\ UNCHANGED clock

CheckSpend(k) ==
    /\ Capacity # 0
    /\ HasBucket(k)
    /\ Refilled(k) >= Period
    /\ PutBucket(k, Touched(Refilled(k) - Period))
    /\ result' = <<k, TRUE>>
    /\ Grant(k)
    /\ UNCHANGED clock

(* check() returned (True, 0.0). *)
CheckAllowed(k) == CheckDisabled(k) \/ CheckNewKey(k) \/ CheckSpend(k)

(* check() returned (False, retry_in).  The refill is written back all the  *)
(* same, and nothing is spent.                                              *)
CheckRefused(k) ==
    /\ Capacity # 0
    /\ HasBucket(k)
    /\ Refilled(k) < Period
    /\ PutBucket(k, Touched(Refilled(k)))
    /\ result' = <<k, FALSE>>
    /\ UNCHANGED <<clock, granted>>

(* Slip: gc() drops a bucket that has had no time to refill. *)
IdleAtOnce(k) == clock >= buckets[k].last_refill

(* gc(): called by nothing in the agent, and open to any caller. *)
Idle(k) == clock - buckets[k].last_refill > IdleTicks

Gc ==
    /\ \E k \in DOMAIN buckets : Idle(k)
    /\ buckets' = [k \in {j \in DOMAIN buckets : ~ Idle(j)} |-> buckets[k]]
    /\ UNCHANGED <<clock, result, granted>>

Tick ==
    /\ clock' = clock + 1
    /\ UNCHANGED <<buckets, result, granted>>

RateLimiterNext ==
    \/ \E k \in Keys : CheckAllowed(k) \/ CheckRefused(k)
    \/ Gc
    \/ Tick

RateLimiterSpec == RateLimiterInit /\ [][RateLimiterNext]_rlVars

-----------------------------------------------------------------------------
(* Slip: whole seconds, rounded down. *)
RetryAfterTruncated(k) ==
    LET down == (Period - buckets[k].tokens) \div (Capacity * TicksPerSecond)
    IN  IF down < 1 THEN 1 ELSE down

(* The Retry-After header of enforce(): max(1, int(retry_in + 0.5)), i.e.   *)
(* whole seconds, rounded to the nearest and never 0.                       *)
RetryAfterSeconds(k) ==
    LET twice  == 2 * (Period - buckets[k].tokens) + Capacity * TicksPerSecond
        nearest == twice \div (2 * Capacity * TicksPerSecond)
    IN  IF nearest < 1 THEN 1 ELSE nearest

-----------------------------------------------------------------------------
(* What the limiter promises: over any stretch of time that begins at one   *)
(* grant and ends at a later one, a key is let through at most Capacity     *)
(* times plus what the stretch refilled, however the calls, the refusals    *)
(* and the garbage collections fall.                                        *)
WindowBound ==
    \A k \in Keys : \A i, j \in 1 .. Len(granted[k]) :
        (i <= j /\ Capacity # 0) =>
            (j - i + 1) * Period
                <= FullBucket + (granted[k][j] - granted[k][i]) * Capacity

(* The header is rounded to the nearest second, so it may ask for too short *)
(* a wait, by at most half a second's refill.                               *)
RetryAfterShortByHalfSecond ==
    \A k \in DOMAIN buckets :
        (Capacity # 0 /\ buckets[k].tokens < Period) =>
            2 * (buckets[k].tokens
                   + RetryAfterSeconds(k) * TicksPerSecond * Capacity)
                + TicksPerSecond * Capacity >= 2 * Period

(* Read through this mapping, the lazy buckets are the levels of the        *)
(* abstract limiter: a key without a bucket, never seen or dropped by gc(), *)
(* has a full one, and a bucket left alone refills as if by the tick.       *)
LevelOf(k) == IF HasBucket(k) THEN Refilled(k) ELSE FullBucket

Abstract == INSTANCE TokenBucket WITH level <- [k \in Keys |-> LevelOf(k)]

(* The code implements TokenBucket: no laziness, no dropped bucket and no   *)
(* refused call ever gives a key more, or less, than its level.             *)
ImplementsTokenBucket == Abstract!TBSpec
=============================================================================
