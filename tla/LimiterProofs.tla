--------------------------- MODULE LimiterProofs ---------------------------
(* Proofs about the two limiters of agent/rate_limit.py: RateLimiter, for    *)
(* every set of keys, capacity, period and idle time that                    *)
(* RateLimiterAssumption allows, and ChatEndpoint, for every set of requests *)
(* and callers and every limit.                                              *)
EXTENDS RateLimiter, ChatEndpoint, FiniteSetTheorems, TLAPS

-----------------------------------------------------------------------------
(* The strengthening of WindowBound that a step preserves.  A grant i of a  *)
(* key with a bucket: the grants from i on and what is left in the bucket   *)
(* are paid by a full bucket and the refill since i.  Of a key that gc()    *)
(* dropped: the refill since i alone pays them, so the fresh, full bucket   *)
(* of CheckNewKey is no more than the old one would hold.                   *)
GrantsFrom(k, i) == Len(granted[k]) - i + 1

PaidWithBucket(k, i) ==
    /\ granted[k][i] <= buckets[k].last_refill
    /\ GrantsFrom(k, i) * Period + buckets[k].tokens
          <= FullBucket + (buckets[k].last_refill - granted[k][i]) * Capacity

PaidByRefill(k, i) ==
    /\ granted[k][i] <= clock
    /\ GrantsFrom(k, i) * Period <= (clock - granted[k][i]) * Capacity

Paid ==
    \A k \in Keys : \A i \in 1 .. Len(granted[k]) :
        IF HasBucket(k) THEN PaidWithBucket(k, i) ELSE PaidByRefill(k, i)

Inv == RateLimiterTypeOK /\ (Capacity # 0 => Paid /\ WindowBound)

-----------------------------------------------------------------------------
(* Products of naturals, the only arithmetic that is not linear. *)
LEMMA ProductNat == ASSUME NEW a \in Nat, NEW b \in Nat PROVE a * b \in Nat
  OBVIOUS

LEMMA ProductInt == ASSUME NEW a \in Int, NEW b \in Int PROVE a * b \in Int
  OBVIOUS

(* More elapsed time refills no less.                                        *)
LEMMA ProductMonotone ==
  ASSUME NEW a \in Int, NEW b \in Int, NEW c \in Nat, a <= b
  PROVE  a * c <= b * c
  OBVIOUS

(* Two stretches of time refill what their sum does.                         *)
LEMMA Distribute ==
  ASSUME NEW a \in Int, NEW b \in Int, NEW c \in Int
  PROVE  /\ (a + b) * c = a * c + b * c
         /\ (a - b) * c = a * c - b * c
  OBVIOUS

(* A full bucket covers at least one call when the limiter is on.            *)
LEMMA FullBucketNat == FullBucket \in Nat /\ (Capacity # 0 => Period <= FullBucket)
<1>1. FullBucket \in Nat
  BY ProductNat, RateLimiterAssumption DEF FullBucket
<1>2. ASSUME Capacity # 0 PROVE Period <= FullBucket
  <2>1. 1 * Period <= Capacity * Period
    BY <1>2, ProductMonotone, RateLimiterAssumption
  <2>. QED BY <2>1, RateLimiterAssumption DEF FullBucket
<1>. QED BY <1>1, <1>2

-----------------------------------------------------------------------------
(* What the operators of the module give back, types first. *)
LEMMA RefilledRange ==
  ASSUME RateLimiterTypeOK, NEW k \in DOMAIN buckets
  PROVE  /\ Refilled(k) \in 0 .. FullBucket
         /\ Refilled(k) <= buckets[k].tokens
                             + (clock - buckets[k].last_refill) * Capacity
         /\ buckets[k].tokens \in 0 .. FullBucket
         /\ buckets[k].last_refill \in 0 .. clock
<1>1. /\ buckets[k].tokens \in 0 .. FullBucket
      /\ buckets[k].last_refill \in 0 .. clock
      /\ clock \in Nat
  BY DEF RateLimiterTypeOK, Bucket
<1>2. (clock - buckets[k].last_refill) * Capacity \in Nat
  BY <1>1, ProductNat, RateLimiterAssumption
<1>. QED BY <1>1, <1>2, FullBucketNat DEF Refilled

(* A check() writes one bucket: what it wrote, and what it left. *)
LEMMA PutBucketEffect ==
  ASSUME NEW k \in Keys, NEW b, PutBucket(k, b)
  PROVE  /\ DOMAIN buckets' = DOMAIN buckets \cup {k}
         /\ buckets'[k] = b
         /\ \A j \in DOMAIN buckets : j # k => buckets'[j] = buckets[j]
  BY DEF PutBucket

(* The bucket a check() leaves behind is a bucket.                           *)
LEMMA TouchedType ==
  ASSUME clock \in Nat, NEW t \in 0 .. FullBucket
  PROVE  /\ Touched(t) \in Bucket
         /\ Touched(t).tokens = t
         /\ Touched(t).last_refill = clock
  BY DEF Touched, Bucket

(* The history of grants after a call that was let through.                  *)
LEMMA GrantEffect ==
  ASSUME NEW k \in Keys, granted \in [Keys -> Seq(Nat)], clock \in Nat, Grant(k)
  PROVE  /\ granted' \in [Keys -> Seq(Nat)]
         /\ \A j \in Keys : j # k => granted'[j] = granted[j]
         /\ Len(granted'[k]) = Len(granted[k]) + 1
         /\ granted'[k][Len(granted[k]) + 1] = clock
         /\ \A i \in 1 .. Len(granted[k]) : granted'[k][i] = granted[k][i]
<1>1. granted[k] \in Seq(Nat) /\ granted'[k] = Append(granted[k], clock)
  BY DEF Grant
<1>. QED BY <1>1 DEF Grant

-----------------------------------------------------------------------------
(* check and gc keep every bucket between empty and full, for every          *)
(* capacity, period and set of keys.                                         *)
THEOREM BucketTypes == RateLimiterSpec => []RateLimiterTypeOK
<1>1. RateLimiterInit => RateLimiterTypeOK
  BY DEF RateLimiterInit, RateLimiterTypeOK
<1>2. RateLimiterTypeOK /\ [RateLimiterNext]_rlVars => RateLimiterTypeOK'
  <2>. SUFFICES ASSUME RateLimiterTypeOK, [RateLimiterNext]_rlVars
                PROVE  RateLimiterTypeOK'
    OBVIOUS
  <2>. USE RateLimiterAssumption
  <2>1. ASSUME NEW k \in Keys, CheckDisabled(k) PROVE RateLimiterTypeOK'
    BY <2>1 DEF CheckDisabled, RateLimiterTypeOK
  <2>2. ASSUME NEW k \in Keys, NEW t \in 0 .. FullBucket,
               PutBucket(k, Touched(t)), UNCHANGED clock,
               result' \in Keys \X BOOLEAN,
               Grant(k) \/ UNCHANGED granted
        PROVE RateLimiterTypeOK'
    <3>1. granted' \in [Keys -> Seq(Nat)]
      BY <2>2, GrantEffect DEF RateLimiterTypeOK
    <3>2. /\ Touched(t) \in Bucket
          /\ Touched(t).last_refill = clock
      BY TouchedType DEF RateLimiterTypeOK
    <3>3. /\ DOMAIN buckets' \subseteq Keys
          /\ \A j \in DOMAIN buckets' : /\ buckets'[j] \in Bucket
                                         /\ buckets'[j].last_refill <= clock
      <4>1. /\ DOMAIN buckets' = DOMAIN buckets \cup {k}
            /\ buckets'[k] = Touched(t)
            /\ \A j \in DOMAIN buckets : j # k => buckets'[j] = buckets[j]
        BY <2>2, PutBucketEffect
      <4>. QED BY <3>2, <4>1 DEF RateLimiterTypeOK
    <3>. QED BY <2>2, <3>1, <3>3 DEF RateLimiterTypeOK
  <2>3. ASSUME NEW k \in Keys, CheckNewKey(k) PROVE RateLimiterTypeOK'
    <3>1. FullBucket - Period \in 0 .. FullBucket
      BY <2>3, FullBucketNat DEF CheckNewKey
    <3>. QED BY <2>2, <2>3, <3>1 DEF CheckNewKey
  <2>4. ASSUME NEW k \in Keys, CheckSpend(k) PROVE RateLimiterTypeOK'
    <3>1. Refilled(k) - Period \in 0 .. FullBucket
      BY <2>4, RefilledRange, FullBucketNat DEF CheckSpend, HasBucket
    <3>. QED BY <2>2, <2>4, <3>1 DEF CheckSpend
  <2>5. ASSUME NEW k \in Keys, CheckRefused(k) PROVE RateLimiterTypeOK'
    <3>1. Refilled(k) \in 0 .. FullBucket
      BY <2>5, RefilledRange DEF CheckRefused, HasBucket
    <3>. QED BY <2>2, <2>5, <3>1 DEF CheckRefused
  <2>6. CASE Gc
    BY <2>6 DEF Gc, RateLimiterTypeOK
  <2>7. CASE Tick
    BY <2>7 DEF Tick, RateLimiterTypeOK, Bucket
  <2>8. CASE UNCHANGED rlVars
    BY <2>8 DEF rlVars, RateLimiterTypeOK
  <2>. QED BY <2>1, <2>3, <2>4, <2>5, <2>6, <2>7, <2>8
           DEF RateLimiterNext, CheckAllowed
<1>. QED BY <1>1, <1>2, PTL DEF RateLimiterSpec

-----------------------------------------------------------------------------
(* An older grant of a key, read off Inv: what it and the grants after it   *)
(* are charged to when the key is next let through.                         *)
LEMMA OlderGrantPaid ==
  ASSUME Inv, Capacity # 0, NEW k \in Keys, NEW i \in 1 .. Len(granted[k])
  PROVE  /\ granted[k][i] \in 0 .. clock
         /\ HasBucket(k) =>
              /\ granted[k][i] <= buckets[k].last_refill
              /\ GrantsFrom(k, i) * Period + Refilled(k)
                   <= FullBucket + (clock - granted[k][i]) * Capacity
         /\ ~ HasBucket(k) =>
              GrantsFrom(k, i) * Period <= (clock - granted[k][i]) * Capacity
<1>. DEFINE g == granted[k][i]
<1>0. /\ g \in Nat /\ clock \in Nat /\ GrantsFrom(k, i) \in Nat
      /\ Capacity \in Nat /\ Period \in Nat
  BY RateLimiterAssumption DEF Inv, RateLimiterTypeOK, GrantsFrom
<1>1. CASE HasBucket(k)
  <2>. DEFINE last == buckets[k].last_refill
              tok == buckets[k].tokens
  <2>1. PaidWithBucket(k, i)
    BY <1>1 DEF Inv, Paid
  <2>2. /\ tok \in Nat /\ last \in 0 .. clock /\ Refilled(k) \in Nat
        /\ clock - g \in Int /\ clock - last \in Int /\ last - g \in Int
        /\ clock - g = (clock - last) + (last - g)
    <3>1. tok \in Nat /\ last \in 0 .. clock /\ Refilled(k) \in Nat
      BY <1>1, RefilledRange, FullBucketNat DEF Inv, HasBucket
    <3>. HIDE DEF g, last, tok
    <3>. QED BY <1>0, <3>1
  <2>3. Refilled(k) <= tok + (clock - last) * Capacity
    BY <1>1, RefilledRange DEF Inv, HasBucket
  <2>4. (clock - g) * Capacity = (clock - last) * Capacity + (last - g) * Capacity
    <3>. HIDE DEF g, last
    <3>. QED BY <1>0, <2>2, Distribute
  <2>5. GrantsFrom(k, i) * Period + tok <= FullBucket + (last - g) * Capacity
    BY <2>1 DEF PaidWithBucket
  <2>6. g <= last /\ g \in 0 .. clock
    <3>1. g <= last
      BY <2>1 DEF PaidWithBucket
    <3>. HIDE DEF g, last
    <3>. QED BY <1>0, <2>2, <3>1
  <2>. DEFINE a == (clock - g) * Capacity
              b == (clock - last) * Capacity
              c == (last - g) * Capacity
              d == GrantsFrom(k, i) * Period
  <2>7. a \in Int /\ b \in Int /\ c \in Int /\ d \in Int
    <3>. HIDE DEF g, last
    <3>1. Capacity \in Int /\ Period \in Int /\ GrantsFrom(k, i) \in Int
      BY <1>0
    <3>. QED BY <2>2, <3>1, ProductInt
  <2>8. a = b + c /\ d + tok <= FullBucket + c /\ Refilled(k) <= tok + b
    BY <2>3, <2>4, <2>5
  <2>9. d + Refilled(k) <= FullBucket + a
    <3>1. tok \in Nat /\ Refilled(k) \in Nat /\ FullBucket \in Nat
      BY <2>2, FullBucketNat
    <3>. HIDE DEF a, b, c, d, tok
    <3>. QED BY <2>7, <2>8, <3>1
  <2>. QED BY <1>1, <2>6, <2>9, Zenon
<1>2. CASE ~ HasBucket(k)
  BY <1>0, <1>2 DEF Inv, Paid, PaidByRefill
<1>. QED BY <1>1, <1>2

(* A key is let through with t units left in its bucket afterwards: enough  *)
(* that every grant so far, and the new one, remain paid.                   *)
LEMMA GrantKeepsPaid ==
  ASSUME Inv, Capacity # 0, NEW k \in Keys, NEW t \in 0 .. FullBucket,
         t + Period <= FullBucket,
         HasBucket(k) => t + Period = Refilled(k),
         PutBucket(k, Touched(t)), Grant(k), UNCHANGED clock
  PROVE  Paid' /\ WindowBound'
<1>. DEFINE n == Len(granted[k])
<1>0. /\ clock \in Nat /\ n \in Nat /\ granted \in [Keys -> Seq(Nat)]
      /\ Capacity \in Nat /\ Period \in Nat /\ FullBucket \in Nat
      /\ Paid /\ WindowBound
  BY RateLimiterAssumption, FullBucketNat DEF Inv, RateLimiterTypeOK
<1>1. /\ granted' \in [Keys -> Seq(Nat)]
      /\ \A j \in Keys : j # k => granted'[j] = granted[j]
      /\ Len(granted'[k]) = n + 1
      /\ granted'[k][n + 1] = clock
      /\ \A i \in 1 .. n : granted'[k][i] = granted[k][i]
  BY <1>0, GrantEffect
<1>2. /\ DOMAIN buckets' = DOMAIN buckets \cup {k}
      /\ buckets'[k].tokens = t /\ buckets'[k].last_refill = clock
      /\ \A j \in DOMAIN buckets : j # k => buckets'[j] = buckets[j]
  <2>1. Touched(t).tokens = t /\ Touched(t).last_refill = clock
    BY <1>0, TouchedType
  <2>2. /\ DOMAIN buckets' = DOMAIN buckets \cup {k}
        /\ buckets'[k] = Touched(t)
        /\ \A j \in DOMAIN buckets : j # k => buckets'[j] = buckets[j]
    BY PutBucketEffect
  <2>. QED BY <2>1, <2>2
<1>3. ASSUME NEW i \in 1 .. n
      PROVE  /\ granted[k][i] \in 0 .. clock
             /\ (n - i + 2) * Period + t
                  <= FullBucket + (clock - granted[k][i]) * Capacity
  <2>1. /\ granted[k][i] \in 0 .. clock
        /\ HasBucket(k) => (n - i + 1) * Period + Refilled(k)
                             <= FullBucket + (clock - granted[k][i]) * Capacity
        /\ ~ HasBucket(k) => (n - i + 1) * Period
                               <= (clock - granted[k][i]) * Capacity
    BY OlderGrantPaid DEF GrantsFrom
  <2>2. (n - i + 2) * Period = (n - i + 1) * Period + Period
    BY <1>0
  <2>. DEFINE before == (n - i + 1) * Period
              with == (n - i + 2) * Period
              refill == (clock - granted[k][i]) * Capacity
  <2>3. before \in Int /\ with \in Int /\ refill \in Int
    <3>1. /\ n - i + 1 \in Int /\ n - i + 2 \in Int
          /\ clock - granted[k][i] \in Int
          /\ Capacity \in Int /\ Period \in Int
      BY <1>0, <2>1
    <3>. QED BY <3>1, ProductInt
  <2>4. /\ with = before + Period
        /\ HasBucket(k) => before + Refilled(k) <= FullBucket + refill
        /\ ~ HasBucket(k) => before <= refill
    BY <2>1, <2>2
  <2>5. with + t <= FullBucket + refill
    <3>. HIDE DEF before, with, refill
    <3>1. CASE HasBucket(k)
      BY <1>0, <2>3, <2>4, <3>1
    <3>2. CASE ~ HasBucket(k)
      BY <1>0, <2>3, <2>4, <3>2
    <3>. QED BY <3>1, <3>2
  <2>. QED BY <2>1, <2>5
<1>4. Paid'
  <2>. SUFFICES ASSUME NEW j \in Keys, NEW i \in 1 .. Len(granted'[j])
                PROVE  IF HasBucket(j)' THEN PaidWithBucket(j, i)'
                                        ELSE PaidByRefill(j, i)'
    BY DEF Paid
  <2>1. CASE j # k
    <3>1. /\ HasBucket(j)' = HasBucket(j)
          /\ granted'[j] = granted[j]
          /\ HasBucket(j) => buckets'[j] = buckets[j]
      BY <1>1, <1>2, <2>1 DEF HasBucket
    <3>. QED BY <1>0, <3>1 DEF Paid, PaidWithBucket, PaidByRefill, GrantsFrom
  <2>2. CASE j = k /\ i <= n
    <3>1. i \in 1 .. n
      BY <1>0, <1>1, <2>2
    <3>2. /\ (n - i + 2) * Period + t
               <= FullBucket + (clock - granted[k][i]) * Capacity
          /\ granted[k][i] <= clock
      BY <1>3, <3>1
    <3>3. Len(granted'[k]) - i + 1 = n - i + 2
      BY <1>0, <1>1, <3>1
    <3>4. /\ HasBucket(k)'
          /\ buckets'[k].tokens = t
          /\ buckets'[k].last_refill = clock
          /\ granted'[k][i] = granted[k][i]
      BY <1>1, <1>2, <3>1 DEF HasBucket
    <3>5. PaidWithBucket(k, i)'
      BY <3>2, <3>3, <3>4 DEF PaidWithBucket, GrantsFrom, FullBucket
    <3>. QED BY <2>2, <3>4, <3>5
  <2>3. CASE j = k /\ i = n + 1
    <3>1. Len(granted'[k]) - i + 1 = 1
      BY <1>0, <1>1, <2>3
    <3>2. /\ 1 * Period + t <= FullBucket + (clock - clock) * Capacity
          /\ clock <= clock
      BY <1>0
    <3>3. /\ HasBucket(k)'
          /\ buckets'[k].tokens = t
          /\ buckets'[k].last_refill = clock
          /\ granted'[k][i] = clock
      BY <1>1, <1>2, <2>3 DEF HasBucket
    <3>4. PaidWithBucket(k, i)'
      BY <3>1, <3>2, <3>3 DEF PaidWithBucket, GrantsFrom, FullBucket
    <3>. QED BY <2>3, <3>3, <3>4
  <2>. QED BY <1>0, <1>1, <2>1, <2>2, <2>3
<1>5. WindowBound'
  <2>. SUFFICES ASSUME NEW j \in Keys, NEW i \in 1 .. Len(granted'[j]),
                       NEW m \in 1 .. Len(granted'[j]), i <= m
                PROVE  (m - i + 1) * Period <= FullBucket
                         + (granted'[j][m] - granted'[j][i]) * Capacity
    BY DEF WindowBound, FullBucket
  <2>1. CASE j # k
    <3>1. granted'[j] = granted[j]
      BY <1>1, <2>1
    <3>. QED BY <1>0, <3>1 DEF WindowBound
  <2>2. CASE j = k /\ m <= n
    <3>1. i \in 1 .. n /\ m \in 1 .. n
      BY <1>0, <1>1, <2>2
    <3>2. granted'[j][m] = granted[k][m] /\ granted'[j][i] = granted[k][i]
      BY <1>1, <2>2, <3>1
    <3>3. (m - i + 1) * Period
            <= FullBucket + (granted[k][m] - granted[k][i]) * Capacity
      BY <1>0, <3>1 DEF WindowBound
    <3>. QED BY <3>2, <3>3
  <2>3. CASE j = k /\ m = n + 1 /\ i <= n
    <3>1. i \in 1 .. n
      BY <1>0, <1>1, <2>3
    <3>2. /\ (n - i + 2) * Period + t
               <= FullBucket + (clock - granted[k][i]) * Capacity
          /\ granted[k][i] \in 0 .. clock
      BY <1>3, <3>1
    <3>3. (n - i + 2) * Period <= FullBucket + (clock - granted[k][i]) * Capacity
      <4>. DEFINE with == (n - i + 2) * Period
                  refill == (clock - granted[k][i]) * Capacity
      <4>1. n - i + 2 \in Int /\ clock - granted[k][i] \in Int
        BY <1>0, <3>1, <3>2
      <4>2. with \in Int /\ refill \in Int
        BY <1>0, <4>1
      <4>3. with + t <= FullBucket + refill
        BY <3>2
      <4>. HIDE DEF with, refill
      <4>4. with <= FullBucket + refill
        BY <1>0, <4>2, <4>3
      <4>. QED BY <4>4 DEF with, refill
    <3>4. m - i + 1 = n - i + 2
      BY <1>0, <2>3, <3>1
    <3>5. granted'[j][m] = clock /\ granted'[j][i] = granted[k][i]
      BY <1>1, <2>3, <3>1
    <3>. QED BY <3>3, <3>4, <3>5
  <2>4. CASE j = k /\ m = n + 1 /\ i = n + 1
    <3>1. 1 * Period <= FullBucket + (clock - clock) * Capacity
      BY <1>0
    <3>2. m - i + 1 = 1 /\ granted'[j][m] = clock /\ granted'[j][i] = clock
      BY <1>0, <1>1, <2>4
    <3>. QED BY <3>1, <3>2
  <2>5. j = k => m \in 1 .. n + 1 /\ i \in 1 .. n + 1
    BY <1>0, <1>1
  <2>6. j = k => \/ m <= n
                 \/ m = n + 1 /\ i <= n
                 \/ m = n + 1 /\ i = n + 1
    BY <1>0, <2>5
  <2>. QED BY <2>1, <2>2, <2>3, <2>4, <2>6
<1>. QED BY <1>4, <1>5

-----------------------------------------------------------------------------
(* A step that gives nothing and touches no clock but may write the refill  *)
(* of one bucket back: check() refusing.                                    *)
LEMMA RefusalKeepsPaid ==
  ASSUME Inv, Capacity # 0, NEW k \in Keys, CheckRefused(k)
  PROVE  Paid' /\ WindowBound'
<1>0. /\ clock \in Nat /\ granted \in [Keys -> Seq(Nat)] /\ Paid
      /\ HasBucket(k) /\ UNCHANGED <<clock, granted>>
      /\ Refilled(k) \in 0 .. FullBucket
  BY RefilledRange DEF Inv, RateLimiterTypeOK, CheckRefused, HasBucket
<1>1. /\ DOMAIN buckets' = DOMAIN buckets
      /\ buckets'[k] = Touched(Refilled(k))
      /\ \A j \in DOMAIN buckets : j # k => buckets'[j] = buckets[j]
  BY <1>0, PutBucketEffect DEF CheckRefused, HasBucket
<1>2. buckets'[k].tokens = Refilled(k) /\ buckets'[k].last_refill = clock
  BY <1>0, <1>1, TouchedType
<1>3. ASSUME NEW j \in Keys, NEW i \in 1 .. Len(granted[j])
      PROVE  IF HasBucket(j)' THEN PaidWithBucket(j, i)'
                              ELSE PaidByRefill(j, i)'
  <2>1. CASE j = k
    <3>1. /\ granted[k][i] <= clock
          /\ GrantsFrom(k, i) * Period + Refilled(k)
               <= FullBucket + (clock - granted[k][i]) * Capacity
      BY <1>0, <2>1, OlderGrantPaid
    <3>2. PaidWithBucket(k, i)'
      BY <1>0, <1>2, <3>1 DEF PaidWithBucket, GrantsFrom, FullBucket
    <3>. QED BY <1>0, <1>1, <2>1, <3>2 DEF HasBucket
  <2>2. CASE j # k
    BY <1>0, <1>1, <2>2
       DEF Paid, PaidWithBucket, PaidByRefill, GrantsFrom, HasBucket, FullBucket
  <2>. QED BY <2>1, <2>2
<1>. QED BY <1>0, <1>3 DEF Paid, Inv, WindowBound, FullBucket

(* gc(): IdleTicks >= Period, so what it drops has had a full refill.       *)
LEMMA GcKeepsPaid ==
  ASSUME Inv, Capacity # 0, Gc
  PROVE  Paid' /\ WindowBound'
<1>0. /\ clock \in Nat /\ granted \in [Keys -> Seq(Nat)] /\ Paid
      /\ UNCHANGED <<clock, granted>>
      /\ buckets' = [j \in {m \in DOMAIN buckets : ~ Idle(m)} |-> buckets[j]]
      /\ Capacity \in Nat /\ Period \in Nat /\ FullBucket \in Nat
  BY RateLimiterAssumption, FullBucketNat DEF Inv, RateLimiterTypeOK, Gc
<1>1. ASSUME NEW j \in Keys, NEW i \in 1 .. Len(granted[j])
      PROVE  IF HasBucket(j)' THEN PaidWithBucket(j, i)'
                              ELSE PaidByRefill(j, i)'
  <2>1. CASE HasBucket(j) /\ Idle(j)
    <3>. DEFINE g == granted[j][i]
                last == buckets[j].last_refill
                tok == buckets[j].tokens
                n == GrantsFrom(j, i)
    <3>1. /\ g <= last /\ n * Period + tok <= FullBucket + (last - g) * Capacity
      BY <1>0, <2>1 DEF Paid, PaidWithBucket
    <3>2. tok \in Nat /\ last \in Nat /\ g \in Nat /\ n \in Nat
      <4>1. tok \in Nat /\ last \in Nat
        BY <2>1, RefilledRange, FullBucketNat DEF Inv, HasBucket
      <4>2. g \in Nat /\ n \in Nat
        BY <1>0 DEF GrantsFrom
      <4>. HIDE DEF tok, last, g, n
      <4>. QED BY <4>1, <4>2
    <3>3. clock - last >= Period
      <4>1. clock - last > IdleTicks
        BY <2>1 DEF Idle
      <4>. HIDE DEF last
      <4>. QED BY <1>0, <3>2, <4>1, RateLimiterAssumption
    <3>4. /\ Period * Capacity <= (clock - last) * Capacity
          /\ (clock - g) * Capacity = (clock - last) * Capacity
                                         + (last - g) * Capacity
      <4>0. clock \in Nat
        BY <1>0
      <4>. HIDE DEF g, last
      <4>1. /\ clock - last \in Int /\ last - g \in Int
            /\ clock - g = (clock - last) + (last - g)
        BY <3>2, <4>0
      <4>2. Period * Capacity <= (clock - last) * Capacity
        <5>1. Period \in Int /\ Period <= clock - last
          BY <1>0, <3>3, <4>1
        <5>. QED BY <1>0, <4>1, <5>1, ProductMonotone
      <4>3. ((clock - last) + (last - g)) * Capacity
              = (clock - last) * Capacity + (last - g) * Capacity
        BY <1>0, <4>1, Distribute
      <4>. QED BY <4>1, <4>2, <4>3
    <3>5. n * Period <= (clock - g) * Capacity /\ g <= clock
      <4>. HIDE DEF g, last, tok, n
      <4>1. FullBucket = Period * Capacity
        BY <1>0 DEF FullBucket
      <4>. QED BY <1>0, <3>1, <3>2, <3>3, <3>4, <4>1
    <3>6. PaidByRefill(j, i)'
      BY <1>0, <3>5 DEF PaidByRefill, GrantsFrom
    <3>. QED BY <1>0, <2>1, <3>6 DEF HasBucket
  <2>2. CASE HasBucket(j) /\ ~ Idle(j)
    <3>1. HasBucket(j)' /\ buckets'[j] = buckets[j]
      BY <1>0, <2>2 DEF HasBucket
    <3>. QED BY <1>0, <2>2, <3>1
             DEF Paid, PaidWithBucket, GrantsFrom, FullBucket
  <2>3. CASE ~ HasBucket(j)
    BY <1>0, <2>3 DEF Paid, PaidByRefill, GrantsFrom, HasBucket
  <2>. QED BY <2>1, <2>2, <2>3
<1>. QED BY <1>0, <1>1 DEF Paid, Inv, WindowBound, FullBucket

(* Time only adds to what a key's bucket has been paid.                      *)
LEMMA TickKeepsPaid ==
  ASSUME Inv, Capacity # 0, Tick
  PROVE  Paid' /\ WindowBound'
<1>0. /\ clock \in Nat /\ clock' = clock + 1
      /\ granted \in [Keys -> Seq(Nat)] /\ Paid
      /\ UNCHANGED <<buckets, granted>>
      /\ Capacity \in Nat /\ Period \in Nat
  BY RateLimiterAssumption DEF Inv, RateLimiterTypeOK, Tick
<1>1. ASSUME NEW j \in Keys, NEW i \in 1 .. Len(granted[j]), PaidByRefill(j, i)
      PROVE  PaidByRefill(j, i)'
  <2>. DEFINE g == granted[j][i]
              n == GrantsFrom(j, i)
  <2>1. g \in Nat /\ n \in Nat /\ g <= clock
        /\ n * Period <= (clock - g) * Capacity
    BY <1>0, <1>1 DEF PaidByRefill, GrantsFrom
  <2>2. n * Period <= ((clock + 1) - g) * Capacity /\ g <= clock + 1
    <3>. HIDE DEF g, n
    <3>1. (clock - g) * Capacity <= ((clock + 1) - g) * Capacity
      BY <1>0, <2>1, ProductMonotone
    <3>. QED BY <1>0, <2>1, <3>1
  <2>3. granted'[j][i] = g /\ GrantsFrom(j, i)' = n
    BY <1>0 DEF GrantsFrom
  <2>4. n * Period <= (clock' - g) * Capacity /\ g <= clock'
    <3>. HIDE DEF g, n
    <3>1. clock' = clock + 1
      BY <1>0
    <3>. QED BY <2>2, <3>1, Zenon
  <2>. QED BY <2>3, <2>4 DEF PaidByRefill
<1>. QED BY <1>0, <1>1
         DEF Paid, PaidWithBucket, GrantsFrom, HasBucket, Inv, WindowBound,
             FullBucket

-----------------------------------------------------------------------------
(* The limiter's promise, for any burst, any period and any idle time that  *)
(* covers the period: no order of calls, refusals and garbage collections   *)
(* lets a key through more often than its burst and the refill of the       *)
(* stretch allow.                                                           *)
THEOREM WindowBoundHolds == RateLimiterSpec => []WindowBound
<1>1. RateLimiterInit => Inv
  BY DEF RateLimiterInit, Inv, Paid, WindowBound, RateLimiterTypeOK
<1>2. Inv /\ RateLimiterTypeOK' /\ [RateLimiterNext]_rlVars => Inv'
  <2>. SUFFICES ASSUME Inv, RateLimiterTypeOK', [RateLimiterNext]_rlVars,
                       Capacity # 0
                PROVE  Paid' /\ WindowBound'
    BY DEF Inv
  <2>0. RateLimiterTypeOK
    BY DEF Inv
  <2>1. ASSUME NEW k \in Keys, CheckDisabled(k) PROVE Paid' /\ WindowBound'
    BY <2>1 DEF CheckDisabled
  <2>2. ASSUME NEW k \in Keys, CheckNewKey(k) PROVE Paid' /\ WindowBound'
    <3>1. /\ FullBucket - Period \in 0 .. FullBucket
          /\ (FullBucket - Period) + Period <= FullBucket
      BY FullBucketNat, RateLimiterAssumption
    <3>. QED BY <2>2, <3>1, GrantKeepsPaid DEF CheckNewKey
  <2>3. ASSUME NEW k \in Keys, CheckSpend(k) PROVE Paid' /\ WindowBound'
    <3>1. /\ Refilled(k) - Period \in 0 .. FullBucket
          /\ (Refilled(k) - Period) + Period = Refilled(k)
          /\ Refilled(k) <= FullBucket
      BY <2>0, <2>3, RefilledRange, FullBucketNat, RateLimiterAssumption
         DEF CheckSpend, HasBucket
    <3>. QED BY <2>3, <3>1, GrantKeepsPaid DEF CheckSpend
  <2>4. ASSUME NEW k \in Keys, CheckRefused(k) PROVE Paid' /\ WindowBound'
    BY <2>4, RefusalKeepsPaid
  <2>5. CASE Gc
    BY <2>5, GcKeepsPaid
  <2>6. CASE Tick
    BY <2>6, TickKeepsPaid
  <2>7. CASE UNCHANGED rlVars
    BY <2>7 DEF rlVars, Inv, Paid, PaidWithBucket, PaidByRefill, GrantsFrom,
                HasBucket, WindowBound, FullBucket
  <2>. QED BY <2>1, <2>2, <2>3, <2>4, <2>5, <2>6, <2>7
           DEF RateLimiterNext, CheckAllowed
<1>3. Inv => (Capacity # 0 => WindowBound)
  BY DEF Inv
<1>4. Capacity = 0 => WindowBound
  BY DEF WindowBound
<1>5. Inv => WindowBound
  BY <1>3, <1>4
<1>. QED BY <1>1, <1>2, <1>5, BucketTypes, PTL DEF RateLimiterSpec

-----------------------------------------------------------------------------
(* What a division by a positive number leaves is less than that number.     *)
LEMMA DivisionRemainder ==
  ASSUME NEW a \in Int, NEW b \in Nat \ {0}
  PROVE  a \div b \in Int /\ (a \div b) * b <= a /\ a < (a \div b) * b + b
  OBVIOUS

(* The wait that is asked for is short of what a token needs by no more than  *)
(* half a second's refill, whatever capacity, period and second are.          *)
THEOREM RetryAfterHolds == RateLimiterSpec => []RetryAfterShortByHalfSecond
<1>1. RateLimiterTypeOK => RetryAfterShortByHalfSecond
  <2>. SUFFICES ASSUME RateLimiterTypeOK, NEW k \in DOMAIN buckets,
                       Capacity # 0, buckets[k].tokens < Period
                PROVE  2 * (buckets[k].tokens
                              + RetryAfterSeconds(k) * TicksPerSecond * Capacity)
                           + TicksPerSecond * Capacity >= 2 * Period
    BY DEF RetryAfterShortByHalfSecond
  <2>. DEFINE t == buckets[k].tokens
              second == Capacity * TicksPerSecond
              twice == 2 * (Period - t) + second
              nearest == twice \div (2 * second)
              wait == RetryAfterSeconds(k)
  <2>1. t \in Nat /\ Period \in Nat /\ t < Period
    BY FullBucketNat, RateLimiterAssumption DEF RateLimiterTypeOK, Bucket
  <2>2. second \in Nat \ {0}
    <3>1. 1 * TicksPerSecond <= Capacity * TicksPerSecond
      BY ProductMonotone, RateLimiterAssumption
    <3>. QED BY <3>1, ProductNat, RateLimiterAssumption
  <2>3. wait = IF twice \div (2 * second) < 1 THEN 1 ELSE twice \div (2 * second)
    <3>1. 2 * Capacity * TicksPerSecond = 2 * second
      BY RateLimiterAssumption
    <3>. QED BY <3>1 DEF RetryAfterSeconds
  <2>4. wait * TicksPerSecond * Capacity = wait * second
    <3>1. wait \in Int
      <4>. HIDE DEF second
      <4>1. twice \in Int /\ 2 * second \in Nat \ {0}
        BY <2>1, <2>2
      <4>. HIDE DEF twice, wait
      <4>. QED BY <2>3, <4>1, DivisionRemainder
    <3>. HIDE DEF wait
    <3>. QED BY <3>1, RateLimiterAssumption
  <2>5. TicksPerSecond * Capacity = second
    BY RateLimiterAssumption
  <2>. HIDE DEF second, wait
  <2>6. twice \in Int /\ 2 * second \in Nat \ {0}
    BY <2>1, <2>2
  <2>7. nearest \in Int /\ twice < nearest * (2 * second) + 2 * second
    BY <2>6, DivisionRemainder
  <2>8. wait \in Int /\ nearest <= wait
    BY <2>3, <2>7
  <2>. HIDE DEF nearest
  <2>9. nearest * (2 * second) <= wait * (2 * second)
    BY <2>2, <2>7, <2>8, ProductMonotone
  <2>10. wait * (2 * second) = 2 * (wait * second)
    BY <2>2, <2>8
  <2>11. wait * second \in Int /\ nearest * (2 * second) \in Int
    BY <2>2, <2>7, <2>8
  <2>. DEFINE refill == wait * second
              most == nearest * (2 * second)
  <2>12. /\ most <= 2 * refill /\ twice < most + 2 * second
         /\ refill \in Int /\ most \in Int
    BY <2>7, <2>9, <2>10, <2>11
  <2>. HIDE DEF refill, most
  <2>13. 2 * (t + refill) + second >= 2 * Period
    BY <2>1, <2>2, <2>12
  <2>. QED BY <2>4, <2>5, <2>13 DEF refill, wait
<1>. QED BY <1>1, BucketTypes, PTL

-----------------------------------------------------------------------------
(* The refinement.  One step of the clock refills by Capacity, up to full.  *)
LEMMA LevelAfterTick ==
  ASSUME RateLimiterTypeOK, Tick, NEW k \in Keys
  PROVE  LevelOf(k)' = IF LevelOf(k) + Capacity > FullBucket
                       THEN FullBucket ELSE LevelOf(k) + Capacity
<1>0. /\ clock \in Nat /\ clock' = clock + 1 /\ buckets' = buckets
      /\ Capacity \in Nat /\ FullBucket \in Nat
  BY RateLimiterAssumption, FullBucketNat DEF RateLimiterTypeOK, Tick
<1>1. CASE HasBucket(k)
  <2>. DEFINE last == buckets[k].last_refill
              tok == buckets[k].tokens
              earned == (clock - last) * Capacity
  <2>1. tok \in Nat /\ last \in 0 .. clock
    BY <1>1, RefilledRange, FullBucketNat DEF HasBucket
  <2>2. /\ ((clock + 1) - last) * Capacity = earned + Capacity
        /\ earned \in Nat
    <3>. HIDE DEF last
    <3>1. clock - last \in Nat /\ (clock + 1) - last = (clock - last) + 1
      BY <1>0, <2>1
    <3>. QED BY <1>0, <3>1, Distribute, ProductNat
  <2>3. LevelOf(k) = IF tok + earned > FullBucket THEN FullBucket ELSE tok + earned
    BY <1>1 DEF LevelOf, Refilled
  <2>4. LevelOf(k)' = IF tok + (earned + Capacity) > FullBucket
                      THEN FullBucket ELSE tok + (earned + Capacity)
    <3>1. (clock' - last) * Capacity = earned + Capacity
      <4>. HIDE DEF last, earned
      <4>1. clock' = clock + 1
        BY <1>0
      <4>. QED BY <2>2, <4>1, Zenon
    <3>2. LevelOf(k)' = IF tok + (clock' - last) * Capacity > FullBucket
                        THEN FullBucket ELSE tok + (clock' - last) * Capacity
      BY <1>0, <1>1 DEF LevelOf, Refilled, HasBucket, FullBucket
    <3>. QED BY <3>1, <3>2
  <2>. QED
    <3>. HIDE DEF tok, earned
    <3>. QED BY <1>0, <2>1, <2>2, <2>3, <2>4
<1>2. CASE ~ HasBucket(k)
  BY <1>0, <1>2 DEF LevelOf, HasBucket, FullBucket
<1>. QED BY <1>1, <1>2

(* check() lets a key through, or not, by the level the abstract limiter    *)
(* has for it, and takes one token off exactly that level.                  *)
LEMMA LevelAfterPut ==
  ASSUME RateLimiterTypeOK, NEW k \in Keys, NEW t \in 0 .. FullBucket,
         PutBucket(k, Touched(t)), UNCHANGED clock
  PROVE  \A j \in Keys : LevelOf(j)' = IF j = k THEN t ELSE LevelOf(j)
<1>0. clock \in Nat /\ FullBucket \in Nat /\ Capacity \in Nat
  BY FullBucketNat, RateLimiterAssumption DEF RateLimiterTypeOK
<1>1. /\ Touched(t).tokens = t /\ Touched(t).last_refill = clock
  BY <1>0, TouchedType
<1>2. /\ DOMAIN buckets' = DOMAIN buckets \cup {k}
      /\ buckets'[k] = Touched(t)
      /\ \A j \in DOMAIN buckets : j # k => buckets'[j] = buckets[j]
  BY PutBucketEffect
<1>3. LevelOf(k)' = t
  <2>1. LevelOf(k)' = IF t + (clock - clock) * Capacity > FullBucket
                      THEN FullBucket ELSE t + (clock - clock) * Capacity
    BY <1>1, <1>2 DEF LevelOf, Refilled, HasBucket, FullBucket
  <2>2. (clock - clock) * Capacity = 0
    BY <1>0
  <2>. QED BY <1>0, <2>1, <2>2
<1>4. ASSUME NEW j \in Keys, j # k PROVE LevelOf(j)' = LevelOf(j)
  BY <1>2, <1>4 DEF LevelOf, Refilled, HasBucket, FullBucket
<1>. QED BY <1>3, <1>4

(* gc() forgets only buckets that would be full again.                       *)
LEMMA LevelAfterGc ==
  ASSUME RateLimiterTypeOK, Gc, NEW k \in Keys
  PROVE  LevelOf(k)' = LevelOf(k)
<1>0. /\ clock' = clock /\ clock \in Nat /\ Capacity \in Nat
      /\ buckets' = [j \in {m \in DOMAIN buckets : ~ Idle(m)} |-> buckets[j]]
  BY RateLimiterAssumption DEF RateLimiterTypeOK, Gc
<1>1. CASE HasBucket(k) /\ Idle(k)
  <2>. DEFINE last == buckets[k].last_refill
              tok == buckets[k].tokens
  <2>1. tok \in Nat /\ last \in 0 .. clock
    BY <1>1, RefilledRange, FullBucketNat DEF HasBucket
  <2>2. clock - last \in Int /\ Period <= clock - last /\ Period \in Int
    <3>1. clock - last > IdleTicks
      BY <1>1 DEF Idle
    <3>. HIDE DEF last
    <3>. QED BY <1>0, <2>1, <3>1, RateLimiterAssumption
  <2>3. Period * Capacity <= (clock - last) * Capacity
    <3>. HIDE DEF last
    <3>. QED BY <1>0, <2>2, ProductMonotone
  <2>4. FullBucket <= tok + (clock - last) * Capacity
    <3>1. FullBucket = Period * Capacity
      BY <1>0, <2>2 DEF FullBucket
    <3>2. (clock - last) * Capacity \in Int /\ Period * Capacity \in Int
      <4>. HIDE DEF last
      <4>. QED BY <1>0, <2>2
    <3>. HIDE DEF tok, last
    <3>. QED BY <2>1, <2>3, <3>1, <3>2
  <2>5. Refilled(k) = FullBucket
    <3>1. Refilled(k) = IF tok + (clock - last) * Capacity > FullBucket
                        THEN FullBucket ELSE tok + (clock - last) * Capacity
      BY DEF Refilled
    <3>2. tok + (clock - last) * Capacity \in Int /\ FullBucket \in Int
      <4>. HIDE DEF tok, last
      <4>. QED BY <1>0, <2>1, <2>2, FullBucketNat
    <3>. HIDE DEF tok, last
    <3>. QED BY <2>4, <3>1, <3>2
  <2>. QED BY <1>0, <1>1, <2>5 DEF LevelOf, HasBucket, FullBucket
<1>2. CASE ~ (HasBucket(k) /\ Idle(k))
  BY <1>0, <1>2 DEF LevelOf, HasBucket, Refilled, FullBucket
<1>. QED BY <1>1, <1>2

-----------------------------------------------------------------------------
(* The lazy buckets of the code implement the abstract limiter: they let    *)
(* through, and refuse, exactly what it does.                               *)
THEOREM RateLimiterRefines == RateLimiterSpec => ImplementsTokenBucket
<1>. DEFINE Level == [k \in Keys |-> LevelOf(k)]
<1>1. RateLimiterInit => Abstract!TBInit
  BY DEF RateLimiterInit, Abstract!TBInit, Abstract!FullLevel, LevelOf,
         HasBucket, FullBucket
<1>2. RateLimiterTypeOK /\ [RateLimiterNext]_rlVars
        => [Abstract!TBNext]_<<Level, result>>
  <2>. SUFFICES ASSUME RateLimiterTypeOK, [RateLimiterNext]_rlVars
                PROVE  [Abstract!TBNext]_<<Level, result>>
    OBVIOUS
  <2>0. FullBucket = Abstract!FullLevel
    BY DEF FullBucket, Abstract!FullLevel
  <2>1. ASSUME NEW k \in Keys, CheckDisabled(k) PROVE Abstract!Allow(k)
    BY <2>1 DEF CheckDisabled, Abstract!Allow, Abstract!Enabled, LevelOf,
                HasBucket, Refilled
  <2>2. ASSUME NEW k \in Keys, NEW t \in 0 .. FullBucket,
               PutBucket(k, Touched(t)), UNCHANGED clock
        PROVE  Level' = [Level EXCEPT ![k] = t]
    BY <2>2, LevelAfterPut
  <2>3. ASSUME NEW k \in Keys, CheckNewKey(k) PROVE Abstract!Allow(k)
    <3>1. FullBucket - Period \in 0 .. FullBucket /\ Period <= FullBucket
      BY <2>3, FullBucketNat, RateLimiterAssumption DEF CheckNewKey
    <3>2. Level' = [Level EXCEPT ![k] = FullBucket - Period]
      BY <2>2, <2>3, <3>1 DEF CheckNewKey
    <3>3. Level[k] = FullBucket
      BY <2>3 DEF LevelOf, CheckNewKey
    <3>. QED BY <2>3, <3>1, <3>2, <3>3
             DEF Abstract!Allow, Abstract!Enabled, CheckNewKey
  <2>4. ASSUME NEW k \in Keys, CheckSpend(k) PROVE Abstract!Allow(k)
    <3>1. Refilled(k) - Period \in 0 .. FullBucket
      BY <2>4, RefilledRange, FullBucketNat, RateLimiterAssumption
         DEF CheckSpend, HasBucket
    <3>2. Level' = [Level EXCEPT ![k] = Refilled(k) - Period]
      BY <2>2, <2>4, <3>1 DEF CheckSpend
    <3>3. Level[k] = Refilled(k)
      BY <2>4 DEF LevelOf, CheckSpend
    <3>. QED BY <2>4, <3>2, <3>3 DEF Abstract!Allow, Abstract!Enabled, CheckSpend
  <2>5. ASSUME NEW k \in Keys, CheckRefused(k) PROVE Abstract!Refuse(k)
    <3>1. Refilled(k) \in 0 .. FullBucket
      BY <2>5, RefilledRange DEF CheckRefused, HasBucket
    <3>2. Level' = [Level EXCEPT ![k] = Refilled(k)]
      BY <2>2, <2>5, <3>1 DEF CheckRefused
    <3>3. Level[k] = Refilled(k)
      BY <2>5 DEF LevelOf, CheckRefused
    <3>4. Level' = Level
      BY <3>2, <3>3
    <3>. QED BY <2>5, <3>3, <3>4 DEF Abstract!Refuse, Abstract!Enabled, CheckRefused
  <2>6. CASE Gc
    BY <2>6, LevelAfterGc DEF Gc
  <2>7. CASE Tick
    <3>1. \A k \in Keys : Level[k]' = IF Level[k] + Capacity > FullBucket
                                      THEN FullBucket ELSE Level[k] + Capacity
      BY <2>7, LevelAfterTick
    <3>2. Abstract!Flow
      BY <2>0, <3>1 DEF Abstract!Flow
    <3>. QED BY <2>7, <3>2 DEF Tick, Abstract!TimePasses, Abstract!TBNext
  <2>8. CASE UNCHANGED rlVars
    BY <2>8 DEF rlVars, LevelOf, HasBucket, Refilled, FullBucket
  <2>. QED BY <2>1, <2>3, <2>4, <2>5, <2>6, <2>7, <2>8
           DEF RateLimiterNext, CheckAllowed, Abstract!TBNext
<1>. QED BY <1>1, <1>2, BucketTypes, PTL
         DEF RateLimiterSpec, ImplementsTokenBucket, Abstract!TBSpec

-----------------------------------------------------------------------------
(* The endpoint and its concurrency limiter.                                 *)

States == {"new"} \cup InFlight \cup Orphaned \cup Answered

(* The two halves of the state space: a request holds a slot, or does not.  *)
Holds(s) == s \in InFlight \cup Orphaned

-----------------------------------------------------------------------------
(* acquire and release keep the table of counts in its range, whatever the   *)
(* streams do: none goes below 0.                                            *)
THEOREM EndpointTypes == Spec => []TypeOK
<1>. USE ChatEndpointAssumption
<1>1. Init => TypeOK
  BY DEF Init, TypeOK
<1>2. TypeOK /\ [Next]_vars => TypeOK'
  <2>. SUFFICES ASSUME TypeOK, [Next]_vars PROVE TypeOK'
    OBVIOUS
  <2>. USE DEF TypeOK, InFlight, Orphaned, Answered
  <2>1. ASSUME NEW r \in Requests, Chat(r) PROVE TypeOK'
    <3>1. KeyOf[r] \in Callers
      OBVIOUS
    <3>2. /\ pc' \in [Requests -> States]
          /\ connected' = connected
      BY <2>1 DEF Chat, Forbid, RateLimited, TooMany, AdminCheckRaises,
                  Respond, Move, States
    <3>3. counts' \in [Callers -> Nat]
      BY <2>1, <3>1 DEF Chat, Forbid, RateLimited, TooMany, AdminCheckRaises,
                        Respond, Acquire, AcquireRefused
    <3>. QED BY <3>2, <3>3 DEF States
  <2>2. ASSUME NEW r \in Requests, ServeStream(r) PROVE TypeOK'
    <3>1. /\ pc' \in [Requests -> States]
          /\ connected' = connected
      BY <2>2 DEF ServeStream, StartBody, HeadFails, YieldEvent, Sent,
                  LeaveTry, Abandon, Finalise, Move, States
    <3>2. counts' \in [Callers -> Nat]
      BY <2>2 DEF ServeStream, StartBody, HeadFails, YieldEvent, Sent,
                  LeaveTry, Abandon, Finalise, Release
    <3>. QED BY <3>1, <3>2 DEF States
  <2>3. ASSUME NEW r \in Requests, Disconnect(r) PROVE TypeOK'
    BY <2>3 DEF Disconnect
  <2>4. CASE TimePasses
    BY <2>4 DEF TimePasses
  <2>5. CASE UNCHANGED vars
    BY <2>5 DEF vars
  <2>. QED BY <2>1, <2>2, <2>3, <2>4, <2>5 DEF Next
<1>. QED BY <1>1, <1>2, PTL DEF Spec

-----------------------------------------------------------------------------
(* How a request's move shifts the set of holders of each key. *)
LEMMA HoldingFinite ==
  ASSUME NEW k \in Callers
  PROVE  IsFiniteSet(Holding(k)) /\ Cardinality(Holding(k)) \in Nat
<1>1. Holding(k) \in SUBSET Requests
  BY DEF Holding
<1>. QED BY <1>1, FS_Subset, FS_CardinalityType, ChatEndpointAssumption

(* A move between two stages that both hold a slot, or both hold none,       *)
(* changes no key's holders.                                                 *)
LEMMA HoldingSame ==
  ASSUME TypeOK, NEW r \in Requests, NEW from, NEW to, Move(r, from, to),
         Holds(from) <=> Holds(to)
  PROVE  \A k \in Callers : Holding(k)' = Holding(k)
  BY DEF Holding, Holds, Move, TypeOK

(* acquire: the request that takes a slot is one holder more of its key.     *)
LEMMA HoldingTaken ==
  ASSUME TypeOK, NEW r \in Requests, NEW from, NEW to, Move(r, from, to),
         ~ Holds(from), Holds(to)
  PROVE  \A k \in Callers :
            Cardinality(Holding(k)') =
               IF k = KeyOf[r] THEN Cardinality(Holding(k)) + 1
                               ELSE Cardinality(Holding(k))
<1>. SUFFICES ASSUME NEW k \in Callers
              PROVE  Cardinality(Holding(k)') =
                       IF k = KeyOf[r] THEN Cardinality(Holding(k)) + 1
                                       ELSE Cardinality(Holding(k))
  OBVIOUS
<1>1. CASE k = KeyOf[r]
  <2>1. Holding(k)' = Holding(k) \cup {r} /\ r \notin Holding(k)
    BY <1>1 DEF Holding, Holds, Move, TypeOK
  <2>. QED BY <1>1, <2>1, HoldingFinite, FS_AddElement
<1>2. CASE k # KeyOf[r]
  <2>1. Holding(k)' = Holding(k)
    BY <1>2 DEF Holding, Holds, Move, TypeOK
  <2>. QED BY <1>2, <2>1
<1>. QED BY <1>1, <1>2

(* release: the request that gives its slot back is one holder less.         *)
LEMMA HoldingGivenBack ==
  ASSUME TypeOK, NEW r \in Requests, NEW from, NEW to, Move(r, from, to),
         Holds(from), ~ Holds(to)
  PROVE  /\ Cardinality(Holding(KeyOf[r])) > 0
         /\ \A k \in Callers :
               Cardinality(Holding(k)') =
                  IF k = KeyOf[r] THEN Cardinality(Holding(k)) - 1
                                  ELSE Cardinality(Holding(k))
<1>1. r \in Holding(KeyOf[r]) /\ KeyOf[r] \in Callers
  BY ChatEndpointAssumption DEF Holding, Holds, Move, TypeOK
<1>2. Cardinality(Holding(KeyOf[r])) > 0
  <2>1. Holding(KeyOf[r]) # {}
    BY <1>1
  <2>. QED BY <1>1, <2>1, HoldingFinite, FS_EmptySet
<1>3. ASSUME NEW k \in Callers
      PROVE  Cardinality(Holding(k)') =
               IF k = KeyOf[r] THEN Cardinality(Holding(k)) - 1
                               ELSE Cardinality(Holding(k))
  <2>1. CASE k = KeyOf[r]
    <3>1. Holding(k)' = Holding(k) \ {r} /\ r \in Holding(k)
      BY <2>1 DEF Holding, Holds, Move, TypeOK
    <3>. QED BY <2>1, <3>1, HoldingFinite, FS_RemoveElement
  <2>2. CASE k # KeyOf[r]
    <3>1. Holding(k)' = Holding(k)
      BY <2>2 DEF Holding, Holds, Move, TypeOK
    <3>. QED BY <2>2, <3>1
  <2>. QED BY <2>1, <2>2
<1>. QED BY <1>2, <1>3

-----------------------------------------------------------------------------
(* The count of a key is exactly the number of requests that took a slot    *)
(* and did not give it back, for any number of requests and any order of    *)
(* refusals, failures, disconnects and late finalisers.                     *)
THEOREM CountsExactHolds == Spec => []CountsExact
<1>. USE ChatEndpointAssumption
<1>1. Init => CountsExact
  <2>. SUFFICES ASSUME Init, NEW k \in Callers
                PROVE  counts[k] = IF Limit = 0 THEN 0 ELSE Cardinality(Holding(k))
    BY DEF CountsExact
  <2>1. Holding(k) = {}
    BY DEF Init, Holding, InFlight, Orphaned
  <2>. QED BY <2>1, FS_EmptySet DEF Init
<1>2. TypeOK /\ CountsExact /\ [Next]_vars => CountsExact'
  <2>. SUFFICES ASSUME TypeOK, CountsExact, [Next]_vars PROVE CountsExact'
    OBVIOUS
  <2>. USE DEF Holds, InFlight, Orphaned
  <2>1. ASSUME NEW r \in Requests, NEW from, NEW to, Move(r, from, to),
               Holds(from) <=> Holds(to), UNCHANGED counts
        PROVE  CountsExact'
    <3>1. \A k \in Callers : Holding(k)' = Holding(k)
      BY <2>1, HoldingSame
    <3>. QED BY <2>1, <3>1 DEF CountsExact
  <2>2. ASSUME NEW r \in Requests, NEW to, Move(r, "new", to), Holds(to),
               Acquire(KeyOf[r])
        PROVE  CountsExact'
    <3>1. \A k \in Callers :
             Cardinality(Holding(k)') =
                IF k = KeyOf[r] THEN Cardinality(Holding(k)) + 1
                                ELSE Cardinality(Holding(k))
      <4>1. ~ Holds("new")
        OBVIOUS
      <4>. QED BY <2>2, <4>1, HoldingTaken
    <3>2. CASE Limit = 0
      BY <2>2, <3>2 DEF Acquire, CountsExact
    <3>3. CASE Limit # 0
      BY <2>2, <3>1, <3>3 DEF Acquire, CountsExact, TypeOK
    <3>. QED BY <3>2, <3>3
  <2>3. ASSUME NEW r \in Requests, NEW from, Move(r, from, "closed"),
               Holds(from), Release(KeyOf[r])
        PROVE  CountsExact'
    <3>1. /\ Cardinality(Holding(KeyOf[r])) > 0
          /\ \A k \in Callers :
                Cardinality(Holding(k)') =
                   IF k = KeyOf[r] THEN Cardinality(Holding(k)) - 1
                                   ELSE Cardinality(Holding(k))
      <4>1. ~ Holds("closed")
        OBVIOUS
      <4>. QED BY <2>3, <4>1, HoldingGivenBack
    <3>2. CASE Limit = 0
      BY <2>3, <3>2 DEF Release, CountsExact
    <3>3. CASE Limit # 0
      <4>1. counts' = [counts EXCEPT ![KeyOf[r]] = @ - 1]
        BY <2>3, <3>1, <3>3 DEF Release, CountsExact
      <4>. QED BY <3>1, <3>3, <4>1 DEF CountsExact, TypeOK
    <3>. QED BY <3>2, <3>3
  <2>4. ASSUME NEW r \in Requests, Chat(r) PROVE CountsExact'
    <3>1. CASE Forbid(r)
      BY <2>1, <3>1 DEF Forbid
    <3>2. CASE RateLimited(r)
      BY <2>1, <3>2 DEF RateLimited
    <3>3. CASE TooMany(r)
      BY <2>1, <3>3 DEF TooMany, AcquireRefused
    <3>4. CASE AdminCheckRaises(r)
      BY <2>2, <3>4 DEF AdminCheckRaises
    <3>5. CASE Respond(r)
      BY <2>2, <3>5 DEF Respond
    <3>. QED BY <2>4, <3>1, <3>2, <3>3, <3>4, <3>5 DEF Chat
  <2>5. ASSUME NEW r \in Requests, ServeStream(r) PROVE CountsExact'
    <3>1. CASE StartBody(r)
      BY <2>1, <3>1 DEF StartBody
    <3>2. CASE HeadFails(r)
      BY <2>1, <3>2 DEF HeadFails
    <3>3. CASE YieldEvent(r)
      BY <2>1, <3>3 DEF YieldEvent
    <3>4. CASE Sent(r)
      BY <2>1, <3>4 DEF Sent
    <3>5. CASE LeaveTry(r)
      BY <2>3, <3>5 DEF LeaveTry
    <3>6. CASE Abandon(r)
      BY <2>1, <3>6 DEF Abandon
    <3>7. CASE Finalise(r)
      BY <2>3, <3>7 DEF Finalise
    <3>. QED BY <2>5, <3>1, <3>2, <3>3, <3>4, <3>5, <3>6, <3>7 DEF ServeStream
  <2>6. ASSUME NEW r \in Requests, Disconnect(r) PROVE CountsExact'
    BY <2>6 DEF Disconnect, CountsExact, Holding
  <2>7. CASE TimePasses
    BY <2>7 DEF TimePasses, CountsExact, Holding
  <2>8. CASE UNCHANGED vars
    BY <2>8 DEF vars, CountsExact, Holding
  <2>. QED BY <2>4, <2>5, <2>6, <2>7, <2>8 DEF Next
<1>. QED BY <1>1, <1>2, EndpointTypes, PTL DEF Spec

-----------------------------------------------------------------------------
(* What Acquire's guard keeps. *)
CountsBounded == Limit # 0 => \A k \in Callers : counts[k] <= Limit

(* acquire adds to no count at the limit, and nothing else adds.             *)
LEMMA CountsBoundedHolds == Spec => []CountsBounded
<1>. USE ChatEndpointAssumption
<1>1. Init => CountsBounded
  BY DEF Init, CountsBounded
<1>2. TypeOK /\ CountsBounded /\ [Next]_vars => CountsBounded'
  <2>. SUFFICES ASSUME TypeOK, CountsBounded, [Next]_vars, Limit # 0,
                       NEW k \in Callers
                PROVE  counts'[k] <= Limit
    BY DEF CountsBounded
  <2>1. CASE UNCHANGED counts
    BY <2>1 DEF CountsBounded
  <2>2. ASSUME NEW r \in Requests, Acquire(KeyOf[r]) PROVE counts'[k] <= Limit
    BY <2>2 DEF Acquire, CountsBounded, TypeOK
  <2>3. ASSUME NEW r \in Requests, Release(KeyOf[r]) PROVE counts'[k] <= Limit
    BY <2>3 DEF Release, CountsBounded, TypeOK
  <2>. QED BY <2>1, <2>2, <2>3
           DEF Next, vars, Chat, Forbid, RateLimited, TooMany, AcquireRefused,
               AdminCheckRaises, Respond, ServeStream, StartBody, HeadFails,
               YieldEvent, Sent, LeaveTry, Abandon, Finalise, Disconnect,
               TimePasses
<1>. QED BY <1>1, <1>2, EndpointTypes, PTL DEF Spec

(* Never more streams of one key in flight than the limit. *)
THEOREM CapHoldsAlways == Spec => []CapHolds
<1>1. CountsExact /\ CountsBounded /\ TypeOK => CapHolds
  <2>. SUFFICES ASSUME CountsExact, CountsBounded, TypeOK, Limit # 0,
                       NEW k \in Callers
                PROVE  Cardinality(Streams(k)) <= Limit
    BY DEF CapHolds
  <2>1. Cardinality(Holding(k)) <= Limit
    BY DEF CountsExact, CountsBounded
  <2>2. Streams(k) \in SUBSET Holding(k)
    BY DEF Streams, Holding
  <2>3. Cardinality(Streams(k)) <= Cardinality(Holding(k))
    BY <2>2, HoldingFinite, FS_Subset
  <2>4. Cardinality(Streams(k)) \in Nat
    BY <2>2, HoldingFinite, FS_Subset, FS_CardinalityType
  <2>. QED BY <2>1, <2>3, <2>4, HoldingFinite, ChatEndpointAssumption
<1>. QED BY <1>1, CountsExactHolds, CountsBoundedHolds, EndpointTypes, PTL

(* A request is turned away only while Limit requests of its own key hold a *)
(* slot, and never when the limit is off.                                   *)
THEOREM RefusedOnlyAtLimitAlways == Spec => RefusedOnlyAtLimit
<1>. DEFINE Justified ==
       \A r \in Requests :
          Refusal(r) => /\ Limit # 0
                        /\ Cardinality(Holding(KeyOf[r])) >= Limit
<1>1. TypeOK /\ CountsExact /\ [Next]_vars => [Justified]_vars
  <2>. SUFFICES ASSUME TypeOK, CountsExact, Next,
                       NEW r \in Requests, Refusal(r)
                PROVE  /\ Limit # 0
                       /\ Cardinality(Holding(KeyOf[r])) >= Limit
    OBVIOUS
  <2>1. TooMany(r)
    BY DEF Refusal, Next, Chat, Forbid, RateLimited, AdminCheckRaises, Respond,
           ServeStream, StartBody, HeadFails, YieldEvent, Sent, LeaveTry,
           Abandon, Finalise, Disconnect, TimePasses, Move, TypeOK, TooMany
  <2>. QED BY <2>1, ChatEndpointAssumption
           DEF TooMany, AcquireRefused, CountsExact
<1>. QED BY <1>1, CountsExactHolds, EndpointTypes, PTL
         DEF Spec, RefusedOnlyAtLimit
=============================================================================
