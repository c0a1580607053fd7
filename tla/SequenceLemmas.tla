-------------------------- MODULE SequenceLemmas ---------------------------
(* Lemmas on sequences that the proofs of the components rest on: what is     *)
(* picked from a sequence is what is at the places, once each and in their    *)
(* order; what a fold comes to, step by step; and rows put one after another. *)
EXTENDS Picking, SequencesExt, FiniteSetTheorems, SequenceTheorems, TLAPS

(* How many of the places are no later than i. *)
Rank(places, i) == Cardinality({j \in places : j <= i})

(* A place's rank is one of the ranks there are.                              *)
LEMMA RankType ==
  ASSUME NEW P \in SUBSET Nat, IsFiniteSet(P), NEW i \in P
  PROVE  Rank(P, i) \in 1 .. Cardinality(P)
<1>. DEFINE upto == {j \in P : j <= i}
<1>1. IsFiniteSet(upto) /\ Cardinality(upto) <= Cardinality(P)
  BY FS_Subset
<1>2. Cardinality(P) \in Nat /\ Cardinality(upto) \in Nat
  BY <1>1, FS_CardinalityType
<1>3. Cardinality(upto) # 0
  BY <1>1, FS_EmptySet
<1>. QED BY <1>1, <1>2, <1>3 DEF Rank

(* A later place has a greater rank.                                          *)
LEMMA RankGrows ==
  ASSUME NEW P \in SUBSET Nat, IsFiniteSet(P), NEW i \in P, NEW j \in P, i < j
  PROVE  Rank(P, i) < Rank(P, j)
<1>. DEFINE S == {m \in P : m <= i}
            T == {m \in P : m <= j}
<1>1. IsFiniteSet(T)
  BY FS_Subset
<1>2. S \subseteq T /\ j \in T /\ j \notin S
  <2>1. ASSUME NEW m \in P, m <= i PROVE m <= j
    BY <2>1, m \in Nat, i \in Nat, j \in Nat
  <2>2. S \subseteq T
    BY ONLY <2>1
  <2>3. j <= j /\ ~ (j <= i)
    BY i \in Nat, j \in Nat
  <2>. QED BY ONLY <2>2, <2>3, j \in P
<1>3. Rank(P, i) = Cardinality(S) /\ Rank(P, j) = Cardinality(T)
  BY DEF Rank
<1>. HIDE DEF S, T
<1>4. /\ IsFiniteSet(S) /\ Cardinality(S) <= Cardinality(T)
      /\ Cardinality(S) # Cardinality(T)
  BY <1>1, <1>2, FS_Subset
<1>5. Cardinality(S) \in Nat /\ Cardinality(T) \in Nat
  BY <1>1, <1>4, FS_CardinalityType
<1>. QED BY <1>3, <1>4, <1>5

(* Every rank from one on has its place. *)
LEMMA RankOnto ==
  ASSUME NEW P \in SUBSET Nat, IsFiniteSet(P), NEW k \in 1 .. Cardinality(P)
  PROVE  \E i \in P : Rank(P, i) = k
<1>. DEFINE n == Cardinality(P)
            f == [i \in P |-> Rank(P, i)]
<1>1. n \in Nat
  BY FS_CardinalityType
<1>2. f \in [P -> 1 .. n]
  BY RankType
<1>3. \A i, j \in P : f[i] = f[j] => i = j
  <2>. SUFFICES ASSUME NEW i \in P, NEW j \in P, i # j PROVE f[i] # f[j]
    OBVIOUS
  <2>1. i \in Nat /\ j \in Nat /\ (i < j \/ j < i)
    OBVIOUS
  <2>2. Rank(P, i) \in Nat /\ Rank(P, j) \in Nat
    BY RankType, <1>1
  <2>. QED BY <2>1, <2>2, RankGrows
<1>4. IsFiniteSet(1 .. n) /\ Cardinality(1 .. n) = n
  BY <1>1, FS_Interval
<1>5. \A l \in 1 .. n : (\E i \in P : f[i] = l) => \E i \in P : Rank(P, i) = l
  OBVIOUS
<1>. HIDE DEF f
<1>6. f \in Injection(P, 1 .. n)
  BY <1>2, <1>3 DEF Injection, IsInjective
<1>7. f \in Surjection(P, 1 .. n)
  BY <1>4, <1>6, FS_Injection
<1>. QED BY <1>5, <1>7 DEF Surjection

(* The k-th place, for every k there is. *)
THEOREM NthProperties ==
  ASSUME NEW P \in SUBSET Nat, IsFiniteSet(P)
  PROVE  /\ \A k \in 1 .. Cardinality(P) : Nth(P, k) \in P
         /\ \A k \in 1 .. Cardinality(P) : Rank(P, Nth(P, k)) = k
         /\ \A i \in P : Nth(P, Rank(P, i)) = i
         /\ \A k, l \in 1 .. Cardinality(P) : k < l => Nth(P, k) < Nth(P, l)
<1>1. ASSUME NEW k \in 1 .. Cardinality(P)
      PROVE  Nth(P, k) \in P /\ Rank(P, Nth(P, k)) = k
  BY RankOnto DEF Nth, Rank
<1>2. ASSUME NEW i \in P, NEW j \in P, Rank(P, i) = Rank(P, j) PROVE i = j
  <2>1. i \in Nat /\ j \in Nat /\ Rank(P, i) \in Nat /\ Rank(P, j) \in Nat
    BY RankType, FS_CardinalityType
  <2>. QED BY <1>2, <2>1, RankGrows
<1>3. ASSUME NEW i \in P PROVE Nth(P, Rank(P, i)) = i
  BY <1>1, <1>2, RankType
<1>4. ASSUME NEW k \in 1 .. Cardinality(P), NEW l \in 1 .. Cardinality(P), k < l
      PROVE  Nth(P, k) < Nth(P, l)
  <2>1. /\ Nth(P, k) \in P /\ Nth(P, l) \in P
        /\ Rank(P, Nth(P, k)) = k /\ Rank(P, Nth(P, l)) = l
    BY <1>1
  <2>2. k \in Nat /\ l \in Nat /\ Nth(P, k) \in Nat /\ Nth(P, l) \in Nat
    <3>1. Cardinality(P) \in Nat
      BY FS_CardinalityType
    <3>2. Nth(P, k) \in Nat /\ Nth(P, l) \in Nat
      BY <2>1
    <3>. QED BY <3>1, <3>2
  <2>3. ~ (Nth(P, l) < Nth(P, k)) /\ Nth(P, k) # Nth(P, l)
    BY <1>4, <2>1, <2>2, RankGrows
  <2>. QED BY <2>2, <2>3
<1>. QED BY <1>1, <1>3, <1>4

-----------------------------------------------------------------------------
(* Places in a sequence are finitely many numbers.                            *)
LEMMA PlacesFinite ==
  ASSUME NEW X, NEW seq \in Seq(X), NEW P \in SUBSET DOMAIN seq
  PROVE  P \in SUBSET Nat /\ IsFiniteSet(P) /\ Cardinality(P) \in Nat
<1>1. DOMAIN seq = 1 .. Len(seq) /\ Len(seq) \in Nat
  BY LenProperties
<1>2. IsFiniteSet(1 .. Len(seq))
  BY <1>1, FS_Interval
<1>3. IsFiniteSet(P)
  BY <1>1, <1>2, FS_Subset
<1>. QED BY <1>1, <1>3, FS_CardinalityType

(* What is picked: as many elements as places, each from its place.           *)
THEOREM PickedProperties ==
  ASSUME NEW X, NEW seq \in Seq(X), NEW P \in SUBSET DOMAIN seq
  PROVE  /\ Picked(seq, P) \in Seq(X)
         /\ Len(Picked(seq, P)) = Cardinality(P)
         /\ DOMAIN Picked(seq, P) = 1 .. Cardinality(P)
         /\ \A k \in 1 .. Cardinality(P) :
               Nth(P, k) \in P /\ Picked(seq, P)[k] = seq[Nth(P, k)]
<1>1. P \in SUBSET Nat /\ IsFiniteSet(P) /\ Cardinality(P) \in Nat
  BY PlacesFinite
<1>2. \A k \in 1 .. Cardinality(P) : Nth(P, k) \in P
  BY <1>1, NthProperties
<1>3. \A i \in P : seq[i] \in X
  BY ElementOfSeq, LenProperties
<1>. DEFINE n == Cardinality(P)
<1>. HIDE DEF n
<1>4. n \in Nat /\ \A k \in 1 .. n : Nth(P, k) \in P
  BY <1>1, <1>2 DEF n
<1>5. Picked(seq, P) = [k \in 1 .. n |-> seq[Nth(P, k)]]
  BY DEF Picked, n
<1>6. [k \in 1 .. n |-> seq[Nth(P, k)]] \in Seq(X)
  BY <1>3, <1>4, IsASeq
<1>. QED BY <1>4, <1>5, <1>6, LenProperties DEF n

(* What is picked from a sequence with no element twice has none twice.       *)
LEMMA PickedInjective ==
  ASSUME NEW X, NEW seq \in Seq(X), NEW P \in SUBSET DOMAIN seq, IsInjective(seq)
  PROVE  IsInjective(Picked(seq, P))
<1>. DEFINE n == Cardinality(P)
            w == Picked(seq, P)
<1>1. IsFiniteSet(P) /\ n \in Nat /\ P \in SUBSET Nat /\ \A i \in P : i \in Nat
  BY PlacesFinite
<1>2. DOMAIN w = 1 .. n /\ \A k \in 1 .. n : Nth(P, k) \in P /\ w[k] = seq[Nth(P, k)]
  BY PickedProperties
<1>3. \A k, l \in 1 .. n : k < l => Nth(P, k) < Nth(P, l)
  BY <1>1, NthProperties
<1>. HIDE DEF w, n
<1>4. ASSUME NEW k \in 1 .. n, NEW l \in 1 .. n, w[k] = w[l] PROVE k = l
  <2>1. Nth(P, k) = Nth(P, l)
    BY <1>2, <1>4 DEF IsInjective
  <2>2. Nth(P, k) \in Nat /\ Nth(P, l) \in Nat
    BY <1>1, <1>2
  <2>3. ~ (k < l) /\ ~ (l < k)
    BY <1>3, <2>1, <2>2
  <2>. QED BY <1>1, <2>3
<1>5. IsInjective(w)
  BY <1>2, <1>4 DEF IsInjective
<1>. QED BY <1>5 DEF w

(* No element of a sequence without some is one of those, the others stay,    *)
(* and what stood before one of them and stays still stands before it.        *)
THEOREM WithoutProperties ==
  ASSUME NEW X, NEW seq \in Seq(X), NEW lost
  PROVE  /\ Without(seq, lost) \in Seq(X)
         /\ ToSet(Without(seq, lost)) = ToSet(seq) \ lost
         /\ \A l \in DOMAIN Without(seq, lost) :
              \E i \in DOMAIN seq :
                 /\ Without(seq, lost)[l] = seq[i]
                 /\ \A j \in 1 .. i - 1 : seq[j] \notin lost =>
                       \E k \in 1 .. l - 1 : Without(seq, lost)[k] = seq[j]
<1>. DEFINE P == {i \in DOMAIN seq : seq[i] \notin lost}
            w == Picked(seq, P)
            n == Cardinality(P)
<1>1. Without(seq, lost) = w
  BY DEF Without
<1>2. P \in SUBSET DOMAIN seq /\ \A i \in DOMAIN seq : i \in P <=> seq[i] \notin lost
  OBVIOUS
<1>. HIDE DEF P
<1>3. IsFiniteSet(P) /\ n \in Nat /\ P \in SUBSET Nat /\ \A i \in P : i \in Nat
  BY <1>2, PlacesFinite
<1>4. /\ w \in Seq(X) /\ DOMAIN w = 1 .. n
      /\ \A k \in 1 .. n : Nth(P, k) \in P /\ w[k] = seq[Nth(P, k)]
  BY <1>2, PickedProperties
<1>5. /\ \A i \in P : Rank(P, i) \in 1 .. n /\ Nth(P, Rank(P, i)) = i
      /\ \A k \in 1 .. n : Rank(P, Nth(P, k)) = k
  BY <1>3, RankType, NthProperties
<1>6. \A i, j \in P : i < j => Rank(P, i) < Rank(P, j)
  BY <1>3, RankGrows
<1>. HIDE DEF w, n
<1>7. ToSet(w) = ToSet(seq) \ lost
  BY <1>2, <1>4, <1>5 DEF ToSet
<1>8. DOMAIN seq = 1 .. Len(seq) /\ Len(seq) \in Nat
  BY LenProperties
<1>9. ASSUME NEW l \in DOMAIN w
      PROVE  \E i \in DOMAIN seq :
                 /\ w[l] = seq[i]
                 /\ \A j \in 1 .. i - 1 : seq[j] \notin lost =>
                       \E k \in 1 .. l - 1 : w[k] = seq[j]
  <2>. DEFINE i == Nth(P, l)
  <2>1. l \in 1 .. n /\ i \in P /\ i \in DOMAIN seq /\ w[l] = seq[i] /\ Rank(P, i) = l
    BY <1>2, <1>4, <1>5, <1>9
  <2>. HIDE DEF i
  <2>2. ASSUME NEW j \in 1 .. i - 1, seq[j] \notin lost
        PROVE  \E k \in 1 .. l - 1 : w[k] = seq[j]
    <3>1. j \in DOMAIN seq /\ j < i
      BY <1>8, <2>1
    <3>2. j \in P
      BY <1>2, <2>2, <3>1
    <3>3. Rank(P, j) < l /\ Rank(P, j) \in 1 .. n /\ Nth(P, Rank(P, j)) = j
      BY <1>5, <1>6, <2>1, <3>1, <3>2
    <3>4. Rank(P, j) \in 1 .. l - 1 /\ w[Rank(P, j)] = seq[j]
      BY <1>3, <1>4, <2>1, <3>3
    <3>. QED BY <3>4
  <2>. QED BY <2>1, <2>2
<1>. QED BY <1>1, <1>4, <1>7, <1>9

(* All of a row's places, in their order, are the row itself.                 *)
LEMMA NthOfAll ==
  ASSUME NEW n \in Nat, NEW k \in 1 .. n
  PROVE  Nth(1 .. n, k) = k
<1>. DEFINE P == 1 .. n
<1>1. P \in SUBSET Nat /\ IsFiniteSet(P) /\ Cardinality(P) = n
  BY FS_Interval
<1>2. {j \in 1 .. n : j <= k} = 1 .. k
  OBVIOUS
<1>3. Cardinality(1 .. k) = k
  BY FS_Interval
<1>4. Rank(P, k) = k
  BY <1>2, <1>3 DEF Rank
<1>. QED BY <1>1, <1>4, NthProperties

(* A sequence without what is not in it is the same sequence.                 *)
THEOREM WithoutNothing ==
  ASSUME NEW X, NEW seq \in Seq(X), NEW lost, lost \cap ToSet(seq) = {}
  PROVE  Without(seq, lost) = seq
<1>. DEFINE n == Len(seq)
            w == Without(seq, lost)
<1>1. DOMAIN seq = 1 .. n /\ n \in Nat
  BY LenProperties
<1>2. {i \in DOMAIN seq : seq[i] \notin lost} = 1 .. n
  BY <1>1 DEF ToSet
<1>3. Cardinality(1 .. n) = n
  BY <1>1, FS_Interval
<1>. HIDE DEF n
<1>4. w = [k \in 1 .. n |-> seq[Nth(1 .. n, k)]]
  BY <1>2, <1>3 DEF Without, Picked
<1>5. w = [k \in 1 .. n |-> seq[k]]
  BY <1>1, <1>4, NthOfAll
<1>6. w \in Seq(X)
  BY WithoutProperties
<1>. HIDE DEF w
<1>7. DOMAIN w = 1 .. n /\ \A k \in 1 .. n : w[k] = seq[k]
  BY <1>5
<1>8. Len(w) = n /\ Len(seq) = n
  BY <1>1, <1>6, <1>7, LenProperties DEF n
<1>9. w = seq
  BY <1>6, <1>7, <1>8, SeqEqual
<1>. QED BY <1>9 DEF w

(* One more element at the end. *)
LEMMA AppendedElement ==
  ASSUME NEW X, NEW seq \in Seq(X), NEW x \in X
  PROVE  /\ Append(seq, x) \in Seq(X)
         /\ ToSet(Append(seq, x)) = ToSet(seq) \cup {x}
         /\ \A i \in DOMAIN seq : i \in DOMAIN Append(seq, x) /\ Append(seq, x)[i] = seq[i]
         /\ \A i \in DOMAIN Append(seq, x) :
               i \notin DOMAIN seq => i = Len(seq) + 1 /\ Append(seq, x)[i] = x
<1>. DEFINE n == Len(seq)
            s == Append(seq, x)
<1>1. /\ s \in Seq(X) /\ Len(s) = n + 1 /\ s[n + 1] = x
      /\ \A i \in 1 .. n : s[i] = seq[i]
      /\ n \in Nat /\ DOMAIN seq = 1 .. n
  BY AppendProperties, LenProperties
<1>2. DOMAIN s = 1 .. n + 1
  BY <1>1, LenProperties
<1>. HIDE DEF s, n
<1>3. \A i \in 1 .. n + 1 : i \in 1 .. n \/ i = n + 1
  BY <1>1
<1>4. n + 1 \in 1 .. n + 1 /\ \A i \in 1 .. n : i \in 1 .. n + 1
  BY <1>1
<1>5. ToSet(s) = ToSet(seq) \cup {x}
  BY <1>1, <1>2, <1>3, <1>4 DEF ToSet
<1>6. \A i \in DOMAIN s : i \notin DOMAIN seq => i = n + 1 /\ s[i] = x
  BY <1>1, <1>2, <1>3
<1>. QED BY <1>1, <1>2, <1>4, <1>5, <1>6 DEF s, n

(* Where the elements of two rows, one after the other, are.                  *)
LEMMA ConcatElements ==
  ASSUME NEW X, NEW s \in Seq(X), NEW t \in Seq(X)
  PROVE  /\ s \o t \in Seq(X)
         /\ \A i \in DOMAIN s : i \in DOMAIN (s \o t) /\ (s \o t)[i] = s[i]
         /\ \A j \in DOMAIN t : /\ Len(s) + j \in DOMAIN (s \o t)
                                /\ (s \o t)[Len(s) + j] = t[j]
         /\ \A k \in DOMAIN (s \o t) :
               k \in DOMAIN s \/ \E j \in DOMAIN t : k = Len(s) + j
         /\ ToSet(s \o t) = ToSet(s) \cup ToSet(t)
<1>. DEFINE u == s \o t
            a == Len(s)
            b == Len(t)
<1>1. /\ u \in Seq(X) /\ Len(u) = a + b
      /\ \A i \in 1 .. a + b : u[i] = IF i <= a THEN s[i] ELSE t[i - a]
  BY ConcatProperties
<1>2. /\ a \in Nat /\ b \in Nat /\ DOMAIN s = 1 .. a /\ DOMAIN t = 1 .. b
      /\ DOMAIN u = 1 .. a + b
  BY <1>1, LenProperties
<1>. HIDE DEF u, a, b
<1>3. \A i \in 1 .. a : i \in 1 .. a + b /\ u[i] = s[i]
  BY <1>1, <1>2
<1>4. ASSUME NEW j \in 1 .. b PROVE a + j \in 1 .. a + b /\ u[a + j] = t[j]
  <2>1. a + j \in 1 .. a + b /\ ~ (a + j <= a) /\ (a + j) - a = j
    BY <1>2
  <2>. QED BY <1>1, <2>1
<1>5. ASSUME NEW k \in 1 .. a + b PROVE k \in 1 .. a \/ \E j \in 1 .. b : k = a + j
  <2>1. ~ (k <= a) => k - a \in 1 .. b /\ k = a + (k - a)
    BY <1>2
  <2>. QED BY <1>2, <2>1
<1>6. ToSet(u) = ToSet(s) \cup ToSet(t)
  <2>1. ASSUME NEW x \in ToSet(u) PROVE x \in ToSet(s) \cup ToSet(t)
    <3>1. PICK k \in 1 .. a + b : x = u[k]
      BY <1>2, <2>1 DEF ToSet
    <3>2. CASE k \in 1 .. a
      BY <1>2, <1>3, <3>1, <3>2 DEF ToSet
    <3>3. CASE k \notin 1 .. a
      BY <1>2, <1>4, <1>5, <3>1, <3>3 DEF ToSet
    <3>. QED BY <3>2, <3>3
  <2>2. ToSet(s) \subseteq ToSet(u)
    BY <1>2, <1>3 DEF ToSet
  <2>3. ToSet(t) \subseteq ToSet(u)
    BY <1>2, <1>4 DEF ToSet
  <2>. QED BY <2>1, <2>2, <2>3
<1>. QED BY <1>1, <1>2, <1>3, <1>4, <1>5, <1>6 DEF u, a, b

(* If Q is what an increasing f makes of P, the k-th of Q is what it makes of *)
(* the k-th of P.                                                             *)
LEMMA NthOfImage ==
  ASSUME NEW P \in SUBSET Nat, IsFiniteSet(P), NEW Q \in SUBSET Nat,
         NEW f \in [P -> Q],
         \A i, j \in P : i < j => f[i] < f[j],
         \A q \in Q : \E i \in P : f[i] = q
  PROVE  /\ IsFiniteSet(Q) /\ Cardinality(Q) = Cardinality(P)
         /\ \A k \in 1 .. Cardinality(P) : Nth(Q, k) = f[Nth(P, k)]
<1>1. \A i, j \in P : f[i] = f[j] => i = j
  <2>1. ASSUME NEW i \in P, NEW j \in P, f[i] = f[j] PROVE i = j
    <3>1. f[i] \in Nat /\ f[j] \in Nat /\ i \in Nat /\ j \in Nat
      OBVIOUS
    <3>2. ~ (i < j) /\ ~ (j < i)
      BY <2>1, <3>1
    <3>. QED BY <3>1, <3>2
  <2>. QED BY <2>1
<1>2. ASSUME NEW A \in SUBSET P, NEW B \in SUBSET Q,
             \A i \in A : f[i] \in B, \A q \in B : \E i \in A : f[i] = q
      PROVE  IsFiniteSet(B) /\ Cardinality(B) = Cardinality(A)
  <2>. DEFINE g == [i \in A |-> f[i]]
  <2>1. IsFiniteSet(A)
    BY FS_Subset
  <2>2. g \in [A -> B] /\ IsInjective(g) /\ \A q \in B : \E i \in A : g[i] = q
    BY <1>1, <1>2 DEF IsInjective
  <2>3. g \in Bijection(A, B)
    BY <2>2 DEF Bijection, Injection, Surjection
  <2>4. ExistsBijection(A, B)
    BY <2>3 DEF ExistsBijection
  <2>. QED BY <2>1, <2>4, FS_Bijection
<1>3. IsFiniteSet(Q) /\ Cardinality(Q) = Cardinality(P)
  BY <1>2
<1>4. ASSUME NEW i \in P PROVE Rank(Q, f[i]) = Rank(P, i)
  <2>. DEFINE A == {j \in P : j <= i}
              B == {q \in Q : q <= f[i]}
  <2>1. ASSUME NEW j \in A PROVE f[j] \in B
    <3>1. j \in P /\ j \in Nat /\ i \in Nat /\ f[i] \in Nat /\ f[j] \in Nat
      OBVIOUS
    <3>2. j = i \/ f[j] < f[i]
      BY <3>1
    <3>. QED BY <3>1, <3>2
  <2>2. ASSUME NEW q \in B PROVE \E j \in A : f[j] = q
    <3>1. PICK j \in P : f[j] = q
      OBVIOUS
    <3>2. f[j] <= f[i] /\ (i < j => f[i] < f[j])
      BY <3>1
    <3>3. j \in Nat /\ i \in Nat /\ f[i] \in Nat /\ f[j] \in Nat
      OBVIOUS
    <3>4. j <= i
      BY <3>2, <3>3
    <3>. QED BY <3>1, <3>4
  <2>3. A \in SUBSET P /\ B \in SUBSET Q
    OBVIOUS
  <2>4. Rank(P, i) = Cardinality(A) /\ Rank(Q, f[i]) = Cardinality(B)
    BY DEF Rank
  <2>. HIDE DEF A, B
  <2>. QED BY <1>2, <2>1, <2>2, <2>3, <2>4
<1>5. ASSUME NEW k \in 1 .. Cardinality(P) PROVE Nth(Q, k) = f[Nth(P, k)]
  <2>1. Nth(P, k) \in P /\ Rank(P, Nth(P, k)) = k
    BY NthProperties
  <2>2. f[Nth(P, k)] \in Q /\ Rank(Q, f[Nth(P, k)]) = k
    BY <1>4, <2>1
  <2>3. \A q \in Q : Nth(Q, Rank(Q, q)) = q
    BY <1>3, NthProperties
  <2>. QED BY <2>2, <2>3
<1>. QED BY <1>3, <1>5

-----------------------------------------------------------------------------
(* Induction up to n, over the set of numbers for which something holds.      *)
LEMMA UpTo ==
  ASSUME NEW n \in Nat, NEW T, 0 \in T, \A k \in 1 .. n : k - 1 \in T => k \in T
  PROVE  n \in T /\ \A k \in 0 .. n : k \in T
<1>. DEFINE S == {k \in 0 .. n : k \notin T}
            m == Nth(S, 1)
<1>. SUFFICES ASSUME S # {} PROVE FALSE
  <2>1. n \in 0 .. n
    OBVIOUS
  <2>. QED BY <2>1
<1>1. S \in SUBSET Nat /\ IsFiniteSet(S)
  <2>1. IsFiniteSet(0 .. n)
    BY FS_Interval
  <2>. QED BY <2>1, FS_Subset
<1>2. Cardinality(S) \in Nat /\ Cardinality(S) # 0
  BY <1>1, FS_CardinalityType, FS_EmptySet
<1>3. m \in S /\ Rank(S, m) = 1
  BY <1>1, <1>2, NthProperties
<1>4. ASSUME NEW j \in S PROVE ~ (j < m)
  <2>1. j < m => Rank(S, j) < 1
    BY <1>1, <1>3, RankGrows
  <2>2. Rank(S, j) \in 1 .. Cardinality(S)
    BY <1>1, RankType
  <2>. QED BY <1>2, <2>1, <2>2
<1>5. m \in 1 .. n /\ m - 1 \in 0 .. n /\ m - 1 < m
  BY <1>3
<1>6. m - 1 \in T
  BY <1>4, <1>5
<1>. QED BY <1>3, <1>5, <1>6

(* The greatest of a set of numbers. *)
LEMMA MaxProperties ==
  ASSUME NEW n \in Nat, NEW S \in SUBSET (1 .. n), S # {}
  PROVE  Max(S) \in S /\ \A i \in S : i <= Max(S)
<1>. DEFINE c == Cardinality(S)
            m == Nth(S, c)
<1>1. S \in SUBSET Nat /\ IsFiniteSet(S)
  <2>1. IsFiniteSet(1 .. n)
    BY FS_Interval
  <2>2. IsFiniteSet(S)
    BY <2>1, FS_Subset
  <2>. QED BY <2>2
<1>2. c \in Nat /\ c # 0
  BY <1>1, FS_CardinalityType, FS_EmptySet
<1>3. m \in S /\ Rank(S, m) = c
  BY <1>1, <1>2, NthProperties
<1>4. ASSUME NEW i \in S PROVE m >= i
  <2>1. m < i => c < Rank(S, i)
    BY <1>1, <1>3, RankGrows
  <2>2. Rank(S, i) \in 1 .. c
    BY <1>1, RankType
  <2>3. m \in Nat /\ i \in Nat
    BY <1>1, <1>3
  <2>. HIDE DEF m, c
  <2>. QED BY <1>2, <2>1, <2>2, <2>3
<1>5. Max(S) \in S /\ \A i \in S : Max(S) >= i
  BY <1>3, <1>4 DEF Max
<1>. QED BY <1>5

(* The greatest of the first k places, and what is left without it.           *)
LEMMA MaxUpTo ==
  ASSUME NEW n \in Nat, NEW k \in 1 .. n
  PROVE  Max(1 .. k) = k /\ (1 .. k) \ {k} = 1 .. k - 1
<1>1. k \in Nat /\ k \in 1 .. k /\ 1 .. k # {} /\ 1 .. k \in SUBSET (1 .. k)
  OBVIOUS
<1>2. Max(1 .. k) \in 1 .. k /\ k <= Max(1 .. k)
  BY <1>1, MaxProperties
<1>. QED BY <1>2

-----------------------------------------------------------------------------
(* Folds.  FoldLeft is a function on the subsets of the domain, defined by    *)
(* taking away the greatest place; F is what is done at a place.              *)

IsFold(h, F, base, n, V) ==
    /\ h[{}] = base
    /\ \A S \in SUBSET (1 .. n) : S # {} /\ h[S \ {Max(S)}] \in V =>
          h[S] = F[<<h[S \ {Max(S)}], Max(S)>>]

(* From base, what is done at one place after the other comes to end.         *)
RunsTo(F, base, n, V, end) ==
    \E st \in [0 .. n -> V] :
        /\ st[0] = base /\ st[n] = end
        /\ \A k \in 1 .. n : st[k] = F[<<st[k - 1], k>>]

(* There is such a function, and its values are in V.                         *)
LEMMA FoldExists ==
  ASSUME NEW n \in Nat, NEW V, NEW base \in V, NEW F \in [V \X (1 .. n) -> V]
  PROVE  \E h \in [SUBSET (1 .. n) -> V] : IsFold(h, F, base, n, V)
<1>. DEFINE Fits(h, k) == \A S \in SUBSET (1 .. k) :
                h[S] = IF S = {} THEN base ELSE F[<<h[S \ {Max(S)}], Max(S)>>]
            T == {k \in 0 .. n : \E h \in [SUBSET (1 .. k) -> V] : Fits(h, k)}
<1>1. 0 \in T
  <2>. DEFINE h == [S \in SUBSET (1 .. 0) |-> base]
  <2>1. 1 .. 0 = {}
    OBVIOUS
  <2>2. h \in [SUBSET (1 .. 0) -> V] /\ Fits(h, 0)
    BY <2>1
  <2>3. 0 \in 0 .. n
    OBVIOUS
  <2>. HIDE DEF h, Fits
  <2>. QED BY <2>2, <2>3
<1>2. ASSUME NEW k \in 1 .. n, k - 1 \in T PROVE k \in T
  <2>1. PICK h \in [SUBSET (1 .. k - 1) -> V] : Fits(h, k - 1)
    BY <1>2
  <2>. DEFINE g == [S \in SUBSET (1 .. k) |->
                       IF k \in S THEN F[<<h[S \ {k}], k>>] ELSE h[S]]
  <2>2. ASSUME NEW S \in SUBSET (1 .. k)
        PROVE  g[S] \in V /\ g[S] = IF S = {} THEN base
                                     ELSE F[<<g[S \ {Max(S)}], Max(S)>>]
    <3>1. CASE k \in S
      <4>1. Max(S) = k
        <5>1. k \in Nat /\ S # {}
          BY <3>1
        <5>2. Max(S) \in S /\ k <= Max(S)
          BY <3>1, <5>1, MaxProperties
        <5>3. Max(S) \in 1 .. k
          BY <5>2
        <5>. QED BY <5>2, <5>3
      <4>2. S \ {k} \in SUBSET (1 .. k - 1) /\ S \ {k} \in SUBSET (1 .. k)
        OBVIOUS
      <4>3. g[S \ {k}] = h[S \ {k}]
        BY <4>2
      <4>4. h[S \ {k}] \in V
        BY <4>2
      <4>. QED BY <3>1, <4>1, <4>3, <4>4
    <3>2. CASE k \notin S
      <4>1. S \in SUBSET (1 .. k - 1)
        BY <3>2
      <4>2. g[S] = h[S] /\ h[S] \in V
        BY <3>2, <4>1
      <4>3. CASE S = {}
        BY <2>1, <4>1, <4>2, <4>3
      <4>4. CASE S # {}
        <5>1. Max(S) \in S
          <6>. HIDE DEF g, Fits
          <6>1. k \in Nat
            OBVIOUS
          <6>. QED BY <4>4, <6>1, MaxProperties
        <5>2. S \ {Max(S)} \in SUBSET (1 .. k - 1) /\ S \ {Max(S)} \in SUBSET (1 .. k)
          BY <4>1
        <5>3. g[S \ {Max(S)}] = h[S \ {Max(S)}]
          BY <3>2, <5>2
        <5>. QED BY <2>1, <4>1, <4>2, <4>4, <5>3
      <4>. QED BY <4>3, <4>4
    <3>. QED BY <3>1, <3>2
  <2>3. g \in [SUBSET (1 .. k) -> V]
    BY <2>2
  <2>4. Fits(g, k)
    BY <2>2
  <2>. HIDE DEF g, Fits
  <2>. QED BY <2>3, <2>4
<1>. HIDE DEF T
<1>3. n \in T
  BY <1>1, <1>2, UpTo
<1>. QED BY <1>3 DEF T, IsFold

(* What such a function is for the first places, one after the other.         *)
LEMMA FoldSteps ==
  ASSUME NEW n \in Nat, NEW V, NEW base \in V, NEW F \in [V \X (1 .. n) -> V],
         NEW h, IsFold(h, F, base, n, V)
  PROVE  RunsTo(F, base, n, V, h[1 .. n])
<1>. DEFINE T == {k \in 0 .. n : h[1 .. k] \in V}
            st == [k \in 0 .. n |-> h[1 .. k]]
<1>1. h[1 .. 0] = base
  <2>1. 1 .. 0 = {}
    OBVIOUS
  <2>. QED BY <2>1 DEF IsFold
<1>2. ASSUME NEW k \in 1 .. n, h[1 .. k - 1] \in V
      PROVE  h[1 .. k] = F[<<h[1 .. k - 1], k>>]
  <2>1. Max(1 .. k) = k /\ (1 .. k) \ {k} = 1 .. k - 1
    BY MaxUpTo
  <2>2. 1 .. k \in SUBSET (1 .. n) /\ 1 .. k # {}
    OBVIOUS
  <2>. QED BY <1>2, <2>1, <2>2 DEF IsFold
<1>3. 0 \in T
  BY <1>1
<1>4. ASSUME NEW k \in 1 .. n, k - 1 \in T PROVE k \in T
  <2>1. h[1 .. k - 1] \in V /\ k \in 0 .. n
    BY <1>4
  <2>2. h[1 .. k] \in V
    BY <1>2, <2>1
  <2>. QED BY <2>1, <2>2
<1>. HIDE DEF T
<1>5. \A k \in 0 .. n : h[1 .. k] \in V
  <2>1. \A k \in 0 .. n : k \in T
    BY <1>3, <1>4, UpTo
  <2>. QED BY <2>1 DEF T
<1>6. st \in [0 .. n -> V] /\ st[0] = base /\ st[n] = h[1 .. n]
  BY <1>1, <1>5
<1>7. \A k \in 1 .. n : st[k] = F[<<st[k - 1], k>>]
  BY <1>2, <1>5
<1>. HIDE DEF st
<1>. QED BY <1>6, <1>7 DEF RunsTo

-----------------------------------------------------------------------------
(* The recursion of FlattenSeq, written out. *)
Flattened(seqs) ==
    CHOOSE f : f = [i \in 1 .. Len(seqs) |->
                       IF i = 1 THEN seqs[i] ELSE f[i - 1] \o seqs[i]]

(* It is the library's.                                                       *)
LEMMA FlattenRecurs ==
  \A seqs : FlattenSeq(seqs) = IF Len(seqs) = 0 THEN seqs
                               ELSE Flattened(seqs)[Len(seqs)]
BY DEF FlattenSeq, Flattened

(* One row after the other. *)
LEMMA FlattenSteps ==
  ASSUME NEW X, NEW seqs \in Seq(Seq(X))
  PROVE  \E f \in [0 .. Len(seqs) -> Seq(X)] :
            /\ f[0] = <<>>
            /\ \A k \in 1 .. Len(seqs) : f[k] = f[k - 1] \o seqs[k]
            /\ FlattenSeq(seqs) = f[Len(seqs)]
<1>. DEFINE n == Len(seqs)
            G(g, k) == g = [i \in 1 .. k |-> IF i = 1 THEN seqs[i] ELSE g[i - 1] \o seqs[i]]
            T == {k \in 0 .. n : \E g \in [1 .. k -> Seq(X)] : G(g, k)}
            h == Flattened(seqs)
<1>1. n \in Nat /\ DOMAIN seqs = 1 .. n /\ \A k \in 1 .. n : seqs[k] \in Seq(X)
  BY LenProperties, ElementOfSeq
<1>. HIDE DEF n
<1>2. 0 \in T
  <2>. DEFINE g == [i \in 1 .. 0 |-> <<>>]
  <2>1. g \in [1 .. 0 -> Seq(X)] /\ G(g, 0)
    OBVIOUS
  <2>2. 0 \in 0 .. n
    BY <1>1
  <2>. HIDE DEF g, G
  <2>. QED BY <2>1, <2>2
<1>3. ASSUME NEW k \in 1 .. n, k - 1 \in T PROVE k \in T
  <2>1. PICK g \in [1 .. k - 1 -> Seq(X)] : G(g, k - 1)
    BY <1>3
  <2>2. ASSUME NEW i \in 1 .. k - 1
        PROVE  g[i] = IF i = 1 THEN seqs[i] ELSE g[i - 1] \o seqs[i]
    BY <2>1
  <2>. DEFINE row == IF k = 1 THEN seqs[k] ELSE g[k - 1] \o seqs[k]
              e == [i \in 1 .. k |-> IF i = k THEN row ELSE g[i]]
  <2>3. row \in Seq(X)
    <3>1. k # 1 => g[k - 1] \in Seq(X)
      OBVIOUS
    <3>. QED BY <1>1, <3>1, ConcatProperties
  <2>4. e \in [1 .. k -> Seq(X)]
    <3>. HIDE DEF row
    <3>1. \A i \in 1 .. k : i # k => i \in 1 .. k - 1
      OBVIOUS
    <3>. QED BY <2>3, <3>1
  <2>5. ASSUME NEW i \in 1 .. k
        PROVE  e[i] = IF i = 1 THEN seqs[i] ELSE e[i - 1] \o seqs[i]
    <3>1. i # 1 => i - 1 \in 1 .. k /\ i - 1 # k
      OBVIOUS
    <3>2. i # 1 => e[i - 1] = g[i - 1]
      BY <3>1
    <3>3. CASE i = k
      BY <3>2, <3>3
    <3>4. CASE i # k
      <4>1. i \in 1 .. k - 1 /\ e[i] = g[i]
        BY <3>4
      <4>. QED BY <2>2, <3>2, <4>1
    <3>. QED BY <3>3, <3>4
  <2>. HIDE DEF e
  <2>6. DOMAIN e = 1 .. k /\ e = [i \in 1 .. k |-> e[i]]
    BY <2>4
  <2>7. G(e, k)
    BY <2>5, <2>6
  <2>8. k \in 0 .. n
    OBVIOUS
  <2>. HIDE DEF G
  <2>. QED BY <2>4, <2>7, <2>8
<1>. HIDE DEF T
<1>4. n \in T
  BY <1>1, <1>2, <1>3, UpTo
<1>5. PICK g \in [1 .. n -> Seq(X)] : G(g, n)
  BY <1>4, Zenon DEF T
<1>6. h = [i \in 1 .. n |-> IF i = 1 THEN seqs[i] ELSE h[i - 1] \o seqs[i]]
  BY <1>5, Zenon DEF Flattened, n
<1>. HIDE DEF h
<1>7. \A i \in 1 .. n : h[i] = IF i = 1 THEN seqs[i] ELSE h[i - 1] \o seqs[i]
  BY <1>6
<1>. DEFINE f == [i \in 0 .. n |-> IF i = 0 THEN <<>> ELSE h[i]]
            U == {k \in 0 .. n : f[k] \in Seq(X)}
<1>8. ASSUME NEW k \in 1 .. n PROVE f[k] = h[k] /\ (k # 1 => f[k - 1] = h[k - 1])
  BY <1>1
<1>9. 0 \in U /\ f[0] = <<>>
  BY <1>1, EmptySeq
<1>10. ASSUME NEW k \in 1 .. n PROVE f[k - 1] \in Seq(X) => f[k] = f[k - 1] \o seqs[k]
  <2>1. CASE k = 1
    <3>1. f[k - 1] = <<>> /\ f[k] = seqs[k] /\ seqs[k] \in Seq(X)
      BY <1>1, <1>7, <1>8, <1>9, <2>1
    <3>. QED BY <3>1, ConcatEmptySeq
  <2>2. CASE k # 1
    BY <1>7, <1>8, <2>2
  <2>. QED BY <2>1, <2>2
<1>. HIDE DEF f
<1>11. ASSUME NEW k \in 1 .. n, k - 1 \in U PROVE k \in U
  <2>1. f[k - 1] \in Seq(X)
    BY <1>11
  <2>2. k \in 0 .. n
    BY <1>1
  <2>3. seqs[k] \in Seq(X) /\ f[k] = f[k - 1] \o seqs[k]
    BY <1>1, <1>10, <2>1
  <2>4. f[k - 1] \o seqs[k] \in Seq(X)
    BY ONLY <2>1, <2>3, ConcatProperties
  <2>5. f[k] \in Seq(X)
    BY ONLY <2>3, <2>4
  <2>. QED BY <2>2, <2>5
<1>. HIDE DEF U
<1>12. \A k \in 0 .. n : f[k] \in Seq(X)
  <2>1. \A k \in 0 .. n : k \in U
    BY <1>1, <1>9, <1>11, UpTo
  <2>. QED BY <2>1 DEF U
<1>13. f \in [0 .. n -> Seq(X)] /\ \A k \in 1 .. n : f[k] = f[k - 1] \o seqs[k]
  <2>1. f = [i \in 0 .. n |-> f[i]]
    BY DEF f
  <2>2. \A k \in 1 .. n : k - 1 \in 0 .. n
    BY <1>1
  <2>. QED BY <1>10, <1>12, <2>1, <2>2
<1>14. FlattenSeq(seqs) = f[n]
  <2>1. CASE n = 0
    <3>1. seqs = <<>>
      BY <2>1, EmptySeq DEF n
    <3>. QED BY <1>9, <2>1, <3>1, FlattenRecurs DEF n
  <2>2. CASE n # 0
    <3>1. n \in 1 .. n
      BY <1>1, <2>2
    <3>. QED BY <1>8, <2>2, <3>1, FlattenRecurs DEF n, h
  <2>. QED BY <2>1, <2>2
<1>. QED BY <1>9, <1>13, <1>14 DEF n

(* All of the second of two rows. *)
LEMMA PickedSecond ==
  ASSUME NEW X, NEW s \in Seq(X), NEW t \in Seq(X), NEW P,
         \A i \in DOMAIN (s \o t) : i \in P <=> i \notin DOMAIN s,
         P \subseteq DOMAIN (s \o t)
  PROVE  Picked(s \o t, P) = t
<1>. DEFINE a == Len(s)
            b == Len(t)
            u == s \o t
            f == [j \in 1 .. b |-> a + j]
<1>1. /\ u \in Seq(X)
      /\ \A j \in DOMAIN t : a + j \in DOMAIN u /\ u[a + j] = t[j]
      /\ \A k \in DOMAIN u : k \in DOMAIN s \/ \E j \in DOMAIN t : k = a + j
  BY ConcatElements
<1>2. /\ a \in Nat /\ b \in Nat /\ DOMAIN s = 1 .. a /\ DOMAIN t = 1 .. b
  BY LenProperties
<1>. HIDE DEF a, b, u
<1>3. ASSUME NEW j \in 1 .. b PROVE a + j \in P
  BY <1>1, <1>2 DEF u
<1>4. ASSUME NEW k \in P PROVE \E j \in 1 .. b : f[j] = k
  <2>1. k \in DOMAIN u /\ k \notin DOMAIN s
    BY DEF u
  <2>2. PICK j \in DOMAIN t : k = a + j
    BY <1>1, <2>1
  <2>. QED BY <1>2, <2>2
<1>5. P \in SUBSET Nat
  BY <1>1, LenProperties DEF u
<1>6. f \in [1 .. b -> P] /\ \A i, j \in 1 .. b : i < j => f[i] < f[j]
  BY <1>2, <1>3
<1>7. 1 .. b \in SUBSET Nat /\ IsFiniteSet(1 .. b) /\ Cardinality(1 .. b) = b
  BY <1>2, FS_Interval
<1>. DEFINE Q == 1 .. b
<1>. HIDE DEF f, Q
<1>8. Cardinality(P) = b /\ \A k \in 1 .. b : Nth(P, k) = f[Nth(Q, k)]
  <2>1. /\ Q \in SUBSET Nat /\ IsFiniteSet(Q) /\ P \in SUBSET Nat /\ f \in [Q -> P]
        /\ \A i, j \in Q : i < j => f[i] < f[j]
        /\ \A k \in P : \E j \in Q : f[j] = k
    BY <1>4, <1>5, <1>6, <1>7 DEF Q
  <2>2. /\ Cardinality(P) = Cardinality(Q)
        /\ \A k \in 1 .. Cardinality(Q) : Nth(P, k) = f[Nth(Q, k)]
    BY <2>1, NthOfImage
  <2>. QED BY <1>7, <2>2 DEF Q
<1>9. \A k \in 1 .. b : Nth(P, k) = a + k
  <2>1. \A k \in 1 .. b : Nth(Q, k) = k
    BY ONLY <1>2, NthOfAll DEF Q
  <2>2. \A k \in 1 .. b : Nth(P, k) = f[k]
    <3>1. Cardinality(P) = b /\ \A k \in 1 .. b : Nth(P, k) = f[Nth(Q, k)]
      BY <1>8
    <3>. QED BY ONLY <2>1, <3>1
  <2>. QED BY ONLY <2>2 DEF f
<1>10. Picked(u, P) = [k \in 1 .. b |-> t[k]]
  <2>1. \A k \in 1 .. b : u[Nth(P, k)] = t[k]
    BY <1>1, <1>2, <1>9
  <2>. QED BY <1>8, <2>1 DEF Picked
<1>11. t = [k \in 1 .. b |-> t[k]]
  BY <1>2, LenProperties
<1>. QED BY <1>10, <1>11 DEF u
=============================================================================
