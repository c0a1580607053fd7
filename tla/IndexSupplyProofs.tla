------------------------- MODULE IndexSupplyProofs -------------------------
(* Proofs about Chunker and IndexSupply, for any documents, lengths, batches, *)
(* builds, crashes and pins.                                                  *)
(*                                                                            *)
(* chunk_markdown is computed by three folds: of lengths, of paragraphs into  *)
(* pieces, of sections into chunks.  A fold is a CHOOSE of a function on the  *)
(* subsets of the places; it is written out here, shown to be what a function *)
(* with a known range is (FoldExists), and read off as a row of states, one   *)
(* for each place (FoldSteps).  What then holds of the states is shown by     *)
(* UpTo, from each to the next.                                               *)
EXTENDS IndexSupply, SequenceLemmas

-----------------------------------------------------------------------------
(* Lengths.                                                                   *)

(* <<section, place, length>>, and a joined text.                             *)
Paragraph == Nat \X Nat \X Nat
Text == Seq(Paragraph)

(* The fold of Length, written out. *)
Lengths(text) ==
    CHOOSE h : h = [S \in SUBSET DOMAIN text |->
                       IF S = {} THEN -2
                       ELSE h[S \ {Max(S)}] + text[Max(S)][3] + 2]

(* The written-out fold is the library's.                                     *)
LEMMA LengthFolds == \A text : Length(text) = Lengths(text)[DOMAIN text]
BY DEF Length, FoldLeft, MapThenFoldSet, Lengths, Max

(* A length is summed up paragraph by paragraph. *)
LEMMA LengthSteps ==
  ASSUME NEW text \in Text
  PROVE  \E len \in [0 .. Len(text) -> Int] :
            /\ len[0] = -2
            /\ \A k \in 1 .. Len(text) : len[k] = len[k - 1] + text[k][3] + 2
            /\ Length(text) = len[Len(text)]
<1>. DEFINE n == Len(text)
            h == Lengths(text)
            F == [x \in Int \X (1 .. n) |-> x[1] + text[x[2]][3] + 2]
<1>1. n \in Nat /\ DOMAIN text = 1 .. n
  BY LenProperties DEF Text
<1>2. \A k \in 1 .. n : text[k] \in Paragraph /\ text[k][3] \in Nat
  BY ElementOfSeq DEF Text, Paragraph
<1>. HIDE DEF n
<1>3. F \in [Int \X (1 .. n) -> Int]
  BY <1>2
<1>4. -2 \in Int
  OBVIOUS
<1>. HIDE DEF F
<1>5. PICK g \in [SUBSET (1 .. n) -> Int] : IsFold(g, F, -2, n, Int)
  BY <1>1, <1>3, <1>4, FoldExists
<1>6. g = [S \in SUBSET DOMAIN text |-> IF S = {} THEN -2
                       ELSE g[S \ {Max(S)}] + text[Max(S)][3] + 2]
  <2>1. ASSUME NEW S \in SUBSET (1 .. n), S # {}
        PROVE  g[S] = g[S \ {Max(S)}] + text[Max(S)][3] + 2
    <3>1. Max(S) \in 1 .. n
      BY <1>1, <2>1, MaxProperties
    <3>2. g[S \ {Max(S)}] \in Int
      OBVIOUS
    <3>. QED BY <1>5, <2>1, <3>1, <3>2 DEF F, IsFold
  <2>. QED BY <1>1, <1>5, <2>1 DEF IsFold
<1>7. h = [S \in SUBSET (1 .. n) |-> IF S = {} THEN -2
                       ELSE h[S \ {Max(S)}] + text[Max(S)][3] + 2]
  BY <1>1, <1>6 DEF Lengths
<1>. HIDE DEF h
<1>8. h[{}] = -2
  BY <1>7
<1>9. IsFold(h, F, -2, n, Int)
  <2>1. ASSUME NEW S \in SUBSET (1 .. n), S # {}, h[S \ {Max(S)}] \in Int
        PROVE  h[S] = F[<<h[S \ {Max(S)}], Max(S)>>]
    <3>1. Max(S) \in 1 .. n
      BY <1>1, <2>1, MaxProperties
    <3>. QED BY <1>7, <2>1, <3>1 DEF F
  <2>. QED BY <1>8, <2>1 DEF IsFold
<1>10. RunsTo(F, -2, n, Int, h[1 .. n])
  BY <1>1, <1>3, <1>4, <1>9, FoldSteps
<1>11. PICK len \in [0 .. n -> Int] :
          /\ len[0] = -2 /\ len[n] = h[1 .. n]
          /\ \A k \in 1 .. n : len[k] = F[<<len[k - 1], k>>]
  BY <1>10 DEF RunsTo
<1>12. ASSUME NEW k \in 1 .. n PROVE len[k] = len[k - 1] + text[k][3] + 2
  <2>1. len[k - 1] \in Int /\ len[k] = F[<<len[k - 1], k>>]
    BY <1>1, <1>11
  <2>. QED BY <2>1 DEF F
<1>13. Length(text) = h[1 .. n]
  BY <1>1, LengthFolds DEF h
<1>. QED BY <1>11, <1>12, <1>13 DEF n

(* Lengths are numbers: -2 for no text at all.                                *)
LEMMA LengthType ==
  ASSUME NEW text \in Text
  PROVE  Length(text) \in Int
<1>1. Len(text) \in Nat
  BY LenProperties DEF Text
<1>2. Len(text) \in 0 .. Len(text)
  BY <1>1
<1>. QED BY <1>2, LengthSteps

(* No paragraph: the two characters before the first are taken off.           *)
LEMMA LengthOfNone == Length(<<>>) = -2
<1>1. <<>> \in Text /\ Len(<<>>) = 0
  BY EmptySeq DEF Text
<1>. QED BY <1>1, LengthSteps

(* A paragraph more. *)
LEMMA LengthOfAppend ==
  ASSUME NEW text \in Text, NEW p \in Paragraph
  PROVE  Length(Append(text, p)) = Length(text) + p[3] + 2
<1>. DEFINE n == Len(text)
            more == Append(text, p)
<1>1. /\ n \in Nat /\ more \in Text /\ Len(more) = n + 1 /\ more[n + 1] = p
      /\ \A k \in 1 .. n : more[k] = text[k]
  BY LenProperties, AppendProperties DEF Text
<1>. HIDE DEF more
<1>2. PICK len \in [0 .. n -> Int] :
         /\ len[0] = -2
         /\ \A k \in 1 .. n : len[k] = len[k - 1] + text[k][3] + 2
         /\ Length(text) = len[n]
  BY LengthSteps
<1>3. PICK lon \in [0 .. Len(more) -> Int] :
         /\ lon[0] = -2
         /\ \A k \in 1 .. Len(more) : lon[k] = lon[k - 1] + more[k][3] + 2
         /\ Length(more) = lon[Len(more)]
  BY <1>1, LengthSteps
<1>. HIDE DEF n
<1>. DEFINE T == {k \in 0 .. n : lon[k] = len[k]}
<1>4. 0 \in T
  BY <1>1, <1>2, <1>3
<1>5. ASSUME NEW k \in 1 .. n, k - 1 \in T PROVE k \in T
  <2>1. k \in 0 .. n /\ lon[k - 1] = len[k - 1] /\ k \in 1 .. n + 1
    BY <1>1, <1>5
  <2>2. lon[k] = lon[k - 1] + more[k][3] + 2 /\ len[k] = len[k - 1] + text[k][3] + 2
    BY <1>1, <1>2, <1>3, <2>1
  <2>. QED BY <1>1, <2>1, <2>2
<1>. HIDE DEF T
<1>6. n \in T
  BY <1>1, <1>4, <1>5, UpTo
<1>7. lon[n] = len[n]
  BY <1>6 DEF T
<1>8. lon[n + 1] = lon[n + 1 - 1] + more[n + 1][3] + 2 /\ n + 1 - 1 = n
  BY <1>1, <1>3
<1>. QED BY <1>1, <1>2, <1>3, <1>7, <1>8 DEF more

(* A text is as long as any of its paragraphs, at least.                      *)
LEMMA LengthCovers ==
  ASSUME NEW text \in Text, NEW i \in DOMAIN text
  PROVE  text[i][3] <= Length(text)
<1>. DEFINE n == Len(text)
<1>1. n \in Nat /\ DOMAIN text = 1 .. n
  BY LenProperties DEF Text
<1>2. \A k \in 1 .. n : text[k][3] \in Nat
  BY ElementOfSeq DEF Text, Paragraph
<1>3. PICK len \in [0 .. n -> Int] :
         /\ len[0] = -2
         /\ \A k \in 1 .. n : len[k] = len[k - 1] + text[k][3] + 2
         /\ Length(text) = len[n]
  BY LengthSteps
<1>. HIDE DEF n
<1>. DEFINE T == {k \in 0 .. n : len[k] >= -2 /\ (i <= k => len[k] >= text[i][3])}
<1>4. 0 \in T
  BY <1>1, <1>3
<1>5. ASSUME NEW k \in 1 .. n, k - 1 \in T PROVE k \in T
  <2>1. /\ k \in 0 .. n /\ k - 1 \in 0 .. n /\ len[k - 1] >= -2
        /\ i <= k - 1 => len[k - 1] >= text[i][3]
    BY <1>1, <1>5
  <2>2. /\ len[k] = len[k - 1] + text[k][3] + 2 /\ text[k][3] \in Nat
        /\ len[k] \in Int /\ len[k - 1] \in Int /\ text[i][3] \in Nat
    BY <1>1, <1>2, <1>3, <2>1
  <2>3. i <= k => i <= k - 1 \/ i = k
    BY <1>1
  <2>4. len[k] >= -2
    BY <2>1, <2>2
  <2>5. i <= k => len[k] >= text[i][3]
    BY <2>1, <2>2, <2>3
  <2>. QED BY <2>1, <2>4, <2>5
<1>. HIDE DEF T
<1>6. n \in T
  BY <1>1, <1>4, <1>5, UpTo
<1>. QED BY <1>1, <1>2, <1>3, <1>6 DEF T

-----------------------------------------------------------------------------
(* Order.                                                                     *)

(* The paragraphs of a text are in the document's order, none twice.          *)
Increasing(text) ==
    \A i, j \in DOMAIN text : i < j => Before(text[i], text[j])

(* Each paragraph of S stands before every one of T.                          *)
Precede(S, T) == \A p \in S, q \in T : Before(p, q)

(* A row of texts is in order if each text is, and every two of them.         *)
LEMMA InOrderPairwise ==
  ASSUME NEW texts \in Seq(Text)
  PROVE  InOrder(texts) <=>
            /\ \A m \in DOMAIN texts : Increasing(texts[m])
            /\ \A m, n \in DOMAIN texts :
                  m < n => Precede(ToSet(texts[m]), ToSet(texts[n]))
<1>1. \A m \in DOMAIN texts : m \in Nat
  BY LenProperties
<1>2. \A m \in DOMAIN texts : ~ (m < m)
  BY <1>1
<1>3. ASSUME InOrder(texts), NEW m \in DOMAIN texts PROVE Increasing(texts[m])
  BY <1>3 DEF InOrder, Increasing
<1>4. ASSUME InOrder(texts), NEW m \in DOMAIN texts, NEW n \in DOMAIN texts, m < n
      PROVE  Precede(ToSet(texts[m]), ToSet(texts[n]))
  BY <1>4 DEF InOrder, Precede, ToSet
<1>5. ASSUME \A m \in DOMAIN texts : Increasing(texts[m]),
             \A m, n \in DOMAIN texts :
                  m < n => Precede(ToSet(texts[m]), ToSet(texts[n]))
      PROVE  InOrder(texts)
  BY <1>5 DEF InOrder, Increasing, Precede, ToSet
<1>. QED BY <1>3, <1>4, <1>5

(* Two texts in order make one if the first is all before the second.         *)
LEMMA IncreasingConcat ==
  ASSUME NEW s \in Text, NEW t \in Text,
         Increasing(s), Increasing(t), Precede(ToSet(s), ToSet(t))
  PROVE  Increasing(s \o t)
<1>. DEFINE u == s \o t
            a == Len(s)
<1>1. /\ \A i \in DOMAIN s : i \in DOMAIN u /\ u[i] = s[i]
      /\ \A j \in DOMAIN t : a + j \in DOMAIN u /\ u[a + j] = t[j]
      /\ \A k \in DOMAIN u : k \in DOMAIN s \/ \E j \in DOMAIN t : k = a + j
  BY ConcatElements DEF Text
<1>2. a \in Nat /\ DOMAIN s = 1 .. a /\ \A j \in DOMAIN t : j \in Nat /\ j > 0
  BY LenProperties DEF Text
<1>. HIDE DEF u, a
<1>3. ASSUME NEW i \in DOMAIN u, NEW j \in DOMAIN u, i < j
      PROVE  Before(u[i], u[j])
  <2>1. CASE i \in DOMAIN s /\ j \in DOMAIN s
    BY <1>1, <1>3, <2>1 DEF Increasing
  <2>2. CASE i \in DOMAIN s /\ j \notin DOMAIN s
    BY <1>1, <2>2 DEF Precede, ToSet
  <2>3. CASE i \notin DOMAIN s
    <3>1. PICK x \in DOMAIN t : i = a + x
      BY <1>1, <2>3
    <3>2. j \notin DOMAIN s
      BY <1>2, <1>3, <3>1
    <3>3. PICK y \in DOMAIN t : j = a + y
      BY <1>1, <3>2
    <3>4. x < y
      BY <1>2, <1>3, <3>1, <3>3
    <3>. QED BY <1>1, <3>1, <3>3, <3>4 DEF Increasing
  <2>. QED BY <2>1, <2>2, <2>3
<1>. QED BY <1>3 DEF Increasing, u

(* Two rows of texts hold what the one and the other holds.                   *)
LEMMA HeldConcat ==
  ASSUME NEW A \in Seq(Text), NEW B \in Seq(Text)
  PROVE  Held(A \o B) = Held(A) \cup Held(B)
<1>. DEFINE U == A \o B
            a == Len(A)
<1>1. /\ \A i \in DOMAIN A : i \in DOMAIN U /\ U[i] = A[i]
      /\ \A j \in DOMAIN B : a + j \in DOMAIN U /\ U[a + j] = B[j]
      /\ \A k \in DOMAIN U : k \in DOMAIN A \/ \E j \in DOMAIN B : k = a + j
  BY ConcatElements
<1>. HIDE DEF U, a
<1>2. ASSUME NEW p \in Held(U) PROVE p \in Held(A) \cup Held(B)
  <2>1. PICK m \in DOMAIN U : p \in ToSet(U[m])
    BY <1>2 DEF Held
  <2>. QED BY <1>1, <2>1 DEF Held
<1>3. ASSUME NEW p \in Held(A) \cup Held(B) PROVE p \in Held(U)
  BY <1>1, <1>3 DEF Held
<1>. QED BY <1>2, <1>3 DEF U

(* Two rows of texts are in order if each is, and the first is before the     *)
(* second.                                                                    *)
LEMMA InOrderConcat ==
  ASSUME NEW A \in Seq(Text), NEW B \in Seq(Text)
  PROVE  InOrder(A \o B) <=>
            InOrder(A) /\ InOrder(B) /\ Precede(Held(A), Held(B))
<1>. DEFINE U == A \o B
            a == Len(A)
<1>1. /\ U \in Seq(Text)
      /\ \A i \in DOMAIN A : i \in DOMAIN U /\ U[i] = A[i]
      /\ \A j \in DOMAIN B : a + j \in DOMAIN U /\ U[a + j] = B[j]
      /\ \A k \in DOMAIN U : k \in DOMAIN A \/ \E j \in DOMAIN B : k = a + j
  BY ConcatElements
<1>2. a \in Nat /\ DOMAIN A = 1 .. a /\ \A j \in DOMAIN B : j \in Nat /\ j > 0
  BY LenProperties
<1>. HIDE DEF U, a
<1>3. ASSUME InOrder(U) PROVE InOrder(A) /\ InOrder(B) /\ Precede(Held(A), Held(B))
  <2>1. /\ \A m \in DOMAIN U : Increasing(U[m])
        /\ \A m, n \in DOMAIN U : m < n => Precede(ToSet(U[m]), ToSet(U[n]))
    BY <1>1, <1>3, InOrderPairwise
  <2>2. InOrder(A)
    <3>1. \A m \in DOMAIN A : Increasing(A[m])
      BY <1>1, <2>1
    <3>2. \A m, n \in DOMAIN A : m < n => Precede(ToSet(A[m]), ToSet(A[n]))
      BY <1>1, <2>1
    <3>. QED BY <3>1, <3>2, InOrderPairwise
  <2>3. InOrder(B)
    <3>1. \A m \in DOMAIN B : Increasing(B[m])
      BY <1>1, <2>1
    <3>2. ASSUME NEW m \in DOMAIN B, NEW n \in DOMAIN B, m < n
          PROVE  Precede(ToSet(B[m]), ToSet(B[n]))
      <4>1. a + m < a + n
        BY <1>2, <3>2
      <4>. QED BY <1>1, <2>1, <4>1
    <3>. QED BY <3>1, <3>2, InOrderPairwise
  <2>4. ASSUME NEW p \in Held(A), NEW q \in Held(B) PROVE Before(p, q)
    <3>1. PICK m \in DOMAIN A : p \in ToSet(A[m])
      BY DEF Held
    <3>2. PICK n \in DOMAIN B : q \in ToSet(B[n])
      BY DEF Held
    <3>3. m < a + n
      BY <1>2
    <3>4. Precede(ToSet(A[m]), ToSet(B[n]))
      BY <1>1, <2>1, <3>3
    <3>. QED BY <3>1, <3>2, <3>4 DEF Precede
  <2>. QED BY <2>2, <2>3, <2>4 DEF Precede
<1>4. ASSUME InOrder(A), InOrder(B), Precede(Held(A), Held(B)) PROVE InOrder(U)
  <2>1. /\ \A m \in DOMAIN A : Increasing(A[m])
        /\ \A m, n \in DOMAIN A : m < n => Precede(ToSet(A[m]), ToSet(A[n]))
    BY <1>4, InOrderPairwise
  <2>2. /\ \A m \in DOMAIN B : Increasing(B[m])
        /\ \A m, n \in DOMAIN B : m < n => Precede(ToSet(B[m]), ToSet(B[n]))
    BY <1>4, InOrderPairwise
  <2>3. \A m \in DOMAIN U : Increasing(U[m])
    BY <1>1, <2>1, <2>2
  <2>4. ASSUME NEW m \in DOMAIN U, NEW n \in DOMAIN U, m < n
        PROVE  Precede(ToSet(U[m]), ToSet(U[n]))
    <3>1. CASE n \in DOMAIN A
      <4>1. m \in DOMAIN A
        BY <1>1, <1>2, <2>4, <3>1
      <4>. QED BY <1>1, <2>1, <2>4, <3>1, <4>1
    <3>2. CASE n \notin DOMAIN A
      <4>1. PICK y \in DOMAIN B : n = a + y
        BY <1>1, <3>2
      <4>2. CASE m \in DOMAIN A
        <5>1. ToSet(U[m]) \subseteq Held(A) /\ ToSet(U[n]) \subseteq Held(B)
          BY <1>1, <4>1, <4>2 DEF Held
        <5>. QED BY <1>4, <5>1 DEF Precede
      <4>3. CASE m \notin DOMAIN A
        <5>1. PICK x \in DOMAIN B : m = a + x
          BY <1>1, <4>3
        <5>2. x < y
          BY <1>2, <2>4, <4>1, <5>1
        <5>. QED BY <1>1, <2>2, <4>1, <5>1, <5>2
      <4>. QED BY <4>2, <4>3
    <3>. QED BY <3>1, <3>2
  <2>. QED BY <1>1, <2>3, <2>4, InOrderPairwise
<1>. QED BY <1>3, <1>4 DEF U

(* A row of one text. *)
LEMMA OneText ==
  ASSUME NEW t \in Text
  PROVE  /\ <<t>> \in Seq(Text) /\ Held(<<t>>) = ToSet(t)
         /\ InOrder(<<t>>) <=> Increasing(t)
<1>1. <<t>> \in Seq(Text) /\ DOMAIN <<t>> = {1} /\ <<t>>[1] = t
  OBVIOUS
<1>. DEFINE T == <<t>>
<1>. HIDE DEF T
<1>2. T \in Seq(Text) /\ DOMAIN T = {1} /\ T[1] = t
  BY <1>1 DEF T
<1>3. Held(T) = ToSet(t)
  BY <1>2 DEF Held
<1>4. InOrder(T) <=> Increasing(t)
  BY <1>2, InOrderPairwise
<1>. QED BY <1>2, <1>3, <1>4 DEF T

(* A text more.                                                               *)
LEMMA InOrderAppend ==
  ASSUME NEW A \in Seq(Text), NEW t \in Text
  PROVE  /\ Append(A, t) \in Seq(Text)
         /\ Held(Append(A, t)) = Held(A) \cup ToSet(t)
         /\ InOrder(Append(A, t)) <=>
               InOrder(A) /\ Increasing(t) /\ Precede(Held(A), ToSet(t))
<1>1. Append(A, t) = A \o <<t>>
  BY AppendIsConcat
<1>2. /\ <<t>> \in Seq(Text) /\ Held(<<t>>) = ToSet(t)
      /\ InOrder(<<t>>) <=> Increasing(t)
  BY OneText
<1>3. A \o <<t>> \in Seq(Text)
  BY <1>2, ConcatElements
<1>4. Held(A \o <<t>>) = Held(A) \cup ToSet(t)
  BY <1>2, HeldConcat
<1>5. InOrder(A \o <<t>>) <=>
               InOrder(A) /\ Increasing(t) /\ Precede(Held(A), ToSet(t))
  BY <1>2, InOrderConcat
<1>. QED BY <1>1, <1>3, <1>4, <1>5

-----------------------------------------------------------------------------
(* _pack_paragraphs.                                                          *)

PackState == [out : Seq(Text), buf : Text, cur : Int]

Nothing == [out |-> <<>>, buf |-> <<>>, cur |-> 0]

(* A paragraph more leaves a row of texts, a text and a count.                *)
LEMMA PackOneType ==
  ASSUME NEW packed \in PackState, NEW p \in Paragraph
  PROVE  PackOne(packed, p) \in PackState
<1>1. packed.out \in Seq(Text) /\ packed.buf \in Text /\ packed.cur \in Int /\ p[3] \in Nat
  BY DEF PackState, Paragraph
<1>2. Append(packed.out, packed.buf) \in Seq(Text) /\ Append(packed.buf, p) \in Text
  BY <1>1, AppendProperties DEF Text
<1>3. <<p>> \in Text
  BY DEF Text
<1>4. packed.cur + p[3] + 2 \in Int /\ p[3] + 2 \in Int
  BY <1>1
<1>. QED BY <1>1, <1>2, <1>3, <1>4 DEF PackOne, PackState

(* The fold of PackParagraphs, written out. *)
Packings(text) ==
    CHOOSE h : h = [S \in SUBSET DOMAIN text |->
                       IF S = {} THEN Nothing
                       ELSE PackOne(h[S \ {Max(S)}], text[Max(S)])]

(* The written-out fold is the library's.                                     *)
LEMMA PackFolds ==
  \A text : PackParagraphs(text) = Append(Packings(text)[DOMAIN text].out,
                                          Packings(text)[DOMAIN text].buf)
BY DEF PackParagraphs, FoldLeft, MapThenFoldSet, Packings, Nothing, Max

(* Paragraph by paragraph, the packing goes from nothing to its end.          *)
LEMMA PackSteps ==
  ASSUME NEW text \in Text
  PROVE  \E st \in [0 .. Len(text) -> PackState] :
            /\ st[0] = Nothing
            /\ \A k \in 1 .. Len(text) : st[k] = PackOne(st[k - 1], text[k])
            /\ PackParagraphs(text) = Append(st[Len(text)].out, st[Len(text)].buf)
<1>. DEFINE n == Len(text)
            h == Packings(text)
            F == [x \in PackState \X (1 .. n) |-> PackOne(x[1], text[x[2]])]
<1>1. n \in Nat /\ DOMAIN text = 1 .. n
  BY LenProperties DEF Text
<1>2. \A k \in 1 .. n : text[k] \in Paragraph
  BY ElementOfSeq DEF Text
<1>. HIDE DEF n
<1>3. F \in [PackState \X (1 .. n) -> PackState]
  BY <1>2, PackOneType
<1>4. Nothing \in PackState
  BY EmptySeq DEF Nothing, PackState, Text
<1>5. \A a \in PackState, i \in 1 .. n : F[<<a, i>>] = PackOne(a, text[i])
  OBVIOUS
<1>. HIDE DEF F
<1>6. PICK g \in [SUBSET (1 .. n) -> PackState] : IsFold(g, F, Nothing, n, PackState)
  BY <1>1, <1>3, <1>4, FoldExists
<1>7. g = [S \in SUBSET DOMAIN text |-> IF S = {} THEN Nothing
                       ELSE PackOne(g[S \ {Max(S)}], text[Max(S)])]
  <2>1. ASSUME NEW S \in SUBSET (1 .. n), S # {}
        PROVE  g[S] = PackOne(g[S \ {Max(S)}], text[Max(S)])
    <3>1. Max(S) \in 1 .. n
      BY <1>1, <2>1, MaxProperties
    <3>2. g[S \ {Max(S)}] \in PackState
      OBVIOUS
    <3>. QED BY <1>5, <1>6, <2>1, <3>1, <3>2 DEF IsFold
  <2>. QED BY <1>1, <1>6, <2>1 DEF IsFold
<1>8. h = [S \in SUBSET (1 .. n) |-> IF S = {} THEN Nothing
                       ELSE PackOne(h[S \ {Max(S)}], text[Max(S)])]
  BY <1>1, <1>7 DEF Packings
<1>. HIDE DEF h
<1>9. IsFold(h, F, Nothing, n, PackState)
  <2>1. ASSUME NEW S \in SUBSET (1 .. n), S # {}, h[S \ {Max(S)}] \in PackState
        PROVE  h[S] = F[<<h[S \ {Max(S)}], Max(S)>>]
    <3>1. Max(S) \in 1 .. n
      BY <1>1, <2>1, MaxProperties
    <3>. QED BY <1>5, <1>8, <2>1, <3>1
  <2>. QED BY <1>8, <2>1 DEF IsFold
<1>10. RunsTo(F, Nothing, n, PackState, h[1 .. n])
  BY <1>1, <1>3, <1>4, <1>9, FoldSteps
<1>11. PICK st \in [0 .. n -> PackState] :
          /\ st[0] = Nothing /\ st[n] = h[1 .. n]
          /\ \A k \in 1 .. n : st[k] = F[<<st[k - 1], k>>]
  BY <1>10 DEF RunsTo
<1>12. ASSUME NEW k \in 1 .. n PROVE st[k] = PackOne(st[k - 1], text[k])
  <2>1. st[k - 1] \in PackState /\ st[k] = F[<<st[k - 1], k>>]
    BY <1>1, <1>11
  <2>. QED BY <1>5, <2>1
<1>13. PackParagraphs(text) = Append(h[1 .. n].out, h[1 .. n].buf)
  BY <1>1, PackFolds DEF h
<1>. QED BY <1>11, <1>12, <1>13 DEF n

(* Not longer than 1.4 times the target, or not to be cut.                    *)
Fits(text) == 5 * Length(text) <= 7 * TargetChars \/ Len(text) = 1

(* Whatever is in the pieces so far, and in the buffer, is in order, and none *)
(* of them is too long.                                                       *)
Packed(packed, S) ==
    /\ InOrder(Append(packed.out, packed.buf))
    /\ Held(Append(packed.out, packed.buf)) = S
    /\ packed.cur = Length(packed.buf) + 2
    /\ \A m \in DOMAIN packed.out : Fits(packed.out[m])
    /\ packed.buf = <<>> \/ Len(packed.buf) = 1 \/ packed.cur <= TargetChars

(* A paragraph from further down the document, put after a text in order.     *)
LEMMA AppendPrecedes ==
  ASSUME NEW text \in Text, NEW p \in Paragraph,
         Increasing(text), Precede(ToSet(text), {p})
  PROVE  /\ Append(text, p) \in Text /\ ToSet(Append(text, p)) = ToSet(text) \cup {p}
         /\ Increasing(Append(text, p))
<1>1. Append(text, p) = text \o <<p>>
  BY AppendIsConcat DEF Text
<1>. DEFINE P == <<p>>
<1>2. P \in Text /\ DOMAIN P = {1} /\ P[1] = p
  BY DEF Text
<1>. HIDE DEF P
<1>3. ToSet(P) = {p} /\ Increasing(P)
  BY <1>2 DEF ToSet, Increasing
<1>4. Increasing(text \o P)
  BY <1>2, <1>3, IncreasingConcat
<1>5. text \o P \in Text /\ ToSet(text \o P) = ToSet(text) \cup {p}
  BY <1>2, <1>3, ConcatElements DEF Text
<1>. QED BY <1>1, <1>4, <1>5 DEF P

(* A paragraph more: either the buffer is put out, and it fits, or it grows.  *)
LEMMA PackedOne ==
  ASSUME NEW packed \in PackState, NEW S, Packed(packed, S),
         NEW p \in Paragraph, Precede(S, {p})
  PROVE  Packed(PackOne(packed, p), S \cup {p}) /\ PackOne(packed, p).buf # <<>>
<1>. DEFINE out == packed.out
            buf == packed.buf
            cur == packed.cur
            new == PackOne(packed, p)
<1>1. out \in Seq(Text) /\ buf \in Text /\ cur \in Int /\ p[3] \in Nat
  BY DEF PackState, Paragraph
<1>2. /\ InOrder(out) /\ Increasing(buf) /\ Precede(Held(out), ToSet(buf))
      /\ S = Held(out) \cup ToSet(buf)
  BY <1>1, InOrderAppend DEF Packed
<1>3. TargetChars \in Nat /\ Length(buf) \in Int /\ cur = Length(buf) + 2
  BY <1>1, LengthType, ChunkerAssumption DEF Packed
<1>4. CASE cur + p[3] + 2 > TargetChars /\ buf # <<>>
  <2>1. new = [out |-> Append(out, buf), buf |-> <<p>>, cur |-> p[3] + 2]
    BY <1>4 DEF PackOne
  <2>. DEFINE P == <<p>>
  <2>2. /\ P \in Text /\ P # <<>> /\ Len(P) = 1 /\ ToSet(P) = {p} /\ Increasing(P)
        /\ Length(P) = p[3]
    <3>1. <<>> \in Text /\ Increasing(<<>>) /\ ToSet(<<>>) = {}
      BY EmptySeq DEF Text, Increasing, ToSet
    <3>2. P = Append(<<>>, p) /\ Len(P) = 1 /\ P # <<>>
      OBVIOUS
    <3>3. Length(P) = -2 + p[3] + 2
      BY <3>1, <3>2, LengthOfNone, LengthOfAppend
    <3>4. Precede(ToSet(<<>>), {p})
      BY <3>1 DEF Precede
    <3>5. P \in Text /\ ToSet(P) = {p} /\ Increasing(P)
      BY <3>1, <3>2, <3>4, AppendPrecedes
    <3>. QED BY <1>1, <3>2, <3>3, <3>5
  <2>. HIDE DEF P
  <2>. DEFINE outs == Append(out, buf)
  <2>3. outs \in Seq(Text) /\ InOrder(outs) /\ Held(outs) = S
    BY <1>1, InOrderAppend DEF Packed
  <2>4. InOrder(Append(outs, P)) /\ Held(Append(outs, P)) = S \cup {p}
    BY <2>2, <2>3, InOrderAppend
  <2>5. Fits(buf)
    BY <1>1, <1>3, <1>4 DEF Packed, Fits
  <2>6. \A m \in DOMAIN outs : Fits(outs[m])
    <3>1. \A m \in DOMAIN outs : (m \in DOMAIN out /\ outs[m] = out[m]) \/ outs[m] = buf
      BY <1>1, AppendedElement
    <3>. QED BY <2>5, <3>1 DEF Packed
  <2>. HIDE DEF outs
  <2>. QED BY <1>1, <2>1, <2>2, <2>4, <2>6 DEF Packed, P, outs
<1>5. CASE ~ (cur + p[3] + 2 > TargetChars /\ buf # <<>>)
  <2>. DEFINE more == Append(buf, p)
  <2>1. new = [out |-> out, buf |-> more, cur |-> cur + p[3] + 2]
    BY <1>5 DEF PackOne, PackState
  <2>2. Precede(ToSet(buf), {p}) /\ Precede(Held(out), {p})
    BY <1>2 DEF Precede
  <2>3. more \in Text /\ ToSet(more) = ToSet(buf) \cup {p} /\ Increasing(more)
    BY <1>1, <1>2, <2>2, AppendPrecedes
  <2>4. Precede(Held(out), ToSet(more))
    BY <1>2, <2>2, <2>3 DEF Precede
  <2>5. InOrder(Append(out, more)) /\ Held(Append(out, more)) = S \cup {p}
    <3>1. Held(Append(out, more)) = Held(out) \cup ToSet(more)
      BY <1>1, <2>3, InOrderAppend
    <3>2. InOrder(Append(out, more))
      BY <1>1, <1>2, <2>3, <2>4, InOrderAppend
    <3>. QED BY <1>2, <2>3, <3>1, <3>2
  <2>6. Length(more) = Length(buf) + p[3] + 2
    BY <1>1, LengthOfAppend
  <2>7. Len(more) = Len(buf) + 1 /\ more # <<>> /\ Len(buf) \in Nat
    BY <1>1, AppendProperties, LenProperties DEF Text
  <2>8. Len(more) = 1 \/ cur + p[3] + 2 <= TargetChars
    <3>1. CASE buf = <<>>
      BY <2>7, <3>1
    <3>2. CASE buf # <<>>
      BY <1>1, <1>3, <1>5, <3>2
    <3>. QED BY <3>1, <3>2
  <2>. HIDE DEF more
  <2>9. cur + p[3] + 2 = Length(more) + 2
    BY <1>1, <1>3, <2>6
  <2>10. /\ PackOne(packed, p).out = out /\ PackOne(packed, p).buf = more
         /\ PackOne(packed, p).cur = cur + p[3] + 2
    BY <2>1
  <2>. QED BY <2>5, <2>7, <2>8, <2>9, <2>10 DEF Packed
<1>. QED BY <1>4, <1>5

(* A text that is cut is cut in order, nothing is lost, and no piece is too   *)
(* long that could have been cut.                                             *)
LEMMA PackFaithful ==
  ASSUME NEW text \in Text, text # <<>>, Increasing(text)
  PROVE  /\ PackParagraphs(text) \in Seq(Text)
         /\ InOrder(PackParagraphs(text))
         /\ Held(PackParagraphs(text)) = ToSet(text)
         /\ \A m \in DOMAIN PackParagraphs(text) : Fits(PackParagraphs(text)[m])
<1>. DEFINE n == Len(text)
            First(k) == {text[j] : j \in 1 .. k}
<1>1. n \in Nat /\ n > 0 /\ DOMAIN text = 1 .. n /\ \A k \in 1 .. n : text[k] \in Paragraph
  BY LenProperties, EmptySeq, ElementOfSeq DEF Text
<1>2. PICK st \in [0 .. n -> PackState] :
         /\ st[0] = Nothing
         /\ \A k \in 1 .. n : st[k] = PackOne(st[k - 1], text[k])
         /\ PackParagraphs(text) = Append(st[n].out, st[n].buf)
  BY PackSteps
<1>. HIDE DEF n
<1>. DEFINE T == {k \in 0 .. n : Packed(st[k], First(k)) /\ (k > 0 => st[k].buf # <<>>)}
<1>3. 0 \in T
  <2>1. First(0) = {}
    OBVIOUS
  <2>2. /\ <<>> \in Text /\ <<>> \in Seq(Text) /\ DOMAIN <<>> = {}
        /\ Increasing(<<>>) /\ ToSet(<<>>) = {} /\ Held(<<>>) = {} /\ InOrder(<<>>)
    BY EmptySeq DEF Text, Increasing, ToSet, Held, InOrder
  <2>3. Precede(Held(<<>>), ToSet(<<>>))
    BY <2>2 DEF Precede
  <2>4. InOrder(Append(<<>>, <<>>)) /\ Held(Append(<<>>, <<>>)) = {}
    BY <2>2, <2>3, InOrderAppend
  <2>5. st[0].out = <<>> /\ st[0].buf = <<>> /\ st[0].cur = 0
    BY <1>2 DEF Nothing
  <2>6. Packed(st[0], {})
    BY <2>2, <2>4, <2>5, LengthOfNone DEF Packed
  <2>7. 0 \in 0 .. n
    BY <1>1
  <2>. HIDE DEF First
  <2>8. Packed(st[0], First(0))
    BY <2>1, <2>6
  <2>. QED BY <2>7, <2>8
<1>4. ASSUME NEW k \in 1 .. n, k - 1 \in T PROVE k \in T
  <2>1. /\ k \in 0 .. n /\ k - 1 \in 0 .. n /\ st[k - 1] \in PackState
        /\ Packed(st[k - 1], First(k - 1)) /\ text[k] \in Paragraph
    BY <1>1, <1>4
  <2>2. Precede(First(k - 1), {text[k]})
    BY <1>1 DEF Precede, Increasing
  <2>3. First(k) = First(k - 1) \cup {text[k]}
    BY <1>1
  <2>4. st[k] = PackOne(st[k - 1], text[k])
    BY <1>2
  <2>. HIDE DEF First
  <2>5. Packed(st[k], First(k)) /\ st[k].buf # <<>>
    BY <2>1, <2>2, <2>3, <2>4, PackedOne
  <2>. QED BY <2>1, <2>5
<1>5. First(n) = ToSet(text)
  BY <1>1 DEF ToSet
<1>. HIDE DEF T, First
<1>6. n \in T
  BY <1>1, <1>3, <1>4, UpTo
<1>7. Packed(st[n], ToSet(text)) /\ st[n].buf # <<>> /\ st[n] \in PackState
  BY <1>1, <1>5, <1>6 DEF T
<1>. DEFINE out == st[n].out
            buf == st[n].buf
            pieces == Append(out, buf)
<1>8. out \in Seq(Text) /\ buf \in Text
  BY <1>7 DEF PackState
<1>9. Fits(buf)
  <2>1. Length(buf) \in Int /\ TargetChars \in Nat
    BY <1>8, LengthType, ChunkerAssumption
  <2>2. Len(buf) = 1 \/ Length(buf) + 2 <= TargetChars
    BY <1>7 DEF Packed
  <2>. QED BY <2>1, <2>2 DEF Fits
<1>10. \A m \in DOMAIN pieces :
          (m \in DOMAIN out /\ pieces[m] = out[m]) \/ pieces[m] = buf
  BY <1>8, AppendedElement
<1>11. \A m \in DOMAIN pieces : Fits(pieces[m])
  BY <1>7, <1>9, <1>10 DEF Packed
<1>12. pieces \in Seq(Text) /\ InOrder(pieces) /\ Held(pieces) = ToSet(text)
  BY <1>7, <1>8, InOrderAppend DEF Packed
<1>. QED BY <1>2, <1>11, <1>12

-----------------------------------------------------------------------------
(* Headings.                                                                  *)

Titles(doc) == {doc[i].title : i \in DOMAIN doc} \cup {NoTitle}

(* The stack holds the headings that section i stands under, and no other.    *)
Standing(doc, i, stack) ==
    /\ \A j \in Encloses(doc, i) : stack[doc[j].level] = doc[j].title
    /\ \A l \in Levels : stack[l] # NoTitle =>
          \E j \in Encloses(doc, i) : doc[j].level = l

(* Sections, of whatever document.                                            *)
LEMMA DocumentType ==
  ASSUME NEW doc, IsDocument(doc)
  PROVE  /\ Len(doc) \in Nat /\ DOMAIN doc = 1 .. Len(doc)
         /\ \A i \in DOMAIN doc :
               /\ doc[i].level \in Levels \cup {0} /\ doc[i].body \in Seq(Nat)
               /\ doc[i].level = 0 => i = 1
               /\ doc[i].level # 0 => doc[i].title # NoTitle
BY LenProperties DEF IsDocument

(* The headings a section stands under are before it or its own, and their    *)
(* levels grow.                                                               *)
LEMMA EnclosesType ==
  ASSUME NEW doc, IsDocument(doc), NEW i \in 0 .. Len(doc)
  PROVE  /\ Encloses(doc, i) \subseteq 1 .. i /\ Encloses(doc, i) \subseteq DOMAIN doc
         /\ \A j \in Encloses(doc, i) : doc[j].level \in Levels
         /\ \A j, k \in Encloses(doc, i) : j < k => doc[j].level < doc[k].level
<1>1. /\ Len(doc) \in Nat /\ DOMAIN doc = 1 .. Len(doc)
      /\ \A j \in DOMAIN doc : doc[j].level \in Levels \cup {0}
  BY DocumentType
<1>2. ASSUME NEW j \in Encloses(doc, i)
      PROVE  /\ j \in 1 .. i /\ j \in DOMAIN doc /\ doc[j].level \in Levels
             /\ \A k \in Encloses(doc, i) : j < k => doc[j].level < doc[k].level
  <2>1. /\ j \in 1 .. i /\ j \in DOMAIN doc /\ doc[j].level > 0
        /\ \A k \in j + 1 .. i : doc[k].level > doc[j].level
    BY <1>1 DEF Encloses
  <2>2. doc[j].level \in Levels
    BY <1>1, <2>1 DEF Levels
  <2>3. ASSUME NEW k \in Encloses(doc, i), j < k PROVE doc[j].level < doc[k].level
    <3>1. k \in 1 .. i /\ k \in DOMAIN doc
      BY <1>1 DEF Encloses
    <3>2. k \in j + 1 .. i
      BY <2>1, <2>3, <3>1
    <3>3. doc[j].level \in Int /\ doc[k].level \in Int
      BY <1>1, <2>1, <3>1 DEF Levels
    <3>. QED BY <2>1, <3>2, <3>3
  <2>. QED BY <2>1, <2>2, <2>3
<1>. QED BY <1>2

(* A heading ends those of its level and of greater ones.                     *)
LEMMA EnclosesNext ==
  ASSUME NEW doc, IsDocument(doc), NEW i \in 1 .. Len(doc), doc[i].level # 0
  PROVE  Encloses(doc, i) =
            {j \in Encloses(doc, i - 1) : doc[j].level < doc[i].level} \cup {i}
<1>1. /\ Len(doc) \in Nat /\ DOMAIN doc = 1 .. Len(doc)
      /\ \A j \in DOMAIN doc : doc[j].level \in Int /\ doc[j].level >= 0
  <2>1. /\ Len(doc) \in Nat /\ DOMAIN doc = 1 .. Len(doc)
        /\ \A j \in DOMAIN doc : doc[j].level \in Levels \cup {0}
    BY DocumentType
  <2>2. \A l \in Levels \cup {0} : l \in Int /\ l >= 0
    BY ONLY DEF Levels
  <2>. QED BY ONLY <2>1, <2>2
<1>2. ASSUME NEW j \in 1 .. i - 1
      PROVE  j \in Encloses(doc, i) <=>
                j \in Encloses(doc, i - 1) /\ doc[j].level < doc[i].level
  <2>1. j + 1 .. i = (j + 1 .. i - 1) \cup {i}
    OBVIOUS
  <2>2. j \in DOMAIN doc /\ i \in DOMAIN doc /\ j \in 1 .. i
    BY <1>1
  <2>3. doc[i].level > doc[j].level <=> doc[j].level < doc[i].level
    BY <1>1, <2>2
  <2>. QED BY <2>1, <2>2, <2>3 DEF Encloses
<1>3. i \in Encloses(doc, i)
  BY <1>1 DEF Encloses
<1>4. /\ Encloses(doc, i) \subseteq 1 .. i
      /\ Encloses(doc, i - 1) \subseteq 1 .. i - 1
  BY DEF Encloses
<1>5. 1 .. i = (1 .. i - 1) \cup {i}
  OBVIOUS
<1>. QED BY <1>2, <1>3, <1>4, <1>5

(* The stack, from a section to the next.  One without a heading is the       *)
(* document's first, and finds the stack empty.                               *)
LEMMA StandingNext ==
  ASSUME NEW doc, IsDocument(doc), NEW i \in 1 .. Len(doc),
         NEW stack \in [Levels -> Titles(doc)], Standing(doc, i - 1, stack)
  PROVE  /\ Under(stack, doc[i].level, doc[i].title) \in [Levels -> Titles(doc)]
         /\ Standing(doc, i, Under(stack, doc[i].level, doc[i].title))
<1>. DEFINE level == doc[i].level
            new == Under(stack, level, doc[i].title)
<1>1. /\ Len(doc) \in Nat /\ DOMAIN doc = 1 .. Len(doc) /\ i \in DOMAIN doc
      /\ level \in Levels \cup {0} /\ (level = 0 => i = 1)
      /\ doc[i].title \in Titles(doc) /\ NoTitle \in Titles(doc)
  BY DocumentType DEF Titles
<1>2. CASE level = 0
  <2>1. new = stack
    BY <1>2 DEF Under
  <2>2. Encloses(doc, i) = {} /\ Encloses(doc, i - 1) = {}
    BY <1>1, <1>2 DEF Encloses
  <2>. QED BY <2>1, <2>2 DEF Standing
<1>3. CASE level # 0
  <2>1. level \in Levels /\ level \in Int
    BY <1>1, <1>3 DEF Levels
  <2>2. ASSUME NEW l \in Levels
        PROVE  /\ l < level => new[l] = stack[l]
               /\ l = level => new[l] = doc[i].title
               /\ l > level => new[l] = NoTitle
    <3>1. l \in Int
      BY DEF Levels
    <3>. QED BY <1>3, <2>1, <3>1 DEF Under
  <2>3. ASSUME NEW l \in Levels PROVE l < level \/ l = level \/ l > level
    BY <2>1 DEF Levels
  <2>4. new \in [Levels -> Titles(doc)]
    <3>1. new = [l \in Levels |-> new[l]]
      BY DEF Under
    <3>. HIDE DEF new
    <3>2. \A l \in Levels : new[l] \in Titles(doc)
      BY <1>1, <2>2, <2>3
    <3>. QED BY <3>1, <3>2
  <2>. HIDE DEF new
  <2>5. Encloses(doc, i) =
            {j \in Encloses(doc, i - 1) : doc[j].level < level} \cup {i}
    BY <1>3, EnclosesNext
  <2>6. \A j \in Encloses(doc, i - 1) : doc[j].level \in Levels
    BY <1>1, EnclosesType
  <2>. HIDE DEF level
  <2>7. \A j \in Encloses(doc, i) : new[doc[j].level] = doc[j].title
    <3>1. new[doc[i].level] = doc[i].title
      BY <2>1, <2>2 DEF level
    <3>. QED BY <2>2, <2>5, <2>6, <3>1 DEF Standing
  <2>8. ASSUME NEW l \in Levels, new[l] # NoTitle
        PROVE  \E j \in Encloses(doc, i) : doc[j].level = l
    <3>1. CASE l < level
      BY <2>2, <2>5, <2>8, <3>1 DEF Standing
    <3>2. CASE l = level
      BY <2>5, <3>2 DEF level
    <3>. QED BY <2>2, <2>3, <2>8, <3>1, <3>2
  <2>9. Standing(doc, i, new)
    BY <2>7, <2>8 DEF Standing
  <2>. QED BY <2>4, <2>9 DEF new, level
<1>. QED BY <1>2, <1>3

(* The titles in the stack, from the first level to the section's own, are    *)
(* those of the headings it stands under, in the document's order: levels     *)
(* grow on the way.                                                           *)
LEMMA PathIsLineage ==
  ASSUME NEW doc, IsDocument(doc), NEW i \in 1 .. Len(doc),
         NEW stack \in [Levels -> Titles(doc)], Standing(doc, i, stack)
  PROVE  HeadingPath(stack, doc[i].level) = Lineage(doc, i)
<1>. DEFINE level == doc[i].level
            E == Encloses(doc, i)
            titles == [j \in 1 .. i |-> doc[j].title]
            sub == SubSeq(stack, 1, level)
            A == {l \in DOMAIN sub : sub[l] \notin {NoTitle}}
            f == [j \in E |-> doc[j].level]
<1>1. /\ Len(doc) \in Nat /\ DOMAIN doc = 1 .. Len(doc) /\ i \in DOMAIN doc
      /\ level \in Levels \cup {0} /\ (level = 0 => i = 1)
      /\ \A j \in DOMAIN doc : doc[j].level # 0 => doc[j].title # NoTitle
  BY DocumentType
<1>2. /\ E \subseteq 1 .. i /\ E \subseteq DOMAIN doc
      /\ \A j \in E : doc[j].level \in Levels
      /\ \A j, k \in E : j < k => doc[j].level < doc[k].level
  BY <1>1, EnclosesType
<1>3. /\ sub \in Seq(Titles(doc)) /\ DOMAIN sub = 1 .. level
      /\ \A l \in 1 .. level : sub[l] = stack[l]
  <2>1. level \in Nat /\ level <= 6
    BY <1>1 DEF Levels
  <2>2. \A l \in 1 .. level : stack[l] \in Titles(doc)
    BY <2>1 DEF Levels
  <2>3. /\ sub \in Seq(Titles(doc))
        /\ Len(sub) = IF 1 <= level THEN level - 1 + 1 ELSE 0
        /\ \A l \in 1 .. level - 1 + 1 : sub[l] = stack[1 + l - 1]
    <3>1. 1 \in Int /\ level \in Int
      BY <2>1
    <3>. HIDE DEF level
    <3>. QED BY <2>2, <3>1, SubSeqProperties
  <2>4. DOMAIN sub = 1 .. Len(sub)
    BY <2>3, LenProperties
  <2>. HIDE DEF sub, level
  <2>5. Len(sub) = level
    BY <2>1, <2>3
  <2>. QED BY <2>1, <2>3, <2>4, <2>5
<1>4. \A j \in E : doc[j].level \in 1 .. level
  <2>1. ASSUME NEW j \in E PROVE doc[j].level <= level
    <3>1. j \in 1 .. i /\ (j # i => i \in j + 1 .. i)
      BY <1>2
    <3>2. j # i => level > doc[j].level
      BY <3>1 DEF Encloses
    <3>3. level \in Int /\ doc[j].level \in Int
      BY <1>1, <1>2 DEF Levels
    <3>. QED BY <3>2, <3>3
  <2>. QED BY <1>1, <1>2, <2>1 DEF Levels
<1>5. ASSUME NEW j \in E PROVE doc[j].level \in A
  <2>1. stack[doc[j].level] = doc[j].title
    BY DEF Standing
  <2>2. doc[j].level # 0 /\ doc[j].title # NoTitle
    BY <1>1, <1>2 DEF Levels
  <2>. QED BY <1>3, <1>4, <2>1, <2>2
<1>6. ASSUME NEW l \in A PROVE \E j \in E : f[j] = l
  <2>1. l \in 1 .. level /\ stack[l] # NoTitle
    BY <1>3
  <2>2. l \in Levels
    BY <1>1, <2>1 DEF Levels
  <2>. QED BY <2>1, <2>2 DEF Standing
<1>7. /\ E \in SUBSET Nat /\ IsFiniteSet(E) /\ A \in SUBSET Nat
      /\ f \in [E -> A] /\ \A j, k \in E : j < k => f[j] < f[k]
  <2>1. IsFiniteSet(1 .. i)
    BY FS_Interval
  <2>2. IsFiniteSet(E)
    BY <1>2, <2>1, FS_Subset
  <2>3. A \in SUBSET Nat /\ E \in SUBSET Nat
    BY <1>1, <1>2, <1>3
  <2>. HIDE DEF A, E
  <2>. QED BY <1>2, <1>5, <2>2, <2>3
<1>8. A \subseteq DOMAIN sub /\ \A j \in E : f[j] = doc[j].level
  OBVIOUS
<1>9. E \subseteq DOMAIN titles /\ \A j \in E : titles[j] = doc[j].title
  BY <1>2
<1>10. \A j \in E : stack[doc[j].level] = doc[j].title
  BY DEF Standing
<1>11. /\ HeadingPath(stack, level) = Picked(sub, A)
       /\ Lineage(doc, i) = Picked(titles, E)
  BY DEF HeadingPath, Without, Lineage
<1>. HIDE DEF A, E, f, sub, titles
<1>12. /\ IsFiniteSet(A) /\ Cardinality(A) = Cardinality(E)
       /\ \A k \in 1 .. Cardinality(E) : Nth(A, k) = f[Nth(E, k)]
  BY <1>6, <1>7, NthOfImage
<1>13. \A k \in 1 .. Cardinality(E) : Nth(E, k) \in E
  BY <1>7, NthProperties
<1>14. ASSUME NEW k \in 1 .. Cardinality(E)
       PROVE  sub[Nth(A, k)] = titles[Nth(E, k)]
  BY <1>3, <1>4, <1>8, <1>9, <1>10, <1>12, <1>13
<1>15. Picked(sub, A) = Picked(titles, E)
  BY <1>12, <1>14 DEF Picked
<1>. QED BY <1>11, <1>15

-----------------------------------------------------------------------------
(* The loop over the sections.                                                *)

(* What there can be of chunks, and of what the loop carries along.           *)
Chunks(doc) == [text : Text, title : Seq(Titles(doc))]

State(doc) == [chunks : Seq(Chunks(doc)), pending : Text,
               title : Seq(Titles(doc)), stack : [Levels -> Titles(doc)]]

(* The texts of the chunks made so far.                                       *)
Texts(made) == [m \in DOMAIN made |-> made[m].text]

(* They are as many as the chunks, and in their places.                       *)
LEMMA TextsType ==
  ASSUME NEW doc, NEW made \in Seq(Chunks(doc))
  PROVE  /\ Texts(made) \in Seq(Text) /\ Len(Texts(made)) = Len(made)
         /\ DOMAIN Texts(made) = DOMAIN made
         /\ \A m \in DOMAIN made : Texts(made)[m] = made[m].text
<1>. DEFINE n == Len(made)
<1>1. n \in Nat /\ DOMAIN made = 1 .. n
  BY LenProperties
<1>2. \A m \in 1 .. n : made[m] \in Chunks(doc)
  BY ElementOfSeq
<1>3. \A m \in 1 .. n : made[m].text \in Text
  BY <1>2 DEF Chunks
<1>. HIDE DEF n
<1>4. Texts(made) = [m \in 1 .. n |-> made[m].text]
  BY <1>1 DEF Texts
<1>5. [m \in 1 .. n |-> made[m].text] \in Seq(Text)
  BY <1>1, <1>3, IsASeq
<1>. QED BY <1>1, <1>4, <1>5, LenProperties DEF n

(* The texts of two rows of chunks.                                           *)
LEMMA TextsConcat ==
  ASSUME NEW doc, NEW A \in Seq(Chunks(doc)), NEW B \in Seq(Chunks(doc))
  PROVE  Texts(A \o B) = Texts(A) \o Texts(B)
<1>. DEFINE C == A \o B
            TA == Texts(A)
            TB == Texts(B)
            U == TA \o TB
            a == Len(A)
            b == Len(B)
<1>1. /\ C \in Seq(Chunks(doc)) /\ Len(C) = a + b
      /\ \A i \in 1 .. a + b : C[i] = IF i <= a THEN A[i] ELSE B[i - a]
  BY ConcatProperties
<1>2. /\ a \in Nat /\ DOMAIN A = 1 .. a /\ b \in Nat /\ DOMAIN B = 1 .. b
      /\ DOMAIN C = 1 .. a + b
  BY <1>1, LenProperties
<1>3. /\ TA \in Seq(Text) /\ Len(TA) = a /\ \A m \in 1 .. a : TA[m] = A[m].text
      /\ TB \in Seq(Text) /\ Len(TB) = b /\ \A m \in 1 .. b : TB[m] = B[m].text
  BY <1>2, TextsType
<1>. HIDE DEF C, TA, TB
<1>4. /\ Texts(C) \in Seq(Text) /\ Len(Texts(C)) = a + b
      /\ \A m \in 1 .. a + b : Texts(C)[m] = C[m].text
  BY <1>1, <1>2, TextsType
<1>5. /\ U \in Seq(Text) /\ Len(U) = a + b
      /\ \A i \in 1 .. a + b : U[i] = IF i <= a THEN TA[i] ELSE TB[i - a]
  <2>1. TA \in Seq(Text) /\ TB \in Seq(Text) /\ Len(TA) = a /\ Len(TB) = b
    BY <1>3
  <2>. HIDE DEF a, b
  <2>2. /\ TA \o TB \in Seq(Text) /\ Len(TA \o TB) = Len(TA) + Len(TB)
        /\ \A i \in 1 .. Len(TA) + Len(TB) : (TA \o TB)[i] =
              IF i <= Len(TA) THEN TA[i] ELSE TB[i - Len(TA)]
    BY ONLY <2>1, ConcatProperties
  <2>. QED BY <2>1, <2>2
<1>. HIDE DEF U, a, b
<1>6. ASSUME NEW i \in 1 .. a + b PROVE Texts(C)[i] = U[i]
  <2>1. CASE i <= a
    <3>1. i \in 1 .. a
      BY <1>2, <2>1
    <3>2. C[i] = A[i] /\ U[i] = TA[i] /\ Texts(C)[i] = C[i].text /\ TA[i] = A[i].text
      <4>1. Texts(C)[i] = C[i].text
        BY <1>4
      <4>2. TA[i] = A[i].text
        BY <1>3, <3>1
      <4>3. C[i] = A[i]
        BY <1>1, <2>1
      <4>4. U[i] = TA[i]
        BY <1>5, <2>1
      <4>. QED BY ONLY <4>1, <4>2, <4>3, <4>4
    <3>. QED BY ONLY <3>2
  <2>2. CASE ~ (i <= a)
    <3>1. i - a \in 1 .. b
      BY <1>2, <2>2
    <3>. QED BY <1>1, <1>3, <1>4, <1>5, <2>2, <3>1
  <2>. QED BY <2>1, <2>2
<1>7. Texts(C) = U
  BY <1>4, <1>5, <1>6, SeqEqual
<1>. QED BY <1>7 DEF C, U, TA, TB

-----------------------------------------------------------------------------
(* What has been cut so far, of the paragraphs S, and what waits to be.       *)
Cut(st, doc, S) ==
    /\ InOrder(Append(Texts(st.chunks), st.pending))
    /\ Held(Append(Texts(st.chunks), st.pending)) = S
    /\ \A m \in DOMAIN st.chunks :
          /\ Fits(st.chunks[m].text)
          /\ \A p \in ToSet(st.chunks[m].text) : st.chunks[m].title = Lineage(doc, p[1])
    /\ \A p \in ToSet(st.pending) : st.title = Lineage(doc, p[1])

(* flush(): the text that waits, whole or in pieces. *)
Pieces(text) ==
    IF text = <<>> THEN <<>>
    ELSE IF 5 * Length(text) <= 7 * TargetChars THEN <<text>> ELSE PackParagraphs(text)

(* Pieces are texts, whatever the text.                                       *)
LEMMA PiecesType ==
  ASSUME NEW text \in Text
  PROVE  Pieces(text) \in Seq(Text)
<1>1. PackParagraphs(text) \in Seq(Text)
  <2>1. PICK st \in [0 .. Len(text) -> PackState] :
           PackParagraphs(text) = Append(st[Len(text)].out, st[Len(text)].buf)
    BY PackSteps
  <2>2. Len(text) \in Nat
    BY LenProperties DEF Text
  <2>3. Len(text) \in 0 .. Len(text)
    BY <2>2
  <2>4. st[Len(text)] \in PackState
    BY <2>3
  <2>5. st[Len(text)].out \in Seq(Text) /\ st[Len(text)].buf \in Text
    BY <2>4 DEF PackState
  <2>. QED BY <2>1, <2>5, AppendProperties
<1>2. <<>> \in Seq(Text) /\ <<text>> \in Seq(Text)
  BY EmptySeq, OneText
<1>. QED BY <1>1, <1>2 DEF Pieces

(* Texts made chunks, under one title.                                        *)
Entitled(texts, title) ==
    [m \in DOMAIN texts |-> [text |-> texts[m], title |-> title]]

(* They are chunks, with those texts and that title.                          *)
LEMMA EntitledType ==
  ASSUME NEW doc, NEW texts \in Seq(Text), NEW title \in Seq(Titles(doc))
  PROVE  /\ Entitled(texts, title) \in Seq(Chunks(doc))
         /\ Texts(Entitled(texts, title)) = texts
         /\ DOMAIN Entitled(texts, title) = DOMAIN texts
         /\ \A m \in DOMAIN texts : /\ Entitled(texts, title)[m].text = texts[m]
                                    /\ Entitled(texts, title)[m].title = title
<1>. DEFINE entitled == Entitled(texts, title)
            n == Len(texts)
<1>1. n \in Nat /\ DOMAIN texts = 1 .. n
  BY LenProperties
<1>2. \A m \in 1 .. n : texts[m] \in Text
  BY <1>1, ElementOfSeq
<1>3. \A m \in 1 .. n : [text |-> texts[m], title |-> title] \in Chunks(doc)
  BY <1>2 DEF Chunks
<1>. HIDE DEF n
<1>4. entitled = [m \in 1 .. n |-> [text |-> texts[m], title |-> title]]
  BY <1>1 DEF Entitled
<1>5. [m \in 1 .. n |-> [text |-> texts[m], title |-> title]] \in Seq(Chunks(doc))
  BY <1>1, <1>3, IsASeq
<1>6. DOMAIN entitled = 1 .. n
      /\ \A m \in 1 .. n : entitled[m].text = texts[m] /\ entitled[m].title = title
  BY <1>4
<1>7. Texts(entitled) = [m \in 1 .. n |-> texts[m]]
  BY <1>6 DEF Texts
<1>8. texts = [m \in 1 .. n |-> texts[m]]
  BY <1>1, LenProperties
<1>. QED BY <1>1, <1>4, <1>5, <1>6, <1>7, <1>8

(* What flush() leaves: more chunks, nothing that waits, all else as it was.  *)
LEMMA FlushType ==
  ASSUME NEW doc, NEW st \in State(doc)
  PROVE  /\ Flush(st) \in State(doc)
         /\ Flush(st).chunks = st.chunks \o Entitled(Pieces(st.pending), st.title)
         /\ Flush(st).pending = <<>> /\ Flush(st).title = st.title
         /\ Flush(st).stack = st.stack
<1>. DEFINE made == st.chunks \o Entitled(Pieces(st.pending), st.title)
<1>1. /\ st.chunks \in Seq(Chunks(doc)) /\ st.pending \in Text
      /\ st.title \in Seq(Titles(doc)) /\ st.stack \in [Levels -> Titles(doc)]
  BY DEF State
<1>2. Flush(st) = [st EXCEPT !.chunks = made, !.pending = <<>>]
  BY DEF Flush, Pieces, Entitled
<1>3. Entitled(Pieces(st.pending), st.title) \in Seq(Chunks(doc))
  BY <1>1, PiecesType, EntitledType
<1>4. made \in Seq(Chunks(doc)) /\ <<>> \in Text
  BY <1>1, <1>3, ConcatElements, EmptySeq DEF Text
<1>. HIDE DEF made
<1>. QED BY <1>1, <1>2, <1>4 DEF State, made

(* The pieces of a text in order are in order, hold all of it and fit.        *)
LEMMA PiecesFaithful ==
  ASSUME NEW text \in Text, Increasing(text)
  PROVE  /\ Pieces(text) \in Seq(Text) /\ InOrder(Pieces(text))
         /\ Held(Pieces(text)) = ToSet(text)
         /\ \A m \in DOMAIN Pieces(text) : Fits(Pieces(text)[m])
<1>1. CASE text = <<>>
  BY <1>1, EmptySeq DEF Pieces, InOrder, Held, ToSet
<1>2. CASE text # <<>> /\ 5 * Length(text) <= 7 * TargetChars
  <2>. DEFINE T == <<text>>
  <2>1. DOMAIN T = {1} /\ T[1] = text
    OBVIOUS
  <2>2. T \in Seq(Text) /\ InOrder(T) /\ Held(T) = ToSet(text)
    BY OneText
  <2>3. Pieces(text) = T /\ Fits(text)
    BY <1>2 DEF Pieces, Fits
  <2>. HIDE DEF T
  <2>. QED BY <2>1, <2>2, <2>3
<1>3. CASE text # <<>> /\ ~ (5 * Length(text) <= 7 * TargetChars)
  BY <1>3, PackFaithful DEF Pieces
<1>. QED BY <1>1, <1>2, <1>3

(* flush() loses nothing and puts nothing out of its place.                   *)
LEMMA FlushCut ==
  ASSUME NEW doc, NEW st \in State(doc), NEW S, Cut(st, doc, S)
  PROVE  Cut(Flush(st), doc, S)
<1>. DEFINE texts == Pieces(st.pending)
            entitled == Entitled(texts, st.title)
            made == st.chunks \o entitled
            before == Texts(st.chunks)
<1>1. /\ st.chunks \in Seq(Chunks(doc)) /\ st.pending \in Text
      /\ st.title \in Seq(Titles(doc))
  BY DEF State
<1>3. before \in Seq(Text)
  BY <1>1, TextsType
<1>4. /\ InOrder(before) /\ Increasing(st.pending)
      /\ Precede(Held(before), ToSet(st.pending))
      /\ S = Held(before) \cup ToSet(st.pending)
  BY <1>1, <1>3, InOrderAppend DEF Cut
<1>5. /\ texts \in Seq(Text) /\ InOrder(texts) /\ Held(texts) = ToSet(st.pending)
      /\ \A m \in DOMAIN texts : Fits(texts[m])
  BY <1>1, <1>4, PiecesFaithful
<1>12. Flush(st).chunks = made /\ Flush(st).pending = <<>>
  BY FlushType
<1>. HIDE DEF texts
<1>7. /\ entitled \in Seq(Chunks(doc)) /\ Texts(entitled) = texts
      /\ DOMAIN entitled = DOMAIN texts
      /\ \A m \in DOMAIN texts : entitled[m].text = texts[m] /\ entitled[m].title = st.title
  BY <1>1, <1>5, EntitledType
<1>. HIDE DEF entitled
<1>9. made \in Seq(Chunks(doc)) /\ Texts(made) = before \o texts
  BY <1>1, <1>7, ConcatElements, TextsConcat
<1>10. ASSUME NEW m \in DOMAIN made
       PROVE  /\ Fits(made[m].text)
              /\ \A p \in ToSet(made[m].text) : made[m].title = Lineage(doc, p[1])
  <2>1. \/ m \in DOMAIN st.chunks /\ made[m] = st.chunks[m]
        \/ \E j \in DOMAIN entitled : made[m] = entitled[j]
    <3>1. /\ \A i \in DOMAIN st.chunks : made[i] = st.chunks[i]
          /\ \A j \in DOMAIN entitled : made[Len(st.chunks) + j] = entitled[j]
          /\ m \in DOMAIN st.chunks
             \/ \E j \in DOMAIN entitled : m = Len(st.chunks) + j
      BY <1>1, <1>7, ConcatElements
    <3>. QED BY <3>1
  <2>2. CASE \E j \in DOMAIN entitled : made[m] = entitled[j]
    <3>1. PICK j \in DOMAIN texts : made[m] = entitled[j]
      BY <1>7, <2>2
    <3>2. made[m].text = texts[j] /\ made[m].title = st.title
      BY <1>7, <3>1
    <3>3. ToSet(texts[j]) \subseteq ToSet(st.pending)
      BY <1>5 DEF Held
    <3>. QED BY <1>5, <3>2, <3>3 DEF Cut
  <2>. QED BY <2>1, <2>2 DEF Cut
<1>11. InOrder(before \o texts) /\ Held(before \o texts) = S
  <2>1. Precede(Held(before), Held(texts))
    BY <1>4, <1>5
  <2>. HIDE DEF before
  <2>2. InOrder(before \o texts)
    BY <1>3, <1>4, <1>5, <2>1, InOrderConcat
  <2>3. Held(before \o texts) = Held(before) \cup Held(texts)
    BY <1>3, <1>5, HeldConcat
  <2>. QED BY <1>4, <1>5, <2>2, <2>3
<1>. HIDE DEF made, before
<1>13. <<>> \in Text /\ Increasing(<<>>) /\ ToSet(<<>>) = {}
  BY EmptySeq DEF Text, Increasing, ToSet
<1>15. before \o texts \in Seq(Text)
  BY <1>3, <1>5, ConcatElements
<1>16. /\ InOrder(Append(before \o texts, <<>>))
       /\ Held(Append(before \o texts, <<>>)) = S
  <2>1. Precede(Held(before \o texts), ToSet(<<>>))
    BY <1>13 DEF Precede
  <2>. QED BY <1>11, <1>13, <1>15, <2>1, InOrderAppend
<1>. QED BY <1>9, <1>10, <1>12, <1>13, <1>16 DEF Cut

-----------------------------------------------------------------------------
(* A section more.                                                            *)

(* The paragraphs of the first k sections.                                    *)
Gathered(doc, k) == UNION {ToSet(Body(doc, i)) : i \in 1 .. k}

(* A section's own text.                                                      *)
LEMMA BodyType ==
  ASSUME NEW doc, IsDocument(doc), NEW i \in 1 .. Len(doc)
  PROVE  /\ Body(doc, i) \in Text /\ Increasing(Body(doc, i))
         /\ \A p \in ToSet(Body(doc, i)) : p[1] = i
<1>. DEFINE body == doc[i].body
            n == Len(body)
            text == Body(doc, i)
<1>1. i \in Nat /\ body \in Seq(Nat)
  BY DocumentType
<1>2. n \in Nat /\ DOMAIN body = 1 .. n /\ \A k \in 1 .. n : body[k] \in Nat
  BY <1>1, LenProperties, ElementOfSeq
<1>. HIDE DEF n
<1>3. text = [k \in 1 .. n |-> <<i, k, body[k]>>]
  BY <1>2 DEF Body
<1>. HIDE DEF body, text
<1>4. \A k \in 1 .. n : <<i, k, body[k]>> \in Paragraph
  BY <1>1, <1>2 DEF Paragraph
<1>5. [k \in 1 .. n |-> <<i, k, body[k]>>] \in Seq(Paragraph)
  BY <1>2, <1>4, IsASeq
<1>6. DOMAIN text = 1 .. n /\ \A k \in 1 .. n : text[k][1] = i /\ text[k][2] = k
  BY <1>3
<1>7. Increasing(text)
  BY <1>6 DEF Increasing, Before
<1>8. \A p \in ToSet(text) : p[1] = i
  BY <1>6 DEF ToSet
<1>. QED BY <1>3, <1>5, <1>7, <1>8 DEF Text, text

(* A section more, and all of it stands after the sections before.            *)
LEMMA GatheredNext ==
  ASSUME NEW doc, IsDocument(doc), NEW i \in 1 .. Len(doc)
  PROVE  /\ Gathered(doc, i) = Gathered(doc, i - 1) \cup ToSet(Body(doc, i))
         /\ Precede(Gathered(doc, i - 1), ToSet(Body(doc, i)))
<1>1. Len(doc) \in Nat
  BY DocumentType
<1>2. 1 .. i = (1 .. i - 1) \cup {i}
  BY <1>1
<1>3. Gathered(doc, i) = Gathered(doc, i - 1) \cup ToSet(Body(doc, i))
  BY <1>2 DEF Gathered
<1>4. ASSUME NEW p \in Gathered(doc, i - 1), NEW q \in ToSet(Body(doc, i))
      PROVE  Before(p, q)
  <2>1. PICK j \in 1 .. i - 1 : p \in ToSet(Body(doc, j))
    BY DEF Gathered
  <2>2. j \in 1 .. Len(doc) /\ j < i
    BY <1>1, <2>1
  <2>3. p[1] = j /\ q[1] = i
    BY <2>1, <2>2, BodyType
  <2>. QED BY <2>2, <2>3 DEF Before
<1>. QED BY <1>3, <1>4 DEF Precede

(* The text that waits, with the section's put after it. *)
LEMMA BodyCut ==
  ASSUME NEW doc, IsDocument(doc), NEW i \in 1 .. Len(doc),
         NEW st \in State(doc), Cut(st, doc, Gathered(doc, i - 1)),
         NEW added \in State(doc), added.chunks = st.chunks,
         added.pending = st.pending \o Body(doc, i),
         added.title = Lineage(doc, i),
         st.pending = <<>> \/ st.title = added.title
  PROVE  Cut(added, doc, Gathered(doc, i))
<1>. DEFINE before == Texts(st.chunks)
            body == Body(doc, i)
            pending == st.pending \o body
            S == Gathered(doc, i - 1)
<1>1. st.chunks \in Seq(Chunks(doc)) /\ st.pending \in Text
  BY DEF State
<1>2. body \in Text /\ Increasing(body) /\ \A p \in ToSet(body) : p[1] = i
  BY BodyType
<1>3. Gathered(doc, i) = S \cup ToSet(body) /\ Precede(S, ToSet(body))
  BY GatheredNext
<1>4. before \in Seq(Text)
  BY <1>1, TextsType
<1>5. InOrder(Append(before, st.pending)) /\ Held(Append(before, st.pending)) = S
  BY DEF Cut
<1>. HIDE DEF before, body, S
<1>6. /\ InOrder(before) /\ Increasing(st.pending)
      /\ Precede(Held(before), ToSet(st.pending))
      /\ S = Held(before) \cup ToSet(st.pending)
  BY <1>1, <1>4, <1>5, InOrderAppend
<1>7. Precede(ToSet(st.pending), ToSet(body)) /\ Precede(Held(before), ToSet(body))
  BY <1>3, <1>6 DEF Precede
<1>8. /\ pending \in Text /\ ToSet(pending) = ToSet(st.pending) \cup ToSet(body)
      /\ Increasing(pending)
  BY <1>1, <1>2, <1>6, <1>7, ConcatElements, IncreasingConcat DEF Text
<1>. HIDE DEF pending
<1>9. Precede(Held(before), ToSet(pending))
  BY <1>6, <1>7, <1>8 DEF Precede
<1>10. /\ InOrder(Append(before, pending))
       /\ Held(Append(before, pending)) = Held(before) \cup ToSet(pending)
  BY <1>4, <1>6, <1>8, <1>9, InOrderAppend
<1>11. Held(before) \cup ToSet(pending) = Gathered(doc, i)
  BY <1>3, <1>6, <1>8
<1>12. ASSUME NEW p \in ToSet(pending) PROVE added.title = Lineage(doc, p[1])
  <2>1. CASE p \in ToSet(body)
    BY <1>2, <2>1
  <2>2. CASE p \in ToSet(st.pending)
    <3>1. st.pending # <<>>
      BY <2>2 DEF ToSet
    <3>. QED BY <2>2, <3>1 DEF Cut
  <2>. QED BY <1>8, <2>1, <2>2
<1>13. added.pending = pending
  BY DEF pending, body
<1>14. Texts(added.chunks) = before
  BY DEF before
<1>. QED BY <1>10, <1>11, <1>12, <1>13, <1>14 DEF Cut

-----------------------------------------------------------------------------
(* AddSection in its steps: the path of section i, ...                        *)
PathOf(st, doc, i) ==
    HeadingPath(Under(st.stack, doc[i].level, doc[i].title), doc[i].level)

(* ... a flush before it if it stands under other headings, ...               *)
Parted(st, doc, i) == IF PathOf(st, doc, i) # st.title THEN Flush(st) ELSE st

(* ... and its headings and its text.                                         *)
Added(st, doc, i) ==
    [Parted(st, doc, i) EXCEPT
        !.stack = Under(st.stack, doc[i].level, doc[i].title),
        !.title = PathOf(st, doc, i),
        !.pending = @ \o Body(doc, i)]

(* These are the steps.                                                       *)
LEMMA AddSectionIs ==
  ASSUME NEW st, NEW doc, NEW i
  PROVE  AddSection(st, doc, i) =
            IF Length(Added(st, doc, i).pending) + 2 >= TargetChars
            THEN Flush(Added(st, doc, i)) ELSE Added(st, doc, i)
BY DEF AddSection, Added, Parted, PathOf

(* Paths are rows of titles.                                                  *)
LEMMA PathType ==
  ASSUME NEW doc, IsDocument(doc), NEW i \in 1 .. Len(doc),
         NEW stack \in [Levels -> Titles(doc)]
  PROVE  HeadingPath(stack, doc[i].level) \in Seq(Titles(doc))
<1>. DEFINE level == doc[i].level
            sub == SubSeq(stack, 1, level)
<1>1. level \in Levels \cup {0}
  BY DocumentType
<1>2. level \in Int /\ 1 \in Int /\ \A l \in 1 .. level : stack[l] \in Titles(doc)
  BY <1>1 DEF Levels
<1>. HIDE DEF level
<1>3. sub \in Seq(Titles(doc))
  BY <1>2, SubSeqProperties
<1>. HIDE DEF sub
<1>4. Without(sub, {NoTitle}) \in Seq(Titles(doc))
  BY <1>3, WithoutProperties
<1>. QED BY <1>4 DEF HeadingPath, sub, level

(* Stacks hold titles.                                                        *)
LEMMA UnderType ==
  ASSUME NEW doc, IsDocument(doc), NEW i \in 1 .. Len(doc),
         NEW stack \in [Levels -> Titles(doc)]
  PROVE  Under(stack, doc[i].level, doc[i].title) \in [Levels -> Titles(doc)]
<1>1. doc[i].title \in Titles(doc) /\ NoTitle \in Titles(doc)
  BY DocumentType DEF Titles
<1>. QED BY <1>1 DEF Under

(* What is there before the last flush.                                       *)
LEMMA AddedType ==
  ASSUME NEW doc, IsDocument(doc), NEW i \in 1 .. Len(doc), NEW st \in State(doc)
  PROVE  /\ Parted(st, doc, i) \in State(doc) /\ Added(st, doc, i) \in State(doc)
         /\ Added(st, doc, i).chunks = Parted(st, doc, i).chunks
         /\ Added(st, doc, i).pending = Parted(st, doc, i).pending \o Body(doc, i)
         /\ Added(st, doc, i).title = PathOf(st, doc, i)
         /\ Added(st, doc, i).stack = Under(st.stack, doc[i].level, doc[i].title)
<1>. DEFINE parted == Parted(st, doc, i)
            stack == Under(st.stack, doc[i].level, doc[i].title)
            trail == PathOf(st, doc, i)
            pending == parted.pending \o Body(doc, i)
<1>1. parted \in State(doc)
  BY FlushType DEF Parted
<1>2. stack \in [Levels -> Titles(doc)]
  BY UnderType DEF State
<1>3. trail \in Seq(Titles(doc))
  BY <1>2, PathType DEF PathOf
<1>. HIDE DEF parted, stack, trail
<1>4. parted.pending \in Text /\ parted.chunks \in Seq(Chunks(doc))
  BY <1>1 DEF State
<1>5. pending \in Text
  BY <1>4, BodyType, ConcatElements DEF Text
<1>6. Added(st, doc, i) = [parted EXCEPT !.stack = stack, !.title = trail, !.pending = pending]
  BY DEF Added, parted, stack, trail
<1>. HIDE DEF pending
<1>7. /\ Added(st, doc, i) \in State(doc) /\ Added(st, doc, i).chunks = parted.chunks
      /\ Added(st, doc, i).pending = pending /\ Added(st, doc, i).title = trail
      /\ Added(st, doc, i).stack = stack
  BY <1>1, <1>2, <1>3, <1>4, <1>5, <1>6 DEF State
<1>. QED BY <1>1, <1>7 DEF parted, stack, trail, pending

(* Whatever the loop carries into a section, it carries chunks out of it.     *)
LEMMA AddSectionType ==
  ASSUME NEW doc, IsDocument(doc), NEW i \in 1 .. Len(doc), NEW st \in State(doc)
  PROVE  AddSection(st, doc, i) \in State(doc)
<1>1. Added(st, doc, i) \in State(doc)
  BY AddedType
<1>. QED BY <1>1, AddSectionIs, FlushType

(* What is known after the first k sections. *)
Whereabouts(st, doc, k) ==
    Standing(doc, k, st.stack) /\ Cut(st, doc, Gathered(doc, k))

(* From a section to the next: nothing lost, nothing out of its place, and    *)
(* each chunk under the headings its paragraphs stand under.  Text that       *)
(* waits is flushed when the headings change, so what is added to it stands   *)
(* under the same ones.                                                       *)
LEMMA AddSectionCut ==
  ASSUME NEW doc, IsDocument(doc), NEW i \in 1 .. Len(doc), NEW st \in State(doc),
         Whereabouts(st, doc, i - 1)
  PROVE  Whereabouts(AddSection(st, doc, i), doc, i)
<1>. DEFINE parted == Parted(st, doc, i)
            added == Added(st, doc, i)
<1>1. st.stack \in [Levels -> Titles(doc)] /\ Standing(doc, i - 1, st.stack)
  BY DEF State, Whereabouts
<1>2. /\ parted \in State(doc) /\ added \in State(doc)
      /\ added.chunks = parted.chunks
      /\ added.pending = parted.pending \o Body(doc, i)
      /\ added.title = PathOf(st, doc, i)
      /\ added.stack = Under(st.stack, doc[i].level, doc[i].title)
  BY AddedType
<1>3. /\ added.stack \in [Levels -> Titles(doc)] /\ Standing(doc, i, added.stack)
  BY <1>1, <1>2, StandingNext
<1>4. added.title = Lineage(doc, i)
  BY <1>2, <1>3, PathIsLineage DEF PathOf
<1>5. Cut(parted, doc, Gathered(doc, i - 1))
  BY FlushCut DEF Parted, Whereabouts
<1>6. parted.pending = <<>> \/ parted.title = added.title
  BY <1>2, FlushType DEF Parted
<1>. HIDE DEF parted, added
<1>7. Cut(added, doc, Gathered(doc, i))
  BY <1>2, <1>4, <1>5, <1>6, BodyCut
<1>8. Cut(Flush(added), doc, Gathered(doc, i)) /\ Flush(added).stack = added.stack
  BY <1>2, <1>7, FlushCut, FlushType
<1>9. AddSection(st, doc, i) \in {added, Flush(added)}
  BY AddSectionIs DEF added
<1>. QED BY <1>3, <1>7, <1>8, <1>9 DEF Whereabouts

-----------------------------------------------------------------------------
(* The loop. *)

(* The start of it, its fold written out, and the flush after it.             *)
AtFirst == [chunks |-> <<>>, pending |-> <<>>, title |-> <<>>,
            stack |-> [l \in Levels |-> NoTitle]]

Places(doc) == [i \in DOMAIN doc |-> i]

Sections(doc) ==
    CHOOSE h : h = [S \in SUBSET DOMAIN Places(doc) |->
                       IF S = {} THEN AtFirst
                       ELSE AddSection(h[S \ {Max(S)}], doc, Places(doc)[Max(S)])]

AtLast(doc) == Flush(Sections(doc)[DOMAIN Places(doc)])

(* The written-out fold is the library's.                                     *)
LEMMA SectionFolds ==
  \A doc : ChunkMarkdown(doc) =
              Picked(AtLast(doc).chunks,
                     {i \in DOMAIN AtLast(doc).chunks :
                         Length(AtLast(doc).chunks[i].text) >= MinChars})
BY DEF ChunkMarkdown, FoldLeftDomain, FoldLeft, MapThenFoldSet, Max, AtFirst, AtLast,
       Sections, Places

(* Nothing is cut yet, and nothing stands open.                               *)
LEMMA AtFirstCut ==
  ASSUME NEW doc, IsDocument(doc)
  PROVE  AtFirst \in State(doc) /\ Whereabouts(AtFirst, doc, 0)
<1>1. AtFirst \in State(doc)
  BY EmptySeq DEF AtFirst, State, Text, Titles
<1>2. Encloses(doc, 0) = {} /\ Gathered(doc, 0) = {}
  BY DEF Encloses, Gathered
<1>3. Standing(doc, 0, AtFirst.stack)
  BY <1>2 DEF Standing, AtFirst
<1>4. Texts(<<>>) = <<>>
  BY DEF Texts
<1>5. /\ <<>> \in Text /\ <<>> \in Seq(Text) /\ Increasing(<<>>)
      /\ ToSet(<<>>) = {} /\ Held(<<>>) = {} /\ InOrder(<<>>)
  BY EmptySeq DEF Text, Increasing, ToSet, Held, InOrder
<1>6. Precede(Held(<<>>), ToSet(<<>>))
  BY <1>5 DEF Precede
<1>7. InOrder(Append(<<>>, <<>>)) /\ Held(Append(<<>>, <<>>)) = {}
  BY <1>5, <1>6, InOrderAppend
<1>8. AtFirst.chunks = <<>> /\ AtFirst.pending = <<>>
  BY DEF AtFirst
<1>9. Append(Texts(AtFirst.chunks), AtFirst.pending) = Append(<<>>, <<>>)
  BY <1>4, <1>8
<1>10. DOMAIN AtFirst.chunks = {} /\ ToSet(AtFirst.pending) = {}
  BY <1>5, <1>8
<1>11. Cut(AtFirst, doc, {})
  BY <1>7, <1>9, <1>10 DEF Cut
<1>. QED BY <1>1, <1>2, <1>3, <1>11 DEF Whereabouts

(* Section by section, the loop goes from its start to its end.               *)
LEMMA SectionSteps ==
  ASSUME NEW doc, IsDocument(doc)
  PROVE  \E st \in [0 .. Len(doc) -> State(doc)] :
            /\ st[0] = AtFirst
            /\ \A k \in 1 .. Len(doc) : st[k] = AddSection(st[k - 1], doc, k)
            /\ AtLast(doc) = Flush(st[Len(doc)])
<1>. DEFINE n == Len(doc)
            V == State(doc)
            h == Sections(doc)
            F == [x \in V \X (1 .. n) |-> AddSection(x[1], doc, x[2])]
<1>1. n \in Nat /\ DOMAIN doc = 1 .. n
  BY DocumentType
<1>2. \A a \in V, i \in 1 .. n : AddSection(a, doc, i) \in V
  BY AddSectionType
<1>. HIDE DEF n, V
<1>3. F \in [V \X (1 .. n) -> V]
  BY <1>2
<1>4. AtFirst \in V
  BY AtFirstCut DEF V
<1>5. \A a \in V, i \in 1 .. n : F[<<a, i>>] = AddSection(a, doc, i)
  OBVIOUS
<1>6. DOMAIN Places(doc) = 1 .. n /\ \A i \in 1 .. n : Places(doc)[i] = i
  BY <1>1 DEF Places
<1>. HIDE DEF F
<1>7. PICK g \in [SUBSET (1 .. n) -> V] : IsFold(g, F, AtFirst, n, V)
  BY <1>1, <1>3, <1>4, FoldExists
<1>8. g = [S \in SUBSET DOMAIN Places(doc) |-> IF S = {} THEN AtFirst
                  ELSE AddSection(g[S \ {Max(S)}], doc, Places(doc)[Max(S)])]
  <2>1. ASSUME NEW S \in SUBSET (1 .. n), S # {}
        PROVE  g[S] = AddSection(g[S \ {Max(S)}], doc, Places(doc)[Max(S)])
    <3>1. Max(S) \in 1 .. n
      BY <1>1, <2>1, MaxProperties
    <3>2. g[S \ {Max(S)}] \in V
      OBVIOUS
    <3>. QED BY <1>5, <1>6, <1>7, <2>1, <3>1, <3>2 DEF IsFold
  <2>. QED BY <1>6, <1>7, <2>1 DEF IsFold
<1>9. h = [S \in SUBSET (1 .. n) |-> IF S = {} THEN AtFirst
                  ELSE AddSection(h[S \ {Max(S)}], doc, Places(doc)[Max(S)])]
  BY <1>6, <1>8 DEF Sections
<1>. HIDE DEF h
<1>10. IsFold(h, F, AtFirst, n, V)
  <2>1. ASSUME NEW S \in SUBSET (1 .. n), S # {}, h[S \ {Max(S)}] \in V
        PROVE  h[S] = F[<<h[S \ {Max(S)}], Max(S)>>]
    <3>1. Max(S) \in 1 .. n
      BY <1>1, <2>1, MaxProperties
    <3>2. h[S] = AddSection(h[S \ {Max(S)}], doc, Places(doc)[Max(S)])
      BY <1>9, <2>1
    <3>3. Places(doc)[Max(S)] = Max(S)
      BY <1>6, <3>1
    <3>. QED BY <1>5, <2>1, <3>1, <3>2, <3>3
  <2>. QED BY <1>9, <2>1 DEF IsFold
<1>11. RunsTo(F, AtFirst, n, V, h[1 .. n])
  BY <1>1, <1>3, <1>4, <1>10, FoldSteps
<1>12. PICK st \in [0 .. n -> V] :
          /\ st[0] = AtFirst /\ st[n] = h[1 .. n]
          /\ \A k \in 1 .. n : st[k] = F[<<st[k - 1], k>>]
  BY <1>11 DEF RunsTo
<1>13. ASSUME NEW k \in 1 .. n PROVE st[k] = AddSection(st[k - 1], doc, k)
  <2>1. st[k - 1] \in V /\ st[k] = F[<<st[k - 1], k>>]
    BY <1>1, <1>12
  <2>. QED BY <1>5, <2>1
<1>14. AtLast(doc) = Flush(h[1 .. n])
  BY <1>6 DEF h, AtLast
<1>. QED BY <1>12, <1>13, <1>14 DEF n, V

(* At the end every paragraph is in a chunk. *)
LEMMA AtLastCut ==
  ASSUME NEW doc, IsDocument(doc)
  PROVE  AtLast(doc) \in State(doc) /\ AtLast(doc).pending = <<>>
         /\ Cut(AtLast(doc), doc, Paragraphs(doc))
<1>. DEFINE n == Len(doc)
<1>1. n \in Nat /\ DOMAIN doc = 1 .. n
  BY DocumentType
<1>2. PICK st \in [0 .. n -> State(doc)] :
            /\ st[0] = AtFirst
            /\ \A k \in 1 .. n : st[k] = AddSection(st[k - 1], doc, k)
            /\ AtLast(doc) = Flush(st[n])
  BY SectionSteps
<1>. DEFINE T == {k \in 0 .. n : Whereabouts(st[k], doc, k)}
<1>3. 0 \in T
  BY <1>1, <1>2, AtFirstCut
<1>4. ASSUME NEW k \in 1 .. n, k - 1 \in T PROVE k \in T
  <2>1. k \in 0 .. n /\ st[k - 1] \in State(doc) /\ Whereabouts(st[k - 1], doc, k - 1)
    BY <1>1, <1>4
  <2>2. Whereabouts(st[k], doc, k)
    BY <1>2, <2>1, AddSectionCut
  <2>. QED BY <2>1, <2>2
<1>. HIDE DEF T, n
<1>5. n \in T
  BY <1>1, <1>3, <1>4, UpTo
<1>6. st[n] \in State(doc) /\ Cut(st[n], doc, Gathered(doc, n))
  BY <1>1, <1>5 DEF T, Whereabouts
<1>7. Gathered(doc, n) = Paragraphs(doc)
  BY <1>1 DEF Gathered, Paragraphs
<1>. QED BY <1>2, <1>6, <1>7, FlushCut, FlushType

-----------------------------------------------------------------------------
(* Texts in order stay in order when some are left out. *)
LEMMA InOrderPicked ==
  ASSUME NEW A \in Seq(Text), InOrder(A), NEW P \in SUBSET DOMAIN A
  PROVE  InOrder(Picked(A, P)) /\ Held(Picked(A, P)) \subseteq Held(A)
<1>. DEFINE B == Picked(A, P)
            n == Cardinality(P)
<1>1. /\ B \in Seq(Text) /\ DOMAIN B = 1 .. n
      /\ \A k \in 1 .. n : Nth(P, k) \in P /\ B[k] = A[Nth(P, k)]
  BY PickedProperties
<1>2. P \in SUBSET Nat /\ IsFiniteSet(P)
  BY PlacesFinite
<1>3. \A k, l \in 1 .. n : k < l => Nth(P, k) < Nth(P, l)
  BY <1>2, NthProperties
<1>. HIDE DEF B, n
<1>4. /\ \A m \in DOMAIN A : Increasing(A[m])
      /\ \A k, l \in DOMAIN A : k < l => Precede(ToSet(A[k]), ToSet(A[l]))
  BY InOrderPairwise
<1>5. \A m \in DOMAIN B : Increasing(B[m])
  BY <1>1, <1>4
<1>6. \A k, l \in DOMAIN B : k < l => Precede(ToSet(B[k]), ToSet(B[l]))
  BY <1>1, <1>3, <1>4
<1>7. InOrder(B)
  BY <1>1, <1>5, <1>6, InOrderPairwise
<1>8. Held(B) \subseteq Held(A)
  BY <1>1 DEF Held
<1>. QED BY <1>7, <1>8 DEF B

(* chunk_markdown, of any document: its chunks' texts are in the document's   *)
(* order with nothing twice, are made of its paragraphs, hold each paragraph  *)
(* of at least min_chars, carry the headings their paragraphs stand under,    *)
(* and are longer than 1.4 times the target only where one paragraph is.      *)
THEOREM ChunkMarkdownFaithful ==
  ASSUME NEW doc, IsDocument(doc)
  PROVE  /\ ChunkMarkdown(doc) \in Seq(Chunks(doc))
         /\ FaithfulTo(doc, ChunkMarkdown(doc))
<1>. DEFINE A == AtLast(doc).chunks
            P == {i \in DOMAIN A : Length(A[i].text) >= MinChars}
            C == Picked(A, P)
            n == Cardinality(P)
            S == Paragraphs(doc)
<1>1. AtLast(doc) \in State(doc) /\ AtLast(doc).pending = <<>> /\ Cut(AtLast(doc), doc, S)
  BY AtLastCut
<1>2. ChunkMarkdown(doc) = C
  BY SectionFolds
<1>3. A \in Seq(Chunks(doc)) /\ <<>> \in Text /\ ToSet(<<>>) = {}
  BY <1>1, EmptySeq DEF State, Text, ToSet
<1>4. InOrder(Append(Texts(A), <<>>)) /\ Held(Append(Texts(A), <<>>)) = S
  BY <1>1 DEF Cut
<1>5. /\ \A m \in DOMAIN A :
            /\ Fits(A[m].text)
            /\ \A p \in ToSet(A[m].text) : A[m].title = Lineage(doc, p[1])
  BY <1>1 DEF Cut
<1>. HIDE DEF A, S
<1>6. /\ Texts(A) \in Seq(Text) /\ DOMAIN Texts(A) = DOMAIN A
      /\ \A m \in DOMAIN A : Texts(A)[m] = A[m].text
  BY <1>3, TextsType
<1>7. InOrder(Texts(A)) /\ Held(Texts(A)) = S
  BY <1>3, <1>4, <1>6, InOrderAppend
<1>8. P \in SUBSET DOMAIN A
  OBVIOUS
<1>9. \A i \in DOMAIN A : i \in P <=> Length(A[i].text) >= MinChars
  OBVIOUS
<1>. HIDE DEF P
<1>10. /\ C \in Seq(Chunks(doc)) /\ DOMAIN C = 1 .. n
       /\ \A k \in 1 .. n : Nth(P, k) \in P /\ C[k] = A[Nth(P, k)]
  BY <1>3, <1>8, PickedProperties
<1>11. \A i \in P : Rank(P, i) \in 1 .. n /\ Nth(P, Rank(P, i)) = i
  <2>1. P \in SUBSET Nat /\ IsFiniteSet(P)
    BY <1>3, <1>8, PlacesFinite
  <2>. QED BY <2>1, RankType, NthProperties
<1>12. Texts(C) = Picked(Texts(A), P)
  <2>1. Texts(C) = [k \in 1 .. n |-> C[k].text]
    BY <1>10 DEF Texts
  <2>2. \A k \in 1 .. n : C[k].text = Texts(A)[Nth(P, k)]
    BY <1>6, <1>8, <1>10
  <2>. QED BY <2>1, <2>2 DEF Picked
<1>13. InOrder(Texts(C)) /\ Held(Texts(C)) \subseteq S
  BY <1>6, <1>7, <1>8, <1>12, InOrderPicked
<1>. HIDE DEF C, n
<1>14. /\ DOMAIN Texts(C) = DOMAIN C
       /\ \A k \in DOMAIN C : Texts(C)[k] = C[k].text
  BY <1>10, TextsType
<1>15. ASSUME NEW p \in S, p[3] >= MinChars PROVE p \in Held(Texts(C))
  <2>1. PICK m \in DOMAIN A : p \in ToSet(A[m].text)
    BY <1>6, <1>7 DEF Held
  <2>2. A[m].text \in Text
    <3>1. m \in 1 .. Len(A)
      BY <1>3, LenProperties
    <3>2. A[m] \in Chunks(doc)
      BY <1>3, <3>1, ElementOfSeq
    <3>. QED BY <3>2 DEF Chunks
  <2>3. Length(A[m].text) \in Int /\ p[3] <= Length(A[m].text) /\ p[3] \in Nat
    <3>1. PICK i \in DOMAIN A[m].text : p = A[m].text[i]
      BY <2>1 DEF ToSet
    <3>2. p \in Paragraph
      BY <2>2, <3>1, ElementOfSeq, LenProperties DEF Text
    <3>. QED BY <2>2, <3>1, <3>2, LengthType, LengthCovers DEF Paragraph
  <2>4. MinChars \in Nat
    BY ChunkerAssumption
  <2>5. Length(A[m].text) >= MinChars
    BY <1>15, <2>3, <2>4
  <2>6. m \in P
    BY <1>9, <2>5
  <2>. DEFINE k == Rank(P, m)
  <2>7. k \in DOMAIN C /\ C[k] = A[m]
    BY <1>10, <1>11, <2>6
  <2>. HIDE DEF k
  <2>. QED BY <1>14, <2>1, <2>7 DEF Held
<1>16. ASSUME NEW k \in DOMAIN C
       PROVE  /\ Fits(C[k].text)
              /\ \A p \in ToSet(C[k].text) : C[k].title = Lineage(doc, p[1])
  BY <1>5, <1>8, <1>10
<1>17. FaithfulTo(doc, C)
  <2>1. Texts(C) = [m \in DOMAIN C |-> C[m].text]
    BY DEF Texts
  <2>2. \A m \in DOMAIN C : \A p \in ToSet(Texts(C)[m]) : C[m].title = Lineage(doc, p[1])
    BY <1>14, <1>16
  <2>3. \A m \in DOMAIN Texts(C) :
           5 * Length(Texts(C)[m]) <= 7 * TargetChars \/ Len(Texts(C)[m]) = 1
    BY <1>14, <1>16 DEF Fits
  <2>. QED BY <1>13, <1>15, <2>1, <2>2, <2>3 DEF FaithfulTo, S
<1>. QED BY <1>2, <1>10, <1>17

-----------------------------------------------------------------------------
(* The chunks of a build, path by path.                                       *)

(* What says it is of path i, as ChunksFaithful picks it.                     *)
RowOf(s, i) == Picked(s, {m \in DOMAIN s : s[m].source = i})

(* Of rows one after the other, whose elements say which row they are of,     *)
(* what says it is of row i is row i.                                         *)
THEOREM RowsOfFlattened ==
  ASSUME NEW X, NEW seqs \in Seq(Seq(X)),
         \A k \in DOMAIN seqs : \A x \in ToSet(seqs[k]) : x.source = k
  PROVE  /\ FlattenSeq(seqs) \in Seq(X)
         /\ \A x \in ToSet(FlattenSeq(seqs)) : x.source \in DOMAIN seqs
         /\ \A i \in DOMAIN seqs : RowOf(FlattenSeq(seqs), i) = seqs[i]
<1>. DEFINE n == Len(seqs)
<1>1. n \in Nat /\ DOMAIN seqs = 1 .. n /\ \A k \in 1 .. n : seqs[k] \in Seq(X)
  BY LenProperties, ElementOfSeq
<1>2. PICK f \in [0 .. n -> Seq(X)] :
         /\ f[0] = <<>>
         /\ \A k \in 1 .. n : f[k] = f[k - 1] \o seqs[k]
         /\ FlattenSeq(seqs) = f[n]
  BY FlattenSteps
<1>. HIDE DEF n
<1>. DEFINE Rows(k) == /\ \A x \in ToSet(f[k]) : x.source \in 1 .. k
                       /\ \A i \in 1 .. k : RowOf(f[k], i) = seqs[i]
            T == {k \in 0 .. n : Rows(k)}
<1>3. 0 \in T
  <2>1. ToSet(f[0]) = {} /\ 0 \in 0 .. n
    BY <1>1, <1>2 DEF ToSet
  <2>. QED BY <2>1
<1>4. ASSUME NEW k \in 1 .. n, k - 1 \in T PROVE k \in T
  <2>. DEFINE s == f[k - 1]
              t == seqs[k]
              u == s \o t
  <2>. HIDE DEF Rows
  <2>0. k \in 0 .. n /\ k - 1 \in 0 .. n /\ Rows(k - 1)
    BY <1>1, <1>4
  <2>1. s \in Seq(X) /\ t \in Seq(X) /\ k \in 0 .. n /\ f[k] = u /\ Rows(k - 1)
    BY <1>1, <1>2, <2>0
  <2>. HIDE DEF s, t
  <2>2. /\ u \in Seq(X) /\ ToSet(u) = ToSet(s) \cup ToSet(t)
        /\ \A i \in DOMAIN s : i \in DOMAIN u /\ u[i] = s[i]
        /\ \A j \in DOMAIN t : Len(s) + j \in DOMAIN u /\ u[Len(s) + j] = t[j]
        /\ \A m \in DOMAIN u : m \in DOMAIN s \/ \E j \in DOMAIN t : m = Len(s) + j
    <3>1. s \in Seq(X) /\ t \in Seq(X)
      BY <2>1
    <3>. QED BY ONLY <3>1, ConcatElements DEF u
  <2>. HIDE DEF u
  <2>3. /\ \A x \in ToSet(t) : x.source = k
        /\ \A j \in DOMAIN t : t[j].source = k
    <3>1. \A x \in ToSet(t) : x.source = k
      BY <1>1 DEF t
    <3>2. \A j \in DOMAIN t : t[j] \in ToSet(t)
      BY ONLY DEF ToSet
    <3>. QED BY ONLY <3>1, <3>2
  <2>4. /\ \A x \in ToSet(s) : x.source \in 1 .. k - 1
        /\ \A i \in DOMAIN s : s[i].source \in 1 .. k - 1
    BY <2>1 DEF ToSet, Rows, s
  <2>5. \A x \in ToSet(u) : x.source \in 1 .. k
    <3>1. k \in 1 .. k /\ \A i \in 1 .. k - 1 : i \in 1 .. k
      BY <1>1
    <3>. QED BY <2>2, <2>3, <2>4, <3>1
  <2>6. \A m \in DOMAIN u : m \notin DOMAIN s => u[m].source = k
    BY <2>2, <2>3
  <2>7. \A m \in DOMAIN s : u[m] = s[m] /\ u[m].source # k
    BY <2>2, <2>4
  <2>8. RowOf(u, k) = t
    <3>. DEFINE P == {m \in DOMAIN u : u[m].source = k}
    <3>1. /\ P \subseteq DOMAIN u
          /\ \A m \in DOMAIN u : m \in P <=> m \notin DOMAIN s
      BY <2>6, <2>7
    <3>2. RowOf(u, k) = Picked(u, P)
      BY DEF RowOf
    <3>. HIDE DEF P
    <3>. QED BY <2>1, <3>1, <3>2, PickedSecond DEF u
  <2>9. ASSUME NEW i \in 1 .. k - 1 PROVE RowOf(u, i) = seqs[i]
    <3>. DEFINE P == {m \in DOMAIN s : s[m].source = i}
    <3>1. i # k
      OBVIOUS
    <3>2. {m \in DOMAIN u : u[m].source = i} = P
      BY <2>2, <2>6, <2>7, <3>1
    <3>3. \A j \in 1 .. Cardinality(P) : Nth(P, j) \in P
      <4>1. P \in SUBSET DOMAIN s
        OBVIOUS
      <4>. HIDE DEF P
      <4>. QED BY <2>1, <4>1, PickedProperties
    <3>4. \A m \in P : u[m] = s[m]
      BY <2>7
    <3>5. Picked(u, P) = Picked(s, P)
      <4>. HIDE DEF P
      <4>1. \A j \in 1 .. Cardinality(P) : u[Nth(P, j)] = s[Nth(P, j)]
        BY <3>3, <3>4
      <4>. QED BY <4>1 DEF Picked
    <3>6. RowOf(s, i) = seqs[i]
      BY <2>1 DEF Rows, s
    <3>. QED BY <3>2, <3>5, <3>6 DEF RowOf
  <2>10. \A i \in 1 .. k : RowOf(u, i) = seqs[i]
    <3>1. \A i \in 1 .. k : i \in 1 .. k - 1 \/ i = k
      BY <1>1
    <3>. QED BY <2>8, <2>9, <3>1 DEF t
  <2>11. Rows(k)
    BY <2>1, <2>5, <2>10 DEF Rows
  <2>. QED BY <2>1, <2>11
<1>. HIDE DEF T
<1>5. n \in T
  BY <1>1, <1>3, <1>4, UpTo
<1>6. Rows(n) /\ f[n] \in Seq(X)
  BY <1>1, <1>5 DEF T
<1>. QED BY <1>1, <1>2, <1>6

-----------------------------------------------------------------------------
(* Where files come from.                                                    *)

Trusted(file) ==
    /\ file.whole
    /\ file.by \in local \/ (https /\ pin \in {NoPin, file.by})

(* How far a download is says what is known of tmp.                          *)
Downloaded ==
    /\ boot \in Booting \ {"checking"} => https
    /\ boot \in {"streaming", "verifying", "installing"} => tmp \in File
    /\ boot \in {"verifying", "installing"} => tmp.whole
    /\ boot = "installing" => pin \in {NoPin, tmp.by}

(* All that is known of the files and of a download on its way.               *)
Origin ==
    /\ release \in File \cup {NoFile}
    /\ Downloaded
    /\ \A file \in {path, index} \ {NoFile} : Trusted(file)

(* What a build leaves is whole.                                              *)
LEMMA WholeFile == \A b : Whole(b).whole /\ Whole(b).by = b
BY DEF Whole

(* Before the first boot there is no file.                                    *)
LEMMA OriginAtFirst == Init => Origin
BY DEF Init, Origin, Downloaded, Booting

(* Builds put whole files on the volume, which then are local ones, or at     *)
(* the URL.                                                                   *)
LEMMA OriginBuild ==
  ASSUME Origin, BuildStep \/ ForeignRelease, build \in Nat, build <= MaxBuilds,
         phase # "idle" => build > 0
  PROVE  Origin'
<1>1. phase # "idle" => Whole(build) \in File
  BY IndexSupplyAssumption DEF Whole, File, Builds
<1>2. Whole(Foreign) \in File
  BY DEF Whole, File
<1>3. CASE InstallLocally
  <2>1. /\ path' = Whole(build) /\ local' = local \cup {build}
        /\ UNCHANGED <<build, release, https, pin, boot, tmp, index>>
    BY <1>3 DEF InstallLocally, releaseVars, configVars, storeVars
  <2>2. Trusted(Whole(build))'
    BY <2>1, WholeFile DEF Trusted
  <2>3. \A file : Trusted(file) => Trusted(file)'
    BY <2>1 DEF Trusted
  <2>. QED BY <2>1, <2>2, <2>3 DEF Origin, Downloaded
<1>4. CASE Unpublish \/ Publish \/ ForeignRelease
  <2>1. UNCHANGED agentVars /\ release' \in {NoFile, Whole(build), Whole(Foreign)}
    BY <1>4 DEF Unpublish, Publish, ForeignRelease
  <2>2. release' \in File \cup {NoFile}
    BY <1>1, <1>2, <1>4 DEF Unpublish, Publish, ForeignRelease
  <2>. QED BY <2>1, <2>2 DEF Origin, Downloaded, Trusted, agentVars, configVars,
                             fileVars, storeVars
<1>5. CASE Fetch \/ Embed \/ BuildFails \/ Write
  <2>1. UNCHANGED <<release, agentVars>>
    BY <1>5 DEF Fetch, Embed, BuildFails, Write, releaseVars
  <2>. QED BY <2>1 DEF Origin, Downloaded, Trusted, agentVars, configVars,
                       fileVars, storeVars
<1>. QED BY <1>3, <1>4, <1>5 DEF BuildStep

(* A boot installs what it has verified; a crash leaves a half-written tmp    *)
(* where nothing loads it.                                                    *)
LEMMA OriginAgent ==
  ASSUME Origin, BootStep \/ Crash \/ Load
  PROVE  Origin'
<1>. USE DEF Booting
<1>1. /\ release' = release /\ https' = https /\ pin' = pin /\ local' = local
  BY DEF BootStep, Start, CheckPath, Request, StreamEnds, Verify, Install, GiveUp,
         Crash, Load, releaseVars, configVars, fileVars
<1>2. \A file : Trusted(file)' = Trusted(file)
  BY <1>1 DEF Trusted
<1>3. CASE Start \/ CheckPath \/ GiveUp
  <2>1. UNCHANGED <<path, index>>
    BY <1>3 DEF Start, CheckPath, GiveUp, fileVars, storeVars
  <2>2. boot' \in {"checking", "requesting", "up"} /\ (boot' = "requesting" => https)
    BY <1>3 DEF Start, CheckPath, GiveUp, Moves
  <2>. QED BY <1>1, <1>2, <2>1, <2>2 DEF Origin, Downloaded
<1>4. CASE Request
  <2>1. /\ boot = "requesting" /\ boot' = "streaming" /\ release # NoFile
        /\ tmp' = [release EXCEPT !.whole = FALSE] /\ UNCHANGED <<path, index>>
    BY <1>4 DEF Request, Moves, storeVars
  <2>2. release \in File
    BY <2>1 DEF Origin
  <2>3. tmp' \in File
    BY <2>1, <2>2 DEF File
  <2>. QED BY <1>1, <1>2, <2>1, <2>3 DEF Origin, Downloaded
<1>5. CASE StreamEnds
  <2>1. /\ boot = "streaming" /\ boot' = "verifying"
        /\ tmp' = [tmp EXCEPT !.whole = TRUE] /\ UNCHANGED <<path, index>>
    BY <1>5 DEF StreamEnds, Moves, storeVars
  <2>2. tmp \in File
    BY <2>1 DEF Origin, Downloaded
  <2>3. tmp' \in File /\ tmp'.whole
    BY <2>1, <2>2 DEF File
  <2>. QED BY <1>1, <1>2, <2>1, <2>3 DEF Origin, Downloaded
<1>6. CASE Verify
  <2>1. boot = "verifying" /\ UNCHANGED <<path, index>>
    BY <1>6 DEF Verify, storeVars
  <2>2. \/ pin \in {NoPin, tmp.by} /\ boot' = "installing" /\ tmp' = tmp
        \/ boot' = "up"
    BY <1>6 DEF Verify
  <2>. QED BY <1>1, <1>2, <2>1, <2>2 DEF Origin, Downloaded
<1>7. CASE Install
  <2>1. /\ boot = "installing" /\ boot' = "up" /\ path' = tmp /\ index' = index
    BY <1>7 DEF Install, Moves, storeVars
  <2>2. Trusted(tmp)
    BY <2>1 DEF Origin, Downloaded, Trusted
  <2>. QED BY <1>1, <1>2, <2>1, <2>2 DEF Origin, Downloaded
<1>8. CASE Crash
  <2>1. boot' = "down" /\ index' = NoFile /\ path' = path
    BY <1>8 DEF Crash, fileVars
  <2>. QED BY <1>1, <1>2, <2>1 DEF Origin, Downloaded
<1>9. CASE Load
  <2>1. boot' = boot /\ index' = path /\ path' = path /\ tmp' = tmp
    BY <1>9 DEF Load, fileVars
  <2>. QED BY <1>1, <1>2, <2>1 DEF Origin, Downloaded
<1>. QED BY <1>3, <1>4, <1>5, <1>6, <1>7, <1>8, <1>9 DEF BootStep

-----------------------------------------------------------------------------
(* What a build gathers from its documents.                                  *)

Sourced(paths) ==
    [source : DOMAIN paths, chunk : UNION {Chunks(paths[i]) : i \in DOMAIN paths}]

(* The chunks are those of the documents that came, path by path.            *)
Gathering ==
    /\ docs \in Documents
    /\ chunks \in Seq(Sourced(docs))
    /\ DOMAIN fetched \subseteq DOMAIN docs
    /\ \A i \in DOMAIN fetched :
          /\ fetched[i] \in {docs[i], Skipped}
          /\ RowOf(chunks, i) = IF fetched[i] = Skipped THEN <<>> ELSE FileChunks(i)

(* Nothing is gathered before the first build.                                *)
LEMMA GatheringAtFirst == Init => Gathering
BY EmptySeq DEF Init, Gathering

(* One document's chunks, each with its path.                                 *)
LEMMA FileChunksType ==
  ASSUME docs \in Documents, NEW i \in DOMAIN docs
  PROVE  /\ IsDocument(docs[i]) /\ docs[i] # Skipped
         /\ FileChunks(i) \in Seq(Sourced(docs))
         /\ \A x \in ToSet(FileChunks(i)) : x.source = i
         /\ [k \in DOMAIN FileChunks(i) |-> FileChunks(i)[k].chunk] = ChunkMarkdown(docs[i])
<1>. DEFINE of_file == ChunkMarkdown(docs[i])
            n == Len(of_file)
            rows == FileChunks(i)
<1>1. IsDocument(docs[i]) /\ docs[i] # Skipped
  BY IndexSupplyAssumption
<1>2. of_file \in Seq(Chunks(docs[i]))
  BY <1>1, ChunkMarkdownFaithful
<1>. HIDE DEF of_file
<1>3. n \in Nat /\ DOMAIN of_file = 1 .. n /\ \A k \in 1 .. n : of_file[k] \in Chunks(docs[i])
  BY <1>2, LenProperties, ElementOfSeq
<1>. HIDE DEF n
<1>4. rows = [k \in 1 .. n |-> [source |-> i, chunk |-> of_file[k]]]
  BY <1>3 DEF FileChunks, of_file
<1>5. \A k \in 1 .. n : [source |-> i, chunk |-> of_file[k]] \in Sourced(docs)
  BY <1>3 DEF Sourced
<1>6. [k \in 1 .. n |-> [source |-> i, chunk |-> of_file[k]]] \in Seq(Sourced(docs))
  BY <1>3, <1>5, IsASeq
<1>. HIDE DEF rows
<1>7. DOMAIN rows = 1 .. n /\ \A k \in 1 .. n : rows[k].source = i /\ rows[k].chunk = of_file[k]
  BY <1>4
<1>8. [k \in DOMAIN rows |-> rows[k].chunk] = [k \in 1 .. n |-> of_file[k]]
  BY <1>7
<1>9. of_file = [k \in 1 .. n |-> of_file[k]]
  BY <1>2, <1>3, LenProperties
<1>10. \A x \in ToSet(rows) : x.source = i
  BY <1>7 DEF ToSet
<1>. QED BY <1>1, <1>4, <1>6, <1>8, <1>9, <1>10 DEF rows, of_file

(* A build gathers the chunks of the documents that came.                     *)
LEMMA FetchGathers ==
  ASSUME Gathering, Fetch
  PROVE  Gathering'
<1>1. PICK missing \in SUBSET DOMAIN docs :
         /\ fetched' = [i \in DOMAIN docs |-> IF i \in missing THEN Skipped ELSE docs[i]]
         /\ chunks' = FlattenSeq([i \in DOMAIN docs |->
                                    IF i \in missing THEN <<>> ELSE FileChunks(i)])
  BY DEF Fetch
<1>2. docs' = docs /\ docs \in Documents
  BY DEF Fetch, Gathering
<1>. DEFINE X == Sourced(docs)
            rows == [i \in DOMAIN docs |-> IF i \in missing THEN <<>> ELSE FileChunks(i)]
<1>3. \A i \in DOMAIN docs : rows[i] = IF i \in missing THEN <<>> ELSE FileChunks(i)
  OBVIOUS
<1>4. \A i \in DOMAIN docs : rows[i] \in Seq(X) /\ \A x \in ToSet(rows[i]) : x.source = i
  <2>1. <<>> \in Seq(X) /\ ToSet(<<>>) = {}
    BY EmptySeq DEF ToSet
  <2>2. \A i \in DOMAIN docs : /\ FileChunks(i) \in Seq(X)
                               /\ \A x \in ToSet(FileChunks(i)) : x.source = i
    BY <1>2, FileChunksType
  <2>. HIDE DEF rows, X
  <2>. QED BY <1>3, <2>1, <2>2
<1>5. rows \in Seq(Seq(X)) /\ DOMAIN rows = DOMAIN docs
  <2>1. docs \in Seq(ToSet(docs))
    BY <1>2, IndexSupplyAssumption
  <2>2. Len(docs) \in Nat /\ DOMAIN docs = 1 .. Len(docs)
    BY <2>1, LenProperties
  <2>3. rows = [i \in 1 .. Len(docs) |-> rows[i]]
    BY <2>2
  <2>. HIDE DEF rows, X
  <2>4. \A i \in 1 .. Len(docs) : rows[i] \in Seq(X)
    BY <1>4, <2>2
  <2>5. [i \in 1 .. Len(docs) |-> rows[i]] \in Seq(Seq(X))
    BY <2>2, <2>4, IsASeq
  <2>6. DOMAIN rows = 1 .. Len(docs)
    BY <2>3
  <2>. QED BY <2>2, <2>3, <2>5, <2>6
<1>6. chunks' = FlattenSeq(rows)
  BY <1>1
<1>. HIDE DEF rows, X
<1>7. chunks' \in Seq(X) /\ \A i \in DOMAIN docs : RowOf(chunks', i) = rows[i]
  BY <1>4, <1>5, <1>6, RowsOfFlattened
<1>8. DOMAIN fetched' = DOMAIN docs
  BY <1>1
<1>9. ASSUME NEW i \in DOMAIN docs
      PROVE  /\ fetched'[i] \in {docs[i], Skipped}
             /\ RowOf(chunks', i) = IF fetched'[i] = Skipped THEN <<>> ELSE FileChunks(i)
  <2>1. docs[i] # Skipped
    BY <1>2, IndexSupplyAssumption
  <2>. QED BY <1>1, <1>3, <1>7, <2>1
<1>10. \A i : FileChunks(i)' = FileChunks(i)
  BY <1>2 DEF FileChunks
<1>. QED BY <1>2, <1>7, <1>8, <1>9, <1>10 DEF Gathering, X

(* After that a build keeps its chunks. *)
LEMMA GatheringStep ==
  ASSUME Gathering, [Next]_vars
  PROVE  Gathering'
<1>1. CASE Fetch
  BY <1>1, FetchGathers
<1>2. CASE ~ Fetch
  <2>1. UNCHANGED <<docs, chunks, fetched>>
    BY <1>2 DEF Next, BuildStep, Embed, BuildFails, Write, InstallLocally, Unpublish,
                Publish, ForeignRelease, BootStep, Start, CheckPath, Request,
                StreamEnds, Verify, Install, GiveUp, Crash, Load, vars,
                releaseVars, runVars
  <2>2. \A i : FileChunks(i)' = FileChunks(i) /\ RowOf(chunks, i)' = RowOf(chunks, i)
    BY <2>1 DEF FileChunks
  <2>. QED BY <2>1, <2>2 DEF Gathering
<1>. QED BY <1>1, <1>2

(* The chunks of a build have a number.                                       *)
LEMMA Counted == Gathering => Len(chunks) \in Nat
BY LenProperties DEF Gathering

(* No chunks are right for no document.                                       *)
LEMMA NothingFaithful == FaithfulTo(<<>>, <<>>)
<1>1. IsDocument(<<>>)
  BY EmptySeq DEF IsDocument
<1>2. Paragraphs(<<>>) = {}
  BY DEF Paragraphs
<1>. QED BY <1>2 DEF FaithfulTo, InOrder, Held

(* What was gathered is faithful to its documents.                            *)
LEMMA GatheredFaithful == Gathering => ChunksFaithful
<1>. SUFFICES ASSUME Gathering, NEW i \in DOMAIN fetched
              PROVE  FaithfulTo(IF fetched[i] = Skipped THEN <<>> ELSE docs[i],
                                [k \in DOMAIN RowOf(chunks, i) |-> RowOf(chunks, i)[k].chunk])
  BY DEF ChunksFaithful, RowOf
<1>1. docs \in Documents /\ i \in DOMAIN docs /\ fetched[i] \in {docs[i], Skipped}
  BY DEF Gathering
<1>2. CASE fetched[i] = Skipped
  <2>1. RowOf(chunks, i) = <<>>
    BY <1>2 DEF Gathering
  <2>2. [k \in DOMAIN RowOf(chunks, i) |-> RowOf(chunks, i)[k].chunk] = <<>>
    BY <2>1
  <2>. QED BY <1>2, <2>2, NothingFaithful
<1>3. CASE fetched[i] # Skipped
  <2>1. RowOf(chunks, i) = FileChunks(i)
    BY <1>3 DEF Gathering
  <2>2. [k \in DOMAIN RowOf(chunks, i) |-> RowOf(chunks, i)[k].chunk] = ChunkMarkdown(docs[i])
    BY <1>1, <2>1, FileChunksType
  <2>3. IsDocument(docs[i])
    BY <1>1, FileChunksType
  <2>. QED BY <1>3, <2>2, <2>3, ChunkMarkdownFaithful
<1>. QED BY <1>2, <1>3

-----------------------------------------------------------------------------
(* What the files hold.                                                      *)

(* The texts that vectors are asked for.                                      *)
Given == {chunks[i] : i \in 1 .. Len(chunks)}

(* While every batch got its vectors, the vectors so far are those of the    *)
(* first chunks.                                                             *)
InStep ==
    /\ embeddings \in Seq(Given)
    /\ Len(embeddings) = Least(batch, Len(chunks))
    /\ \A i \in 1 .. Len(embeddings) : embeddings[i] = chunks[i]

(* A build on its way, and what the finished ones hold.                       *)
Building ==
    /\ build \in Nat /\ build <= MaxBuilds /\ batch \in Nat
    /\ phase # "idle" => build > 0
    /\ phase = "embedding" /\ build \notin short => InStep
    /\ DOMAIN content = Builds
    /\ \A b \in Builds : Aligned(b)

(* No build has been started, and none holds anything.                        *)
LEMMA BuildingAtFirst == Init => Building
BY IndexSupplyAssumption DEF Init, Building, Aligned, Builds

(* A new build starts with no vectors.                                        *)
LEMMA FetchInStep ==
  ASSUME Building, Gathering', Fetch
  PROVE  Building'
<1>1. /\ build < MaxBuilds /\ build' = build + 1
      /\ embeddings' = <<>> /\ batch' = 0 /\ UNCHANGED <<content, short>>
  BY DEF Fetch
<1>2. build' \in Nat /\ build' <= MaxBuilds /\ build' > 0
  BY <1>1, IndexSupplyAssumption DEF Building
<1>3. InStep'
  <2>1. Least(0, Len(chunks')) = 0
    <3>1. Len(chunks') \in Nat
      BY LenProperties DEF Gathering
    <3>. QED BY <3>1 DEF Least
  <2>2. embeddings' \in Seq(Given') /\ Len(embeddings') = 0
    BY <1>1, EmptySeq
  <2>. QED BY <1>1, <2>1, <2>2 DEF InStep
<1>. QED BY <1>1, <1>2, <1>3 DEF Building, Aligned, Builds

(* A batch that gets all its vectors keeps step.                              *)
LEMMA EmbedInStep ==
  ASSUME Building, Gathering, Embed
  PROVE  Building'
<1>. DEFINE asked == SubSeq(chunks, batch + 1, BatchEnd)
            n == Len(chunks)
            done == Len(embeddings)
<1>1. /\ phase = "embedding" /\ batch < n /\ batch' = batch + EmbedBatch
      /\ UNCHANGED <<build, phase, chunks, content>>
  BY DEF Embed, releaseVars
<1>2. n \in Nat /\ batch \in Nat /\ EmbedBatch \in Nat /\ EmbedBatch > 0
  BY IndexSupplyAssumption, Counted DEF Building
<1>3. batch' \in Nat
  BY <1>1, <1>2
<1>4. short' = short \/ short' = short \cup {build}
  BY DEF Embed
<1>5. \A b \in Builds : Aligned(b)'
  BY <1>1, <1>4 DEF Building, Aligned
<1>6. ASSUME build \notin short' PROVE InStep'
  <2>1. embeddings' = embeddings \o asked
    BY <1>6 DEF Embed
  <2>2. InStep
    BY <1>1, <1>4, <1>6 DEF Building
  <2>3. /\ embeddings \in Seq(Given) /\ done = batch
        /\ \A i \in 1 .. done : embeddings[i] = chunks[i]
    BY <1>1, <1>2, <2>2 DEF InStep, Least
  <2>4. /\ BatchEnd \in Nat /\ batch < BatchEnd /\ BatchEnd <= n
        /\ BatchEnd = Least(batch', n)
    BY <1>1, <1>2 DEF BatchEnd, Least
  <2>5. \A i \in batch + 1 .. BatchEnd : chunks[i] \in Given
    BY <1>2, <2>4 DEF Given
  <2>. HIDE DEF n, done
  <2>6. /\ asked \in Seq(Given)
        /\ Len(asked) = IF batch + 1 <= BatchEnd THEN BatchEnd - (batch + 1) + 1 ELSE 0
        /\ \A i \in 1 .. BatchEnd - (batch + 1) + 1 :
              asked[i] = chunks[batch + 1 + i - 1]
    <3>1. batch + 1 \in Int /\ BatchEnd \in Int
      BY <1>2, <2>4
    <3>. QED BY <2>5, <3>1, SubSeqProperties
  <2>. HIDE DEF asked
  <2>7. /\ Len(asked) = BatchEnd - batch
        /\ \A i \in 1 .. BatchEnd - batch : asked[i] = chunks[batch + i]
    BY <1>2, <2>4, <2>6
  <2>8. /\ embeddings' \in Seq(Given)
        /\ Len(embeddings') = done + Len(asked)
        /\ \A i \in 1 .. done + Len(asked) : embeddings'[i] =
              IF i <= done THEN embeddings[i] ELSE asked[i - done]
    BY <2>1, <2>3, <2>6, ConcatProperties DEF done
  <2>9. Len(embeddings') = BatchEnd
    BY <1>2, <2>3, <2>4, <2>7, <2>8
  <2>10. ASSUME NEW i \in 1 .. BatchEnd PROVE embeddings'[i] = chunks[i]
    <3>1. done + Len(asked) = BatchEnd
      BY <1>2, <2>3, <2>4, <2>7
    <3>2. CASE i <= batch
      BY <1>2, <2>3, <2>8, <3>1, <3>2
    <3>3. CASE ~ (i <= batch)
      <4>1. i - batch \in 1 .. BatchEnd - batch /\ batch + (i - batch) = i
        BY <1>2, <2>4, <3>3
      <4>2. asked[i - batch] = chunks[i]
        BY <2>7, <4>1
      <4>. QED BY <2>3, <2>8, <3>1, <3>3, <4>2
    <3>. QED BY <3>2, <3>3
  <2>11. Given' = Given
    BY <1>1 DEF Given
  <2>. QED BY <1>1, <2>4, <2>8, <2>9, <2>10, <2>11 DEF InStep, n
<1>. QED BY <1>1, <1>3, <1>5, <1>6 DEF Building

(* What is written pairs each text with its own vector if no batch fell       *)
(* short.                                                                     *)
LEMMA WriteAligned ==
  ASSUME Building, Gathering, Write
  PROVE  Building'
<1>. DEFINE pairs == [i \in 1 .. Least(Len(chunks), Len(embeddings)) |->
                         [text |-> chunks[i], vector |-> embeddings[i]]]
<1>1. /\ phase = "embedding" /\ batch >= Len(chunks) /\ phase' = "built"
      /\ content' = [content EXCEPT ![build] = pairs]
      /\ UNCHANGED <<build, batch, short>>
  BY DEF Write
<1>2. build \notin short => \A i \in DOMAIN pairs : pairs[i].text = pairs[i].vector
  <2>1. SUFFICES ASSUME build \notin short, NEW i \in DOMAIN pairs
                 PROVE  pairs[i].text = pairs[i].vector
    OBVIOUS
  <2>2. Len(embeddings) = Len(chunks)
        /\ \A k \in 1 .. Len(embeddings) : embeddings[k] = chunks[k]
    BY <1>1, <2>1, Counted DEF Building, InStep, Least
  <2>3. i \in 1 .. Len(embeddings)
    BY <2>1, <2>2 DEF Least
  <2>. QED BY <2>1, <2>2, <2>3
<1>. HIDE DEF pairs
<1>3. DOMAIN content' = Builds
  BY <1>1 DEF Building
<1>4. ASSUME NEW b \in Builds PROVE Aligned(b)'
  <2>1. CASE b = build
    BY <1>1, <1>2, <2>1 DEF Building, Aligned
  <2>2. CASE b # build
    BY <1>1, <2>2 DEF Building, Aligned
  <2>. QED BY <2>1, <2>2
<1>. QED BY <1>1, <1>3, <1>4 DEF Building

(* Nobody else touches a build that is at its batches, or what was written.  *)
LEMMA BuildingStep ==
  ASSUME Building, Gathering, Gathering', [Next]_vars
  PROVE  Building'
<1>1. CASE BuildFails \/ InstallLocally \/ Unpublish \/ Publish
  <2>1. UNCHANGED <<build, content, short, batch>> /\ phase' # "embedding"
    BY <1>1 DEF BuildFails, InstallLocally, Unpublish, Publish, releaseVars
  <2>2. phase' # "idle" => phase # "idle"
    BY <1>1 DEF BuildFails, InstallLocally, Unpublish, Publish
  <2>. QED BY <2>1, <2>2 DEF Building, Aligned
<1>2. CASE ForeignRelease \/ BootStep \/ Crash \/ Load \/ UNCHANGED vars
  <2>1. UNCHANGED <<build, content, runVars>>
    BY <1>2 DEF ForeignRelease, BootStep, Start, CheckPath, Request, StreamEnds,
                Verify, Install, GiveUp, Crash, Load, vars, releaseVars
  <2>. QED BY <2>1 DEF Building, Aligned, InStep, Given, runVars
<1>. QED BY <1>1, <1>2, FetchInStep, EmbedInStep, WriteAligned DEF Next, BuildStep

-----------------------------------------------------------------------------
(* Types.                                                                    *)

BuilderTypes ==
    /\ phase \in {"idle", "embedding", "built", "publishing"}
    /\ embeddings \in Seq(Given)
    /\ short \subseteq Builds

AgentTypes ==
    /\ release # NoFile => release.whole
    /\ https \in BOOLEAN /\ pin \in Builds \cup {NoPin}
    /\ boot \in {"down", "up", "broken"} \cup Booting
    /\ tmp \in File \cup {NoFile}
    /\ path \in File \cup {NoFile}
    /\ loaded \in BOOLEAN
    /\ index \in File \cup {NoFile}
    /\ local \subseteq Builds
    /\ crashes \in 0 .. MaxCrashes

(* They hold at first, ...                                                    *)
LEMMA TypesAtFirst == Init => BuilderTypes /\ AgentTypes
<1>1. Init => BuilderTypes
  BY EmptySeq DEF Init, BuilderTypes
<1>2. Init => AgentTypes
  <2>. SUFFICES ASSUME Init PROVE AgentTypes
    OBVIOUS
  <2>1. crashes \in 0 .. MaxCrashes
    BY IndexSupplyAssumption DEF Init
  <2>2. loaded \in BOOLEAN /\ https \in BOOLEAN
    BY DEF Init
  <2>. QED BY <2>1, <2>2 DEF Init, AgentTypes
<1>. QED BY <1>1, <1>2

(* ... through a batch, whether or not it gets all its vectors, ...           *)
LEMMA EmbedTypes ==
  ASSUME BuilderTypes, Building, Gathering, Embed
  PROVE  BuilderTypes'
<1>. DEFINE asked == SubSeq(chunks, batch + 1, BatchEnd)
            n == Len(chunks)
<1>1. /\ phase = "embedding" /\ phase' = phase /\ chunks' = chunks /\ batch < n
      /\ short' \in {short, short \cup {build}}
      /\ embeddings' \in {embeddings \o asked, embeddings \o Tail(asked)}
  BY DEF Embed
<1>2. n \in Nat /\ batch \in Nat /\ EmbedBatch \in Nat /\ EmbedBatch > 0
  BY IndexSupplyAssumption, Counted DEF Building
<1>3. build \in Builds
  BY <1>1, IndexSupplyAssumption DEF Building, Builds
<1>4. BatchEnd \in Int /\ batch + 1 \in Int /\ batch + 1 <= BatchEnd /\ BatchEnd <= n
  BY <1>1, <1>2 DEF BatchEnd, Least
<1>5. \A i \in batch + 1 .. BatchEnd : chunks[i] \in Given
  BY <1>2, <1>4 DEF Given
<1>. HIDE DEF n
<1>6. asked \in Seq(Given) /\ Len(asked) = BatchEnd - (batch + 1) + 1
  BY <1>4, <1>5, SubSeqProperties
<1>. HIDE DEF asked
<1>7. asked # <<>>
  BY <1>4, <1>6
<1>8. Tail(asked) \in Seq(Given)
  BY <1>6, <1>7, HeadTailProperties
<1>9. embeddings' \in Seq(Given)
  BY <1>1, <1>6, <1>8, ConcatProperties DEF BuilderTypes
<1>10. Given' = Given
  BY <1>1 DEF Given
<1>. QED BY <1>1, <1>3, <1>9, <1>10 DEF BuilderTypes, Builds

(* ... through every other step of a build or an agent, ...                   *)
LEMMA BuilderTypesStep ==
  ASSUME BuilderTypes, Building, Gathering, [Next]_vars
  PROVE  BuilderTypes'
<1>1. CASE Fetch
  <2>1. phase' \in {"idle", "embedding"} /\ embeddings' = <<>> /\ short' = short
    BY <1>1 DEF Fetch
  <2>. QED BY <2>1, EmptySeq DEF BuilderTypes, Builds
<1>2. CASE ~ Fetch /\ ~ Embed
  <2>1. /\ UNCHANGED <<chunks, embeddings, short>>
        /\ phase' \in {phase, "idle", "built", "publishing"}
    BY <1>2 DEF Next, BuildStep, BuildFails, Write, InstallLocally, Unpublish,
                Publish, ForeignRelease, BootStep, Start, CheckPath, Request,
                StreamEnds, Verify, Install, GiveUp, Crash, Load, vars,
                releaseVars, runVars
  <2>. QED BY <2>1 DEF BuilderTypes, Builds, Given
<1>. QED BY <1>1, <1>2, EmbedTypes

(* ... and so do the agent's, through what builds do ...                      *)
LEMMA AgentTypesBuild ==
  ASSUME AgentTypes, Building, BuildStep \/ ForeignRelease
  PROVE  AgentTypes'
<1>1. phase # "idle" => build \in Builds
  BY IndexSupplyAssumption DEF Building, Builds
<1>2. \A b \in Builds \cup {Foreign} : Whole(b) \in File /\ Whole(b).whole
  BY DEF Whole, File
<1>3. CASE InstallLocally
  <2>1. /\ phase = "built" /\ path' = Whole(build) /\ local' = local \cup {build}
        /\ UNCHANGED <<release, https, pin, boot, tmp, loaded, index, crashes>>
    BY <1>3 DEF InstallLocally, releaseVars, configVars, storeVars
  <2>2. path' \in File /\ local' \subseteq Builds
    BY <1>1, <1>2, <2>1 DEF AgentTypes
  <2>. QED BY <2>1, <2>2 DEF AgentTypes, Builds
<1>4. CASE ~ InstallLocally
  <2>1. UNCHANGED agentVars
    BY <1>4 DEF BuildStep, Fetch, Embed, BuildFails, Write, Unpublish, Publish,
                ForeignRelease
  <2>2. \/ release' = release \/ release' = NoFile
        \/ release' = Whole(Foreign)
        \/ phase # "idle" /\ release' = Whole(build)
    BY <1>4 DEF BuildStep, Fetch, Embed, BuildFails, Write, Unpublish, Publish,
                ForeignRelease, releaseVars
  <2>3. release' # NoFile => release'.whole
    BY <1>1, <1>2, <2>2 DEF AgentTypes
  <2>. QED BY <2>1, <2>3 DEF AgentTypes, agentVars, configVars, fileVars,
                             storeVars, Builds
<1>. QED BY <1>3, <1>4

(* ... and through what the agent does.                                       *)
LEMMA AgentTypesAgent ==
  ASSUME AgentTypes, Origin, BootStep \/ Crash \/ Load
  PROVE  AgentTypes'
<1>1. UNCHANGED <<release, https, pin, local>>
  BY DEF BootStep, Start, CheckPath, Request, StreamEnds, Verify, Install, GiveUp,
         Crash, Load, releaseVars, configVars, fileVars
<1>2. boot' \in {"down", "up"} \cup Booting
  <2>1. BootStep => boot' \in {"down", "up"} \cup Booting
    BY DEF BootStep, Start, CheckPath, Request, StreamEnds, Verify, Install, GiveUp,
           Moves, Booting
  <2>2. Crash \/ Load => boot' \in {"down", "up"}
    BY DEF Crash, Load
  <2>. QED BY <2>1, <2>2
<1>3. tmp' \in File \cup {NoFile}
  <2>1. CASE Request
    <3>1. release \in File /\ tmp' = [release EXCEPT !.whole = FALSE]
      BY <2>1 DEF Request, Origin
    <3>. QED BY <3>1 DEF File
  <2>2. CASE StreamEnds
    <3>1. boot = "streaming" /\ tmp' = [tmp EXCEPT !.whole = TRUE]
      BY <2>2 DEF StreamEnds, Moves
    <3>2. tmp \in File
      BY <3>1 DEF Origin, Downloaded
    <3>. QED BY <3>1, <3>2 DEF File
  <2>3. CASE ~ Request /\ ~ StreamEnds
    <3>1. tmp' \in {tmp, NoFile}
      BY <2>3 DEF BootStep, Start, CheckPath, Verify, Install, GiveUp, Crash, Load,
                  fileVars
    <3>. QED BY <3>1 DEF AgentTypes
  <2>. QED BY <2>1, <2>2, <2>3
<1>4. path' \in {path, tmp} /\ index' \in {index, path, NoFile}
  BY DEF BootStep, Start, CheckPath, Request, StreamEnds, Verify, Install, GiveUp,
         Crash, Load, fileVars, storeVars
<1>5. loaded' \in {loaded, TRUE, FALSE}
  BY DEF BootStep, Start, CheckPath, Request, StreamEnds, Verify, Install, GiveUp,
         Crash, Load, storeVars
<1>6. crashes' = crashes \/ (crashes < MaxCrashes /\ crashes' = crashes + 1)
  BY DEF BootStep, Start, CheckPath, Request, StreamEnds, Verify, Install, GiveUp,
         Crash, Load
<1>7. crashes' \in 0 .. MaxCrashes
  BY <1>6, IndexSupplyAssumption DEF AgentTypes
<1>. QED BY <1>1, <1>2, <1>3, <1>4, <1>5, <1>7 DEF AgentTypes, Builds

-----------------------------------------------------------------------------
(* The inductive invariant: where files come from needs the types of tmp, and *)
(* whose vectors are in them needs that the chunks of a build have a number.  *)
SupplyInv == Origin /\ Gathering /\ Building /\ BuilderTypes /\ AgentTypes

(* Every step keeps it.                                                       *)
LEMMA SupplyInvStep == SupplyInv /\ [Next]_vars => SupplyInv'
<1>. SUFFICES ASSUME SupplyInv, [Next]_vars PROVE SupplyInv'
  OBVIOUS
<1>1. Origin /\ Gathering /\ Building /\ BuilderTypes /\ AgentTypes
  BY DEF SupplyInv
<1>2. Gathering'
  BY <1>1, GatheringStep
<1>3. Building'
  BY <1>1, <1>2, BuildingStep
<1>4. BuilderTypes'
  BY <1>1, BuilderTypesStep
<1>5. CASE UNCHANGED vars
  <2>1. Origin'
    BY <1>1, <1>5 DEF Origin, Downloaded, Trusted, vars, releaseVars, agentVars,
                      configVars, fileVars, storeVars
  <2>2. AgentTypes'
    BY <1>1, <1>5 DEF AgentTypes, vars, releaseVars, agentVars, configVars, fileVars,
                      storeVars, Builds
  <2>. QED BY <1>2, <1>3, <1>4, <2>1, <2>2 DEF SupplyInv
<1>6. CASE BuildStep \/ ForeignRelease
  <2>1. Origin'
    BY <1>1, <1>6, OriginBuild DEF Building
  <2>2. AgentTypes'
    BY <1>1, <1>6, AgentTypesBuild
  <2>. QED BY <1>2, <1>3, <1>4, <2>1, <2>2 DEF SupplyInv
<1>7. CASE BootStep \/ Crash \/ Load
  <2>1. Origin'
    BY <1>1, <1>7, OriginAgent
  <2>2. AgentTypes'
    BY <1>1, <1>7, AgentTypesAgent
  <2>. QED BY <1>2, <1>3, <1>4, <2>1, <2>2 DEF SupplyInv
<1>. QED BY <1>5, <1>6, <1>7 DEF Next

(* It holds throughout.                                                       *)
LEMMA SupplyInvHolds == Spec => []SupplyInv
<1>1. Init => SupplyInv
  BY OriginAtFirst, GatheringAtFirst, BuildingAtFirst, TypesAtFirst DEF SupplyInv
<1>. QED BY <1>1, SupplyInvStep, PTL DEF Spec

(* Files, builds and boots in their ranges, and only the download's own file *)
(* is ever half written: a release, the index on the volume and the index in *)
(* memory are whole.                                                         *)
THEOREM SupplyTypeOKHolds == Spec => []SupplyTypeOK
<1>1. SupplyInv => SupplyTypeOK
  <2>. SUFFICES ASSUME SupplyInv PROVE SupplyTypeOK
    OBVIOUS
  <2>1. Origin /\ Gathering /\ Building /\ BuilderTypes /\ AgentTypes
    BY DEF SupplyInv
  <2>2. build \in 0 .. MaxBuilds /\ batch \in Nat /\ DOMAIN content = Builds
    BY <2>1, IndexSupplyAssumption DEF Building
  <2>3. DOMAIN chunks = 1 .. Len(chunks)
    BY <2>1, LenProperties DEF Gathering
  <2>4. embeddings \in Seq(ToSet(chunks))
    BY <2>1, <2>3 DEF BuilderTypes, Given, ToSet
  <2>5. \A i \in DOMAIN chunks : chunks[i].source \in DOMAIN docs
    <3>1. \A i \in DOMAIN chunks : chunks[i] \in Sourced(docs)
      BY <2>1, <2>3, ElementOfSeq DEF Gathering
    <3>. QED BY <3>1 DEF Sourced
  <2>6. \A i \in DOMAIN fetched : fetched[i] \in {docs[i], Skipped}
    BY <2>1 DEF Gathering
  <2>7. \A file \in {path, index, release} \ {NoFile} : file.whole
    BY <2>1 DEF Origin, Trusted, AgentTypes
  <2>8. release \in File \cup {NoFile}
    BY <2>1 DEF Origin
  <2>. QED BY <2>1, <2>2, <2>4, <2>5, <2>6, <2>7, <2>8
           DEF SupplyTypeOK, BuilderTypes, AgentTypes
<1>. QED BY <1>1, SupplyInvHolds, PTL

(* Whatever the documents hold and whichever of them a build cannot get, its *)
(* chunks are those documents', path by path: no paragraph that is worth a   *)
(* chunk is lost or twice there or out of its place, and each chunk carries  *)
(* the headings its paragraphs stand under.                                  *)
THEOREM ChunksFaithfulHolds == Spec => []ChunksFaithful
<1>1. SupplyInv => ChunksFaithful
  BY GatheredFaithful DEF SupplyInv
<1>. QED BY <1>1, SupplyInvHolds, PTL

(* What is on the volume and what the agent answers from can be trusted: it  *)
(* is whole, was built there or came by https and is the pinned build if one *)
(* is pinned, and each of its texts goes with its own vector unless the      *)
(* embedding endpoint left one out.                                          *)
THEOREM ServedTrustedHolds == Spec => []ServedTrusted
<1>1. SupplyInv => ServedTrusted
  <2>. SUFFICES ASSUME SupplyInv PROVE ServedTrusted
    OBVIOUS
  <2>1. ASSUME NEW b PROVE Aligned(b)
    BY DEF SupplyInv, Building, Aligned
  <2>. QED BY <2>1 DEF ServedTrusted, SupplyInv, Origin, Trusted
<1>. QED BY <1>1, SupplyInvHolds, PTL
=============================================================================
