--------------------------- MODULE DefenceProofs ---------------------------
(***************************************************************************)
(* The defence pipeline, for every text, seed, fraction and table of       *)
(* synonyms: the shuffle of its sentences, what becomes of its numbers and *)
(* what of a text is served.                                               *)
(***************************************************************************)
EXTENDS Defence, ArithmeticProofs

(***************************************************************************)
(***************************************************************************)
(* Some of the places of a sequence.                                       *)
(***************************************************************************)
\* How many elements of A are at most e.
Upto(A, e) == {d \in A : d <= e}

\* A is some of the places 1..l.
PlacesOf(A, l) == l \in Nat /\ A \subseteq 1..l

LEMMA PlacesAre ==
  ASSUME NEW A, NEW l, PlacesOf(A, l)
  PROVE  /\ l \in Nat /\ \A d \in A : d \in Int /\ 1 <= d /\ d <= l
         /\ Upto(A, 0) = {}
<1>1. l \in Nat /\ \A d \in A : d \in 1..l
  BY DEF PlacesOf
<1>2. \A d \in A : d \in Int /\ 1 <= d /\ d <= l
  BY <1>1
<1> QED
  BY <1>1, <1>2 DEF Upto

LEMMA UptoOK ==
  ASSUME NEW A, NEW l, PlacesOf(A, l), NEW e \in Int
  PROVE  /\ IsFiniteSet(A) /\ Cardinality(A) \in Nat
         /\ IsFiniteSet(Upto(A, e)) /\ Upto(A, e) \subseteq A
         /\ Cardinality(Upto(A, e)) \in 0..Cardinality(A)
<1>1. IsFiniteSet(1..l) /\ A \subseteq 1..l
  BY IntervalFinite DEF PlacesOf
<1>2. Upto(A, e) \subseteq A
  BY DEF Upto
<1>3. IsFiniteSet(A) /\ Cardinality(A) \in Nat
  BY <1>1, FS_Subset, FS_CardinalityType
<1>4. IsFiniteSet(Upto(A, e)) /\ Cardinality(Upto(A, e)) <= Cardinality(A)
  BY <1>2, <1>3, FS_Subset
<1>5. Cardinality(Upto(A, e)) \in Nat
  BY <1>4, FS_CardinalityType
<1> QED
  BY <1>2, <1>3, <1>4, <1>5

\* A later place of A has more of A up to it.
LEMMA UptoMore ==
  ASSUME NEW A, NEW l, PlacesOf(A, l), NEW e \in Int, NEW d \in A, e < d
  PROVE  Cardinality(Upto(A, e)) < Cardinality(Upto(A, d))
<1>1. d \in Int /\ \A x \in A : x \in Int
  BY PlacesAre
<1>2. Upto(A, e) \subseteq Upto(A, d) /\ d \in Upto(A, d) /\ d \notin Upto(A, e)
  <2>1. \A x \in Upto(A, e) : x \in Upto(A, d)
    BY <1>1 DEF Upto
  <2>2. d \in Upto(A, d) /\ d \notin Upto(A, e)
    BY <1>1 DEF Upto
  <2> QED
    BY <2>1, <2>2
<1>3. /\ IsFiniteSet(Upto(A, d)) /\ Cardinality(Upto(A, e)) \in Nat
      /\ Cardinality(Upto(A, d)) \in Nat
  BY <1>1, UptoOK
<1> DEFINE U == Upto(A, d)  V == Upto(A, e)
<1> HIDE DEF U, V
<1>4. V \subseteq U /\ V # U /\ IsFiniteSet(U) /\ Cardinality(U) \in Nat /\ Cardinality(V) \in Nat
  BY <1>2, <1>3 DEF U, V
<1>5. Cardinality(V) <= Cardinality(U) /\ Cardinality(V) # Cardinality(U)
  BY <1>4, FS_Subset
<1> QED
  BY <1>4, <1>5 DEF U, V

LEMMA NthIs ==
  ASSUME NEW A, NEW l, PlacesOf(A, l), NEW k \in 0..Cardinality(A)
  PROVE  /\ Nth(A, k) \in {0} \cup A /\ Cardinality(Upto(A, Nth(A, k))) = k
         /\ Nth(A, k) \in Int
<1>1. \E e \in {0} \cup A : Cardinality(Upto(A, e)) = k
  <2>1. CASE k = 0
    <3>1. Upto(A, 0) = {}
      BY PlacesAre
    <3> QED
      BY <2>1, <3>1, FS_EmptySet
  <2>2. CASE k # 0
    <3> DEFINE n == Cardinality(A)  rank == [e \in A |-> Cardinality(Upto(A, e))]
    <3>1. n \in Nat /\ IsFiniteSet(A) /\ \A x \in A : x \in Int
      BY UptoOK, PlacesAre
    <3>2. ASSUME NEW e \in A PROVE rank[e] \in 1..n
      <4>1. rank[e] = Cardinality(Upto(A, e)) /\ e \in Int /\ e - 1 \in Int /\ e - 1 < e
        BY <3>1
      <4>2. Cardinality(Upto(A, e - 1)) < Cardinality(Upto(A, e))
        BY <4>1, UptoMore
      <4>3. /\ Cardinality(Upto(A, e)) \in 0..Cardinality(A)
            /\ Cardinality(Upto(A, e - 1)) \in 0..Cardinality(A)
        BY <4>1, UptoOK
      <4> QED
        BY <3>1, <4>1, <4>2, <4>3
    <3>3. \A d, e \in A : rank[d] = rank[e] => d = e
      <4> SUFFICES ASSUME NEW d \in A, NEW e \in A, d # e PROVE rank[d] # rank[e]
        OBVIOUS
      <4>1. d \in Int /\ e \in Int /\ rank[d] \in Int /\ rank[e] \in Int
        BY <3>1, <3>2
      <4>2. CASE d < e
        <5>1. Cardinality(Upto(A, d)) < Cardinality(Upto(A, e))
          BY <4>1, <4>2, UptoMore
        <5> QED
          BY <4>1, <5>1
      <4>3. CASE e < d
        <5>1. Cardinality(Upto(A, e)) < Cardinality(Upto(A, d))
          BY <4>1, <4>3, UptoMore
        <5> QED
          BY <4>1, <5>1
      <4> QED
        BY <4>1, <4>2, <4>3
    <3>9. \A e \in A : rank[e] = Cardinality(Upto(A, e))
      OBVIOUS
    <3>4. IsFiniteSet(1..n) /\ Cardinality(1..n) = n
      BY <3>1, IntervalFinite, IntervalSize
    <3>5. rank \in [A -> 1..n]
      BY <3>2
    <3> HIDE DEF rank
    <3>6. rank \in Injection(A, 1..n)
      BY <3>3, <3>5 DEF Injection, IsInjective
    <3>7. rank \in Surjection(A, 1..n)
      BY <3>1, <3>4, <3>6, FS_Injection
    <3>8. k \in 1..n
      BY <2>2, <3>1
    <3> QED
      BY <3>7, <3>8, <3>9 DEF Surjection
  <2> QED
    BY <2>1, <2>2
<1>2. Nth(A, k) \in {0} \cup A /\ Cardinality(Upto(A, Nth(A, k))) = k
  BY <1>1 DEF Nth, Upto
<1> QED
  BY <1>2, PlacesAre

LEMMA NthGrows ==
  ASSUME NEW A, NEW l, PlacesOf(A, l), NEW k \in 1..Cardinality(A)
  PROVE  /\ Nth(A, k) \in A /\ Nth(A, k - 1) < Nth(A, k)
         /\ Nth(A, k - 1) \in Int /\ Nth(A, k) \in Int
<1> DEFINE d == Nth(A, k - 1)  e == Nth(A, k)
<1>1. Cardinality(A) \in Nat
  BY UptoOK
<1>2. k \in 0..Cardinality(A) /\ k - 1 \in 0..Cardinality(A) /\ k \in Int /\ k # 0
  BY <1>1
<1>3. /\ e \in {0} \cup A /\ Cardinality(Upto(A, e)) = k /\ e \in Int
      /\ d \in {0} \cup A /\ Cardinality(Upto(A, d)) = k - 1 /\ d \in Int
  BY <1>2, NthIs
<1> HIDE DEF d, e
<1>4. e \in A
  <2> SUFFICES ASSUME e = 0 PROVE FALSE
    BY <1>3
  <2>1. Upto(A, 0) = {}
    BY PlacesAre
  <2> QED
    BY <1>2, <1>3, <2>1, FS_EmptySet
<1>5. d < e
  <2>1. CASE d = e
    BY <1>2, <1>3, <2>1
  <2>2. CASE e < d
    <3>1. d \in A
      BY <1>3, <1>4, <2>2, PlacesAre
    <3>2. Cardinality(Upto(A, e)) < Cardinality(Upto(A, d))
      BY <1>3, <2>2, <3>1, UptoMore
    <3> QED
      BY <1>2, <1>3, <3>2
  <2> QED
    BY <1>3, <2>1, <2>2
<1> QED
  BY <1>3, <1>4, <1>5 DEF d, e

\* The first of all is preceded by 0, and the last place of A is the last.
LEMMA NthEnds ==
  ASSUME NEW A, NEW l, PlacesOf(A, l)
  PROVE  Nth(A, 0) = 0 /\ (l \in A => Nth(A, Cardinality(A)) = l)
<1> DEFINE n == Cardinality(A)
<1>1. n \in Nat /\ 0 \in 0..n /\ n \in 0..n
  BY UptoOK
<1>2. Nth(A, 0) = 0
  <2>1. Nth(A, 0) \in {0} \cup A /\ Cardinality(Upto(A, Nth(A, 0))) = 0
    BY <1>1, NthIs
  <2> DEFINE e == Nth(A, 0)
  <2>2. SUFFICES ASSUME e \in A PROVE FALSE
    BY <2>1
  <2> HIDE DEF e
  <2>3. e \in Int /\ 0 \in Int /\ 0 < e
    BY <2>2, PlacesAre
  <2>4. Cardinality(Upto(A, 0)) < Cardinality(Upto(A, e))
    BY <2>2, <2>3, UptoMore
  <2>5. Cardinality(Upto(A, 0)) \in 0..n
    BY UptoOK
  <2> QED
    BY <1>1, <2>1, <2>4, <2>5 DEF e
<1>3. ASSUME l \in A PROVE Nth(A, n) = l
  <2> DEFINE e == Nth(A, n)
  <2>1. e \in {0} \cup A /\ Cardinality(Upto(A, e)) = n /\ e \in Int
    BY <1>1, NthIs
  <2> HIDE DEF e
  <2>2. l \in Nat /\ e <= l
    BY <2>1, PlacesAre
  <2>3. CASE e < l
    <3>1. Cardinality(Upto(A, e)) < Cardinality(Upto(A, l))
      BY <1>3, <2>1, <2>3, UptoMore
    <3>2. Cardinality(Upto(A, l)) \in 0..n
      BY <2>2, UptoOK
    <3> QED
      BY <1>1, <2>1, <3>1, <3>2
  <2> QED
    BY <2>1, <2>2, <2>3 DEF e
<1> QED
  BY <1>2, <1>3

\* Another element at one place changes the weight by the difference.
\* Every place of A is the k-th for one k.
LEMMA NthOnto ==
  ASSUME NEW A, NEW l, PlacesOf(A, l), NEW n, n = Cardinality(A)
  PROVE  /\ n \in Nat /\ IsFiniteSet(A) /\ \A k \in 1..n : Nth(A, k) \in A
         /\ \A j, k \in 1..n : Nth(A, j) = Nth(A, k) => j = k
         /\ \A e \in A : \E k \in 1..n : Nth(A, k) = e
<1>1. n \in Nat /\ IsFiniteSet(A)
  BY UptoOK
<1>2. \A k \in 1..n : Nth(A, k) \in A
  BY NthGrows
<1>3. ASSUME NEW j \in 1..n, NEW k \in 1..n, Nth(A, j) = Nth(A, k) PROVE j = k
  <2>1. j \in 0..Cardinality(A) /\ k \in 0..Cardinality(A)
    BY <1>1
  <2>2. Cardinality(Upto(A, Nth(A, j))) = j /\ Cardinality(Upto(A, Nth(A, k))) = k
    BY <2>1, NthIs
  <2> QED
    BY <1>3, <2>2
<1>4. ASSUME NEW e \in A PROVE \E k \in 1..n : Nth(A, k) = e
  <2> DEFINE place == [k \in 1..n |-> Nth(A, k)]
  <2>1. place \in [1..n -> A]
    BY <1>2
  <2>2. \A j, k \in 1..n : place[j] = place[k] => j = k
    BY <1>3
  <2>3. IsFiniteSet(1..n) /\ Cardinality(1..n) = n
    BY <1>1, IntervalFinite, IntervalSize
  <2>4. \A k \in 1..n : place[k] = Nth(A, k)
    OBVIOUS
  <2> HIDE DEF place
  <2>5. place \in Injection(1..n, A)
    BY <2>1, <2>2 DEF Injection, IsInjective
  <2>6. place \in Surjection(1..n, A)
    BY <1>1, <2>3, <2>5, FS_Injection
  <2> QED
    BY <2>4, <2>6 DEF Surjection
<1> QED
  BY <1>1, <1>2, <1>3, <1>4

\* The entries at some places of a sequence.
LEMMA AtIs ==
  ASSUME NEW T, NEW s \in Seq(T), NEW A, PlacesOf(A, Len(s)), NEW n, n = Cardinality(A)
  PROVE  /\ At(s, A) \in Seq(T) /\ Len(At(s, A)) = n /\ n \in Nat
         /\ \A k \in 1..n : Nth(A, k) \in A /\ At(s, A)[k] = s[Nth(A, k)]
<1>1. n \in Nat /\ \A k \in 1..n : Nth(A, k) \in A
  BY NthOnto
<1>2. \A k \in 1..n : At(s, A)[k] = s[Nth(A, k)]
  BY DEF At
<1>3. \A e \in A : s[e] \in T
  BY DEF PlacesOf
<1>4. At(s, A) \in [1..n -> T]
  BY <1>1, <1>3 DEF At
<1>5. At(s, A) \in Seq(T) /\ Len(At(s, A)) = n
  BY <1>1, <1>4, FunctionIsSeq
<1> QED
  BY <1>1, <1>2, <1>5

\* What is nowhere but at A adds up at the places of A.
LEMMA SumNth ==
  ASSUME NEW A, NEW l, PlacesOf(A, l), NEW n, n = Cardinality(A),
         NEW f, \A j \in 1..l : f[j] \in Int, \A j \in 1..l : j \notin A => f[j] = 0,
         NEW h, \A k \in 1..n : h[k] = f[Nth(A, k)]
  PROVE  Sum(h, 1..n) = Sum(f, 1..l)
<1> DEFINE S == 1..n  place == [k \in S |-> Nth(A, k)]  B == (1..l) \ A
<1>1. /\ n \in Nat /\ \A k \in S : Nth(A, k) \in A
      /\ \A j, k \in S : Nth(A, j) = Nth(A, k) => j = k
      /\ \A e \in A : \E k \in S : Nth(A, k) = e
  BY NthOnto
<1>2. l \in Nat /\ A \subseteq 1..l /\ IsFiniteSet(S)
  BY <1>1, IntervalFinite DEF PlacesOf
<1>3. \A j, k \in S : place[j] = place[k] => j = k
  BY <1>1
<1>4. \A k \in S : place[k] = Nth(A, k) /\ place[k] \in A /\ h[k] = f[place[k]]
  BY <1>1
<1>5. \A k \in S : f[place[k]] \in Int /\ h[k] = f[place[k]]
  BY <1>2, <1>4
<1>6. Image(place, S) = A
  <2>1. \A e \in A : \E k \in S : place[k] = e
    BY <1>1, <1>4
  <2> HIDE DEF place
  <2> QED
    BY <1>4, <2>1 DEF Image
<1> HIDE DEF place, S
<1>7. Sum(h, S) = Sum(f, A)
  BY <1>2, <1>3, <1>5, <1>6, SumImage
<1>8. IsFiniteSet(1..l) /\ IsFiniteSet(A) /\ IsFiniteSet(B)
  <2>1. IsFiniteSet(1..l) /\ A \subseteq 1..l /\ B \subseteq 1..l
    BY <1>2, IntervalFinite
  <2> QED
    BY <2>1, SubsetFinite
<1>9. 1..l = A \cup B /\ A \cap B = {} /\ \A x \in B : f[x] = 0
  BY <1>2
<1>10. \A x \in A \cup B : f[x] \in Int
  BY <1>9
<1> HIDE DEF B
<1>11. Sum(f, A \cup B) = Sum(f, A) + Sum(f, B) /\ Sum(f, A) \in Int
  BY <1>8, <1>9, <1>10, SumUnion, SumType
<1>12. Sum(f, B) = 0
  <2>1. Sum(f, B) = 0 * Cardinality(B) /\ Cardinality(B) \in Nat
    BY <1>8, <1>9, SumConstant, FiniteCardinal
  <2> QED
    BY <2>1
<1>13. Sum(f, A \cup B) = Sum(f, A)
  <2> DEFINE x == Sum(f, A)  y == Sum(f, B)
  <2>1. x \in Int /\ y = 0 /\ Sum(f, A \cup B) = x + y
    BY <1>11, <1>12
  <2> HIDE DEF x, y
  <2>2. Sum(f, A \cup B) = x
    BY <2>1
  <2> QED
    BY <2>2 DEF x
<1> QED
  BY <1>7, <1>9, <1>13 DEF S

\* split_whitespace leaves a text some of its tokens.
LEMMA RespacedIs ==
  ASSUME NEW T, NEW t \in Seq(T) PROVE Respaced(t) \in Seq(T)
<1> DEFINE A == {p \in DOMAIN t : ~ Blank(t[p])}
<1>1. PlacesOf(A, Len(t))
  BY DEF PlacesOf
<1> HIDE DEF A
<1>2. At(t, A) \in Seq(T)
  BY <1>1, AtIs
<1> QED
  BY <1>2 DEF Respaced, A

(***************************************************************************)
(* The shuffle.                                                            *)
(***************************************************************************)
\* A text being worked on has finitely many tokens, hence sentences.
OrderInv == /\ stage \in {"synonyms", "numbers", "sentences"}
                  => IsFiniteSet(DOMAIN text)
            /\ OrderOfAll

LEMMA SentenceCountNat ==
  ASSUME NEW t, IsFiniteSet(DOMAIN t) PROVE SentenceCount(t) \in Nat
<1>1. Ends(t) \subseteq DOMAIN t
  BY DEF Ends
<1>2. PieceCount(t) \in Nat
  BY <1>1, FS_Subset, FS_CardinalityType DEF PieceCount
<1>3. IsFiniteSet(1..PieceCount(t)) /\ Spoken(t) \subseteq 1..PieceCount(t)
  BY <1>2, IntervalFinite DEF Spoken
<1>4. IsFiniteSet(Spoken(t))
  BY <1>3, FS_Subset
<1> QED
  BY <1>4, FS_CardinalityType DEF SentenceCount

\* Exchanging two entries keeps an order of 1..n one.
LEMMA SwapKeepsOrder ==
  ASSUME NEW n \in Nat, NEW order \in [1..n -> 1..n], IsInjective(order),
         NEW a \in 1..n, NEW b \in 1..n
  PROVE  /\ Swapped(order, a, b) \in [1..n -> 1..n]
         /\ IsInjective(Swapped(order, a, b))
<1> DEFINE s == Swapped(order, a, b)
<1>1. s = [k \in 1..n |-> IF k = b THEN order[a] ELSE IF k = a THEN order[b]
                          ELSE order[k]]
  BY DEF Swapped
<1>2. s \in [1..n -> 1..n]
  BY <1>1
<1>3. ASSUME NEW j \in 1..n, NEW k \in 1..n, s[j] = s[k] PROVE j = k
  BY <1>1, <1>3 DEF IsInjective
<1> QED
  BY <1>2, <1>3 DEF IsInjective

LEMMA OrderStep == OrderInv /\ [DefenceNext]_defenceVars => OrderInv'
<1> SUFFICES ASSUME OrderInv, [DefenceNext]_defenceVars PROVE OrderInv'
  OBVIOUS
<1>1. CASE Begin
  <2>1. text' \in Seq([word : STRING, num : Int, den : Nat \ {0}, dots : Nat])
    BY <1>1, DefenceAssumption DEF Begin, DefenceAssumption
  <2>2. IsFiniteSet(DOMAIN text')
    BY <2>1, FS_Interval
  <2> QED
    BY <1>1, <2>2 DEF Begin, OrderInv, OrderOfAll
<1>2. CASE Substitute
  <2> DEFINE A == {p \in DOMAIN text : ~ Blank(text[p])}
  <2>1. DOMAIN text' = DOMAIN Respaced(text)
    BY <1>2 DEF Substitute, Substituted
  <2>2. IsFiniteSet(DOMAIN text) /\ A \subseteq DOMAIN text
    BY <1>2 DEF Substitute, OrderInv
  <2>3. Cardinality(A) \in Nat
    <3> HIDE DEF A
    <3> QED
      BY <2>2, FS_Subset, FS_CardinalityType
  <2>4. DOMAIN Respaced(text) \in {DOMAIN text, 1..Cardinality(A)}
    BY DEF Respaced, At
  <2> HIDE DEF A
  <2>5. IsFiniteSet(DOMAIN text')
    BY <2>1, <2>2, <2>3, <2>4, IntervalFinite
  <2> QED
    BY <1>2, <2>5 DEF Substitute, OrderInv, OrderOfAll
<1>3. CASE Perturb
  <2>1. DOMAIN text' = DOMAIN text
    BY <1>3 DEF Perturb, Perturbed
  <2> QED
    BY <1>3, <2>1 DEF Perturb, OrderInv, OrderOfAll
<1>4. CASE KeepOrder
  BY <1>4 DEF KeepOrder, OrderInv, OrderOfAll
<1>5. CASE StartShuffle
  <2> DEFINE n == SentenceCount(text)
  <2>1. n \in Nat /\ n >= 3
    BY <1>5, SentenceCountNat DEF StartShuffle, Reorders, OrderInv
  <2>2. /\ indices' = [k \in 1..n |-> k] /\ i' = n /\ stage' = "shuffle"
        /\ text' = text
    BY <1>5 DEF StartShuffle
  <2>3. indices' \in [1..n -> 1..n] /\ IsInjective(indices')
    BY <2>1, <2>2 DEF IsInjective
  <2>4. indices' \in Seq(1..n) /\ Len(indices') = n
    BY <2>1, <2>2
  <2>5. i' \in 1..n
    BY <2>1, <2>2
  <2> QED
    BY <2>2, <2>3, <2>4, <2>5 DEF OrderInv, OrderOfAll
<1>6. CASE Swap
  <2> DEFINE n == Len(indices)
  <2>1. /\ indices \in [1..n -> 1..n] /\ IsInjective(indices)
        /\ i \in 1..n /\ i > 1 /\ n = SentenceCount(text)
    BY <1>6 DEF Swap, OrderInv, OrderOfAll
  <2>2. n \in Nat
    <3>1. CASE n \in Nat
      BY <3>1
    <3>2. CASE n \notin Nat
      BY <2>1, <3>2
    <3> QED
      BY <3>1, <3>2
  <2>3. PICK j \in 1..i : indices' = Swapped(indices, i, j)
    BY <1>6 DEF Swap, Draws
  <2>4. j \in 1..n
    BY <2>1, <2>2, <2>3
  <2>5. indices' \in [1..n -> 1..n] /\ IsInjective(indices')
    BY <2>1, <2>2, <2>3, <2>4, SwapKeepsOrder
  <2>6. indices' \in Seq(1..n) /\ Len(indices') = n
    BY <2>2, <2>5
  <2>7. i' \in 1..n /\ text' = text /\ stage' = "shuffle"
    BY <1>6, <2>1, <2>2 DEF Swap
  <2> QED
    BY <2>1, <2>5, <2>6, <2>7 DEF OrderInv, OrderOfAll
<1>7. CASE Join
  BY <1>7 DEF Join, OrderInv, OrderOfAll
<1>8. CASE UNCHANGED defenceVars
  BY <1>8 DEF defenceVars, OrderInv, OrderOfAll
<1> QED
  BY <1>1, <1>2, <1>3, <1>4, <1>5, <1>6, <1>7, <1>8 DEF DefenceNext

\* While the Fisher-Yates loop runs, the order is an order of all the
\* sentences of the text, whatever is drawn: the loop drops and repeats none.
THEOREM ShuffleKeepsSentences == DefenceSpec => []OrderOfAll
<1>1. DefenceInit => OrderInv
  BY DEF DefenceInit, OrderInv, OrderOfAll
<1>2. OrderInv => OrderOfAll
  BY DEF OrderInv
<1> QED
  BY <1>1, <1>2, OrderStep, PTL DEF DefenceSpec

(***************************************************************************)
(* The shuffle is fair.                                                    *)
(***************************************************************************)
Unshuffled(n) == [k \in 1..n |-> k]
Downward(n) == [k \in 1..(n - 1) |-> n + 1 - k]

\* it is the function of the definition of Shuffled's fold, on subsets of 1..m.
Round(it, n, d, s) ==
    IF s = {} THEN Unshuffled(n)
    ELSE Swapped(it[s \ {Max(s)}], Downward(n)[Max(s)], d[Downward(n)[Max(s)]])
Rounds(it, n, d, m) == it = [s \in SUBSET (1..m) |-> Round(it, n, d, s)]

LEMMA RoundsExist ==
  ASSUME NEW n, NEW d, NEW m \in Nat PROVE \E it : Rounds(it, n, d, m)
<1> DEFINE T == {k \in Nat : \E it : Rounds(it, n, d, k)}
<1>1. 0 \in T
  <2> DEFINE it == [s \in SUBSET (1..0) |-> Unshuffled(n)]
  <2>1. \A s \in SUBSET (1..0) : s = {}
    OBVIOUS
  <2>2. Rounds(it, n, d, 0)
    BY <2>1 DEF Rounds, Round
  <2> QED
    BY <2>2
<1>2. ASSUME NEW k \in T PROVE k + 1 \in T
  <2>1. PICK g : Rounds(g, n, d, k)
    BY <1>2
  <2> DEFINE r == Downward(n)[k + 1]
             it == [s \in SUBSET (1..(k + 1)) |->
                      IF k + 1 \in s THEN Swapped(g[s \ {k + 1}], r, d[r]) ELSE g[s]]
  <2>2. ASSUME NEW s \in SUBSET (1..(k + 1)), k + 1 \notin s
        PROVE  s \in SUBSET (1..k) /\ it[s] = g[s]
    BY <2>2
  <2>3. ASSUME NEW s \in SUBSET (1..(k + 1)) PROVE it[s] = Round(it, n, d, s)
    <3>1. CASE k + 1 \in s
      <4>1. Max(s) = k + 1 /\ s # {}
        <5>1. k + 1 \in Nat /\ s \subseteq 1..(k + 1) /\ s # {}
          BY <1>2, <3>1
        <5>2. Max(s) \in s /\ \A j \in s : j <= Max(s)
          BY <5>1, LowestHighest
        <5>3. Max(s) \in 1..(k + 1) /\ k + 1 <= Max(s)
          BY <3>1, <5>1, <5>2
        <5> QED
          BY <5>1, <5>3
      <4>2. it[s \ {k + 1}] = g[s \ {k + 1}]
        BY <2>2
      <4>3. it[s] = Swapped(g[s \ {k + 1}], r, d[r])
        BY <3>1
      <4> HIDE DEF it
      <4> QED
        BY <4>1, <4>2, <4>3 DEF Round
    <3>2. CASE k + 1 \notin s
      <4>1. s \in SUBSET (1..k) /\ it[s] = g[s]
        BY <2>2, <3>2
      <4>2. g[s] = Round(g, n, d, s)
        BY <2>1, <4>1 DEF Rounds
      <4>3. it[s \ {Max(s)}] = g[s \ {Max(s)}]
        BY <2>2, <3>2
      <4> HIDE DEF it
      <4> QED
        BY <4>1, <4>2, <4>3 DEF Round
    <3> QED
      BY <3>1, <3>2
  <2>4. Rounds(it, n, d, k + 1)
    <3>1. it = [s \in SUBSET (1..(k + 1)) |-> it[s]]
      OBVIOUS
    <3> HIDE DEF it
    <3> QED
      BY <2>3, <3>1 DEF Rounds
  <2> QED
    BY <1>2, <2>4
<1>3. T \in SUBSET Nat
  OBVIOUS
<1> HIDE DEF T
<1>4. T = Nat
  BY <1>1, <1>2, <1>3, SetInduction
<1> QED
  BY <1>4 DEF T

LEMMA ShuffledIs ==
  ASSUME NEW n \in Nat \ {0}, NEW d
  PROVE  \E it : Rounds(it, n, d, n - 1) /\ Shuffled(n, d) = it[1..(n - 1)]
<1> DEFINE it == CHOOSE f : Rounds(f, n, d, n - 1)
<1>1. Rounds(it, n, d, n - 1)
  BY RoundsExist
<1>2. Shuffled(n, d) = it[1..(n - 1)]
  BY DEF Shuffled, FoldLeft, MapThenFoldSet, Rounds, Round, Downward, Unshuffled
<1> QED
  BY <1>1, <1>2

\* The orders that the first m iterations make, with the draws d.
Run(A, n, d, m) ==
    /\ A[0] = Unshuffled(n)
    /\ \A q \in 1..m : A[q] = Swapped(A[q - 1], n + 1 - q, d[n + 1 - q])

\* What each iteration may draw.
DrawsOf(n) == {d \in [1..n -> 1..n] : \A k \in 1..n : d[k] \in 1..k}

LEMMA ShuffledRuns ==
  ASSUME NEW n \in Nat \ {0}, NEW d
  PROVE  \E A : Run(A, n, d, n - 1) /\ A[n - 1] = Shuffled(n, d)
<1>1. PICK it : Rounds(it, n, d, n - 1) /\ Shuffled(n, d) = it[1..(n - 1)]
  BY ShuffledIs
<1> DEFINE A == [q \in 0..(n - 1) |-> it[1..q]]
<1>2. A[0] = Unshuffled(n)
  <2>1. 1..0 = {} /\ {} \in SUBSET (1..(n - 1)) /\ 0 \in 0..(n - 1)
    OBVIOUS
  <2>2. it[{}] = Round(it, n, d, {})
    BY <1>1, <2>1 DEF Rounds
  <2> QED
    BY <2>1, <2>2 DEF Round
<1>3. ASSUME NEW q \in 1..(n - 1)
      PROVE  A[q] = Swapped(A[q - 1], n + 1 - q, d[n + 1 - q])
  <2> DEFINE s == 1..q
  <2>1. s \in SUBSET (1..(n - 1)) /\ s # {} /\ q \in s /\ q \in Nat
    OBVIOUS
  <2>2. Max(s) = q
    <3>1. Max(s) \in s /\ \A j \in s : j <= Max(s)
      BY <2>1, LowestHighest
    <3> QED
      BY <2>1, <3>1
  <2>3. s \ {q} = 1..(q - 1)
    OBVIOUS
  <2>4. it[s] = Round(it, n, d, s)
    BY <1>1, <2>1 DEF Rounds
  <2>5. Downward(n)[q] = n + 1 - q
    BY DEF Downward
  <2>6. A[q] = it[s] /\ A[q - 1] = it[1..(q - 1)]
    OBVIOUS
  <2> HIDE DEF s, A
  <2>7. it[s] = Swapped(it[s \ {q}], n + 1 - q, d[n + 1 - q])
    BY <2>1, <2>2, <2>4, <2>5 DEF Round
  <2> QED
    BY <2>3, <2>6, <2>7
<1>4. A[n - 1] = Shuffled(n, d)
  BY <1>1
<1>5. Run(A, n, d, n - 1)
  <2> HIDE DEF A
  <2> QED
    BY <1>2, <1>3 DEF Run
<1> QED
  BY <1>4, <1>5

\* An iteration puts what it draws in its place.
Swaps(s, order, a, b, n) ==
    /\ n \in Nat /\ OrderOf(order, n) /\ a \in 1..n /\ b \in 1..n
    /\ s = Swapped(order, a, b)

LEMMA SwappedIs ==
  ASSUME NEW n, NEW order, NEW a, NEW b, NEW s, Swaps(s, order, a, b, n)
  PROVE  /\ OrderOf(s, n) /\ s[a] = order[b]
         /\ \A k \in 1..n : k # a /\ k # b => s[k] = order[k]
<1> USE DEF Swaps
<1>1. order \in [1..n -> 1..n] /\ IsInjective(order)
  BY DEF OrderOf, IsInjective
<1>2. s \in [1..n -> 1..n] /\ IsInjective(s)
  BY <1>1, SwapKeepsOrder
<1>3. OrderOf(s, n)
  BY <1>2 DEF OrderOf, IsInjective
<1>4. s[a] = order[b] /\ \A k \in 1..n : k # a /\ k # b => s[k] = order[k]
  BY <1>1 DEF Swapped
<1> QED
  BY <1>3, <1>4

\* Runs on the same draws make the same orders.
LEMMA RunsAgree ==
  ASSUME NEW n, NEW A, NEW B, NEW d, NEW e, NEW m \in Nat, Run(A, n, d, m), Run(B, n, e, m),
         \A q \in 1..m : d[n + 1 - q] = e[n + 1 - q]
  PROVE  A[m] = B[m]
<1> DEFINE T == {q \in Nat : q <= m => A[q] = B[q]}
<1>1. 0 \in T
  BY DEF Run
<1>2. ASSUME NEW q \in T PROVE q + 1 \in T
  <2> SUFFICES ASSUME q + 1 <= m PROVE A[q + 1] = B[q + 1]
    OBVIOUS
  <2>1. q + 1 \in 1..m /\ q + 1 - 1 = q /\ A[q] = B[q]
    BY <1>2
  <2> DEFINE j == q + 1
  <2>2. j \in 1..m /\ j - 1 = q
    BY <2>1
  <2> HIDE DEF j, T
  <2>3. /\ A[j] = Swapped(A[j - 1], n + 1 - j, d[n + 1 - j])
        /\ B[j] = Swapped(B[j - 1], n + 1 - j, e[n + 1 - j])
        /\ d[n + 1 - j] = e[n + 1 - j]
    BY <2>2 DEF Run
  <2>4. A[j] = B[j]
    BY <2>1, <2>2, <2>3
  <2> QED
    BY <2>4 DEF j
<1>3. T \in SUBSET Nat
  OBVIOUS
<1> HIDE DEF T
<1>4. T = Nat
  BY <1>1, <1>2, <1>3, SetInduction
<1> QED
  BY <1>4 DEF T

LEMMA RunsAreOrders ==
  ASSUME NEW n \in Nat \ {0}, NEW d \in DrawsOf(n), NEW A, NEW m \in Nat, m <= n - 1,
         Run(A, n, d, m)
  PROVE  OrderOf(A[m], n)
<1> DEFINE T == {q \in Nat : q <= m => OrderOf(A[q], n)}
<1>1. 0 \in T
  <2>1. OrderOf(Unshuffled(n), n)
    BY DEF OrderOf, Unshuffled
  <2> QED
    BY <2>1 DEF Run
<1>2. ASSUME NEW q \in T PROVE q + 1 \in T
  <2> SUFFICES ASSUME q + 1 <= m PROVE OrderOf(A[q + 1], n)
    OBVIOUS
  <2> DEFINE j == q + 1  k == n + 1 - j
  <2>1. q \in Nat /\ OrderOf(A[q], n) /\ j \in 1..m /\ j - 1 = q /\ k \in 1..n
    BY <1>2
  <2>2. d[k] \in 1..n
    BY <2>1 DEF DrawsOf
  <2> HIDE DEF k, T
  <2>3. A[j] = Swapped(A[q], k, d[k])
    <3> HIDE DEF j
    <3>1. A[j] = Swapped(A[j - 1], n + 1 - j, d[n + 1 - j])
      BY <2>1 DEF Run
    <3> QED
      BY <2>1, <3>1 DEF k
  <2> HIDE DEF j
  <2>4. OrderOf(A[j], n)
    <3>1. Swaps(A[j], A[q], k, d[k], n)
      BY <2>1, <2>2, <2>3 DEF Swaps
    <3> QED
      BY <3>1, SwappedIs
  <2> QED
    BY <2>4 DEF j
<1>3. T \in SUBSET Nat
  OBVIOUS
<1> HIDE DEF T
<1>4. T = Nat
  BY <1>1, <1>2, <1>3, SetInduction
<1> QED
  BY <1>4 DEF T

\* What an iteration has put in place, the later ones leave there.
LEMMA RunSettles ==
  ASSUME NEW n \in Nat \ {0}, NEW d \in DrawsOf(n), NEW A, NEW m \in Nat, m <= n - 1,
         Run(A, n, d, m), NEW q \in 0..m, NEW k \in 1..n, k > n - q
  PROVE  A[m][k] = A[q][k]
<1> DEFINE T == {r \in Nat : q + r <= m => A[q + r][k] = A[q][k]}
<1>1. 0 \in T
  OBVIOUS
<1>2. ASSUME NEW r \in T PROVE r + 1 \in T
  <2> SUFFICES ASSUME q + (r + 1) <= m PROVE A[q + (r + 1)][k] = A[q][k]
    OBVIOUS
  <2> DEFINE p == q + r  j == q + (r + 1)  a == n + 1 - j
  <2>1. /\ j \in 1..m /\ j - 1 = p /\ p \in Nat /\ p <= n - 1 /\ p <= m
        /\ a \in 1..n /\ a < k
    BY <1>2
  <2>2. A[p][k] = A[q][k]
    BY <1>2
  <2>3. d[a] \in 1..n /\ d[a] <= a
    <3> HIDE DEF a
    <3>1. d \in [1..n -> 1..n] /\ d[a] \in 1..a /\ a \in 1..n
      BY <2>1 DEF DrawsOf
    <3> QED
      BY <3>1
  <2> HIDE DEF a, j, p, T
  <2>4. A[j] = Swapped(A[p], a, d[a])
    <3>1. A[j] = Swapped(A[j - 1], n + 1 - j, d[n + 1 - j])
      BY <2>1 DEF Run
    <3> QED
      BY <2>1, <3>1 DEF a
  <2>5. Run(A, n, d, p)
    BY <2>1 DEF Run
  <2>6. OrderOf(A[p], n)
    BY <2>1, <2>5, RunsAreOrders
  <2>7. A[j][k] = A[p][k]
    <3>1. k # a /\ k # d[a]
      BY <2>1, <2>3
    <3>2. \A x \in 1..n : x # a /\ x # d[a] => A[j][x] = A[p][x]
      <4>1. n \in Nat /\ a \in 1..n /\ d[a] \in 1..n
        BY <2>1, <2>3
      <4>2. Swaps(A[j], A[p], a, d[a], n)
        BY <2>4, <2>6, <4>1 DEF Swaps
      <4> QED
        BY <4>2, SwappedIs
    <3> QED
      BY <3>1, <3>2
  <2> QED
    BY <2>2, <2>7 DEF j
<1>3. T \in SUBSET Nat
  OBVIOUS
<1> HIDE DEF T
<1>4. T = Nat
  BY <1>1, <1>2, <1>3, SetInduction
<1>5. m - q \in T /\ q + (m - q) = m
  BY <1>4
<1> QED
  BY <1>5 DEF T

\* Different draws make different orders.
LEMMA DrawsDiffer ==
  ASSUME NEW n \in Nat \ {0}, NEW d \in DrawsOf(n), NEW e \in DrawsOf(n),
         Shuffled(n, d) = Shuffled(n, e)
  PROVE  d = e
<1> DEFINE C == {k \in 1..n : d[k] # e[k]}
<1>1. /\ d \in [1..n -> 1..n] /\ e \in [1..n -> 1..n]
      /\ \A k \in 1..n : d[k] \in 1..k /\ e[k] \in 1..k
  BY DEF DrawsOf
<1> SUFFICES ASSUME d # e PROVE FALSE
  OBVIOUS
<1>2. C # {}
  <2>1. (\A k \in 1..n : d[k] = e[k]) => d = e
    BY <1>1
  <2> QED
    BY <2>1
<1>3. PICK k \in C : \A c \in C : c <= k
  <2>1. C \subseteq 1..n /\ n \in Nat
    OBVIOUS
  <2> HIDE DEF C
  <2>2. Max(C) \in C /\ \A c \in C : c <= Max(C)
    BY <1>2, <2>1, LowestHighest
  <2> QED
    BY <2>2
<1>4. k \in 1..n /\ d[k] # e[k] /\ k # 1
  <2>1. d[1] = 1 /\ e[1] = 1
    BY <1>1
  <2> QED
    BY <2>1
<1> DEFINE m == n + 1 - k  p == m - 1
<1>5. /\ m \in 1..(n - 1) /\ m \in Nat /\ p \in Nat /\ p <= n - 1 /\ m <= n - 1
      /\ n + 1 - m = k /\ n - 1 \in Nat /\ m \in 0..(n - 1) /\ k > n - m
      /\ 1..p \subseteq 1..(n - 1) /\ 1..m \subseteq 1..(n - 1)
  BY <1>4
<1>6. \A q \in 1..p : d[n + 1 - q] = e[n + 1 - q]
  <2>1. ASSUME NEW q \in 1..p PROVE n + 1 - q \in 1..n /\ n + 1 - q > k
    BY <1>4
  <2> QED
    BY <1>3, <2>1
<1>7. PICK A : Run(A, n, d, n - 1) /\ A[n - 1] = Shuffled(n, d)
  BY ShuffledRuns
<1>8. PICK B : Run(B, n, e, n - 1) /\ B[n - 1] = Shuffled(n, e)
  BY ShuffledRuns
<1> HIDE DEF m, p, C
<1>9. Run(A, n, d, p) /\ Run(B, n, e, p)
  BY <1>5, <1>7, <1>8 DEF Run
<1>10. A[p] = B[p] /\ OrderOf(A[p], n)
  BY <1>5, <1>6, <1>9, RunsAgree, RunsAreOrders
<1>11. A[m] = Swapped(A[p], k, d[k]) /\ B[m] = Swapped(B[p], k, e[k])
  <2>1. /\ A[m] = Swapped(A[m - 1], n + 1 - m, d[n + 1 - m])
        /\ B[m] = Swapped(B[m - 1], n + 1 - m, e[n + 1 - m])
    BY <1>5, <1>7, <1>8 DEF Run
  <2> QED
    BY <1>5, <2>1 DEF p
<1>12. d[k] \in 1..n /\ e[k] \in 1..n
  BY <1>1, <1>4
<1>13. A[m][k] = A[p][d[k]] /\ B[m][k] = B[p][e[k]]
  <2>1. n \in Nat /\ k \in 1..n
    BY <1>4
  <2>2. Swaps(A[m], A[p], k, d[k], n) /\ Swaps(B[m], B[p], k, e[k], n)
    BY <1>10, <1>11, <1>12, <2>1 DEF Swaps
  <2> QED
    BY <2>2, SwappedIs
<1>14. A[n - 1][k] = A[m][k] /\ B[n - 1][k] = B[m][k]
  <2>1. n - 1 \in Nat /\ n - 1 <= n - 1
    OBVIOUS
  <2> QED
    BY <1>4, <1>5, <1>7, <1>8, <2>1, RunSettles
<1>15. A[p][d[k]] = A[p][e[k]]
  BY <1>7, <1>8, <1>10, <1>13, <1>14
<1> QED
  BY <1>4, <1>10, <1>12, <1>15 DEF OrderOf

LEMMA OrderOnto ==
  ASSUME NEW n, NEW order, OrderOf(order, n)
  PROVE  \A y \in 1..n : \E x \in 1..n : order[x] = y
<1> DEFINE S == 1..n
<1>1. order \in [S -> S] /\ \A x, y \in S : order[x] = order[y] => x = y
  BY DEF OrderOf
<1>2. IsFiniteSet(S)
  BY IntervalFinite DEF OrderOf
<1> HIDE DEF S
<1>3. \A y \in S : \E x \in S : order[x] = y
  BY <1>1, <1>2, OntoItself
<1> QED
  BY <1>3 DEF S

\* Every order is made by some draws: each iteration draws the place of what
\* belongs where it stands.
LEMMA DrawsReach ==
  ASSUME NEW n \in Nat \ {0}, NEW z, OrderOf(z, n)
  PROVE  \E d \in DrawsOf(n) : Shuffled(n, d) = z
<1> DEFINE Right(A, m) == \A k \in 1..n : k > n - m => A[m][k] = z[k]
           T == {m \in Nat : m <= n - 1 =>
                    \E d \in DrawsOf(n) : \E A : Run(A, n, d, m) /\ Right(A, m)}
<1>1. 0 \in T
  <2> DEFINE d == [k \in 1..n |-> 1]  A == [q \in {0} |-> Unshuffled(n)]
  <2>1. d \in DrawsOf(n)
    BY DEF DrawsOf
  <2>2. Run(A, n, d, 0)
    BY DEF Run
  <2>3. Right(A, 0)
    OBVIOUS
  <2> HIDE DEF d, A
  <2> QED
    BY <2>1, <2>2, <2>3
<1>2. ASSUME NEW m \in T PROVE m + 1 \in T
  <2> SUFFICES ASSUME m + 1 <= n - 1
               PROVE  \E d \in DrawsOf(n) : \E A : Run(A, n, d, m + 1) /\ Right(A, m + 1)
    BY <1>2
  <2>d. PICK d \in DrawsOf(n) : \E A : Run(A, n, d, m) /\ Right(A, m)
    BY <1>2
  <2>1. PICK A : Run(A, n, d, m) /\ Right(A, m)
    BY <2>d
  <2>2. m \in Nat /\ m <= n - 1
    BY <1>2
  <2> DEFINE j == m + 1  a == n + 1 - j
  <2>3. /\ j \in Nat /\ j - 1 = m /\ a \in 1..n /\ a = n - m /\ n \in Nat
        /\ \A q \in 1..j : q = j \/ (q \in 1..m /\ n + 1 - q # a /\ q # j /\ q - 1 # j
                                     /\ n + 1 - q \in 1..n)
        /\ \A k \in 1..n : k > n - j => k = a \/ k > n - m
    BY <2>2
  <2>4. OrderOf(A[m], n)
    BY <2>1, <2>2, RunsAreOrders
  <2>5. PICK b \in 1..n : A[m][b] = z[a]
    <3>2. \A y \in 1..n : \E x \in 1..n : A[m][x] = y
      BY <2>4, OrderOnto
    <3>3. z[a] \in 1..n
      BY <2>3 DEF OrderOf
    <3> QED
      BY <3>2, <3>3
  <2>6. b \in 1..a
    <3>1. ASSUME b > n - m PROVE FALSE
      <4>1. A[m][b] = z[b]
        BY <2>1, <3>1
      <4>2. b = a
        BY <2>3, <2>5, <4>1 DEF OrderOf
      <4> QED
        BY <2>3, <3>1, <4>2
    <3>2. ~ (b > n - m)
      BY <3>1
    <3> QED
      BY <2>2, <2>3, <3>2
  <2> DEFINE e == [d EXCEPT ![a] = b]
             B == [q \in 0..j |-> IF q = j THEN Swapped(A[m], a, b) ELSE A[q]]
  <2>7. d \in [1..n -> 1..n] /\ \A k \in 1..n : d[k] \in 1..k
    BY DEF DrawsOf
  <2>8. e[a] = b /\ \A k \in 1..n : k # a => e[k] = d[k]
    BY <2>3, <2>7
  <2>9. e \in DrawsOf(n)
    <3>1. e \in [1..n -> 1..n]
      BY <2>5, <2>7
    <3> HIDE DEF e, a
    <3> QED
      BY <2>6, <2>7, <2>8, <3>1 DEF DrawsOf
  <2>10. B[j] = Swapped(A[m], a, b) /\ \A q \in 0..m : B[q] = A[q]
    BY <2>2
  <2> HIDE DEF e, B, a, j, T
  <2>11. Run(B, n, e, j)
    <3>1. B[0] = Unshuffled(n)
      BY <2>1, <2>2, <2>10 DEF Run
    <3>2. ASSUME NEW q \in 1..j
          PROVE  B[q] = Swapped(B[q - 1], n + 1 - q, e[n + 1 - q])
      <4>1. CASE q = j
        <5>1. B[q - 1] = A[m]
          BY <2>2, <2>3, <2>10, <4>1
        <5>2. n + 1 - q = a
          BY <4>1 DEF a
        <5> QED
          BY <2>8, <2>10, <4>1, <5>1, <5>2
      <4>2. CASE q # j
        <5>1. q \in 1..m /\ n + 1 - q # a /\ n + 1 - q \in 1..n
          BY <2>3, <4>2
        <5>2. q \in 0..m /\ q - 1 \in 0..m
          BY <2>2, <5>1
        <5>3. B[q] = A[q] /\ B[q - 1] = A[q - 1] /\ e[n + 1 - q] = d[n + 1 - q]
          BY <2>8, <2>10, <5>1, <5>2
        <5>4. A[q] = Swapped(A[q - 1], n + 1 - q, d[n + 1 - q])
          BY <2>1, <5>1 DEF Run
        <5> QED
          BY <5>3, <5>4
      <4> QED
        BY <4>1, <4>2
    <3> QED
      BY <3>1, <3>2 DEF Run
  <2>12. Right(B, j)
    <3> SUFFICES ASSUME NEW k \in 1..n, k > n - j PROVE B[j][k] = z[k]
      OBVIOUS
    <3>1. B[j][a] = A[m][b] /\ \A x \in 1..n : x # a /\ x # b => B[j][x] = A[m][x]
      <4>1. Swaps(B[j], A[m], a, b, n)
        BY <2>3, <2>4, <2>10 DEF Swaps
      <4> QED
        BY <4>1, SwappedIs
    <3>2. CASE k = a
      BY <2>5, <3>1, <3>2
    <3>3. CASE k # a
      <4>1. k > n - m /\ k # b
        BY <2>2, <2>3, <2>6, <3>3
      <4> QED
        BY <2>1, <3>1, <3>3, <4>1
    <3> QED
      BY <3>2, <3>3
  <2> HIDE DEF Right
  <2>13. \E dd \in DrawsOf(n) : \E AA : Run(AA, n, dd, j) /\ Right(AA, j)
    BY <2>9, <2>11, <2>12
  <2> QED
    BY <2>13 DEF j
<1>3. T \in SUBSET Nat
  OBVIOUS
<1> HIDE DEF T, Right
<1>4. T = Nat
  BY <1>1, <1>2, <1>3, SetInduction
<1>d. PICK d \in DrawsOf(n) : \E A : Run(A, n, d, n - 1) /\ Right(A, n - 1)
  <2>1. n - 1 \in T /\ n - 1 <= n - 1
    BY <1>4
  <2> QED
    BY <2>1 DEF T
<1>5. PICK A : Run(A, n, d, n - 1) /\ Right(A, n - 1)
  BY <1>d
<1>6. OrderOf(A[n - 1], n)
  BY <1>5, RunsAreOrders
<1>7. A[n - 1] = z
  <2> DEFINE y == A[n - 1]
  <2>1. y \in [1..n -> 1..n] /\ \A j, k \in 1..n : y[j] = y[k] => j = k
    BY <1>6 DEF OrderOf
  <2>2. \A k \in 1..n : k > 1 => y[k] = z[k]
    BY <1>5 DEF Right
  <2> HIDE DEF y
  <2>3. z \in [1..n -> 1..n] /\ \A j, k \in 1..n : z[j] = z[k] => j = k
    BY DEF OrderOf
  <2>4. \A v \in 1..n : \E x \in 1..n : z[x] = v
    BY OrderOnto
  <2>5. PICK j \in 1..n : z[j] = y[1]
    <3>1. y[1] \in 1..n
      BY <2>1
    <3> QED
      BY <2>4, <3>1
  <2>6. ~ (j > 1)
    BY <2>1, <2>2, <2>5
  <2>7. y[1] = z[1]
    BY <2>5, <2>6
  <2>8. \A k \in 1..n : y[k] = z[k]
    BY <2>2, <2>7
  <2> QED
    BY <2>1, <2>3, <2>8 DEF y
<1>8. PICK B : Run(B, n, d, n - 1) /\ B[n - 1] = Shuffled(n, d)
  BY ShuffledRuns
<1>9. A[n - 1] = B[n - 1]
  BY <1>5, <1>8, RunsAgree
<1> QED
  BY <1>5, <1>7, <1>8, <1>9

LEMMA ShuffledOrder ==
  ASSUME NEW n \in Nat \ {0}, NEW d \in DrawsOf(n) PROVE OrderOf(Shuffled(n, d), n)
<1>1. PICK A : Run(A, n, d, n - 1) /\ A[n - 1] = Shuffled(n, d)
  BY ShuffledRuns
<1>2. n - 1 \in Nat /\ n - 1 <= n - 1
  OBVIOUS
<1>3. OrderOf(A[n - 1], n)
  BY <1>1, <1>2, RunsAreOrders
<1> QED
  BY <1>1, <1>3

LEMMA OrdersOf ==
  ASSUME NEW n \in Nat, NEW order
  PROVE  order \in SetToSeqs(1..n) <=> OrderOf(order, n)
<1>1. Cardinality(1..n) = n
  BY IntervalSize
<1> QED
  BY <1>1 DEF SetToSeqs, OrderOf

\* Of all draws, those of the iterations count; the first entry is none's.
LEMMA FirstIsFree ==
  ASSUME NEW n \in Nat \ {0}, NEW draws,
         draws = {d \in [1..n -> 1..n] : \A k \in 1..n : k > 1 => d[k] \in Draws(k, n)}
  PROVE  /\ \A d \in draws : [d EXCEPT ![1] = 1] \in DrawsOf(n)
         /\ DrawsOf(n) \subseteq draws /\ IsFiniteSet(draws)
         /\ \A d \in DrawsOf(n) : [d EXCEPT ![1] = 1] = d
         /\ Cardinality(draws) = n * Cardinality(DrawsOf(n))
<1> DEFINE S == 1..n  D == DrawsOf(n)
<1>1. \A d : d \in draws <=> d \in [S -> S] /\ \A k \in S : k > 1 => d[k] \in 1..k
  BY DEF Draws
<1>2. \A d : d \in D <=> d \in [S -> S] /\ \A k \in S : d[k] \in 1..k
  BY DEF DrawsOf
<1>3. 1 \in S /\ IsFiniteSet(S) /\ Cardinality(S) = n
  BY IntervalFinite, IntervalSize
<1>4. IsFiniteSet(draws)
  <2>1. IsFiniteSet([S -> S]) /\ draws \subseteq [S -> S]
    BY <1>1, <1>3, FunctionsFinite
  <2> QED
    BY <2>1, SubsetFinite
<1>5. D \subseteq draws
  BY <1>1, <1>2
<1>6. IsFiniteSet(D)
  BY <1>4, <1>5, SubsetFinite
<1>7. ASSUME NEW d \in draws PROVE [d EXCEPT ![1] = 1] \in D
  <2> DEFINE e == [d EXCEPT ![1] = 1]
  <2>1. d \in [S -> S] /\ \A k \in S : k > 1 => d[k] \in 1..k
    BY <1>1
  <2>2. e \in [S -> S] /\ e[1] = 1 /\ \A k \in S : k # 1 => e[k] = d[k]
    BY <1>3, <2>1
  <2> HIDE DEF e
  <2>3. \A k \in S : e[k] \in 1..k
    <3> SUFFICES ASSUME NEW k \in S PROVE e[k] \in 1..k
      OBVIOUS
    <3>1. CASE k = 1
      BY <2>2, <3>1
    <3>2. CASE k # 1
      <4>1. k > 1
        BY <3>2
      <4>2. e[k] = d[k]
        BY <2>2, <3>2
      <4>3. d[k] \in 1..k
        BY <2>1, <4>1
      <4> QED
        BY <4>2, <4>3
    <3> QED
      BY <3>1, <3>2
  <2>4. e \in D
    BY <1>2, <2>2, <2>3
  <2> QED
    BY <2>4 DEF e
<1>8. ASSUME NEW d \in D PROVE d \in [S -> S] /\ d[1] = 1 /\ [d EXCEPT ![1] = 1] = d
  <2>1. d \in [S -> S] /\ d[1] \in 1..1
    BY <1>2, <1>3
  <2>2. d[1] = 1
    BY <2>1
  <2> QED
    BY <2>1, <2>2
<1> DEFINE pair == [x \in S \X D |-> [x[2] EXCEPT ![1] = x[1]]]
<1>9. ASSUME NEW a \in S, NEW d \in D
      PROVE  /\ [d EXCEPT ![1] = a] \in draws
             /\ [d EXCEPT ![1] = a][1] = a
             /\ \A k \in S : k # 1 => [d EXCEPT ![1] = a][k] = d[k]
  <2> DEFINE e == [d EXCEPT ![1] = a]
  <2>1. d \in [S -> S] /\ \A k \in S : d[k] \in 1..k
    BY <1>2
  <2>2. e \in [S -> S] /\ e[1] = a /\ \A k \in S : k # 1 => e[k] = d[k]
    BY <1>3, <2>1
  <2> HIDE DEF e
  <2>3. ASSUME NEW k \in S, k > 1 PROVE e[k] \in 1..k
    <3>1. k # 1
      BY <2>3
    <3>2. e[k] = d[k]
      BY <2>2, <3>1
    <3>3. d[k] \in 1..k
      BY <2>1
    <3> QED
      BY <3>2, <3>3
  <2>4. e \in draws
    BY <1>1, <2>2, <2>3
  <2> QED
    BY <2>2, <2>4 DEF e
<1>10. \A a \in S, d \in D : <<a, d>> \in S \X D /\ pair[<<a, d>>] = [d EXCEPT ![1] = a]
  OBVIOUS
<1>11. \A x \in S \X D : \E a \in S, d \in D : x = <<a, d>>
  OBVIOUS
<1>12. pair \in [S \X D -> draws]
  <2>1. ASSUME NEW x \in S \X D PROVE pair[x] \in draws
    <3>1. PICK a \in S, d \in D : x = <<a, d>>
      BY <1>11
    <3>2. [d EXCEPT ![1] = a] \in draws
      BY <1>9
    <3>3. pair[<<a, d>>] = [d EXCEPT ![1] = a]
      BY <1>10
    <3> HIDE DEF pair
    <3> QED
      BY <3>1, <3>2, <3>3
  <2>2. pair = [x \in S \X D |-> pair[x]]
    OBVIOUS
  <2> HIDE DEF pair
  <2> QED
    BY <2>1, <2>2
<1> HIDE DEF pair, D, S
<1>13. ASSUME NEW x \in S \X D, NEW y \in S \X D, pair[x] = pair[y] PROVE x = y
  <2>1. PICK a \in S, d \in D : x = <<a, d>>
    BY <1>11
  <2>2. PICK b \in S, e \in D : y = <<b, e>>
    BY <1>11
  <2> DEFINE u == [d EXCEPT ![1] = a]  v == [e EXCEPT ![1] = b]
  <2>3. u = v
    BY <1>10, <1>13, <2>1, <2>2
  <2>4. /\ u[1] = a /\ \A k \in S : k # 1 => u[k] = d[k]
        /\ v[1] = b /\ \A k \in S : k # 1 => v[k] = e[k]
    BY <1>9
  <2> HIDE DEF u, v
  <2>5. a = b /\ \A k \in S : k # 1 => d[k] = e[k]
    BY <2>3, <2>4
  <2>6. /\ d \in [S -> S] /\ d[1] = 1 /\ e \in [S -> S] /\ e[1] = 1
    BY <1>8
  <2>7. \A k \in S : d[k] = e[k]
    BY <2>5, <2>6
  <2>8. d = e
    BY <2>6, <2>7
  <2> QED
    BY <2>1, <2>2, <2>5, <2>8
<1>14. ASSUME NEW d \in draws PROVE \E x \in S \X D : pair[x] = d
  <2> DEFINE e == [d EXCEPT ![1] = 1]  a == d[1]
  <2>1. d \in [S -> S] /\ a \in S /\ e \in D
    BY <1>1, <1>3, <1>7
  <2>2. [e EXCEPT ![1] = a] = d
    BY <1>3, <2>1
  <2> HIDE DEF e, a
  <2> QED
    BY <1>10, <2>1, <2>2
<1>15. IsFiniteSet(S \X D) /\ Cardinality(S \X D) = n * Cardinality(D)
  BY <1>3, <1>6, PairsCount
<1>16. Cardinality(draws) = Cardinality(S \X D)
  <2> DEFINE X == S \X D
  <2>1. IsFiniteSet(X) /\ pair \in [X -> draws] /\ \A y \in draws : \E x \in X : pair[x] = y
    BY <1>12, <1>14, <1>15
  <2>2. \A x, y \in X : pair[x] = pair[y] => x = y
    BY <1>13
  <2> HIDE DEF X
  <2>3. Cardinality(draws) = Cardinality(X)
    BY <2>1, <2>2, SameCount
  <2> QED
    BY <2>3 DEF X
<1> QED
  BY <1>4, <1>5, <1>7, <1>8, <1>15, <1>16 DEF D

LEMMA FairOK == OrderOfAll => EachOrderOnce
<1> SUFFICES ASSUME OrderOfAll, stage = "shuffle"
             PROVE  EachOrderOnce
  BY DEF EachOrderOnce
<1> DEFINE n == Len(indices)
           draws == {d \in [1..n -> 1..n] :
                       \A k \in 1..n : k > 1 => d[k] \in Draws(k, n)}
           orders == {Shuffled(n, [d EXCEPT ![1] = 1]) : d \in draws}
           D == DrawsOf(n)
<1>1. n \in Nat \ {0}
  <2>1. indices \in [1..n -> 1..n] /\ i \in 1..n
    BY DEF OrderOfAll
  <2>2. CASE n \in Nat
    BY <2>1, <2>2
  <2>3. CASE n \notin Nat
    BY <2>1, <2>3
  <2> QED
    BY <2>2, <2>3
<1> HIDE DEF n
<1>2. /\ \A d \in draws : [d EXCEPT ![1] = 1] \in D
      /\ D \subseteq draws /\ IsFiniteSet(draws)
      /\ \A d \in D : [d EXCEPT ![1] = 1] = d
      /\ Cardinality(draws) = n * Cardinality(D)
  BY <1>1, FirstIsFree
<1> HIDE DEF draws
<1>3. orders = {Shuffled(n, d) : d \in D}
  <2>1. ASSUME NEW o \in orders PROVE o \in {Shuffled(n, d) : d \in D}
    BY <1>2
  <2>2. ASSUME NEW d \in D PROVE Shuffled(n, d) \in orders
    BY <1>2
  <2> HIDE DEF orders
  <2> QED
    BY <2>1, <2>2
<1> HIDE DEF orders
<1>4. \A d \in D : OrderOf(Shuffled(n, d), n)
  BY <1>1, ShuffledOrder
<1>5. \A z : OrderOf(z, n) => \E d \in D : Shuffled(n, d) = z
  BY <1>1, DrawsReach
<1>6. \A d, e \in D : Shuffled(n, d) = Shuffled(n, e) => d = e
  BY <1>1, DrawsDiffer
<1>7. \A z : z \in SetToSeqs(1..n) <=> OrderOf(z, n)
  BY <1>1, OrdersOf
<1> HIDE DEF D
<1>8. orders = SetToSeqs(1..n)
  <2>1. \A z : z \in orders <=> OrderOf(z, n)
    BY <1>3, <1>4, <1>5
  <2>2. \A z : z \in orders <=> z \in SetToSeqs(1..n)
    BY <1>7, <2>1
  <2> DEFINE U == SetToSeqs(1..n)
  <2> HIDE DEF U
  <2>3. \A z : z \in orders <=> z \in U
    BY <2>2 DEF U
  <2>4. orders = U
    BY <2>3
  <2> QED
    BY <2>4 DEF U
<1>9. Cardinality(orders) = Cardinality(D)
  <2> DEFINE made == [d \in D |-> Shuffled(n, d)]
  <2>1. /\ made \in [D -> orders] /\ \A y \in orders : \E d \in D : made[d] = y
        /\ \A d, e \in D : made[d] = made[e] => d = e
    BY <1>3, <1>6
  <2>2. IsFiniteSet(D)
    BY <1>2, SubsetFinite
  <2> HIDE DEF made
  <2> QED
    BY <2>1, <2>2, SameCount
<1>10. orders = SetToSeqs(1..n) /\ Cardinality(draws) = n * Cardinality(orders)
  BY <1>2, <1>8, <1>9
<1> QED
  BY <1>10 DEF EachOrderOnce, n, draws, orders

\* Uniform draws give uniform orders, for every number of sentences: the draws
\* that reorder_sentences can make lead to each order in exactly one way.
THEOREM ShuffleIsFair == DefenceSpec => []EachOrderOnce
<1>1. DefenceInit => OrderInv
  BY DEF DefenceInit, OrderInv, OrderOfAll
<1>2. OrderInv => EachOrderOnce
  BY FairOK DEF OrderInv
<1> QED
  BY <1>1, <1>2, OrderStep, PTL DEF DefenceSpec

(***************************************************************************)
(* Numeric perturbation.                                                   *)
(***************************************************************************)
LEMMA ParametersAre ==
  /\ Half \in Nat /\ Half > 1 /\ Pct \in 0..100 /\ MaxDen \in Nat \ {0}
  /\ Seeds \subseteq Nat
  BY DefenceAssumption, Zenon DEF DefenceAssumption

\* The high half of what Lcg computes really is at most HighMax.
LEMMA HighHalfOK ==
  ASSUME seed \in Int, NEW p \in Int
  PROVE  HighHalf(Lcg(p)) \in 0..HighMax /\ HighMax \in Nat \ {0}
<1> DEFINE b == Half * Half  l == Lcg(p)  h == HighHalf(l)
<1>1. Half \in Nat \ {0} /\ Half > 1 /\ HighMax \in Nat \ {0} /\ HighMax = Half - 1
  BY ParametersAre DEF HighMax
<1>2. b \in Nat \ {0}
  BY <1>1, ProductPositive
<1> DEFINE x == seed * 21 + p * 66  y == Wrap(x) * 45 + 79
<1>3. x \in Int
  OBVIOUS
<1>4. l = y % b /\ Wrap(x) = x % b
  BY DEF Lcg, Wrap
<1> HIDE DEF b, l, x
<1>5. Wrap(x) \in Int /\ y \in Int
  BY <1>2, <1>3, <1>4, DivMod
<1> HIDE DEF y
<1>6. l \in Nat /\ l < b
  BY <1>2, <1>4, <1>5, DivMod
<1>7. h \in Int /\ l = Half * h + (l % Half) /\ l % Half \in Nat /\ l % Half < Half
  BY <1>1, <1>6, DivMod DEF HighHalf
<1> HIDE DEF h
<1>8. h >= 0
  <2> SUFFICES ASSUME h <= -1 PROVE FALSE
    BY <1>7
  <2>1. Half * h <= -Half
    <3>1. Half * (-1 - h) \in Nat
      BY <1>1, <1>7, ProductNat
    <3>2. Half * (-1 - h) = -Half - Half * h /\ Half * h \in Int
      BY <1>1, <1>7
    <3> QED
      BY <1>1, <3>1, <3>2
  <2>2. Half * h \in Int
    BY <1>1, <1>7
  <2> QED
    BY <1>1, <1>6, <1>7, <2>1, <2>2
<1>9. h <= Half - 1
  <2> SUFFICES ASSUME h >= Half PROVE FALSE
    BY <1>1, <1>7
  <2>1. Half * h >= Half * Half /\ Half * h \in Int /\ Half * Half \in Int
    <3>1. Half * (h - Half) \in Nat
      BY <1>1, <1>7, ProductNat
    <3>2. Half * (h - Half) = Half * h - Half * Half
          /\ Half * h \in Int /\ Half * Half \in Int
      BY <1>1, <1>7
    <3> QED
      BY <3>1, <3>2
  <2> QED
    BY <1>6, <1>7, <2>1 DEF b
<1> QED
  BY <1>1, <1>7, <1>8, <1>9 DEF h, l

\* Rounding is off by half a unit at most and keeps the sign.
LEMMA HalfAway ==
  ASSUME NEW a \in Nat, NEW d \in Nat \ {0}, NEW k, k = (2 * a + d) \div (2 * d)
  PROVE  k \in Nat /\ 2 * (d * k - a) <= d /\ 2 * (a - d * k) <= d
<1> DEFINE u == 2 * a + d  v == 2 * d
<1>1. u \in Nat /\ v \in Nat \ {0}
  OBVIOUS
<1>2. k \in Int /\ u = v * k + (u % v) /\ u % v \in Nat /\ u % v < v
  <2> HIDE DEF u, v
  <2>1. k = u \div v
    BY DEF u, v
  <2>2. u \div v \in Int /\ u = v * (u \div v) + (u % v) /\ u % v \in Nat /\ u % v < v
    BY <1>1, DivMod
  <2> QED
    BY <2>1, <2>2
<1> DEFINE r == u % v
<1> HIDE DEF r
<1>3. u = v * k + r /\ r \in Nat /\ r < v
  BY <1>2 DEF r
<1>4. v * k = 2 * (d * k) /\ d * k \in Int
  BY <1>2
<1>5. k >= 0
  <2> SUFFICES ASSUME k <= -1 PROVE FALSE
    BY <1>2
  <2>1. d * (-1 - k) \in Nat
    BY <1>2, ProductNat
  <2>2. d * (-1 - k) = -d - d * k
    BY <1>2
  <2> QED
    BY <1>3, <1>4, <2>1, <2>2
<1> QED
  BY <1>2, <1>3, <1>4, <1>5

LEMMA RoundedIs ==
  ASSUME NEW n \in Int, NEW d \in Nat \ {0}, NEW r, r = Rounded(Frac(n, d))
  PROVE  /\ r \in Int /\ 2 * (r * d - n) <= d /\ 2 * (n - r * d) <= d
         /\ n >= 0 => r >= 0
         /\ n <= 0 => r <= 0
<1> DEFINE q == Frac(n, d)  a == q.num  b == q.den
           k == (2 * Abs(a) + b) \div (2 * b)
<1>1. PICK g \in Nat \ {0} : n = g * a /\ d = g * b
  BY FracValue
<1>2. a \in Int /\ b \in Nat \ {0}
  BY FracValue
<1>3. r = (IF a < 0 THEN -1 ELSE 1) * k
  BY DEF Rounded
<1> HIDE DEF q, a, b
<1>4. Abs(a) \in Nat /\ Abs(a) = IF a < 0 THEN -a ELSE a
  BY <1>2 DEF Abs
<1> DEFINE z == Abs(a)
<1>5. k \in Nat /\ 2 * (b * k - z) <= b /\ 2 * (z - b * k) <= b
  <2> HIDE DEF z
  <2>1. z \in Nat /\ k = (2 * z + b) \div (2 * b)
    BY <1>4 DEF z
  <2> HIDE DEF k
  <2> QED
    BY <1>2, <2>1, HalfAway
<1> HIDE DEF k
<1>6. /\ r \in Int /\ 2 * (b * r - a) <= b /\ 2 * (a - b * r) <= b
      /\ a < 0 => r <= 0
      /\ a >= 0 => r >= 0
  <2>1. CASE a < 0
    <3>1. r = -k /\ z = -a
      BY <1>3, <1>4, <1>5, <2>1
    <3>2. b * r = -(b * k) /\ b * k \in Int
      BY <1>2, <1>5, <3>1
    <3> QED
      BY <1>2, <1>5, <2>1, <3>1, <3>2
  <2>2. CASE a >= 0
    <3>1. r = k /\ z = a
      BY <1>2, <1>3, <1>4, <1>5, <2>2
    <3> QED
      BY <1>2, <1>5, <2>2, <3>1
  <2> QED
    BY <1>2, <2>1, <2>2
<1>7. b * r \in Int
  BY <1>2, <1>6
<1> DEFINE e == b * r - a
<1>8. e \in Int /\ 2 * e <= b /\ -b <= 2 * e
  BY <1>2, <1>6, <1>7
<1>9. r * d - n = g * e /\ g * e \in Int
  BY <1>1, <1>2, <1>6, <1>8
<1> HIDE DEF e
<1>10. 2 * (g * e) <= d /\ -d <= 2 * (g * e)
  <2>1. b - 2 * e \in Nat /\ b + 2 * e \in Nat
    BY <1>2, <1>8
  <2>2. g * (b - 2 * e) \in Nat /\ g * (b + 2 * e) \in Nat
    BY <2>1, ProductNat
  <2>3. g * (b - 2 * e) = d - 2 * (g * e) /\ g * (b + 2 * e) = d + 2 * (g * e)
    BY <1>1, <1>2, <1>8
  <2> QED
    BY <1>9, <2>2, <2>3
<1>11. r * d - n \in Int /\ n - r * d = -(r * d - n)
  BY <1>6
<1>12. (n >= 0 => a >= 0) /\ (n < 0 => a < 0) /\ (n <= 0 => a <= 0)
  <2>1. CASE a < 0
    <3>1. g * (-a - 1) \in Nat
      BY <1>2, <2>1, ProductNat
    <3>2. g * (-a - 1) = -n - g
      BY <1>1, <1>2
    <3>3. n < 0
      BY <3>1, <3>2
    <3> QED
      BY <1>2, <2>1, <3>3
  <2>2. CASE a = 0
    BY <1>1, <2>2
  <2>3. CASE a > 0
    <3>1. g * (a - 1) \in Nat
      BY <1>2, <2>3, ProductNat
    <3>2. g * (a - 1) = n - g
      BY <1>1, <1>2
    <3>3. n > 0
      BY <3>1, <3>2
    <3> QED
      BY <1>2, <2>3, <3>3
  <2> QED
    BY <1>2, <2>1, <2>2, <2>3
<1>13. a = 0 => r = 0
  <2> SUFFICES ASSUME a = 0 PROVE r = 0
    OBVIOUS
  <2>1. k = 0
    <3>1. z = 0
      BY <1>4
    <3>2. 2 * (b * k) <= b /\ b * k \in Int
      BY <1>2, <1>5, <3>1
    <3>3. CASE k >= 1
      <4>1. b * (k - 1) \in Nat
        BY <1>2, <1>5, <3>3, ProductNat
      <4>2. b * (k - 1) = b * k - b
        BY <1>2, <1>5
      <4> QED
        BY <1>2, <3>2, <4>1, <4>2
    <3> QED
      BY <1>5, <3>3
  <2> QED
    BY <1>3, <2>1
<1> QED
  BY <1>2, <1>6, <1>9, <1>10, <1>11, <1>12, <1>13

\* r is n/d rounded to a multiple of u, where n/d is x times the factor that h
\* of m makes.
RoundedProduct(r, n, d, x, f, h, m, c, u) ==
    /\ f = 100 * m + (2 * h - m) * c /\ d = 100 * m /\ n = x * f
    /\ 2 * (r * d - n) <= u * d /\ 2 * (n - r * d) <= u * d

\* What is at most the fraction away before it is rounded.
LEMMA CloseBy ==
  ASSUME NEW x \in Int, NEW m \in Nat \ {0}, NEW c \in Nat, NEW h \in 0..m,
         NEW u \in Nat, NEW r \in Int, NEW f, NEW d, NEW n,
         RoundedProduct(r, n, d, x, f, h, m, c, u)
  PROVE  100 * Abs(r - x) <= c * Abs(x) + 50 * u
<1> DEFINE y == Abs(x)  z == Abs(r - x)  k == (2 * h - m) * c
<1>0. /\ f = 100 * m + (2 * h - m) * c /\ d = 100 * m /\ n = x * f
      /\ 2 * (r * d - n) <= u * d /\ 2 * (n - r * d) <= u * d
  BY DEF RoundedProduct
<1>1. y \in Nat /\ z \in Nat /\ y = (IF x < 0 THEN -x ELSE x)
      /\ z = (IF r - x < 0 THEN -(r - x) ELSE r - x)
  BY DEF Abs
<1>2. k \in Int /\ k <= m * c /\ -(m * c) <= k /\ m * c \in Nat
  <2>1. (m - h) * c \in Nat /\ h * c \in Nat /\ m * c \in Nat
    BY ProductNat
  <2>2. (m - h) * c = m * c - h * c /\ k = 2 * (h * c) - m * c
    OBVIOUS
  <2> QED
    BY <2>1, <2>2
<1>3. n = 100 * (x * m) + x * k
  BY <1>0, <1>2
<1> HIDE DEF k
<1>4. x * k <= y * (m * c) /\ -(y * (m * c)) <= x * k /\ x * k \in Int
      /\ y * (m * c) \in Int
  <2>1. y * (m * c - k) \in Nat /\ y * (m * c + k) \in Nat
    BY <1>1, <1>2, ProductNat
  <2>2. y * (m * c - k) = y * (m * c) - y * k /\ y * (m * c + k) = y * (m * c) + y * k
        /\ y * (m * c) \in Int /\ y * k \in Int
    BY <1>1, <1>2
  <2>3. x * k = y * k \/ x * k = -(y * k)
    BY <1>1, <1>2
  <2> QED
    BY <2>1, <2>2, <2>3
<1>5. d = 100 * m /\ r * d = 100 * (r * m) /\ r * m \in Int /\ x * m \in Int
      /\ (r - x) * m = r * m - x * m /\ u * d = 100 * (u * m) /\ u * m \in Int
  BY <1>0
<1>6. z * m = (r - x) * m \/ z * m = -((r - x) * m)
  BY <1>1
<1> HIDE DEF y, z
<1>7. 200 * (z * m) <= 100 * (u * m) + 2 * (y * (m * c)) /\ z * m \in Int
  BY <1>0, <1>1, <1>3, <1>4, <1>5, <1>6
<1> DEFINE e == c * y + 50 * u - 100 * z
<1>8. 100 * (u * m) + 2 * (y * (m * c)) - 200 * (z * m) = 2 * (m * e) /\ e \in Int
  BY <1>1
<1> HIDE DEF e
<1>9. m * e \in Int /\ m * e >= 0
  BY <1>1, <1>4, <1>5, <1>7, <1>8
<1>10. e >= 0
  <2> SUFFICES ASSUME e <= -1 PROVE FALSE
    BY <1>8
  <2>1. m * (-1 - e) \in Nat
    BY <1>8, ProductNat
  <2>2. m * (-1 - e) = -m - m * e
    BY <1>8
  <2> QED
    BY <1>9, <2>1, <2>2
<1>11. c * y \in Int
  BY <1>1
<1> QED
  BY <1>1, <1>8, <1>10, <1>11 DEF e, y, z

\* One number, perturbed and rounded to a multiple of unit.
LEMMA NumberStaysClose ==
  ASSUME seed \in Int, NEW p \in Int, NEW x \in Int, NEW unit \in Nat \ {0},
         NEW r, r = Rounded(Times(Frac(x, unit), Factor(p)))
  PROVE  /\ r \in Int /\ r * x >= 0
         /\ 100 * Abs(r * unit - x) <= Pct * Abs(x) + 50 * unit
<1> DEFINE m == HighMax  h == HighHalf(Lcg(p))  c == Pct
           f == 100 * m + (2 * h - m) * c  d == 100 * m
<1>1. h \in 0..m /\ m \in Nat \ {0}
  BY HighHalfOK
<1>2. c \in 0..100
  BY ParametersAre
<1>3. Factor(p) = Frac(f, d)
  BY DEF Factor
<1> HIDE DEF m, h, c
<1>4. d \in Nat \ {0} /\ f \in Int
  BY <1>1, <1>2
<1>5. f >= 0
  <2>1. h * c \in Nat /\ m * (100 - c) \in Nat
    BY <1>1, <1>2, ProductNat
  <2>2. m * (100 - c) = 100 * m - m * c /\ (2 * h - m) * c = 2 * (h * c) - m * c
        /\ m * c \in Int
    BY <1>1, <1>2
  <2> QED
    BY <1>1, <2>1, <2>2
<1>6. /\ Times(Frac(x, unit), Factor(p)) = Frac(x * f, unit * d)
      /\ unit * d \in Nat \ {0}
  <2> HIDE DEF f, d
  <2>1. Times(Frac(x, unit), Frac(f, d)) = Frac(x * f, unit * d)
    BY <1>4, OperationsFrac
  <2> QED
    BY <1>3, <1>4, <2>1, ProductPositive
<1>7. x * f \in Int
  BY <1>4
<1>8. /\ r \in Int /\ r * unit \in Int
      /\ 2 * (r * unit * d - x * f) <= unit * d
      /\ 2 * (x * f - r * unit * d) <= unit * d
      /\ x * f >= 0 => r >= 0
      /\ x * f <= 0 => r <= 0
  <2> DEFINE n == x * f  e == unit * d
  <2>1. n \in Int /\ r = Rounded(Frac(n, e)) /\ e \in Nat \ {0}
    BY <1>6, <1>7
  <2> HIDE DEF n, e
  <2>2. /\ r \in Int /\ 2 * (r * e - n) <= e /\ 2 * (n - r * e) <= e
        /\ n >= 0 => r >= 0
        /\ n <= 0 => r <= 0
    BY <2>1, RoundedIs
  <2> HIDE DEF d, f
  <2>3. r * e = r * unit * d /\ r * unit \in Int
    BY <1>4, <2>2 DEF e
  <2> QED
    BY <2>2, <2>3 DEF n, e
<1>9. 100 * Abs(r * unit - x) <= c * Abs(x) + 50 * unit
  <2> DEFINE n == x * f  k == r * unit
  <2>1. f = 100 * m + (2 * h - m) * c /\ d = 100 * m /\ n = x * f
    OBVIOUS
  <2>2. 2 * (k * d - n) <= unit * d /\ 2 * (n - k * d) <= unit * d
    BY <1>8
  <2>3. k \in Int /\ unit \in Nat /\ c \in Nat /\ m \in Nat \ {0} /\ h \in 0..m
    BY <1>1, <1>2, <1>8
  <2> HIDE DEF f, d, n, k
  <2>4. RoundedProduct(k, n, d, x, f, h, m, c, unit)
    BY <2>1, <2>2 DEF RoundedProduct
  <2>5. 100 * Abs(k - x) <= c * Abs(x) + 50 * unit
    BY <2>3, <2>4, CloseBy
  <2> QED
    BY <2>5 DEF k
<1>10. r * x >= 0
  <2>1. CASE x >= 0
    <3>1. x * f >= 0
      BY <1>4, <1>5, <2>1, ProductNat
    <3> QED
      BY <1>8, <2>1, <3>1, ProductNat
  <2>2. CASE x < 0
    <3>1. (-x) * f \in Nat
      BY <1>4, <1>5, <2>2, ProductNat
    <3>2. (-x) * f = -(x * f)
      BY <1>4
    <3>3. -r \in Nat /\ -x \in Nat
      BY <1>7, <1>8, <2>2, <3>1, <3>2
    <3>4. (-r) * (-x) \in Nat /\ (-r) * (-x) = r * x
      BY <1>8, <3>3, ProductNat
    <3> QED
      BY <3>4
  <2> QED
    BY <2>1, <2>2
<1> QED
  BY <1>8, <1>9, <1>10 DEF c

\* A number has its own last decimal or the last of six.
LEMMA UnitIs ==
  ASSUME NEW den \in Nat \ {0}, NEW unit, unit = Unit(den),
         NEW kept, kept = den \div unit
  PROVE  /\ unit \in Nat \ {0} /\ kept \in Nat \ {0}
         /\ (den > MaxDen => den % MaxDen = 0)
              => den = unit * kept /\ kept \in {den, MaxDen}
<1> DEFINE q == den \div MaxDen
<1>1. MaxDen \in Nat \ {0}
  BY ParametersAre
<1>2. CASE den > MaxDen
  <2>1. q \in Int /\ den = MaxDen * q + (den % MaxDen)
        /\ den % MaxDen \in Nat /\ den % MaxDen < MaxDen
    BY <1>1, DivMod
  <2>2. unit = q
    BY <1>2 DEF Unit
  <2> HIDE DEF q
  <2>3. q >= 1
    <3> SUFFICES ASSUME q <= 0 PROVE FALSE
      BY <2>1
    <3>1. MaxDen * (-q) \in Nat /\ MaxDen * (-q) = -(MaxDen * q)
      BY <1>1, <2>1, ProductNat
    <3> QED
      BY <1>1, <1>2, <2>1, <3>1
  <2>4. unit \in Nat \ {0} /\ unit <= den
    <3>1. (MaxDen - 1) * q \in Nat /\ (MaxDen - 1) * q = MaxDen * q - q
      BY <1>1, <2>1, <2>3, ProductNat
    <3> QED
      BY <1>1, <2>1, <2>2, <2>3, <3>1
  <2>5. /\ kept \in Int /\ den = unit * kept + (den % unit)
        /\ den % unit \in Nat /\ den % unit < unit
    <3>1. unit \in Nat \ {0} /\ den \in Int
      BY <2>4
    <3>2. /\ den \div unit \in Int /\ den = unit * (den \div unit) + (den % unit)
          /\ den % unit \in Nat /\ den % unit < unit
      BY <3>1, DivMod
    <3> QED
      BY <3>2
  <2>6. kept >= 1 /\ unit \in Nat \ {0} /\ kept \in Nat \ {0}
    <3>1. unit \in Nat \ {0}
      BY ONLY <2>4
    <3>2. kept \in Int /\ unit * kept \in Int /\ unit * kept > 0
      <4> DEFINE u == unit  k == kept  r == den % unit  m == unit * kept
      <4>1. u \in Nat /\ k \in Int /\ m \in Int /\ m = u * k
        BY <2>5, <3>1
      <4>2. den = m + r /\ r \in Nat /\ r < u /\ u <= den
        BY <2>4, <2>5
      <4> HIDE DEF u, k, r, m
      <4>3. m > 0
        BY ONLY <4>1, <4>2, den \in Nat
      <4> QED
        BY <4>1, <4>3 DEF u, k, m
    <3>3. kept >= 1
      <4> DEFINE u == unit  k == kept
      <4>1. u \in Nat \ {0} /\ k \in Int /\ u * k > 0
        BY <3>1, <3>2
      <4> HIDE DEF u, k
      <4>2. SUFFICES ASSUME -k \in Nat PROVE FALSE
        BY <4>1 DEF k
      <4>3. u * (-k) \in Nat /\ u * (-k) = -(u * k)
        BY ONLY <4>1, <4>2, ProductNat
      <4> QED
        BY <4>1, <4>3
    <3>4. kept \in Nat \ {0}
      <4> DEFINE k == kept
      <4>1. k \in Int /\ k >= 1
        BY <3>2, <3>3
      <4> HIDE DEF k
      <4>2. k \in Nat \ {0}
        BY <4>1
      <4> QED
        BY <4>2 DEF k
    <3> QED
      BY <3>1, <3>3, <3>4
  <2>7. ASSUME den % MaxDen = 0 PROVE den = unit * kept /\ kept = MaxDen
    <3>1. den = unit * MaxDen + 0 /\ 0 \in Nat /\ 0 < unit /\ MaxDen \in Int
      BY <1>1, <2>1, <2>2, <2>4, <2>7
    <3>2. MaxDen = den \div unit
      BY <2>4, <3>1, DivModUnique
    <3> QED
      BY <1>1, <2>4, <3>1, <3>2
  <2> QED
    BY <1>2, <2>6, <2>7
<1>3. CASE ~ den > MaxDen
  <2>1. unit = 1
    BY <1>3 DEF Unit
  <2>2. den = 1 * den + 0 /\ 0 < 1
    OBVIOUS
  <2>3. den = den \div 1
    BY <2>2, DivModUnique
  <2> QED
    BY <2>1, <2>3
<1> QED
  BY <1>2, <1>3

\* A token the model may say: of a number with more decimals than are kept, the
\* last place is a fraction of the last that is.
Token == {x \in [word : STRING, num : Int, den : Nat \ {0}, dots : Nat] :
             x.den > MaxDen => x.den % MaxDen = 0}
Responses == Seq(Token)

LEMMA TextsAre == Texts \subseteq Responses
<1> SUFFICES ASSUME NEW t \in Texts PROVE t \in Responses
  OBVIOUS
<1>1. /\ t \in Seq([word : STRING, num : Int, den : Nat \ {0}, dots : Nat])
      /\ \A p \in DOMAIN t : t[p].den > MaxDen => t[p].den % MaxDen = 0
  BY DefenceAssumption DEF DefenceAssumption
<1>2. DOMAIN t = 1..Len(t) /\ Len(t) \in Nat /\ t = [p \in 1..Len(t) |-> t[p]]
  BY <1>1
<1>3. \A p \in 1..Len(t) : t[p] \in Token
  <2> DEFINE R == [word : STRING, num : Int, den : Nat \ {0}, dots : Nat]
  <2>1. t \in Seq(R)
    BY <1>1
  <2> HIDE DEF R
  <2>2. \A p \in 1..Len(t) : t[p] \in R
    BY <1>2, <2>1
  <2> QED
    BY <1>1, <1>2, <2>2 DEF Token, R
<1>4. t \in [1..Len(t) -> Token]
  BY <1>2, <1>3
<1> QED
  BY <1>2, <1>4, FunctionIsSeq DEF Responses

\* Up to the numeric step nothing happens to a number.
NumbersInv ==
    /\ stage # "idle" => seed \in Int /\ clean \in Responses
    /\ stage = "synonyms" => text = clean
    /\ stage = "numbers" =>
         LET was == Respaced(clean)
         IN  /\ DOMAIN text = DOMAIN was
             /\ \A p \in DOMAIN was : was[p].word = Number => text[p] = was[p]
    /\ NumbersStayClose

LEMMA SubstituteKeepsNumbers ==
  ASSUME NumbersInv, Substitute, NEW was, was = Respaced(clean)
  PROVE  /\ DOMAIN text' = DOMAIN was
         /\ \A p \in DOMAIN was : was[p].word = Number => text'[p] = was[p]
<1>1. Respaced(text) = was
  BY DEF NumbersInv, Substitute
<1>2. PICK chosen \in kSubset(NReplace(Cardinality(Substitutable(was))), Substitutable(was)) :
        \E pick \in Picks(was, chosen) : text' = Substituted(was, pick)
  BY <1>1 DEF Substitute
<1>3. PICK pick \in Picks(was, chosen) : text' = Substituted(was, pick)
  BY <1>2
<1>4. chosen \subseteq Substitutable(was)
  BY DEF kSubset
<1>5. DOMAIN pick = chosen
  BY DEF Picks
<1>6. \A p \in chosen : was[p].word # Number
  BY <1>4, DefenceAssumption DEF Substitutable, DefenceAssumption
<1> QED
  BY <1>3, <1>5, <1>6 DEF Substituted

\* What NumbersStayClose says of a number, before and after.
CloseTo(new, old) ==
    /\ new = [old EXCEPT !.num = new.num, !.den = new.den]
    /\ new.den \in {old.den, MaxDen}
    /\ 100 * Abs(new.num * old.den - old.num * new.den)
         <= Pct * Abs(old.num) * new.den + 50 * old.den
    /\ new.num * old.num >= 0

\* The bound on the numerators, over the smaller denominator.
LEMMA CloseOver ==
  ASSUME NEW r \in Int, NEW x \in Int, NEW unit \in Nat \ {0}, NEW kept \in Nat \ {0},
         NEW den, den = unit * kept, NEW c \in Nat,
         100 * Abs(r * unit - x) <= c * Abs(x) + 50 * unit
  PROVE  100 * Abs(r * den - x * kept) <= c * Abs(x) * kept + 50 * den
<1> DEFINE y == r * unit - x  a == Abs(y)  b == Abs(x)
<1>1. y \in Int /\ r * unit \in Int
  OBVIOUS
<1>2. /\ a \in Nat /\ b \in Nat /\ a = (IF y < 0 THEN -y ELSE y)
  BY <1>1 DEF Abs
<1>3. r * den - x * kept = y * kept /\ y * kept \in Int
  BY <1>1
<1> HIDE DEF y
<1>4. Abs(y * kept) = a * kept
  <2>1. CASE y < 0
    <3>1. kept * (-y) \in Nat \ {0} /\ kept * (-y) = -(y * kept)
      BY <1>1, <2>1, ProductPositive
    <3> QED
      BY <1>1, <1>2, <1>3, <2>1, <3>1 DEF Abs
  <2>2. CASE y >= 0
    <3>1. kept * y \in Nat /\ kept * y = y * kept
      BY <1>1, <2>2, ProductNat
    <3> QED
      BY <1>1, <1>2, <2>2, <3>1 DEF Abs
  <2> QED
    BY <1>1, <2>1, <2>2
<1>5. 100 * a <= c * b + 50 * unit
  BY DEF y
<1> HIDE DEF a, b
<1>6. c * b \in Int /\ 100 * a \in Int /\ c * b + 50 * unit \in Int
  BY <1>2
<1>7. kept * (100 * a) <= kept * (c * b + 50 * unit)
  BY <1>5, <1>6, KeepFactor
<1>8. /\ kept * (100 * a) = 100 * (a * kept)
      /\ kept * (c * b + 50 * unit) = c * b * kept + 50 * den
  BY <1>2, <1>6
<1> QED
  BY <1>3, <1>4, <1>7, <1>8 DEF b

\* Every token the numeric step rewrites.
LEMMA PerturbedIsClose ==
  ASSUME seed \in Int, NEW p \in Int, NEW old \in Token,
         NEW new, new = PerturbedNumber(old, p)
  PROVE  CloseTo(new, old)
<1> DEFINE x == old.num  den == old.den  unit == Unit(den)  kept == den \div unit
           r == Rounded(Times(Frac(x, unit), Factor(p)))
<1>1. x \in Int /\ den \in Nat \ {0} /\ (den > MaxDen => den % MaxDen = 0)
  BY DEF Token
<1>2. new = [old EXCEPT !.num = r, !.den = kept]
  BY DEF PerturbedNumber
<1>3. new.num = r /\ new.den = kept
  BY <1>2 DEF Token
<1> HIDE DEF x, den
<1>4. unit \in Nat \ {0} /\ kept \in Nat \ {0} /\ den = unit * kept /\ kept \in {den, MaxDen}
  <2>1. unit = Unit(den) /\ kept = den \div unit
    OBVIOUS
  <2> HIDE DEF unit, kept
  <2> QED
    BY <1>1, <2>1, UnitIs
<1> HIDE DEF unit, kept
<1>5. /\ r \in Int /\ r * x >= 0
      /\ 100 * Abs(r * unit - x) <= Pct * Abs(x) + 50 * unit
  <2>1. r = Rounded(Times(Frac(x, unit), Factor(p)))
    OBVIOUS
  <2> HIDE DEF r
  <2> QED
    BY <1>1, <1>4, <2>1, NumberStaysClose
<1> HIDE DEF r
<1>6. Pct \in Nat
  BY ParametersAre
<1>7. 100 * Abs(r * den - x * kept) <= Pct * Abs(x) * kept + 50 * den
  BY <1>1, <1>4, <1>5, <1>6, CloseOver
<1> QED
  BY <1>2, <1>3, <1>4, <1>5, <1>7 DEF CloseTo, x, den

LEMMA UntouchedIsClose == ASSUME NEW old \in Token PROVE CloseTo(old, old)
<1> DEFINE x == old.num  den == old.den
<1>1. x \in Int /\ den \in Nat \ {0} /\ old = [old EXCEPT !.num = x, !.den = den]
  BY DEF Token
<1> HIDE DEF x, den
<1>2. x * den - x * den = 0 /\ Abs(0) = 0 /\ x * x >= 0
  BY <1>1, SquareNat DEF Abs
<1>3. Abs(x) \in Nat /\ Pct \in Nat
  BY <1>1, ParametersAre DEF Abs
<1>4. Pct * Abs(x) * den \in Nat
  BY <1>1, <1>3, ProductNat
<1>5. 100 * Abs(x * den - x * den) <= Pct * Abs(x) * den + 50 * den
  BY <1>1, <1>2, <1>4
<1> QED
  BY <1>1, <1>2, <1>5 DEF CloseTo, x, den

LEMMA PerturbKeepsClose ==
  ASSUME NumbersInv, Perturb, NEW was, was = Respaced(clean),
         NEW p \in DOMAIN was, was[p].word = Number
  PROVE  CloseTo(text'[p], was[p])
<1>1. /\ clean \in Responses /\ seed \in Int
      /\ DOMAIN text = DOMAIN was /\ text[p] = was[p] /\ text' = Perturbed(text)
  BY DEF NumbersInv, Perturb
<1>2. was[p] \in Token /\ p \in Int
  <2>1. was \in Seq(Token)
    BY <1>1, RespacedIs DEF Responses
  <2> QED
    BY <2>1
<1>3. CASE Pct = 0
  <2>1. text'[p] = was[p]
    BY <1>1, <1>3 DEF Perturbed
  <2> QED
    BY <1>2, <2>1, UntouchedIsClose
<1>4. CASE Pct # 0
  <2>1. text'[p] = PerturbedNumber(was[p], p)
    BY <1>1, <1>4 DEF Perturbed
  <2> QED
    BY <1>1, <1>2, <2>1, PerturbedIsClose
<1> QED
  BY <1>3, <1>4

\* The words of a response do not change while it is not.
LEMMA RespacedStays == clean' = clean => Respaced(clean)' = Respaced(clean)
  BY DEF Respaced, Substitutable, At, Blank

LEMMA NumbersStep == NumbersInv /\ [DefenceNext]_defenceVars => NumbersInv'
<1> SUFFICES ASSUME NumbersInv, [DefenceNext]_defenceVars PROVE NumbersInv'
  OBVIOUS
<1>1. CASE Begin
  <2>1. clean' \in Responses /\ seed' \in Int /\ text' = clean'
        /\ stage' \in {"done", "synonyms"}
    BY <1>1, TextsAre, ParametersAre DEF Begin
  <2> QED
    BY <2>1 DEF NumbersInv, NumbersStayClose
<1>2. CASE Substitute
  <2> DEFINE was == Respaced(clean)
  <2>1. stage = "synonyms" /\ stage' = "numbers" /\ clean' = clean /\ seed' = seed
        /\ Respaced(clean)' = was
    BY <1>2, RespacedStays DEF Substitute
  <2>2. /\ DOMAIN text' = DOMAIN was
        /\ \A p \in DOMAIN was : was[p].word = Number => text'[p] = was[p]
    BY <1>2, SubstituteKeepsNumbers
  <2> HIDE DEF was
  <2> QED
    BY <2>1, <2>2 DEF NumbersInv, NumbersStayClose
<1>3. CASE Perturb
  <2> DEFINE was == Respaced(clean)
  <2>1. stage = "numbers" /\ stage' = "sentences" /\ clean' = clean /\ seed' = seed
        /\ Respaced(clean)' = was
    BY <1>3, RespacedStays DEF Perturb
  <2>2. \A p \in DOMAIN was : was[p].word = Number => CloseTo(text'[p], was[p])
    BY <1>3, PerturbKeepsClose
  <2> HIDE DEF was
  <2>3. NumbersStayClose'
    BY <2>1, <2>2 DEF NumbersStayClose, CloseTo
  <2> QED
    BY <2>1, <2>3 DEF NumbersInv
<1>4. CASE KeepOrder
  BY <1>4 DEF KeepOrder, NumbersInv, NumbersStayClose
<1>5. CASE StartShuffle
  <2>1. stage = "sentences" /\ stage' = "shuffle" /\ UNCHANGED <<seed, clean, text>>
    BY <1>5 DEF StartShuffle
  <2> QED
    BY <2>1, RespacedStays DEF NumbersInv, NumbersStayClose
<1>6. CASE Swap
  <2>1. stage = "shuffle" /\ stage' = "shuffle" /\ UNCHANGED <<seed, clean, text>>
    BY <1>6 DEF Swap
  <2> QED
    BY <2>1, RespacedStays DEF NumbersInv, NumbersStayClose
<1>7. CASE Join
  BY <1>7 DEF Join, NumbersInv, NumbersStayClose
<1>8. CASE UNCHANGED defenceVars
  <2>1. UNCHANGED <<stage, seed, clean, text>>
    BY <1>8 DEF defenceVars
  <2> QED
    BY <2>1, RespacedStays DEF NumbersInv, NumbersStayClose
<1> QED
  BY <1>1, <1>2, <1>3, <1>4, <1>5, <1>6, <1>7, <1>8 DEF DefenceNext

\* Whatever the text, the seed, the fraction and the width of its integers,
\* numeric.rs changes a number by at most the fraction and half a unit of the
\* last decimal it keeps, its own or the sixth, and never its sign, its place
\* among the words or anything else of its token.
THEOREM NumbersAreClose == DefenceSpec => []NumbersStayClose
<1>1. DefenceInit => NumbersInv
  BY DEF DefenceInit, NumbersInv, NumbersStayClose
<1>2. NumbersInv => NumbersStayClose
  BY DEF NumbersInv
<1> QED
  BY <1>1, <1>2, NumbersStep, PTL DEF DefenceSpec

(***************************************************************************)
(* The sentences.                                                          *)
(***************************************************************************)
\* Another element at one place changes the weight by the difference.
LEMMA WeighChange ==
  ASSUME NEW T, NEW m, Weighs(m, T), NEW s \in Seq(T), NEW q \in 1..Len(s),
         NEW y \in T
  PROVE  /\ [s EXCEPT ![q] = y] \in Seq(T) /\ Len([s EXCEPT ![q] = y]) = Len(s)
         /\ Weigh([s EXCEPT ![q] = y], m) = Weigh(s, m) - m[s[q]] + m[y]
<1> DEFINE u == [s EXCEPT ![q] = y]  l == Len(s)  S == 1..l  R == S \ {q}
           f == [j \in S |-> m[s[j]]]  g == [j \in S |-> m[u[j]]]
<1>1. /\ u \in Seq(T) /\ Len(u) = l /\ l \in Nat /\ u[q] = y /\ q \in S
      /\ \A j \in R : u[j] = s[j]
  OBVIOUS
<1>2. /\ Lists(f, s, m) /\ Lists(g, u, m)
      /\ f[q] = m[s[q]] /\ g[q] = m[y] /\ \A j \in R : f[j] = g[j]
  BY <1>1 DEF Lists
<1>3. IsFiniteSet(S) /\ IsFiniteSet(R) /\ R = S \ {q}
  BY <1>1, IntervalFinite, FS_Subset
<1> HIDE DEF u, f, g, R
<1>4. /\ Weigh(s, m) = Sum(f, S) /\ \A j \in S : f[j] \in Int
  BY <1>2, WeighIs
<1>5. /\ Weigh(u, m) = Sum(g, S) /\ \A j \in S : g[j] \in Int
  BY <1>1, <1>2, WeighIs
<1> HIDE DEF S, l
<1>6. Sum(f, S) = f[q] + Sum(f, R) /\ Sum(g, S) = g[q] + Sum(g, R)
  BY <1>1, <1>3, <1>4, <1>5, SumRemove
<1>7. Sum(f, R) = Sum(g, R) /\ Sum(f, R) \in Int
  <2>1. \A j \in R : f[j] = g[j] /\ f[j] \in Int
    BY <1>2, <1>3, <1>4
  <2> QED
    BY <1>3, <2>1, SumSame, SumType
<1>8. f[q] \in Int /\ g[q] \in Int
  BY <1>1, <1>4, <1>5
<1> QED
  BY <1>1, <1>2, <1>4, <1>5, <1>6, <1>7, <1>8 DEF u, l

\* The weight of one run of places and of one more element after it.
LEMMA WeighRun ==
  ASSUME NEW T, NEW m, Weighs(m, T), NEW t \in Seq(T),
         NEW a \in Nat, NEW b \in Nat, a < b, b <= Len(t), NEW y \in T,
         NEW f, Lists(f, t, m)
  PROVE  LET s == Append(SubSeq(t, a + 1, b - 1), y)
         IN  /\ s \in Seq(T) /\ Len(s) = b - a /\ s[Len(s)] = y
             /\ Weigh(s, m) = Sum(f, (a + 1)..b) - m[t[b]] + m[y]
<1> DEFINE u == SubSeq(t, a + 1, b - 1)  l == b - 1 - a  v == <<y>>
           s == Append(u, y)  B == (a + 1)..(a + l)
<1>1. l \in Nat /\ a + l = b - 1 /\ b \in 1..Len(t)
  OBVIOUS
<1>2. /\ u \in Seq(T) /\ Len(u) = l /\ \A j \in 1..l : u[j] = t[a + j]
  <2>1. u \in Seq(T) /\ Len(u) = l
    OBVIOUS
  <2>2. \A j \in 1..l : u[j] = t[a + 1 + j - 1]
    OBVIOUS
  <2>3. \A j \in 1..l : a + 1 + j - 1 = a + j
    OBVIOUS
  <2> QED
    BY <2>1, <2>2, <2>3
<1> HIDE DEF u
<1>3. /\ s = u \o v /\ s \in Seq(T) /\ Len(s) = b - a /\ s[Len(s)] = y
      /\ v \in Seq(T) /\ Len(v) = 1 /\ v[1] = y
  BY <1>1, <1>2
<1> HIDE DEF s, v, l
<1>4. Weigh(s, m) = Weigh(u, m) + Weigh(v, m)
  BY <1>2, <1>3, WeighConcat
<1>5. \A j \in 1..Len(t) : f[j] = m[t[j]] /\ f[j] \in Int
  BY WeighIs DEF Lists
<1>6. Weigh(u, m) = Sum(f, B) /\ Weigh(u, m) \in Int
  <2> DEFINE g == [j \in 1..l |-> m[u[j]]]
  <2>1. Lists(g, u, m)
    BY <1>2 DEF Lists
  <2>2. \A j \in 1..l : a + j \in 1..Len(t) /\ g[j] = f[a + j]
    BY <1>1, <1>2, <1>5
  <2> HIDE DEF g
  <2>3. Weigh(u, m) = Sum(g, 1..l) /\ Weigh(u, m) \in Int
    BY <1>2, <2>1, WeighIs
  <2>4. Shifted(f, g, a, l)
    BY <1>5, <2>2 DEF Shifted
  <2>5. Sum(f, (a + 1)..(a + l)) = Sum(g, 1..l)
    BY <1>1, <2>4, SumShift
  <2> QED
    BY <2>3, <2>5
<1>7. Weigh(v, m) = m[y] /\ m[y] \in Int
  <2> DEFINE g == [j \in 1..1 |-> m[v[j]]]
  <2>1. Lists(g, v, m) /\ g[1] = m[y] /\ m[y] \in Int
    BY <1>3 DEF Lists, Weighs
  <2> HIDE DEF g
  <2>2. Weigh(v, m) = Sum(g, 1..1)
    BY <1>3, <2>1, WeighIs
  <2>3. 1..1 = {} \cup {1} /\ IsFiniteSet({}) /\ Sum(g, {}) = 0
        /\ \A x \in {} \cup {1} : g[x] \in Int
    BY <2>1, SumEmpty, FS_EmptySet
  <2>4. Sum(g, {} \cup {1}) = g[1] + Sum(g, {})
    BY <2>3, SumAdd
  <2> QED
    BY <2>1, <2>2, <2>3, <2>4
<1>8. Sum(f, (a + 1)..b) = Sum(f, B) + m[t[b]] /\ m[t[b]] \in Int
  <2>1. (a + 1)..b = B \cup {b} /\ b \notin B
    BY <1>1
  <2>2. \A x \in B \cup {b} : f[x] \in Int
    BY <1>1, <1>5
  <2>3. IsFiniteSet(B)
    <3>1. IsFiniteSet(1..Len(t)) /\ B \subseteq 1..Len(t)
      BY <1>1, IntervalFinite
    <3> QED
      BY <3>1, FS_Subset
  <2>4. f[b] = m[t[b]] /\ f[b] \in Int
    BY <1>1, <1>5
  <2> HIDE DEF B
  <2>5. Sum(f, B \cup {b}) = f[b] + Sum(f, B)
    BY <2>1, <2>2, <2>3, SumAdd
  <2>6. Sum(f, B) \in Int
    BY <2>2, <2>3, SumType
  <2>7. Sum(f, (a + 1)..b) = Sum(f, B \cup {b})
    BY <2>1
  <2> DEFINE x == Sum(f, B)  z == Sum(f, B \cup {b})  w == m[t[b]]
  <2>8. z = w + x /\ x \in Int /\ w \in Int
    BY <2>4, <2>5, <2>6
  <2> HIDE DEF x, z, w
  <2>9. z = x + w
    BY <2>8
  <2> QED
    BY <2>7, <2>8, <2>9 DEF x, z, w
<1>9. Weigh(s, m) = Sum(f, (a + 1)..b) - m[t[b]] + m[y]
  BY <1>4, <1>6, <1>7, <1>8
<1> QED
  BY <1>3, <1>9 DEF s, u

\* What weighs nothing may be left out.
LEMMA AtWeighs ==
  ASSUME NEW T, NEW m, Weighs(m, T), NEW s \in Seq(T), NEW A, PlacesOf(A, Len(s)),
         \A j \in 1..Len(s) : j \notin A => m[s[j]] = 0
  PROVE  At(s, A) \in Seq(T) /\ Weigh(At(s, A), m) = Weigh(s, m)
<1> DEFINE n == Cardinality(A)  u == At(s, A)
           f == [j \in 1..Len(s) |-> m[s[j]]]  h == [k \in 1..n |-> m[u[k]]]
<1>1. /\ u \in Seq(T) /\ Len(u) = n /\ n \in Nat
      /\ \A k \in 1..n : Nth(A, k) \in A /\ u[k] = s[Nth(A, k)]
  BY AtIs
<1>2. A \subseteq 1..Len(s)
  BY DEF PlacesOf
<1>3. Lists(f, s, m) /\ \A j \in 1..Len(s) : j \notin A => f[j] = 0
  BY DEF Lists
<1>4. \A k \in 1..n : h[k] = f[Nth(A, k)]
  BY <1>1, <1>2
<1>5. Lists(h, u, m)
  BY <1>1 DEF Lists
<1> HIDE DEF u, f, h
<1>6. Weigh(s, m) = Sum(f, 1..Len(s)) /\ \A j \in 1..Len(s) : f[j] \in Int
  BY <1>3, WeighIs
<1>7. Weigh(u, m) = Sum(h, 1..n)
  BY <1>1, <1>5, WeighIs
<1>8. Sum(h, 1..n) = Sum(f, 1..Len(s))
  BY <1>3, <1>4, <1>6, SumNth
<1> QED
  BY <1>1, <1>6, <1>7, <1>8 DEF u

LEMMA WeighsNothing ==
  ASSUME NEW T, NEW m, Weighs(m, T), NEW s \in Seq(T), \A j \in 1..Len(s) : m[s[j]] = 0
  PROVE  Weigh(s, m) = 0
<1> DEFINE f == [j \in 1..Len(s) |-> m[s[j]]]
<1>1. Lists(f, s, m) /\ \A j \in 1..Len(s) : f[j] = 0
  BY DEF Lists
<1> HIDE DEF f
<1>2. Weigh(s, m) = Sum(f, 1..Len(s))
  BY <1>1, WeighIs
<1>3. IsFiniteSet(1..Len(s))
  BY IntervalFinite
<1>4. Sum(f, 1..Len(s)) = 0 * Cardinality(1..Len(s)) /\ Cardinality(1..Len(s)) \in Nat
  BY <1>1, <1>3, SumConstant, FiniteCardinal
<1> QED
  BY <1>2, <1>4

\* What n pieces have between them, each but the last.
LEMMA JointSum ==
  ASSUME NEW n \in Nat \ {0}, NEW c \in Int, NEW z,
         \A k \in 1..n : z[k] = (IF k = n THEN 0 ELSE 1) * c
  PROVE  Sum(z, 1..n) = (n - 1) * c /\ \A k \in 1..n : z[k] \in Int
<1>1. n - 1 \in Nat /\ n - 1 + 1 = n
  OBVIOUS
<1>2. \A k \in 1..n : z[k] \in Int
  OBVIOUS
<1>3. \A k \in 1..(n - 1) : z[k] = c
  OBVIOUS
<1>4. z[n] = 0
  OBVIOUS
<1>5. Sum(z, 1..(n - 1 + 1)) = z[n - 1 + 1] + Sum(z, 1..(n - 1))
  <2>1. \A k \in 1..(n - 1 + 1) : z[k] \in Int
    BY <1>1, <1>2
  <2> DEFINE q == n - 1
  <2>2. q \in Nat /\ \A k \in 1..(q + 1) : z[k] \in Int
    BY <1>1, <2>1
  <2> HIDE DEF q
  <2>3. Sum(z, 1..(q + 1)) = z[q + 1] + Sum(z, 1..q)
    BY <2>2, SumNext
  <2> QED
    BY <2>3 DEF q
<1>6. Sum(z, 1..(n - 1)) = c * (n - 1)
  <2>1. IsFiniteSet(1..(n - 1)) /\ Cardinality(1..(n - 1)) = n - 1
    BY <1>1, IntervalFinite, IntervalSize
  <2>2. Sum(z, 1..(n - 1)) = c * Cardinality(1..(n - 1))
    BY <1>3, <2>1, SumConstant
  <2> QED
    BY <2>1, <2>2
<1>7. Sum(z, 1..n) = z[n] + Sum(z, 1..(n - 1))
  BY <1>1, <1>5
<1>8. c * (n - 1) = (n - 1) * c /\ (n - 1) * c \in Int
  OBVIOUS
<1>9. Sum(z, 1..n) = (n - 1) * c
  <2> DEFINE s == Sum(z, 1..(n - 1))  w == (n - 1) * c
  <2>1. s = w /\ w \in Int /\ Sum(z, 1..n) = 0 + s
    BY <1>4, <1>6, <1>7, <1>8
  <2> HIDE DEF s, w
  <2>2. Sum(z, 1..n) = w
    BY <2>1
  <2> QED
    BY <2>2 DEF w
<1> QED
  BY <1>2, <1>9

Words == STRING \cup UNION Range(Synonyms)
Served == [word : Words, num : Int, den : Nat \ {0}, dots : Nat]

\* A weight of tokens that grows by c with each period, and of nothing else in
\* a token without a word.
Dotted(m, c) ==
    /\ Weighs(m, Served) /\ c \in Int
    /\ \A x \in Served : m[[x EXCEPT !.dots = @ + 1]] = m[x] + c
    /\ \A x \in Served : Blank(x) => m[x] = 0

\* y is x with b more periods.
Dots(y, x, b) == y = [x EXCEPT !.dots = @ + b]

\* What a period more, or one less, does to a weight.
LEMMA DotsMore ==
  ASSUME NEW m, NEW c, Dotted(m, c), NEW x \in Served, NEW b \in {0, 1},
         NEW y, Dots(y, x, b)
  PROVE  y \in Served /\ m[y] = m[x] + b * c /\ m[x] \in Int /\ c \in Int
<1>0. y = [x EXCEPT !.dots = @ + b]
  BY DEF Dots
<1>1. c \in Int /\ \A z \in Served : m[z] \in Int /\ m[[z EXCEPT !.dots = @ + 1]] = m[z] + c
  BY DEF Dotted, Weighs
<1>2. m[x] \in Int /\ x.dots \in Nat
  BY <1>1 DEF Served
<1>3. CASE b = 0
  <2>1. x.dots + b = x.dots /\ b * c = 0
    BY <1>1, <1>2, <1>3
  <2>2. [x EXCEPT !.dots = x.dots] = x
    BY DEF Served
  <2>3. y = x
    BY <1>0, <2>1, <2>2
  <2> DEFINE w == m[x]
  <2>4. w \in Int
    BY <1>2
  <2> HIDE DEF w
  <2>5. w = w + b * c
    BY <2>1, <2>4
  <2> QED
    BY <1>1, <2>3, <2>4, <2>5 DEF w
<1>4. CASE b = 1
  <2>1. y \in Served
    BY <1>0, <1>4 DEF Served
  <2>2. m[y] = m[x] + c /\ b * c = c
    BY <1>0, <1>1, <1>4
  <2> QED
    BY <1>1, <1>2, <2>1, <2>2
<1> QED
  BY <1>3, <1>4

LEMMA DotsLess ==
  ASSUME NEW m, NEW c, Dotted(m, c), NEW x \in Served, NEW b \in {0, 1},
         b <= x.dots, NEW y, y = [x EXCEPT !.dots = @ - b]
  PROVE  y \in Served /\ m[y] = m[x] - b * c /\ m[x] \in Int
<1>1. x.dots \in Nat
  BY DEF Served
<1>2. y \in Served
  BY <1>1 DEF Served
<1>3. x = [y EXCEPT !.dots = @ + b]
  <2>1. x.dots - b + b = x.dots /\ y.dots = x.dots - b
    BY <1>1 DEF Served
  <2>2. [y EXCEPT !.dots = x.dots] = [x EXCEPT !.dots = x.dots]
    BY DEF Served
  <2>3. [x EXCEPT !.dots = x.dots] = x
    BY DEF Served
  <2> QED
    BY <2>1, <2>2, <2>3
<1>4. m[x] = m[y] + b * c /\ m[y] \in Int /\ c \in Int
  <2>1. Dots(x, y, b)
    BY <1>3 DEF Dots
  <2> QED
    BY <1>2, <2>1, DotsMore
<1>5. b * c \in Int
  BY <1>4
<1> QED
  BY <1>2, <1>4, <1>5

LEMMA EndsAre ==
  ASSUME NEW t \in Seq(Served), Len(t) > 0, NEW n, n = PieceCount(t)
  PROVE  /\ n \in Nat \ {0} /\ EndOf(t, 0) = 0 /\ EndOf(t, n) = Len(t)
         /\ \A k \in 1..n : /\ EndOf(t, k) \in 1..Len(t) /\ EndOf(t, k) \in Ends(t)
                            /\ EndOf(t, k - 1) \in Nat
                            /\ EndOf(t, k - 1) < EndOf(t, k)
                            /\ EndOf(t, k) = Len(t) <=> k = n
<1> DEFINE A == Ends(t)  l == Len(t)
<1>1. PlacesOf(A, l) /\ l \in A /\ l \in Nat
  BY DEF Ends, PlacesOf
<1>2. n = Cardinality(A) /\ \A k : EndOf(t, k) = Nth(A, k)
  BY DEF PieceCount, EndOf
<1> HIDE DEF A, l
<1>3. n \in Nat /\ IsFiniteSet(A)
  BY <1>1, <1>2, UptoOK
<1>4. n # 0
  BY <1>1, <1>2, <1>3, FS_EmptySet
<1>5. Nth(A, 0) = 0 /\ Nth(A, n) = l
  BY <1>1, <1>2, NthEnds
<1>6. ASSUME NEW k \in 1..n
      PROVE  Nth(A, k) \in A /\ Nth(A, k - 1) < Nth(A, k) /\ Nth(A, k) \in 1..l
             /\ Nth(A, k - 1) \in Nat
  <2>1. Nth(A, k) \in A /\ Nth(A, k - 1) < Nth(A, k) /\ Nth(A, k - 1) \in Int
    BY <1>1, <1>2, NthGrows
  <2>2. Nth(A, k - 1) \in {0} \cup A
    <3>1. k - 1 \in 0..Cardinality(A)
      BY <1>2, <1>3
    <3> QED
      BY <1>1, <3>1, NthIs
  <2>3. \A x \in A : x \in Int /\ 1 <= x /\ x <= l
    BY <1>1, PlacesAre
  <2>4. Nth(A, k) \in 1..l
    <3> DEFINE e == Nth(A, k)
    <3>1. e \in A
      BY <2>1
    <3> HIDE DEF e
    <3>2. e \in Int /\ 1 <= e /\ e <= l
      BY <2>3, <3>1
    <3>3. e \in 1..l
      BY <1>1, <3>2
    <3> QED
      BY <3>3 DEF e
  <2>5. Nth(A, k - 1) \in Nat
    BY <2>2, <2>3
  <2> QED
    BY <2>1, <2>4, <2>5
<1>7. ASSUME NEW k \in 1..n PROVE Nth(A, k) = l <=> k = n
  <2> SUFFICES ASSUME k # n PROVE Nth(A, k) # l
    BY <1>5
  <2>1. k + 1 \in 1..n /\ k + 1 - 1 = k
    BY <1>3
  <2>2. Nth(A, k + 1 - 1) < Nth(A, k + 1) /\ Nth(A, k + 1) \in 1..l
    BY <1>6, <2>1
  <2>3. Nth(A, k) \in 1..l
    BY <1>6
  <2>4. Nth(A, k) < Nth(A, k + 1)
    BY <2>1, <2>2
  <2> QED
    BY <1>1, <2>2, <2>3, <2>4
<1> QED
  BY <1>2, <1>3, <1>4, <1>5, <1>6, <1>7 DEF A, l

\* A piece has the tokens of its run, and a period less unless it is last.
LEMMA SplitPieceIs ==
  ASSUME NEW m, NEW c, Dotted(m, c), NEW t \in Seq(Served), Len(t) > 0,
         NEW n, n = PieceCount(t), NEW k \in 1..n, NEW f, Lists(f, t, m),
         NEW s, s = Pieces(t)[k]
  PROVE  /\ s \in Seq(Served) /\ Len(s) \in Nat \ {0}
         /\ Weigh(s, m) = Sum(f, (EndOf(t, k - 1) + 1)..EndOf(t, k))
                            - (IF k = n THEN 0 ELSE 1) * c
<1> DEFINE a == EndOf(t, k - 1)  b == EndOf(t, k)  strip == IF k = n THEN 0 ELSE 1
           y == [t[b] EXCEPT !.dots = @ - strip]
<1>1. /\ a \in Nat /\ b \in 1..Len(t) /\ a < b /\ b \in Ends(t) /\ Len(t) \in Nat
      /\ b = Len(t) <=> k = n
  BY EndsAre
<1>2. s = Append(SubSeq(t, a + 1, b - 1), y)
  BY <1>1 DEF Pieces
<1>3. t[b] \in Served
  BY <1>1
<1>4. strip <= t[b].dots /\ strip \in {0, 1}
  <2>1. t[b].dots \in Nat
    BY <1>3 DEF Served
  <2>2. b # Len(t) => t[b].dots > 0
    BY <1>1 DEF Ends
  <2> QED
    BY <1>1, <2>1, <2>2
<1> HIDE DEF strip
<1>5. y \in Served /\ m[y] = m[t[b]] - strip * c /\ m[t[b]] \in Int /\ c \in Int
  <2> DEFINE v == t[b]
  <2>1. c \in Int /\ v \in Served /\ strip <= v.dots /\ strip \in {0, 1}
    BY <1>3, <1>4 DEF Dotted
  <2>2. y = [v EXCEPT !.dots = @ - strip]
    OBVIOUS
  <2> HIDE DEF v, y
  <2>3. y \in Served /\ m[y] = m[v] - strip * c /\ m[v] \in Int
    BY <2>1, <2>2, DotsLess
  <2> QED
    BY <2>1, <2>2, <2>3 DEF v
<1> HIDE DEF a, b, y
<1>6. /\ s \in Seq(Served) /\ Len(s) = b - a
      /\ Weigh(s, m) = Sum(f, (a + 1)..b) - m[t[b]] + m[y]
  <2>1. b \in Nat /\ b <= Len(t) /\ Weighs(m, Served)
    BY <1>1 DEF Dotted
  <2> QED
    BY <1>1, <1>2, <1>5, <2>1, WeighRun
<1>7. Sum(f, (a + 1)..b) \in Int
  <2>1. \A j \in 1..Len(t) : f[j] \in Int
    BY WeighIs DEF Dotted
  <2>2. (a + 1)..b \subseteq 1..Len(t)
    BY <1>1
  <2>3. IsFiniteSet((a + 1)..b)
    BY <1>1, <2>2, IntervalFinite, FS_Subset
  <2> QED
    BY <2>1, <2>2, <2>3, SumType
<1>8. strip * c \in Int
  BY <1>4, <1>5
<1>9. Weigh(s, m) = Sum(f, (a + 1)..b) - strip * c
  BY <1>5, <1>6, <1>7, <1>8
<1>10. Len(s) \in Nat \ {0}
  BY <1>1, <1>6
<1> QED
  BY <1>6, <1>9, <1>10 DEF a, b, strip

\* h lists the sums of f between the ends of t.
RunsOf(h, f, t, n) ==
    \A k \in 1..n : h[k] = Sum(f, (EndOf(t, k - 1) + 1)..EndOf(t, k))

\* The pieces of a text are all of it, one after another.
LEMMA RunsAddUp ==
  ASSUME NEW t \in Seq(Served), Len(t) > 0, NEW n, n = PieceCount(t),
         NEW f, \A j \in 1..Len(t) : f[j] \in Int,
         NEW h, RunsOf(h, f, t, n)
  PROVE  Sum(h, 1..n) = Sum(f, 1..Len(t)) /\ \A k \in 1..n : h[k] \in Int
<1>1. /\ n \in Nat \ {0} /\ EndOf(t, 0) = 0 /\ EndOf(t, n) = Len(t)
      /\ \A k \in 1..n : /\ EndOf(t, k) \in 1..Len(t) /\ EndOf(t, k - 1) \in Nat
                         /\ EndOf(t, k - 1) < EndOf(t, k)
  BY EndsAre
<1> DEFINE Q == {k \in Nat : k <= n => /\ \A j \in 1..k : h[j] \in Int
                                      /\ Sum(h, 1..k) = Sum(f, 1..EndOf(t, k))}
<1>2. 0 \in Q
  <2>1. 1..0 = {} /\ 1..EndOf(t, 0) = {}
    BY <1>1
  <2>2. Sum(h, {}) = 0 /\ Sum(f, {}) = 0
    BY SumEmpty
  <2> QED
    BY <2>1, <2>2
<1>3. ASSUME NEW k \in Q PROVE k + 1 \in Q
  <2> DEFINE q == k + 1
  <2>1. SUFFICES ASSUME q <= n
                 PROVE  /\ \A j \in 1..q : h[j] \in Int
                        /\ Sum(h, 1..q) = Sum(f, 1..EndOf(t, q))
    BY <1>3
  <2> DEFINE a == EndOf(t, k)  b == EndOf(t, q)  A == 1..a  B == (a + 1)..b
  <2>2. k \in Nat /\ q \in 1..n /\ q - 1 = k /\ k <= n
    BY <1>1, <1>3, <2>1
  <2>3. a \in Nat /\ b \in 1..Len(t) /\ a < b /\ h[q] = Sum(f, B)
    <3>1. EndOf(t, q - 1) \in Nat /\ EndOf(t, q - 1) < EndOf(t, q)
          /\ EndOf(t, q) \in 1..Len(t)
          /\ h[q] = Sum(f, (EndOf(t, q - 1) + 1)..EndOf(t, q))
      BY <1>1, <2>2 DEF RunsOf
    <3> QED
      BY <2>2, <3>1
  <2>4. (\A j \in 1..k : h[j] \in Int) /\ Sum(h, 1..k) = Sum(f, A)
    BY <1>3, <2>2
  <2> HIDE DEF a, b
  <2>5. 1..b = A \cup B /\ A \cap B = {} /\ IsFiniteSet(A) /\ IsFiniteSet(B)
    <3>1. 1..b = A \cup B /\ A \cap B = {}
      BY <2>3
    <3>2. IsFiniteSet(1..b)
      BY <2>3, IntervalFinite
    <3> QED
      BY <3>1, <3>2, FS_Subset
  <2>6. \A x \in A \cup B : f[x] \in Int
    BY <2>3, <2>5
  <2> HIDE DEF A, B
  <2>7. Sum(f, A \cup B) = Sum(f, A) + Sum(f, B) /\ Sum(f, A) \in Int /\ Sum(f, B) \in Int
    BY <2>5, <2>6, SumUnion, SumType
  <2>8. \A j \in 1..q : h[j] \in Int
    <3>1. \A j \in 1..q : j \in 1..k \/ j = q
      BY <2>2
    <3> HIDE DEF q
    <3> QED
      BY <2>3, <2>4, <2>7, <3>1
  <2>9. Sum(h, 1..q) = h[q] + Sum(h, 1..k)
    BY <2>2, <2>8, SumNext
  <2>10. Sum(h, 1..q) = Sum(f, 1..b)
    <3> DEFINE x == Sum(f, A)  y == Sum(f, B)
    <3>1. x \in Int /\ y \in Int /\ Sum(h, 1..q) = y + x
      BY <2>3, <2>4, <2>7, <2>9
    <3>2. Sum(f, 1..b) = Sum(f, A \cup B)
      BY <2>5
    <3>3. Sum(f, 1..b) = x + y
      BY <2>7, <3>2
    <3> HIDE DEF x, y
    <3> QED
      BY <3>1, <3>3
  <2> QED
    BY <2>8, <2>10 DEF b
<1>4. Q \in SUBSET Nat
  OBVIOUS
<1> HIDE DEF Q
<1>5. Q = Nat
  BY <1>2, <1>3, <1>4, SetInduction
<1>6. n \in Q
  BY <1>1, <1>5
<1> QED
  BY <1>1, <1>6 DEF Q

\* A sentence that is put back gets its period back.
PutBack(piece, s, b) == piece = [s EXCEPT ![Len(s)].dots = @ + b]

LEMMA PieceIs ==
  ASSUME NEW m, NEW c, Dotted(m, c), NEW s \in Seq(Served), Len(s) \in Nat \ {0},
         NEW b \in {0, 1}, NEW piece, PutBack(piece, s, b)
  PROVE  piece \in Seq(Served) /\ Weigh(piece, m) = Weigh(s, m) + b * c
<1> DEFINE q == Len(s)  x == s[q]  y == [x EXCEPT !.dots = @ + b]
<1>1. q \in 1..Len(s) /\ x \in Served
  OBVIOUS
<1>2. [s EXCEPT ![Len(s)].dots = @ + b] = [s EXCEPT ![q] = y]
  OBVIOUS
<1>3. Dots(y, x, b)
  BY DEF Dots
<1>4. Weighs(m, Served)
  BY DEF Dotted
<1> HIDE DEF q, y
<1>5. y \in Served /\ m[y] = m[x] + b * c /\ m[x] \in Int /\ c \in Int
  BY <1>1, <1>3, DotsMore
<1>6. /\ [s EXCEPT ![q] = y] \in Seq(Served)
      /\ Weigh([s EXCEPT ![q] = y], m) = Weigh(s, m) - m[x] + m[y]
  BY <1>1, <1>4, <1>5, WeighChange
<1>7. Weigh(s, m) \in Int
  <2> DEFINE f == [j \in 1..Len(s) |-> m[s[j]]]
  <2>1. Lists(f, s, m)
    BY DEF Lists
  <2> HIDE DEF f
  <2> QED
    BY <1>4, <2>1, WeighIs
<1>8. b * c \in Int
  BY <1>5
<1> HIDE DEF x
<1>9. Weigh(s, m) - m[x] + m[y] = Weigh(s, m) + b * c
  BY <1>5, <1>7, <1>8
<1> QED
  BY <1>2, <1>6, <1>9 DEF PutBack

\* What the pieces of a text weigh: all of it but a period for each joint.
LEMMA PiecesWeigh ==
  ASSUME NEW m, NEW c, Dotted(m, c), NEW t \in Seq(Served), Len(t) > 0,
         NEW n, n = PieceCount(t),
         NEW g, \A k \in 1..n : g[k] = Weigh(Pieces(t)[k], m)
  PROVE  /\ n \in Nat \ {0} /\ c \in Int
         /\ Pieces(t) \in Seq(Seq(Served)) /\ Len(Pieces(t)) = n
         /\ \A k \in 1..n : Len(Pieces(t)[k]) \in Nat \ {0} /\ g[k] \in Int
         /\ Sum(g, 1..n) = Weigh(t, m) - (n - 1) * c /\ Weigh(t, m) \in Int
<1> DEFINE f == [j \in 1..Len(t) |-> m[t[j]]]
           h == [k \in 1..n |-> Sum(f, (EndOf(t, k - 1) + 1)..EndOf(t, k))]
           z == [k \in 1..n |-> (IF k = n THEN 0 ELSE 1) * c]
           ps == Pieces(t)  U == Seq(Served)
<1>1. n \in Nat \ {0} /\ c \in Int
  BY EndsAre DEF Dotted
<1>2. Lists(f, t, m) /\ \A j \in 1..Len(t) : f[j] \in Int
  <2>1. Lists(f, t, m)
    BY DEF Lists
  <2> HIDE DEF f
  <2> QED
    BY <2>1, WeighIs DEF Dotted
<1>3. Weigh(t, m) = Sum(f, 1..Len(t)) /\ Weigh(t, m) \in Int
  BY <1>2, WeighIs DEF Dotted
<1> HIDE DEF f
<1>4. RunsOf(h, f, t, n)
  BY DEF RunsOf
<1>5. Sum(h, 1..n) = Sum(f, 1..Len(t)) /\ \A k \in 1..n : h[k] \in Int
  <2> HIDE DEF h
  <2> QED
    BY <1>2, <1>4, RunsAddUp
<1>6. Sum(z, 1..n) = (n - 1) * c /\ \A k \in 1..n : z[k] \in Int
  <2>1. \A k \in 1..n : z[k] = (IF k = n THEN 0 ELSE 1) * c
    OBVIOUS
  <2> HIDE DEF z
  <2> QED
    BY <1>1, <2>1, JointSum
<1>7. ASSUME NEW k \in 1..n
      PROVE  ps[k] \in U /\ Len(ps[k]) \in Nat \ {0} /\ g[k] = h[k] - z[k]
  <2> DEFINE s == ps[k]
  <2>1. s = Pieces(t)[k] /\ g[k] = Weigh(s, m)
    OBVIOUS
  <2> HIDE DEF s
  <2>2. /\ s \in Seq(Served) /\ Len(s) \in Nat \ {0}
        /\ Weigh(s, m) = Sum(f, (EndOf(t, k - 1) + 1)..EndOf(t, k))
                           - (IF k = n THEN 0 ELSE 1) * c
    BY <1>2, <2>1, SplitPieceIs
  <2> QED
    BY <2>1, <2>2 DEF s
<1>9. ps \in Seq(U) /\ Len(ps) = n
  <2>1. ps = [k \in 1..n |-> ps[k]]
    BY DEF Pieces
  <2> HIDE DEF ps, U
  <2>2. ps \in [1..n -> U]
    BY <1>7, <2>1
  <2> QED
    BY <1>1, <2>2, FunctionIsSeq
<1> HIDE DEF h, z, ps, U
<1>10. \A k \in 1..n : g[k] \in Int /\ z[k] \in Int /\ h[k] = g[k] + z[k]
  BY <1>5, <1>6, <1>7
<1>11. Sum(h, 1..n) = Sum(g, 1..n) + Sum(z, 1..n) /\ Sum(g, 1..n) \in Int
  <2>1. IsFiniteSet(1..n)
    BY <1>1, IntervalFinite
  <2>2. \A k \in 1..n : g[k] \in Int
    BY <1>10
  <2>3. Sum(g, 1..n) \in Int
    BY <2>1, <2>2, SumType
  <2>4. Sum(h, 1..n) = Sum(g, 1..n) + Sum(z, 1..n)
    BY ZenonT(60), <1>10, <2>1, SumPlus
  <2> QED
    BY <2>3, <2>4
<1>12. Sum(g, 1..n) = Weigh(t, m) - (n - 1) * c
  <2> DEFINE w == (n - 1) * c  s == Sum(g, 1..n)
  <2>3. w \in Int
    BY <1>1
  <2>4. Sum(z, 1..n) = w
    BY <1>6
  <2> HIDE DEF w, s
  <2>5. s \in Int /\ Weigh(t, m) = s + Sum(z, 1..n)
    BY <1>3, <1>5, <1>11 DEF s
  <2>1. w \in Int /\ s \in Int /\ Weigh(t, m) = s + w
    BY <2>3, <2>4, <2>5
  <2>2. s = Weigh(t, m) - w
    BY <2>1
  <2> QED
    BY <2>2 DEF w, s
<1> QED
  BY <1>1, <1>3, <1>7, <1>9, <1>10, <1>12 DEF ps, U

\* The sentences weigh what the pieces do: the others are blank.
LEMMA SentencesWeigh ==
  ASSUME NEW m, NEW c, Dotted(m, c), NEW t \in Seq(Served), Len(t) > 0,
         NEW n, n = SentenceCount(t), NEW g, \A k \in 1..n : g[k] = Weigh(Sentences(t)[k], m)
  PROVE  /\ n \in Nat
         /\ \A k \in 1..n : /\ Sentences(t)[k] \in Seq(Served) /\ g[k] \in Int
                            /\ Len(Sentences(t)[k]) \in Nat \ {0}
         /\ Sum(g, 1..n) = Weigh(t, m) - (PieceCount(t) - 1) * c
<1> DEFINE l == PieceCount(t)  A == Spoken(t)  ps == Pieces(t)  ss == Sentences(t)
           f == [k \in 1..l |-> Weigh(ps[k], m)]  U == Seq(Served)
<1>1. /\ l \in Nat \ {0} /\ ps \in Seq(U) /\ Len(ps) = l
      /\ \A k \in 1..l : Len(ps[k]) \in Nat \ {0} /\ f[k] \in Int
      /\ Sum(f, 1..l) = Weigh(t, m) - (l - 1) * c
  <2>1. \A k \in 1..l : f[k] = Weigh(Pieces(t)[k], m)
    OBVIOUS
  <2> HIDE DEF f
  <2> QED
    BY <2>1, PiecesWeigh
<1>2. PlacesOf(A, l) /\ n = Cardinality(A) /\ ss = At(ps, A)
  BY <1>1 DEF PlacesOf, Spoken, SentenceCount, Sentences
<1>3. ASSUME NEW k \in 1..l, k \notin A PROVE f[k] = 0
  <2> DEFINE s == ps[k]
  <2>1. s \in Seq(Served) /\ f[k] = Weigh(s, m)
    BY <1>1
  <2>2. \A p \in DOMAIN s : Blank(s[p])
    BY <1>3 DEF Spoken
  <2> HIDE DEF s, f
  <2>3. \A p \in 1..Len(s) : m[s[p]] = 0
    BY <2>1, <2>2 DEF Dotted
  <2>4. Weighs(m, Served)
    BY DEF Dotted
  <2> QED
    BY <2>1, <2>3, <2>4, WeighsNothing
<1> HIDE DEF l, A, ss, ps, U
<1>4. /\ Len(ss) = n /\ n \in Nat
      /\ \A k \in 1..n : Nth(A, k) \in A /\ ss[k] = ps[Nth(A, k)]
  BY <1>1, <1>2, AtIs
<1>5. A \subseteq 1..l
  BY <1>2 DEF PlacesOf
<1>6. ASSUME NEW k \in 1..n
      PROVE  /\ ss[k] \in U /\ Len(ss[k]) \in Nat \ {0}
             /\ g[k] = f[Nth(A, k)] /\ g[k] \in Int
  <2>1. Nth(A, k) \in 1..l /\ ss[k] = ps[Nth(A, k)] /\ g[k] = Weigh(ss[k], m)
    BY <1>4, <1>5 DEF ss
  <2> DEFINE e == Nth(A, k)
  <2> HIDE DEF e
  <2>2. e \in 1..l /\ ss[k] = ps[e] /\ g[k] = Weigh(ss[k], m)
    BY <2>1 DEF e
  <2>3. f[e] = Weigh(ps[e], m) /\ ps[e] \in U
    BY <1>1, <2>2
  <2>4. f[e] \in Int /\ Len(ps[e]) \in Nat \ {0}
    BY <1>1, <2>2
  <2> QED
    BY <2>2, <2>3, <2>4 DEF e
<1>7. Sum(g, 1..n) = Sum(f, 1..l)
  <2>1. \A k \in 1..l : f[k] \in Int
    BY <1>1
  <2>2. \A k \in 1..l : k \notin A => f[k] = 0
    BY <1>3
  <2>3. \A k \in 1..n : g[k] = f[Nth(A, k)]
    BY <1>6
  <2> HIDE DEF f
  <2> QED
    BY <1>2, <2>1, <2>2, <2>3, SumNth
<1> QED
  BY <1>1, <1>4, <1>6, <1>7 DEF l, ss, U

\* A text that is taken apart and joined in any order keeps its weight, whatever
\* the weight counts of its tokens and periods, but for a period with each of
\* its pieces that is no sentence.
LEMMA JoinedWeighs ==
  ASSUME NEW m, NEW c, Dotted(m, c), NEW t \in Seq(Served), Len(t) > 0,
         NEW n, n = SentenceCount(t), n # 0, NEW order, OrderOf(order, n),
         NEW u, u = Joined(Sentences(t), order)
  PROVE  u \in Seq(Served) /\ Weigh(u, m) = Weigh(t, m) - (PieceCount(t) - n) * c
<1> DEFINE ss == Sentences(t)  joint(k) == IF k = n THEN 0 ELSE 1
           g == [k \in 1..n |-> Weigh(ss[k], m)]
           z == [k \in 1..n |-> joint(k) * c]
           o == [k \in 1..n |-> g[order[k]]]
           pieces == [k \in 1..n |-> [ss[order[k]] EXCEPT
                                        ![Len(ss[order[k]])].dots = @ + joint(k)]]
           p == [k \in 1..n |-> Weigh(pieces[k], m)]
           U == Seq(Served)
<1>1. /\ n \in Nat \ {0} /\ DOMAIN order = 1..n /\ Len(order) = n
      /\ \A k \in 1..n : order[k] \in 1..n
  <2>1. order \in [1..n -> 1..n] /\ n \in Nat
    BY DEF OrderOf
  <2>2. Len(order) = n
    BY <2>1, FunctionIsSeq
  <2> QED
    BY <2>1, <2>2
<1>2. PieceCount(t) \in Nat \ {0} /\ c \in Int
  BY EndsAre DEF Dotted
<1>3. /\ \A k \in 1..n : ss[k] \in U /\ g[k] \in Int /\ Len(ss[k]) \in Nat \ {0}
      /\ Sum(g, 1..n) = Weigh(t, m) - (PieceCount(t) - 1) * c
  <2>1. \A k \in 1..n : g[k] = Weigh(Sentences(t)[k], m)
    OBVIOUS
  <2> HIDE DEF g
  <2> QED
    BY <2>1, SentencesWeigh
<1>4. Weigh(t, m) \in Int
  <2> DEFINE f == [j \in 1..Len(t) |-> m[t[j]]]
  <2>1. Lists(f, t, m)
    BY DEF Lists
  <2> HIDE DEF f
  <2> QED
    BY <2>1, WeighIs DEF Dotted
<1>5. Sum(z, 1..n) = (n - 1) * c
  <2>1. \A k \in 1..n : z[k] = (IF k = n THEN 0 ELSE 1) * c
    OBVIOUS
  <2> HIDE DEF z
  <2> QED
    BY <1>1, <1>2, <2>1, JointSum
<1>7. \A k \in 1..n : joint(k) \in {0, 1} /\ z[k] = joint(k) * c /\ z[k] \in Int
  BY <1>2
<1>8. u = FlattenSeq(pieces)
  BY <1>1 DEF Joined
<1> HIDE DEF ss
<1>9. ASSUME NEW k \in 1..n
      PROVE  pieces[k] \in U /\ p[k] = g[order[k]] + z[k]
  <2> DEFINE s == ss[order[k]]  b == joint(k)
  <2>1. s \in Seq(Served) /\ Len(s) \in Nat \ {0} /\ b \in {0, 1} /\ z[k] = b * c
    BY <1>1, <1>3, <1>7
  <2>2. /\ PutBack(pieces[k], s, b)
        /\ p[k] = Weigh(pieces[k], m) /\ g[order[k]] = Weigh(s, m)
    BY <1>1 DEF PutBack
  <2> HIDE DEF s, b, pieces, p, g, z
  <2>3. pieces[k] \in Seq(Served) /\ Weigh(pieces[k], m) = Weigh(s, m) + b * c
    BY <2>1, <2>2, PieceIs
  <2> QED
    BY <2>1, <2>2, <2>3
<1>10. \A k \in 1..n : o[k] = g[order[k]] /\ p[k] = Weigh(pieces[k], m)
  OBVIOUS
<1>11. pieces \in Seq(U) /\ Len(pieces) = n
  <2>1. pieces \in [1..n -> U]
    <3>1. pieces = [k \in 1..n |-> pieces[k]]
      OBVIOUS
    <3> HIDE DEF pieces, U
    <3> QED
      BY <1>9, <3>1
  <2> HIDE DEF pieces, U
  <2> QED
    BY <1>1, <2>1, FunctionIsSeq
<1> HIDE DEF g, z, o, p, pieces
<1>13. u \in Seq(Served) /\ Weigh(u, m) = Sum(p, 1..n)
  <2>1. Totals(p, pieces, m)
    BY <1>10, <1>11 DEF Totals
  <2>2. Weighs(m, Served)
    BY DEF Dotted
  <2> QED
    BY <1>8, <1>11, <2>1, <2>2, FlattenWeighs
<1> DEFINE S == 1..n
<1>14. IsFiniteSet(S) /\ order \in [S -> S] /\ \A j, k \in S : order[j] = order[k] => j = k
  BY <1>1, IntervalFinite DEF OrderOf
<1>15. \A k \in S : /\ g[k] \in Int /\ z[k] \in Int
                    /\ o[k] = g[order[k]] /\ o[k] \in Int /\ p[k] = o[k] + z[k]
                    /\ order[k] \in S
  BY <1>1, <1>3, <1>7, <1>9, <1>10
<1> HIDE DEF S
<1>16. Sum(p, S) = Sum(o, S) + Sum(z, S)
  BY <1>14, <1>15, SumPlus
<1>17. Sum(o, S) = Sum(g, S)
  <2>1. \A x \in S : g[order[x]] \in Int /\ o[x] = g[order[x]]
    BY <1>15
  <2>2. Sum(o, S) = Sum(g, Image(order, S))
    BY <1>14, <2>1, SumImage
  <2>3. \A y \in S : \E x \in S : order[x] = y
    BY <1>14, OntoItself
  <2>4. Image(order, S) = S
    BY <1>15, <2>3 DEF Image
  <2> QED
    BY <2>2, <2>4
<1>18. Weigh(u, m) = Weigh(t, m) - (PieceCount(t) - 1) * c + (n - 1) * c
  BY <1>3, <1>5, <1>13, <1>16, <1>17 DEF S
<1>19. Weigh(t, m) - (PieceCount(t) - 1) * c + (n - 1) * c
         = Weigh(t, m) - (PieceCount(t) - n) * c
  <2> DEFINE w == Weigh(t, m)  q == PieceCount(t)
  <2>1. w \in Int /\ q \in Int
    BY <1>2, <1>4
  <2> HIDE DEF w, q
  <2>2. /\ (q - 1) * c = q * c - c /\ (n - 1) * c = n * c - c
        /\ (q - n) * c = q * c - n * c /\ q * c \in Int /\ n * c \in Int
    BY <1>1, <1>2, <2>1
  <2>3. w - (q - 1) * c + (n - 1) * c = w - (q - n) * c
    BY <1>2, <2>1, <2>2
  <2> QED
    BY <2>3 DEF w, q
<1> QED
  BY <1>13, <1>18, <1>19

(***************************************************************************)
(* What is served.                                                         *)
(***************************************************************************)
\* Whatever a weight counts, u has as much of it as t, but for d periods.
LessBy(u, t, d) == \A m, c : Dotted(m, c) => Weigh(u, m) = Weigh(t, m) - d * c

\* What synonyms and numbers leave of each word, and of its number.
KeptWord(word, was) ==
    \/ word = was
    \/ was \in DOMAIN Synonyms /\ {word, was} \cap {Number, ""} = {}
Kept(t) ==
    LET was == Respaced(clean)
    IN  /\ t \in Seq(Served) /\ DOMAIN t = DOMAIN was
        /\ \A p \in DOMAIN was :
             t[p].dots = was[p].dots /\ KeptWord(t[p].word, was[p].word)
SameNumbers(t) ==
    LET was == Respaced(clean)
    IN  \A p \in DOMAIN was : t[p].num = was[p].num /\ t[p].den = was[p].den

LEMMA SuccDots ==
  ASSUME NEW x \in Served, NEW y, y = [x EXCEPT !.dots = @ + 1]
  PROVE  y \in Served /\ y.word = x.word /\ y.num = x.num /\ y.den = x.den
         /\ y.dots = x.dots + 1 /\ x.dots \in Nat
  BY DEF Served

\* Whether a token is in P does not depend on its periods, and needs a word.
Undotted(P) ==
    /\ \A x, y \in Served : x.word = y.word /\ x.num = y.num /\ x.den = y.den
                              => (x \in P <=> y \in P)
    /\ \A x \in P : x.word # ""

\* Counting tokens by what is no period.
LEMMA OnesDotted ==
  ASSUME NEW P, Undotted(P)
  PROVE  Dotted(Ones(Served, P), 0)
<1> DEFINE m == Ones(Served, P)
<1>1. Weighs(m, Served)
  BY OnesWeigh
<1>2. ASSUME NEW x \in Served PROVE m[[x EXCEPT !.dots = @ + 1]] = m[x] + 0
  <2> DEFINE y == [x EXCEPT !.dots = @ + 1]
  <2>1. y \in Served /\ y.word = x.word /\ y.num = x.num /\ y.den = x.den
    BY SuccDots
  <2> HIDE DEF y
  <2>2. x \in P <=> y \in P
    BY <2>1 DEF Undotted
  <2>3. m[y] = m[x] /\ m[x] \in {0, 1}
    BY <2>1, <2>2 DEF Ones
  <2> HIDE DEF m
  <2>4. m[y] = m[x] + 0
    BY <2>3
  <2> QED
    BY <2>4 DEF y
<1>3. \A x \in Served : Blank(x) => m[x] = 0
  BY DEF Blank, Undotted, Ones
<1> QED
  BY <1>1, <1>2, <1>3 DEF Dotted

\* How many tokens of t are in P.
CountOf(t, P) == Cardinality({p \in DOMAIN t : t[p] \in P})

LEMMA CountedAlike ==
  ASSUME NEW u \in Seq(Served), NEW t \in Seq(Served), NEW d \in Int, LessBy(u, t, d),
         NEW P, Undotted(P)
  PROVE  CountOf(u, P) = CountOf(t, P)
<1> DEFINE m == Ones(Served, P)  x == Weigh(t, m)
<1>1. Weigh(u, m) = x - d * 0 /\ d * 0 = 0
  BY OnesDotted DEF LessBy
<1>2. CountOf(u, P) = Weigh(u, m) /\ CountOf(t, P) = x
  BY CountWeighs DEF CountOf
<1>3. x \in Int
  <2> DEFINE f == [j \in 1..Len(t) |-> m[t[j]]]
  <2>1. Lists(f, t, m) /\ Weighs(m, Served)
    BY OnesWeigh DEF Lists
  <2> HIDE DEF f, m
  <2> QED
    BY <2>1, WeighIs
<1> HIDE DEF m, x
<1>4. x - 0 = x
  BY <1>3
<1> QED
  BY <1>1, <1>2, <1>4

Periods(t) == SumFunction([p \in DOMAIN t |-> t[p].dots])

LEMMA FewerPeriods ==
  ASSUME NEW u \in Seq(Served), NEW t \in Seq(Served), NEW d \in Int, LessBy(u, t, d)
  PROVE  Periods(u) = Periods(t) - d
<1> DEFINE m == [x \in Served |-> x.dots]
<1>1. Dotted(m, 1)
  <2>1. \A x \in Served : m[x] = x.dots /\ x.dots \in Nat
    BY DEF Served
  <2>2. ASSUME NEW x \in Served PROVE m[[x EXCEPT !.dots = @ + 1]] = m[x] + 1
    <3> DEFINE y == [x EXCEPT !.dots = @ + 1]
    <3>1. y \in Served /\ y.dots = x.dots + 1
      BY SuccDots
    <3> HIDE DEF y, m
    <3>2. m[y] = y.dots /\ m[x] = x.dots
      BY <2>1, <3>1
    <3> QED
      BY <3>1, <3>2 DEF y
  <2> HIDE DEF m
  <2>3. Weighs(m, Served)
    BY <2>1 DEF Weighs
  <2>4. \A x \in Served : Blank(x) => m[x] = 0
    BY <2>1 DEF Blank
  <2> QED
    BY <2>2, <2>3, <2>4 DEF Dotted
<1>2. ASSUME NEW s \in Seq(Served) PROVE Periods(s) = Weigh(s, m)
  <2> DEFINE f == [j \in DOMAIN s |-> m[s[j]]]
  <2>1. f = [p \in DOMAIN s |-> s[p].dots]
    OBVIOUS
  <2>2. DOMAIN f = DOMAIN s /\ Weigh(s, m) = Sum(f, DOMAIN s)
    BY DEF Weigh
  <2> HIDE DEF f
  <2>3. SumFunction(f) = Sum(f, DOMAIN s)
    BY <2>2, SumOver
  <2> QED
    BY <2>1, <2>2, <2>3 DEF Periods
<1> HIDE DEF m
<1>3. Weigh(u, m) = Weigh(t, m) - d * 1 /\ d * 1 = d
  BY <1>1 DEF LessBy
<1> QED
  BY <1>2, <1>3

\* The words of a text are all it has but blanks.
LEMMA RespacedWeighs ==
  ASSUME NEW t \in Seq(Served)
  PROVE  Respaced(t) \in Seq(Served) /\ LessBy(Respaced(t), t, 0)
<1> DEFINE A == {p \in DOMAIN t : ~ Blank(t[p])}
<1>1. PlacesOf(A, Len(t))
  BY DEF PlacesOf
<1>2. ASSUME NEW m, NEW c, Dotted(m, c) PROVE Weigh(Respaced(t), m) = Weigh(t, m) - 0 * c
  <2>1. Weighs(m, Served) /\ c \in Int
    BY <1>2 DEF Dotted
  <2>2. \A j \in 1..Len(t) : j \notin A => m[t[j]] = 0
    <3>1. \A j \in 1..Len(t) : j \in DOMAIN t /\ t[j] \in Served
      OBVIOUS
    <3> QED
      BY <1>2, <3>1 DEF Dotted
  <2> DEFINE u == At(t, A)
  <2>3. Weigh(u, m) = Weigh(t, m)
    <3> HIDE DEF A
    <3> QED
      BY <1>1, <2>1, <2>2, AtWeighs
  <2>4. Respaced(t) = t \/ Respaced(t) = u
    BY DEF Respaced
  <2>5. Weigh(Respaced(t), m) = Weigh(t, m)
    <3> HIDE DEF u
    <3> QED
      BY <2>3, <2>4
  <2>6. Weigh(t, m) \in Int
    <3> DEFINE f == [j \in 1..Len(t) |-> m[t[j]]]
    <3>1. Lists(f, t, m)
      BY DEF Lists
    <3> HIDE DEF f
    <3> QED
      BY <2>1, <3>1, WeighIs
  <2> DEFINE w == Weigh(t, m)
  <2> HIDE DEF w
  <2>7. w \in Int /\ Weigh(Respaced(t), m) = w
    BY <2>5, <2>6 DEF w
  <2>8. Weigh(Respaced(t), m) = w - 0 * c
    BY <2>1, <2>7
  <2> QED
    BY <2>8 DEF w
<1> QED
  BY <1>2, RespacedIs DEF LessBy

LEMMA CleanIsServed ==
  ASSUME clean \in Responses
  PROVE  clean \in Seq(Served) /\ Respaced(clean) \in Seq(Served)
<1>1. Token \subseteq Served
  BY DEF Token, Served, Words
<1>2. clean \in Seq(Token)
  BY DEF Responses
<1> DEFINE T == Token  S == Served
<1> HIDE DEF T, S
<1>3. clean \in Seq(S)
  <2>1. T \subseteq S /\ clean \in Seq(T)
    BY <1>1, <1>2 DEF T, S
  <2> QED
    BY <2>1
<1> QED
  BY <1>3, RespacedIs DEF S

\* Counting tokens where they were, and as many more as a step has made.
LEMMA CountsKept ==
  ASSUME NEW t, NEW s \in Seq(Served), DOMAIN t = DOMAIN s, NEW P
  PROVE  /\ (\A p \in DOMAIN s : t[p] \in P <=> s[p] \in P) => CountOf(t, P) = CountOf(s, P)
         /\ (\A p \in DOMAIN s : s[p] \in P => t[p] \in P) => CountOf(t, P) >= CountOf(s, P)
<1> DEFINE A == {p \in DOMAIN s : s[p] \in P}  B == {p \in DOMAIN t : t[p] \in P}
<1>1. ASSUME \A p \in DOMAIN s : t[p] \in P <=> s[p] \in P PROVE A = B
  BY <1>1
<1>2. ASSUME \A p \in DOMAIN s : s[p] \in P => t[p] \in P PROVE Cardinality(B) >= Cardinality(A)
  <2>1. A \subseteq B
    BY <1>2
  <2>2. IsFiniteSet(B)
    <3>1. B \subseteq 1..Len(s) /\ IsFiniteSet(1..Len(s))
      BY IntervalFinite
    <3> QED
      BY <3>1, FS_Subset
  <2> HIDE DEF A, B
  <2>3. Cardinality(A) <= Cardinality(B) /\ Cardinality(A) \in Nat /\ Cardinality(B) \in Nat
    BY <2>1, <2>2, FS_Subset, FS_CardinalityType
  <2> QED
    BY <2>3
<1> QED
  BY <1>1, <1>2 DEF CountOf

\* Tokens by their word, and by their number.
OfWord(w) == {x \in Served : x.word = w}
Worded == {x \in Served : x.word # ""}
OfNumber(n) == {x \in Served : x.word = Number /\ x.num = n.num /\ x.den = n.den}

LEMMA TheseAreUndotted ==
  /\ \A w : w # "" => Undotted(OfWord(w))
  /\ Undotted(Worded) /\ \A n : Undotted(OfNumber(n))
<1>1. Number # ""
  BY DefenceAssumption, Zenon DEF DefenceAssumption
<1> QED
  BY <1>1 DEF Undotted, OfWord, Worded, OfNumber

\* What the clean response has is what its words have.
LEMMA SameAsWords ==
  ASSUME clean \in Responses, NEW P, Undotted(P)
  PROVE  CountOf(Respaced(clean), P) = CountOf(clean, P)
<1>1. clean \in Seq(Served)
  BY CleanIsServed
<1> DEFINE was == Respaced(clean)
<1>2. was \in Seq(Served) /\ LessBy(was, clean, 0) /\ 0 \in Int
  BY <1>1, RespacedWeighs
<1> HIDE DEF was
<1>3. CountOf(was, P) = CountOf(clean, P)
  BY <1>1, <1>2, CountedAlike
<1> QED
  BY <1>3 DEF was

\* What a text that was kept, then perhaps rearranged, has of the clean one.
LEMMA RearrangedOK ==
  ASSUME clean \in Responses, NEW t, Kept(t), NEW u \in Seq(Served),
         NEW d \in Int, LessBy(u, t, d)
  PROVE  /\ CountOf(u, Worded) = CountOf(clean, Worded)
         /\ Periods(u) = Periods(clean) - d
         /\ \A w : w \notin DOMAIN Synonyms \cup {""} =>
              CountOf(u, OfWord(w)) >= CountOf(clean, OfWord(w))
         /\ SameNumbers(t) =>
              \A n : CountOf(u, OfNumber(n)) = CountOf(clean, OfNumber(n))
<1> DEFINE was == Respaced(clean)
<1>1. /\ t \in Seq(Served) /\ clean \in Seq(Served) /\ DOMAIN t = DOMAIN was
      /\ was \in Seq(Served) /\ LessBy(was, clean, 0)
      /\ \A p \in DOMAIN was :
           /\ t[p] \in Served /\ was[p] \in Served
           /\ t[p].dots = was[p].dots /\ KeptWord(t[p].word, was[p].word)
  <2>1. clean \in Seq(Served) /\ was \in Seq(Served)
    BY CleanIsServed
  <2>2. LessBy(was, clean, 0)
    BY <2>1, RespacedWeighs
  <2>3. /\ t \in Seq(Served) /\ DOMAIN t = DOMAIN was
        /\ \A p \in DOMAIN was :
             t[p].dots = was[p].dots /\ KeptWord(t[p].word, was[p].word)
    BY DEF Kept
  <2> HIDE DEF was
  <2>4. \A p \in DOMAIN was : t[p] \in Served /\ was[p] \in Served
    BY <2>1, <2>3
  <2> QED
    BY <2>1, <2>2, <2>3, <2>4
<1>same. SameNumbers(t) => \A p \in DOMAIN was : t[p].num = was[p].num /\ t[p].den = was[p].den
  BY DEF SameNumbers
<1>was. \A P : Undotted(P) => CountOf(was, P) = CountOf(clean, P)
  BY SameAsWords
<1> HIDE DEF was
<1>u. \A P : Undotted(P) => CountOf(u, P) = CountOf(t, P)
  BY <1>1, CountedAlike
<1>2. CountOf(u, Worded) = CountOf(clean, Worded)
  <2>1. \A p \in DOMAIN was : t[p] \in Worded <=> was[p] \in Worded
    BY <1>1 DEF KeptWord, Worded
  <2>2. CountOf(t, Worded) = CountOf(was, Worded)
    BY <1>1, <2>1, CountsKept
  <2> QED
    BY <1>was, <1>u, <2>2, TheseAreUndotted
<1>3. Periods(u) = Periods(clean) - d
  <2>1. Periods(t) = Periods(was)
    BY <1>1 DEF Periods
  <2>2. Periods(u) = Periods(t) - d
    BY <1>1, FewerPeriods
  <2>3. Periods(was) = Periods(clean) - 0
    BY <1>1, FewerPeriods
  <2>4. Periods(clean) \in Int
    <3> DEFINE f == [p \in DOMAIN clean |-> clean[p].dots]
    <3>1. DOMAIN f = DOMAIN clean /\ DOMAIN clean = 1..Len(clean) /\ Len(clean) \in Nat
      BY <1>1
    <3>2. \A x \in Served : x.dots \in Int
      BY DEF Served
    <3>3. \A p \in DOMAIN clean : f[p] \in Int
      BY <1>1, <3>2
    <3> HIDE DEF f
    <3>4. SumFunction(f) = Sum(f, DOMAIN clean) /\ Sum(f, DOMAIN clean) \in Int
      BY <3>1, <3>3, SumOver, SumType, IntervalFinite
    <3> QED
      BY <3>4 DEF Periods, f
  <2> QED
    BY <2>1, <2>2, <2>3, <2>4
<1>4. ASSUME NEW w, w \notin DOMAIN Synonyms \cup {""}
      PROVE  CountOf(u, OfWord(w)) >= CountOf(clean, OfWord(w))
  <2>1. \A p \in DOMAIN was : was[p] \in OfWord(w) => t[p] \in OfWord(w)
    BY <1>1, <1>4 DEF KeptWord, OfWord
  <2>2. CountOf(t, OfWord(w)) >= CountOf(was, OfWord(w))
    BY <1>1, <2>1, CountsKept
  <2>3. Undotted(OfWord(w))
    BY <1>4, TheseAreUndotted
  <2>4. /\ CountOf(u, OfWord(w)) = CountOf(t, OfWord(w))
        /\ CountOf(was, OfWord(w)) = CountOf(clean, OfWord(w))
    BY <1>was, <1>u, <2>3
  <2> QED
    BY <2>2, <2>4
<1>5. ASSUME SameNumbers(t), NEW n
      PROVE  CountOf(u, OfNumber(n)) = CountOf(clean, OfNumber(n))
  <2>1. \A p \in DOMAIN was : t[p] \in OfNumber(n) <=> was[p] \in OfNumber(n)
    BY <1>1, <1>same, <1>5 DEF KeptWord, OfNumber
  <2>2. CountOf(t, OfNumber(n)) = CountOf(was, OfNumber(n))
    BY <1>1, <2>1, CountsKept
  <2> QED
    BY <1>was, <1>u, <2>2, TheseAreUndotted
<1> QED
  BY <1>2, <1>3, <1>4, <1>5

\* Only synonyms replace words, where one was: the rest of each token stays.
LEMMA SubstituteKeeps ==
  ASSUME NumbersInv, clean \in Responses, Substitute
  PROVE  Kept(text') /\ SameNumbers(text')
<1> DEFINE was == Respaced(clean)
<1>1. Respaced(text) = was
  BY DEF NumbersInv, Substitute
<1>names. was \in Seq(Served)
  BY CleanIsServed
<1> HIDE DEF was
<1>2. PICK chosen \in kSubset(NReplace(Cardinality(Substitutable(was))), Substitutable(was)) :
        \E pick \in Picks(was, chosen) : text' = Substituted(was, pick)
  BY <1>1 DEF Substitute
<1>3. PICK pick \in Picks(was, chosen) : text' = Substituted(was, pick)
  BY <1>2
<1>4. chosen \subseteq Substitutable(was) /\ DOMAIN pick = chosen
  BY DEF kSubset, Picks
<1>5. ASSUME NEW p \in chosen
      PROVE  /\ p \in DOMAIN was /\ was[p].word \in DOMAIN Synonyms
             /\ pick[p] \in Words /\ KeptWord(pick[p], was[p].word)
  <2>1. p \in DOMAIN was /\ was[p].word \in DOMAIN Synonyms
    BY <1>4, <1>5 DEF Substitutable
  <2>2. pick[p] \in Words
    BY <1>3, <1>5 DEF Picks, Words
  <2>3. pick[p] \in Synonyms[was[p].word]
    BY <1>3, <1>5 DEF Picks
  <2>4. /\ {Number, ""} \cap DOMAIN Synonyms = {}
        /\ \A w \in DOMAIN Synonyms : {Number, ""} \cap Synonyms[w] = {}
    BY DefenceAssumption, Zenon DEF DefenceAssumption
  <2> QED
    BY <2>1, <2>2, <2>3, <2>4 DEF KeptWord
<1>6. text' = [p \in DOMAIN was |-> IF p \in chosen THEN Replaced(was[p], pick[p]) ELSE was[p]]
  BY <1>3, <1>4 DEF Substituted
<1>8. ASSUME NEW p \in DOMAIN was
      PROVE  /\ text'[p] \in Served /\ text'[p].dots = was[p].dots
             /\ text'[p].num = was[p].num /\ text'[p].den = was[p].den
             /\ KeptWord(text'[p].word, was[p].word)
  <2>1. was[p] \in Served
    BY <1>names
  <2>2. CASE p \in chosen
    <3>1. text'[p] = [was[p] EXCEPT !.word = pick[p]]
      BY <1>6, <2>2 DEF Replaced
    <3>2. pick[p] \in Words /\ KeptWord(pick[p], was[p].word)
      BY <1>5, <2>2
    <3> DEFINE x == was[p]  y == text'[p]  w == pick[p]
    <3>3. x \in Served /\ y = [x EXCEPT !.word = w] /\ w \in Words
      BY <2>1, <3>1, <3>2
    <3> HIDE DEF x, y, w
    <3>4. /\ y \in Served /\ y.dots = x.dots /\ y.num = x.num /\ y.den = x.den
          /\ y.word = w
      BY <3>3 DEF Served
    <3> QED
      BY <3>2, <3>4 DEF x, y, w
  <2>3. CASE p \notin chosen
    BY <1>6, <2>1, <2>3 DEF KeptWord
  <2> QED
    BY <2>2, <2>3
<1>9. text' \in Seq(Served) /\ DOMAIN text' = DOMAIN was
  <2>1. DOMAIN was = 1..Len(was) /\ Len(was) \in Nat
    BY <1>names
  <2>2. text' \in [1..Len(was) -> Served]
    BY <1>6, <1>8, <2>1
  <2> QED
    BY <2>1, <2>2, FunctionIsSeq
<1> QED
  BY <1>8, <1>9 DEF Kept, SameNumbers, was

\* The numeric step leaves all of a token but its number.
LEMMA PerturbKeeps ==
  ASSUME seed \in Int, Kept(text), NEW t, t = Perturbed(text) PROVE Kept(t)
<1>1. text \in Seq(Served)
  BY DEF Kept
<1>2. DOMAIN text = 1..Len(text) /\ Len(text) \in Nat
  BY <1>1
<1>3. ASSUME NEW p \in DOMAIN text
      PROVE t[p] \in Served /\ t[p].dots = text[p].dots /\ t[p].word = text[p].word
  <2>1. text[p] \in Served /\ p \in Int
    BY <1>1, <1>2
  <2>2. CASE t[p] = text[p]
    BY <2>1, <2>2
  <2>3. CASE t[p] # text[p]
    <3> DEFINE x == text[p].num  den == text[p].den  unit == Unit(den)
               r == Rounded(Times(Frac(x, unit), Factor(p)))  kept == den \div unit
    <3>1. t[p] = [text[p] EXCEPT !.num = r, !.den = kept]
      BY <2>3 DEF Perturbed, PerturbedNumber
    <3>2. x \in Int /\ den \in Nat \ {0}
      BY <2>1 DEF Served
    <3> HIDE DEF x, den
    <3>3. unit \in Nat \ {0} /\ kept \in Nat \ {0}
      <4>1. unit = Unit(den) /\ kept = den \div unit
        OBVIOUS
      <4> HIDE DEF unit, kept
      <4> QED
        BY <3>2, <4>1, UnitIs
    <3> HIDE DEF unit, kept
    <3>4. r \in Int
      BY <2>1, <3>2, <3>3, NumberStaysClose
    <3> HIDE DEF r
    <3> QED
      BY <2>1, <3>1, <3>3, <3>4 DEF Served
  <2> QED
    BY <2>2, <2>3
<1>4. t \in Seq(Served) /\ DOMAIN t = DOMAIN text
  <2>1. DOMAIN t = DOMAIN text
    BY DEF Perturbed
  <2>2. t = [p \in 1..Len(text) |-> t[p]]
    <3>1. CASE Pct = 0
      <4>1. t = text
        BY <3>1 DEF Perturbed
      <4>2. text = [p \in 1..Len(text) |-> text[p]]
        BY <1>1
      <4> QED
        BY <4>1, <4>2
    <3>2. CASE Pct # 0
      BY <1>2, <3>2 DEF Perturbed
    <3> QED
      BY <3>1, <3>2
  <2>3. t \in [1..Len(text) -> Served]
    BY <1>2, <1>3, <2>2
  <2> QED
    BY <1>2, <2>1, <2>3, FunctionIsSeq
<1> QED
  BY <1>3, <1>4 DEF Kept

StepNames == {"synonym_substitution", "numeric_perturb", "sentence_reorder"}

\* What the steps so far have kept, and logged.
ServedInv ==
    /\ steps \in Seq(StepNames)
    /\ stage = "idle" => steps = <<>>
    /\ stage # "idle" => clean \in Responses
    /\ stage = "synonyms" => text = clean
    /\ stage # "done" => ~ Contains(steps, "sentence_reorder")
    /\ stage \in {"numbers", "sentences", "shuffle"} =>
         Kept(text) /\ Contains(steps, "synonym_substitution")
    /\ stage = "numbers" => SameNumbers(text)
    /\ stage \in {"sentences", "shuffle"} =>
         SameNumbers(text) \/ Contains(steps, "numeric_perturb")
    /\ NothingLost /\ LoggedSteps

MoreBy(more, log, e) == more = Append(log, e)

LEMMA Appended ==
  ASSUME NEW S, NEW log \in Seq(S), NEW e \in S, NEW more, MoreBy(more, log, e)
  PROVE  /\ more \in Seq(S)
         /\ \A x : Contains(more, x) <=> x = e \/ Contains(log, x)
<1> DEFINE appended == Append(log, e)
<1>1. /\ appended \in Seq(S) /\ Len(appended) = Len(log) + 1 /\ Len(log) \in Nat
      /\ appended[Len(log) + 1] = e /\ \A k \in 1..Len(log) : appended[k] = log[k]
  OBVIOUS
<1>2. more = appended
  BY DEF MoreBy
<1> HIDE DEF appended
<1>3. 1..Len(more) = 1..Len(log) \cup {Len(log) + 1}
  BY <1>1, <1>2
<1>4. DOMAIN more = 1..Len(more) /\ DOMAIN log = 1..Len(log)
  BY <1>1, <1>2
<1> QED
  BY <1>1, <1>2, <1>3, <1>4 DEF Contains

LEMMA NothingLogged == \A x : ~ Contains(<<>>, x)
  BY DEF Contains

\* What the two invariants say of a text that is served with a log of steps.
WholeText(u, left) ==
    /\ u \in Seq(Served) /\ clean \in Seq(Served)
    /\ CountOf(u, Worded) = CountOf(clean, Worded)
    /\ Periods(u) = Periods(clean) - left
    /\ \A w : w \notin DOMAIN Synonyms \cup {""} =>
         CountOf(u, OfWord(w)) >= CountOf(clean, OfWord(w))
Logged(u, log) ==
    /\ ~ Contains(log, "synonym_substitution") => u = clean
    /\ ~ Contains(log, "numeric_perturb")
          => \A n : CountOf(u, OfNumber(n)) = CountOf(clean, OfNumber(n))
    /\ ~ Contains(log, "sentence_reorder")
          => LET was == IF Contains(log, "synonym_substitution")
                        THEN Respaced(clean) ELSE clean
             IN  \A p \in DOMAIN was :
                   /\ u[p].dots = was[p].dots
                   /\ u[p].word = was[p].word \/ was[p].word \in DOMAIN Synonyms
LeftOut(log, order) ==
    IF Contains(log, "sentence_reorder")
    THEN PieceCount(Respaced(clean)) - Len(order) ELSE 0

\* The counts of the two invariants.
LEMMA CountsAre ==
  ASSUME NEW t \in Seq(Served)
  PROVE  /\ Cardinality({p \in DOMAIN t : t[p].word # ""}) = CountOf(t, Worded)
         /\ \A w : Cardinality({p \in DOMAIN t : t[p].word = w}) = CountOf(t, OfWord(w))
         /\ \A x : Cardinality({p \in DOMAIN t : /\ t[p].word = Number
                                                 /\ t[p].num = x.num /\ t[p].den = x.den})
                     = CountOf(t, OfNumber(x))
<1>1. \A p \in DOMAIN t : t[p] \in Served
  OBVIOUS
<1>2. {p \in DOMAIN t : t[p].word # ""} = {p \in DOMAIN t : t[p] \in Worded}
  BY <1>1 DEF Worded
<1>3. ASSUME NEW w
      PROVE  {p \in DOMAIN t : t[p].word = w} = {p \in DOMAIN t : t[p] \in OfWord(w)}
  BY <1>1 DEF OfWord
<1>4. ASSUME NEW x
      PROVE  {p \in DOMAIN t : /\ t[p].word = Number
                               /\ t[p].num = x.num /\ t[p].den = x.den}
               = {p \in DOMAIN t : t[p] \in OfNumber(x)}
  BY <1>1 DEF OfNumber
<1> QED
  BY <1>2, <1>3, <1>4 DEF CountOf

\* A step that leaves the response alone leaves its words and pieces alone.
LEMMA PieceCountStays ==
  clean' = clean => PieceCount(Respaced(clean))' = PieceCount(Respaced(clean))
  BY DEF PieceCount, Ends, Respaced, Substitutable, At, Blank

LEMMA WholeIs ==
  ASSUME clean' = clean,
         WholeText(text', LeftOut(steps', indices')), Logged(text', steps')
  PROVE  NothingLost' /\ LoggedSteps'
<1> DEFINE u == text'  log == steps'  L == LeftOut(log, indices')
<1>1. u \in Seq(Served) /\ clean \in Seq(Served)
  BY DEF WholeText
<1>2. \A t \in {u, clean} :
         /\ Cardinality({p \in DOMAIN t : t[p].word # ""}) = CountOf(t, Worded)
         /\ \A w : Cardinality({p \in DOMAIN t : t[p].word = w}) = CountOf(t, OfWord(w))
         /\ \A x : Cardinality({p \in DOMAIN t : /\ t[p].word = Number
                                                 /\ t[p].num = x.num /\ t[p].den = x.den})
                     = CountOf(t, OfNumber(x))
  BY <1>1, CountsAre
<1>3. NothingLost'
  <2>1. SumFunction([p \in DOMAIN u |-> u[p].dots])
          = SumFunction([p \in DOMAIN clean |-> clean[p].dots]) - L
    BY DEF WholeText, Periods
  <2>2. L = IF Contains(log, "sentence_reorder")
            THEN PieceCount(Respaced(clean))' - Len(indices') ELSE 0
    BY PieceCountStays DEF LeftOut
  <2>3. /\ Cardinality({p \in DOMAIN u : u[p].word # ""})
             = Cardinality({p \in DOMAIN clean : clean[p].word # ""})
        /\ \A w : w \notin DOMAIN Synonyms \cup {""} =>
             Cardinality({p \in DOMAIN u : u[p].word = w})
               >= Cardinality({p \in DOMAIN clean : clean[p].word = w})
    <3>1. \A t \in {u, clean} :
             Cardinality({p \in DOMAIN t : t[p].word # ""}) = CountOf(t, Worded)
      BY <1>2
    <3>2. \A w : /\ Cardinality({p \in DOMAIN u : u[p].word = w}) = CountOf(u, OfWord(w))
                 /\ Cardinality({p \in DOMAIN clean : clean[p].word = w})
                      = CountOf(clean, OfWord(w))
      BY <1>2
    <3>3. /\ CountOf(u, Worded) = CountOf(clean, Worded)
          /\ \A w : w \notin DOMAIN Synonyms \cup {""} =>
               CountOf(u, OfWord(w)) >= CountOf(clean, OfWord(w))
      BY DEF WholeText
    <3>4. Cardinality({p \in DOMAIN u : u[p].word # ""})
            = Cardinality({p \in DOMAIN clean : clean[p].word # ""})
      BY <3>1, <3>3
    <3>5. ASSUME NEW w, w \notin DOMAIN Synonyms \cup {""}
          PROVE  Cardinality({p \in DOMAIN u : u[p].word = w})
                   >= Cardinality({p \in DOMAIN clean : clean[p].word = w})
      BY <3>2, <3>3, <3>5
    <3> QED
      BY <3>4, <3>5
  <2> QED
    BY <2>1, <2>2, <2>3 DEF NothingLost
<1>4. LoggedSteps'
  <2>1. /\ ~ Contains(log, "synonym_substitution") => u = clean
        /\ ~ Contains(log, "numeric_perturb")
             => \A n : CountOf(u, OfNumber(n)) = CountOf(clean, OfNumber(n))
        /\ ~ Contains(log, "sentence_reorder")
             => LET was == IF Contains(log, "synonym_substitution")
                           THEN Respaced(clean)' ELSE clean
                IN  \A p \in DOMAIN was :
                      /\ u[p].dots = was[p].dots
                      /\ u[p].word = was[p].word \/ was[p].word \in DOMAIN Synonyms
    BY RespacedStays DEF Logged
  <2>2. ~ Contains(log, "numeric_perturb") =>
          \A x : Cardinality({p \in DOMAIN u : /\ u[p].word = Number
                                              /\ u[p].num = x.num /\ u[p].den = x.den})
                  = Cardinality({p \in DOMAIN clean :
                                   /\ clean[p].word = Number
                                   /\ clean[p].num = x.num /\ clean[p].den = x.den})
    <3> SUFFICES ASSUME ~ Contains(log, "numeric_perturb"), NEW x
                 PROVE  Cardinality({p \in DOMAIN u : /\ u[p].word = Number
                                              /\ u[p].num = x.num /\ u[p].den = x.den})
                        = Cardinality({p \in DOMAIN clean :
                                   /\ clean[p].word = Number
                                   /\ clean[p].num = x.num /\ clean[p].den = x.den})
      OBVIOUS
    <3>1. \A t \in {u, clean} :
            Cardinality({p \in DOMAIN t : /\ t[p].word = Number
                                        /\ t[p].num = x.num /\ t[p].den = x.den})
              = CountOf(t, OfNumber(x))
      BY <1>2
    <3>2. CountOf(u, OfNumber(x)) = CountOf(clean, OfNumber(x))
      BY <2>1
    <3> HIDE DEF u
    <3> QED
      BY <3>1, <3>2
  <2> QED
    BY <2>1, <2>2 DEF LoggedSteps
<1> QED
  BY <1>3, <1>4

\* What was served, from what was kept: the last step may have rearranged it.
LEMMA ServedOK ==
  ASSUME clean \in Responses, NEW t, Kept(t), NEW u \in Seq(Served),
         NEW d \in Int, LessBy(u, t, d),
         NEW log, Contains(log, "synonym_substitution"),
         SameNumbers(t) \/ Contains(log, "numeric_perturb"),
         u = t \/ Contains(log, "sentence_reorder")
  PROVE  WholeText(u, d) /\ Logged(u, log)
<1>1. /\ WholeText(u, d)
      /\ SameNumbers(t) => \A n : CountOf(u, OfNumber(n)) = CountOf(clean, OfNumber(n))
  BY RearrangedOK, CleanIsServed DEF WholeText
<1>2. Logged(u, log)
  BY <1>1 DEF Logged, Kept, KeptWord
<1> QED
  BY <1>1, <1>2

\* Nothing was rearranged: a text is as heavy as it is.
LEMMA LessByNone == ASSUME NEW t \in Seq(Served) PROVE LessBy(t, t, 0)
<1>1. ASSUME NEW m, NEW c, Dotted(m, c) PROVE Weigh(t, m) = Weigh(t, m) - 0 * c
  <2> DEFINE f == [j \in 1..Len(t) |-> m[t[j]]]  w == Weigh(t, m)
  <2>1. Lists(f, t, m) /\ Weighs(m, Served) /\ c \in Int
    BY <1>1 DEF Lists, Dotted
  <2> HIDE DEF f
  <2>2. w \in Int /\ c \in Int
    BY <2>1, WeighIs
  <2> HIDE DEF w
  <2>3. w = w - 0 * c
    BY <2>2
  <2> QED
    BY <2>3 DEF w
<1> QED
  BY <1>1 DEF LessBy

\* Tier 1 is served what the model said.
LEMMA FirstIsServed ==
  ASSUME clean' \in Responses, text' = clean', \A x : ~ Contains(steps', x)
  PROVE  (NothingLost /\ LoggedSteps)'
<1> DEFINE c == clean'
<1>1. DOMAIN c = 1..Len(c) /\ Len(c) \in Nat /\ \A p \in DOMAIN c : c[p].dots \in Int
  <2>1. c \in Seq(Token)
    BY DEF Responses
  <2> HIDE DEF c
  <2>2. \A p \in DOMAIN c : c[p] \in Token
    BY <2>1
  <2>3. \A x \in Token : x.dots \in Int
    BY DEF Token
  <2> QED
    BY <2>1, <2>2, <2>3
<1>2. Periods(c) = Periods(c) - 0
  <2> DEFINE f == [p \in DOMAIN c |-> c[p].dots]
  <2>1. /\ IsFiniteSet(DOMAIN c) /\ DOMAIN f = DOMAIN c
        /\ \A p \in DOMAIN c : f[p] \in Int
    BY <1>1, IntervalFinite
  <2> HIDE DEF f, c
  <2>2. SumFunction(f) = Sum(f, DOMAIN c) /\ Sum(f, DOMAIN c) \in Int
    BY <2>1, SumOver, SumType
  <2>3. SumFunction(f) = SumFunction(f) - 0
    <3> DEFINE s == SumFunction(f)
    <3>1. s \in Int
      BY <2>2
    <3> HIDE DEF s
    <3>2. s = s - 0
      BY <3>1
    <3> QED
      BY <3>2 DEF s
  <2> QED
    BY <2>3 DEF Periods, f
<1>3. ASSUME NEW w
      PROVE  Cardinality({p \in DOMAIN c : c[p].word = w})
               >= Cardinality({p \in DOMAIN c : c[p].word = w})
  <2> DEFINE A == {p \in DOMAIN c : c[p].word = w}
  <2>1. A \subseteq 1..Len(c) /\ IsFiniteSet(1..Len(c))
    BY <1>1, IntervalFinite
  <2> HIDE DEF A
  <2>2. Cardinality(A) \in Nat
    BY <2>1, FS_Subset, FS_CardinalityType
  <2>3. Cardinality(A) >= Cardinality(A)
    BY <2>2
  <2> QED
    BY <2>3 DEF A
<1>4. NothingLost'
  BY <1>2, <1>3 DEF NothingLost, Periods
<1>5. LoggedSteps'
  BY DEF LoggedSteps
<1> QED
  BY <1>4, <1>5

\* Joining keeps what was kept, but for a period with each blank piece.
LEMMA JoinKeeps ==
  ASSUME OrderInv, Join, Kept(text), NEW d, d = PieceCount(Respaced(clean)) - Len(indices)
  PROVE  d \in Int /\ text' \in Seq(Served) /\ LessBy(text', text, d)
<1> DEFINE n == SentenceCount(text)
<1>1. text \in Seq(Served) /\ IsFiniteSet(DOMAIN text)
  <2>1. text \in Seq(Served)
    BY DEF Kept
  <2>2. DOMAIN text = 1..Len(text) /\ Len(text) \in Nat
    BY <2>1
  <2> QED
    BY <2>1, <2>2, IntervalFinite
<1>2. n \in Nat
  BY <1>1, SentenceCountNat
<1>3. OrderOf(indices, n) /\ i \in 1..n /\ Len(indices) = n /\ n # 0
  <2>1. /\ indices \in [1..n -> 1..n] /\ IsInjective(indices)
        /\ i \in 1..n /\ Len(indices) = n
    BY DEF OrderInv, OrderOfAll, Join
  <2> HIDE DEF n
  <2>2. n # 0
    BY <2>1
  <2> QED
    BY <1>2, <2>1, <2>2 DEF OrderOf, IsInjective
<1>4. Len(text) > 0
  <2> SUFFICES ASSUME Len(text) = 0 PROVE FALSE
    BY <1>1
  <2>1. Ends(text) = {}
    BY <1>1 DEF Ends
  <2>2. PieceCount(text) = 0
    BY <2>1, FS_EmptySet DEF PieceCount
  <2>3. Spoken(text) = {}
    BY <2>2 DEF Spoken
  <2>4. n = 0
    BY <2>3, FS_EmptySet DEF SentenceCount
  <2> QED
    BY <1>3, <2>4
<1>5. text' = Joined(Sentences(text), indices)
  BY DEF Join
<1>6. PieceCount(Respaced(clean)) = PieceCount(text)
  <2> DEFINE was == Respaced(clean)
  <2>1. /\ text \in Seq(Served) /\ DOMAIN text = DOMAIN was
        /\ \A p \in DOMAIN was : text[p].dots = was[p].dots
    BY DEF Kept
  <2>2. Len(was) = Len(text)
    <3>1. was \in Seq(Served) \/ was = clean \/ was = At(clean, {p \in DOMAIN clean : ~ Blank(clean[p])})
      BY DEF Respaced
    <3> QED
      BY <1>1, <2>1
  <2> HIDE DEF was
  <2>3. Ends(was) = Ends(text)
    BY <2>1, <2>2 DEF Ends
  <2> QED
    BY <2>3 DEF PieceCount, was
<1>7. PieceCount(text) \in Nat
  BY <1>1, <1>4, EndsAre
<1>8. d = PieceCount(text) - n /\ d \in Int
  BY <1>2, <1>3, <1>6, <1>7
<1> HIDE DEF n
<1>9. ASSUME NEW m, NEW c, Dotted(m, c)
      PROVE  text' \in Seq(Served) /\ Weigh(text', m) = Weigh(text, m) - d * c
  BY <1>1, <1>3, <1>4, <1>5, <1>8, <1>9, JoinedWeighs DEF n
<1>10. Dotted(Ones(Served, {}), 0)
  BY OnesDotted DEF Undotted
<1> QED
  BY <1>8, <1>9, <1>10 DEF LessBy

LEMMA ServedStep ==
  OrderInv /\ NumbersInv /\ ServedInv /\ [DefenceNext]_defenceVars => ServedInv'
<1> SUFFICES ASSUME OrderInv, NumbersInv, ServedInv, [DefenceNext]_defenceVars
             PROVE  ServedInv'
  OBVIOUS
<1>names. StepNames = {"synonym_substitution", "numeric_perturb", "sentence_reorder"}
  BY DEF StepNames
<1>0. ASSUME NEW e \in StepNames, steps' = Append(steps, e)
      PROVE  /\ steps' \in Seq(StepNames)
             /\ \A x : Contains(steps', x) <=> x = e \/ Contains(steps, x)
  <2>1. MoreBy(steps', steps, e) /\ steps \in Seq(StepNames)
    BY <1>0 DEF MoreBy, ServedInv
  <2> QED
    BY <2>1, Appended
<1>1. CASE Begin
  <2>1. /\ clean' \in Texts /\ text' = clean' /\ steps' = <<>>
        /\ stage' \in {"done", "synonyms"}
    BY <1>1 DEF Begin, ServedInv
  <2>2. clean' \in Responses /\ steps' \in Seq(StepNames)
    BY <2>1, TextsAre
  <2>3. \A x : ~ Contains(steps', x)
    BY <2>1, NothingLogged
  <2>4. (NothingLost /\ LoggedSteps)'
    BY <2>1, <2>2, <2>3, FirstIsServed
  <2> QED
    BY <2>1, <2>2, <2>3, <2>4 DEF ServedInv
<1>2. CASE Substitute
  <2>1. /\ stage = "synonyms" /\ stage' = "numbers" /\ clean' = clean
        /\ steps' = Append(steps, "synonym_substitution")
        /\ clean \in Responses /\ ~ Contains(steps, "sentence_reorder")
    BY <1>2 DEF Substitute, ServedInv
  <2>2. /\ steps' \in Seq(StepNames) /\ Contains(steps', "synonym_substitution")
        /\ ~ Contains(steps', "sentence_reorder")
    BY <1>0, <1>names, <2>1
  <2>3. Kept(text') /\ SameNumbers(text')
    BY <1>2, <2>1, SubstituteKeeps
  <2>4. Kept(text)' /\ SameNumbers(text)'
    BY <2>1, <2>3, RespacedStays DEF Kept, SameNumbers
  <2> QED
    BY <2>1, <2>2, <2>4 DEF ServedInv, NothingLost, LoggedSteps
<1>3. CASE Perturb
  <2>1. /\ stage = "numbers" /\ stage' = "sentences" /\ clean' = clean
        /\ clean \in Responses /\ Kept(text) /\ SameNumbers(text) /\ seed \in Int
        /\ steps \in Seq(StepNames) /\ Contains(steps, "synonym_substitution")
        /\ ~ Contains(steps, "sentence_reorder")
        /\ text' = Perturbed(text)
    BY <1>3 DEF Perturb, ServedInv, NumbersInv
  <2>2. \/ text' = text /\ steps' = steps
        \/ steps' = Append(steps, "numeric_perturb")
    BY <1>3 DEF Perturb
  <2>3. /\ steps' \in Seq(StepNames) /\ Contains(steps', "synonym_substitution")
        /\ ~ Contains(steps', "sentence_reorder")
        /\ text' = text \/ Contains(steps', "numeric_perturb")
    BY <1>0, <1>names, <2>1, <2>2
  <2>4. Kept(text')
    BY <2>1, PerturbKeeps
  <2>5. Kept(text)' /\ (text' = text => SameNumbers(text)')
    BY <2>1, <2>4, RespacedStays DEF Kept, SameNumbers
  <2> QED
    BY <2>1, <2>3, <2>5 DEF ServedInv, NothingLost, LoggedSteps
<1>4. CASE KeepOrder
  <2>1. /\ stage = "sentences" /\ stage' = "done"
        /\ clean' = clean /\ text' = text /\ steps' = steps /\ clean \in Responses
        /\ steps \in Seq(StepNames) /\ Kept(text)
        /\ Contains(steps, "synonym_substitution")
        /\ ~ Contains(steps, "sentence_reorder")
        /\ SameNumbers(text) \/ Contains(steps, "numeric_perturb")
    BY <1>4 DEF KeepOrder, ServedInv
  <2>2. text \in Seq(Served) /\ LessBy(text, text, 0) /\ 0 \in Int
    BY <2>1, LessByNone DEF Kept
  <2>3. WholeText(text, 0) /\ Logged(text, steps)
    BY <2>1, <2>2, ServedOK
  <2>4. LeftOut(steps', indices') = 0
    BY <2>1 DEF LeftOut
  <2>5. WholeText(text', LeftOut(steps', indices')) /\ Logged(text', steps')
    BY <2>1, <2>3, <2>4
  <2>6. (NothingLost /\ LoggedSteps)'
    BY <2>1, <2>5, WholeIs
  <2> QED
    BY <2>1, <2>6 DEF ServedInv
<1>5. CASE StartShuffle
  <2>1. /\ stage = "sentences" /\ stage' = "shuffle"
        /\ clean' = clean /\ text' = text /\ steps' = steps
    BY <1>5 DEF StartShuffle
  <2> QED
    BY <2>1, RespacedStays DEF ServedInv, NothingLost, LoggedSteps, Kept, SameNumbers
<1>6. CASE Swap
  <2>1. /\ stage = "shuffle" /\ stage' = stage
        /\ clean' = clean /\ text' = text /\ steps' = steps
    BY <1>6 DEF Swap
  <2> QED
    BY <2>1, RespacedStays DEF ServedInv, NothingLost, LoggedSteps, Kept, SameNumbers
<1>7. CASE Join
  <2> DEFINE d == PieceCount(Respaced(clean)) - Len(indices)
  <2>1. /\ stage = "shuffle" /\ stage' = "done" /\ clean' = clean /\ indices' = indices
        /\ steps' = Append(steps, "sentence_reorder") /\ clean \in Responses
        /\ steps \in Seq(StepNames) /\ Kept(text)
        /\ Contains(steps, "synonym_substitution")
        /\ SameNumbers(text) \/ Contains(steps, "numeric_perturb")
    BY <1>7 DEF Join, ServedInv
  <2>2. d \in Int /\ text' \in Seq(Served) /\ LessBy(text', text, d)
    BY <1>7, <2>1, JoinKeeps
  <2>3. /\ steps' \in Seq(StepNames) /\ Contains(steps', "sentence_reorder")
        /\ Contains(steps', "synonym_substitution")
        /\ SameNumbers(text) \/ Contains(steps', "numeric_perturb")
    BY <1>0, <1>names, <2>1
  <2>4. LeftOut(steps', indices') = d
    BY <2>1, <2>3 DEF LeftOut
  <2> HIDE DEF d
  <2>5. WholeText(text', d) /\ Logged(text', steps')
    BY <2>1, <2>2, <2>3, ServedOK
  <2>6. (NothingLost /\ LoggedSteps)'
    BY <2>1, <2>4, <2>5, WholeIs
  <2> QED
    BY <2>1, <2>3, <2>6 DEF ServedInv
<1>8. CASE UNCHANGED defenceVars
  <2>1. /\ stage' = stage /\ clean' = clean /\ text' = text /\ steps' = steps
        /\ indices' = indices
    BY <1>8 DEF defenceVars
  <2>2. Respaced(clean)' = Respaced(clean) /\ PieceCount(Respaced(clean))' = PieceCount(Respaced(clean))
    BY <2>1, RespacedStays, PieceCountStays
  <2>3. (NothingLost' <=> NothingLost) /\ (LoggedSteps' <=> LoggedSteps)
    BY <2>1, <2>2 DEF NothingLost, LoggedSteps
  <2>4. (Kept(text)' <=> Kept(text)) /\ (SameNumbers(text)' <=> SameNumbers(text))
    BY <2>1, <2>2 DEF Kept, SameNumbers
  <2> QED
    BY <2>1, <2>3, <2>4 DEF ServedInv
<1> QED
  BY <1>1, <1>2, <1>3, <1>4, <1>5, <1>6, <1>7, <1>8 DEF DefenceNext

\* The program starts with nothing served, and every step keeps what is kept.
LEMMA ServedInit == DefenceInit => OrderInv /\ NumbersInv /\ ServedInv
<1>1. DefenceInit => NumbersInv
  BY DEF DefenceInit, NumbersInv, NumbersStayClose
<1>2. DefenceInit => OrderInv
  BY DEF DefenceInit, OrderInv, OrderOfAll
<1>3. DefenceInit => ServedInv
  BY NothingLogged DEF DefenceInit, ServedInv, NothingLost, LoggedSteps
<1> QED
  BY <1>1, <1>2, <1>3

\* Whatever the text, its blanks, its sentences, the draws of the shuffle and
\* the synonyms, what is served has every word that is no synonym's as often as
\* the model said it, as many words, and every period but those of the blank
\* pieces that reorder_sentences leaves out.
THEOREM ServedIsWhole == DefenceSpec => []NothingLost
<1>1. ServedInv => NothingLost
  BY DEF ServedInv
<1> QED
  BY <1>1, ServedInit, OrderStep, NumbersStep, ServedStep, PTL DEF DefenceSpec

\* Whatever ran, steps_applied tells what may differ: a log without the numeric
\* step goes with the numbers the model said, each as often, one without the
\* reordering with words and periods that are all where they were.
THEOREM LogIsComplete == DefenceSpec => []LoggedSteps
<1>1. ServedInv => LoggedSteps
  BY DEF ServedInv
<1> QED
  BY <1>1, ServedInit, OrderStep, NumbersStep, ServedStep, PTL DEF DefenceSpec
=============================================================================
