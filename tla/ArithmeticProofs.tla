-------------------------- MODULE ArithmeticProofs --------------------------
(***************************************************************************)
(* Facts that the other proofs need: induction over the naturals and over  *)
(* finite sets stated with sets, the greatest common divisor, fractions    *)
(* and their order, sums and products over finite sets, sequences of       *)
(* sequences, powers and the inequality of means.                          *)
(*                                                                         *)
(* The induction theorems of the library take an operator, which the       *)
(* provers cannot instantiate.  Its well-founded minimum takes a set: an   *)
(* induction here is the argument that a set of counterexamples would have *)
(* a least element.                                                        *)
(***************************************************************************)
EXTENDS Fractions, SequencesExt, FiniteSetTheorems, WellFoundedInduction, TLAPS

\* A non-empty set of naturals has a least element.
LEMMA LeastNumber ==
  ASSUME NEW T \in SUBSET Nat, T # {}
  PROVE  \E n \in T : \A m \in T : n <= m
<1>1. IsWellFoundedOn(OpToRel(<, Nat), Nat)
  BY NatLessThanWellFounded
<1>2. \E n \in T : \A m \in T : ~ (<<m, n>> \in OpToRel(<, Nat))
  BY <1>1, WFMin, T \subseteq Nat, Zenon
<1>3. PICK n \in T : \A m \in T : ~ (<<m, n>> \in OpToRel(<, Nat))
  BY <1>2
<1>4. ASSUME NEW m \in T PROVE n <= m
  <2>1. ~ (<<m, n>> \in OpToRel(<, Nat))
    BY <1>3
  <2>2. ~ (m < n)
    BY <2>1 DEF OpToRel
  <2> QED
    BY <2>2
<1> QED
  BY <1>4

\* Induction: a set with 0 and every successor of its elements is Nat.
LEMMA SetInduction ==
  ASSUME NEW T \in SUBSET Nat, 0 \in T, \A n \in T : n + 1 \in T
  PROVE  T = Nat
<1> SUFFICES ASSUME Nat \ T # {} PROVE FALSE
  OBVIOUS
<1>1. PICK n \in Nat \ T : \A m \in Nat \ T : n <= m
  BY LeastNumber, Nat \ T \in SUBSET Nat
<1>2. n - 1 \in Nat /\ n - 1 \in T
  BY <1>1
<1>3. n - 1 + 1 \in T
  BY <1>2
<1> QED
  BY <1>1, <1>3

\* Min and Max are the bounds of a set of naturals below some n.
LEMMA LowestHighest ==
  ASSUME NEW n \in Nat, NEW S, S \subseteq 1..n, S # {}
  PROVE  /\ Min(S) \in S /\ \A k \in S : Min(S) <= k
         /\ Max(S) \in S /\ \A k \in S : k <= Max(S)
<1>1. \E m \in S : \A k \in S : m <= k
  <2>1. S \in SUBSET Nat
    OBVIOUS
  <2> QED
    BY <2>1, LeastNumber
<1>2. \E m \in S : \A k \in S : m >= k
  <2> DEFINE T == {n - k : k \in S}
  <2>1. T \in SUBSET Nat /\ T # {}
    <3>1. \A k \in S : n - k \in Nat
      OBVIOUS
    <3> QED
      BY <3>1
  <2> HIDE DEF T
  <2>2. PICK a \in T : \A b \in T : a <= b
    BY <2>1, LeastNumber
  <2>3. PICK m \in S : a = n - m
    BY <2>2 DEF T
  <2>4. \A k \in S : n - k \in T
    BY DEF T
  <2>5. \A k \in S : m >= k
    BY <2>2, <2>3, <2>4
  <2> QED
    BY <2>5
<1>3. Min(S) \in S /\ \A k \in S : Min(S) <= k
  BY <1>1 DEF Min
<1>4. Max(S) \in S /\ \A k \in S : Max(S) >= k
  BY <1>2 DEF Max
<1> QED
  BY <1>3, <1>4

(***************************************************************************)
(* Division.                                                               *)
(***************************************************************************)
LEMMA DivMod ==
  ASSUME NEW a \in Int, NEW b \in Nat \ {0}
  PROVE  /\ a \div b \in Int /\ a % b \in Nat /\ a % b < b
         /\ a = b * (a \div b) + (a % b)
  OBVIOUS

LEMMA DivModUnique ==
  ASSUME NEW a \in Int, NEW b \in Nat \ {0}, NEW q \in Int, NEW r \in Nat,
         r < b, a = b * q + r
  PROVE  q = a \div b /\ r = a % b
  OBVIOUS

(***************************************************************************)
(* The greatest common divisor.                                            *)
(***************************************************************************)
GCDStep(g, p) == IF p[2] = 0 THEN p[1] ELSE g[<<p[2], p[1] % p[2]>>]
PairsUpTo(k) == {p \in Nat \X Nat : p[2] <= k}
\* g computes Euclid's algorithm on the pairs up to k.
Euclid(g, k) == g = [p \in PairsUpTo(k) |-> GCDStep(g, p)]

LEMMA RemainderPair ==
  ASSUME NEW p \in Nat \X Nat, p[2] # 0
  PROVE  /\ <<p[2], p[1] % p[2]>> \in Nat \X Nat
         /\ p[1] % p[2] \in Nat /\ p[1] % p[2] < p[2]
<1>1. p[1] \in Nat /\ p[2] \in Nat \ {0}
  OBVIOUS
<1>2. p[1] % p[2] \in Nat /\ p[1] % p[2] < p[2]
  BY <1>1, DivMod
<1> QED
  BY <1>1, <1>2

LEMMA EuclidExists == \A k \in Nat : \E g : Euclid(g, k)
<1> DEFINE T == {k \in Nat : \E g : Euclid(g, k)}
<1>1. 0 \in T
  <2> DEFINE g == [p \in PairsUpTo(0) |-> p[1]]
  <2>1. \A p \in PairsUpTo(0) : p[2] = 0
    BY DEF PairsUpTo
  <2>2. Euclid(g, 0)
    BY <2>1 DEF Euclid, GCDStep
  <2> QED
    BY <2>2
<1>2. ASSUME NEW k \in T PROVE k + 1 \in T
  <2>1. PICK g : Euclid(g, k)
    BY <1>2
  <2> DEFINE h == [p \in PairsUpTo(k + 1) |->
                     IF p[2] <= k THEN g[p] ELSE GCDStep(g, p)]
  <2>2. ASSUME NEW p \in PairsUpTo(k + 1) PROVE h[p] = GCDStep(h, p)
    <3>1. CASE p[2] = 0
      <4>1. p \in PairsUpTo(k)
        BY <3>1 DEF PairsUpTo
      <4> QED
        BY <3>1, <4>1, <2>1 DEF Euclid, GCDStep
    <3>2. CASE p[2] # 0
      <4> DEFINE q == <<p[2], p[1] % p[2]>>
      <4>1. q \in PairsUpTo(k) /\ q \in PairsUpTo(k + 1) /\ q[2] <= k
        BY <3>2, RemainderPair DEF PairsUpTo
      <4>2. h[q] = g[q]
        BY <4>1
      <4>3. h[p] = GCDStep(g, p)
        <5>1. CASE p[2] <= k
          <6>1. p \in PairsUpTo(k)
            BY <5>1 DEF PairsUpTo
          <6> QED
            BY <5>1, <6>1, <2>1 DEF Euclid
        <5>2. CASE ~ (p[2] <= k)
          BY <5>2
        <5> QED
          BY <5>1, <5>2
      <4> QED
        BY <3>2, <4>2, <4>3 DEF GCDStep
    <3> QED
      BY <3>1, <3>2
  <2>3. Euclid(h, k + 1)
    BY <2>2 DEF Euclid
  <2> QED
    BY <2>3
<1>3. T = Nat
  <2> HIDE DEF T
  <2>1. T \in SUBSET Nat
    BY DEF T
  <2> QED
    BY <2>1, <1>1, <1>2, SetInduction
<1> QED
  BY <1>3

LEMMA EuclidUnique ==
  ASSUME NEW k \in Nat, NEW m \in Nat, k <= m,
         NEW g, Euclid(g, k), NEW h, Euclid(h, m)
  PROVE  \A p \in PairsUpTo(k) : g[p] = h[p]
<1> DEFINE T == {n \in Nat : \E p \in PairsUpTo(k) : p[2] = n /\ g[p] # h[p]}
<1>1. SUFFICES ASSUME T # {} PROVE FALSE
  BY DEF PairsUpTo
<1>2. PICK n \in T : \A j \in T : n <= j
  <2> HIDE DEF T
  <2>1. T \in SUBSET Nat
    BY DEF T
  <2> QED
    BY <1>1, <2>1, LeastNumber
<1>3. PICK p \in PairsUpTo(k) : p[2] = n /\ g[p] # h[p]
  BY <1>2
<1>4. p \in PairsUpTo(m)
  BY <1>3 DEF PairsUpTo
<1>5. g[p] = GCDStep(g, p) /\ h[p] = GCDStep(h, p)
  BY <1>3, <1>4 DEF Euclid
<1>6. p[2] # 0
  BY <1>3, <1>5 DEF GCDStep
<1> DEFINE q == <<p[2], p[1] % p[2]>>
<1>7. q \in PairsUpTo(k) /\ q[2] < n /\ q[2] \in Nat
  BY <1>3, <1>6, RemainderPair DEF PairsUpTo
<1>8. q[2] \notin T
  BY <1>2, <1>7
<1>9. g[q] = h[q]
  BY <1>7, <1>8
<1> QED
  BY <1>3, <1>5, <1>6, <1>9 DEF GCDStep

\* GCD is the function its definition says: the recursion is well founded.
LEMMA GCDRecursion ==
  GCD = [p \in Nat \X Nat |->
           IF p[2] = 0 THEN p[1] ELSE GCD[<<p[2], p[1] % p[2]>>]]
<1> DEFINE G == [p \in Nat \X Nat |-> (CHOOSE g : Euclid(g, p[2]))[p]]
<1>1. ASSUME NEW p \in Nat \X Nat PROVE G[p] = GCDStep(G, p)
  <2> DEFINE g == CHOOSE g : Euclid(g, p[2])
  <2>1. Euclid(g, p[2]) /\ p[2] \in Nat /\ p \in PairsUpTo(p[2])
    BY EuclidExists DEF PairsUpTo
  <2>2. G[p] = GCDStep(g, p)
    BY <2>1 DEF Euclid
  <2>3. CASE p[2] = 0
    BY <2>2, <2>3 DEF GCDStep
  <2>4. CASE p[2] # 0
    <3> DEFINE q == <<p[2], p[1] % p[2]>>
               h == CHOOSE h : Euclid(h, q[2])
    <3>1. q \in Nat \X Nat /\ q[2] \in Nat /\ q[2] <= p[2]
      BY <2>4, RemainderPair
    <3>2. q \in PairsUpTo(q[2])
      BY <3>1 DEF PairsUpTo
    <3>3. Euclid(h, q[2])
      BY <3>1, EuclidExists
    <3>4. h[q] = g[q]
      <4> HIDE DEF g, h, q
      <4> QED
        BY <2>1, <3>1, <3>2, <3>3, EuclidUnique
    <3>5. G[q] = h[q]
      BY <3>1
    <3> QED
      BY <2>2, <2>4, <3>4, <3>5 DEF GCDStep
  <2> QED
    BY <2>3, <2>4
<1>2. G = [p \in Nat \X Nat |->
             IF p[2] = 0 THEN p[1] ELSE G[<<p[2], p[1] % p[2]>>]]
  <2>1. G = [p \in Nat \X Nat |-> G[p]]
    OBVIOUS
  <2> HIDE DEF G
  <2> QED
    BY <1>1, <2>1 DEF GCDStep
<1> HIDE DEF G
<1> QED
  BY <1>2 DEF GCD

\* One step of Euclid's algorithm.
LEMMA GCDStepOnce ==
  ASSUME NEW a \in Nat, NEW b \in Nat
  PROVE  /\ b = 0 => GCD[<<a, b>>] = a
         /\ b # 0 => GCD[<<a, b>>] = GCD[<<b, a % b>>]
<1>1. <<a, b>> \in Nat \X Nat
  OBVIOUS
<1> HIDE DEF GCD
<1> QED
  BY <1>1, GCDRecursion

LEMMA MultipleOfSum ==
  ASSUME NEW g \in Int, NEW x \in Int, NEW y \in Int, NEW q \in Int
  PROVE  (g * x) * q + g * y = g * (x * q + y)
  OBVIOUS

\* The greatest common divisor is positive and divides both.
LEMMA GCDDivides ==
  \A b \in Nat : \A a \in Nat : a > 0 \/ b > 0 =>
    /\ GCD[<<a, b>>] \in Nat \ {0}
    /\ \E x, y \in Nat : a = GCD[<<a, b>>] * x /\ b = GCD[<<a, b>>] * y
<1> DEFINE P(a, b) ==
             a > 0 \/ b > 0 =>
               /\ GCD[<<a, b>>] \in Nat \ {0}
               /\ \E x, y \in Nat : a = GCD[<<a, b>>] * x /\ b = GCD[<<a, b>>] * y
           T == {b \in Nat : \E a \in Nat : ~ P(a, b)}
<1>1. SUFFICES ASSUME T # {} PROVE FALSE
  OBVIOUS
<1>2. PICK b \in T : \A m \in T : b <= m
  <2> HIDE DEF T
  <2>1. T \in SUBSET Nat
    BY DEF T
  <2> QED
    BY <1>1, <2>1, LeastNumber
<1>3. PICK a \in Nat : ~ P(a, b)
  BY <1>2
<1>4. b \in Nat
  BY <1>2
<1>5. CASE b = 0
  <2>1. GCD[<<a, b>>] = a
    BY <1>5, GCDStepOnce
  <2>2. a > 0
    BY <1>3, <1>5
  <2>3. a = a * 1 /\ b = a * 0 /\ a \in Nat \ {0} /\ 1 \in Nat /\ 0 \in Nat
    BY <1>5, <2>2
  <2> QED
    BY <1>3, <2>1, <2>3
<1>6. CASE b # 0
  <2> DEFINE r == a % b
             g == GCD[<<a, b>>]
  <2>1. r \in Nat /\ r < b /\ a \div b \in Int /\ a = b * (a \div b) + r
    BY <1>4, <1>6, DivMod
  <2>2. g = GCD[<<b, r>>]
    BY <1>4, <1>6, GCDStepOnce
  <2>3. r \notin T
    <3> HIDE DEF T, r
    <3> QED
      BY <1>2, <2>1, <1>4
  <2>4. P(b, r)
    BY <2>3, <2>1, <1>4
  <2>5. /\ g \in Nat \ {0}
        /\ \E x, y \in Nat : b = g * x /\ r = g * y
    BY <2>2, <2>4, <1>4, <1>6
  <2>6. PICK x \in Nat, y \in Nat : b = g * x /\ r = g * y
    BY <2>5
  <2> HIDE DEF r, g, P
  <2> DEFINE z == x * (a \div b) + y
  <2>7. a = g * z
    BY <2>1, <2>5, <2>6, MultipleOfSum
  <2>8. z \in Int
    BY <2>1, <2>6
  <2> HIDE DEF z
  <2>9. z \in Nat
    BY <2>7, <2>8, <2>5
  <2> QED
    BY <1>3, <2>5, <2>6, <2>7, <2>9 DEF P, g
<1> QED
  BY <1>5, <1>6

LEMMA ScaledRemainder ==
  ASSUME NEW k \in Nat \ {0}, NEW a \in Nat, NEW b \in Nat \ {0}
  PROVE  (k * a) % (k * b) = k * (a % b)
<1>1. /\ a \div b \in Int /\ a % b \in Nat /\ a % b < b
      /\ a = b * (a \div b) + (a % b)
  BY DivMod
<1> DEFINE q == a \div b  r == a % b
<1> HIDE DEF q, r
<1>2. q \in Int /\ r \in Nat /\ r < b /\ a = b * q + r
  BY <1>1 DEF q, r
<1>3. k * a = (k * b) * q + k * r
  BY <1>2
<1>4. k * b \in Nat \ {0} /\ k * r \in Nat /\ k * r < k * b /\ k * a \in Int
  BY <1>2
<1>5. k * r = (k * a) % (k * b)
  BY <1>2, <1>3, <1>4, DivModUnique
<1> QED
  BY <1>5 DEF r

\* A common factor comes out of the greatest common divisor.
LEMMA GCDScaled ==
  ASSUME NEW k \in Nat \ {0}
  PROVE  \A b \in Nat : \A a \in Nat : GCD[<<k * a, k * b>>] = k * GCD[<<a, b>>]
<1> DEFINE P(a, b) == GCD[<<k * a, k * b>>] = k * GCD[<<a, b>>]
           T == {b \in Nat : \E a \in Nat : ~ P(a, b)}
<1>1. SUFFICES ASSUME T # {} PROVE FALSE
  OBVIOUS
<1>2. PICK b \in T : \A m \in T : b <= m
  <2> HIDE DEF T
  <2>1. T \in SUBSET Nat
    BY DEF T
  <2> QED
    BY <1>1, <2>1, LeastNumber
<1>3. PICK a \in Nat : ~ P(a, b)
  BY <1>2
<1>4. b \in Nat /\ k * a \in Nat /\ k * b \in Nat
  BY <1>2
<1>5. CASE b = 0
  <2>1. k * b = 0
    BY <1>5
  <2>2. GCD[<<a, b>>] = a /\ GCD[<<k * a, 0>>] = k * a
    BY <1>4, <1>5, GCDStepOnce
  <2> QED
    BY <1>3, <2>1, <2>2
<1>6. CASE b # 0
  <2>1. a % b \in Nat /\ a % b < b
    BY <1>4, <1>6, DivMod
  <2>2. a % b \notin T
    <3> HIDE DEF T
    <3> QED
      BY <1>2, <1>4, <2>1
  <2>3. P(b, a % b)
    BY <2>1, <2>2, <1>4
  <2>4. k * b # 0
    BY <1>4, <1>6
  <2>5. GCD[<<k * a, k * b>>] = GCD[<<k * b, (k * a) % (k * b)>>]
    BY <1>4, <2>4, GCDStepOnce
  <2>6. (k * a) % (k * b) = k * (a % b)
    <3>1. b \in Nat \ {0}
      BY <1>4, <1>6
    <3> HIDE DEF P, T
    <3> QED
      BY <3>1, ScaledRemainder
  <2>7. GCD[<<a, b>>] = GCD[<<b, a % b>>]
    BY <1>4, <1>6, GCDStepOnce
  <2>8. GCD[<<k * a, k * b>>] = GCD[<<k * b, k * (a % b)>>]
    BY <2>5, <2>6
  <2>9. GCD[<<k * b, k * (a % b)>>] = k * GCD[<<b, a % b>>]
    BY <2>3
  <2> QED
    BY <1>3, <2>7, <2>8, <2>9
<1> QED
  BY <1>5, <1>6

(***************************************************************************)
(* Fractions.                                                              *)
(***************************************************************************)
Fractions == {Frac(n, d) : n \in Int, d \in Nat \ {0}}

LEMMA ExactQuotient ==
  ASSUME NEW g \in Nat \ {0}, NEW x \in Int
  PROVE  (g * x) \div g = x
<1>1. g * x \in Int /\ g * x = g * x + 0
  OBVIOUS
<1> QED
  BY <1>1, DivModUnique

\* The common divisor of a numerator and a denominator.
LEMMA FracParts ==
  ASSUME NEW n \in Int, NEW d \in Nat \ {0}
  PROVE  \E g \in Nat \ {0} :
           /\ g = GCD[<<Abs(n), d>>]
           /\ Frac(n, d).num \in Int /\ Frac(n, d).den \in Nat \ {0}
           /\ n = g * Frac(n, d).num /\ d = g * Frac(n, d).den
<1> DEFINE g == GCD[<<Abs(n), d>>]
<1>1. Abs(n) \in Nat /\ (n = Abs(n) \/ n = -Abs(n))
  BY DEF Abs
<1>2. /\ g \in Nat \ {0}
      /\ \E x, y \in Nat : Abs(n) = g * x /\ d = g * y
  BY <1>1, GCDDivides
<1>3. PICK x \in Nat, y \in Nat : Abs(n) = g * x /\ d = g * y
  BY <1>2
<1> HIDE DEF g
<1>4. \E z \in Int : n = g * z
  <2>1. CASE n = Abs(n)
    BY <1>3, <2>1
  <2>2. CASE n = -Abs(n)
    <3>1. n = g * (-x) /\ -x \in Int
      BY <1>2, <1>3, <2>2
    <3> QED
      BY <3>1
  <2> QED
    BY <1>1, <2>1, <2>2
<1>5. PICK z \in Int : n = g * z
  BY <1>4
<1>6. n \div g = z /\ d \div g = y
  BY <1>2, <1>3, <1>5, ExactQuotient
<1>7. y # 0
  BY <1>2, <1>3
<1>8. Frac(n, d).num = n \div g /\ Frac(n, d).den = d \div g
  BY DEF Frac, g
<1> QED
  BY <1>2, <1>3, <1>5, <1>6, <1>7, <1>8 DEF g

\* What the other lemmas use of a fraction.
LEMMA FracValue ==
  ASSUME NEW n \in Int, NEW d \in Nat \ {0}
  PROVE  /\ Frac(n, d).num \in Int /\ Frac(n, d).den \in Nat \ {0}
         /\ \E g \in Nat \ {0} :
              n = g * Frac(n, d).num /\ d = g * Frac(n, d).den
  BY FracParts

LEMMA AbsScaled ==
  ASSUME NEW k \in Nat \ {0}, NEW n \in Int
  PROVE  Abs(k * n) = k * Abs(n) /\ Abs(n) \in Nat
<1>1. CASE n < 0
  <2>1. k * n < 0 /\ k * (-n) = -(k * n)
    BY <1>1
  <2> QED
    BY <1>1, <2>1 DEF Abs
<1>2. CASE ~ (n < 0)
  <2>1. ~ (k * n < 0)
    BY <1>2
  <2> QED
    BY <1>2, <2>1 DEF Abs
<1> QED
  BY <1>1, <1>2

\* A fraction keeps its value, and its representation, when both parts are
\* multiplied.
LEMMA FracScaled ==
  ASSUME NEW k \in Nat \ {0}, NEW n \in Int, NEW d \in Nat \ {0}
  PROVE  Frac(k * n, k * d) = Frac(n, d)
<1> DEFINE p == Frac(n, d)
<1>1. PICK g \in Nat \ {0} :
         /\ g = GCD[<<Abs(n), d>>] /\ p.num \in Int /\ p.den \in Nat \ {0}
         /\ n = g * p.num /\ d = g * p.den
  BY FracParts
<1>2. GCD[<<Abs(k * n), k * d>>] = k * g
  <2>1. Abs(k * n) = k * Abs(n) /\ Abs(n) \in Nat
    BY AbsScaled
  <2>2. GCD[<<k * Abs(n), k * d>>] = k * GCD[<<Abs(n), d>>]
    BY <2>1, GCDScaled
  <2> QED
    BY <2>1, <2>2, <1>1
<1>3. n \div g = p.num /\ d \div g = p.den
  <2> HIDE DEF p
  <2>1. (g * p.num) \div g = p.num /\ (g * p.den) \div g = p.den
    BY <1>1, ExactQuotient
  <2> QED
    BY <1>1, <2>1
<1>4. /\ k * n = (k * g) * p.num /\ k * d = (k * g) * p.den
      /\ k * g \in Nat \ {0}
  BY <1>1
<1>5. (k * n) \div (k * g) = p.num /\ (k * d) \div (k * g) = p.den
  <2> DEFINE a == p.num  b == p.den  h == k * g
  <2>1. a \in Int /\ b \in Int /\ h \in Nat \ {0} /\ k * n = h * a /\ k * d = h * b
    BY <1>1, <1>4
  <2> HIDE DEF a, b, h
  <2>2. (k * n) \div h = a /\ (k * d) \div h = b
    BY <2>1, ExactQuotient
  <2> QED
    BY <2>2 DEF a, b, h
<1>6. Frac(k * n, k * d) = [num |-> (k * n) \div (k * g), den |-> (k * d) \div (k * g)]
  BY <1>2 DEF Frac
<1>7. Frac(n, d) = [num |-> n \div g, den |-> d \div g]
  BY <1>1 DEF Frac
<1> QED
  BY <1>3, <1>5, <1>6, <1>7

\* Fractions of the same value are the same.
LEMMA FracEqual ==
  ASSUME NEW a \in Int, NEW b \in Nat \ {0}, NEW c \in Int, NEW d \in Nat \ {0},
         a * d = c * b
  PROVE  Frac(a, b) = Frac(c, d)
<1>1. Frac(a, b) = Frac(d * a, d * b) /\ Frac(c, d) = Frac(b * c, b * d)
  BY FracScaled
<1>2. d * a = b * c /\ d * b = b * d
  OBVIOUS
<1> QED
  BY <1>1, <1>2

\* A whole number is a fraction.
LEMMA WholeIsFrac ==
  ASSUME NEW n \in Int PROVE Whole(n) = Frac(n, 1)
<1>1. Abs(n) \in Nat
  BY DEF Abs
<1>2. Abs(n) % 1 = 0
  BY <1>1
<1>3. GCD[<<Abs(n), 1>>] = 1
  <2>1. GCD[<<Abs(n), 1>>] = GCD[<<1, 0>>]
    BY <1>1, <1>2, GCDStepOnce
  <2> QED
    BY <2>1, GCDStepOnce
<1>4. n \div 1 = n /\ 1 \div 1 = 1
  OBVIOUS
<1> QED
  BY <1>3, <1>4 DEF Whole, Frac

\* The operations on fractions, by their parts.
LEMMA AtMostFrac ==
  ASSUME NEW a \in Int, NEW b \in Nat \ {0}, NEW c \in Int, NEW d \in Nat \ {0}
  PROVE  AtMost(Frac(a, b), Frac(c, d)) <=> a * d <= c * b
<1> DEFINE p == Frac(a, b)  q == Frac(c, d)
<1>1. PICK g \in Nat \ {0} : a = g * p.num /\ b = g * p.den
  BY FracValue
<1>2. PICK h \in Nat \ {0} : c = h * q.num /\ d = h * q.den
  BY FracValue
<1>3. /\ p.num \in Int /\ p.den \in Int /\ q.num \in Int /\ q.den \in Int
  BY FracValue
<1> HIDE DEF p, q
<1>4. a * d = (g * h) * (p.num * q.den) /\ c * b = (g * h) * (q.num * p.den)
  BY <1>1, <1>2, <1>3
<1>5. g * h \in Nat \ {0}
  OBVIOUS
<1>6. \A k \in Nat \ {0}, x, y \in Int : k * x <= k * y <=> x <= y
  OBVIOUS
<1>7. p.num * q.den \in Int /\ q.num * p.den \in Int
  BY <1>3
<1> DEFINE k == g * h  x == p.num * q.den  y == q.num * p.den
<1>8. k * x <= k * y <=> x <= y
  <2>1. k \in Nat \ {0} /\ x \in Int /\ y \in Int
    BY <1>5, <1>7
  <2> HIDE DEF k, x, y
  <2> QED
    BY <1>6, <2>1
<1>9. AtMost(p, q) <=> x <= y
  BY DEF AtMost
<1> QED
  BY <1>4, <1>8, <1>9 DEF p, q

\* n and d are x and y with a common factor k.
Expands(k, x, y, n, d) ==
    /\ k \in Nat \ {0} /\ x \in Int /\ y \in Nat \ {0}
    /\ n = k * x /\ d = k * y

LEMMA FracCancel ==
  ASSUME NEW k, NEW x, NEW y, NEW n, NEW d, Expands(k, x, y, n, d)
  PROVE  Frac(n, d) = Frac(x, y)
  BY FracScaled DEF Expands

LEMMA CrossProducts ==
  ASSUME NEW g \in Int, NEW h \in Int,
         NEW w \in Int, NEW x \in Int, NEW y \in Int, NEW z \in Int
  PROVE  /\ (g * w) * (h * y) = (g * h) * (w * y)
         /\ (g * x) * (h * z) = (g * h) * (x * z)
         /\ (g * w) * (h * z) + (h * y) * (g * x) = (g * h) * (w * z + y * x)
         /\ (g * w) * (h * z) - (h * y) * (g * x) = (g * h) * (w * z - y * x)
<1>1. /\ (g * w) * (h * y) = (g * h) * (w * y)
      /\ (g * x) * (h * z) = (g * h) * (x * z)
      /\ (g * w) * (h * z) = (g * h) * (w * z)
      /\ (h * y) * (g * x) = (g * h) * (y * x)
  OBVIOUS
<1>2. \A k, m, n \in Int : k * m + k * n = k * (m + n) /\ k * m - k * n = k * (m - n)
  OBVIOUS
<1>3. g * h \in Int /\ w * z \in Int /\ y * x \in Int
  OBVIOUS
<1> QED
  BY <1>1, <1>2, <1>3

\* Plus, Minus and Times of two fractions are those of any two pairs of parts
\* that the fractions were made from.
LEMMA OperationsFrac ==
  ASSUME NEW a \in Int, NEW b \in Nat \ {0}, NEW c \in Int, NEW d \in Nat \ {0}
  PROVE  /\ Times(Frac(a, b), Frac(c, d)) = Frac(a * c, b * d)
         /\ Plus(Frac(a, b), Frac(c, d)) = Frac(a * d + c * b, b * d)
         /\ Minus(Frac(a, b), Frac(c, d)) = Frac(a * d - c * b, b * d)
<1> DEFINE p == Frac(a, b)  q == Frac(c, d)
<1>1. PICK g \in Nat \ {0} : a = g * p.num /\ b = g * p.den
  BY FracValue
<1>2. PICK h \in Nat \ {0} : c = h * q.num /\ d = h * q.den
  BY FracValue
<1> DEFINE w == p.num  x == p.den  y == q.num  z == q.den  k == g * h
<1>3. w \in Int /\ x \in Nat \ {0} /\ y \in Int /\ z \in Nat \ {0}
  BY FracValue
<1>4. a = g * w /\ b = g * x /\ c = h * y /\ d = h * z
  BY <1>1, <1>2
<1>5. k \in Nat \ {0}
  OBVIOUS
<1> HIDE DEF p, q, w, x, y, z
<1>6. /\ a * c = k * (w * y) /\ b * d = k * (x * z)
      /\ a * d + c * b = k * (w * z + y * x)
      /\ a * d - c * b = k * (w * z - y * x)
  BY <1>3, <1>4, CrossProducts
<1>7. /\ w * y \in Int /\ x * z \in Nat \ {0}
      /\ w * z + y * x \in Int /\ w * z - y * x \in Int
  BY <1>3
<1> HIDE DEF k
<1>8. /\ Expands(k, w * y, x * z, a * c, b * d)
      /\ Expands(k, w * z + y * x, x * z, a * d + c * b, b * d)
      /\ Expands(k, w * z - y * x, x * z, a * d - c * b, b * d)
  BY <1>5, <1>6, <1>7 DEF Expands
<1>9. /\ Frac(a * c, b * d) = Frac(w * y, x * z)
      /\ Frac(a * d + c * b, b * d) = Frac(w * z + y * x, x * z)
      /\ Frac(a * d - c * b, b * d) = Frac(w * z - y * x, x * z)
  BY <1>8, FracCancel
<1> QED
  BY <1>9 DEF p, q, w, x, y, z, Times, Plus, Minus

LEMMA DivideByFrac ==
  ASSUME NEW a \in Int, NEW b \in Nat \ {0}, NEW n \in Nat \ {0}
  PROVE  DivideBy(Frac(a, b), n) = Frac(a, b * n)
<1> DEFINE p == Frac(a, b)  w == p.num  x == p.den
<1>1. PICK g \in Nat \ {0} : a = g * w /\ b = g * x
  BY FracValue
<1>2. w \in Int /\ x \in Nat \ {0}
  BY FracValue
<1> HIDE DEF p, w, x
<1>3. b * n = g * (x * n) /\ x * n \in Nat \ {0}
  BY <1>1, <1>2
<1>4. Expands(g, w, x * n, a, b * n)
  BY <1>1, <1>2, <1>3 DEF Expands
<1>5. Frac(a, b * n) = Frac(w, x * n)
  BY <1>4, FracCancel
<1> QED
  BY <1>5 DEF p, w, x, DivideBy

(***************************************************************************)
(* Sums and products.  FoldFunctionOnSet takes the elements of a set in    *)
(* some order; what is proved first is that the order does not matter.     *)
(***************************************************************************)
Sum(f, S) == SumFunctionOnSet(f, S)
Prod(f, S) == FoldFunctionOnSet(LAMBDA x, y : x * y, 1, f, S)

\* What holds of both is said of Folded: a product or a sum.
Folded(kind, f, S) == IF kind = "product" THEN Prod(f, S) ELSE Sum(f, S)
Neutral(kind) == IF kind = "product" THEN 1 ELSE 0
Combined(kind, x, y) == IF kind = "product" THEN x * y ELSE x + y
Some(s) == CHOOSE x \in s : TRUE
FoldStep(kind, it, f, s) ==
    IF s = {} THEN Neutral(kind) ELSE Combined(kind, f[Some(s)], it[s \ {Some(s)}])
FoldIter(kind, it, f, S) == it = [s \in SUBSET S |-> FoldStep(kind, it, f, s)]

LEMMA SomeElement ==
  ASSUME NEW s, s # {} PROVE Some(s) \in s
  BY DEF Some

LEMMA CombinedIs ==
  ASSUME NEW kind, NEW x \in Int, NEW y \in Int, NEW z \in Int
  PROVE  /\ Combined(kind, x, y) \in Int
         /\ Combined(kind, x, Combined(kind, y, z))
              = Combined(kind, y, Combined(kind, x, z))
  BY DEF Combined

LEMMA FoldIsIter ==
  ASSUME NEW kind, NEW f, NEW S, \E it : FoldIter(kind, it, f, S)
  PROVE  \E it : FoldIter(kind, it, f, S) /\ Folded(kind, f, S) = it[S]
<1> DEFINE it == CHOOSE it : FoldIter(kind, it, f, S)
<1>1. FoldIter(kind, it, f, S)
  OBVIOUS
<1>2. CASE kind = "product"
  <2>1. Prod(f, S) = it[S]
    BY <1>2 DEF Prod, FoldFunctionOnSet, MapThenFoldSet, FoldIter, FoldStep, Some,
         Neutral, Combined
  <2> QED
    BY <1>1, <1>2, <2>1 DEF Folded
<1>3. CASE kind # "product"
  <2>1. Sum(f, S) = it[S]
    BY <1>3 DEF Sum, SumFunctionOnSet, FoldFunctionOnSet, MapThenFoldSet, FoldIter,
         FoldStep, Some, Neutral, Combined
  <2> QED
    BY <1>1, <1>3, <2>1 DEF Folded
<1> QED
  BY <1>2, <1>3

\* A collection of subsets of a finite set has one with fewest elements.
LEMMA SmallestSet ==
  ASSUME NEW S, IsFiniteSet(S), NEW C, C \subseteq SUBSET S, C # {}
  PROVE  \E T \in C : \A x \in T : T \ {x} \notin C
<1> DEFINE N == {Cardinality(T) : T \in C}
<1>1. \A T \in C : IsFiniteSet(T) /\ Cardinality(T) \in Nat
  BY FS_Subset, FS_CardinalityType
<1>2. N \in SUBSET Nat /\ N # {}
  BY <1>1
<1>3. PICK n \in N : \A m \in N : n <= m
  <2> HIDE DEF N
  <2> QED
    BY <1>2, LeastNumber
<1>4. PICK T \in C : Cardinality(T) = n
  BY <1>3
<1>5. ASSUME NEW x \in T, T \ {x} \in C PROVE FALSE
  <2>1. Cardinality(T \ {x}) = Cardinality(T) - 1
    BY <1>1, FS_RemoveElement
  <2>2. n <= Cardinality(T \ {x})
    BY <1>3, <1>5
  <2> QED
    BY <1>1, <1>4, <2>1, <2>2
<1> QED
  BY <1>5

LEMMA FoldIterUnique ==
  ASSUME NEW kind, NEW f, NEW S, NEW T, NEW g, NEW h,
         FoldIter(kind, g, f, S), FoldIter(kind, h, f, T),
         NEW U, U \subseteq S, U \subseteq T, IsFiniteSet(U)
  PROVE  g[U] = h[U]
<1> DEFINE C == {V \in SUBSET U : g[V] # h[V]}
<1>1. SUFFICES ASSUME C # {} PROVE FALSE
  OBVIOUS
<1>2. PICK V \in C : \A x \in V : V \ {x} \notin C
  <2>1. C \subseteq SUBSET U
    OBVIOUS
  <2> HIDE DEF C
  <2> QED
    BY <1>1, <2>1, SmallestSet
<1>3. g[V] = FoldStep(kind, g, f, V) /\ h[V] = FoldStep(kind, h, f, V)
  BY <1>2 DEF FoldIter
<1>4. V # {}
  BY <1>2, <1>3 DEF FoldStep
<1>5. g[V \ {Some(V)}] = h[V \ {Some(V)}]
  BY <1>2, <1>4, SomeElement
<1> QED
  BY <1>2, <1>3, <1>4, <1>5 DEF FoldStep

LEMMA FoldIterExists ==
  ASSUME NEW kind, NEW f, NEW S, IsFiniteSet(S)
  PROVE  \E it : FoldIter(kind, it, f, S)
<1> DEFINE C == {T \in SUBSET S : ~ \E it : FoldIter(kind, it, f, T)}
<1>1. SUFFICES ASSUME C # {} PROVE FALSE
  OBVIOUS
<1>2. PICK T \in C : \A x \in T : T \ {x} \notin C
  <2>1. C \subseteq SUBSET S
    OBVIOUS
  <2> HIDE DEF C
  <2> QED
    BY <1>1, <2>1, SmallestSet
<1>3. IsFiniteSet(T)
  BY <1>2, FS_Subset
<1>4. CASE T = {}
  <2> DEFINE it == [s \in SUBSET T |-> Neutral(kind)]
  <2>1. FoldIter(kind, it, f, T)
    BY <1>4 DEF FoldIter, FoldStep
  <2> QED
    BY <1>2, <2>1
<1>5. CASE T # {}
  <2> DEFINE c == Some(T)
             R == T \ {c}
  <2>1. c \in T /\ R \in SUBSET S /\ R \notin C
    BY <1>2, <1>5, SomeElement
  <2>2. PICK g : FoldIter(kind, g, f, R)
    BY <2>1
  <2> DEFINE val(s) == (CHOOSE it : FoldIter(kind, it, f, s))[s]
             it == [s \in SUBSET T |-> IF s = T THEN Combined(kind, f[c], g[R]) ELSE val(s)]
  <2>3. ASSUME NEW s \in SUBSET T, s # T PROVE \E h : FoldIter(kind, h, f, s)
    <3>1. PICK x \in T : x \notin s
      BY <2>3
    <3>2. PICK h : FoldIter(kind, h, f, T \ {x})
      BY <1>2, <3>1
    <3>3. s \subseteq T \ {x}
      BY <3>1
    <3>4. FoldIter(kind, [u \in SUBSET s |-> h[u]], f, s)
      <4>1. \A u \in SUBSET s : u \in SUBSET (T \ {x}) /\ u \ {Some(u)} \in SUBSET s
        BY <3>3
      <4>2. \A u \in SUBSET s : h[u] = FoldStep(kind, h, f, u)
        BY <3>2, <4>1 DEF FoldIter
      <4> QED
        BY <4>1, <4>2 DEF FoldIter, FoldStep
    <3> QED
      BY <3>4
  <2>4. ASSUME NEW s \in SUBSET T, NEW h, NEW U, FoldIter(kind, h, f, U), s \subseteq U, s # T
        PROVE  it[s] = h[s]
    <3>1. FoldIter(kind, CHOOSE k : FoldIter(kind, k, f, s), f, s)
      BY <2>3, <2>4
    <3>2. IsFiniteSet(s)
      BY <1>3, FS_Subset
    <3>3. val(s) = h[s]
      <4> DEFINE k == CHOOSE k : FoldIter(kind, k, f, s)
      <4>1. FoldIter(kind, k, f, s)
        BY <3>1
      <4> HIDE DEF k
      <4>2. k[s] = h[s]
        BY <2>4, <3>2, <4>1, FoldIterUnique
      <4> QED
        BY <4>2 DEF k
    <3> HIDE DEF val
    <3> QED
      BY <2>4, <3>3
  <2>5. ASSUME NEW s \in SUBSET T PROVE it[s] = FoldStep(kind, it, f, s)
    <3>1. CASE s = T
      <4>1. it[R] = g[R]
        BY <2>1, <2>2, <2>4
      <4>2. it[T] = Combined(kind, f[c], g[R])
        OBVIOUS
      <4> QED
        BY <1>5, <3>1, <4>1, <4>2 DEF FoldStep
    <3>2. CASE s # T
      <4>1. PICK h : FoldIter(kind, h, f, s)
        BY <2>3, <3>2
      <4>2. it[s] = h[s]
        BY <2>4, <3>2, <4>1
      <4>3. h[s] = FoldStep(kind, h, f, s)
        BY <4>1 DEF FoldIter
      <4>4. CASE s = {}
        BY <4>2, <4>3, <4>4 DEF FoldStep
      <4>5. CASE s # {}
        <5> DEFINE d == s \ {Some(s)}
        <5>1. d \in SUBSET T /\ d \subseteq s /\ d # T
          BY <3>2
        <5>2. it[d] = h[d]
          BY <2>4, <4>1, <5>1
        <5> QED
          BY <4>2, <4>3, <4>5, <5>2 DEF FoldStep
      <4> QED
        BY <4>4, <4>5
    <3> QED
      BY <3>1, <3>2
  <2>6. FoldIter(kind, it, f, T)
    <3>1. it = [s \in SUBSET T |-> it[s]]
      OBVIOUS
    <3> HIDE DEF it
    <3> QED
      BY <2>5, <3>1 DEF FoldIter
  <2> QED
    BY <1>2, <2>6
<1> QED
  BY <1>4, <1>5

LEMMA IntervalFinite ==
  ASSUME NEW n \in Nat PROVE IsFiniteSet(1..n)
  BY FS_Interval

LEMMA FoldEmpty ==
  ASSUME NEW kind, NEW f PROVE Folded(kind, f, {}) = Neutral(kind)
<1>1. IsFiniteSet({})
  BY FS_EmptySet
<1>2. PICK it : FoldIter(kind, it, f, {}) /\ Folded(kind, f, {}) = it[{}]
  BY <1>1, FoldIterExists, FoldIsIter
<1> QED
  BY <1>2 DEF FoldIter, FoldStep

LEMMA FoldChosen ==
  ASSUME NEW kind, NEW f, NEW S, IsFiniteSet(S), S # {}
  PROVE  Folded(kind, f, S) = Combined(kind, f[Some(S)], Folded(kind, f, S \ {Some(S)}))
<1> DEFINE R == S \ {Some(S)}
<1>1. IsFiniteSet(R)
  BY FS_RemoveElement
<1>2. PICK it : FoldIter(kind, it, f, S) /\ Folded(kind, f, S) = it[S]
  BY FoldIterExists, FoldIsIter
<1>3. PICK ir : FoldIter(kind, ir, f, R) /\ Folded(kind, f, R) = ir[R]
  BY <1>1, FoldIterExists, FoldIsIter
<1>4. it[R] = ir[R]
  BY <1>1, <1>2, <1>3, FoldIterUnique
<1>5. it[S] = FoldStep(kind, it, f, S)
  BY <1>2 DEF FoldIter
<1>6. it[S] = Combined(kind, f[Some(S)], it[R])
  BY <1>5 DEF FoldStep
<1> QED
  BY <1>2, <1>3, <1>4, <1>6

LEMMA FoldType ==
  ASSUME NEW kind, NEW S, IsFiniteSet(S), NEW f, \A x \in S : f[x] \in Int
  PROVE  Folded(kind, f, S) \in Int
<1> DEFINE C == {T \in SUBSET S : Folded(kind, f, T) \notin Int}
<1>1. SUFFICES ASSUME C # {} PROVE FALSE
  OBVIOUS
<1>2. PICK T \in C : \A x \in T : T \ {x} \notin C
  <2>1. C \subseteq SUBSET S
    OBVIOUS
  <2> HIDE DEF C
  <2> QED
    BY <1>1, <2>1, SmallestSet
<1>3. IsFiniteSet(T)
  BY <1>2, FS_Subset
<1>4. T # {}
  BY <1>2, FoldEmpty DEF Neutral
<1>5. Some(T) \in T
  BY <1>4, SomeElement
<1>6. Folded(kind, f, T \ {Some(T)}) \in Int /\ f[Some(T)] \in Int
  BY <1>2, <1>5
<1>7. Folded(kind, f, T) = Combined(kind, f[Some(T)], Folded(kind, f, T \ {Some(T)}))
  BY <1>3, <1>4, FoldChosen
<1> QED
  BY <1>2, <1>6, <1>7, CombinedIs

\* Whichever element is taken first, the result is the same.
LEMMA FoldRemove ==
  ASSUME NEW kind, NEW S, IsFiniteSet(S),
         NEW f, \A x \in S : f[x] \in Int, NEW x \in S
  PROVE  Folded(kind, f, S) = Combined(kind, f[x], Folded(kind, f, S \ {x}))
<1> DEFINE F(T) == Folded(kind, f, T)
<1> DEFINE C == {T \in SUBSET S : \E y \in T : F(T) # Combined(kind, f[y], F(T \ {y}))}
<1>1. SUFFICES ASSUME C # {} PROVE FALSE
  OBVIOUS
<1>2. PICK T \in C : \A y \in T : T \ {y} \notin C
  <2>1. C \subseteq SUBSET S
    OBVIOUS
  <2> HIDE DEF C
  <2> QED
    BY <1>1, <2>1, SmallestSet
<1>3. PICK y \in T : F(T) # Combined(kind, f[y], F(T \ {y}))
  BY <1>2
<1>4. IsFiniteSet(T)
  BY <1>2, FS_Subset
<1> DEFINE c == Some(T)  R == T \ {c, y}
<1>5. c \in T
  BY <1>3, SomeElement
<1>6. F(T) = Combined(kind, f[c], F(T \ {c}))
  BY <1>3, <1>4, FoldChosen
<1>7. y # c
  BY <1>3, <1>6
<1>8. T \ {c} \notin C /\ T \ {y} \notin C
  BY <1>2, <1>3, <1>5
<1>9. (T \ {c}) \ {y} = R /\ (T \ {y}) \ {c} = R
  OBVIOUS
<1>10. F(T \ {c}) = Combined(kind, f[y], F(R))
  BY <1>7, <1>8, <1>9
<1>11. F(T \ {y}) = Combined(kind, f[c], F(R))
  BY <1>5, <1>7, <1>8, <1>9
<1>12. F(R) \in Int
  BY <1>4, FS_Subset, FoldType
<1>13. f[c] \in Int /\ f[y] \in Int
  BY <1>5
<1> HIDE DEF F
<1> QED
  BY <1>3, <1>6, <1>10, <1>11, <1>12, <1>13, CombinedIs

\* What is proved of a result for one element more holds of every one.
LEMMA FoldSame ==
  ASSUME NEW kind, NEW S, IsFiniteSet(S),
         NEW f, NEW g, \A x \in S : f[x] = g[x]
  PROVE  Folded(kind, f, S) = Folded(kind, g, S)
<1> DEFINE C == {T \in SUBSET S : Folded(kind, f, T) # Folded(kind, g, T)}
<1>1. SUFFICES ASSUME C # {} PROVE FALSE
  OBVIOUS
<1>2. PICK T \in C : \A y \in T : T \ {y} \notin C
  <2>1. C \subseteq SUBSET S
    OBVIOUS
  <2> HIDE DEF C
  <2> QED
    BY <1>1, <2>1, SmallestSet
<1>3. T # {}
  BY <1>2, FoldEmpty
<1>4. IsFiniteSet(T) /\ Some(T) \in T
  BY <1>2, <1>3, FS_Subset, SomeElement
<1>5. Folded(kind, f, T \ {Some(T)}) = Folded(kind, g, T \ {Some(T)})
  BY <1>2, <1>4
<1> QED
  BY <1>2, <1>3, <1>4, <1>5, FoldChosen

LEMMA SumEmpty == ASSUME NEW f PROVE Sum(f, {}) = 0
<1>1. Folded("sum", f, {}) = Neutral("sum")
  BY FoldEmpty
<1> QED
  BY <1>1 DEF Folded, Neutral

LEMMA SumChosen ==
  ASSUME NEW f, NEW S, IsFiniteSet(S), S # {}
  PROVE  Sum(f, S) = f[Some(S)] + Sum(f, S \ {Some(S)})
<1>1. Folded("sum", f, S) = Combined("sum", f[Some(S)], Folded("sum", f, S \ {Some(S)}))
  BY FoldChosen
<1> QED
  BY <1>1 DEF Folded, Combined

LEMMA SumType ==
  ASSUME NEW S, IsFiniteSet(S), NEW f, \A x \in S : f[x] \in Int
  PROVE  Sum(f, S) \in Int
<1>1. Folded("sum", f, S) \in Int
  BY FoldType
<1> QED
  BY <1>1 DEF Folded

LEMMA SumRemove ==
  ASSUME NEW S, IsFiniteSet(S), NEW f, \A x \in S : f[x] \in Int, NEW x \in S
  PROVE  Sum(f, S) = f[x] + Sum(f, S \ {x})
<1>1. Folded("sum", f, S) = Combined("sum", f[x], Folded("sum", f, S \ {x}))
  BY FoldRemove
<1> QED
  BY <1>1 DEF Folded, Combined

LEMMA SumSame ==
  ASSUME NEW S, IsFiniteSet(S), NEW f, NEW g, \A x \in S : f[x] = g[x]
  PROVE  Sum(f, S) = Sum(g, S)
<1>1. Folded("sum", f, S) = Folded("sum", g, S)
  BY FoldSame
<1> QED
  BY <1>1 DEF Folded

LEMMA ProdEmpty == ASSUME NEW f PROVE Prod(f, {}) = 1
<1>1. Folded("product", f, {}) = Neutral("product")
  BY FoldEmpty
<1> QED
  BY <1>1 DEF Folded, Neutral

LEMMA ProdChosen ==
  ASSUME NEW f, NEW S, IsFiniteSet(S), S # {}
  PROVE  Prod(f, S) = f[Some(S)] * Prod(f, S \ {Some(S)})
<1>1. Folded("product", f, S) = Combined("product", f[Some(S)], Folded("product", f, S \ {Some(S)}))
  BY FoldChosen
<1> QED
  BY <1>1 DEF Folded, Combined

LEMMA ProdType ==
  ASSUME NEW S, IsFiniteSet(S), NEW f, \A x \in S : f[x] \in Int
  PROVE  Prod(f, S) \in Int
<1>1. Folded("product", f, S) \in Int
  BY FoldType
<1> QED
  BY <1>1 DEF Folded

LEMMA ProdRemove ==
  ASSUME NEW S, IsFiniteSet(S), NEW f, \A x \in S : f[x] \in Int, NEW x \in S
  PROVE  Prod(f, S) = f[x] * Prod(f, S \ {x})
<1>1. Folded("product", f, S) = Combined("product", f[x], Folded("product", f, S \ {x}))
  BY FoldRemove
<1> QED
  BY <1>1 DEF Folded, Combined

LEMMA ProdSame ==
  ASSUME NEW S, IsFiniteSet(S), NEW f, NEW g, \A x \in S : f[x] = g[x]
  PROVE  Prod(f, S) = Prod(g, S)
<1>1. Folded("product", f, S) = Folded("product", g, S)
  BY FoldSame
<1> QED
  BY <1>1 DEF Folded

LEMMA SumAtMost ==
  ASSUME NEW S, IsFiniteSet(S), NEW f, NEW g,
         \A x \in S : f[x] \in Int /\ g[x] \in Int /\ f[x] <= g[x]
  PROVE  Sum(f, S) <= Sum(g, S)
<1> DEFINE C == {T \in SUBSET S : ~ (Sum(f, T) <= Sum(g, T))}
<1>1. SUFFICES ASSUME C # {} PROVE FALSE
  OBVIOUS
<1>2. PICK T \in C : \A y \in T : T \ {y} \notin C
  <2>1. C \subseteq SUBSET S
    OBVIOUS
  <2> HIDE DEF C
  <2> QED
    BY <1>1, <2>1, SmallestSet
<1>3. T # {}
  BY <1>2, SumEmpty
<1>4. IsFiniteSet(T)
  BY <1>2, FS_Subset
<1> DEFINE x == Some(T)  R == T \ {x}
<1>5. x \in T /\ x \in S
  BY <1>2, <1>3, SomeElement
<1>6. Sum(f, R) <= Sum(g, R)
  BY <1>2, <1>5
<1>7. Sum(f, R) \in Int /\ Sum(g, R) \in Int
  <2>1. IsFiniteSet(R) /\ \A y \in R : f[y] \in Int /\ g[y] \in Int
    BY <1>2, <1>4, FS_RemoveElement
  <2> HIDE DEF R
  <2> QED
    BY <2>1, SumType
<1>8. Sum(f, T) = f[x] + Sum(f, R) /\ Sum(g, T) = g[x] + Sum(g, R)
  BY <1>3, <1>4, SumChosen
<1> QED
  BY <1>2, <1>5, <1>6, <1>7, <1>8

LEMMA SumPlus ==
  ASSUME NEW S, IsFiniteSet(S), NEW f, NEW g, NEW h,
         \A x \in S : f[x] \in Int /\ g[x] \in Int /\ h[x] = f[x] + g[x]
  PROVE  Sum(h, S) = Sum(f, S) + Sum(g, S)
<1> DEFINE C == {T \in SUBSET S : Sum(h, T) # Sum(f, T) + Sum(g, T)}
<1>1. SUFFICES ASSUME C # {} PROVE FALSE
  OBVIOUS
<1>2. PICK T \in C : \A y \in T : T \ {y} \notin C
  <2>1. C \subseteq SUBSET S
    OBVIOUS
  <2> HIDE DEF C
  <2> QED
    BY <1>1, <2>1, SmallestSet
<1>3. T # {}
  <2>1. Sum(h, {}) = Sum(f, {}) + Sum(g, {})
    BY SumEmpty
  <2> QED
    BY <1>2, <2>1
<1>4. IsFiniteSet(T)
  BY <1>2, FS_Subset
<1> DEFINE x == Some(T)  R == T \ {x}
<1>5. x \in T /\ x \in S
  BY <1>2, <1>3, SomeElement
<1>6. Sum(h, R) = Sum(f, R) + Sum(g, R)
  BY <1>2, <1>5
<1>7. Sum(f, R) \in Int /\ Sum(g, R) \in Int
  <2>1. IsFiniteSet(R) /\ \A y \in R : f[y] \in Int /\ g[y] \in Int
    BY <1>2, <1>4, FS_RemoveElement
  <2> HIDE DEF R
  <2> QED
    BY <2>1, SumType
<1>8. /\ Sum(f, T) = f[x] + Sum(f, R) /\ Sum(g, T) = g[x] + Sum(g, R)
      /\ Sum(h, T) = h[x] + Sum(h, R)
  BY <1>3, <1>4, SumChosen
<1> QED
  BY <1>2, <1>5, <1>6, <1>7, <1>8

LEMMA SumScaled ==
  ASSUME NEW S, IsFiniteSet(S), NEW k \in Int, NEW f, NEW h,
         \A x \in S : f[x] \in Int /\ h[x] = k * f[x]
  PROVE  Sum(h, S) = k * Sum(f, S)
<1> DEFINE C == {T \in SUBSET S : Sum(h, T) # k * Sum(f, T)}
<1>1. SUFFICES ASSUME C # {} PROVE FALSE
  OBVIOUS
<1>2. PICK T \in C : \A y \in T : T \ {y} \notin C
  <2>1. C \subseteq SUBSET S
    OBVIOUS
  <2> HIDE DEF C
  <2> QED
    BY <1>1, <2>1, SmallestSet
<1>3. T # {}
  <2>1. Sum(h, {}) = k * Sum(f, {})
    BY SumEmpty
  <2> QED
    BY <1>2, <2>1
<1>4. IsFiniteSet(T)
  BY <1>2, FS_Subset
<1> DEFINE x == Some(T)  R == T \ {x}
<1>5. x \in T /\ x \in S
  BY <1>2, <1>3, SomeElement
<1>6. Sum(h, R) = k * Sum(f, R)
  BY <1>2, <1>5
<1>7. Sum(f, R) \in Int
  <2>1. IsFiniteSet(R) /\ \A y \in R : f[y] \in Int
    BY <1>2, <1>4, FS_RemoveElement
  <2> HIDE DEF R
  <2> QED
    BY <2>1, SumType
<1>8. Sum(f, T) = f[x] + Sum(f, R) /\ Sum(h, T) = h[x] + Sum(h, R)
  BY <1>3, <1>4, SumChosen
<1>9. \A a, b \in Int : k * (a + b) = k * a + k * b
  OBVIOUS
<1> QED
  BY <1>2, <1>5, <1>6, <1>7, <1>8, <1>9

LEMMA SumConstant ==
  ASSUME NEW S, IsFiniteSet(S), NEW k \in Int, NEW f, \A x \in S : f[x] = k
  PROVE  Sum(f, S) = k * Cardinality(S)
<1> DEFINE C == {T \in SUBSET S : Sum(f, T) # k * Cardinality(T)}
<1>1. SUFFICES ASSUME C # {} PROVE FALSE
  OBVIOUS
<1>2. PICK T \in C : \A y \in T : T \ {y} \notin C
  <2>1. C \subseteq SUBSET S
    OBVIOUS
  <2> HIDE DEF C
  <2> QED
    BY <1>1, <2>1, SmallestSet
<1>3. T # {}
  <2>1. k * 0 = 0
    OBVIOUS
  <2> QED
    BY <1>2, <2>1, SumEmpty, FS_EmptySet
<1>4. IsFiniteSet(T) /\ Cardinality(T) \in Nat
  BY <1>2, FS_Subset, FS_CardinalityType
<1> DEFINE x == Some(T)  R == T \ {x}
<1>5. x \in T /\ x \in S
  BY <1>2, <1>3, SomeElement
<1>6. Sum(f, R) = k * Cardinality(R)
  BY <1>2, <1>5
<1>7. Cardinality(R) = Cardinality(T) - 1
  BY <1>4, <1>5, FS_RemoveElement
<1>8. Sum(f, T) = k + Sum(f, R)
  BY <1>3, <1>4, <1>5, SumChosen
<1>9. \A n \in Int : k + k * (n - 1) = k * n
  OBVIOUS
<1> QED
  BY <1>2, <1>4, <1>6, <1>7, <1>8, <1>9

LEMMA SumAdd ==
  ASSUME NEW S, IsFiniteSet(S), NEW y, y \notin S, NEW f,
         \A x \in S \cup {y} : f[x] \in Int
  PROVE  Sum(f, S \cup {y}) = f[y] + Sum(f, S)
<1> DEFINE T == S \cup {y}
<1>1. IsFiniteSet(T)
  BY FS_AddElement
<1>2. y \in T /\ T \ {y} = S /\ \A x \in T : f[x] \in Int
  OBVIOUS
<1> HIDE DEF T
<1>3. Sum(f, T) = f[y] + Sum(f, T \ {y})
  BY <1>1, <1>2, SumRemove
<1> QED
  BY <1>2, <1>3 DEF T

\* w holds the squares of o, h the squared distances of o from t/n, n^2 times
\* over.
SquaresOf(S, n, t, o, w, h) ==
    /\ n \in Int /\ t \in Int
    /\ \A k \in S : /\ o[k] \in Int /\ w[k] = o[k] * o[k]
                    /\ h[k] = (n * o[k] - t) * (n * o[k] - t)
LEMMA SumOfSquares ==
  ASSUME NEW S, IsFiniteSet(S), NEW n, NEW t, NEW o, NEW w, NEW h,
         SquaresOf(S, n, t, o, w, h)
  PROVE  /\ Sum(o, S) \in Int /\ Sum(w, S) \in Int /\ Cardinality(S) \in Int
         /\ Sum(h, S) = (n * n) * Sum(w, S) + ((-2) * (n * t)) * Sum(o, S)
                          + (t * t) * Cardinality(S)
<1> DEFINE a == n * n  b == (-2) * (n * t)  c == t * t
           f1 == [k \in S |-> a * w[k]]
           f2 == [k \in S |-> b * o[k]]
           f3 == [k \in S |-> c]
           f12 == [k \in S |-> f1[k] + f2[k]]
<1>1. a \in Int /\ b \in Int /\ c \in Int
  BY DEF SquaresOf
<1>2. \A k \in S : h[k] = a * w[k] + b * o[k] + c
  BY DEF SquaresOf
<1> HIDE DEF a, b, c
<1>3. \A k \in S : /\ w[k] \in Int /\ a * w[k] \in Int /\ b * o[k] \in Int
                   /\ f1[k] = a * w[k] /\ f2[k] = b * o[k] /\ f3[k] = c
                   /\ f12[k] = f1[k] + f2[k]
  BY <1>1 DEF SquaresOf
<1>4. \A k \in S : /\ f1[k] \in Int /\ f2[k] \in Int /\ f12[k] \in Int /\ f3[k] \in Int
                   /\ h[k] = f12[k] + f3[k] /\ o[k] \in Int
  BY <1>1, <1>2, <1>3 DEF SquaresOf
<1> HIDE DEF f1, f2, f3, f12
<1>5. Sum(f1, S) = a * Sum(w, S) /\ Sum(f2, S) = b * Sum(o, S)
  <2>1. \A k \in S : w[k] \in Int /\ f1[k] = a * w[k]
    BY <1>3
  <2>2. \A k \in S : o[k] \in Int /\ f2[k] = b * o[k]
    BY <1>3, <1>4
  <2>3. Sum(f1, S) = a * Sum(w, S)
    BY <1>1, <2>1, SumScaled
  <2>4. Sum(f2, S) = b * Sum(o, S)
    BY <1>1, <2>2, SumScaled
  <2> QED
    BY <2>3, <2>4
<1>6. Sum(f3, S) = c * Cardinality(S)
  BY <1>1, <1>3, SumConstant
<1>7. Sum(f12, S) = Sum(f1, S) + Sum(f2, S)
  <2>1. \A k \in S : f1[k] \in Int /\ f2[k] \in Int /\ f12[k] = f1[k] + f2[k]
    BY <1>3, <1>4
  <2> QED
    BY <2>1, SumPlus
<1>8. Sum(h, S) = Sum(f12, S) + Sum(f3, S)
  BY <1>4, SumPlus
<1>9. Sum(o, S) \in Int /\ Sum(w, S) \in Int
  BY <1>3, <1>4, SumType
<1>10. Cardinality(S) \in Int
  BY FS_CardinalityType
<1> QED
  BY <1>5, <1>6, <1>7, <1>8, <1>9, <1>10 DEF a, b, c

LEMMA FiniteCardinal ==
  ASSUME NEW S, IsFiniteSet(S)
  PROVE  Cardinality(S) \in Nat /\ (Cardinality(S) >= 1 => S # {})
  BY FS_CardinalityType, FS_EmptySet

LEMMA IntervalCount ==
  ASSUME NEW lo \in Int, NEW hi \in Int, NEW S, S \subseteq lo..hi, lo <= hi
  PROVE  Cardinality(S) <= hi - lo + 1
<1>1. IsFiniteSet(lo..hi) /\ Cardinality(lo..hi) = hi - lo + 1
  BY FS_Interval
<1> QED
  BY <1>1, FS_Subset

LEMMA IntervalSize ==
  ASSUME NEW n \in Nat PROVE Cardinality(1..n) = n
  BY FS_Interval

LEMMA OntoItself ==
  ASSUME NEW S, IsFiniteSet(S), NEW p \in [S -> S],
         \A x, y \in S : p[x] = p[y] => x = y
  PROVE  \A y \in S : \E x \in S : p[x] = y
<1>1. p \in Injection(S, S)
  BY DEF Injection, IsInjective
<1>2. p \in Surjection(S, S)
  BY <1>1, FS_Injection
<1> QED
  BY <1>2 DEF Surjection

\* A function that is one-to-one and onto keeps count.
LEMMA SameCount ==
  ASSUME NEW S, IsFiniteSet(S), NEW T, NEW f \in [S -> T],
         \A x, y \in S : f[x] = f[y] => x = y, \A y \in T : \E x \in S : f[x] = y
  PROVE  IsFiniteSet(T) /\ Cardinality(T) = Cardinality(S)
<1>1. f \in Injection(S, T)
  BY DEF Injection, IsInjective
<1>2. f \in Surjection(S, T)
  BY DEF Surjection
<1>3. ExistsBijection(S, T)
  BY <1>1, <1>2 DEF ExistsBijection, Bijection
<1> QED
  BY <1>3, FS_Bijection

LEMMA PairsCount ==
  ASSUME NEW S, IsFiniteSet(S), NEW T, IsFiniteSet(T)
  PROVE  IsFiniteSet(S \X T) /\ Cardinality(S \X T) = Cardinality(S) * Cardinality(T)
  BY FS_Product

\* The functions between two finite sets are finitely many.
LEMMA FunctionsFinite ==
  ASSUME NEW S, IsFiniteSet(S), NEW T, IsFiniteSet(T)
  PROVE  IsFiniteSet([S -> T])
<1> DEFINE F == [S -> T]  G == SUBSET (S \X T)
           graph == [f \in F |-> {<<x, f[x]>> : x \in S}]
<1>1. IsFiniteSet(G)
  BY PairsCount, FS_SUBSET
<1>2. graph \in [F -> G]
  OBVIOUS
<1>3. ASSUME NEW f \in F, NEW g \in F, graph[f] = graph[g] PROVE f = g
  <2>1. ASSUME NEW x \in S PROVE f[x] = g[x]
    <3>1. <<x, f[x]>> \in {<<y, g[y]>> : y \in S}
      BY <1>3
    <3> QED
      BY <3>1
  <2> QED
    BY <2>1
<1> HIDE DEF graph, F, G
<1>4. graph \in Injection(F, G)
  BY <1>2, <1>3 DEF Injection, IsInjective
<1>5. IsFiniteSet(F)
  BY <1>1, <1>4, FS_Injection
<1> QED
  BY <1>5 DEF F

\* order is an order of 1..n.
OrderOf(order, n) ==
    /\ n \in Nat /\ order \in [1..n -> 1..n]
    /\ \A j, k \in 1..n : order[j] = order[k] => j = k

LEMMA OrdersAre ==
  ASSUME NEW n \in Nat, NEW order \in SetToSeqs(1..n)
  PROVE  OrderOf(order, n) /\ DOMAIN order = 1..n
<1>1. /\ order \in [1..Cardinality(1..n) -> 1..n]
      /\ \A j, k \in 1..Cardinality(1..n) : j # k => order[j] # order[k]
  BY DEF SetToSeqs
<1>2. Cardinality(1..n) = n
  BY IntervalSize
<1>3. order \in [1..n -> 1..n] /\ \A j, k \in 1..n : j # k => order[j] # order[k]
  BY <1>1, <1>2
<1> QED
  BY <1>3 DEF OrderOf

LEMMA SubsetFinite ==
  ASSUME NEW S, IsFiniteSet(S), NEW R, R \subseteq S PROVE IsFiniteSet(R)
  BY FS_Subset

LEMMA SumOver ==
  ASSUME NEW f, NEW S, DOMAIN f = S PROVE SumFunction(f) = Sum(f, S)
  BY DEF SumFunction, Sum

\* Renaming the elements does not change the sum.
Image(p, S) == {p[x] : x \in S}
LEMMA SumImage ==
  ASSUME NEW S, IsFiniteSet(S), NEW p, NEW f, NEW h,
         \A x, y \in S : p[x] = p[y] => x = y,
         \A x \in S : f[p[x]] \in Int /\ h[x] = f[p[x]]
  PROVE  IsFiniteSet(Image(p, S)) /\ Sum(h, S) = Sum(f, Image(p, S))
<1> DEFINE C == {T \in SUBSET S : ~ /\ IsFiniteSet(Image(p, T))
                                    /\ Sum(h, T) = Sum(f, Image(p, T))}
<1>1. SUFFICES ASSUME C # {} PROVE FALSE
  OBVIOUS
<1>2. PICK T \in C : \A y \in T : T \ {y} \notin C
  <2>1. C \subseteq SUBSET S
    OBVIOUS
  <2> HIDE DEF C
  <2> QED
    BY <1>1, <2>1, SmallestSet
<1>3. T # {}
  <2>1. Image(p, {}) = {}
    BY DEF Image
  <2> QED
    BY <1>2, <2>1, SumEmpty, FS_EmptySet
<1>4. IsFiniteSet(T)
  BY <1>2, FS_Subset
<1> DEFINE x == Some(T)  R == T \ {x}
<1>5. x \in T /\ x \in S
  BY <1>2, <1>3, SomeElement
<1>6. IsFiniteSet(Image(p, R)) /\ Sum(h, R) = Sum(f, Image(p, R))
  BY <1>2, <1>5
<1>7. Image(p, T) = Image(p, R) \cup {p[x]}
  BY <1>5 DEF Image
<1>8. p[x] \notin Image(p, R)
  BY <1>2, <1>5 DEF Image
<1>9. \A y \in Image(p, R) \cup {p[x]} : f[y] \in Int
  BY <1>2, <1>5 DEF Image
<1>10. Sum(h, T) = h[x] + Sum(h, R)
  BY <1>3, <1>4, SumChosen
<1> HIDE DEF R
<1>11. Sum(f, Image(p, T)) = f[p[x]] + Sum(f, Image(p, R))
  <2> DEFINE I == Image(p, R)  y == p[x]
  <2>1. IsFiniteSet(I) /\ y \notin I /\ Image(p, T) = I \cup {y}
        /\ \A z \in I \cup {y} : f[z] \in Int
    BY <1>6, <1>7, <1>8, <1>9
  <2> HIDE DEF I, y, C, x
  <2>2. Sum(f, I \cup {y}) = f[y] + Sum(f, I)
    BY <2>1, SumAdd
  <2> QED
    BY <2>1, <2>2 DEF I, y
<1>12. IsFiniteSet(Image(p, T))
  BY <1>6, <1>7, FS_AddElement
<1> QED
  BY <1>2, <1>5, <1>6, <1>10, <1>11, <1>12

\* Nor does it change their number.
LEMMA ImageSize ==
  ASSUME NEW S, IsFiniteSet(S), NEW p, \A x, y \in S : p[x] = p[y] => x = y
  PROVE  Cardinality(Image(p, S)) = Cardinality(S)
<1> DEFINE f == [x \in S |-> p[x]]
<1>1. f \in Bijection(S, Image(p, S))
  BY DEF Bijection, Injection, Surjection, IsInjective, Image
<1>2. ExistsBijection(S, Image(p, S))
  BY <1>1 DEF ExistsBijection
<1> QED
  BY <1>2, FS_Bijection

\* One more entry adds its value.
LEMMA SumNext ==
  ASSUME NEW n \in Nat, NEW f, \A x \in 1..(n + 1) : f[x] \in Int
  PROVE  Sum(f, 1..(n + 1)) = f[n + 1] + Sum(f, 1..n)
<1>1. 1..(n + 1) = (1..n) \cup {n + 1} /\ n + 1 \notin 1..n /\ IsFiniteSet(1..n)
  BY FS_Interval
<1> QED
  BY <1>1, SumAdd

LEMMA ImageFinite ==
  ASSUME NEW S, IsFiniteSet(S), NEW p
  PROVE  IsFiniteSet(Image(p, S))
<1> DEFINE f == [x \in S |-> p[x]]
<1>1. f \in Surjection(S, Image(p, S))
  BY DEF Surjection, Image
<1> QED
  BY <1>1, FS_Surjection

LEMMA ProductPositive ==
  ASSUME NEW x \in Nat \ {0}, NEW y \in Nat \ {0} PROVE x * y \in Nat \ {0}
  OBVIOUS

LEMMA ProductNat ==
  ASSUME NEW x \in Nat, NEW y \in Nat PROVE x * y \in Nat
  OBVIOUS

LEMMA SquareNat ==
  ASSUME NEW x \in Int PROVE x * x \in Nat
<1>1. CASE x >= 0
  BY <1>1, ProductNat
<1>2. CASE x < 0
  <2>1. x * x = (-x) * (-x) /\ -x \in Nat
    BY <1>2
  <2> QED
    BY <2>1, ProductNat
<1> QED
  BY <1>1, <1>2

(***************************************************************************)
(* Flattening a sequence of sequences.                                     *)
(***************************************************************************)
\* flat is the function of FlattenSeq's definition on the first n of seqs.
Joining(flat, seqs, n) ==
    flat = [k \in 1..n |-> IF k = 1 THEN seqs[k] ELSE flat[k - 1] \o seqs[k]]

LEMMA JoiningExists ==
  ASSUME NEW seqs, NEW n \in Nat PROVE \E flat : Joining(flat, seqs, n)
<1> DEFINE T == {k \in Nat : \E flat : Joining(flat, seqs, k)}
<1>1. 0 \in T
  <2> DEFINE e == [k \in 1..0 |-> 0]
  <2>1. Joining(e, seqs, 0)
    BY DEF Joining
  <2> QED
    BY <2>1
<1>2. ASSUME NEW k \in T PROVE k + 1 \in T
  <2>1. PICK f : Joining(f, seqs, k)
    BY <1>2
  <2> DEFINE top == IF k + 1 = 1 THEN seqs[k + 1] ELSE f[k] \o seqs[k + 1]
             g == [j \in 1..(k + 1) |-> IF j = k + 1 THEN top ELSE f[j]]
  <2>2. ASSUME NEW j \in 1..(k + 1)
        PROVE  g[j] = IF j = 1 THEN seqs[j] ELSE g[j - 1] \o seqs[j]
    <3>1. CASE j = k + 1
      <4>1. g[j] = top
        BY <3>1
      <4>2. CASE j = 1
        BY <3>1, <4>1, <4>2
      <4>3. CASE j # 1
        <5>1. j - 1 \in 1..(k + 1) /\ j - 1 # k + 1 /\ j - 1 = k /\ k + 1 # 1
          BY <1>2, <3>1, <4>3
        <5>2. g[j - 1] = f[k]
          BY <5>1
        <5> HIDE DEF g
        <5> QED
          BY <3>1, <4>1, <4>3, <5>1, <5>2
      <4> QED
        BY <4>2, <4>3
    <3>2. CASE j # k + 1
      <4>1. j \in 1..k /\ g[j] = f[j]
        BY <1>2, <3>2
      <4>2. f[j] = IF j = 1 THEN seqs[j] ELSE f[j - 1] \o seqs[j]
        BY <2>1, <4>1 DEF Joining
      <4>3. j # 1 => g[j - 1] = f[j - 1]
        BY <1>2, <4>1
      <4> HIDE DEF g
      <4> QED
        BY <4>1, <4>2, <4>3
    <3> QED
      BY <3>1, <3>2
  <2>3. Joining(g, seqs, k + 1)
    <3>1. g = [j \in 1..(k + 1) |-> g[j]]
      OBVIOUS
    <3> HIDE DEF g
    <3> QED
      BY <2>2, <3>1 DEF Joining
  <2> QED
    BY <1>2, <2>3
<1>3. T \in SUBSET Nat
  OBVIOUS
<1> HIDE DEF T
<1>4. T = Nat
  BY <1>1, <1>2, <1>3, SetInduction
<1> QED
  BY <1>4 DEF T

LEMMA FlattenIs ==
  ASSUME NEW T, NEW seqs \in Seq(T), Len(seqs) > 0
  PROVE  \E flat : Joining(flat, seqs, Len(seqs)) /\ FlattenSeq(seqs) = flat[Len(seqs)]
<1> DEFINE n == Len(seqs)  flat == CHOOSE f : Joining(f, seqs, n)
<1>1. n \in Nat
  OBVIOUS
<1>2. Joining(flat, seqs, n)
  BY <1>1, JoiningExists
<1>3. FlattenSeq(seqs) = flat[n]
  BY DEF FlattenSeq, Joining
<1> QED
  BY <1>2, <1>3

\* The sum over two disjoint sets.
LEMMA SumUnion ==
  ASSUME NEW A, IsFiniteSet(A), NEW B, IsFiniteSet(B), A \cap B = {},
         NEW f, \A x \in A \cup B : f[x] \in Int
  PROVE  Sum(f, A \cup B) = Sum(f, A) + Sum(f, B)
<1> DEFINE C == {T \in SUBSET B : Sum(f, A \cup T) # Sum(f, A) + Sum(f, T)}
<1>1. SUFFICES ASSUME C # {} PROVE FALSE
  OBVIOUS
<1>2. PICK T \in C : \A y \in T : T \ {y} \notin C
  <2>1. C \subseteq SUBSET B
    OBVIOUS
  <2> HIDE DEF C
  <2> QED
    BY <1>1, <2>1, SmallestSet
<1>3. Sum(f, A) \in Int
  BY SumType
<1>4. T # {}
  <2>1. Sum(f, A \cup {}) = Sum(f, A) + Sum(f, {})
    BY <1>3, SumEmpty
  <2> QED
    BY <1>2, <2>1
<1> DEFINE x == Some(T)  R == T \ {x}
<1>5. x \in T /\ x \in B /\ x \notin A /\ T \subseteq B
  BY <1>2, <1>4, SomeElement
<1>6. Sum(f, A \cup R) = Sum(f, A) + Sum(f, R)
  BY <1>2, <1>5
<1>7. IsFiniteSet(R) /\ IsFiniteSet(A \cup R)
  BY <1>5, FS_Subset, FS_Union
<1>8. /\ A \cup T = (A \cup R) \cup {x} /\ x \notin A \cup R
      /\ T = R \cup {x} /\ x \notin R
      /\ \A y \in (A \cup R) \cup {x} : f[y] \in Int
      /\ \A y \in R \cup {x} : f[y] \in Int
  BY <1>5
<1> HIDE DEF R, C, x
<1>9. Sum(f, (A \cup R) \cup {x}) = f[x] + Sum(f, A \cup R)
  BY <1>7, <1>8, SumAdd
<1>10. Sum(f, R \cup {x}) = f[x] + Sum(f, R)
  BY <1>7, <1>8, SumAdd
<1>11. Sum(f, R) \in Int /\ f[x] \in Int
  BY <1>7, <1>8, SumType
<1>12. Sum(f, A \cup T) = Sum(f, A) + Sum(f, T)
  <2>1. Sum(f, A \cup T) = f[x] + Sum(f, A \cup R)
    BY <1>8, <1>9
  <2>2. Sum(f, T) = f[x] + Sum(f, R)
    BY <1>8, <1>10
  <2> QED
    BY <1>3, <1>6, <1>11, <2>1, <2>2
<1> QED
  BY <1>2, <1>12 DEF C

\* The sum of a run of places, counted from the one before.
Shifted(f, g, n, l) == \A j \in 1..l : g[j] \in Int /\ f[n + j] = g[j]
LEMMA SumShift ==
  ASSUME NEW n \in Nat, NEW l \in Nat, NEW f, NEW g, Shifted(f, g, n, l)
  PROVE  Sum(f, (n + 1)..(n + l)) = Sum(g, 1..l)
<1> DEFINE S == 1..l  p == [j \in S |-> n + j]
<1>1. IsFiniteSet(S)
  BY IntervalFinite
<1>2. Image(p, S) = (n + 1)..(n + l)
  <2>1. \A k \in (n + 1)..(n + l) : k - n \in S /\ p[k - n] = k
    OBVIOUS
  <2>2. \A j \in S : p[j] \in (n + 1)..(n + l)
    OBVIOUS
  <2> HIDE DEF p, S
  <2> QED
    BY <2>1, <2>2 DEF Image
<1>3. \A x, y \in S : p[x] = p[y] => x = y
  OBVIOUS
<1>4. \A x \in S : f[p[x]] \in Int /\ g[x] = f[p[x]]
  BY DEF Shifted
<1> HIDE DEF p, S
<1>5. Sum(g, S) = Sum(f, Image(p, S))
  BY <1>1, <1>3, <1>4, SumImage
<1> QED
  BY <1>2, <1>5 DEF S

\* The weight of a sequence: the sum of what m gives each of its elements.
Weigh(s, m) == Sum([j \in DOMAIN s |-> m[s[j]]], DOMAIN s)

\* m gives each element of T a number.
Weighs(m, T) == \A x \in T : m[x] \in Int

\* f lists the weights of the elements of s.
Lists(f, s, m) == \A j \in 1..Len(s) : f[j] = m[s[j]]

LEMMA WeighIs ==
  ASSUME NEW T, NEW m, Weighs(m, T), NEW s \in Seq(T), NEW f, Lists(f, s, m)
  PROVE  /\ Weigh(s, m) = Sum(f, 1..Len(s)) /\ Weigh(s, m) \in Int
         /\ \A j \in 1..Len(s) : f[j] \in Int
<1> DEFINE S == 1..Len(s)  g == [j \in DOMAIN s |-> m[s[j]]]
<1>1. DOMAIN s = S /\ Len(s) \in Nat /\ IsFiniteSet(S)
  BY IntervalFinite
<1>2. \A j \in S : g[j] = f[j] /\ g[j] \in Int
  BY <1>1 DEF Weighs, Lists
<1>3. Weigh(s, m) = Sum(g, S)
  BY <1>1 DEF Weigh
<1> HIDE DEF g, S
<1>4. Sum(g, S) = Sum(f, S) /\ Sum(g, S) \in Int
  BY <1>1, <1>2, SumSame, SumType
<1> QED
  BY <1>2, <1>3, <1>4 DEF S

LEMMA WeighConcat ==
  ASSUME NEW T, NEW m, Weighs(m, T), NEW s \in Seq(T), NEW u \in Seq(T)
  PROVE  s \o u \in Seq(T) /\ Weigh(s \o u, m) = Weigh(s, m) + Weigh(u, m)
<1> DEFINE w == s \o u  n == Len(s)  l == Len(u)
           f == [j \in 1..(n + l) |-> m[w[j]]]  g == [j \in 1..l |-> m[u[j]]]
           A == 1..n  B == (n + 1)..(n + l)
<1>1. w \in Seq(T) /\ n \in Nat /\ l \in Nat /\ Len(w) = n + l
  OBVIOUS
<1>2. \A j \in 1..n : w[j] = s[j]
  OBVIOUS
<1>3. \A j \in 1..l : w[n + j] = u[j] /\ n + j \in 1..(n + l)
  OBVIOUS
<1> HIDE DEF w, n, l
<1>4. \A j \in 1..n : f[j] = m[s[j]]
  BY <1>1, <1>2
<1>5. \A j \in 1..l : f[n + j] = g[j]
  BY <1>3
<1> HIDE DEF f
<1>6. Weigh(s, m) = Sum(f, 1..n) /\ Weigh(s, m) \in Int
  <2>1. Lists(f, s, m)
    BY <1>4 DEF Lists, n
  <2> QED
    BY <2>1, WeighIs DEF n
<1>7. Weigh(u, m) = Sum(g, 1..l) /\ Weigh(u, m) \in Int /\ \A j \in 1..l : g[j] \in Int
  <2>1. Lists(g, u, m)
    BY DEF Lists, l
  <2> HIDE DEF g
  <2> QED
    BY <2>1, WeighIs DEF l
<1>8. Weigh(w, m) = Sum(f, 1..(n + l)) /\ \A j \in 1..(n + l) : f[j] \in Int
  <2>1. Lists(f, w, m)
    BY <1>1 DEF f, Lists
  <2>2. Weigh(w, m) = Sum(f, 1..Len(w)) /\ \A j \in 1..Len(w) : f[j] \in Int
    BY <1>1, <2>1, WeighIs
  <2> QED
    BY <1>1, <2>2
<1> HIDE DEF g
<1>9. Sum(f, B) = Sum(g, 1..l)
  <2>1. \A j \in 1..l : g[j] \in Int /\ f[n + j] = g[j]
    BY <1>5, <1>7
  <2>2. Shifted(f, g, n, l)
    BY <2>1 DEF Shifted
  <2> QED
    BY <1>1, <2>2, SumShift
<1>10. /\ 1..(n + l) = A \cup B /\ A \cap B = {}
       /\ IsFiniteSet(A) /\ IsFiniteSet(B)
  <2>1. 1..(n + l) = A \cup B /\ A \cap B = {}
    BY <1>1
  <2>2. IsFiniteSet(1..(n + l)) /\ IsFiniteSet(A)
    BY <1>1, IntervalFinite
  <2> QED
    BY <2>1, <2>2, FS_Subset
<1> HIDE DEF A, B
<1>11. Sum(f, A \cup B) = Sum(f, A) + Sum(f, B)
  BY <1>8, <1>10, SumUnion
<1> QED
  BY <1>1, <1>6, <1>7, <1>8, <1>9, <1>10, <1>11 DEF w, A

\* f lists the weights of a sequence of sequences.
Totals(f, seqs, m) == \A k \in 1..Len(seqs) : f[k] = Weigh(seqs[k], m)

\* A flattened sequence has the elements of its parts, and their weights.
LEMMA FlattenWeighs ==
  ASSUME NEW T, NEW m, Weighs(m, T), NEW seqs \in Seq(Seq(T)),
         NEW f, Totals(f, seqs, m)
  PROVE  /\ FlattenSeq(seqs) \in Seq(T)
         /\ Weigh(FlattenSeq(seqs), m) = Sum(f, 1..Len(seqs))
<1> DEFINE n == Len(seqs)
<1>1. n \in Nat /\ \A k \in 1..n : seqs[k] \in Seq(T)
  OBVIOUS
<1>4. \A k \in 1..n : f[k] = Weigh(seqs[k], m)
  BY DEF Totals
<1>2. CASE n = 0
  <2>1. FlattenSeq(seqs) = <<>> /\ <<>> \in Seq(T)
    BY <1>2 DEF FlattenSeq
  <2>2. Weigh(<<>>, m) = 0
    <3>1. DOMAIN <<>> = {}
      OBVIOUS
    <3> QED
      BY <3>1, SumEmpty DEF Weigh
  <2>3. 1..n = {} /\ Sum(f, {}) = 0
    BY <1>2, SumEmpty
  <2> QED
    BY <2>1, <2>2, <2>3
<1>3. CASE n > 0
  <2>1. PICK flat : Joining(flat, seqs, n) /\ FlattenSeq(seqs) = flat[n]
    BY <1>3, FlattenIs
  <2>2. ASSUME NEW k \in 1..n PROVE f[k] \in Int
    <3> DEFINE s == seqs[k]  g == [j \in 1..Len(s) |-> m[s[j]]]
    <3>1. s \in Seq(T) /\ Lists(g, s, m)
      BY <1>1 DEF Lists
    <3> HIDE DEF s, g
    <3>2. Weigh(s, m) \in Int
      BY <3>1, WeighIs
    <3> QED
      BY <1>4, <3>2 DEF s
  <2>0. \A k \in 1..n : flat[k] = IF k = 1 THEN seqs[k] ELSE flat[k - 1] \o seqs[k]
    BY <2>1 DEF Joining
  <2> DEFINE Q == {k \in Nat : k + 1 <= n => /\ flat[k + 1] \in Seq(T)
                                            /\ Weigh(flat[k + 1], m) = Sum(f, 1..(k + 1))}
  <2>3. 0 \in Q
    <3>1. flat[1] = seqs[1] /\ 1 \in 1..n
      BY <1>1, <1>3, <2>1 DEF Joining
    <3>2. Sum(f, 1..1) = f[1]
      <4>1. 1..1 = {} \cup {1} /\ IsFiniteSet({}) /\ f[1] \in Int /\ Sum(f, {}) = 0
        BY <2>2, <3>1, SumEmpty, FS_EmptySet
      <4>2. Sum(f, {} \cup {1}) = f[1] + Sum(f, {})
        BY <4>1, SumAdd
      <4> QED
        BY <4>1, <4>2
    <3>3. Weigh(flat[1], m) = Sum(f, 1..1) /\ flat[1] \in Seq(T)
      BY <1>1, <1>4, <3>1, <3>2
    <3> QED
      BY <3>3
  <2>4. ASSUME NEW k \in Q PROVE k + 1 \in Q
    <3>1. SUFFICES ASSUME k + 2 <= n
                   PROVE  /\ flat[k + 2] \in Seq(T)
                          /\ Weigh(flat[k + 2], m) = Sum(f, 1..(k + 2))
      BY <2>4
    <3>2. k \in Nat /\ k + 2 \in 1..n /\ k + 2 # 1 /\ k + 2 - 1 = k + 1
      BY <1>1, <2>4, <3>1
    <3>3. flat[k + 1] \in Seq(T) /\ Weigh(flat[k + 1], m) = Sum(f, 1..(k + 1))
      BY <1>1, <2>4, <3>1
    <3>4. flat[k + 2] = flat[k + 1] \o seqs[k + 2]
      <4> DEFINE q == k + 2
      <4>1. q \in 1..n /\ q # 1 /\ q - 1 = k + 1
        BY <3>2
      <4> HIDE DEF q
      <4>2. flat[q] = flat[q - 1] \o seqs[q]
        BY <2>0, <4>1
      <4> QED
        BY <4>1, <4>2 DEF q
    <3>5. /\ flat[k + 2] \in Seq(T)
          /\ Weigh(flat[k + 2], m) = Weigh(flat[k + 1], m) + f[k + 2]
      BY <1>1, <1>4, <3>2, <3>3, <3>4, WeighConcat
    <3>6. Sum(f, 1..(k + 1 + 1)) = f[k + 1 + 1] + Sum(f, 1..(k + 1))
      <4>1. \A x \in 1..(k + 1 + 1) : f[x] \in Int
        BY <1>1, <2>2, <3>2
      <4>2. k + 1 \in Nat
        BY <3>2
      <4> QED
        BY <4>1, <4>2, SumNext
    <3>7. k + 1 + 1 = k + 2
      BY <3>2
    <3>8. Sum(f, 1..(k + 1)) \in Int /\ f[k + 2] \in Int
      <4>1. \A x \in 1..(k + 1) : f[x] \in Int
        BY <1>1, <2>2, <3>2
      <4>2. IsFiniteSet(1..(k + 1))
        BY <3>2, IntervalFinite
      <4> QED
        BY <2>2, <3>2, <4>1, <4>2, SumType
    <3> QED
      BY <3>3, <3>5, <3>6, <3>7, <3>8
  <2>5. Q \in SUBSET Nat
    OBVIOUS
  <2> HIDE DEF Q
  <2>6. Q = Nat
    BY <2>3, <2>4, <2>5, SetInduction
  <2>7. n - 1 \in Q /\ n - 1 + 1 = n
    BY <1>1, <1>3, <2>6
  <2> QED
    BY <1>1, <2>1, <2>7 DEF Q
<1> QED
  BY <1>1, <1>2, <1>3

\* One for the elements of P, nothing for the others.
Ones(T, P) == [x \in T |-> IF x \in P THEN 1 ELSE 0]

LEMMA OnesWeigh == ASSUME NEW T, NEW P PROVE Weighs(Ones(T, P), T)
  BY DEF Weighs, Ones

\* The weight that counts the places of a sequence with elements in P.
LEMMA CountWeighs ==
  ASSUME NEW T, NEW s \in Seq(T), NEW P
  PROVE  Cardinality({p \in DOMAIN s : s[p] \in P}) = Weigh(s, Ones(T, P))
<1> DEFINE S == 1..Len(s)  A == {p \in S : s[p] \in P}  B == S \ A
           f == [j \in S |-> IF s[j] \in P THEN 1 ELSE 0]
<1>1. DOMAIN s = S /\ Len(s) \in Nat /\ IsFiniteSet(S) /\ \A j \in S : s[j] \in T
  BY IntervalFinite
<1>2. /\ S = A \cup B /\ A \cap B = {} /\ IsFiniteSet(A) /\ IsFiniteSet(B)
  BY <1>1, FS_Subset
<1>3. Lists(f, s, Ones(T, P))
  BY <1>1 DEF Lists, Ones
<1>4. (\A j \in A : f[j] = 1) /\ (\A j \in B : f[j] = 0) /\ \A j \in A \cup B : f[j] \in Int
  OBVIOUS
<1>9. A = {p \in DOMAIN s : s[p] \in P}
  BY <1>1
<1> HIDE DEF f, A, B
<1>5. Weigh(s, Ones(T, P)) = Sum(f, S)
  BY <1>3, OnesWeigh, WeighIs
<1>6. Sum(f, A \cup B) = Sum(f, A) + Sum(f, B)
  BY <1>2, <1>4, SumUnion
<1>7. Sum(f, A) = 1 * Cardinality(A) /\ Sum(f, B) = 0 * Cardinality(B)
  BY <1>2, <1>4, SumConstant
<1>8. Cardinality(A) \in Nat /\ Cardinality(B) \in Nat
  BY <1>2, FS_CardinalityType
<1>10. Sum(f, A \cup B) = Cardinality(A)
  BY <1>6, <1>7, <1>8
<1> QED
  BY <1>2, <1>5, <1>9, <1>10

\* Who is in a sequence at all, is in it once or more.
LEMMA CountedIsThere ==
  ASSUME NEW T, NEW s \in Seq(T), NEW x
  PROVE  x \in Range(s) <=> Weigh(s, Ones(T, {x})) > 0
<1> DEFINE A == {p \in DOMAIN s : s[p] \in {x}}
<1>1. Cardinality(A) = Weigh(s, Ones(T, {x}))
  BY CountWeighs
<1>2. IsFiniteSet(A)
  <2>1. DOMAIN s = 1..Len(s) /\ Len(s) \in Nat
    OBVIOUS
  <2>2. IsFiniteSet(DOMAIN s) /\ A \subseteq DOMAIN s
    BY <2>1, IntervalFinite
  <2> QED
    BY <2>2, FS_Subset
<1>3. x \in Range(s) <=> A # {}
  BY DEF Range
<1> HIDE DEF A
<1>4. Cardinality(A) \in Nat /\ (Cardinality(A) = 0 <=> A = {})
  BY <1>2, FS_CardinalityType, FS_EmptySet
<1> QED
  BY <1>1, <1>3, <1>4

\* Sequences that count every element alike are the same bag.
LEMMA SameCounts ==
  ASSUME NEW T, NEW s \in Seq(T), NEW u \in Seq(T),
         \A x \in T : Weigh(s, Ones(T, {x})) = Weigh(u, Ones(T, {x}))
  PROVE  ToBag(s) = ToBag(u)
<1>1. Range(s) \subseteq T /\ Range(u) \subseteq T
  BY DEF Range
<1>2. Range(s) = Range(u)
  <2>1. ASSUME NEW x \in T PROVE x \in Range(s) <=> x \in Range(u)
    <3>1. /\ x \in Range(s) <=> Weigh(s, Ones(T, {x})) > 0
          /\ x \in Range(u) <=> Weigh(u, Ones(T, {x})) > 0
      BY CountedIsThere
    <3> QED
      BY <3>1
  <2> QED
    BY <1>1, <2>1
<1>3. ASSUME NEW x \in Range(s)
      PROVE  Cardinality({i \in DOMAIN s : s[i] = x})
                = Cardinality({i \in DOMAIN u : u[i] = x})
  <2>1. /\ Cardinality({i \in DOMAIN s : s[i] \in {x}}) = Weigh(s, Ones(T, {x}))
        /\ Cardinality({i \in DOMAIN u : u[i] \in {x}}) = Weigh(u, Ones(T, {x}))
    BY CountWeighs
  <2>2. /\ {i \in DOMAIN s : s[i] \in {x}} = {i \in DOMAIN s : s[i] = x}
        /\ {i \in DOMAIN u : u[i] \in {x}} = {i \in DOMAIN u : u[i] = x}
    OBVIOUS
  <2>3. Weigh(s, Ones(T, {x})) = Weigh(u, Ones(T, {x}))
    BY <1>1, <1>3
  <2> QED
    BY <2>1, <2>2, <2>3
<1> QED
  BY <1>2, <1>3 DEF ToBag

LEMMA FunctionIsSeq ==
  ASSUME NEW U, NEW n \in Nat, NEW f \in [1..n -> U]
  PROVE  f \in Seq(U) /\ Len(f) = n
  OBVIOUS

\* moved has the elements of seqs in the given order.
Reordered(moved, seqs, order, n) ==
    /\ n = Len(seqs) /\ OrderOf(order, n)
    /\ moved = [k \in 1..n |-> seqs[order[k]]]

\* The parts may be flattened in any order: the bag is the same.
LEMMA FlattenShuffled ==
  ASSUME NEW T, NEW seqs \in Seq(Seq(T)), NEW n \in Nat, NEW order, NEW moved,
         Reordered(moved, seqs, order, n)
  PROVE  /\ \A m : Weighs(m, T)
                => Weigh(FlattenSeq(moved), m) = Weigh(FlattenSeq(seqs), m)
         /\ ToBag(FlattenSeq(moved)) = ToBag(FlattenSeq(seqs))
<1> DEFINE U == Seq(T)
<1>1. /\ moved \in Seq(U) /\ Len(moved) = n /\ IsFiniteSet(1..n)
      /\ \A k \in 1..n : seqs[k] \in U
  <2>1. n = Len(seqs) /\ \A k \in 1..n : seqs[k] \in U
    BY DEF Reordered, OrderOf
  <2>2. \A k \in 1..n : order[k] \in 1..n
    BY DEF Reordered, OrderOf
  <2> HIDE DEF U
  <2>3. moved \in [1..n -> U]
    BY <2>1, <2>2 DEF Reordered, OrderOf
  <2>4. moved \in Seq(U) /\ Len(moved) = n
    BY <2>3, FunctionIsSeq
  <2> QED
    BY <2>1, <2>4, IntervalFinite
<1>2. ASSUME NEW m, Weighs(m, T)
      PROVE  Weigh(FlattenSeq(moved), m) = Weigh(FlattenSeq(seqs), m)
  <2> DEFINE f == [k \in 1..n |-> Weigh(seqs[k], m)]
             g == [k \in 1..n |-> Weigh(moved[k], m)]
  <2>0. /\ \A k \in 1..n : f[k] = Weigh(seqs[k], m)
        /\ \A k \in 1..n : g[k] = Weigh(moved[k], m)
        /\ \A k \in 1..n : order[k] \in 1..n /\ moved[k] = seqs[order[k]]
        /\ n = Len(seqs)
    BY DEF Reordered, OrderOf
  <2>2. \A k \in 1..n : f[k] \in Int
    <3>1. ASSUME NEW s \in Seq(T) PROVE Weigh(s, m) \in Int
      <4> DEFINE h == [j \in 1..Len(s) |-> m[s[j]]]
      <4>1. Lists(h, s, m)
        BY DEF Lists
      <4> HIDE DEF h
      <4> QED
        BY <1>2, <4>1, WeighIs
    <3> QED
      BY <1>1, <2>0, <3>1
  <2> HIDE DEF f, g, U
  <2>1. /\ Totals(f, seqs, m) /\ Totals(g, moved, m)
        /\ \A k \in 1..n : g[k] = f[order[k]]
    BY <1>1, <2>0 DEF Totals
  <2>3. Weigh(FlattenSeq(moved), m) = Sum(g, 1..n)
    <3>1. moved \in Seq(Seq(T)) /\ Len(moved) = n
      BY <1>1 DEF U
    <3>2. Weigh(FlattenSeq(moved), m) = Sum(g, 1..Len(moved))
      BY <1>2, <2>1, <3>1, FlattenWeighs
    <3> QED
      BY <3>1, <3>2
  <2>4. Weigh(FlattenSeq(seqs), m) = Sum(f, 1..n)
    BY <1>2, <2>0, <2>1, FlattenWeighs
  <2>5. Sum(g, 1..n) = Sum(f, Image(order, 1..n))
    <3>1. \A x \in 1..n : f[order[x]] \in Int /\ g[x] = f[order[x]]
      BY <2>0, <2>1, <2>2
    <3> DEFINE S == 1..n
    <3>2. /\ IsFiniteSet(S) /\ \A x \in S : f[order[x]] \in Int /\ g[x] = f[order[x]]
          /\ \A x, y \in S : order[x] = order[y] => x = y
      BY <1>1, <3>1 DEF Reordered, OrderOf
    <3> HIDE DEF S
    <3>3. Sum(g, S) = Sum(f, Image(order, S))
      BY <3>2, SumImage
    <3> QED
      BY <3>3 DEF S
  <2>6. Image(order, 1..n) = 1..n
    <3>1. \A y \in 1..n : \E x \in 1..n : order[x] = y
      <4> DEFINE S == 1..n
      <4>1. /\ IsFiniteSet(S) /\ order \in [S -> S]
            /\ \A x, y \in S : order[x] = order[y] => x = y
        BY <1>1 DEF Reordered, OrderOf
      <4> HIDE DEF S
      <4>2. \A y \in S : \E x \in S : order[x] = y
        BY <4>1, OntoItself
      <4> QED
        BY <4>2 DEF S
    <3>2. \A x \in 1..n : order[x] \in 1..n
      BY <2>0
    <3> HIDE DEF U
    <3> QED
      BY <3>1, <3>2 DEF Image
  <2> QED
    BY <2>3, <2>4, <2>5, <2>6
<1>3. FlattenSeq(moved) \in Seq(T) /\ FlattenSeq(seqs) \in Seq(T)
  <2> DEFINE m == Ones(T, {})
             f == [k \in 1..n |-> Weigh(seqs[k], m)]
             g == [k \in 1..n |-> Weigh(moved[k], m)]
  <2>1. Totals(f, seqs, m) /\ Totals(g, moved, m) /\ Weighs(m, T)
    BY <1>1, OnesWeigh DEF Totals, Reordered, OrderOf
  <2> HIDE DEF m, f, g
  <2>2. moved \in Seq(Seq(T))
    BY <1>1
  <2> QED
    BY <2>1, <2>2, FlattenWeighs
<1>4. ToBag(FlattenSeq(moved)) = ToBag(FlattenSeq(seqs))
  <2>1. \A x \in T : Weigh(FlattenSeq(moved), Ones(T, {x}))
                       = Weigh(FlattenSeq(seqs), Ones(T, {x}))
    BY <1>2, OnesWeigh
  <2> QED
    BY <1>3, <2>1, SameCounts
<1> QED
  BY <1>2, <1>4

(***************************************************************************)
(* Products.                                                               *)
(***************************************************************************)
LEMMA ProdPositive ==
  ASSUME NEW S, IsFiniteSet(S), NEW f, \A x \in S : f[x] \in Nat \ {0}
  PROVE  Prod(f, S) \in Nat \ {0}
<1> DEFINE C == {T \in SUBSET S : Prod(f, T) \notin Nat \ {0}}
<1>1. SUFFICES ASSUME C # {} PROVE FALSE
  OBVIOUS
<1>2. PICK T \in C : \A y \in T : T \ {y} \notin C
  <2>1. C \subseteq SUBSET S
    OBVIOUS
  <2> HIDE DEF C
  <2> QED
    BY <1>1, <2>1, SmallestSet
<1>3. T # {}
  BY <1>2, ProdEmpty
<1> DEFINE x == Some(T)  R == T \ {x}
<1>4. x \in T /\ IsFiniteSet(T) /\ f[x] \in Nat \ {0}
  BY <1>2, <1>3, FS_Subset, SomeElement
<1>5. Prod(f, R) \in Nat \ {0}
  BY <1>2, <1>4
<1>6. Prod(f, T) = f[x] * Prod(f, R)
  BY <1>3, <1>4, ProdChosen
<1> HIDE DEF x, R, C
<1>7. Prod(f, T) \in Nat \ {0}
  BY <1>4, <1>5, <1>6, ProductPositive
<1> QED
  BY <1>2, <1>7 DEF C

LEMMA ProdAdd ==
  ASSUME NEW S, IsFiniteSet(S), NEW y, y \notin S, NEW f,
         \A x \in S \cup {y} : f[x] \in Int
  PROVE  Prod(f, S \cup {y}) = f[y] * Prod(f, S)
<1> DEFINE T == S \cup {y}
<1>1. IsFiniteSet(T)
  BY FS_AddElement
<1>2. y \in T /\ T \ {y} = S /\ \A x \in T : f[x] \in Int
  OBVIOUS
<1> HIDE DEF T
<1>3. Prod(f, T) = f[y] * Prod(f, T \ {y})
  BY <1>1, <1>2, ProdRemove
<1> QED
  BY <1>2, <1>3 DEF T

LEMMA ProdNext ==
  ASSUME NEW n \in Nat, NEW f, \A x \in 1..(n + 1) : f[x] \in Int
  PROVE  Prod(f, 1..(n + 1)) = f[n + 1] * Prod(f, 1..n)
<1>1. 1..(n + 1) = (1..n) \cup {n + 1} /\ n + 1 \notin 1..n /\ IsFiniteSet(1..n)
  BY FS_Interval
<1> QED
  BY <1>1, ProdAdd

LEMMA ProdTimes ==
  ASSUME NEW S, IsFiniteSet(S), NEW f, NEW g, NEW h,
         \A x \in S : f[x] \in Int /\ g[x] \in Int /\ h[x] = f[x] * g[x]
  PROVE  Prod(h, S) = Prod(f, S) * Prod(g, S)
<1> DEFINE C == {T \in SUBSET S : Prod(h, T) # Prod(f, T) * Prod(g, T)}
<1>1. SUFFICES ASSUME C # {} PROVE FALSE
  OBVIOUS
<1>2. PICK T \in C : \A y \in T : T \ {y} \notin C
  <2>1. C \subseteq SUBSET S
    OBVIOUS
  <2> HIDE DEF C
  <2> QED
    BY <1>1, <2>1, SmallestSet
<1>3. T # {}
  BY <1>2, ProdEmpty
<1> DEFINE x == Some(T)  R == T \ {x}
<1>4. x \in T /\ x \in S /\ IsFiniteSet(T) /\ IsFiniteSet(R) /\ R \subseteq S
  BY <1>2, <1>3, FS_Subset, SomeElement
<1>5. Prod(h, R) = Prod(f, R) * Prod(g, R)
  BY <1>2, <1>4
<1>6. /\ Prod(h, T) = h[x] * Prod(h, R) /\ Prod(f, T) = f[x] * Prod(f, R)
      /\ Prod(g, T) = g[x] * Prod(g, R)
  BY <1>3, <1>4, ProdChosen
<1>7. Prod(f, R) \in Int /\ Prod(g, R) \in Int
  <2>1. \A y \in R : f[y] \in Int /\ g[y] \in Int
    BY <1>4
  <2> HIDE DEF R
  <2> QED
    BY <1>4, <2>1, ProdType
<1>8. f[x] \in Int /\ g[x] \in Int /\ h[x] = f[x] * g[x]
  BY <1>4
<1>9. \A a, b, u, v \in Int : (a * b) * (u * v) = (a * u) * (b * v)
  OBVIOUS
<1> HIDE DEF x, R, C
<1>10. Prod(h, T) = Prod(f, T) * Prod(g, T)
  BY <1>5, <1>6, <1>7, <1>8, <1>9
<1> QED
  BY <1>2, <1>10 DEF C

LEMMA ProdUnion ==
  ASSUME NEW A, IsFiniteSet(A), NEW B, IsFiniteSet(B), A \cap B = {},
         NEW f, \A x \in A \cup B : f[x] \in Int
  PROVE  Prod(f, A \cup B) = Prod(f, A) * Prod(f, B)
<1> DEFINE C == {T \in SUBSET B : Prod(f, A \cup T) # Prod(f, A) * Prod(f, T)}
<1>1. SUFFICES ASSUME C # {} PROVE FALSE
  OBVIOUS
<1>2. PICK T \in C : \A y \in T : T \ {y} \notin C
  <2>1. C \subseteq SUBSET B
    OBVIOUS
  <2> HIDE DEF C
  <2> QED
    BY <1>1, <2>1, SmallestSet
<1>3. Prod(f, A) \in Int
  BY ProdType
<1>4. T # {}
  <2>1. Prod(f, A \cup {}) = Prod(f, A) * Prod(f, {})
    BY <1>3, ProdEmpty
  <2> QED
    BY <1>2, <2>1
<1> DEFINE x == Some(T)  R == T \ {x}
<1>5. x \in T /\ x \in B /\ x \notin A /\ T \subseteq B
  BY <1>2, <1>4, SomeElement
<1>6. Prod(f, A \cup R) = Prod(f, A) * Prod(f, R)
  BY <1>2, <1>5
<1>7. IsFiniteSet(R) /\ IsFiniteSet(A \cup R)
  BY <1>5, FS_Subset, FS_Union
<1>8. /\ A \cup T = (A \cup R) \cup {x} /\ x \notin A \cup R
      /\ T = R \cup {x} /\ x \notin R
      /\ \A y \in (A \cup R) \cup {x} : f[y] \in Int
      /\ \A y \in R \cup {x} : f[y] \in Int
  BY <1>5
<1> HIDE DEF R, C, x
<1>9. Prod(f, (A \cup R) \cup {x}) = f[x] * Prod(f, A \cup R)
  BY <1>7, <1>8, ProdAdd
<1>10. Prod(f, R \cup {x}) = f[x] * Prod(f, R)
  BY <1>7, <1>8, ProdAdd
<1>11. Prod(f, R) \in Int /\ f[x] \in Int
  BY <1>7, <1>8, ProdType
<1>12. \A a, u, v \in Int : a * (u * v) = u * (a * v)
  OBVIOUS
<1>13. Prod(f, A \cup T) = Prod(f, A) * Prod(f, T)
  <2>1. Prod(f, A \cup T) = f[x] * (Prod(f, A) * Prod(f, R))
    BY <1>6, <1>8, <1>9
  <2>2. Prod(f, T) = f[x] * Prod(f, R)
    BY <1>8, <1>10
  <2> QED
    BY <1>3, <1>11, <1>12, <2>1, <2>2
<1> QED
  BY <1>2, <1>13 DEF C

(***************************************************************************)
(* Powers, as products of equal factors.                                   *)
(***************************************************************************)
Raised(b, n) == Prod([k \in 1..n |-> b], 1..n)

LEMMA RaisedNext ==
  ASSUME NEW b \in Int
  PROVE  Raised(b, 0) = 1 /\ \A n \in Nat : Raised(b, n + 1) = b * Raised(b, n)
<1>1. Raised(b, 0) = 1
  BY 1..0 = {}, ProdEmpty DEF Raised
<1>2. ASSUME NEW n \in Nat PROVE Raised(b, n + 1) = b * Raised(b, n)
  <2> DEFINE f == [k \in 1..(n + 1) |-> b]
             g == [k \in 1..n |-> b]
  <2>1. /\ \A k \in 1..(n + 1) : f[k] \in Int /\ f[n + 1] = b
        /\ \A k \in 1..n : f[k] = g[k]
    OBVIOUS
  <2>2. Prod(f, 1..(n + 1)) = Raised(b, n + 1) /\ Prod(g, 1..n) = Raised(b, n)
    BY DEF Raised
  <2> HIDE DEF f, g
  <2>3. Prod(f, 1..(n + 1)) = f[n + 1] * Prod(f, 1..n)
    BY <2>1, ProdNext
  <2>4. Prod(f, 1..n) = Prod(g, 1..n)
    BY <2>1, IntervalFinite, ProdSame
  <2>5. f[n + 1] = b
    BY <2>1
  <2> QED
    BY <2>2, <2>3, <2>4, <2>5
<1> QED
  BY <1>1, <1>2

LEMMA RaisedNat ==
  ASSUME NEW b \in Nat
  PROVE  \A n \in Nat : Raised(b, n) \in Nat /\ (b # 0 => Raised(b, n) # 0)
<1> DEFINE T == {n \in Nat : Raised(b, n) \in Nat /\ (b # 0 => Raised(b, n) # 0)}
<1>1. 0 \in T
  BY RaisedNext
<1>2. ASSUME NEW n \in T PROVE n + 1 \in T
  <2>1. Raised(b, n + 1) = b * Raised(b, n) /\ Raised(b, n) \in Nat
    BY RaisedNext
  <2>2. Raised(b, n + 1) \in Nat
    BY <2>1, ProductNat
  <2>3. CASE b # 0
    <3>1. Raised(b, n + 1) \in Nat \ {0}
      BY <2>1, <2>3, ProductPositive
    <3> QED
      BY <3>1
  <2> QED
    BY <2>2, <2>3
<1> HIDE DEF T
<1>3. T = Nat
  BY <1>1, <1>2, SetInduction DEF T
<1> QED
  BY <1>3 DEF T

LEMMA RaisedTimes ==
  ASSUME NEW a \in Nat, NEW b \in Nat
  PROVE  \A n \in Nat : Raised(a * b, n) = Raised(a, n) * Raised(b, n)
<1> DEFINE T == {n \in Nat : Raised(a * b, n) = Raised(a, n) * Raised(b, n)}
<1>1. a * b \in Nat
  BY ProductNat
<1>2. 0 \in T
  BY <1>1, RaisedNext
<1>3. ASSUME NEW n \in T PROVE n + 1 \in T
  <2>1. /\ Raised(a, n + 1) = a * Raised(a, n) /\ Raised(b, n + 1) = b * Raised(b, n)
        /\ Raised(a * b, n + 1) = (a * b) * Raised(a * b, n)
    BY <1>1, RaisedNext
  <2>2. Raised(a, n) \in Nat /\ Raised(b, n) \in Nat
    BY RaisedNat
  <2>3. \A u, v \in Nat : (a * b) * (u * v) = (a * u) * (b * v)
    OBVIOUS
  <2>4. Raised(a * b, n) = Raised(a, n) * Raised(b, n)
    BY <1>3
  <2> QED
    BY <2>1, <2>2, <2>3, <2>4
<1> HIDE DEF T
<1>4. T = Nat
  BY <1>2, <1>3, SetInduction DEF T
<1> QED
  BY <1>4 DEF T

\* The product of a constant is a power of it.
LEMMA ProdConstant ==
  ASSUME NEW S, IsFiniteSet(S), NEW b \in Int, NEW f, \A x \in S : f[x] = b
  PROVE  Prod(f, S) = Raised(b, Cardinality(S))
<1> DEFINE C == {T \in SUBSET S : Prod(f, T) # Raised(b, Cardinality(T))}
<1>1. SUFFICES ASSUME C # {} PROVE FALSE
  OBVIOUS
<1>2. PICK T \in C : \A y \in T : T \ {y} \notin C
  <2>1. C \subseteq SUBSET S
    OBVIOUS
  <2> HIDE DEF C
  <2> QED
    BY <1>1, <2>1, SmallestSet
<1>3. T # {}
  BY <1>2, ProdEmpty, RaisedNext, FS_EmptySet
<1> DEFINE x == Some(T)  R == T \ {x}
<1>4. x \in T /\ x \in S /\ IsFiniteSet(T) /\ Cardinality(T) \in Nat
  BY <1>2, <1>3, FS_Subset, SomeElement, FS_CardinalityType
<1>5. Prod(f, R) = Raised(b, Cardinality(R))
  BY <1>2, <1>4
<1>6. Cardinality(R) = Cardinality(T) - 1 /\ Cardinality(R) \in Nat
  BY <1>4, FS_RemoveElement, FS_CardinalityType
<1>7. Prod(f, T) = b * Prod(f, R)
  BY <1>3, <1>4, ProdChosen
<1> HIDE DEF R
<1>8. Raised(b, Cardinality(R) + 1) = b * Raised(b, Cardinality(R))
  BY <1>6, RaisedNext
<1>9. Cardinality(R) + 1 = Cardinality(T)
  BY <1>4, <1>6
<1> QED
  BY <1>2, <1>5, <1>7, <1>8, <1>9

\* A larger base has a larger power.
LEMMA RaisedAtMost ==
  ASSUME NEW a \in Nat, NEW b \in Nat, a <= b
  PROVE  \A n \in Nat : Raised(a, n) <= Raised(b, n)
<1> DEFINE T == {n \in Nat : Raised(a, n) <= Raised(b, n)}
<1>1. 0 \in T
  BY RaisedNext
<1>2. ASSUME NEW n \in T PROVE n + 1 \in T
  <2>1. Raised(a, n + 1) = a * Raised(a, n) /\ Raised(b, n + 1) = b * Raised(b, n)
    BY RaisedNext
  <2>2. Raised(a, n) \in Nat /\ Raised(b, n) \in Nat /\ Raised(a, n) <= Raised(b, n)
    BY <1>2, RaisedNat
  <2>3. \A u, v \in Nat : u <= v => a * u <= b * v
    <3> SUFFICES ASSUME NEW u \in Nat, NEW v \in Nat, u <= v PROVE a * u <= b * v
      OBVIOUS
    <3>1. PICK c \in Nat, d \in Nat : b = a + c /\ v = u + d
      <4>1. b - a \in Nat /\ v - u \in Nat /\ b = a + (b - a) /\ v = u + (v - u)
        OBVIOUS
      <4> QED
        BY <4>1
    <3>2. b * v = a * u + a * d + c * u + c * d
      BY <3>1
    <3>3. a * d \in Nat /\ c * u \in Nat /\ c * d \in Nat /\ a * u \in Nat
      BY ProductNat
    <3> QED
      BY <3>2, <3>3
  <2>4. a * Raised(a, n) <= b * Raised(b, n)
    BY <2>2, <2>3
  <2> QED
    BY <2>1, <2>4
<1> HIDE DEF T
<1>3. T = Nat
  BY <1>1, <1>2, SetInduction DEF T
<1> QED
  BY <1>3 DEF T

\* Of n + 1 factors, n of them q and one p, the mean of the powers is no
\* less than the product: p^(n+1) + n q^(n+1) >= (n+1) p q^n.
LEMMA OneFactorDiffers ==
  ASSUME NEW p \in Nat, NEW q \in Nat
  PROVE  \A n \in Nat :
           (n + 1) * (p * Raised(q, n)) <= Raised(p, n + 1) + n * Raised(q, n + 1)
<1> DEFINE Claim(n) ==
             (n + 1) * (p * Raised(q, n)) <= Raised(p, n + 1) + n * Raised(q, n + 1)
           T == {n \in Nat : Claim(n)}
<1>1. 0 \in T
  <2>1. Raised(q, 0) = 1 /\ Raised(p, 0 + 1) = p * 1 /\ Raised(q, 0 + 1) \in Nat
    BY RaisedNext, RaisedNat
  <2> QED
    BY <2>1
<1>2. ASSUME NEW n \in T PROVE n + 1 \in T
  <2> DEFINE P == Raised(p, n + 1)  Q == Raised(q, n)  k == n + 1
  <2>1. P \in Nat /\ Q \in Nat /\ k \in Nat
    BY RaisedNat
  <2>2. /\ Raised(q, n + 1) = q * Q
        /\ Raised(p, k + 1) = p * P
        /\ Raised(q, k + 1) = q * (q * Q)
    BY RaisedNext
  <2>3. k * (p * Q) <= P + n * (q * Q)
    BY <1>2, <2>2
  <2> HIDE DEF P, Q
  <2>4. (k + 1) * (p * (q * Q)) <= p * P + k * (q * (q * Q))
    <3> DEFINE rest == P + n * (q * Q) - k * (p * Q)
    <3>1. rest \in Nat
      BY <2>1, <2>3
    <3>2. p * rest \in Nat
      BY <3>1, ProductNat
    <3>3. (p - q) * (p - q) \in Nat
      BY SquareNat
    <3>4. k * Q \in Nat
      BY <2>1, ProductNat
    <3>5. (k * Q) * ((p - q) * (p - q)) \in Nat
      BY <3>3, <3>4, ProductNat
    <3>6. p * P + k * (q * (q * Q)) - (k + 1) * (p * (q * Q))
            = p * rest + (k * Q) * ((p - q) * (p - q))
      <4>1. p * rest = p * P + n * (p * (q * Q)) - k * (p * (p * Q))
        BY <2>1
      <4>2. (k * Q) * ((p - q) * (p - q))
              = k * (p * (p * Q)) - 2 * (k * (p * (q * Q))) + k * (q * (q * Q))
        BY <2>1
      <4> DEFINE X == p * (q * Q)  Y == p * (p * Q)  Z == q * (q * Q)
      <4>3. X \in Int /\ Y \in Int /\ Z \in Int /\ p * P \in Int
        BY <2>1
      <4> HIDE DEF X, Y, Z
      <4>4. \A u \in Int :
              u + k * Z - (k + 1) * X = (u + n * X - k * Y) + (k * Y - 2 * (k * X) + k * Z)
        BY <4>3
      <4> QED
        BY <4>1, <4>2, <4>3, <4>4 DEF X, Y, Z
    <3> HIDE DEF rest
    <3>7. p * P \in Int /\ k * (q * (q * Q)) \in Int /\ (k + 1) * (p * (q * Q)) \in Int
      BY <2>1
    <3> QED
      BY <3>2, <3>5, <3>6, <3>7
  <2> QED
    BY <2>1, <2>2, <2>4 DEF Q
<1> HIDE DEF T
<1>3. T = Nat
  BY <1>1, <1>2, SetInduction DEF T
<1> QED
  BY <1>3 DEF T

LEMMA RaisedAboveOne == \A n \in Nat \ {0} : Raised(1, n) < Raised(2, n)
<1> SUFFICES ASSUME NEW n \in Nat \ {0} PROVE Raised(1, n) < Raised(2, n)
  OBVIOUS
<1>1. PICK m \in Nat : n = m + 1
  <2>1. n - 1 \in Nat /\ n = (n - 1) + 1
    OBVIOUS
  <2> QED
    BY <2>1
<1>2. Raised(1, m + 1) = 1 * Raised(1, m) /\ Raised(2, m + 1) = 2 * Raised(2, m)
  BY RaisedNext
<1>3. /\ Raised(1, m) \in Nat /\ Raised(2, m) \in Nat /\ Raised(2, m) # 0
      /\ Raised(1, m) <= Raised(2, m)
  <2>1. 1 \in Nat /\ 2 \in Nat /\ 1 <= 2 /\ 2 # 0
    OBVIOUS
  <2> QED
    BY <2>1, RaisedNat, RaisedAtMost
<1> QED
  BY <1>1, <1>2, <1>3

LEMMA CancelFactor ==
  ASSUME NEW c \in Nat \ {0}, NEW x \in Int, NEW y \in Int, c * x <= c * y
  PROVE  x <= y
<1> SUFFICES ASSUME y < x PROVE FALSE
  OBVIOUS
<1>1. x - y \in Nat \ {0} /\ c * x - c * y = c * (x - y)
  OBVIOUS
<1>2. c * (x - y) \in Nat \ {0}
  BY <1>1, ProductPositive
<1>3. c * x \in Int /\ c * y \in Int
  OBVIOUS
<1> QED
  BY <1>1, <1>2, <1>3

LEMMA KeepFactor ==
  ASSUME NEW c \in Nat, NEW x \in Int, NEW y \in Int, x <= y
  PROVE  c * x <= c * y
<1>1. y - x \in Nat /\ c * y - c * x = c * (y - x) /\ c * x \in Int /\ c * y \in Int
  OBVIOUS
<1>2. c * (y - x) \in Nat
  BY <1>1, ProductNat
<1> QED
  BY <1>1, <1>2

\* One number more: from the mean of n numbers with sum s to that of n + 1.
LEMMA MeanGrows ==
  ASSUME NEW n \in Nat \ {0}, NEW s \in Nat, NEW a \in Nat, NEW P \in Nat,
         Raised(n, n) * P <= Raised(s, n)
  PROVE  Raised(n + 1, n + 1) * (a * P) <= Raised(s + a, n + 1)
<1> DEFINE U == Raised(n, n)  V == Raised(n + 1, n)
           X == Raised(s, n)  Y == Raised(s + a, n + 1)
           p == (s + a) * n  q == (n + 1) * s
<1>1. /\ U \in Nat \ {0} /\ V \in Nat /\ X \in Nat /\ Y \in Nat
      /\ p \in Nat /\ q \in Nat
  <2>1. n + 1 \in Nat /\ s + a \in Nat /\ n \in Nat /\ n # 0
    OBVIOUS
  <2>2. U \in Nat /\ U # 0 /\ V \in Nat /\ X \in Nat /\ Y \in Nat
    BY <2>1, RaisedNat
  <2>3. p \in Nat /\ q \in Nat
    BY <2>1, ProductNat
  <2> QED
    BY <2>2, <2>3
<1>2. /\ Raised(n + 1, n + 1) = (n + 1) * V
      /\ Raised(n, n + 1) = n * U
      /\ Raised(q, n + 1) = q * Raised(q, n)
  BY <1>1, RaisedNext
<1>3. Raised(p, n + 1) = Y * (n * U) /\ Raised(q, n) = V * X
  <2>1. n + 1 \in Nat /\ s + a \in Nat /\ n \in Nat
    OBVIOUS
  <2>2. Raised((s + a) * n, n + 1) = Raised(s + a, n + 1) * Raised(n, n + 1)
    BY <2>1, RaisedTimes
  <2>3. Raised((n + 1) * s, n) = Raised(n + 1, n) * Raised(s, n)
    BY <2>1, RaisedTimes
  <2> QED
    BY <1>2, <2>2, <2>3
<1>4. (n + 1) * (p * Raised(q, n)) <= Raised(p, n + 1) + n * Raised(q, n + 1)
  <2> HIDE DEF p, q
  <2> QED
    BY <1>1, OneFactorDiffers
<1>5. (n + 1) * (p * (V * X)) <= Y * (n * U) + n * (q * (V * X))
  <2> HIDE DEF p, q, U, V, X, Y
  <2> QED
    BY <1>2, <1>3, <1>4
<1> DEFINE W == V * X
<1>6. W \in Nat /\ Y * U \in Nat
  BY <1>1, ProductNat
<1> HIDE DEF U, V, X, Y, W
<1>7. n * ((n + 1) * (a * W)) <= n * (Y * U)
  <2>1. (n + 1) * (p * W) = n * ((n + 1) * (s * W)) + n * ((n + 1) * (a * W))
    BY <1>6
  <2>2. n * (q * W) = n * ((n + 1) * (s * W))
    BY <1>6
  <2>3. Y * (n * U) = n * (Y * U)
    BY <1>1
  <2>4. n * ((n + 1) * (s * W)) \in Int /\ n * ((n + 1) * (a * W)) \in Int /\ n * (Y * U) \in Int
    BY <1>6
  <2> QED
    BY <1>5, <2>1, <2>2, <2>3, <2>4 DEF W
<1>8. (n + 1) * (a * W) <= Y * U
  <2>1. (n + 1) * (a * W) \in Int
    BY <1>6
  <2> QED
    BY <1>6, <1>7, <2>1, CancelFactor
<1>9. U * ((n + 1) * (V * (a * P))) <= (n + 1) * (a * W)
  <2> DEFINE c == (n + 1) * (a * V)
  <2>1. c \in Nat /\ U * P \in Int /\ X \in Int
    BY <1>1, ProductNat
  <2>2. U * P <= X
    BY DEF U, X
  <2>3. c * (U * P) <= c * X
    <3> HIDE DEF c
    <3> QED
      BY <2>1, <2>2, KeepFactor
  <2>4. c * X = (n + 1) * (a * W)
    BY <1>1 DEF W
  <2>5. c * (U * P) = U * ((n + 1) * (V * (a * P)))
    BY <1>1
  <2> QED
    BY <2>3, <2>4, <2>5
<1>10. U * ((n + 1) * (V * (a * P))) <= U * Y
  <2>1. /\ U * ((n + 1) * (V * (a * P))) \in Int
        /\ (n + 1) * (a * W) \in Int /\ U * Y \in Int /\ U * Y = Y * U
    BY <1>1, <1>6
  <2> QED
    BY <1>8, <1>9, <2>1
<1>11. (n + 1) * (V * (a * P)) <= Y
  <2>1. (n + 1) * (V * (a * P)) \in Int
    BY <1>1
  <2> QED
    BY <1>1, <1>10, <2>1, CancelFactor
<1>12. ((n + 1) * V) * (a * P) = (n + 1) * (V * (a * P))
  BY <1>1
<1> QED
  BY <1>2, <1>11, <1>12 DEF V, Y

\* The inequality of arithmetic and geometric means, in whole numbers: n^n
\* times the product of n positive numbers is at most their sum to the n.
LEMMA MeansOrdered ==
  \A n \in Nat : \A f :
     (\A k \in 1..n : f[k] \in Nat \ {0})
       => Raised(n, n) * Prod(f, 1..n) <= Raised(Sum(f, 1..n), n)
<1> DEFINE Positive(f, n) == \A k \in 1..n : f[k] \in Nat \ {0}
           Claim(n) == \A f : Positive(f, n)
                         => Raised(n, n) * Prod(f, 1..n) <= Raised(Sum(f, 1..n), n)
           T == {n \in Nat : Claim(n)}
<1>1. 0 \in T
  <2>1. 1..0 = {}
    OBVIOUS
  <2> QED
    BY <2>1, ProdEmpty, SumEmpty, RaisedNext
<1>2. ASSUME NEW n \in T PROVE n + 1 \in T
  <2> SUFFICES ASSUME NEW f, Positive(f, n + 1)
               PROVE  Raised(n + 1, n + 1) * Prod(f, 1..(n + 1))
                        <= Raised(Sum(f, 1..(n + 1)), n + 1)
    OBVIOUS
  <2> DEFINE P == Prod(f, 1..n)  s == Sum(f, 1..n)  a == f[n + 1]
  <2>1. /\ IsFiniteSet(1..n) /\ a \in Nat \ {0}
        /\ \A k \in 1..n : f[k] \in Nat \ {0}
        /\ \A k \in 1..(n + 1) : f[k] \in Int
    BY IntervalFinite
  <2>2. P \in Nat \ {0} /\ s \in Nat
    <3>1. P \in Nat \ {0}
      BY <2>1, ProdPositive
    <3>2. s \in Int
      BY <2>1, SumType
    <3> DEFINE z == [k \in 1..n |-> 0]
    <3>3. Sum(z, 1..n) = 0 * Cardinality(1..n) /\ Cardinality(1..n) \in Nat
      BY <2>1, SumConstant, FS_CardinalityType
    <3>4. \A k \in 1..n : z[k] \in Int /\ f[k] \in Int /\ z[k] <= f[k]
      BY <2>1
    <3> HIDE DEF z
    <3>5. Sum(z, 1..n) <= s
      BY <2>1, <3>4, SumAtMost
    <3> QED
      BY <3>1, <3>2, <3>3, <3>5
  <2>3. Prod(f, 1..(n + 1)) = a * P /\ Sum(f, 1..(n + 1)) = a + s
    BY <2>1, ProdNext, SumNext
  <2>4. Raised(n, n) * P <= Raised(s, n)
    BY <1>2, <2>1
  <2> HIDE DEF P, s, a
  <2>5. CASE n # 0
    <3>1. n \in Nat \ {0} /\ a \in Nat /\ P \in Nat
      BY <2>1, <2>2, <2>5
    <3>2. Raised(n + 1, n + 1) * (a * P) <= Raised(s + a, n + 1)
      BY <2>2, <2>4, <3>1, MeanGrows
    <3>3. s + a = a + s
      BY <2>1, <2>2
    <3> QED
      BY <2>3, <3>2, <3>3
  <2>6. CASE n = 0
    <3>1. 1..0 = {}
      OBVIOUS
    <3>2. P = 1 /\ s = 0
      BY <2>6, <3>1, ProdEmpty, SumEmpty DEF P, s
    <3>3. Raised(0 + 1, 0 + 1) = 1 * 1 /\ Raised(a, 0 + 1) = a * 1
      BY <2>1, RaisedNext
    <3> QED
      BY <2>1, <2>3, <2>6, <3>2, <3>3
  <2> QED
    BY <2>5, <2>6
<1> HIDE DEF T
<1>3. T = Nat
  BY <1>1, <1>2, SetInduction DEF T
<1> QED
  BY <1>3 DEF T

\* If two of the numbers differ the inequality is strict: doubling all numbers
\* and levelling those two keeps the sum and raises the product.
LEMMA MeansDiffer ==
  ASSUME NEW n \in Nat, NEW f, \A k \in 1..n : f[k] \in Nat \ {0},
         NEW i \in 1..n, NEW j \in 1..n, f[i] # f[j]
  PROVE  Raised(n, n) * Prod(f, 1..n) < Raised(Sum(f, 1..n), n)
<1> DEFINE S == 1..n  A == S \ {i}  R == A \ {j}  b == f[i] + f[j]
           d == [k \in S |-> 2 * f[k]]
           e == [k \in S |-> IF k \in {i, j} THEN b ELSE 2 * f[k]]
           two == [k \in S |-> 2]
<1>1. /\ IsFiniteSet(S) /\ IsFiniteSet(A) /\ IsFiniteSet(R)
      /\ i \in S /\ j \in A /\ f[i] \in Nat \ {0} /\ f[j] \in Nat \ {0}
      /\ Cardinality(S) = n
  BY IntervalFinite, IntervalSize, FS_RemoveElement
<1>2. /\ \A k \in S : f[k] \in Int /\ two[k] = 2 /\ d[k] = f[k] * two[k] /\ d[k] = 2 * f[k]
      /\ \A k \in S : d[k] \in Nat \ {0} /\ e[k] \in Nat \ {0}
      /\ \A k \in R : e[k] = d[k]
      /\ d[i] = 2 * f[i] /\ d[j] = 2 * f[j] /\ e[i] = b /\ e[j] = b
      /\ R \subseteq S /\ A \subseteq S
  <2>1. b \in Nat \ {0}
    BY <1>1
  <2>2. \A k \in S : f[k] \in Nat \ {0} /\ 2 * f[k] \in Nat \ {0}
    OBVIOUS
  <2> HIDE DEF b
  <2>3. \A k \in S : f[k] \in Int /\ two[k] = 2 /\ d[k] = f[k] * two[k] /\ d[k] = 2 * f[k]
    BY <2>2
  <2>4. \A k \in S : d[k] \in Nat \ {0} /\ e[k] \in Nat \ {0}
    BY <2>1, <2>2
  <2>5. \A k \in R : e[k] = d[k]
    OBVIOUS
  <2> QED
    BY <2>3, <2>4, <2>5
<1> HIDE DEF d, e, two, b
<1>3. Sum(e, S) = Sum(d, S)
  <2>1. /\ \A k \in S : d[k] \in Int /\ e[k] \in Int
        /\ \A k \in A : d[k] \in Int /\ e[k] \in Int
        /\ \A k \in R : d[k] \in Int /\ e[k] \in Int
    BY <1>2
  <2> HIDE DEF S, A, R
  <2>2. Sum(e, S) = e[i] + Sum(e, A) /\ Sum(d, S) = d[i] + Sum(d, A)
    BY <1>1, <2>1, SumRemove DEF A
  <2>3. Sum(e, A) = e[j] + Sum(e, R) /\ Sum(d, A) = d[j] + Sum(d, R)
    BY <1>1, <2>1, SumRemove DEF R
  <2>4. Sum(e, R) = Sum(d, R) /\ Sum(d, R) \in Int
    <3>1. Sum(e, R) = Sum(d, R)
      <4>1. IsFiniteSet(R) /\ \A k \in R : e[k] = d[k]
        BY <1>1, <1>2
      <4> QED
        BY <4>1, SumSame
    <3> QED
      BY <1>1, <2>1, <3>1, SumType
  <2> QED
    BY <1>1, <1>2, <2>2, <2>3, <2>4 DEF b
<1>4. Prod(d, S) < Prod(e, S) /\ Prod(d, S) \in Nat /\ Prod(e, S) \in Nat
  <2>1. /\ \A k \in S : d[k] \in Int /\ e[k] \in Int
        /\ \A k \in A : d[k] \in Int /\ e[k] \in Int
        /\ \A k \in R : d[k] \in Nat \ {0}
    BY <1>2
  <2> HIDE DEF S, A, R
  <2>2. Prod(e, S) = e[i] * Prod(e, A) /\ Prod(d, S) = d[i] * Prod(d, A)
    BY <1>1, <2>1, ProdRemove DEF A
  <2>3. Prod(e, A) = e[j] * Prod(e, R) /\ Prod(d, A) = d[j] * Prod(d, R)
    BY <1>1, <2>1, ProdRemove DEF R
  <2> DEFINE P == Prod(d, R)  x == f[i]  y == f[j]
  <2>4. Prod(e, R) = P /\ P \in Nat \ {0}
    <3>1. Prod(e, R) = P
      <4>1. IsFiniteSet(R) /\ \A k \in R : e[k] = d[k]
        BY <1>1, <1>2
      <4> QED
        BY <4>1, ProdSame
    <3> QED
      BY <1>1, <2>1, <3>1, ProdPositive
  <2>5. Prod(e, S) = (x + y) * ((x + y) * P) /\ Prod(d, S) = (2 * x) * ((2 * y) * P)
    BY <1>2, <2>2, <2>3, <2>4 DEF b
  <2>6. /\ x \in Nat /\ y \in Nat /\ x # y
        /\ Prod(e, S) \in Nat /\ Prod(d, S) \in Nat
    BY <1>1, <1>2, ProdPositive
  <2> HIDE DEF P, x, y
  <2>7. (x + y) * ((x + y) * P) - (2 * x) * ((2 * y) * P) = ((x - y) * (x - y)) * P
    BY <2>4, <2>6
  <2>8. ((x - y) * (x - y)) \in Nat \ {0}
    <3>1. x - y \in Int /\ x - y # 0
      BY <2>6
    <3>2. \A z \in Int : z # 0 => z * z \in Nat \ {0}
      OBVIOUS
    <3> QED
      BY <3>1, <3>2
  <2>9. ((x - y) * (x - y)) * P \in Nat \ {0}
    BY <2>4, <2>8, ProductPositive
  <2> QED
    BY <2>5, <2>6, <2>7, <2>9
<1> DEFINE N == Raised(n, n)  P == Prod(f, S)  s == Sum(f, S)  Q == Raised(s, n)
           W == Raised(2, n)
<1>5. /\ N \in Nat \ {0} /\ W \in Nat \ {0} /\ P \in Nat \ {0} /\ s \in Nat /\ Q \in Nat
  <2>1. N \in Nat \ {0} /\ W \in Nat \ {0}
    <3>1. n \in Nat /\ 2 \in Nat /\ n # 0 /\ 2 # 0
      OBVIOUS
    <3> QED
      BY <3>1, RaisedNat
  <2>2. P \in Nat \ {0}
    BY <1>1, ProdPositive
  <2>3. s \in Nat
    <3> DEFINE z == [k \in S |-> 0]
    <3>1. Sum(z, S) = 0 * Cardinality(S)
      BY <1>1, SumConstant
    <3>2. \A k \in S : z[k] \in Int /\ f[k] \in Int /\ z[k] <= f[k]
      OBVIOUS
    <3> HIDE DEF z
    <3>3. Sum(z, S) <= s
      BY <1>1, <3>2, SumAtMost
    <3>4. s \in Int
      BY <1>1, <1>2, SumType
    <3> QED
      BY <1>1, <3>1, <3>3, <3>4
  <2> QED
    BY <2>1, <2>2, <2>3, RaisedNat
<1>6. Prod(d, S) = P * W
  <2>1. \A k \in S : f[k] \in Int /\ two[k] \in Int /\ d[k] = f[k] * two[k]
    BY <1>2
  <2>2. Prod(d, S) = Prod(f, S) * Prod(two, S)
    BY <1>1, <2>1, ProdTimes
  <2>3. Prod(two, S) = Raised(2, Cardinality(S))
    <3>1. IsFiniteSet(S) /\ 2 \in Int /\ \A k \in S : two[k] = 2
      BY <1>1, <1>2
    <3> HIDE DEF S
    <3> QED
      BY <3>1, ProdConstant
  <2> QED
    BY <1>1, <2>2, <2>3
<1>7. Raised(Sum(e, S), n) = W * Q
  <2>1. Sum(d, S) = 2 * s
    BY <1>1, <1>2, SumScaled
  <2>2. Raised(2 * s, n) = W * Q
    BY <1>5, RaisedTimes
  <2> QED
    BY <1>3, <2>1, <2>2
<1>8. N * Prod(e, S) <= Raised(Sum(e, S), n)
  BY <1>2, MeansOrdered
<1> DEFINE D == Prod(d, S)  E == Prod(e, S)
<1>9. N * D < N * E
  <2>1. E - D \in Nat \ {0} /\ N * (E - D) \in Nat \ {0}
    <3>1. E - D \in Nat \ {0}
      BY <1>4
    <3> HIDE DEF D, E, N
    <3> QED
      BY <1>5, <3>1, ProductPositive
  <2> HIDE DEF D, E, N
  <2>2. D \in Int /\ E \in Int
    BY <1>4 DEF D, E
  <2>3. N * (E - D) = N * E - N * D /\ N * E \in Int /\ N * D \in Int
    BY <1>5, <2>2
  <2> QED
    BY <2>1, <2>3
<1> HIDE DEF N, P, Q, W, s, D, E
<1>10. W * (N * P) < W * Q
  <2>1. N * D = W * (N * P) /\ N * E <= W * Q
    BY <1>5, <1>6, <1>7, <1>8 DEF D, E
  <2>2. /\ N * D \in Int /\ N * E \in Int /\ W * Q \in Int
    BY <1>4, <1>5 DEF D, E
  <2> QED
    BY <1>9, <2>1, <2>2
<1>11. ~ (Q <= N * P)
  <2>1. N * P \in Int /\ Q \in Int /\ W \in Nat
    BY <1>5
  <2>2. W * (N * P) \in Int /\ W * Q \in Int
    BY <1>5
  <2> QED
    BY <1>10, <2>1, <2>2, KeepFactor
<1>12. N * P \in Int /\ Q \in Int
  BY <1>5
<1> QED
  BY <1>11, <1>12 DEF N, P, Q, s

\* If none differ it is an equality.
LEMMA MeansEqual ==
  ASSUME NEW n \in Nat, NEW c \in Nat, NEW f, \A k \in 1..n : f[k] = c
  PROVE  Raised(n, n) * Prod(f, 1..n) = Raised(Sum(f, 1..n), n)
<1>1. IsFiniteSet(1..n) /\ Cardinality(1..n) = n
  BY IntervalFinite, IntervalSize
<1>2. Prod(f, 1..n) = Raised(c, n)
  BY <1>1, ProdConstant
<1>3. Sum(f, 1..n) = c * n
  BY <1>1, SumConstant
<1>4. Raised(n * c, n) = Raised(n, n) * Raised(c, n) /\ n * c = c * n
  BY RaisedTimes
<1> QED
  BY <1>2, <1>3, <1>4

\* Some number is a multiple of every positive number up to n.
CommonMultiple(L, n) == \A c \in 1..n : \E a \in Nat \ {0} : a * c = L
LEMMA CommonMultipleExists == \A n \in Nat : \E L \in Nat \ {0} : CommonMultiple(L, n)
<1> DEFINE T == {n \in Nat : \E L \in Nat \ {0} : CommonMultiple(L, n)}
<1>1. 0 \in T
  BY 1..0 = {} DEF CommonMultiple
<1>2. ASSUME NEW n \in T PROVE n + 1 \in T
  <2>1. PICK L \in Nat \ {0} : CommonMultiple(L, n)
    BY <1>2
  <2>2. L * (n + 1) \in Nat \ {0}
    BY ProductPositive
  <2>3. ASSUME NEW c \in 1..(n + 1)
        PROVE  \E a \in Nat \ {0} : a * c = L * (n + 1)
    <3>1. CASE c = n + 1
      BY <3>1
    <3>2. CASE c # n + 1
      <4>1. c \in 1..n
        BY <3>2
      <4>2. PICK a \in Nat \ {0} : a * c = L
        BY <2>1, <4>1 DEF CommonMultiple
      <4>3. a * (n + 1) \in Nat \ {0}
        BY ProductPositive
      <4>4. (a * (n + 1)) * c = (a * c) * (n + 1)
        BY <4>1
      <4> QED
        BY <4>2, <4>3, <4>4
    <3> QED
      BY <3>1, <3>2
  <2>4. CommonMultiple(L * (n + 1), n + 1)
    BY <2>3 DEF CommonMultiple
  <2> QED
    BY <2>2, <2>4
<1> HIDE DEF T
<1>3. T = Nat
  BY <1>1, <1>2, SetInduction DEF T
<1> QED
  BY <1>3 DEF T

(***************************************************************************)
(* Sums and products over the places of a sequence, grouped by what is at  *)
(* them.  Every x is at count[x] places; f has the count of what is at a   *)
(* place, g that count's share of L.                                       *)
(***************************************************************************)
Places(s, D) == {i \in 1..Len(s) : s[i] \in D}
Counted(s, count, D) ==
    \A x \in D : count[x] \in Nat \ {0} /\ count[x] = Cardinality(Places(s, {x}))
Shares(s, count, L, f, g) ==
    \A i \in 1..Len(s) : /\ f[i] = count[s[i]] /\ g[i] \in Nat \ {0}
                         /\ g[i] * f[i] = L

\* The places of one x: their shares make up L.
LEMMA SharesOfOne ==
  ASSUME NEW s, NEW count, NEW D, Counted(s, count, D), Len(s) \in Nat,
         NEW L \in Nat \ {0}, NEW f, NEW g, Shares(s, count, L, f, g), NEW x \in D
  PROVE  /\ Sum(g, Places(s, {x})) = L
         /\ Prod(f, Places(s, {x})) = Raised(count[x], count[x])
<1> DEFINE P == Places(s, {x})  c == count[x]
<1>1. IsFiniteSet(P) /\ c \in Nat \ {0} /\ c = Cardinality(P)
  <2>1. P \subseteq 1..Len(s) /\ IsFiniteSet(1..Len(s))
    BY IntervalFinite DEF Places
  <2> QED
    BY <2>1, FS_Subset DEF Counted
<1>2. P # {}
  BY <1>1, FS_EmptySet
<1>3. PICK p \in P : TRUE
  BY <1>2
<1>4. \A i \in P : i \in 1..Len(s) /\ s[i] = x
  BY DEF Places
<1>5. \A i \in P : f[i] = c /\ g[i] \in Nat \ {0} /\ g[i] * c = L
  <2> SUFFICES ASSUME NEW i \in P PROVE f[i] = c /\ g[i] \in Nat \ {0} /\ g[i] * c = L
    OBVIOUS
  <2>1. i \in 1..Len(s) /\ s[i] = x
    BY <1>4
  <2>2. f[i] = count[s[i]] /\ g[i] \in Nat \ {0} /\ g[i] * f[i] = L
    BY <2>1 DEF Shares
  <2> QED
    BY <2>1, <2>2
<1> HIDE DEF P, c
<1>6. \A i \in P : g[i] = g[p]
  <2> SUFFICES ASSUME NEW i \in P PROVE g[i] = g[p]
    OBVIOUS
  <2>1. /\ g[i] \in Int /\ g[p] \in Int
        /\ c * g[i] = L /\ c * g[p] = L
    BY <1>1, <1>3, <1>5
  <2>2. c * g[i] <= c * g[p] /\ c * g[p] <= c * g[i]
    BY <2>1
  <2>3. g[i] <= g[p] /\ g[p] <= g[i]
    BY <1>1, <2>1, <2>2, CancelFactor
  <2> QED
    BY <2>1, <2>3
<1>7. Sum(g, P) = g[p] * Cardinality(P)
  BY <1>1, <1>3, <1>5, <1>6, SumConstant
<1>8. Prod(f, P) = Raised(c, Cardinality(P))
  BY <1>1, <1>5, ProdConstant
<1> QED
  BY <1>1, <1>3, <1>5, <1>7, <1>8 DEF P, c

LEMMA Grouped ==
  ASSUME NEW s, NEW count, NEW D, IsFiniteSet(D), NEW L \in Nat \ {0}, NEW f, NEW g,
         Len(s) \in Nat, Counted(s, count, D), Shares(s, count, L, f, g),
         \A i \in 1..Len(s) : f[i] \in Int,
         NEW h, \A x \in D : h[x] = Raised(count[x], count[x])
  PROVE  /\ Sum(g, Places(s, D)) = L * Cardinality(D)
         /\ Prod(f, Places(s, D)) = Prod(h, D)
<1> DEFINE Claim(T) == /\ Sum(g, Places(s, T)) = L * Cardinality(T)
                       /\ Prod(f, Places(s, T)) = Prod(h, T)
           C == {T \in SUBSET D : ~ Claim(T)}
<1>1. SUFFICES ASSUME C # {} PROVE FALSE
  OBVIOUS
<1>2. PICK T \in C : \A y \in T : T \ {y} \notin C
  <2>1. C \subseteq SUBSET D
    OBVIOUS
  <2> HIDE DEF C
  <2> QED
    BY <1>1, <2>1, SmallestSet
<1>3. T # {}
  <2>1. Places(s, {}) = {}
    BY DEF Places
  <2>2. L * 0 = 0
    OBVIOUS
  <2> QED
    BY <1>2, <2>1, <2>2, SumEmpty, ProdEmpty, FS_EmptySet
<1> DEFINE x == Some(T)  R == T \ {x}
<1>4. /\ x \in T /\ x \in D /\ IsFiniteSet(T) /\ Cardinality(T) \in Nat
      /\ R \subseteq D /\ R \notin C
  BY <1>2, <1>3, FS_Subset, SomeElement, FS_CardinalityType
<1>5. Claim(R)
  BY <1>4
<1>6. Cardinality(R) = Cardinality(T) - 1
  BY <1>4, FS_RemoveElement
<1>7. Prod(h, T) = h[x] * Prod(h, R) /\ h[x] = Raised(count[x], count[x])
  BY <1>3, <1>4, ProdChosen
<1>8. /\ Sum(g, Places(s, {x})) = L
      /\ Prod(f, Places(s, {x})) = Raised(count[x], count[x])
  <2>1. x \in D
    BY <1>4
  <2> HIDE DEF C, Claim, R, x
  <2> QED
    BY <2>1, SharesOfOne
<1> DEFINE A == Places(s, {x})  B == Places(s, R)
<1>9. /\ Places(s, T) = A \cup B /\ A \cap B = {}
      /\ IsFiniteSet(A) /\ IsFiniteSet(B)
      /\ \A i \in A \cup B : i \in 1..Len(s)
  <2>1. A \subseteq 1..Len(s) /\ B \subseteq 1..Len(s) /\ IsFiniteSet(1..Len(s))
    BY IntervalFinite DEF Places
  <2>2. IsFiniteSet(A) /\ IsFiniteSet(B)
    BY <2>1, FS_Subset
  <2>3. Places(s, T) = A \cup B /\ A \cap B = {}
    BY <1>4 DEF Places
  <2> QED
    BY <2>1, <2>2, <2>3
<1>10. \A i \in A \cup B : f[i] \in Int /\ g[i] \in Int
  <2>1. \A i \in 1..Len(s) : f[i] \in Int /\ g[i] \in Int
    BY DEF Shares
  <2> HIDE DEF A, B
  <2> QED
    BY <1>9, <2>1
<1> HIDE DEF A, B
<1>11. Sum(g, A \cup B) = Sum(g, A) + Sum(g, B)
  BY <1>9, <1>10, SumUnion
<1>12. Prod(f, A \cup B) = Prod(f, A) * Prod(f, B)
  BY <1>9, <1>10, ProdUnion
<1>13. Sum(g, Places(s, T)) = L * Cardinality(T)
  <2>1. L + L * (Cardinality(T) - 1) = L * Cardinality(T)
    BY <1>4
  <2> QED
    BY <1>5, <1>6, <1>8, <1>9, <1>11, <2>1 DEF A, B
<1>14. Prod(f, Places(s, T)) = Prod(h, T)
  BY <1>5, <1>7, <1>8, <1>9, <1>12 DEF A, B
<1> QED
  BY <1>2, <1>13, <1>14

LEMMA BagDomain == ASSUME NEW s PROVE DOMAIN ToBag(s) = Range(s)
  BY Zenon DEF ToBag

\* A bag counts the places of each of its elements.
LEMMA BagCounts ==
  ASSUME NEW T, NEW s \in Seq(T)
  PROVE  /\ IsFiniteSet(Range(s)) /\ Counted(s, ToBag(s), Range(s))
         /\ Places(s, Range(s)) = 1..Len(s)
         /\ \A i \in 1..Len(s) : s[i] \in Range(s) /\ ToBag(s)[s[i]] \in 1..Len(s)
<1>1. DOMAIN s = 1..Len(s) /\ Len(s) \in Nat /\ IsFiniteSet(1..Len(s))
  BY IntervalFinite
<1>2. \A i \in 1..Len(s) : s[i] \in Range(s)
  BY <1>1 DEF Range
<1>3. IsFiniteSet(Range(s))
  <2>1. Range(s) = Image(s, 1..Len(s))
    BY <1>1 DEF Range, Image
  <2> QED
    BY <1>1, <2>1, ImageFinite
<1>4. ASSUME NEW x \in Range(s)
      PROVE  /\ ToBag(s)[x] = Cardinality(Places(s, {x}))
             /\ ToBag(s)[x] \in Nat \ {0} /\ ToBag(s)[x] <= Len(s)
  <2>1. {i \in DOMAIN s : s[i] = x} = Places(s, {x})
    BY <1>1 DEF Places
  <2>2. ToBag(s)[x] = Cardinality(Places(s, {x}))
    BY <2>1 DEF ToBag
  <2>3. Places(s, {x}) \subseteq 1..Len(s) /\ Places(s, {x}) # {}
    BY <1>1 DEF Places, Range
  <2>4. /\ IsFiniteSet(Places(s, {x})) /\ Cardinality(Places(s, {x})) \in Nat
        /\ Cardinality(Places(s, {x})) <= Cardinality(1..Len(s))
    BY <1>1, <2>3, FS_Subset, FS_CardinalityType
  <2>5. Cardinality(Places(s, {x})) # 0
    BY <2>3, <2>4, FS_EmptySet
  <2>6. Cardinality(1..Len(s)) = Len(s)
    BY <1>1, IntervalSize
  <2> QED
    BY <2>2, <2>4, <2>5, <2>6
<1>5. Counted(s, ToBag(s), Range(s))
  BY <1>4 DEF Counted
<1>6. Places(s, Range(s)) = 1..Len(s)
  BY <1>2 DEF Places
<1>7. ASSUME NEW i \in 1..Len(s) PROVE ToBag(s)[s[i]] \in 1..Len(s)
  <2> DEFINE c == ToBag(s)[s[i]]
  <2>1. c \in Nat \ {0} /\ c <= Len(s)
    BY <1>2, <1>4
  <2> HIDE DEF c
  <2>2. c \in 1..Len(s)
    BY <1>1, <2>1
  <2> QED
    BY <2>2 DEF c
<1> QED
  BY <1>2, <1>3, <1>5, <1>6, <1>7

LEMMA FlattenType ==
  ASSUME NEW T, NEW seqs \in Seq(Seq(T))
  PROVE  FlattenSeq(seqs) \in Seq(T)
<1> DEFINE m == Ones(T, {})  f == [k \in 1..Len(seqs) |-> Weigh(seqs[k], m)]
<1>1. Weighs(m, T)
  BY OnesWeigh
<1>2. Totals(f, seqs, m)
  BY DEF Totals
<1> HIDE DEF m, f
<1> QED
  BY <1>1, <1>2, FlattenWeighs

Uneven(s) == \E x, y \in Range(s) : ToBag(s)[x] # ToBag(s)[y]

\* Gibbs' inequality without logarithms: n^n is at most k^n times the product
\* of count^count over the k different elements of a sequence of n, and less
\* exactly when they are not equally frequent.
LEMMA EvenIsMost ==
  ASSUME NEW T, NEW s \in Seq(T),
         NEW h, \A x \in Range(s) : h[x] = Raised(ToBag(s)[x], ToBag(s)[x])
  PROVE  /\ Raised(Len(s), Len(s))
              <= Raised(Cardinality(Range(s)), Len(s)) * Prod(h, Range(s))
         /\ Uneven(s) <=> Raised(Len(s), Len(s))
              # Raised(Cardinality(Range(s)), Len(s)) * Prod(h, Range(s))
         /\ Len(s) \in Nat /\ Cardinality(Range(s)) \in Nat
         /\ Len(s) # 0 => Cardinality(Range(s)) # 0
         /\ Prod(h, Range(s)) \in Nat \ {0}
<1> DEFINE n == Len(s)  D == Range(s)  k == Cardinality(D)  count == ToBag(s)
           S == 1..n
<1>1. /\ n \in Nat /\ IsFiniteSet(D) /\ k \in Nat /\ IsFiniteSet(S)
      /\ Counted(s, count, D) /\ Places(s, D) = S
      /\ \A i \in S : s[i] \in D /\ count[s[i]] \in S
  BY BagCounts, FS_CardinalityType, IntervalFinite
<1>2. PICK L \in Nat \ {0} : CommonMultiple(L, n)
  BY <1>1, CommonMultipleExists
<1> DEFINE f == [i \in S |-> count[s[i]]]
           g == [i \in S |-> CHOOSE a \in Nat \ {0} : a * count[s[i]] = L]
<1>3. /\ Shares(s, count, L, f, g)
      /\ \A i \in S : f[i] \in Nat \ {0} /\ g[i] \in Nat \ {0} /\ g[i] * f[i] = L
  <2>1. ASSUME NEW i \in S
        PROVE  f[i] = count[s[i]] /\ f[i] \in Nat \ {0} /\ g[i] \in Nat \ {0} /\ g[i] * f[i] = L
    <3>1. \E a \in Nat \ {0} : a * count[s[i]] = L
      BY <1>1, <1>2 DEF CommonMultiple
    <3>2. f[i] = count[s[i]] /\ count[s[i]] \in Nat \ {0}
      BY <1>1
    <3>3. g[i] \in Nat \ {0} /\ g[i] * count[s[i]] = L
      BY <3>1
    <3> QED
      BY <3>2, <3>3
  <2> QED
    BY <2>1 DEF Shares
<1>4. \A x \in D : h[x] = Raised(count[x], count[x])
  OBVIOUS
<1> DEFINE differ == \E i, j \in S : g[i] # g[j]
<1>5. Uneven(s) <=> differ
  <2>1. \A i \in S : f[i] = count[s[i]]
    OBVIOUS
  <2>2. \A x \in D : \E i \in S : x = s[i]
    BY DEF Range
  <2> HIDE DEF f, g, S
  <2>3. \A i, j \in S : f[i] = f[j] <=> g[i] = g[j]
    <3> SUFFICES ASSUME NEW i \in S, NEW j \in S PROVE f[i] = f[j] <=> g[i] = g[j]
      OBVIOUS
    <3>1. /\ f[i] \in Nat \ {0} /\ g[i] \in Nat \ {0} /\ g[i] * f[i] = L
          /\ f[j] \in Nat \ {0} /\ g[j] \in Nat \ {0} /\ g[j] * f[j] = L
      BY <1>3
    <3>2. \A a, b, c \in Nat \ {0} : a * c = b * c => a = b
      <4> SUFFICES ASSUME NEW a \in Nat \ {0}, NEW b \in Nat \ {0}, NEW c \in Nat \ {0},
                          a * c = b * c
                   PROVE  a = b
        OBVIOUS
      <4>1. c * a <= c * b /\ c * b <= c * a
        OBVIOUS
      <4>2. a <= b /\ b <= a
        BY <4>1, CancelFactor
      <4> QED
        BY <4>2
    <3>3. f[i] * g[i] = f[j] * g[j] /\ g[i] * f[i] = g[j] * f[j]
      BY <3>1
    <3> QED
      BY <3>1, <3>2, <3>3
  <2>4. Uneven(s) <=> \E x, y \in D : count[x] # count[y]
    BY DEF Uneven
  <2> QED
    BY <1>1, <2>1, <2>2, <2>3, <2>4
<1> HIDE DEF f, g, count, n, D, k, differ
<1>6. Sum(g, S) = L * k /\ Prod(f, S) = Prod(h, D)
  <2>1. /\ Len(s) \in Nat /\ \A i \in 1..Len(s) : f[i] \in Int
    BY <1>1, <1>3 DEF n
  <2>2. /\ Sum(g, Places(s, D)) = L * Cardinality(D)
        /\ Prod(f, Places(s, D)) = Prod(h, D)
    BY <1>1, <1>3, <1>4, <2>1, Grouped
  <2> QED
    BY <1>1, <2>2 DEF k
<1> HIDE DEF S
<1>7. Prod(g, S) * Prod(f, S) = Raised(L, n)
  <2> DEFINE l == [i \in 1..n |-> L]
  <2>1. \A i \in S : g[i] \in Int /\ f[i] \in Int /\ l[i] = g[i] * f[i]
    BY <1>3 DEF S
  <2> HIDE DEF l
  <2>2. Prod(l, S) = Prod(g, S) * Prod(f, S)
    BY <1>1, <2>1, ProdTimes
  <2> QED
    BY <2>2 DEF l, S, Raised
<1>8. /\ Raised(n, n) * Prod(g, S) <= Raised(Sum(g, S), n)
      /\ differ <=> Raised(n, n) * Prod(g, S) # Raised(Sum(g, S), n)
  <2>1. Raised(n, n) * Prod(g, S) <= Raised(Sum(g, S), n)
    BY <1>1, <1>3, MeansOrdered DEF S
  <2>2. CASE differ
    <3>1. PICK i \in S, j \in S : g[i] # g[j]
      BY <2>2 DEF differ
    <3>2. Raised(n, n) * Prod(g, S) < Raised(Sum(g, S), n)
      BY <1>1, <1>3, <3>1, MeansDiffer DEF S
    <3>3. \A x \in Int : ~ (x < x)
      OBVIOUS
    <3>4. Raised(n, n) * Prod(g, S) \in Int
      <4>1. Prod(g, S) \in Nat /\ Raised(n, n) \in Nat
        BY <1>1, <1>3, ProdPositive, RaisedNat
      <4> QED
        BY <4>1
    <3> QED
      BY <2>1, <2>2, <3>2, <3>3, <3>4
  <2>3. CASE ~ differ
    <3>1. PICK c \in Nat : \A i \in S : g[i] = c
      <4>1. CASE S = {}
        BY <4>1
      <4>2. CASE S # {}
        <5>1. PICK j \in S : TRUE
          BY <4>2
        <5> QED
          BY <1>3, <2>3, <5>1 DEF differ
      <4> QED
        BY <4>1, <4>2
    <3>2. Raised(n, n) * Prod(g, S) = Raised(Sum(g, S), n)
      BY <1>1, <3>1, MeansEqual DEF S
    <3> QED
      BY <2>1, <2>3, <3>2
  <2> QED
    BY <2>2, <2>3
<1>9. Raised(L * k, n) = Raised(L, n) * Raised(k, n)
  BY <1>1, RaisedTimes
<1> DEFINE G == Prod(g, S)  F == Prod(f, S)  N == Raised(n, n)  K == Raised(k, n)
<1>10. G \in Nat \ {0} /\ F \in Nat \ {0} /\ N \in Nat /\ K \in Nat
  BY <1>1, <1>3, ProdPositive, RaisedNat
<1>11. N * G <= (G * F) * K /\ (differ <=> N * G # (G * F) * K)
  BY <1>6, <1>7, <1>8, <1>9
<1> HIDE DEF G, F, N, K
<1>12. N * G = G * N /\ (G * F) * K = G * (K * F)
  BY <1>10
<1>13. N <= K * F
  <2>1. N \in Int /\ K * F \in Int /\ G * N <= G * (K * F)
    BY <1>10, <1>11, <1>12
  <2> QED
    BY <1>10, <2>1, CancelFactor
<1>14. differ <=> N # K * F
  <2>1. N = K * F => ~ differ
    BY <1>11, <1>12
  <2>2. ~ differ => N = K * F
    <3> SUFFICES ASSUME ~ differ PROVE N = K * F
      OBVIOUS
    <3>1. G * (K * F) <= G * N
      <4>1. G * (K * F) = G * N /\ G * N \in Int
        BY <1>10, <1>11, <1>12
      <4> QED
        BY <4>1
    <3>2. N \in Int /\ K * F \in Int
      BY <1>10
    <3>3. K * F <= N
      BY <1>10, <3>1, <3>2, CancelFactor
    <3> QED
      BY <1>13, <3>2, <3>3
  <2> QED
    BY <2>1, <2>2
<1>15. F \in Nat \ {0} /\ n \in Nat /\ k \in Nat /\ (n # 0 => k # 0)
  <2>1. n # 0 => D # {}
    BY <1>1 DEF S
  <2> QED
    BY <1>1, <1>10, <2>1, FS_EmptySet DEF k
<1> QED
  BY <1>5, <1>6, <1>13, <1>14, <1>15 DEF N, K, F, n, k, D

\* Copies of one sequence without repetitions, joined, have all its elements
\* equally often.
LEMMA CopiesAreEven ==
  ASSUME NEW T, NEW u \in Seq(T), \A i, j \in 1..Len(u) : u[i] = u[j] => i = j,
         Len(u) > 1, NEW seqs \in Seq(Seq(T)), \A k \in 1..Len(seqs) : seqs[k] = u
  PROVE  ~ Uneven(FlattenSeq(seqs)) /\ Cardinality(Range(FlattenSeq(seqs))) # 1
<1> DEFINE s == FlattenSeq(seqs)  n == Len(seqs)  w(x) == Weigh(u, Ones(T, {x}))
<1>1. s \in Seq(T) /\ n \in Nat
  BY FlattenType
<1>2. ASSUME NEW x \in T PROVE Weigh(s, Ones(T, {x})) = w(x) * n /\ w(x) \in {0, 1}
  <2> DEFINE f == [k \in 1..n |-> w(x)]  m == Ones(T, {x})
             A == {i \in DOMAIN u : u[i] \in {x}}
  <2>1. Cardinality(A) = w(x)
    BY CountWeighs
  <2>2. A = {} \/ \E p : A = {p}
    <3>1. \A i, j \in A : i = j
      <4>1. DOMAIN u = 1..Len(u)
        OBVIOUS
      <4> QED
        BY <4>1
    <3> HIDE DEF A
    <3> SUFFICES ASSUME NEW p \in A PROVE \E q : A = {q}
      BY Zenon
    <3>2. A = {p}
      BY <3>1
    <3> QED
      BY <3>2
  <2> HIDE DEF A
  <2>3. w(x) \in {0, 1}
    BY <2>1, <2>2, FS_EmptySet, FS_Singleton
  <2>4. Totals(f, seqs, m) /\ Weighs(m, T)
    BY OnesWeigh DEF Totals
  <2>5. \A k \in 1..n : f[k] = w(x)
    OBVIOUS
  <2> HIDE DEF f, m
  <2>6. Weigh(s, m) = Sum(f, 1..n)
    BY <2>4, FlattenWeighs
  <2> HIDE DEF w, n
  <2>7. Sum(f, 1..n) = w(x) * Cardinality(1..n) /\ Cardinality(1..n) = n
    <3>1. w(x) \in Int /\ IsFiniteSet(1..n) /\ Cardinality(1..n) = n
      <4>1. w(x) \in Int
        BY <2>3
      <4>2. n \in Nat
        BY <1>1
      <4>3. IsFiniteSet(1..n)
        BY <4>2, IntervalFinite
      <4>4. Cardinality(1..n) = n
        BY <4>2, IntervalSize
      <4> QED
        BY <4>1, <4>3, <4>4
    <3> QED
      BY <2>5, <3>1, SumConstant
  <2> QED
    BY <2>3, <2>6, <2>7 DEF m
<1>3. ASSUME NEW x \in Range(s)
      PROVE  x \in T /\ w(x) = 1 /\ n # 0 /\ ToBag(s)[x] = n
  <2>1. x \in T
    BY <1>1, <1>3 DEF Range
  <2>2. Weigh(s, Ones(T, {x})) > 0
    BY <1>1, <1>3, CountedIsThere
  <2>3. w(x) = 1 /\ n # 0 /\ Weigh(s, Ones(T, {x})) = n
    <3>1. Weigh(s, Ones(T, {x})) = w(x) * n /\ w(x) \in {0, 1}
      BY <1>2, <2>1
    <3> HIDE DEF s, n, w
    <3>2. w(x) # 0
      BY <1>1, <2>2, <3>1
    <3> QED
      BY <1>1, <2>2, <3>1, <3>2
  <2>4. ToBag(s)[x] = Cardinality({i \in DOMAIN s : s[i] = x})
    <3> HIDE DEF s
    <3> QED
      BY <1>3 DEF ToBag
  <2>5. Cardinality({i \in DOMAIN s : s[i] \in {x}}) = Weigh(s, Ones(T, {x}))
    BY <1>1, CountWeighs
  <2>6. {i \in DOMAIN s : s[i] \in {x}} = {i \in DOMAIN s : s[i] = x}
    OBVIOUS
  <2> QED
    BY <2>1, <2>3, <2>4, <2>5, <2>6
<1>4. ~ Uneven(s)
  <2> HIDE DEF s, n, w
  <2> QED
    BY <1>3 DEF Uneven
<1>5. ASSUME NEW z, Range(s) = {z} PROVE FALSE
  <2>1. n # 0
    BY <1>3, <1>5
  <2>2. /\ u[1] \in T /\ u[2] \in T /\ u[1] # u[2]
        /\ u[1] \in Range(u) /\ u[2] \in Range(u)
    BY DEF Range
  <2>3. ASSUME NEW x \in T, x \in Range(u) PROVE x \in Range(s)
    <3>1. w(x) > 0
      BY <2>3, CountedIsThere
    <3>2. Weigh(s, Ones(T, {x})) > 0
      <4> HIDE DEF s, n, w
      <4> QED
        BY <1>1, <1>2, <2>1, <2>3, <3>1
    <3> QED
      BY <1>1, <3>2, CountedIsThere
  <2> QED
    BY <1>5, <2>2, <2>3
<1>6. IsFiniteSet(Range(s))
  BY <1>1, BagCounts
<1>7. Cardinality(Range(s)) # 1
  <2> HIDE DEF s
  <2> QED
    BY <1>5, <1>6, FS_Singleton
<1> QED
  BY <1>4, <1>7
=============================================================================
