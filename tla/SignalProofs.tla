---------------------------- MODULE SignalProofs ----------------------------
(***************************************************************************)
(* Lemmas about the operators of the anomaly model and of the velocity and *)
(* entropy signals, for every value of their constants.  The theorems      *)
(* about the machine that feeds them are in EngineProofs.                  *)
(***************************************************************************)
EXTENDS Entropy, ArithmeticProofs, Anomaly, Velocity

(***************************************************************************)
(* The anomaly model.                                                      *)
(***************************************************************************)
\* Statistics of n observations with mean a/b and squared deviations c/d.
StatsAre(s, n, a, b, c, d) ==
    /\ n \in Nat /\ n >= 2 /\ a \in Int /\ b \in Nat \ {0}
    /\ c \in Nat /\ d \in Nat \ {0}
    /\ s = [count |-> n, mean |-> Frac(a, b), m2 |-> Frac(c, d)]
StatsOK(s) == \E n, a, b, c, d : StatsAre(s, n, a, b, c, d)

\* What a value is away from the mean, and what the mean moves by.
LEMMA DistanceIs ==
  ASSUME NEW x \in Int, NEW a \in Int, NEW b \in Nat \ {0}
  PROVE  Minus(Whole(x), Frac(a, b)) = Frac(x * b - a, b)
<1>1. Minus(Frac(x, 1), Frac(a, b)) = Frac(x * b - a * 1, 1 * b)
  BY OperationsFrac
<1>2. a * 1 = a /\ 1 * b = b
  OBVIOUS
<1> QED
  BY <1>1, <1>2, WholeIsFrac

LEMMA MeanMoves ==
  ASSUME NEW a \in Int, NEW b \in Nat \ {0}, NEW u \in Int, NEW n \in Nat \ {0}
  PROVE  Plus(Frac(a, b), DivideBy(Frac(u, b), n)) = Frac(a * n + u, b * n)
<1>1. b * n \in Nat \ {0} /\ a * n + u \in Int
  BY ProductPositive
<1>2. DivideBy(Frac(u, b), n) = Frac(u, b * n)
  BY DivideByFrac
<1>3. Plus(Frac(a, b), Frac(u, b * n)) = Frac(a * (b * n) + u * b, b * (b * n))
  BY <1>1, OperationsFrac
<1>4. a * (b * n) + u * b = b * (a * n + u)
  OBVIOUS
<1>5. Expands(b, a * n + u, b * n, a * (b * n) + u * b, b * (b * n))
  BY <1>1, <1>4 DEF Expands
<1>6. Frac(a * (b * n) + u * b, b * (b * n)) = Frac(a * n + u, b * n)
  BY <1>5, FracCancel
<1> QED
  BY <1>2, <1>3, <1>6

\* FeatureStats::update, in integers.
LEMMA UpdateIs ==
  ASSUME NEW s, NEW n, NEW a, NEW b, NEW c, NEW d, StatsAre(s, n, a, b, c, d),
         NEW x \in Int, NEW u \in Int, u = x * b - a
  PROVE  UpdateStats(s, x) =
           [count |-> n + 1, mean |-> Frac(a * (n + 1) + u, b * (n + 1)),
            m2 |-> Plus(Frac(c, d), Times(Frac(u, b), Frac(u * n, b * (n + 1))))]
<1> DEFINE m == n + 1  e == b * m  t == a * m + u
<1>1. /\ n \in Nat /\ a \in Int /\ b \in Nat \ {0} /\ m \in Nat \ {0}
      /\ s.count = n /\ s.mean = Frac(a, b) /\ s.m2 = Frac(c, d)
  BY DEF StatsAre
<1>2. e \in Nat \ {0} /\ t \in Int
  BY <1>1, ProductPositive
<1>3. Minus(Whole(x), s.mean) = Frac(u, b)
  <2> HIDE DEF m, e, t
  <2>1. Minus(Whole(x), Frac(a, b)) = Frac(x * b - a, b)
    BY <1>1, DistanceIs
  <2> QED
    BY <1>1, <2>1
<1>4. Plus(s.mean, DivideBy(Frac(u, b), m)) = Frac(t, e)
  <2> HIDE DEF m
  <2>1. Plus(Frac(a, b), DivideBy(Frac(u, b), m)) = Frac(a * m + u, b * m)
    BY <1>1, MeanMoves
  <2> QED
    BY <1>1, <2>1
<1>5. Minus(Whole(x), Frac(t, e)) = Frac(x * e - t, e)
  <2> HIDE DEF t, e
  <2> QED
    BY <1>2, DistanceIs
<1>6. x * e - t = u * n
  <2>1. x * (b * (n + 1)) - (a * (n + 1) + (x * b - a)) = (x * b - a) * n
    BY <1>1
  <2> QED
    BY <2>1
<1> HIDE DEF t, e
<1>7. UpdateStats(s, x) =
        [count |-> m, mean |-> Frac(t, e),
         m2 |-> Plus(s.m2, Times(Frac(u, b), Frac(u * n, e)))]
  BY <1>1, <1>3, <1>4, <1>5, <1>6 DEF UpdateStats
<1> QED
  BY <1>1, <1>7 DEF t, e

\* A value at a distance of u/b adds g/e to the squared deviations.
Adds(n, b, u, g, e) ==
    /\ n \in Nat /\ b \in Nat \ {0} /\ u \in Int
    /\ g = (u * u) * n /\ e = b * (b * (n + 1))

\* The two distances multiply to a square: the spread never shrinks.
LEMMA SpreadGrows ==
  ASSUME NEW c \in Nat, NEW d \in Nat \ {0},
         NEW n, NEW b, NEW u, NEW g, NEW e, Adds(n, b, u, g, e)
  PROVE  /\ e \in Nat \ {0} /\ g \in Nat
         /\ d * e \in Nat \ {0} /\ c * e + g * d \in Nat
         /\ Plus(Frac(c, d), Times(Frac(u, b), Frac(u * n, b * (n + 1))))
              = Frac(c * e + g * d, d * e)
<1> USE DEF Adds
<1>1. b * (n + 1) \in Nat \ {0} /\ e \in Nat \ {0}
  BY ProductPositive
<1>2. g \in Nat
  BY SquareNat, ProductNat
<1>3. u * n \in Int /\ u * (u * n) = g
  OBVIOUS
<1>4. Times(Frac(u, b), Frac(u * n, b * (n + 1))) = Frac(u * (u * n), e)
  BY <1>1, <1>3, OperationsFrac
<1>5. c * e \in Nat /\ g * d \in Nat /\ d * e \in Nat \ {0}
  BY <1>1, <1>2, ProductNat, ProductPositive
<1>6. Plus(Frac(c, d), Frac(g, e)) = Frac(c * e + g * d, d * e)
  BY <1>1, <1>2, OperationsFrac
<1>7. c * e + g * d \in Nat
  BY <1>5
<1>8. Plus(Frac(c, d), Times(Frac(u, b), Frac(u * n, b * (n + 1))))
        = Frac(c * e + g * d, d * e)
  BY <1>3, <1>4, <1>6
<1> QED
  BY <1>1, <1>2, <1>5, <1>7, <1>8

\* What update makes of statistics are statistics.
LEMMA UpdateAre ==
  ASSUME NEW s, NEW n, NEW a, NEW b, NEW c, NEW d, StatsAre(s, n, a, b, c, d),
         NEW x \in Int, NEW u \in Int, u = x * b - a,
         NEW g, NEW e, Adds(n, b, u, g, e)
  PROVE  /\ e \in Nat \ {0} /\ g \in Nat
         /\ StatsAre(UpdateStats(s, x), n + 1, a * (n + 1) + u, b * (n + 1),
                     c * e + g * d, d * e)
<1>1. n \in Nat /\ n >= 2 /\ a \in Int /\ b \in Nat \ {0} /\ c \in Nat /\ d \in Nat \ {0}
  BY DEF StatsAre
<1> DEFINE t == a * (n + 1) + u
<1>2. t \in Int /\ b * (n + 1) \in Nat \ {0}
  BY <1>1, ProductPositive
<1>3. UpdateStats(s, x) =
        [count |-> n + 1, mean |-> Frac(t, b * (n + 1)),
         m2 |-> Plus(Frac(c, d), Times(Frac(u, b), Frac(u * n, b * (n + 1))))]
  BY UpdateIs
<1> HIDE DEF t
<1>4. /\ e \in Nat \ {0} /\ g \in Nat
      /\ d * e \in Nat \ {0} /\ c * e + g * d \in Nat
      /\ Plus(Frac(c, d), Times(Frac(u, b), Frac(u * n, b * (n + 1))))
           = Frac(c * e + g * d, d * e)
  BY <1>1, SpreadGrows
<1>5. StatsAre(UpdateStats(s, x), n + 1, t, b * (n + 1), c * e + g * d, d * e)
  BY <1>1, <1>2, <1>3, <1>4 DEF StatsAre
<1> QED
  BY <1>4, <1>5 DEF t

LEMMA UpdateOK ==
  ASSUME NEW s, StatsOK(s), NEW x \in Int
  PROVE  StatsOK(UpdateStats(s, x))
<1>1. PICK n, a, b, c, d : StatsAre(s, n, a, b, c, d)
  BY DEF StatsOK
<1> DEFINE u == x * b - a
<1>2. u \in Int
  BY <1>1 DEF StatsAre
<1> DEFINE g == (u * u) * n  e == b * (b * (n + 1))
<1>3. Adds(n, b, u, g, e)
  BY <1>1, <1>2 DEF Adds, StatsAre
<1> HIDE DEF g, e
<1>4. StatsAre(UpdateStats(s, x), n + 1, a * (n + 1) + u, b * (n + 1),
               c * e + g * d, d * e)
  BY <1>1, <1>2, <1>3, UpdateAre
<1> QED
  BY <1>4 DEF StatsOK

LEMMA Reciprocal ==
  ASSUME NEW p \in Nat \ {0}, NEW q \in Nat \ {0}
  PROVE  Frac(Frac(p, q).den, Frac(p, q).num) = Frac(q, p)
<1> DEFINE f == Frac(p, q)
<1>1. PICK g \in Nat \ {0} : p = g * f.num /\ q = g * f.den
  BY FracValue
<1>2. f.num \in Int /\ f.den \in Nat \ {0}
  BY FracValue
<1>3. f.num > 0
  <2> DEFINE m == f.num
  <2>1. m \in Int /\ p = g * m
    BY <1>1, <1>2
  <2> HIDE DEF m
  <2>2. m > 0
    <3>1. CASE m = 0
      BY <2>1, <3>1
    <3>2. CASE m < 0
      <4>1. g * m = -(g * (-m)) /\ g * (-m) \in Nat
        BY <2>1, <3>2, ProductNat
      <4> QED
        BY <2>1, <4>1
    <3> QED
      BY <2>1, <3>1, <3>2
  <2> QED
    BY <2>2 DEF m
<1>4. Expands(g, f.den, f.num, q, p)
  BY <1>1, <1>2, <1>3 DEF Expands
<1> HIDE DEF f
<1>5. Frac(q, p) = Frac(f.den, f.num)
  BY <1>4, FracCancel
<1> QED
  BY <1>5 DEF f

\* The square of std_dev is p/q: the variance, or 1/10000 if that is more.
SpreadIs(n, c, d, p, q) ==
    /\ p \in Nat \ {0} /\ q \in Nat \ {0}
    /\ q <= 10000 * p /\ c * q <= (d * (n - 1)) * p
    /\ (p = 1 /\ q = 10000) \/ (p = c /\ q = d * (n - 1))

LEMMA SpreadFrac ==
  ASSUME NEW s, NEW n, NEW a, NEW b, NEW c, NEW d, StatsAre(s, n, a, b, c, d)
  PROVE  \E p, q : SpreadIs(n, c, d, p, q) /\ Spread(s) = Frac(p, q)
<1> DEFINE e == d * (n - 1)
<1>1. /\ n - 1 \in Nat \ {0} /\ c \in Nat /\ d \in Nat \ {0}
      /\ s.count = n /\ s.m2 = Frac(c, d)
  BY DEF StatsAre
<1>2. e \in Nat \ {0}
  BY <1>1, ProductPositive
<1>3. Variance(s) = Frac(c, e)
  <2> DEFINE m == n - 1
  <2>1. m \in Nat \ {0}
    BY <1>1
  <2> HIDE DEF m
  <2>2. DivideBy(Frac(c, d), m) = Frac(c, d * m)
    BY <1>1, <2>1, DivideByFrac
  <2> QED
    BY <1>1, <2>2 DEF Variance, m
<1>4. AtMost(Frac(1, 10000), Variance(s)) <=> 1 * e <= c * 10000
  <2> HIDE DEF e
  <2> QED
    BY <1>1, <1>2, <1>3, AtMostFrac
<1>5. CASE 1 * e <= c * 10000
  <2>1. Spread(s) = Frac(c, e)
    BY <1>3, <1>4, <1>5 DEF Spread
  <2>2. c # 0
    <3> HIDE DEF e
    <3> QED
      BY <1>2, <1>5
  <2>3. c * e <= e * c /\ e <= 10000 * c
    <3> HIDE DEF e
    <3> QED
      BY <1>1, <1>2, <1>5
  <2>4. SpreadIs(n, c, d, c, e)
    BY <1>1, <1>2, <2>2, <2>3 DEF SpreadIs
  <2> QED
    BY <2>1, <2>4
<1>6. CASE ~ (1 * e <= c * 10000)
  <2>1. Spread(s) = Frac(1, 10000)
    BY <1>4, <1>6 DEF Spread
  <2>2. c * 10000 <= e * 1
    <3> HIDE DEF e
    <3> QED
      BY <1>1, <1>2, <1>6
  <2>3. SpreadIs(n, c, d, 1, 10000)
    BY <2>2 DEF SpreadIs
  <2> QED
    BY <2>1, <2>3
<1> QED
  BY <1>5, <1>6

LEMMA ZSquaredIs ==
  ASSUME NEW s, NEW n, NEW a, NEW b, NEW c, NEW d, StatsAre(s, n, a, b, c, d),
         NEW p, NEW q, SpreadIs(n, c, d, p, q), Spread(s) = Frac(p, q),
         NEW x \in Int, NEW u \in Int, Minus(Whole(x), s.mean) = Frac(u, b)
  PROVE  ZSquared(s, x) = Frac((u * u) * q, (b * b) * p)
<1>1. p \in Nat \ {0} /\ q \in Nat \ {0} /\ b \in Nat \ {0}
  BY DEF SpreadIs, StatsAre
<1>2. u * u \in Int /\ b * b \in Nat \ {0}
  BY <1>1, ProductPositive
<1>3. Times(Frac(u, b), Frac(u, b)) = Frac(u * u, b * b)
  BY <1>1, OperationsFrac
<1>4. Frac(Spread(s).den, Spread(s).num) = Frac(q, p)
  BY <1>1, Reciprocal
<1> DEFINE v == u * u  w == b * b
<1> HIDE DEF v, w
<1>5. Times(Frac(v, w), Frac(q, p)) = Frac(v * q, w * p)
  BY <1>1, <1>2, OperationsFrac DEF v, w
<1> QED
  BY <1>3, <1>4, <1>5 DEF ZSquared, v, w

\* The variance p/q after n observations and a term g/e more is at least c/d
\* over n.
LEMMA SpreadBound ==
  ASSUME NEW c \in Nat, NEW g \in Nat, NEW q \in Nat, NEW n \in Nat, NEW p \in Nat,
         NEW d \in Nat \ {0}, NEW e \in Nat \ {0},
         (c * e + g * d) * q <= ((d * e) * n) * p
  PROVE  c * q <= (d * n) * p
<1>1. /\ (c * e + g * d) * q = e * (c * q) + (g * d) * q
      /\ ((d * e) * n) * p = e * ((d * n) * p)
  OBVIOUS
<1>2. (g * d) * q \in Nat /\ c * q \in Int /\ (d * n) * p \in Int
  BY ProductNat
<1> DEFINE x == c * q  y == (d * n) * p  r == (g * d) * q
<1>3. e * x <= e * y
  <2>1. e * x + r <= e * y
    BY <1>1
  <2>2. r \in Nat /\ e * x \in Int /\ e * y \in Int
    BY <1>2
  <2> HIDE DEF x, y, r
  <2> QED
    BY <2>1, <2>2
<1>4. x \in Int /\ y \in Int
  BY <1>2
<1> HIDE DEF x, y
<1>5. x <= y
  BY <1>3, <1>4, CancelFactor
<1> QED
  BY <1>5 DEF x, y

\* p/q shrinks by less than the square of the ratio of the counts.
LEMMA SpreadRatio ==
  ASSUME NEW n \in Nat, n >= 2, NEW c \in Nat, NEW d \in Nat \ {0},
         NEW p, NEW q, SpreadIs(n, c, d, p, q),
         NEW p1 \in Nat, NEW q1 \in Nat, q1 <= 10000 * p1, c * q1 <= (d * n) * p1
  PROVE  (n * n) * (q1 * p) <= ((n + 1) * (n + 1)) * (q * p1)
<1>1. n * n \in Nat /\ (n + 1) * (n + 1) \in Nat /\ n * n <= (n + 1) * (n + 1)
  <2>1. (n + 1) * (n + 1) = n * n + (n + n + 1)
    OBVIOUS
  <2> QED
    BY <2>1, ProductNat
<1>2. CASE p = 1 /\ q = 10000
  <2> DEFINE m == n * n  k == (n + 1) * (n + 1)  y == 10000 * p1
  <2>1. m \in Nat /\ k \in Nat /\ m <= k /\ y \in Nat /\ q1 <= y
    BY <1>1
  <2> HIDE DEF m, k, y
  <2>2. m * q1 <= m * y
    BY <2>1, KeepFactor
  <2>3. y * m <= y * k
    BY <2>1, KeepFactor
  <2>4. m * q1 <= k * y
    BY <2>1, <2>2, <2>3
  <2>5. q1 * p = q1 /\ q * p1 = y
    BY <1>2 DEF y
  <2> QED
    BY <2>4, <2>5 DEF m, k
<1>3. CASE p = c /\ q = d * (n - 1)
  <2> DEFINE m == n * n  k == (n + 1) * (n + 1)  f == d * p1
  <2>1. m * (c * q1) <= m * ((d * n) * p1)
    <3>1. c * q1 \in Int /\ (d * n) * p1 \in Int /\ m \in Nat
      BY <1>1
    <3> HIDE DEF m
    <3> QED
      BY <3>1, KeepFactor
  <2>2. m * ((d * n) * p1) = f * (m * n)
    OBVIOUS
  <2>3. k * ((d * (n - 1)) * p1) = f * (k * (n - 1))
    OBVIOUS
  <2>4. m * n <= k * (n - 1)
    <3>1. k * (n - 1) = m * n + (n * n - n - 1)
      OBVIOUS
    <3>2. n * n >= 2 * n
      <4>1. n * 2 <= n * n
        BY KeepFactor
      <4> QED
        BY <4>1
    <3>3. m * n \in Int /\ n * n \in Int
      OBVIOUS
    <3>4. n * n - n - 1 >= 0
      BY <3>2, <3>3
    <3> HIDE DEF m, k
    <3> DEFINE r == n * n - n - 1
    <3>5. r \in Nat /\ k * (n - 1) = m * n + r
      BY <3>1, <3>3, <3>4
    <3> HIDE DEF r
    <3> QED
      BY <3>3, <3>5
  <2>5. f * (m * n) <= f * (k * (n - 1))
    <3>1. f \in Nat /\ m * n \in Int /\ k * (n - 1) \in Int
      BY ProductNat
    <3> HIDE DEF f, m, k
    <3> QED
      BY <2>4, <3>1, KeepFactor
  <2>6. m * (c * q1) <= k * ((d * (n - 1)) * p1)
    <3>1. m * (c * q1) \in Int /\ f * (m * n) \in Int /\ f * (k * (n - 1)) \in Int
      OBVIOUS
    <3>2. m * (c * q1) <= f * (m * n)
      BY <2>1, <2>2
    <3> HIDE DEF f, m, k
    <3> QED
      BY <2>3, <2>5, <3>1, <3>2
  <2>7. q1 * p = c * q1 /\ q * p1 = (d * (n - 1)) * p1
    BY <1>3
  <2> QED
    BY <2>6, <2>7
<1> QED
  BY <1>2, <1>3 DEF SpreadIs

\* After the update the observation is u * n / (b * (n + 1)) from the mean.
LEMMA NewDistance ==
  ASSUME NEW s, NEW n, NEW a, NEW b, NEW c, NEW d, StatsAre(s, n, a, b, c, d),
         NEW x \in Int, NEW u \in Int, u = x * b - a
  PROVE  Minus(Whole(x), UpdateStats(s, x).mean) = Frac(u * n, b * (n + 1))
<1> DEFINE t == a * (n + 1) + u  e == b * (n + 1)
<1>1. n \in Nat /\ a \in Int /\ b \in Nat \ {0}
  BY DEF StatsAre
<1>2. t \in Int /\ e \in Nat \ {0}
  BY <1>1, ProductPositive
<1>3. UpdateStats(s, x).mean = Frac(t, e)
  BY UpdateIs
<1>4. x * e - t = u * n
  <2>1. x * (b * (n + 1)) - (a * (n + 1) + (x * b - a)) = (x * b - a) * n
    BY <1>1
  <2> QED
    BY <2>1
<1> HIDE DEF t, e
<1>5. Minus(Whole(x), Frac(t, e)) = Frac(x * e - t, e)
  BY <1>2, DistanceIs
<1> QED
  BY <1>3, <1>4, <1>5 DEF e

LEMMA FactorsOut ==
  ASSUME NEW u \in Int, NEW n \in Int, NEW q \in Int, NEW b \in Int, NEW p \in Int
  PROVE  ((u * n) * (u * n)) * q * ((b * b) * p)
           = ((u * u) * (b * b)) * ((n * n) * (q * p))
<1>1. (u * n) * (u * n) = (u * u) * (n * n)
  OBVIOUS
<1> QED
  BY <1>1

LEMMA FactorsOut2 ==
  ASSUME NEW u \in Int, NEW q \in Int, NEW b \in Int, NEW m \in Int, NEW p \in Int
  PROVE  (u * u) * q * (((b * m) * (b * m)) * p)
           = ((u * u) * (b * b)) * ((m * m) * (q * p))
<1>1. (b * m) * (b * m) = (b * b) * (m * m)
  OBVIOUS
<1> QED
  BY <1>1

\* What the model has just learnt is not further from its mean, measured by
\* its spread, than before.
LEMMA LearntIsCloser ==
  ASSUME NEW s, StatsOK(s), NEW x \in Int
  PROVE  AtMost(ZSquared(UpdateStats(s, x), x), ZSquared(s, x))
<1>1. PICK n, a, b, c, d : StatsAre(s, n, a, b, c, d)
  BY DEF StatsOK
<1>2. /\ n \in Nat /\ n >= 2 /\ a \in Int /\ b \in Nat \ {0}
      /\ c \in Nat /\ d \in Nat \ {0} /\ s.mean = Frac(a, b)
  BY <1>1 DEF StatsAre
<1> DEFINE u == x * b - a  g == (u * u) * n  e == b * (b * (n + 1))
           m == n + 1  t == a * (n + 1) + u  r == b * (n + 1)
           f == c * e + g * d  h == d * e  new == UpdateStats(s, x)
<1>3. u \in Int
  BY <1>2
<1>4. Adds(n, b, u, g, e)
  BY <1>2, <1>3 DEF Adds
<1>5. Minus(Whole(x), s.mean) = Frac(u, b)
  BY <1>2, DistanceIs
<1>6. /\ e \in Nat \ {0} /\ g \in Nat
      /\ StatsAre(new, m, t, r, f, h)
  <2> HIDE DEF g, e, u
  <2> QED
    BY <1>1, <1>3, <1>4, UpdateAre DEF u
<1>7. Minus(Whole(x), new.mean) = Frac(u * n, r)
  <2> HIDE DEF u
  <2> QED
    BY <1>1, <1>3, NewDistance DEF u
<1>8. PICK p, q : SpreadIs(n, c, d, p, q) /\ Spread(s) = Frac(p, q)
  BY <1>1, SpreadFrac
<1>9. PICK p1, q1 : SpreadIs(m, f, h, p1, q1) /\ Spread(new) = Frac(p1, q1)
  <2> HIDE DEF m, t, r, f, h, new
  <2> QED
    BY <1>6, SpreadFrac
<1>10. /\ p \in Nat \ {0} /\ q \in Nat \ {0} /\ p1 \in Nat \ {0} /\ q1 \in Nat \ {0}
       /\ q1 <= 10000 * p1 /\ (c * e + g * d) * q1 <= ((d * e) * n) * p1
  <2>1. m - 1 = n
    BY <1>2
  <2> HIDE DEF e, g, u, m
  <2> QED
    BY <1>8, <1>9, <2>1 DEF SpreadIs
<1> HIDE DEF u, g, e
<1>11. c * q1 <= (d * n) * p1
  BY <1>2, <1>6, <1>10, SpreadBound
<1>12. (n * n) * (q1 * p) <= (m * m) * (q * p1)
  BY <1>2, <1>8, <1>10, <1>11, SpreadRatio
<1>13. ZSquared(s, x) = Frac((u * u) * q, (b * b) * p)
  BY <1>1, <1>3, <1>5, <1>8, ZSquaredIs
<1>14. ZSquared(new, x) = Frac(((u * n) * (u * n)) * q1, (r * r) * p1)
  <2> DEFINE v == u * n
  <2>1. v \in Int
    BY <1>2, <1>3
  <2> HIDE DEF v, r, m, t, f, h, new
  <2> QED
    BY <1>6, <1>7, <1>9, <2>1, ZSquaredIs DEF v
<1> DEFINE A == ((u * n) * (u * n)) * q1  B == (r * r) * p1
           C == (u * u) * q  D == (b * b) * p  k == (u * u) * (b * b)
           v == (n * n) * (q1 * p)  w == (m * m) * (q * p1)
<1>15. A \in Int /\ C \in Int /\ B \in Nat \ {0} /\ D \in Nat \ {0} /\ k \in Nat
  <2>1. r \in Nat \ {0}
    BY <1>2, ProductPositive
  <2>2. u * n \in Int /\ u * u \in Nat /\ b * b \in Nat \ {0} /\ r * r \in Nat \ {0}
    BY <1>2, <1>3, <2>1, SquareNat, ProductPositive
  <2> HIDE DEF r
  <2>3. (u * n) * (u * n) \in Int
    BY <2>2
  <2>4. k \in Nat
    BY <2>2, ProductNat
  <2>5. B \in Nat \ {0} /\ D \in Nat \ {0}
    BY <1>10, <2>2, ProductPositive
  <2>6. A \in Int /\ C \in Int
    BY <1>10, <2>2, <2>3
  <2> QED
    BY <2>4, <2>5, <2>6
<1>16. A * D = k * v /\ C * B = k * w
  <2>1. A * D = k * v
    BY <1>2, <1>3, <1>10, FactorsOut
  <2>2. C * B = k * w
    BY <1>2, <1>3, <1>10, FactorsOut2
  <2> QED
    BY <2>1, <2>2
<1>17. v \in Int /\ w \in Int
  BY <1>2, <1>10
<1> HIDE DEF A, B, C, D, k, v, w
<1>18. k * v <= k * w
  BY <1>12, <1>15, <1>17, KeepFactor DEF v, w
<1>19. AtMost(Frac(A, B), Frac(C, D))
  BY <1>15, <1>16, <1>18, AtMostFrac
<1> QED
  BY <1>13, <1>14, <1>19 DEF A, B, C, D

\* The order of fractions.
IsFraction(p) == p.num \in Int /\ p.den \in Nat \ {0}

LEMMA FracIsFraction ==
  ASSUME NEW n \in Int, NEW d \in Nat \ {0} PROVE IsFraction(Frac(n, d))
  BY FracValue DEF IsFraction

LEMMA AtMostTotal ==
  ASSUME NEW p, NEW q, IsFraction(p), IsFraction(q)
  PROVE  /\ AtMost(p, p)
         /\ AtMost(p, q) \/ AtMost(q, p)
<1>1. p.num * p.den \in Int /\ p.num * q.den \in Int /\ q.num * p.den \in Int
  BY DEF IsFraction
<1> QED
  BY <1>1 DEF AtMost

LEMMA AtMostTransitive ==
  ASSUME NEW p, NEW q, NEW r, IsFraction(p), IsFraction(q), IsFraction(r),
         AtMost(p, q), AtMost(q, r)
  PROVE  AtMost(p, r)
<1> DEFINE a == p.num  b == p.den  c == q.num  d == q.den  e == r.num  f == r.den
<1>1. /\ a \in Int /\ c \in Int /\ e \in Int
      /\ b \in Nat \ {0} /\ d \in Nat \ {0} /\ f \in Nat \ {0}
      /\ a * d <= c * b /\ c * f <= e * d
  BY DEF IsFraction, AtMost
<1> HIDE DEF a, b, c, d, e, f
<1>2. a * d \in Int /\ c * b \in Int /\ c * f \in Int /\ e * d \in Int
  BY <1>1
<1>3. f * (a * d) <= f * (c * b) /\ b * (c * f) <= b * (e * d)
  BY <1>1, <1>2, KeepFactor
<1>4. /\ f * (a * d) = d * (a * f) /\ f * (c * b) = b * (c * f)
      /\ b * (e * d) = d * (e * b)
  BY <1>1
<1>5. a * f \in Int /\ e * b \in Int /\ b * (c * f) \in Int
      /\ d * (a * f) \in Int /\ d * (e * b) \in Int
  BY <1>1
<1>6. d * (a * f) <= d * (e * b)
  <2> DEFINE x == d * (a * f)  y == b * (c * f)  z == d * (e * b)
  <2>1. x <= y /\ y <= z /\ x \in Int /\ y \in Int /\ z \in Int
    BY <1>3, <1>4, <1>5
  <2> HIDE DEF x, y, z
  <2>2. x <= z
    BY <2>1
  <2> QED
    BY <2>2 DEF x, z
<1>7. a * f <= e * b
  <2> DEFINE x == a * f  y == e * b
  <2>1. x \in Int /\ y \in Int /\ d * x <= d * y
    BY <1>5, <1>6
  <2> HIDE DEF x, y
  <2>2. x <= y
    BY <1>1, <2>1, CancelFactor
  <2> QED
    BY <2>2 DEF x, y
<1> QED
  BY <1>7 DEF AtMost, a, b, e, f

\* A finite set of scores has a largest.
LEMMA LargestIs ==
  ASSUME NEW S, IsFiniteSet(S), S # {}, \A s \in S : IsFraction(s.z)
  PROVE  /\ Largest(S) \in S
         /\ \A t \in S : AtMost(t.z, Largest(S).z)
<1> DEFINE Has(T) == \E s \in T : \A t \in T : AtMost(t.z, s.z)
           C == {T \in SUBSET S : T # {} /\ ~ Has(T)}
<1>1. SUFFICES ASSUME C # {} PROVE FALSE
  <2>1. Has(S)
    BY <1>1
  <2> QED
    BY <2>1 DEF Largest
<1>2. PICK T \in C : \A x \in T : T \ {x} \notin C
  <2>1. C \subseteq SUBSET S
    OBVIOUS
  <2> HIDE DEF C
  <2> QED
    BY <1>1, <2>1, SmallestSet
<1>3. PICK x \in T : TRUE
  BY <1>2
<1>4. CASE T \ {x} = {}
  <2>1. \A t \in T : AtMost(t.z, x.z)
    BY <1>2, <1>4, AtMostTotal
  <2> QED
    BY <1>2, <2>1
<1>5. CASE T \ {x} # {}
  <2>1. PICK m \in T \ {x} : \A t \in T \ {x} : AtMost(t.z, m.z)
    BY <1>2, <1>5
  <2>2. IsFraction(x.z) /\ IsFraction(m.z) /\ \A t \in T : IsFraction(t.z)
    BY <1>2
  <2>3. CASE AtMost(x.z, m.z)
    <3>1. \A t \in T : AtMost(t.z, m.z)
      BY <2>1, <2>3
    <3> QED
      BY <1>2, <3>1
  <2>4. CASE AtMost(m.z, x.z)
    <3>1. \A t \in T : AtMost(t.z, x.z)
      BY <2>1, <2>2, <2>4, AtMostTransitive, AtMostTotal
    <3> QED
      BY <1>2, <3>1
  <2> QED
    BY <2>2, <2>3, <2>4, AtMostTotal
<1> QED
  BY <1>4, <1>5

LEMMA FeaturesAre ==
  /\ Features = {"rpm", "similarity", "entropy_inv", "prompt_len", "duration_mins"}
  /\ IsFiniteSet(Features)
<1>1. DOMAIN Dimensions = 1..5
  BY DEF Dimensions
<1>2. Features = {Dimensions[i] : i \in 1..5}
  BY <1>1 DEF Features, ToSet
<1>3. Features = {"rpm", "similarity", "entropy_inv", "prompt_len", "duration_mins"}
  BY <1>2 DEF Dimensions
<1>4. Features = Image(Dimensions, 1..5)
  BY <1>2 DEF Image
<1>5. IsFiniteSet(Features)
  <2>1. IsFiniteSet(1..5)
    BY IntervalFinite
  <2> QED
    BY <1>4, <2>1, ImageFinite
<1> QED
  BY <1>3, <1>5

\* A model and an observation it can be given.
ScoredOK(stats, v) == /\ \A f \in Features : StatsOK(stats[f])
                      /\ \A f \in Features : v[f] \in Int

LEMMA ZSquaredOK ==
  ASSUME NEW s, StatsOK(s), NEW x \in Int
  PROVE  IsFraction(ZSquared(s, x))
<1>1. PICK n, a, b, c, d : StatsAre(s, n, a, b, c, d)
  BY DEF StatsOK
<1> DEFINE u == x * b - a
<1>2. u \in Int /\ b \in Nat \ {0} /\ a \in Int /\ s.mean = Frac(a, b)
  BY <1>1 DEF StatsAre
<1>3. PICK p, q : SpreadIs(n, c, d, p, q) /\ Spread(s) = Frac(p, q)
  BY <1>1, SpreadFrac
<1>4. Minus(Whole(x), s.mean) = Frac(u, b)
  BY <1>2, DistanceIs
<1>5. ZSquared(s, x) = Frac((u * u) * q, (b * b) * p)
  <2> HIDE DEF u
  <2> QED
    BY <1>1, <1>2, <1>3, <1>4, ZSquaredIs
<1>6. (u * u) * q \in Int /\ (b * b) * p \in Nat \ {0}
  <2>1. p \in Nat \ {0} /\ q \in Nat \ {0} /\ u * u \in Int /\ b * b \in Nat \ {0}
    BY <1>2, <1>3, ProductPositive DEF SpreadIs
  <2> HIDE DEF u
  <2> QED
    BY <2>1, ProductPositive
<1> HIDE DEF u
<1> QED
  BY <1>5, <1>6, FracIsFraction

\* The score is one z-score, and another is at least as large: none of the
\* rest is larger than it.
LEMMA ScoredIs ==
  ASSUME NEW stats, NEW v, ScoredOK(stats, v)
  PROVE  \E s, top \in Features :
            /\ s # top /\ ScoredZ(stats, v) = ZSquared(stats[s], v[s])
            /\ AtMost(ZSquared(stats[s], v[s]), ZSquared(stats[top], v[top]))
            /\ \A f \in Features \ {top} :
                  AtMost(ZSquared(stats[f], v[f]), ZSquared(stats[s], v[s]))
<1> DEFINE S == ZScores(stats, v)
           entry(f) == [of |-> f, z |-> ZSquared(stats[f], v[f])]
           m == Largest(S)  k == Largest(S \ {m})
<1>1. \A f \in Features : IsFraction(ZSquared(stats[f], v[f]))
  BY ZSquaredOK DEF ScoredOK
<1>2. \A s \in S : s.of \in Features /\ s = entry(s.of)
  BY DEF ZScores
<1>3. \A f \in Features : entry(f) \in S
  BY DEF ZScores
<1>4. IsFiniteSet(S)
  <2>1. S = Image([f \in Features |-> entry(f)], Features)
    BY DEF ZScores, Image
  <2> HIDE DEF S
  <2> QED
    BY <2>1, FeaturesAre, ImageFinite
<1>5. \A s \in S : IsFraction(s.z)
  BY <1>1, <1>2
<1> HIDE DEF S
<1>6. m \in S /\ \A t \in S : AtMost(t.z, m.z)
  <2>1. S # {}
    BY <1>3, FeaturesAre
  <2> QED
    BY <1>4, <1>5, <2>1, LargestIs
<1>7. S \ {m} # {}
  <2>1. entry("rpm") \in S /\ entry("similarity") \in S
    BY <1>3, FeaturesAre
  <2>2. entry("rpm").of # entry("similarity").of
    OBVIOUS
  <2> QED
    BY <2>1, <2>2
<1> HIDE DEF m
<1>8. k \in S \ {m} /\ \A t \in S \ {m} : AtMost(t.z, k.z)
  <2> DEFINE R == S \ {m}
  <2>1. IsFiniteSet(R) /\ R # {} /\ \A s \in R : IsFraction(s.z)
    BY <1>4, <1>5, <1>7, SubsetFinite
  <2> HIDE DEF R
  <2>2. Largest(R) \in R /\ \A t \in R : AtMost(t.z, Largest(R).z)
    BY <2>1, LargestIs
  <2> QED
    BY <2>2 DEF R
<1>9. ScoredZ(stats, v) = k.z
  BY DEF ScoredZ, S, m
<1> HIDE DEF k
<1> DEFINE s == k.of  top == m.of
<1>10. s \in Features /\ top \in Features /\ k = entry(s) /\ m = entry(top)
  BY <1>2, <1>6, <1>8
<1>11. s # top
  BY <1>8, <1>10
<1>12. k.z = ZSquared(stats[s], v[s]) /\ m.z = ZSquared(stats[top], v[top])
  <2> HIDE DEF s, top
  <2> QED
    BY <1>10
<1>13. ASSUME NEW f \in Features \ {top}
       PROVE  AtMost(ZSquared(stats[f], v[f]), k.z)
  <2>1. entry(f) \in S /\ entry(f) # m
    <3>1. entry(f).of = f /\ m.of # f
      OBVIOUS
    <3> QED
      BY <1>3, <3>1
  <2>2. AtMost(entry(f).z, k.z)
    <3> HIDE DEF entry
    <3> QED
      BY <1>8, <2>1
  <2> QED
    BY <2>2
<1> HIDE DEF s, top
<1> QED
  BY <1>6, <1>8, <1>9, <1>10, <1>11, <1>12, <1>13

\* No score rises when no z-score does.
LEMMA ScoreMonotone ==
  ASSUME NEW old, NEW new, NEW v, ScoredOK(old, v), ScoredOK(new, v),
         \A f \in Features : AtMost(ZSquared(new[f], v[f]), ZSquared(old[f], v[f]))
  PROVE  AtMost(ScoredZ(new, v), ScoredZ(old, v))
<1> DEFINE z(f) == ZSquared(old[f], v[f])  y(f) == ZSquared(new[f], v[f])
<1>1. PICK s, top \in Features :
        /\ ScoredZ(old, v) = z(s)
        /\ \A f \in Features \ {top} : AtMost(z(f), z(s))
  BY ScoredIs
<1>2. PICK s1, top1 \in Features :
        /\ s1 # top1 /\ ScoredZ(new, v) = y(s1) /\ AtMost(y(s1), y(top1))
  BY ScoredIs
<1>3. \A f \in Features : IsFraction(z(f)) /\ IsFraction(y(f)) /\ AtMost(y(f), z(f))
  BY ZSquaredOK DEF ScoredOK
<1> HIDE DEF z, y
<1>4. PICK f \in {s1, top1} : f # top
  BY <1>2
<1>5. AtMost(y(s1), y(f))
  BY <1>2, <1>3, <1>4, AtMostTotal
<1>6. AtMost(y(f), z(f)) /\ AtMost(z(f), z(s))
  BY <1>1, <1>3, <1>4
<1>7. AtMost(y(s1), z(f))
  BY <1>3, <1>4, <1>5, <1>6, AtMostTransitive
<1>8. AtMost(y(s1), z(s))
  BY <1>3, <1>4, <1>6, <1>7, AtMostTransitive
<1> QED
  BY <1>1, <1>2, <1>8

(***************************************************************************)
(* The velocity signal.                                                    *)
(***************************************************************************)
\* A record of n requests, none of them after now.
RecordOK(times, n, t) ==
    /\ n \in Nat /\ t \in Int /\ DOMAIN times = 1..n
    /\ \A k \in 1..n : times[k] \in Int /\ times[k] <= t

LEMMA WeightsOK ==
  ASSUME NEW age \in 0..Window
  PROVE  /\ Weight(age) \in Nat /\ Weight(age) <= Decay[1] /\ Decay[1] \in Nat \ {0}
         /\ age < Window => Weight(age + 1) <= Weight(age)
<1>1. Window \in Nat /\ Decay \in Seq(Nat) /\ Len(Decay) = Window + 1 /\ Decay[1] > 0
  BY VelocityAssumption DEF VelocityAssumption
<1>2. DOMAIN Decay = 1..(Window + 1) /\ \A k \in 1..(Window + 1) : Decay[k] \in Nat
  BY <1>1
<1>3. \A j, k \in 1..(Window + 1) : j <= k => Decay[j] >= Decay[k]
  BY <1>2, VelocityAssumption DEF VelocityAssumption
<1>4. age + 1 \in 1..(Window + 1) /\ 1 \in 1..(Window + 1) /\ 1 <= age + 1
  BY <1>1
<1>5. age < Window => age + 1 + 1 \in 1..(Window + 1)
  BY <1>1
<1> QED
  BY <1>1, <1>2, <1>3, <1>4, <1>5 DEF Weight

\* An age in whole seconds.
LEMMA AgeIs ==
  ASSUME NEW s \in Int, NEW t \in Int, s <= t
  PROVE  LET a == Age(s, t)
         IN  /\ Second \in Nat \ {0} /\ a \in Nat
             /\ a * Second <= t - s /\ t - s < a * Second + Second
<1> DEFINE d == Second  x == t - s  q == x \div d
<1>1. d \in Nat \ {0} /\ x \in Nat
  BY VelocityAssumption DEF VelocityAssumption
<1>2. /\ q \in Int /\ x % d \in Nat /\ x % d < d /\ x = d * q + (x % d)
  <2> HIDE DEF d, x, q
  <2> QED
    BY <1>1, DivMod DEF q
<1> HIDE DEF d, x, q
<1>3. q \in Nat
  <2>1. SUFFICES ASSUME q <= -1 PROVE FALSE
    BY <1>2
  <2>2. 0 - q >= 1 /\ 0 - q \in Nat
    BY <1>2, <2>1
  <2>3. d * 1 <= d * (0 - q)
    BY <1>1, <2>2, KeepFactor
  <2>4. d * (0 - q) = 0 - d * q /\ d * q \in Int
    BY <1>1, <1>2
  <2> QED
    BY <1>1, <1>2, <2>3, <2>4
<1>4. q * d <= x /\ x < q * d + d
  <2>1. d * q = q * d /\ d * q \in Int
    BY <1>1, <1>2
  <2> QED
    BY <1>1, <1>2, <2>1
<1>5. Age(s, t) = q
  BY DEF Age, q, x, d
<1> QED
  BY <1>1, <1>3, <1>4, <1>5 DEF x, d

LEMMA AgeIsInt ==
  ASSUME NEW s \in Int, NEW t \in Int, s <= t
  PROVE  Age(s, t) \in Int
<1>1. Age(s, t) \in Nat
  BY AgeIs
<1> QED
  BY <1>1

\* Whole numbers of d keep the order of what they are cut from.
LEMMA CutsInOrder ==
  ASSUME NEW d \in Nat \ {0}, NEW p \in Nat, NEW q \in Nat, p * d < q * d + d
  PROVE  p <= q
<1> SUFFICES ASSUME q + 1 <= p PROVE FALSE
  OBVIOUS
<1>1. d * (q + 1) <= d * p
  BY KeepFactor
<1>2. d * (q + 1) = q * d + d /\ d * p = p * d /\ p * d \in Int /\ q * d \in Int
  OBVIOUS
<1> QED
  BY <1>1, <1>2

\* The later of two requests is not the older.
LEMMA AgesInOrder ==
  ASSUME NEW s \in Int, NEW r \in Int, NEW t \in Int, s <= r, r <= t
  PROVE  Age(r, t) <= Age(s, t)
<1> DEFINE p == Age(r, t)  q == Age(s, t)  d == Second
<1>1. d \in Nat \ {0} /\ p \in Nat /\ p * d <= t - r
  BY AgeIs
<1>2. q \in Nat /\ t - s < q * d + d
  BY AgeIs
<1> HIDE DEF p, q, d
<1>3. p * d \in Int /\ q * d \in Int
  BY <1>1, <1>2
<1>4. p * d < q * d + d
  BY <1>1, <1>2, <1>3
<1>5. p <= q
  BY <1>1, <1>2, <1>4, CutsInOrder
<1> QED
  BY <1>5 DEF p, q

\* A second later, an age is one more.
LEMMA AgesGrow ==
  ASSUME NEW s \in Int, NEW t \in Int, s <= t
  PROVE  Age(s, t + Second) = Age(s, t) + 1
<1> DEFINE p == Age(s, t)  q == Age(s, t + Second)  d == Second
<1>1. d \in Nat \ {0} /\ p \in Nat /\ p * d <= t - s /\ t - s < p * d + d
  BY AgeIs
<1>2. t + d \in Int /\ s <= t + d
  BY <1>1
<1>3. q \in Nat /\ q * d <= (t + d) - s /\ (t + d) - s < q * d + d
  BY <1>2, AgeIs
<1> HIDE DEF p, q, d
<1>4. (p + 1) * d = p * d + d /\ p * d \in Int /\ q * d \in Int /\ p + 1 \in Nat
  BY <1>1, <1>3
<1>5. q * d < (p + 1) * d + d /\ (p + 1) * d < q * d + d
  BY <1>1, <1>3, <1>4
<1>6. q <= p + 1 /\ p + 1 <= q
  BY <1>1, <1>3, <1>4, <1>5, CutsInOrder
<1>7. q = p + 1
  BY <1>1, <1>3, <1>6
<1> QED
  BY <1>7 DEF p, q, d

LEMMA InsideOK ==
  ASSUME NEW times, NEW n, NEW t, RecordOK(times, n, t)
  PROVE  /\ Inside(times, t) \subseteq 1..n /\ IsFiniteSet(Inside(times, t))
         /\ DOMAIN Ages(times, t) = Inside(times, t)
         /\ \A k \in Inside(times, t) :
              /\ Ages(times, t)[k] = Age(times[k], t)
              /\ Ages(times, t)[k] \in 0..Window
<1>1. Inside(times, t) \subseteq 1..n
  BY DEF Inside, RecordOK
<1>2. IsFiniteSet(Inside(times, t))
  <2>1. IsFiniteSet(1..n)
    BY IntervalFinite DEF RecordOK
  <2> QED
    BY <1>1, <2>1, SubsetFinite
<1>3. ASSUME NEW k \in Inside(times, t) PROVE Age(times[k], t) \in 0..Window
  <2> DEFINE s == times[k]  a == Age(s, t)  d == Second  w == Window
  <2>1. s \in Int /\ t \in Int /\ s <= t /\ s >= t - w * d
    BY <1>1 DEF Inside, RecordOK
  <2>2. d \in Nat \ {0} /\ a \in Nat /\ a * d <= t - s
    BY <2>1, AgeIs
  <2>3. w \in Nat
    BY VelocityAssumption DEF VelocityAssumption
  <2> HIDE DEF s, a, d, w
  <2>4. w * d \in Int /\ a * d \in Int
    BY <2>2, <2>3
  <2>5. a * d < w * d + d
    BY <2>1, <2>2, <2>4
  <2>6. a <= w
    BY <2>2, <2>3, <2>5, CutsInOrder
  <2>7. a \in 0..w
    BY <2>2, <2>3, <2>6
  <2> QED
    BY <2>7 DEF a, s, w
<1> QED
  BY <1>1, <1>2, <1>3 DEF Ages

Weights(times, t) == [k \in Inside(times, t) |-> Weight(Ages(times, t)[k])]

LEMMA CountIs ==
  ASSUME NEW times, NEW n, NEW t, RecordOK(times, n, t)
  PROVE  /\ WeightedCount(Ages(times, t)) = Sum(Weights(times, t), Inside(times, t))
         /\ WeightedCount(Ages(times, t)) \in Nat
         /\ \A k \in Inside(times, t) :
               /\ Weights(times, t)[k] = Weight(Age(times[k], t))
               /\ Weights(times, t)[k] \in Nat
<1> DEFINE w == Weights(times, t)  S == Inside(times, t)  z == [k \in S |-> 0]
<1>1. WeightedCount(Ages(times, t)) = SumFunction(w) /\ DOMAIN w = S
  BY InsideOK DEF WeightedCount, Weights
<1>2. \A k \in S : w[k] = Weight(Age(times[k], t)) /\ w[k] \in Nat
  BY InsideOK, WeightsOK DEF Weights
<1>3. \A k \in S : z[k] = 0 /\ z[k] \in Int /\ w[k] \in Int /\ z[k] <= w[k]
  BY <1>2
<1>4. IsFiniteSet(S)
  BY InsideOK
<1> HIDE DEF w, S, z
<1>5. SumFunction(w) = Sum(w, S)
  BY <1>1, SumOver
<1>6. Sum(z, S) = 0 * Cardinality(S)
  BY <1>3, <1>4, SumConstant
<1>7. 0 * Cardinality(S) = 0
  BY <1>4, FiniteCardinal
<1>8. Sum(z, S) <= Sum(w, S) /\ Sum(w, S) \in Int
  BY <1>3, <1>4, SumAtMost, SumType
<1> QED
  BY <1>1, <1>2, <1>5, <1>6, <1>7, <1>8 DEF w, S

\* The rate of two requests or more.
LEMMA RateIs ==
  ASSUME NEW times, NEW n, NEW t, RecordOK(times, n, t)
  PROVE  LET S == Inside(times, t)  a == Ages(times, t)
         IN  /\ Cardinality(S) \in Nat
             /\ Cardinality(S) < 2 => WeightedRpm(times, t) = Frac(0, 1)
             /\ Cardinality(S) >= 2 =>
                  /\ S # {} /\ Min(S) \in S /\ Max(S) \in S
                  /\ Span(a) \in Nat \ {0}
                  /\ Span(a) = Larger(Age(times[Min(S)], t) - Age(times[Max(S)], t), 1)
                  /\ Decay[1] * Span(a) \in Nat \ {0}
                  /\ WeightedCount(a) * Minute \in Nat
                  /\ WeightedRpm(times, t) = Frac(WeightedCount(a) * Minute,
                                                  Decay[1] * Span(a))
<1> DEFINE S == Inside(times, t)  a == Ages(times, t)
<1>1. /\ S \subseteq 1..n /\ IsFiniteSet(S) /\ DOMAIN a = S
      /\ \A k \in S : a[k] = Age(times[k], t) /\ a[k] \in 0..Window
  BY InsideOK
<1>2. Cardinality(S) \in Nat
  BY <1>1, FiniteCardinal
<1>3. CASE Cardinality(S) < 2
  <2>1. Whole(0) = Frac(0, 1)
    BY WholeIsFrac
  <2> HIDE DEF S
  <2>2. WeightedRpm(times, t) = Whole(0)
    BY <1>1, <1>3 DEF WeightedRpm
  <2> QED
    BY <1>2, <1>3, <2>1, <2>2 DEF S
<1>4. CASE Cardinality(S) >= 2
  <2>1. S # {}
    <3> HIDE DEF S
    <3> QED
      BY <1>1, <1>2, <1>4, FiniteCardinal
  <2>2. Min(S) \in S /\ Max(S) \in S
    <3> HIDE DEF S
    <3> QED
      BY <1>1, <2>1, LowestHighest DEF RecordOK
  <2>3. a[Min(S)] - a[Max(S)] = Age(times[Min(S)], t) - Age(times[Max(S)], t)
        /\ a[Min(S)] - a[Max(S)] \in Int
    <3> DEFINE x == Min(S)  y == Max(S)
    <3>2. x \in S /\ y \in S
      BY <2>2
    <3> HIDE DEF S, a, x, y
    <3>3. a[x] = Age(times[x], t) /\ a[y] = Age(times[y], t)
      BY <1>1, <3>2
    <3>4. a[x] \in Int /\ a[y] \in Int
      BY <1>1, <3>2
    <3>5. a[x] - a[y] = Age(times[x], t) - Age(times[y], t) /\ a[x] - a[y] \in Int
      BY <3>3, <3>4
    <3> QED
      BY <3>5 DEF x, y
  <2>4. Span(a) = Larger(Age(times[Min(S)], t) - Age(times[Max(S)], t), 1)
        /\ Span(a) = Larger(a[Min(S)] - a[Max(S)], 1)
    BY <1>1, <2>3 DEF Span
  <2>5. Span(a) \in Nat \ {0}
    BY <2>3, <2>4 DEF Larger
  <2>6. Decay[1] \in Nat \ {0} /\ Minute \in Nat /\ Window \in Nat
    BY VelocityAssumption DEF VelocityAssumption
  <2>7. Decay[1] * Span(a) \in Nat \ {0}
    <3> HIDE DEF a
    <3> QED
      BY <2>5, <2>6, ProductPositive
  <2>8. WeightedCount(a) * Minute \in Nat
    <3>1. WeightedCount(a) \in Nat
      BY CountIs
    <3> HIDE DEF a
    <3> QED
      BY <2>6, <3>1, ProductNat
  <2>9. WeightedRpm(times, t) = Frac(WeightedCount(a) * Minute, Decay[1] * Span(a))
    <3>1. ~ (Cardinality(S) < 2)
      BY <1>2, <1>4
    <3> HIDE DEF S
    <3> QED
      BY <1>1, <3>1 DEF WeightedRpm
  <2> HIDE DEF S, a
  <2>10. ~ (Cardinality(S) < 2)
    BY <1>2, <1>4
  <2> QED
    BY <1>2, <2>1, <2>2, <2>4, <2>5, <2>7, <2>8, <2>9, <2>10 DEF S, a
<1> QED
  BY <1>2, <1>3, <1>4

LEMMA WaitingOK ==
  ASSUME NEW times, NEW n, NEW t, NEW u, u = t + Second,
         RecordOK(times, n, t), RecordOK(times, n, u),
         Inside(times, u) = Inside(times, t)
  PROVE  AtMost(WeightedRpm(times, u), WeightedRpm(times, t))
<1> DEFINE S == Inside(times, t)  a == Ages(times, t)  b == Ages(times, u)
           v == Weights(times, t)  w == Weights(times, u)
           wa == WeightedCount(a)  wb == WeightedCount(b)
<1>1. Cardinality(S) \in Nat
  BY RateIs
<1>2. CASE Cardinality(S) < 2
  <2>1. WeightedRpm(times, t) = Frac(0, 1) /\ WeightedRpm(times, u) = Frac(0, 1)
    BY <1>2, RateIs
  <2> QED
    BY <2>1, FracIsFraction, AtMostTotal
<1>3. CASE Cardinality(S) >= 2
  <2>1. /\ wa = Sum(v, S) /\ wb = Sum(w, S) /\ wa \in Nat /\ wb \in Nat
        /\ \A k \in S : v[k] = Weight(Age(times[k], t)) /\ v[k] \in Nat
        /\ \A k \in S : w[k] = Weight(Age(times[k], u)) /\ w[k] \in Nat
    BY CountIs
  <2>2. \A k \in S : w[k] <= v[k]
    <3> SUFFICES ASSUME NEW k \in S PROVE w[k] <= v[k]
      OBVIOUS
    <3> DEFINE age == Age(times[k], t)
    <3>1. age \in 0..Window /\ Age(times[k], u) \in 0..Window
      BY InsideOK
    <3>2. Age(times[k], u) = age + 1 /\ age < Window
      <4>1. t \in Int /\ times[k] \in Int /\ times[k] <= t
        BY InsideOK DEF RecordOK
      <4>2. Window \in Nat
        BY VelocityAssumption DEF VelocityAssumption
      <4>3. Age(times[k], u) = age + 1
        BY <4>1, AgesGrow
      <4> HIDE DEF age
      <4> QED
        BY <3>1, <4>2, <4>3
    <3> HIDE DEF age, S, v, w
    <3>3. Weight(age + 1) <= Weight(age)
      BY <3>1, <3>2, WeightsOK
    <3> QED
      BY <2>1, <3>2, <3>3 DEF age
  <2>3. IsFiniteSet(S)
    BY InsideOK
  <2>4. wb <= wa
    <3>1. \A k \in S : w[k] \in Int /\ v[k] \in Int /\ w[k] <= v[k]
      BY <2>1, <2>2
    <3> HIDE DEF S, v, w, wa, wb
    <3> QED
      BY <2>1, <2>3, <3>1, SumAtMost
  <2> DEFINE D == Decay[1] * Span(a)  A == wa * Minute  B == wb * Minute
  <2>5. /\ D \in Nat \ {0} /\ A \in Nat /\ WeightedRpm(times, t) = Frac(A, D)
        /\ Span(a) = Larger(Age(times[Min(S)], t) - Age(times[Max(S)], t), 1)
    BY <1>3, RateIs
  <2>6. /\ B \in Nat /\ WeightedRpm(times, u) = Frac(B, Decay[1] * Span(b))
        /\ Span(b) = Larger(Age(times[Min(S)], u) - Age(times[Max(S)], u), 1)
        /\ Min(S) \in S /\ Max(S) \in S
    BY <1>3, RateIs
  <2>7. WeightedRpm(times, u) = Frac(B, D)
    <3> DEFINE x == Min(S)  y == Max(S)
    <3>1. /\ times[x] \in Int /\ times[x] <= t /\ times[y] \in Int /\ times[y] <= t
          /\ t \in Int
      BY <2>6, InsideOK DEF RecordOK
    <3>2. Age(times[x], u) = Age(times[x], t) + 1 /\ Age(times[y], u) = Age(times[y], t) + 1
      BY <3>1, AgesGrow
    <3>3. Age(times[x], t) \in Int /\ Age(times[y], t) \in Int
      BY <3>1, AgeIsInt
    <3>4. Age(times[x], u) - Age(times[y], u) = Age(times[x], t) - Age(times[y], t)
      BY <3>2, <3>3
    <3> QED
      BY <2>5, <2>6, <3>4
  <2>8. B <= A
    <3>1. Minute \in Nat
      BY VelocityAssumption DEF VelocityAssumption
    <3> HIDE DEF wa, wb
    <3>2. Minute * wb <= Minute * wa
      BY <2>1, <2>4, <3>1, KeepFactor
    <3> QED
      BY <2>1, <3>1, <3>2
  <2> HIDE DEF A, B, D
  <2>9. B * D <= A * D
    <3>1. D * B <= D * A
      BY <2>5, <2>6, <2>8, KeepFactor
    <3> QED
      BY <2>5, <2>6, <3>1
  <2> QED
    BY <2>5, <2>6, <2>7, <2>9, AtMostFrac
<1> QED
  BY <1>1, <1>2, <1>3

\* No weight is more than that of a request made now.
LEMMA CountAtMost ==
  ASSUME NEW times, NEW n, NEW t, RecordOK(times, n, t)
  PROVE  WeightedCount(Ages(times, t)) <= Decay[1] * Cardinality(Inside(times, t))
<1> DEFINE S == Inside(times, t)  w == Weights(times, t)  c == [k \in S |-> Decay[1]]
           W == WeightedCount(Ages(times, t))
<1>1. /\ W = Sum(w, S)
      /\ \A k \in S : w[k] = Weight(Age(times[k], t)) /\ w[k] \in Nat
  BY CountIs
<1>2. Decay[1] \in Nat
  BY VelocityAssumption DEF VelocityAssumption
<1>3. \A k \in S : w[k] <= Decay[1]
  BY <1>1, InsideOK, WeightsOK
<1>4. \A k \in S : c[k] = Decay[1] /\ c[k] \in Int /\ w[k] \in Int /\ w[k] <= c[k]
  BY <1>1, <1>2, <1>3
<1>5. IsFiniteSet(S)
  BY InsideOK
<1> HIDE DEF S, w, c, W
<1>6. Sum(w, S) <= Sum(c, S)
  BY <1>4, <1>5, SumAtMost
<1>7. Sum(c, S) = Decay[1] * Cardinality(S)
  BY <1>2, <1>4, <1>5, SumConstant
<1> QED
  BY <1>1, <1>6, <1>7 DEF S, W

\* Gaps of g at least, r times over, add up.
Gaps(times, n, r, g) ==
    /\ n \in Nat /\ r \in Int /\ g \in Nat
    /\ \A k \in 1..n : times[k] \in Int
    /\ \A k \in 1..(n - 1) : (times[k + 1] - times[k]) * r >= g

LEMMA GapsAddUp ==
  ASSUME NEW times, NEW n, NEW r, NEW g, Gaps(times, n, r, g),
         NEW lo \in 1..n, NEW hi \in 1..n, lo <= hi
  PROVE  (times[hi] - times[lo]) * r >= g * (hi - lo)
<1> USE DEF Gaps
<1> DEFINE T == {m \in Nat : lo + m <= n => (times[lo + m] - times[lo]) * r >= g * m}
<1>1. 0 \in T
  <2>1. (times[lo] - times[lo]) * r = 0 /\ g * 0 = 0 /\ lo + 0 = lo
    OBVIOUS
  <2> QED
    BY <2>1
<1>2. ASSUME NEW m \in T PROVE m + 1 \in T
  <2>1. SUFFICES ASSUME lo + (m + 1) <= n
                 PROVE  (times[lo + (m + 1)] - times[lo]) * r >= g * (m + 1)
    BY <1>2
  <2> DEFINE a == times[lo]  b == times[lo + m]  c == times[lo + (m + 1)]
  <2>2. a \in Int /\ b \in Int /\ c \in Int
    BY <1>2, <2>1
  <2>3. (b - a) * r >= g * m
    BY <1>2, <2>1
  <2>4. (c - b) * r >= g
    <3>1. lo + m \in 1..(n - 1) /\ lo + m + 1 = lo + (m + 1)
      BY <1>2, <2>1
    <3> QED
      BY <3>1
  <2> HIDE DEF a, b, c
  <2>5. (c - a) * r = (b - a) * r + (c - b) * r /\ g * (m + 1) = g * m + g
    BY <1>2, <2>2
  <2>6. (b - a) * r \in Int /\ (c - b) * r \in Int /\ g * m \in Int
    BY <1>2, <2>2
  <2>7. (c - a) * r >= g * (m + 1)
    BY <2>3, <2>4, <2>5, <2>6
  <2> QED
    BY <2>7 DEF a, c
<1>3. T \in SUBSET Nat
  OBVIOUS
<1> HIDE DEF T
<1>4. T = Nat
  BY <1>1, <1>2, <1>3, SetInduction
<1>5. hi - lo \in T /\ lo + (hi - lo) = hi
  BY <1>4
<1> QED
  BY <1>5 DEF T

LEMMA PacedOK ==
  ASSUME NEW times, NEW n, NEW t, RecordOK(times, n, t),
         \A k \in 1..(n - 1) :
             (times[k + 1] - times[k]) * MaxRpm >= (2 * Minute + MaxRpm) * Second
  PROVE  AtMost(WeightedRpm(times, t), Whole(MaxRpm))
<1> DEFINE S == Inside(times, t)  a == Ages(times, t)  W == WeightedCount(a)
           lo == Min(S)  hi == Max(S)  r == MaxRpm  d == Decay[1]  m == Minute
           s == Span(a)
<1>1. Cardinality(S) \in Nat
  BY RateIs
<1>2. r \in Nat \ {0} /\ d \in Nat \ {0} /\ m \in Nat \ {0} /\ n \in Nat
      /\ Whole(r) = Frac(r, 1)
  BY VelocityAssumption, WholeIsFrac DEF VelocityAssumption, RecordOK
<1>3. CASE Cardinality(S) < 2
  <2>1. WeightedRpm(times, t) = Frac(0, 1)
    BY <1>3, RateIs
  <2>2. 0 * 1 <= r * 1
    BY <1>2
  <2> HIDE DEF r
  <2> QED
    BY <1>2, <2>1, <2>2, AtMostFrac DEF r
<1>4. CASE Cardinality(S) >= 2
  <2>1. /\ S # {} /\ lo \in S /\ hi \in S /\ s \in Nat \ {0}
        /\ s = Larger(Age(times[lo], t) - Age(times[hi], t), 1)
        /\ d * s \in Nat \ {0} /\ W * m \in Nat
        /\ WeightedRpm(times, t) = Frac(W * m, d * s)
    BY <1>4, RateIs
  <2>2. S \subseteq 1..n /\ IsFiniteSet(S)
    BY InsideOK
  <2>3. \A k \in S : lo <= k /\ k <= hi
    <3> HIDE DEF S
    <3> QED
      BY <1>2, <2>1, <2>2, LowestHighest
  <2>4. W <= d * Cardinality(S) /\ W \in Nat
    BY CountAtMost, CountIs
  <2> HIDE DEF S, a, W, lo, hi, s
  <2>5. lo \in 1..n /\ hi \in 1..n /\ lo <= hi
    BY <2>1, <2>2, <2>3
  <2> DEFINE h == hi - lo  g == times[hi] - times[lo]
             p == Age(times[lo], t) - Age(times[hi], t)
  <2>6. Cardinality(S) <= h + 1
    <3>1. S \subseteq lo..hi
      BY <1>2, <2>2, <2>3, <2>5
    <3>2. lo \in Int /\ hi \in Int
      BY <2>5
    <3> QED
      BY <2>5, <3>1, <3>2, IntervalCount
  <2>7. h \in Nat /\ h >= 1
    BY <1>1, <1>4, <2>5, <2>6
  <2>8. p \in Int /\ p * r >= (2 * m) * h /\ p <= s
    <3> DEFINE e == Second  f == (2 * m + r) * e
    <3>1. \A k \in 1..n : times[k] \in Int /\ times[k] <= t /\ t \in Int
      BY DEF RecordOK
    <3>2. e \in Nat \ {0} /\ f \in Nat
      <4>1. e \in Nat \ {0} /\ 2 * m + r \in Nat
        BY <1>2, VelocityAssumption DEF VelocityAssumption
      <4> QED
        BY <4>1, ProductNat
    <3>3. g * r >= f * h
      <4>1. Gaps(times, n, r, f)
        BY <1>2, <3>1, <3>2 DEF Gaps
      <4> HIDE DEF r, m, f
      <4> QED
        BY <2>5, <4>1, GapsAddUp
    <3>4. g \in Int
      BY <2>5, <3>1
    <3>5. p \in Int /\ g < (p + 1) * e
      <4> DEFINE x == times[lo]  y == times[hi]  a1 == Age(x, t)  a2 == Age(y, t)
      <4>1. x \in Int /\ y \in Int /\ t \in Int /\ x <= t /\ y <= t
        BY <2>5, <3>1
      <4>2. a1 \in Nat /\ t - x < a1 * e + e
        BY <4>1, AgeIs
      <4>3. a2 \in Nat /\ a2 * e <= t - y
        BY <4>1, AgeIs
      <4>4. g = y - x /\ p = a1 - a2
        OBVIOUS
      <4> HIDE DEF x, y, a1, a2, g, p, e
      <4>5. (p + 1) * e = (a1 * e + e) - a2 * e /\ a1 * e \in Int /\ a2 * e \in Int
        BY <3>2, <4>2, <4>3, <4>4
      <4> QED
        BY <3>2, <4>1, <4>2, <4>3, <4>4, <4>5
    <3> HIDE DEF g, h, p, e, r, m
    \* (p + 1) r > (2 m + r) h, and h is at least one.
    <3>6. (2 * m + r) * h <= (p + 1) * r
      <4> DEFINE A == (2 * m + r) * h  B == (p + 1) * r
      <4>1. A \in Int /\ B \in Int
        BY <1>2, <2>7, <3>5
      <4>2. e * A = f * h /\ e * B = ((p + 1) * e) * r
        BY <1>2, <2>7, <3>2, <3>5
      <4>3. r * g <= r * ((p + 1) * e)
        <5>1. (p + 1) * e \in Int
          BY <3>2, <3>5
        <5>2. g <= (p + 1) * e
          BY <3>4, <3>5, <5>1
        <5> HIDE DEF f
        <5> QED
          BY <1>2, <3>4, <5>1, <5>2, KeepFactor
      <4>4. e * A <= e * B
        <5>1. r * g = g * r /\ r * ((p + 1) * e) = ((p + 1) * e) * r
              /\ g * r \in Int /\ ((p + 1) * e) * r \in Int /\ f * h \in Int
          BY <1>2, <2>7, <3>2, <3>4, <3>5
        <5> HIDE DEF A, B, f
        <5> QED
          BY <3>3, <4>2, <4>3, <5>1
      <4> HIDE DEF A, B
      <4>5. A <= B
        BY <3>2, <4>1, <4>4, CancelFactor
      <4> QED
        BY <4>5 DEF A, B
    <3>7. /\ (2 * m + r) * h = (2 * m) * h + r * h /\ (p + 1) * r = p * r + r
          /\ (2 * m) * h \in Int /\ r * h \in Int /\ p * r \in Int
      BY <1>2, <2>7, <3>5
    <3>8. r * 1 <= r * h /\ r * 1 = r
      BY <1>2, <2>7, KeepFactor
    <3>9. p * r >= (2 * m) * h
      BY <1>2, <3>6, <3>7, <3>8
    <3> QED
      BY <2>1, <3>5, <3>9 DEF Larger, p
  <2> HIDE DEF h, g, p, r, d, m
  <2>9. W <= d * (2 * h)
    <3>1. Cardinality(S) <= 2 * h
      BY <1>1, <2>6, <2>7
    <3>2. d * Cardinality(S) <= d * (2 * h)
      BY <1>1, <1>2, <2>7, <3>1, KeepFactor
    <3>3. d * Cardinality(S) \in Int /\ d * (2 * h) \in Int
      BY <1>1, <1>2, <2>7
    <3> QED
      BY <2>4, <3>2, <3>3
  <2>10. W * m <= d * ((2 * m) * h)
    <3>1. m * W <= m * (d * (2 * h))
      BY <1>2, <2>4, <2>7, <2>9, KeepFactor
    <3>2. m * W = W * m /\ m * (d * (2 * h)) = d * ((2 * m) * h)
      BY <1>2, <2>4, <2>7
    <3> QED
      BY <3>1, <3>2
  <2>11. (2 * m) * h <= s * r
    <3>1. r * p <= r * s
      BY <1>2, <2>1, <2>8, KeepFactor
    <3>2. r * p = p * r /\ r * s = s * r /\ p * r \in Int /\ s * r \in Int
          /\ (2 * m) * h \in Int
      BY <1>2, <2>1, <2>7, <2>8
    <3> QED
      BY <2>8, <3>1, <3>2
  <2>12. d * ((2 * m) * h) <= d * (s * r)
    <3>1. (2 * m) * h \in Int /\ s * r \in Int
      BY <1>2, <2>1, <2>7
    <3> QED
      BY <1>2, <2>11, <3>1, KeepFactor
  <2>13. (W * m) * 1 <= r * (d * s)
    <3>1. d * (s * r) = r * (d * s) /\ (W * m) * 1 = W * m
          /\ d * ((2 * m) * h) \in Int /\ d * (s * r) \in Int
      BY <1>2, <2>1, <2>4, <2>7
    <3> QED
      BY <2>1, <2>10, <2>12, <3>1
  <2>14. AtMost(Frac(W * m, d * s), Frac(r, 1))
    BY <1>2, <2>1, <2>13, AtMostFrac
  <2> QED
    BY <1>2, <2>1, <2>14 DEF r
<1> QED
  BY <1>1, <1>3, <1>4

\* late is a record in ascending order of the times of another.
Sorted(late, times, n, order) ==
    /\ OrderOf(order, n) /\ late = [k \in 1..n |-> times[order[k]]]
    /\ \A j, k \in 1..n : j < k => late[j] <= late[k]

LEMMA SortedOK ==
  ASSUME NEW times, NEW n, NEW t, RecordOK(times, n, t),
         NEW late, NEW order, Sorted(late, times, n, order)
  PROVE  AtMost(WeightedRpm(late, t), WeightedRpm(times, t))
<1> DEFINE S == Inside(times, t)  Q == Inside(late, t)
           W == WeightedCount(Ages(times, t))  V == WeightedCount(Ages(late, t))
           w == Weights(times, t)  v == Weights(late, t)
<1>1. /\ n \in Nat /\ DOMAIN times = 1..n /\ DOMAIN late = 1..n
      /\ \A k \in 1..n : order[k] \in 1..n /\ late[k] = times[order[k]]
      /\ \A k \in 1..n : times[k] \in Int /\ times[k] <= t
      /\ \A j, k \in 1..n : j < k => late[j] <= late[k]
      /\ \A j, k \in 1..n : order[j] = order[k] => j = k
      /\ order \in [1..n -> 1..n] /\ t \in Int
  BY DEF RecordOK, Sorted, OrderOf
<1>2. RecordOK(late, n, t)
  BY <1>1 DEF RecordOK
<1>3. \A y \in 1..n : \E x \in 1..n : order[x] = y
  <2> DEFINE D == 1..n
  <2>1. order \in [D -> D] /\ IsFiniteSet(D) /\ \A x, y \in D : order[x] = order[y] => x = y
    BY <1>1, IntervalFinite
  <2> HIDE DEF D
  <2>2. \A y \in D : \E x \in D : order[x] = y
    BY <2>1, OntoItself
  <2> QED
    BY <2>2 DEF D
<1>4. \A k \in 1..n : k \in Q <=> order[k] \in S
  BY <1>1 DEF Inside
<1>5. Q \subseteq 1..n /\ S \subseteq 1..n /\ IsFiniteSet(Q) /\ IsFiniteSet(S)
  BY <1>2, InsideOK
<1>6. S = Image(order, Q)
  <2>1. ASSUME NEW y \in S PROVE \E x \in Q : order[x] = y
    BY <1>3, <1>4, <1>5
  <2>2. \A x \in Q : order[x] \in S
    BY <1>4, <1>5
  <2> HIDE DEF S, Q
  <2> QED
    BY <2>1, <2>2 DEF Image
<1>7. /\ W = Sum(w, S) /\ W \in Nat
      /\ \A k \in S : w[k] = Weight(Age(times[k], t)) /\ w[k] \in Nat
  BY CountIs
<1>8. /\ V = Sum(v, Q) /\ V \in Nat
      /\ \A k \in Q : v[k] = Weight(Age(late[k], t)) /\ v[k] \in Nat
  BY <1>2, CountIs
<1>9. \A x \in Q : order[x] \in S /\ late[x] = times[order[x]]
  BY <1>1, <1>4, <1>5
<1>10. \A x, y \in Q : order[x] = order[y] => x = y
  BY <1>1, <1>5
<1> HIDE DEF S, Q, W, V, w, v
\* The same requests are counted.
<1>11. V = W
  <2>1. \A x \in Q : w[order[x]] \in Int /\ v[x] = w[order[x]]
    BY <1>7, <1>8, <1>9
  <2>2. Sum(v, Q) = Sum(w, Image(order, Q))
    BY <1>5, <1>10, <2>1, SumImage
  <2> QED
    BY <1>6, <1>7, <1>8, <2>2
<1>12. Cardinality(Q) = Cardinality(S) /\ Cardinality(S) \in Nat
  BY <1>5, <1>6, <1>10, ImageSize, FiniteCardinal
<1>13. CASE Cardinality(S) < 2
  <2>1. WeightedRpm(times, t) = Frac(0, 1) /\ WeightedRpm(late, t) = Frac(0, 1)
    BY <1>2, <1>12, <1>13, RateIs DEF S, Q
  <2> QED
    BY <2>1, FracIsFraction, AtMostTotal
<1>14. CASE Cardinality(S) >= 2
  <2> DEFINE a == Span(Ages(times, t))  b == Span(Ages(late, t))
             d == Decay[1]  A == W * Minute
             lo == Min(S)  hi == Max(S)  x == Min(Q)  y == Max(Q)
  <2>1. /\ lo \in S /\ hi \in S /\ a \in Nat \ {0}
        /\ a = Larger(Age(times[lo], t) - Age(times[hi], t), 1)
        /\ d * a \in Nat \ {0} /\ A \in Nat
        /\ WeightedRpm(times, t) = Frac(A, d * a)
    BY <1>14, RateIs DEF S, W
  <2>2. /\ Q # {} /\ x \in Q /\ y \in Q /\ b \in Nat \ {0}
        /\ b = Larger(Age(late[x], t) - Age(late[y], t), 1)
        /\ d * b \in Nat \ {0}
        /\ WeightedRpm(late, t) = Frac(V * Minute, d * b)
    BY <1>2, <1>12, <1>14, RateIs DEF Q, V
  <2>3. WeightedRpm(late, t) = Frac(A, d * b)
    BY <1>11, <2>2
  <2>4. \A k \in Q : x <= k /\ k <= y
    BY <1>1, <1>5, <2>2, LowestHighest
  <2> HIDE DEF a, b, lo, hi, x, y, A, d
  \* The span in order is the longest there is.
  <2>5. PICK j \in Q : order[j] = hi
    BY <1>6, <2>1 DEF Image
  <2>6. PICK k \in Q : order[k] = lo
    BY <1>6, <2>1 DEF Image
  <2>7. late[j] <= late[y] /\ late[x] <= late[k]
    <3>1. \A p, q \in Q : late[p] \in Int /\ (p <= q => late[p] <= late[q])
      <4> SUFFICES ASSUME NEW p \in Q, NEW q \in Q
                   PROVE  late[p] \in Int /\ (p <= q => late[p] <= late[q])
        OBVIOUS
      <4>1. p \in 1..n /\ q \in 1..n /\ late[p] \in Int
        BY <1>1, <1>5
      <4>2. CASE p = q
        BY <4>1, <4>2
      <4>3. CASE p < q
        BY <1>1, <4>1, <4>3
      <4>4. CASE q < p
        BY <4>1, <4>4
      <4> QED
        BY <4>1, <4>2, <4>3, <4>4
    <3> QED
      BY <2>2, <2>4, <3>1
  <2>8. late[j] = times[hi] /\ late[k] = times[lo]
    BY <1>9, <2>5, <2>6
  <2>9. /\ Age(times[lo], t) <= Age(late[x], t) /\ Age(late[y], t) <= Age(times[hi], t)
        /\ Age(times[lo], t) \in Int /\ Age(times[hi], t) \in Int
        /\ Age(late[x], t) \in Int /\ Age(late[y], t) \in Int
    <3>1. t \in Int /\ \A p \in {j, k, x, y} : late[p] \in Int /\ late[p] <= t
      BY <1>1, <1>5, <2>2
    <3>2. \A p \in {j, k, x, y} : Age(late[p], t) \in Int
      BY <3>1, AgeIsInt
    <3>3. Age(late[k], t) <= Age(late[x], t) /\ Age(late[y], t) <= Age(late[j], t)
      BY <2>7, <3>1, AgesInOrder
    <3> QED
      BY <2>8, <3>2, <3>3
  <2>10. a <= b
    BY <2>1, <2>2, <2>9 DEF Larger
  <2>11. d \in Nat
    BY VelocityAssumption DEF VelocityAssumption, d
  <2>12. d * a <= d * b
    BY <2>1, <2>2, <2>10, <2>11, KeepFactor
  <2>13. A * (d * a) <= A * (d * b)
    BY <2>1, <2>2, <2>12, KeepFactor
  <2> QED
    BY <2>1, <2>2, <2>3, <2>13, AtMostFrac
<1> QED
  BY <1>12, <1>13, <1>14

(***************************************************************************)
(* The entropy signal.                                                     *)
(***************************************************************************)
LEMMA BigramsAre ==
  ASSUME NEW W, NEW prompt \in Seq(W)
  PROVE  BigramsOf(prompt) \in Seq(W \X W)
<1> DEFINE U == W \X W
<1>1. Len(prompt) \in Nat /\ \A i \in 1..Len(prompt) : prompt[i] \in W
  OBVIOUS
<1>2. \A i \in 1..(Len(prompt) - 1) : <<prompt[i], prompt[i + 1]>> \in U
  BY <1>1
<1> HIDE DEF U
<1>3. BigramsOf(prompt) \in [1..(Len(prompt) - 1) -> U]
  BY <1>2 DEF BigramsOf
<1>4. CASE Len(prompt) = 0
  <2>1. 1..(Len(prompt) - 1) = 1..0
    BY <1>4
  <2> QED
    BY <1>3, <2>1, FunctionIsSeq DEF U
<1>5. CASE Len(prompt) # 0
  <2>1. Len(prompt) - 1 \in Nat
    BY <1>1, <1>5
  <2> QED
    BY <1>3, <2>1, FunctionIsSeq DEF U
<1> QED
  BY <1>4, <1>5

LEMMA RecentIs ==
  ASSUME NEW T, NEW history \in Seq(T)
  PROVE  Recent(history) \in Seq(T) /\ Len(Recent(history)) <= EntropyWindow
<1>1. EntropyWindow \in Nat
  BY EntropyAssumption
<1> QED
  BY <1>1 DEF Recent

\* The prompts of a history that fits into the window are all recent.
LEMMA RecentAll ==
  ASSUME NEW T, NEW history \in Seq(T), Len(history) <= EntropyWindow
  PROVE  Recent(history) = history
  BY EntropyAssumption DEF Recent

LEMMA ShuffledFrequencies ==
  ASSUME NEW W, NEW recent \in Seq(Seq(W)), Len(recent) <= EntropyWindow,
         NEW n \in Nat, NEW order, NEW shuffled,
         Reordered(shuffled, recent, order, n)
  PROVE  Frequencies(shuffled) = Frequencies(recent)
<1> DEFINE P == Seq(W)  T == W \X W
<1>1. /\ n = Len(recent) /\ \A k \in 1..n : recent[k] \in P /\ order[k] \in 1..n
      /\ shuffled = [k \in 1..n |-> recent[order[k]]]
  <2>1. /\ n = Len(recent) /\ \A k \in 1..n : order[k] \in 1..n
        /\ shuffled = [k \in 1..n |-> recent[order[k]]]
    BY DEF Reordered, OrderOf
  <2> HIDE DEF P
  <2>2. recent \in Seq(P)
    BY DEF P
  <2> QED
    BY <2>1, <2>2
<1>2. shuffled \in Seq(P) /\ Len(shuffled) = n
  <2> HIDE DEF P
  <2>1. shuffled \in [1..n -> P]
    BY <1>1
  <2> QED
    BY <2>1, FunctionIsSeq
<1>3. Recent(shuffled) = shuffled /\ Recent(recent) = recent
  BY <1>1, <1>2, RecentAll
<1> DEFINE seqs  == [k \in 1..n |-> BigramsOf(recent[k])]
           moved == [k \in 1..n |-> seqs[order[k]]]
<1>4. /\ Bigrams(recent) = FlattenSeq(seqs)
      /\ Bigrams(shuffled) = FlattenSeq(moved)
  <2>1. DOMAIN recent = 1..n /\ DOMAIN shuffled = 1..n
    BY <1>1
  <2>2. \A k \in 1..n : BigramsOf(shuffled[k]) = moved[k]
    BY <1>1
  <2>3. [k \in 1..n |-> BigramsOf(shuffled[k])] = moved
    BY <2>2
  <2> QED
    BY <1>3, <2>1, <2>3 DEF Bigrams
<1>5. seqs \in Seq(Seq(T)) /\ Len(seqs) = n
  <2> DEFINE U == Seq(T)
  <2>1. \A k \in 1..n : BigramsOf(recent[k]) \in U
    BY <1>1, BigramsAre
  <2> HIDE DEF U
  <2>2. seqs \in [1..n -> U]
    BY <2>1
  <2>3. seqs \in Seq(U) /\ Len(seqs) = n
    BY <2>2, FunctionIsSeq
  <2> QED
    BY <2>3 DEF U
<1>6. Reordered(moved, seqs, order, n)
  <2>1. moved = [k \in 1..n |-> seqs[order[k]]]
    OBVIOUS
  <2> HIDE DEF moved, seqs
  <2> QED
    BY <1>5, <2>1 DEF Reordered
<1> HIDE DEF moved, seqs, T
<1>7. ToBag(FlattenSeq(moved)) = ToBag(FlattenSeq(seqs))
  BY <1>5, <1>6, FlattenShuffled
<1> QED
  BY <1>4, <1>7 DEF Frequencies

\* Some bigram is more frequent than another, or there is only one.
Repeats(history) ==
    LET count == Frequencies(history)
    IN  \/ Cardinality(BagToSet(count)) = 1
        \/ \E x, y \in BagToSet(count) : count[x] # count[y]

\* The entropy of what the bigrams are is at most that of as many different
\* ones that are equally frequent, and less exactly when they repeat unevenly.
LEMMA EntropyIs ==
  ASSUME NEW W, NEW history \in Seq(Seq(W))
  PROVE  /\ Arrangements(history) <= Ceiling(history) * Repetitions(history)
         /\ ~ Unscored(history) =>
              (EScorePositive(history) <=> Repeats(history))
<1> DEFINE P == Seq(W)  T == W \X W  recent == Recent(history)
           seqs == [k \in DOMAIN recent |-> BigramsOf(recent[k])]
           s == FlattenSeq(seqs)
<1>1. seqs \in Seq(Seq(T))
  <2>1. recent \in Seq(P)
    BY RecentIs
  <2> HIDE DEF recent
  <2>2. DOMAIN recent = 1..Len(recent) /\ Len(recent) \in Nat
    BY <2>1
  <2>3. \A k \in 1..Len(recent) : recent[k] \in P
    <3> HIDE DEF P
    <3> QED
      BY <2>1
  <2> DEFINE U == Seq(T)
  <2>4. \A k \in 1..Len(recent) : BigramsOf(recent[k]) \in U
    BY <2>3, BigramsAre
  <2> HIDE DEF U
  <2>5. seqs \in [1..Len(recent) -> U]
    BY <2>2, <2>4
  <2>6. seqs \in Seq(U)
    BY <2>2, <2>5, FunctionIsSeq
  <2> QED
    BY <2>6 DEF U
<1> HIDE DEF seqs, T
<1>2. s \in Seq(T)
  BY <1>1, FlattenType
<1>3. Bigrams(history) = s
  BY DEF Bigrams, seqs
<1> HIDE DEF s
<1> DEFINE count == ToBag(s)  n == Len(s)
           h == [x \in Range(s) |-> Raised(count[x], count[x])]
           k == Cardinality(Range(s))  top == IF k < 2 THEN 2 ELSE k
<1>4. Frequencies(history) = count /\ Total(history) = n /\ BagToSet(count) = Range(s)
  <2>1. Frequencies(history) = count /\ Total(history) = n
    BY <1>3 DEF Frequencies, Total
  <2>2. BagToSet(count) = DOMAIN count
    BY DEF BagToSet
  <2>3. DOMAIN count = Range(s)
    BY BagDomain
  <2> QED
    BY <2>1, <2>2, <2>3
<1>5. /\ Arrangements(history) = Raised(n, n) /\ Ceiling(history) = Raised(top, n)
      /\ Repetitions(history) = Prod(h, Range(s))
  <2>1. \A b, e : Power(b, e) = Raised(b, e)
    BY DEF Power, Product, FoldFunction, Raised, Prod
  <2>2. Arrangements(history) = Raised(n, n)
    BY <1>4, <2>1 DEF Arrangements
  <2>3. Ceiling(history) = Raised(top, n)
    BY <1>4, <2>1 DEF Ceiling
  <2>4. Repetitions(history) = Product(h)
    <3>1. [x \in BagToSet(count) |-> Power(count[x], count[x])] = h
      BY <1>4, <2>1
    <3> HIDE DEF h, count
    <3> QED
      BY <1>4, <3>1 DEF Repetitions
  <2>5. Product(h) = Prod(h, Range(s))
    BY DEF Product, FoldFunction, Prod
  <2> QED
    BY <2>2, <2>3, <2>4, <2>5
<1> DEFINE R == Prod(h, Range(s))  K == Raised(k, n)  Top == Raised(top, n)
           N == Raised(n, n)
<1>6. N <= K * R /\ (Uneven(s) <=> N # K * R)
  BY <1>2, EvenIsMost
<1>7. /\ n \in Nat /\ k \in Nat /\ top \in Nat /\ k <= top
      /\ R \in Nat \ {0} /\ (n # 0 => k # 0)
  BY <1>2, EvenIsMost
<1>8. Repeats(history) <=> Uneven(s) \/ k = 1
  BY <1>4 DEF Repeats, Uneven
<1>9. ~ Unscored(history) => n # 0 /\ (EScorePositive(history) <=> N < Top * R)
  BY <1>4, <1>5 DEF Unscored, EScorePositive
<1> HIDE DEF n, k, h, R, top
<1>10. /\ K <= Top /\ K \in Nat /\ Top \in Nat /\ N \in Nat
       /\ k = 1 /\ n # 0 => K < Top
  <2>1. K <= Top /\ K \in Nat /\ Top \in Nat /\ N \in Nat
    BY <1>7, RaisedAtMost, RaisedNat
  <2>2. k = 1 => top = 2
    BY DEF top
  <2>3. k = 1 /\ n # 0 => K < Top
    BY <1>7, <2>2, RaisedAboveOne
  <2> QED
    BY <2>1, <2>3
<1> HIDE DEF K, Top, N
<1>11. R * K <= R * Top
  BY <1>7, <1>10, KeepFactor
<1>12. /\ R * K = K * R /\ R * Top = Top * R
       /\ K * R \in Int /\ Top * R \in Int
  BY <1>7, <1>10
<1>13. N <= Top * R
  BY <1>6, <1>10, <1>11, <1>12
<1>14. ASSUME n # 0 PROVE N < Top * R <=> Uneven(s) \/ k = 1
  <2>1. CASE k = 1
    <3>1. Top - K \in Nat \ {0}
      BY <1>10, <1>14, <2>1
    <3>2. R * (Top - K) \in Nat \ {0}
      BY <1>7, <3>1, ProductPositive
    <3>3. R * (Top - K) = R * Top - R * K
      BY <1>7, <1>10
    <3>4. K * R < Top * R
      BY <1>12, <3>2, <3>3
    <3>5. N < Top * R
      BY <1>6, <1>10, <1>12, <3>4
    <3> QED
      BY <2>1, <3>5
  <2>2. CASE k # 1
    <3>1. Top = K
      BY <1>7, <1>14, <2>2 DEF Top, K, top
    <3>2. N <= Top * R /\ (Uneven(s) <=> N # Top * R)
      BY <1>6, <3>1
    <3>3. N < Top * R <=> N # Top * R
      BY <1>10, <1>12, <3>2
    <3> QED
      BY <2>2, <3>2, <3>3
  <2> QED
    BY <2>1, <2>2
<1>15. Arrangements(history) = N /\ Ceiling(history) * Repetitions(history) = Top * R
  BY <1>5 DEF N, Top, R
<1> QED
  BY <1>8, <1>9, <1>13, <1>14, <1>15

\* No bigram twice in a prompt.
DistinctBigrams(prompt) ==
    \A i, j \in 1..Len(BigramsOf(prompt)) :
        BigramsOf(prompt)[i] = BigramsOf(prompt)[j] => i = j

\* However often one such prompt is repeated, its bigrams are equally frequent.
LEMMA IdenticalIsEven ==
  ASSUME NEW W, NEW history \in Seq(Seq(W)), NEW p \in Seq(W),
         \A k \in 1..Len(history) : history[k] = p,
         DistinctBigrams(p), Len(p) > 2
  PROVE  ~ EScorePositive(history)
<1> DEFINE T == W \X W  recent == Recent(history)  u == BigramsOf(p)
           seqs == [k \in DOMAIN recent |-> BigramsOf(recent[k])]
<1>1. DOMAIN recent = 1..Len(recent) /\ Len(recent) \in Nat
      /\ \A k \in 1..Len(recent) : recent[k] = p
  <2> DEFINE P == Seq(W)
  <2>1. history \in Seq(P) /\ EntropyWindow \in Nat
    BY EntropyAssumption
  <2> HIDE DEF P
  <2> QED
    BY <2>1 DEF Recent
<1>2. u \in Seq(T) /\ Len(u) > 1
  <2>1. u \in Seq(T)
    BY BigramsAre
  <2>2. Len(p) - 1 \in Nat /\ u = [i \in 1..(Len(p) - 1) |-> <<p[i], p[i + 1]>>]
    BY DEF BigramsOf
  <2>3. DOMAIN u = 1..(Len(p) - 1)
    BY <2>2
  <2> HIDE DEF u, T
  <2> QED
    BY <2>1, <2>2, <2>3
<1>3. seqs \in Seq(Seq(T)) /\ \A k \in 1..Len(seqs) : seqs[k] = u
  <2> DEFINE U == Seq(T)
  <2>1. seqs = [k \in 1..Len(recent) |-> u]
    BY <1>1
  <2>2. u \in U
    BY <1>2
  <2> HIDE DEF seqs, u, U, recent
  <2>3. seqs \in [1..Len(recent) -> U]
    BY <2>1, <2>2
  <2>4. seqs \in Seq(U) /\ Len(seqs) = Len(recent)
    BY <1>1, <2>3, FunctionIsSeq
  <2> QED
    BY <2>1, <2>4 DEF U
<1> DEFINE s == FlattenSeq(seqs)
<1>4. ~ Uneven(s) /\ Cardinality(Range(s)) # 1
  <2>1. \A i, j \in 1..Len(u) : u[i] = u[j] => i = j
    BY DEF DistinctBigrams
  <2> HIDE DEF u, seqs, T
  <2> QED
    BY <1>2, <1>3, <2>1, CopiesAreEven
<1>5. Frequencies(history) = ToBag(s) /\ BagToSet(ToBag(s)) = Range(s)
  <2>1. Frequencies(history) = ToBag(s)
    BY DEF Frequencies, Bigrams
  <2>2. BagToSet(ToBag(s)) = DOMAIN ToBag(s)
    BY DEF BagToSet
  <2>3. DOMAIN ToBag(s) = Range(s)
    BY BagDomain
  <2> QED
    BY <2>1, <2>2, <2>3
<1> HIDE DEF s
<1>6. ~ Repeats(history)
  BY <1>4, <1>5 DEF Repeats, Uneven
<1> QED
  BY <1>6, EntropyIs DEF EScorePositive
=============================================================================
