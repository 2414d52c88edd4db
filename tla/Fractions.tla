----------------------------- MODULE Fractions -----------------------------
(***************************************************************************)
(* Exact fractions, for the quotients the engine computes in floating      *)
(* point.  A fraction is a record in lowest terms with a positive          *)
(* denominator.                                                            *)
(***************************************************************************)
EXTENDS Integers

GCD[p \in Nat \X Nat] ==
    IF p[2] = 0 THEN p[1] ELSE GCD[<<p[2], p[1] % p[2]>>]

Abs(n) == IF n < 0 THEN -n ELSE n

Frac(n, d) == LET g == GCD[<<Abs(n), d>>]
              IN  [num |-> n \div g, den |-> d \div g]
Whole(n) == [num |-> n, den |-> 1]

Plus(p, q)   == Frac(p.num * q.den + q.num * p.den, p.den * q.den)
Minus(p, q)  == Frac(p.num * q.den - q.num * p.den, p.den * q.den)
Times(p, q)  == Frac(p.num * q.num, p.den * q.den)
DivideBy(p, n) == Frac(p.num, p.den * n)
AtMost(p, q) == p.num * q.den <= q.num * p.den
=============================================================================
