------------------------------ MODULE Velocity ------------------------------
(***************************************************************************)
(* The velocity signal of engine/src/scoring/velocity.rs.                  *)
(*                                                                         *)
(* Times are in units of which Second make a second; ages are whole        *)
(* seconds.  The weight e^(-age) of a request is the constant table Decay, *)
(* of which only its order is used.  Rates are exact fractions.            *)
(***************************************************************************)
EXTENDS Fractions, SequencesExt

CONSTANTS
    Second,   \* units in a second
    Minute,   \* seconds in a minute
    Window,   \* seconds in rpm_window_mins
    MaxRpm,   \* max_rpm, with which compute compares the rate
    Decay     \* Decay[age + 1]: a request's weight, in 1/Decay[1]

ASSUME VelocityAssumption ==
    /\ Second \in Nat \ {0} /\ Minute \in Nat \ {0} /\ Window \in Nat \ {0}
    /\ MaxRpm \in Nat \ {0}
    /\ Decay \in Seq(Nat) /\ Len(Decay) = Window + 1
    /\ Decay[1] > 0
    /\ \A i, j \in DOMAIN Decay : i <= j => Decay[i] >= Decay[j]

\* The requests inside the window, by their place in the record.
Inside(stamps, now) == {k \in DOMAIN stamps : stamps[k] >= now - Window * Second}
\* num_seconds: the fraction of a second is dropped.
Age(stamp, now) == (now - stamp) \div Second
Ages(stamps, now) == [k \in Inside(stamps, now) |-> Age(stamps[k], now)]

\* A bug that weights old requests most.
InvertedWeight(age) == Decay[Window + 1 - age]
Weight(age) == Decay[age + 1]

WeightedCount(ages) == SumFunction([k \in DOMAIN ages |-> Weight(ages[k])])

Larger(a, b) == IF a >= b THEN a ELSE b
\* A bug that subtracts the ages the wrong way round: the floor always wins.
ReversedSpan(ages) ==
    Larger(ages[Max(DOMAIN ages)] - ages[Min(DOMAIN ages)], 1)
\* A bug that takes every gap as time that passed.
TravelledSpan(ages) ==
    LET gap(k) == LET later == {j \in DOMAIN ages : j > k}
                  IN  IF later = {} THEN 0 ELSE Abs(ages[k] - ages[Min(later)])
    IN  Larger(SumFunction([k \in DOMAIN ages |-> gap(k)]), 1)
\* The first age minus the last, whichever is older, floored at one second.
Span(ages) == Larger(ages[Min(DOMAIN ages)] - ages[Max(DOMAIN ages)], 1)

\* weighted_rpm: 0 when fewer than two requests are inside the window.
WeightedRpm(stamps, now) ==
    LET ages == Ages(stamps, now)
    IN  IF Cardinality(DOMAIN ages) < 2 THEN Whole(0)
        ELSE Frac(WeightedCount(ages) * Minute, Decay[1] * Span(ages))
=============================================================================
