------------------------------ MODULE Anomaly ------------------------------
(***************************************************************************)
(* The anomaly model of engine/src/scoring/anomaly.rs: running statistics  *)
(* of each feature (Welford's algorithm over a prior) and the score of an  *)
(* observation, in exact fractions.  The sigmoid is increasing, so a score *)
(* is compared by the square of the z-score it is taken from.              *)
(***************************************************************************)
EXTENDS Fractions, SequencesExt

CONSTANTS
    PriorCount,      \* 100 in the code
    PriorMean,       \* [Features -> Nat]
    PriorVariance    \* [Features -> Nat], prior_std squared

Dimensions == <<"rpm", "similarity", "entropy_inv", "prompt_len", "duration_mins">>
Features == ToSet(Dimensions)

ASSUME AnomalyAssumption ==
    /\ PriorCount \in Nat /\ PriorCount >= 2
    /\ PriorMean \in [Features -> Nat]
    /\ PriorVariance \in [Features -> Nat]

WithPrior(mean, variance) ==
    [count |-> PriorCount, mean |-> Whole(mean),
     m2 |-> Whole(variance * (PriorCount - 1))]

NewModel == [f \in Features |-> WithPrior(PriorMean[f], PriorVariance[f])]

\* A bug that squares the first delta instead of using the second.
UpdateStatsOneDelta(s, value) ==
    LET n     == s.count + 1
        delta == Minus(Whole(value), s.mean)
    IN  [count |-> n, mean |-> Plus(s.mean, DivideBy(delta, n)),
         m2 |-> Plus(s.m2, Times(delta, delta))]
\* A bug that takes the observation from the mean.
UpdateStatsBackwards(s, value) ==
    LET n     == s.count + 1
        delta == Minus(s.mean, Whole(value))
        mean  == Plus(s.mean, DivideBy(delta, n))
    IN  [count |-> n, mean |-> mean,
         m2 |-> Plus(s.m2, Times(delta, Minus(mean, Whole(value))))]
\* FeatureStats::update
UpdateStats(s, value) ==
    LET n     == s.count + 1
        delta == Minus(Whole(value), s.mean)
        mean  == Plus(s.mean, DivideBy(delta, n))
    IN  [count |-> n, mean |-> mean,
         m2 |-> Plus(s.m2, Times(delta, Minus(Whole(value), mean)))]

Update(model, v) == [f \in Features |-> UpdateStats(model[f], v[f])]

Variance(s) == DivideBy(s.m2, s.count - 1)

\* The square of std_dev, which is at least 1/100.
Spread(s) == IF AtMost(Frac(1, 10000), Variance(s)) THEN Variance(s)
             ELSE Frac(1, 10000)

\* The square of z_score.
ZSquared(s, value) ==
    LET distance == Minus(Whole(value), s.mean)
    IN  Times(Times(distance, distance), Frac(Spread(s).den, Spread(s).num))

ZScores(model, v) ==
    {[of |-> f, z |-> ZSquared(model[f], v[f])] : f \in Features}
Largest(scores) == CHOOSE s \in scores : \A t \in scores : AtMost(t.z, s.z)

\* sorted[3] of the five, from which score is computed: the largest but one.
ScoredZ(model, v) == LET scores == ZScores(model, v)
                     IN  Largest(scores \ {Largest(scores)}).z
=============================================================================
