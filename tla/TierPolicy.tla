----------------------------- MODULE TierPolicy -----------------------------
(***************************************************************************)
(* The scoring policy of engine/src/scoring/mod.rs: how the four signals   *)
(* become a hybrid score and how the score, the tracked duration and the   *)
(* intent flag become a tier.                                              *)
(*                                                                         *)
(* The code computes in f32.  Here a signal is an integer in 0..Scale, a   *)
(* weight is a percentage and a hybrid score an integer in 0..100*Scale;   *)
(* the code only adds, clamps and compares, and NaN is left out.           *)
(***************************************************************************)
EXTENDS Integers

CONSTANTS
    Scale,                  \* a signal of 1.0
    WeightVelocity, WeightDivergence, WeightEntropy, WeightAnomaly,
    Tier2Score, Tier3Score, \* hybrid thresholds
    Tier2MinDuration, Tier3MinDuration \* minutes of tracking

\* config.rs checks that the weights sum to 1.0 within 0.01.  It rejects
\* neither a negative weight nor thresholds in the wrong order.
ASSUME PolicyAssumption ==
    /\ Scale \in Nat \ {0}
    /\ WeightVelocity \in Int /\ WeightDivergence \in Int
    /\ WeightEntropy \in Int /\ WeightAnomaly \in Int
    /\ WeightVelocity + WeightDivergence + WeightEntropy + WeightAnomaly
          \in 99..101
    /\ Tier2Score \in Int /\ Tier3Score \in Int
    /\ Tier2MinDuration \in Int /\ Tier3MinDuration \in Int

Tiers == 1..3
Signals == 0..Scale
HybridRange == 0..(100 * Scale)

Clamp(x, lo, hi) == IF x < lo THEN lo ELSE IF x > hi THEN hi ELSE x

\* compute_hybrid: the weighted sum, clamped to [0.0, 1.0].
UnclampedHybrid(v, d, e, a) ==
    WeightVelocity * v + WeightDivergence * d + WeightEntropy * e
        + WeightAnomaly * a
\* A bug that reads the anomaly score upside down.
InvertedAnomalyHybrid(v, d, e, a) ==
    Clamp(UnclampedHybrid(v, d, e, Scale - a), 0, 100 * Scale)
ComputeHybrid(v, d, e, a) ==
    Clamp(UnclampedHybrid(v, d, e, a), 0, 100 * Scale)

EarnsTier3(hybrid, duration) ==
    hybrid >= Tier3Score /\ duration > Tier3MinDuration
EarnsTier2(hybrid, duration) ==
    hybrid >= Tier2Score \/ duration >= Tier2MinDuration

\* A bug that lets the intent override hide Tier 3.
IntentFirstClassify(hybrid, duration, intent) ==
    IF intent THEN 2
    ELSE IF EarnsTier3(hybrid, duration) THEN 3
    ELSE IF EarnsTier2(hybrid, duration) THEN 2 ELSE 1
\* A bug that reads the README's table, where Tier 2 ends at Tier 3's duration.
BoundedTier2Classify(hybrid, duration, intent) ==
    IF EarnsTier3(hybrid, duration) THEN 3
    ELSE IF \/ intent
            \/ hybrid >= Tier2Score
            \/ duration \in Tier2MinDuration..Tier3MinDuration
         THEN 2 ELSE 1
\* A bug that forgets the duration condition of Tier 3.
ScoreOnlyClassify(hybrid, duration, intent) ==
    IF hybrid >= Tier3Score THEN 3
    ELSE IF intent \/ EarnsTier2(hybrid, duration) THEN 2 ELSE 1

\* classify_tier: Tier 3 needs the score and the duration; an intent flag is a
\* floor of Tier 2; otherwise the score or the duration alone gives Tier 2.
ClassifyTier(hybrid, duration, intent) ==
    IF EarnsTier3(hybrid, duration) THEN 3
    ELSE IF intent \/ EarnsTier2(hybrid, duration) THEN 2
    ELSE 1
=============================================================================
