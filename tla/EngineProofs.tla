---------------------------- MODULE EngineProofs ----------------------------
(***************************************************************************)
(* The theorems about the engine's sequential parts, for every value of    *)
(* their constants.                                                        *)
(***************************************************************************)
EXTENDS MCEngine, SignalProofs

(***************************************************************************)
(* The scoring policy: every weight, threshold and scale that config.rs    *)
(* lets through.                                                           *)
(***************************************************************************)
\* The clamp of compute_hybrid keeps the score in range even under weights
\* that config.rs accepts but no one would write (a negative weight).
THEOREM HybridInRange ==
    ASSUME NEW v \in Int, NEW d \in Int, NEW e \in Int, NEW a \in Int
    PROVE  ComputeHybrid(v, d, e, a) \in HybridRange
<1>1. UnclampedHybrid(v, d, e, a) \in Int
  BY PolicyAssumption DEF UnclampedHybrid, PolicyAssumption
<1>2. 100 * Scale \in Nat
  BY PolicyAssumption DEF PolicyAssumption
<1> QED
  BY <1>1, <1>2 DEF ComputeHybrid, Clamp, HybridRange

LEMMA ScaleMonotone ==
    ASSUME NEW w \in Nat, NEW x \in Nat, NEW y \in Nat, x <= y
    PROVE  w * x <= w * y
  OBVIOUS

\* A session that looks worse in any signal never scores lower, provided no
\* weight is negative, which config.rs does not check.
THEOREM HybridMonotone ==
    ASSUME WeightVelocity >= 0, WeightDivergence >= 0, WeightEntropy >= 0,
           WeightAnomaly >= 0,
           NEW v \in Signals, NEW d \in Signals, NEW e \in Signals,
           NEW a \in Signals,
           NEW v2 \in Signals, NEW d2 \in Signals, NEW e2 \in Signals,
           NEW a2 \in Signals,
           v <= v2, d <= d2, e <= e2, a <= a2
    PROVE  ComputeHybrid(v, d, e, a) <= ComputeHybrid(v2, d2, e2, a2)
<1>1. /\ WeightVelocity \in Nat /\ WeightDivergence \in Nat
      /\ WeightEntropy \in Nat /\ WeightAnomaly \in Nat /\ Scale \in Nat
  BY PolicyAssumption DEF PolicyAssumption
<1>2. /\ v \in Nat /\ d \in Nat /\ e \in Nat /\ a \in Nat
      /\ v2 \in Nat /\ d2 \in Nat /\ e2 \in Nat /\ a2 \in Nat
  BY <1>1 DEF Signals
<1>3. /\ WeightVelocity * v <= WeightVelocity * v2
      /\ WeightDivergence * d <= WeightDivergence * d2
      /\ WeightEntropy * e <= WeightEntropy * e2
      /\ WeightAnomaly * a <= WeightAnomaly * a2
  BY <1>1, <1>2, ScaleMonotone
<1>4. /\ WeightVelocity * v \in Int /\ WeightVelocity * v2 \in Int
      /\ WeightDivergence * d \in Int /\ WeightDivergence * d2 \in Int
      /\ WeightEntropy * e \in Int /\ WeightEntropy * e2 \in Int
      /\ WeightAnomaly * a \in Int /\ WeightAnomaly * a2 \in Int
  BY <1>1, <1>2
<1>5. UnclampedHybrid(v, d, e, a) <= UnclampedHybrid(v2, d2, e2, a2)
  BY <1>3, <1>4 DEF UnclampedHybrid
<1>6. /\ UnclampedHybrid(v, d, e, a) \in Int
      /\ UnclampedHybrid(v2, d2, e2, a2) \in Int
  BY <1>4 DEF UnclampedHybrid
<1> QED
  BY <1>1, <1>5, <1>6 DEF ComputeHybrid, Clamp

\* classify_tier answers one of three tiers.
THEOREM ClassifyTierType ==
    ASSUME NEW h \in Int, NEW d \in Int, NEW flag \in BOOLEAN
    PROVE  ClassifyTier(h, d, flag) \in Tiers
  BY DEF ClassifyTier, Tiers

\* A higher score, a longer duration or a flagged prompt never lowers the
\* tier, whatever the thresholds, even in the wrong order: so a client gains
\* nothing by looking worse.
THEOREM ClassifyTierMonotone ==
    ASSUME NEW h \in Int, NEW h2 \in Int, h <= h2,
           NEW d \in Int, NEW d2 \in Int, d <= d2,
           NEW flag \in BOOLEAN, NEW flag2 \in BOOLEAN, flag => flag2
    PROVE  ClassifyTier(h, d, flag) <= ClassifyTier(h2, d2, flag2)
<1>1. EarnsTier3(h, d) => EarnsTier3(h2, d2)
  BY PolicyAssumption DEF EarnsTier3, PolicyAssumption
<1>2. EarnsTier2(h, d) => EarnsTier2(h2, d2)
  BY PolicyAssumption DEF EarnsTier2, PolicyAssumption
<1> QED
  BY <1>1, <1>2 DEF ClassifyTier

\* An intent flag is a floor of Tier 2 and not a shortcut to Tier 3, which
\* always takes its score and more than its duration.
THEOREM IntentFloor ==
    ASSUME NEW h \in Int, NEW d \in Int
    PROVE  /\ ClassifyTier(h, d, TRUE) >= 2
           /\ ClassifyTier(h, d, TRUE) = 3
                 => h >= Tier3Score /\ d > Tier3MinDuration
  BY DEF ClassifyTier, EarnsTier3

\* Every observation of a session is one compute_hybrid can be given.
ScoreTypeOK == /\ signal \in [SignalNames -> Signals]
               /\ duration \in Nat
               /\ intent \in BOOLEAN

LEMMA ScoreTypeStep == ScoreTypeOK /\ [Next]_vars => ScoreTypeOK'
<1> SUFFICES ASSUME ScoreTypeOK, [Next]_vars PROVE ScoreTypeOK'
  OBVIOUS
<1> USE DEF ScoreTypeOK
<1>1. CASE RaiseSignal
  <2>1. PICK n \in SignalNames :
           signal[n] < Scale /\ signal' = [signal EXCEPT ![n] = @ + 1]
    BY <1>1 DEF RaiseSignal
  <2>2. signal[n] + 1 \in Signals
    BY <2>1, PolicyAssumption DEF Signals, PolicyAssumption
  <2> QED
    BY <1>1, <2>1, <2>2 DEF RaiseSignal
<1>2. CASE TrackMinute
  BY <1>2 DEF TrackMinute
<1>3. CASE FlagIntent
  BY <1>3 DEF FlagIntent
<1>4. CASE StartOver
  <2>1. 0 \in Signals
    BY PolicyAssumption DEF Signals, PolicyAssumption
  <2> QED
    BY <1>4, <2>1 DEF StartOver
<1>5. CASE Arrive \/ Wait \/ Ask \/ Observe \/ Defend \/ Configure
  <2>1. UNCHANGED scoreVars
    BY <1>5 DEF Arrive, Wait, Ask, Observe, Defend, Configure, Only
  <2> QED
    BY <2>1 DEF scoreVars
<1>6. CASE UNCHANGED vars
  BY <1>6 DEF vars, scoreVars
<1> QED
  BY <1>1, <1>2, <1>3, <1>4, <1>5, <1>6 DEF Next, Worsen

LEMMA ScoreTypeInit == Init => ScoreTypeOK
<1> SUFFICES ASSUME Init PROVE ScoreTypeOK
  OBVIOUS
<1>1. 0 \in Signals
  BY PolicyAssumption DEF Signals, PolicyAssumption
<1>2. signal = [n \in SignalNames |-> 0] /\ duration = 0 /\ intent = FALSE
  BY DEF Init
<1> QED
  BY <1>1, <1>2 DEF ScoreTypeOK

LEMMA ScoreTyping == Spec => []ScoreTypeOK
  BY ScoreTypeInit, ScoreTypeStep, PTL DEF Spec

LEMMA SignalsAre ==
  ASSUME ScoreTypeOK
  PROVE  /\ signal.velocity \in Signals /\ signal.divergence \in Signals
         /\ signal.entropy \in Signals /\ signal.anomaly \in Signals
  BY DEF ScoreTypeOK, SignalNames

LEMMA SignalsAreInt == Signals \subseteq Int
  BY PolicyAssumption DEF Signals, PolicyAssumption

\* The weighted sum of four equal signals.
LEMMA EqualSignals ==
  ASSUME NEW x \in Nat
  PROVE  UnclampedHybrid(x, x, x, x)
           = (WeightVelocity + WeightDivergence + WeightEntropy
                + WeightAnomaly) * x
  BY PolicyAssumption DEF UnclampedHybrid, PolicyAssumption

LEMMA HybridScaledOK == ScoreTypeOK => HybridScaled
<1> SUFFICES ASSUME ScoreTypeOK PROVE HybridScaled
  OBVIOUS
<1> DEFINE w == WeightVelocity + WeightDivergence + WeightEntropy
                  + WeightAnomaly
<1>1. Scale \in Nat \ {0} /\ w \in Int /\ w >= 99
  BY PolicyAssumption DEF PolicyAssumption
<1>2. Hybrid \in HybridRange
  BY SignalsAre, SignalsAreInt, HybridInRange DEF Hybrid
<1>3. ASSUME NEW x \in Nat, \A n \in SignalNames : signal[n] = x
      PROVE  Hybrid = Clamp(w * x, 0, 100 * Scale)
  <2>1. /\ signal.velocity = x /\ signal.divergence = x
        /\ signal.entropy = x /\ signal.anomaly = x
    BY <1>3 DEF SignalNames
  <2> QED
    BY <2>1, EqualSignals DEF Hybrid, ComputeHybrid
<1>4. (\A n \in SignalNames : signal[n] = 0) => Hybrid = 0
  <2>1. w * 0 = 0
    BY <1>1
  <2>2. Clamp(0, 0, 100 * Scale) = 0
    BY <1>1 DEF Clamp
  <2> QED
    BY <1>3, <2>1, <2>2
<1>5. (\A n \in SignalNames : signal[n] = Scale) => Hybrid >= 99 * Scale
  <2>1. w * Scale >= 99 * Scale /\ w * Scale \in Int
    BY <1>1
  <2>2. Clamp(w * Scale, 0, 100 * Scale) >= 99 * Scale
    <3> HIDE DEF w
    <3> DEFINE m == w * Scale
    <3>1. m \in Int /\ m >= 99 * Scale
      BY <2>1
    <3> HIDE DEF m
    <3>2. Clamp(m, 0, 100 * Scale) >= 99 * Scale
      BY <1>1, <3>1 DEF Clamp
    <3> QED
      BY <3>2 DEF m
  <2> QED
    BY <1>3, <1>1, <2>2
<1> QED
  BY <1>2, <1>4, <1>5 DEF HybridScaled

\* compute_hybrid stays in its range, starts at 0 and saturates.
THEOREM ScoreIsScaled == Spec => []HybridScaled
  BY ScoreTyping, HybridScaledOK, PTL

\* Where a threshold of Tier 2 is at or below the one of Tier 3, what earns
\* Tier 3 earns Tier 2.
LEMMA TierTableOK ==
  ASSUME ScoreTypeOK,
         Tier2Score <= Tier3Score \/ Tier2MinDuration <= Tier3MinDuration
  PROVE  TierTable
<1>1. Hybrid \in Int
  <2>1. Hybrid \in HybridRange
    BY SignalsAre, SignalsAreInt, HybridInRange DEF Hybrid
  <2> QED
    BY <2>1, PolicyAssumption DEF HybridRange, PolicyAssumption
<1>2. duration \in Int /\ intent \in BOOLEAN
  BY DEF ScoreTypeOK
<1>3. EarnsTier3(Hybrid, duration) => EarnsTier2(Hybrid, duration)
  BY <1>1, <1>2, PolicyAssumption
     DEF EarnsTier3, EarnsTier2, PolicyAssumption
<1>4. Tier = 1 <=> ~ EarnsTier2(Hybrid, duration) /\ ~ intent
  BY <1>3 DEF Tier, ClassifyTier
<1>5. Tier = 3 <=> EarnsTier3(Hybrid, duration)
  BY DEF Tier, ClassifyTier
<1>6. ~ EarnsTier2(Hybrid, duration)
        <=> Hybrid < Tier2Score /\ duration < Tier2MinDuration
  BY <1>1, <1>2, PolicyAssumption DEF EarnsTier2, PolicyAssumption
<1> QED
  BY <1>4, <1>5, <1>6 DEF TierTable, EarnsTier3

\* The tiers are those of the table in scoring/mod.rs, for every scale, weight
\* and threshold of which one pair is in order.  config.rs does not check that:
\* with both pairs reversed a session earns Tier 3 below Tier 2's thresholds.
THEOREM TiersAreTheTable ==
  ASSUME Tier2Score <= Tier3Score \/ Tier2MinDuration <= Tier3MinDuration
  PROVE  Spec => []TierTable
<1>1. ScoreTypeOK => TierTable
  BY TierTableOK
<1> QED
  BY <1>1, ScoreTyping, PTL

LEMMA WorsenRaises ==
  ASSUME ScoreTypeOK, Worsen
  PROVE  /\ \A n \in SignalNames : signal[n] <= signal'[n]
         /\ duration <= duration' /\ (intent => intent')
<1>1. \A n \in SignalNames : signal[n] \in Int
  BY SignalsAreInt DEF ScoreTypeOK
<1>2. duration \in Int
  BY DEF ScoreTypeOK
<1>3. CASE RaiseSignal
  <2>1. PICK n \in SignalNames : signal' = [signal EXCEPT ![n] = @ + 1]
    BY <1>3 DEF RaiseSignal
  <2>2. \A m \in SignalNames :
           signal'[m] = IF m = n THEN signal[m] + 1 ELSE signal[m]
    BY <2>1 DEF ScoreTypeOK
  <2> QED
    BY <1>1, <1>2, <1>3, <2>2 DEF RaiseSignal
<1>4. CASE TrackMinute
  BY <1>1, <1>2, <1>4 DEF TrackMinute
<1>5. CASE FlagIntent
  BY <1>1, <1>2, <1>5 DEF FlagIntent
<1> QED
  BY <1>3, <1>4, <1>5 DEF Worsen

LEMMA WorsenNeverRewarded ==
  ASSUME WeightVelocity >= 0, WeightDivergence >= 0, WeightEntropy >= 0,
         WeightAnomaly >= 0, ScoreTypeOK, ScoreTypeOK', Worsen
  PROVE  Hybrid' >= Hybrid /\ Tier' >= Tier
<1>1. /\ signal.velocity \in Signals /\ signal.divergence \in Signals
      /\ signal.entropy \in Signals /\ signal.anomaly \in Signals
      /\ signal'.velocity \in Signals /\ signal'.divergence \in Signals
      /\ signal'.entropy \in Signals /\ signal'.anomaly \in Signals
  BY DEF ScoreTypeOK, SignalNames
<1>2. /\ signal.velocity <= signal'.velocity
      /\ signal.divergence <= signal'.divergence
      /\ signal.entropy <= signal'.entropy
      /\ signal.anomaly <= signal'.anomaly
  BY WorsenRaises DEF SignalNames
<1>3. Hybrid <= Hybrid'
  BY <1>1, <1>2, HybridMonotone DEF Hybrid
<1>4. Hybrid \in Int /\ Hybrid' \in Int
  <2>1. Hybrid \in HybridRange /\ Hybrid' \in HybridRange
    BY <1>1, SignalsAreInt, HybridInRange DEF Hybrid
  <2> QED
    BY <2>1, PolicyAssumption DEF HybridRange, PolicyAssumption
<1>5. /\ duration \in Int /\ duration' \in Int
      /\ intent \in BOOLEAN /\ intent' \in BOOLEAN
      /\ duration <= duration' /\ (intent => intent')
  BY WorsenRaises DEF ScoreTypeOK
<1>6. ClassifyTier(Hybrid, duration, intent)
        <= ClassifyTier(Hybrid', duration', intent')
  BY <1>3, <1>4, <1>5, ClassifyTierMonotone
<1>7. Tier' = ClassifyTier(Hybrid', duration', intent')
  BY DEF Tier
<1>8. Tier \in Int /\ Tier' \in Int
  BY <1>4, <1>5, <1>7, ClassifyTierType DEF Tier, Tiers
<1> QED
  BY <1>3, <1>4, <1>6, <1>7, <1>8 DEF Tier

\* No step that makes a session look worse lowers its score or its tier, under
\* every threshold and scale, provided no weight is negative, which config.rs
\* does not check.
THEOREM WorseIsNeverRewarded ==
  ASSUME WeightVelocity >= 0, WeightDivergence >= 0, WeightEntropy >= 0,
         WeightAnomaly >= 0
  PROVE  Spec => NeverRewarded
<1>1. ScoreTypeOK /\ ScoreTypeOK' /\ [Next]_vars
        => [Worsen => /\ Hybrid' >= Hybrid
                      /\ Tier' >= Tier]_vars
  BY WorsenNeverRewarded
<1> QED
  BY <1>1, ScoreTyping, PTL DEF Spec, NeverRewarded

(***************************************************************************)
(* The configuration: every config.toml and every environment.             *)
(***************************************************************************)
\* A section and a name of two words are three words.
LEMMA ThreeWords ==
  ASSUME NEW s, NEW u, NEW v PROVE DOMAIN (<<s>> \o <<u, v>>) = 1..3
  OBVIOUS

\* The variable of a secret's name has a component too many for the path the
\* field has: no environment sets a secret.
LEMMA NoVariableReachesASecret ==
  ASSUME NEW f \in Secrets PROVE EnvPath(EnvVar(f)) # FieldPath(f)
<1>1. \E u, v : f.name = <<u, v>>
  <2>1. CASE f = redis_url
    BY <2>1 DEF redis_url
  <2>2. CASE f = database_url
    BY <2>2 DEF database_url
  <2>3. CASE f = api_key
    BY <2>3 DEF api_key
  <2> QED
    BY <2>1, <2>2, <2>3 DEF Secrets
<1>2. PICK u, v : f.name = <<u, v>>
  BY <1>1
<1>3. DOMAIN EnvVar(f) = 1..3
  BY <1>2, ThreeWords DEF EnvVar
<1>4. DOMAIN EnvPath(EnvVar(f)) = 1..3
  BY <1>3 DEF EnvPath
<1>5. DOMAIN FieldPath(f) = 1..2
  BY DEF FieldPath
<1>6. 3 \in 1..3 /\ 3 \notin 1..2
  OBVIOUS
<1> QED
  BY <1>4, <1>5, <1>6

\* Load succeeds only when config.toml has the three secrets, whatever else it
\* and the environment hold: separator("_") (config.rs line 243) cuts the
\* variables of lines 189-191 and 270-276 at every underscore, so that none
\* reaches a secret.  This is not what config.rs says: see EnvironmentSuffices.
THEOREM SecretsOnlyFromFile ==
  ASSUME NEW toml, NEW variables, Loads(toml, variables)
  PROVE  Secrets \subseteq DOMAIN toml
<1> SUFFICES ASSUME NEW f \in Secrets PROVE f \in DOMAIN toml
  OBVIOUS
<1>1. Present(f, toml, variables)
  BY DEF Loads, Fields
<1>2. f \notin DOMAIN Defaults
  BY DEF Defaults
<1>3. ~ EnvReaches(f, variables)
  BY NoVariableReachesASecret DEF EnvReaches
<1> QED
  BY <1>1, <1>2, <1>3 DEF Present

(***************************************************************************)
(* The anomaly model.                                                      *)
(***************************************************************************)
AnomalyTypeOK == /\ seen \in Seq(FeatureVectors)
                 /\ \A f \in Features : StatsOK(model[f])

LEMMA AnomalyInit == Init => AnomalyTypeOK
<1> SUFFICES ASSUME Init PROVE AnomalyTypeOK
  OBVIOUS
<1>1. seen = <<>> /\ model = NewModel
  BY DEF Init
<1> SUFFICES ASSUME NEW f \in Features PROVE StatsOK(model[f])
  BY <1>1 DEF AnomalyTypeOK
<1> DEFINE n == PriorCount  a == PriorMean[f]  c == PriorVariance[f] * (PriorCount - 1)
<1>2. n \in Nat /\ n >= 2 /\ a \in Int /\ c \in Int
  BY AnomalyAssumption DEF AnomalyAssumption
<1>3. c \in Nat
  <2>1. PriorVariance[f] \in Nat /\ PriorCount - 1 \in Nat
    BY AnomalyAssumption DEF AnomalyAssumption
  <2> QED
    BY <2>1, ProductNat
<1>4. model[f] = [count |-> n, mean |-> Whole(a), m2 |-> Whole(c)]
  BY <1>1 DEF NewModel, WithPrior
<1> HIDE DEF n, a, c
<1>5. StatsAre(model[f], n, a, 1, c, 1)
  BY <1>2, <1>3, <1>4, WholeIsFrac DEF StatsAre
<1> QED
  BY <1>5 DEF StatsOK

LEMMA ObservedVector ==
  ASSUME NEW v \in FeatureVectors, NEW f \in Features PROVE v[f] \in Int
  BY InputsAssumption DEF FeatureVectors, InputsAssumption

LEMMA ObserveStep ==
  ASSUME AnomalyTypeOK, Observe
  PROVE  /\ AnomalyTypeOK'
         /\ \E v \in FeatureVectors :
              /\ model' = Update(model, v) /\ seen' = Append(seen, v)
              /\ Last(seen') = v
              /\ ScoredOK(model, v) /\ ScoredOK(model', v)
<1>1. PICK v \in FeatureVectors : model' = Update(model, v) /\ seen' = Append(seen, v)
  BY DEF Observe
<1>2. \A f \in Features : v[f] \in Int
  BY ObservedVector
<1>3. ASSUME NEW f \in Features PROVE StatsOK(model'[f])
  <2>1. model'[f] = UpdateStats(model[f], v[f])
    BY <1>1 DEF Update
  <2> QED
    BY <1>2, <2>1, UpdateOK DEF AnomalyTypeOK
<1>4. seen' \in Seq(FeatureVectors) /\ Last(seen') = v
  BY <1>1 DEF AnomalyTypeOK, Last
<1> QED
  BY <1>1, <1>2, <1>3, <1>4 DEF AnomalyTypeOK, ScoredOK

LEMMA NotObserve ==
  ASSUME [Next]_vars, ~ Observe PROVE UNCHANGED anomalyVars
  BY DEF Next, Worsen, RaiseSignal, TrackMinute, FlagIntent, StartOver, Arrive,
         Wait, Ask, Defend, Configure, Only, vars

LEMMA AnomalyStep == AnomalyTypeOK /\ [Next]_vars => AnomalyTypeOK'
<1> SUFFICES ASSUME AnomalyTypeOK, [Next]_vars PROVE AnomalyTypeOK'
  OBVIOUS
<1>1. CASE Observe
  BY <1>1, ObserveStep
<1>2. CASE ~ Observe
  BY <1>2, NotObserve DEF AnomalyTypeOK, anomalyVars
<1> QED
  BY <1>1, <1>2

LEMMA AnomalyTyping == Spec => []AnomalyTypeOK
  BY AnomalyInit, AnomalyStep, PTL DEF Spec

\* What the model has just learnt never scores higher than before, whatever
\* the prior, the observations so far and the reading.
THEOREM LearntNeverAlarms == Spec => LearningNeverAlarms
<1>1. ASSUME AnomalyTypeOK, Observe
      PROVE  AtMost(ScoredZ(model', Last(seen')), ScoredZ(model, Last(seen')))
  <2>1. PICK v \in FeatureVectors :
           /\ model' = Update(model, v) /\ Last(seen') = v
           /\ ScoredOK(model, v) /\ ScoredOK(model', v)
    BY <1>1, ObserveStep
  <2>2. ASSUME NEW f \in Features
        PROVE  AtMost(ZSquared(model'[f], v[f]), ZSquared(model[f], v[f]))
    <3>1. model'[f] = UpdateStats(model[f], v[f])
      BY <2>1 DEF Update
    <3>2. StatsOK(model[f]) /\ v[f] \in Int
      BY <2>1 DEF ScoredOK
    <3> QED
      BY <3>1, <3>2, LearntIsCloser
  <2>3. AtMost(ScoredZ(model', v), ScoredZ(model, v))
    BY <2>1, <2>2, ScoreMonotone
  <2> QED
    BY <2>1, <2>3
<1>2. AnomalyTypeOK /\ [Next]_vars
        => [Observe => AtMost(ScoredZ(model', Last(seen')),
                              ScoredZ(model, Last(seen')))]_vars
  BY <1>1
<1> QED
  BY <1>2, AnomalyTyping, PTL DEF Spec, LearningNeverAlarms

\* The statistics of n values of sum t and sum of squares q (in which the
\* prior's variance is included) as Welford's update keeps them.
Welford(s, n, t, q) ==
    /\ n \in Nat /\ n >= 2 /\ t \in Int /\ q \in Int /\ n * q - t * t \in Nat
    /\ s = [count |-> n, mean |-> Frac(t, n), m2 |-> Frac(n * q - t * t, n)]

LEMMA WelfordIdentity ==
  ASSUME NEW n \in Int, NEW t \in Int, NEW q \in Int, NEW x \in Int
  PROVE  (n * q - t * t) * (n + 1) + (x * n - t) * (x * n - t)
           = n * ((n + 1) * (q + x * x) - (t + x) * (t + x))
  OBVIOUS

LEMMA WelfordUpdate ==
  ASSUME NEW s, NEW n, NEW t, NEW q, Welford(s, n, t, q), NEW x \in Int
  PROVE  Welford(UpdateStats(s, x), n + 1, t + x, q + x * x)
<1> DEFINE c == n * q - t * t  u == x * n - t  g == (u * u) * n
           e == n * (n * (n + 1))  m == n + 1
           c1 == m * (q + x * x) - (t + x) * (t + x)
<1>1. /\ n \in Nat /\ n >= 2 /\ t \in Int /\ q \in Int /\ c \in Nat /\ m \in Nat \ {0}
      /\ u \in Int /\ c1 \in Int
  BY DEF Welford
<1>2. StatsAre(s, n, t, n, c, n)
  <2>1. n \in Nat \ {0}
    BY <1>1
  <2> HIDE DEF c
  <2> QED
    BY <1>1, <2>1 DEF StatsAre, Welford, c
<1>3. Adds(n, n, u, g, e)
  BY <1>1 DEF Adds
<1>4. /\ e \in Nat \ {0} /\ g \in Nat
      /\ StatsAre(UpdateStats(s, x), m, t * m + u, n * m, c * e + g * n, n * e)
  <2> HIDE DEF c, g, e, u
  <2> QED
    BY <1>1, <1>2, <1>3, UpdateAre DEF u
<1>5. t * m + u = n * (t + x)
  BY <1>1
<1>6. c * m + u * u = n * c1
  BY <1>1, WelfordIdentity
<1>7. c * e + g * n = (n * n) * (n * c1)
  <2>1. c * e + g * n = (n * n) * (c * m + u * u)
    <3> HIDE DEF c, u
    <3> QED
      BY <1>1
  <2> HIDE DEF c, e, g, u, c1
  <2> QED
    BY <1>6, <2>1
<1>8. Frac(t * m + u, n * m) = Frac(t + x, m)
  <2> DEFINE y == t + x
  <2>1. Expands(n, y, m, t * m + u, n * m)
    BY <1>1, <1>5 DEF Expands
  <2> HIDE DEF y, u, m
  <2>2. Frac(t * m + u, n * m) = Frac(y, m)
    BY <2>1, FracCancel
  <2> QED
    BY <2>2 DEF y
<1>9. Frac(c * e + g * n, n * e) = Frac(c1, m)
  <2> DEFINE k == n * (n * n)
  <2>1. n * e = k * m /\ c * e + g * n = k * c1
    <3>1. n * e = k * m
      BY <1>1
    <3>2. (n * n) * (n * c1) = k * c1
      <4> HIDE DEF c1
      <4> QED
        BY <1>1
    <3> QED
      BY <1>7, <3>1, <3>2
  <2>2. k \in Nat \ {0}
    <3>1. n \in Nat \ {0} /\ n * n \in Nat \ {0}
      BY <1>1, ProductPositive
    <3> QED
      BY <3>1, ProductPositive
  <2> HIDE DEF k, c, g, e, c1, m
  <2>3. Expands(k, c1, m, c * e + g * n, n * e)
    BY <1>1, <2>1, <2>2 DEF Expands
  <2> QED
    BY <2>3, FracCancel
<1>10. c1 \in Nat
  <2>1. c * m + u * u \in Nat
    <3>1. u * u \in Nat /\ c * m \in Nat
      <4> HIDE DEF c, u, m
      <4> QED
        BY <1>1, SquareNat, ProductNat
    <3> QED
      BY <3>1
  <2> HIDE DEF c1, c, u, m
  <2>2. 0 <= n * c1
    BY <1>6, <2>1
  <2>3. n * 0 <= n * c1
    BY <1>1, <2>2
  <2>4. 0 <= c1
    BY <1>1, <2>3, CancelFactor
  <2> QED
    BY <1>1, <2>4
<1> HIDE DEF c, g, e, u, c1
<1>11. UpdateStats(s, x) =
         [count |-> m, mean |-> Frac(t * m + u, n * m), m2 |-> Frac(c * e + g * n, n * e)]
  BY <1>4 DEF StatsAre
<1>12. UpdateStats(s, x) = [count |-> m, mean |-> Frac(t + x, m), m2 |-> Frac(c1, m)]
  BY <1>8, <1>9, <1>11
<1> QED
  BY <1>1, <1>10, <1>12 DEF Welford, c1

\* Sums over the observations of one feature.
Squared(f) == [k \in DOMAIN seen |-> seen[k][f] * seen[k][f]]
SquareSum(f) == PriorVariance[f] * (PriorCount - 1)
                  + PriorCount * (PriorMean[f] * PriorMean[f])
                  + SumFunction(Squared(f))
WelfordInv == \A f \in Features : Welford(model[f], Count, Gathered(f), SquareSum(f))

LEMMA SeenValues ==
  ASSUME AnomalyTypeOK, NEW f \in Features
  PROVE  /\ Len(seen) \in Nat /\ DOMAIN seen = 1..Len(seen) /\ IsFiniteSet(DOMAIN seen)
         /\ \A k \in DOMAIN seen : seen[k][f] \in Int
<1>1. seen \in Seq(FeatureVectors)
  BY DEF AnomalyTypeOK
<1>2. Len(seen) \in Nat /\ DOMAIN seen = 1..Len(seen)
       /\ \A k \in 1..Len(seen) : seen[k] \in FeatureVectors
  BY <1>1
<1>3. IsFiniteSet(1..Len(seen))
  BY <1>2, IntervalFinite
<1> QED
  BY <1>2, <1>3, ObservedVector

LEMMA SumsAreInt ==
  ASSUME AnomalyTypeOK, NEW f \in Features
  PROVE  /\ SumFunction(Observed(f)) \in Int /\ SumFunction(Squared(f)) \in Int
         /\ Gathered(f) \in Int /\ SquareSum(f) \in Int /\ Count \in Nat \ {0}
<1> DEFINE o == Observed(f)  w == Squared(f)
<1>1. /\ DOMAIN o = DOMAIN seen /\ DOMAIN w = DOMAIN seen
      /\ \A k \in DOMAIN seen : o[k] \in Int /\ w[k] \in Int
  BY SeenValues DEF Observed, Squared
<1> HIDE DEF o, w
<1>2. Sum(o, DOMAIN seen) \in Int /\ Sum(w, DOMAIN seen) \in Int
  BY <1>1, SeenValues, SumType
<1>3. SumFunction(o) \in Int /\ SumFunction(w) \in Int
  BY <1>1, <1>2, SumOver
<1>4. PriorCount \in Nat /\ PriorMean[f] \in Nat /\ PriorVariance[f] \in Nat /\ PriorCount >= 2
  BY AnomalyAssumption DEF AnomalyAssumption
<1>5. Gathered(f) \in Int
  BY <1>3, <1>4 DEF Gathered, o
<1>6. SquareSum(f) \in Int
  BY <1>3, <1>4 DEF SquareSum, w
<1>7. Count \in Nat \ {0}
  BY <1>4, SeenValues DEF Count
<1> QED
  BY <1>3, <1>5, <1>6, <1>7 DEF o, w

LEMMA SumEmptyFunction == ASSUME NEW f, DOMAIN f = {} PROVE SumFunction(f) = 0
  BY SumOver, SumEmpty

LEMMA WelfordInit == Init => WelfordInv
<1> SUFFICES ASSUME Init, NEW f \in Features
             PROVE  Welford(model[f], Count, Gathered(f), SquareSum(f))
  BY DEF WelfordInv
<1> DEFINE n == PriorCount  a == PriorMean[f]  c == PriorVariance[f] * (PriorCount - 1)
<1>1. seen = <<>> /\ model = NewModel
  BY DEF Init
<1>2. n \in Nat /\ n >= 2 /\ a \in Nat /\ PriorVariance[f] \in Nat /\ n - 1 \in Nat
  BY AnomalyAssumption DEF AnomalyAssumption
<1>3. c \in Nat
  BY <1>2, ProductNat
<1>4. DOMAIN Observed(f) = {} /\ DOMAIN Squared(f) = {} /\ Len(seen) = 0
  BY <1>1 DEF Observed, Squared
<1>5. SumFunction(Observed(f)) = 0 /\ SumFunction(Squared(f)) = 0
  BY <1>4, SumEmptyFunction
<1>6. model[f] = [count |-> n, mean |-> Whole(a), m2 |-> Whole(c)]
  BY <1>1 DEF NewModel, WithPrior
<1>7. Count = n
  BY <1>2, <1>4 DEF Count
<1> DEFINE t == n * a  q == c + n * (a * a)
<1>8. Gathered(f) = t /\ t \in Int
  BY <1>2, <1>5 DEF Gathered
<1>9. SquareSum(f) = q /\ q \in Int
  <2>1. n * (a * a) \in Int
    BY <1>2
  <2> QED
    BY <1>3, <1>5, <2>1 DEF SquareSum
<1>10. n * q - t * t = n * c /\ n * c \in Nat
  <2>1. n * (c + n * (a * a)) - (n * a) * (n * a) = n * c
    <3> HIDE DEF c
    <3> QED
      BY <1>2, <1>3
  <2> QED
    BY <1>2, <1>3, <2>1, ProductNat
<1>11. Frac(n * a, n) = Frac(a, 1) /\ Frac(n * c, n) = Frac(c, 1)
  <2>1. n * 1 = n /\ n \in Nat \ {0} /\ a \in Int /\ c \in Int
    BY <1>2, <1>3
  <2> HIDE DEF n, a, c
  <2>2. Expands(n, a, 1, n * a, n) /\ Expands(n, c, 1, n * c, n)
    BY <2>1 DEF Expands
  <2> QED
    BY <2>2, FracCancel
<1>12. Whole(a) = Frac(a, 1) /\ Whole(c) = Frac(c, 1)
  BY <1>2, <1>3, WholeIsFrac
<1> HIDE DEF n, a, c, q
<1>13. model[f] = [count |-> n, mean |-> Frac(t, n), m2 |-> Frac(n * q - t * t, n)]
  BY <1>6, <1>10, <1>11, <1>12
<1> HIDE DEF t
<1>14. Welford(model[f], n, t, q)
  BY <1>2, <1>8, <1>9, <1>10, <1>13 DEF Welford
<1> QED
  BY <1>7, <1>8, <1>9, <1>14

\* One observation more adds its value to a sum.
LEMMA SumOneMore ==
  ASSUME NEW n \in Nat, NEW g, NEW h, DOMAIN g = 1..n, DOMAIN h = 1..(n + 1),
         \A k \in 1..n : g[k] \in Int /\ h[k] = g[k], h[n + 1] \in Int
  PROVE  SumFunction(h) = SumFunction(g) + h[n + 1]
<1>1. \A k \in 1..(n + 1) : h[k] \in Int
  BY Z3
<1>2. Sum(h, 1..(n + 1)) = h[n + 1] + Sum(h, 1..n)
  BY <1>1, SumNext
<1>3. IsFiniteSet(1..n)
  BY IntervalFinite
<1>4. Sum(h, 1..n) = Sum(g, 1..n) /\ Sum(g, 1..n) \in Int
  BY <1>3, SumSame, SumType
<1> QED
  BY <1>2, <1>4, SumOver

LEMMA WelfordStep == AnomalyTypeOK /\ WelfordInv /\ [Next]_vars => WelfordInv'
<1> SUFFICES ASSUME AnomalyTypeOK, WelfordInv, [Next]_vars PROVE WelfordInv'
  OBVIOUS
<1>1. CASE ~ Observe
  <2>1. UNCHANGED <<model, seen>>
    BY <1>1, NotObserve DEF anomalyVars
  <2> QED
    BY <2>1 DEF WelfordInv, Count, Gathered, SquareSum, Observed, Squared
<1>2. CASE Observe
  <2>1. PICK v \in FeatureVectors : model' = Update(model, v) /\ seen' = Append(seen, v)
    BY <1>2, ObserveStep
  <2> SUFFICES ASSUME NEW f \in Features
               PROVE  Welford(model'[f], Count', Gathered(f)', SquareSum(f)')
    BY DEF WelfordInv
  <2> DEFINE n == Len(seen)  x == v[f]
  <2>2. x \in Int /\ n \in Nat /\ DOMAIN seen = 1..n
    BY ObservedVector, SeenValues
  <2>3. /\ DOMAIN seen' = 1..(n + 1) /\ Len(seen') = n + 1 /\ seen'[n + 1] = v
        /\ \A k \in 1..n : seen'[k] = seen[k]
    BY <2>1 DEF AnomalyTypeOK
  <2>4. \A k \in 1..n : seen[k][f] \in Int
    BY <2>2, SeenValues
  <2> HIDE DEF n, x
  <2>5. SumFunction(Observed(f)') = SumFunction(Observed(f)) + x
    <3> DEFINE g == Observed(f)  h == Observed(f)'
    <3>1. /\ DOMAIN g = 1..n /\ DOMAIN h = 1..(n + 1)
          /\ \A k \in 1..n : g[k] \in Int /\ h[k] = g[k]
          /\ h[n + 1] = x
      BY <2>2, <2>3, <2>4 DEF Observed, x
    <3> HIDE DEF g, h
    <3>2. SumFunction(h) = SumFunction(g) + x
      BY <2>2, <3>1, SumOneMore
    <3> QED
      BY <3>2 DEF g, h
  <2>6. SumFunction(Squared(f)') = SumFunction(Squared(f)) + x * x
    <3> DEFINE g == Squared(f)  h == Squared(f)'
    <3>1. /\ DOMAIN g = 1..n /\ DOMAIN h = 1..(n + 1)
          /\ \A k \in 1..n : g[k] \in Int /\ h[k] = g[k]
          /\ h[n + 1] = x * x
      BY <2>2, <2>3, <2>4 DEF Squared, x
    <3>2. x * x \in Int
      BY <2>2
    <3> HIDE DEF g, h
    <3>3. SumFunction(h) = SumFunction(g) + x * x
      BY <2>2, <3>1, <3>2, SumOneMore
    <3> QED
      BY <3>3 DEF g, h
  <2>7. Count' = Count + 1 /\ Gathered(f)' = Gathered(f) + x
          /\ SquareSum(f)' = SquareSum(f) + x * x
    <3>1. PriorCount \in Nat /\ PriorMean[f] \in Nat /\ PriorVariance[f] \in Nat
      BY AnomalyAssumption DEF AnomalyAssumption
    <3>2. x * x \in Int
      BY <2>2
    <3>3. Count' = Count + 1
      BY <2>2, <2>3, <3>1 DEF Count, n
    <3>4. Gathered(f)' = Gathered(f) + x
      BY <2>2, <2>5, <3>1, SumsAreInt DEF Gathered
    <3>5. SquareSum(f)' = SquareSum(f) + x * x
      <4> DEFINE y == x * x  p == PriorVariance[f] * (PriorCount - 1)
                 r == PriorCount * (PriorMean[f] * PriorMean[f])
      <4>1. p \in Int /\ r \in Int /\ y \in Int
        BY <3>1, <3>2
      <4> HIDE DEF p, r, y
      <4> QED
        BY <2>6, <4>1, SumsAreInt DEF SquareSum, p, r, y
    <3> QED
      BY <3>3, <3>4, <3>5
  <2>8. model'[f] = UpdateStats(model[f], x)
    BY <2>1 DEF Update, x
  <2>9. Welford(UpdateStats(model[f], x), Count + 1, Gathered(f) + x, SquareSum(f) + x * x)
    BY <2>2, WelfordUpdate DEF WelfordInv
  <2> QED
    BY <2>7, <2>8, <2>9
<1> QED
  BY <1>1, <1>2

\* Two passes: n^2 times the squared distances is n times what Welford keeps.
LEMMA TwoPasses ==
  ASSUME NEW p \in Int, NEW l \in Int, NEW n, n = p + l,
         NEW m \in Int, NEW v \in Int, NEW so \in Int, NEW sw \in Int,
         NEW t, t = p * m + so, NEW q, q = v * (p - 1) + p * (m * m) + sw
  PROVE  n * n * v * (p - 1) + p * ((n * m - t) * (n * m - t))
           + ((n * n) * sw + ((-2) * (n * t)) * so + (t * t) * l)
           = n * (n * q - t * t)
<1>1. n \in Int /\ t \in Int /\ q \in Int /\ n * t \in Int /\ n * n \in Int /\ t * t \in Int
  OBVIOUS
<1>2. p * ((n * m - t) * (n * m - t))
        = (n * n) * (p * (m * m)) + ((-2) * (n * t)) * (p * m) + (t * t) * p
  BY <1>1
<1>3. n * n * v * (p - 1) = (n * n) * (v * (p - 1))
  BY <1>1
<1>4. n * (n * q - t * t) = (n * n) * q - n * (t * t)
  BY <1>1
<1>5. (n * n) * q
        = (n * n) * (v * (p - 1)) + (n * n) * (p * (m * m)) + (n * n) * sw
  BY <1>1
<1>6. ((-2) * (n * t)) * (p * m) + ((-2) * (n * t)) * so = (-2) * (n * (t * t))
  <2>1. ((-2) * (n * t)) * (p * m) + ((-2) * (n * t)) * so
          = ((-2) * (n * t)) * (p * m + so)
    BY <1>1
  <2>2. ((-2) * (n * t)) * t = (-2) * (n * (t * t))
    BY <1>1
  <2> QED
    BY <2>1, <2>2
<1>7. (t * t) * p + (t * t) * l = n * (t * t)
  BY <1>1
<1> DEFINE x1 == (n * n) * (v * (p - 1))  x2 == (n * n) * (p * (m * m))
           x3 == (n * n) * sw  x4 == ((-2) * (n * t)) * (p * m)
           x5 == ((-2) * (n * t)) * so  x6 == (t * t) * p  x7 == (t * t) * l
           x8 == n * (t * t)
<1>8. /\ x1 \in Int /\ x2 \in Int /\ x3 \in Int /\ x4 \in Int /\ x5 \in Int
      /\ x6 \in Int /\ x7 \in Int /\ x8 \in Int
  BY <1>1
<1>9. x4 + x5 = (-2) * x8 /\ x6 + x7 = x8
  BY <1>6, <1>7
<1> HIDE DEF x1, x2, x3, x4, x5, x6, x7, x8
<1>10. x1 + (x2 + x4 + x6) + (x3 + x5 + x7) = (x1 + x2 + x3) - x8
  BY <1>8, <1>9
<1> QED
  BY <1>2, <1>3, <1>4, <1>5, <1>10 DEF x1, x2, x3, x4, x5, x6, x7, x8

LEMMA WelfordOK == AnomalyTypeOK /\ WelfordInv => WelfordMatchesTwoPass
<1> SUFFICES ASSUME AnomalyTypeOK, WelfordInv, NEW f \in Features
             PROVE  model[f] = [count |-> Count, mean |-> Frac(Gathered(f), Count),
                                m2 |-> Frac(Deviations(f), Count * Count)]
  BY DEF WelfordMatchesTwoPass
<1> DEFINE n == Count  t == Gathered(f)  q == SquareSum(f)  S == DOMAIN seen
           o == Observed(f)  w == Squared(f)  l == Len(seen)
           h == [k \in DOMAIN seen |-> Deviation(f, seen[k][f])]
<1>1. Welford(model[f], n, t, q)
  BY DEF WelfordInv
<1>2. n \in Nat \ {0} /\ t \in Int /\ q \in Int /\ l \in Nat
  BY SumsAreInt, SeenValues
<1>3. /\ S = 1..l /\ IsFiniteSet(S)
      /\ \A k \in S : /\ o[k] \in Int /\ w[k] = o[k] * o[k]
                      /\ h[k] = (n * o[k] - t) * (n * o[k] - t)
      /\ DOMAIN o = S /\ DOMAIN w = S /\ DOMAIN h = S
  BY SeenValues DEF Observed, Squared, Deviation
<1>4. Cardinality(S) = l
  BY <1>2, <1>3, IntervalSize
<1> DEFINE p == PriorCount  m == PriorMean[f]  v == PriorVariance[f]
           so == SumFunction(o)  sw == SumFunction(w)
<1>5. p \in Int /\ m \in Int /\ v \in Int
  BY AnomalyAssumption DEF AnomalyAssumption
<1>6. /\ n = p + l /\ t = p * m + so /\ q = v * (p - 1) + p * (m * m) + sw
      /\ Deviations(f) = n * n * v * (p - 1) + p * ((n * m - t) * (n * m - t))
                           + SumFunction(h)
  BY DEF Count, Gathered, SquareSum, Deviations, Deviation
<1> HIDE DEF n, t, q, o, w, h, S, p, m, v, l
<1>7. /\ so \in Int /\ sw \in Int
      /\ SumFunction(h) = (n * n) * sw + ((-2) * (n * t)) * so + (t * t) * l
  <2>1. SumFunction(h) = Sum(h, S) /\ so = Sum(o, S) /\ sw = Sum(w, S)
    BY <1>3, SumOver
  <2>2. /\ Sum(o, S) \in Int /\ Sum(w, S) \in Int
        /\ Sum(h, S) = (n * n) * Sum(w, S) + ((-2) * (n * t)) * Sum(o, S)
                          + (t * t) * Cardinality(S)
    <3>1. SquaresOf(S, n, t, o, w, h)
      BY <1>2, <1>3 DEF SquaresOf
    <3> QED
      BY <1>3, <3>1, SumOfSquares
  <2> HIDE DEF so, sw
  <2> QED
    BY <1>4, <2>1, <2>2
<1> HIDE DEF so, sw
<1>8. Deviations(f) = n * (n * q - t * t)
  <2> DEFINE x == n * n * v * (p - 1) + p * ((n * m - t) * (n * m - t))
  <2>1. x + ((n * n) * sw + ((-2) * (n * t)) * so + (t * t) * l)
          = n * (n * q - t * t)
    BY <1>2, <1>5, <1>6, <1>7, TwoPasses
  <2>2. Deviations(f) = x + SumFunction(h)
    BY <1>6
  <2> HIDE DEF x
  <2> QED
    BY <1>7, <2>1, <2>2
<1>9. n * q - t * t \in Int
  BY <1>2
<1> DEFINE c == n * q - t * t
<1> HIDE DEF c
<1>10. Frac(n * c, n * n) = Frac(c, n)
  <2>1. Expands(n, c, n, n * c, n * n)
    BY <1>2, <1>9 DEF Expands, c
  <2> QED
    BY <2>1, FracCancel
<1>11. model[f] = [count |-> n, mean |-> Frac(t, n), m2 |-> Frac(c, n)]
  BY <1>1 DEF Welford, c
<1>12. Deviations(f) = n * c
  BY <1>8 DEF c
<1> QED
  BY <1>10, <1>11, <1>12 DEF n, t

\* The running statistics are exactly those of two passes over the prior and
\* everything observed, after any number of observations.
THEOREM WelfordIsExact == Spec => []WelfordMatchesTwoPass
<1>1. Init => AnomalyTypeOK /\ WelfordInv
  BY AnomalyInit, WelfordInit
<1>2. AnomalyTypeOK /\ WelfordInv /\ [Next]_vars => (AnomalyTypeOK /\ WelfordInv)'
  BY AnomalyStep, WelfordStep
<1> QED
  BY <1>1, <1>2, WelfordOK, PTL DEF Spec

(***************************************************************************)
(* The velocity signal.                                                    *)
(***************************************************************************)
\* No request bears a time later than the clock.
VelocityTypeOK == RecordOK(stamps, Len(stamps), now) /\ stamps \in Seq(Int)

LEMMA VelocityInit == Init => VelocityTypeOK
  BY DEF Init, VelocityTypeOK, RecordOK

LEMMA NotArrive ==
  ASSUME [Next]_vars, ~ Arrive, ~ Wait PROVE UNCHANGED velocityVars
  BY DEF Next, Worsen, RaiseSignal, TrackMinute, FlagIntent, StartOver, Observe,
         Ask, Defend, Configure, Only, vars

LEMMA ArriveStep ==
  ASSUME VelocityTypeOK, Arrive PROVE VelocityTypeOK'
<1>1. PICK t \in (now - Lag)..now : stamps' = Append(stamps, t)
  BY DEF Arrive
<1>2. now' = now
  BY DEF Arrive
<1>3. stamps \in Seq(Int) /\ now \in Int /\ Lag \in Nat
      /\ \A k \in 1..Len(stamps) : stamps[k] <= now
  BY InputsAssumption DEF VelocityTypeOK, RecordOK, InputsAssumption
<1>4. t \in Int /\ t <= now
  BY <1>3
<1>5. /\ stamps' \in Seq(Int) /\ Len(stamps') = Len(stamps) + 1
      /\ \A k \in 1..Len(stamps) : stamps'[k] = stamps[k]
      /\ stamps'[Len(stamps) + 1] = t
  BY <1>1, <1>3, <1>4
<1>6. ASSUME NEW k \in 1..Len(stamps')
      PROVE  stamps'[k] \in Int /\ stamps'[k] <= now
  <2>1. CASE k \in 1..Len(stamps)
    <3>1. stamps[k] \in Int
      BY <1>3, <2>1
    <3> QED
      BY <1>3, <1>5, <2>1, <3>1
  <2>2. CASE k \notin 1..Len(stamps)
    <3>1. k = Len(stamps) + 1
      BY <1>3, <1>5, <2>2
    <3> QED
      BY <1>4, <1>5, <3>1
  <2> QED
    BY <2>1, <2>2
<1> QED
  BY <1>2, <1>3, <1>5, <1>6 DEF VelocityTypeOK, RecordOK

LEMMA WaitStep ==
  ASSUME VelocityTypeOK, Wait PROVE VelocityTypeOK'
  BY DEF Wait, VelocityTypeOK, RecordOK

LEMMA VelocityStep == VelocityTypeOK /\ [Next]_vars => VelocityTypeOK'
<1> SUFFICES ASSUME VelocityTypeOK, [Next]_vars PROVE VelocityTypeOK'
  OBVIOUS
<1>1. CASE Arrive
  BY <1>1, ArriveStep
<1>2. CASE Wait
  BY <1>2, WaitStep
<1>3. CASE ~ Arrive /\ ~ Wait
  BY <1>3, NotArrive DEF VelocityTypeOK, velocityVars, RecordOK
<1> QED
  BY <1>1, <1>2, <1>3

\* The record is typed and never ahead of the clock.
LEMMA VelocityTyping == Spec => []VelocityTypeOK
  BY VelocityInit, VelocityStep, PTL DEF Spec

\* Overlapping requests that append their times out of order never lower the
\* rate: however long the record and however late its times, the rate is at
\* least that of the same times in order.
THEOREM LatenessNeverHides == Spec => []OutOfOrderNeverHides
<1>1. VelocityTypeOK => OutOfOrderNeverHides
  <2> SUFFICES ASSUME VelocityTypeOK, NEW order \in SetToSeqs(DOMAIN stamps),
                      Ascending(Rearranged(order))
               PROVE  AtMost(WeightedRpm(Rearranged(order), now),
                             WeightedRpm(stamps, now))
    BY DEF OutOfOrderNeverHides
  <2> DEFINE n == Len(stamps)  r == Rearranged(order)
  <2>1. n \in Nat /\ DOMAIN stamps = 1..n /\ RecordOK(stamps, n, now)
    BY DEF VelocityTypeOK, RecordOK
  <2> HIDE DEF n
  <2>2. OrderOf(order, n) /\ DOMAIN order = 1..n
    BY <2>1, OrdersAre
  <2>3. r = [k \in 1..n |-> stamps[order[k]]] /\ DOMAIN r = 1..n
    BY <2>2 DEF Rearranged
  <2>4. \A j, k \in 1..n : j < k => r[j] <= r[k]
    BY <2>3 DEF Ascending
  <2> HIDE DEF r
  <2>5. Sorted(r, stamps, n, order)
    BY <2>2, <2>3, <2>4 DEF Sorted
  <2> QED
    BY <2>1, <2>5, SortedOK DEF r
<1> QED
  BY <1>1, VelocityTyping, PTL

\* A client that keeps twice the ceiling's interval and a second more is under
\* the ceiling at any moment, whatever the ceiling, the window and the weights.
THEOREM PacedIsUnderCeiling == Spec => []PacedClientUnderCeiling
<1>1. VelocityTypeOK => PacedClientUnderCeiling
  BY PacedOK DEF VelocityTypeOK, PacedClientUnderCeiling
<1> QED
  BY <1>1, VelocityTyping, PTL

\* Waiting a second never raises the rate while the same requests are in the
\* window, whatever they are and however they are weighted.
THEOREM WaitingIsNeverPunished == Spec => []WaitingNeverRaises
<1>1. VelocityTypeOK => WaitingNeverRaises
  <2> SUFFICES ASSUME VelocityTypeOK, Inside(stamps, now + Second) = Inside(stamps, now)
               PROVE  AtMost(WeightedRpm(stamps, now + Second),
                             WeightedRpm(stamps, now))
    BY DEF WaitingNeverRaises
  <2>1. RecordOK(stamps, Len(stamps), now) /\ Second \in Nat
    BY VelocityAssumption DEF VelocityTypeOK, VelocityAssumption
  <2>2. RecordOK(stamps, Len(stamps), now + Second)
    BY <2>1 DEF RecordOK
  <2> QED
    BY <2>1, <2>2, WaitingOK
<1> QED
  BY <1>1, VelocityTyping, PTL

(***************************************************************************)
(* The entropy signal.                                                     *)
(***************************************************************************)
EntropyTypeOK == history \in Seq(Seq(STRING))

LEMMA EntropyInit == Init => EntropyTypeOK
  BY DEF Init, EntropyTypeOK

LEMMA EntropyStep == EntropyTypeOK /\ [Next]_vars => EntropyTypeOK'
<1> SUFFICES ASSUME EntropyTypeOK, [Next]_vars PROVE EntropyTypeOK'
  OBVIOUS
<1>1. CASE Ask
  <2>1. PICK p \in Prompts : history' = Append(history, p)
    BY <1>1 DEF Ask
  <2>2. p \in Seq(STRING)
    BY InputsAssumption DEF InputsAssumption
  <2> DEFINE P == Seq(STRING)
  <2> HIDE DEF P
  <2>3. history \in Seq(P) /\ p \in P
    BY <2>2 DEF P, EntropyTypeOK
  <2>4. history' \in Seq(P)
    BY <2>1, <2>3
  <2> QED
    BY <2>4 DEF P, EntropyTypeOK
<1>2. CASE ~ Ask
  <2>1. UNCHANGED history
    BY <1>2 DEF Next, Worsen, RaiseSignal, TrackMinute, FlagIntent, StartOver,
                Arrive, Wait, Observe, Defend, Configure, Only, vars
  <2> QED
    BY <2>1 DEF EntropyTypeOK
<1> QED
  BY <1>1, <1>2

\* Rewriting the order of the recent prompts changes no frequency, so the
\* entropy cannot depend on it: for every history and window.
THEOREM OrderNeverMatters == Spec => []EntropyUnordered
<1>1. EntropyTypeOK => EntropyUnordered
  <2> SUFFICES ASSUME EntropyTypeOK, NEW order \in SetToSeqs(DOMAIN Recent(history))
               PROVE  Frequencies([k \in DOMAIN order |-> Recent(history)[order[k]]])
                        = Frequencies(Recent(history))
    BY DEF EntropyUnordered
  <2> DEFINE recent == Recent(history)  n == Len(recent)
             shuffled == [k \in DOMAIN order |-> recent[order[k]]]
             P == Seq(STRING)
  <2>1. recent \in Seq(P) /\ Len(recent) <= EntropyWindow
    BY RecentIs DEF EntropyTypeOK
  <2> HIDE DEF P, recent
  <2>2. n \in Nat /\ DOMAIN recent = 1..n
    BY <2>1
  <2> HIDE DEF n
  <2>3. OrderOf(order, n) /\ DOMAIN order = 1..n
    BY <2>2, OrdersAre DEF recent
  <2>4. Reordered(shuffled, recent, order, n)
    BY <2>3 DEF Reordered, n
  <2> HIDE DEF shuffled
  <2>5. Frequencies(shuffled) = Frequencies(recent)
    BY <2>1, <2>2, <2>4, ShuffledFrequencies DEF P
  <2> QED
    BY <2>5 DEF shuffled, recent
<1>2. Spec => []EntropyTypeOK
  BY EntropyInit, EntropyStep, PTL DEF Spec
<1> QED
  BY <1>1, <1>2, PTL

\* The entropy never exceeds the maximum it is divided by: the clamp of
\* inverse_bigram_entropy only guards against rounding, for every history and
\* window.
THEOREM NormalisedAtMostOne == Spec => []EntropyNormalised
<1>1. EntropyTypeOK => EntropyNormalised
  <2> SUFFICES ASSUME EntropyTypeOK
               PROVE  Arrangements(history) <= Ceiling(history) * Repetitions(history)
    BY DEF EntropyNormalised
  <2> QED
    BY EntropyIs DEF EntropyTypeOK
<1>2. Spec => []EntropyTypeOK
  BY EntropyInit, EntropyStep, PTL DEF Spec
<1> QED
  BY <1>1, <1>2, PTL

\* What the signal sees is that some bigram is more frequent than another, and
\* nothing else, but for a session of a single bigram: repetition as such does
\* not score (entropy.rs normalises by the number of distinct bigrams).
THEOREM OnlyUnevennessScores ==
    Spec => [](~ Unscored(history) => (EScorePositive(history) <=> Repeats(history)))
<1>1. EntropyTypeOK =>
        (~ Unscored(history) => (EScorePositive(history) <=> Repeats(history)))
  BY EntropyIs DEF EntropyTypeOK
<1>2. Spec => []EntropyTypeOK
  BY EntropyInit, EntropyStep, PTL DEF Spec
<1> QED
  BY <1>1, <1>2, PTL

\* A prompt of three words or more that repeats no bigram scores nothing, however
\* often a session sends it and nothing else: the opposite of "zero entropy (all
\* prompts use identical bigrams - maximally suspicious)", entropy.rs line 6.
THEOREM IdenticalNeverScores ==
    Spec => []( /\ \A k \in DOMAIN history : history[k] = history[1]
                /\ history # <<>> /\ Len(history[1]) > 2 /\ DistinctBigrams(history[1])
                => ~ EScorePositive(history))
<1>1. EntropyTypeOK =>
        ( /\ \A k \in DOMAIN history : history[k] = history[1]
          /\ history # <<>> /\ Len(history[1]) > 2 /\ DistinctBigrams(history[1])
          => ~ EScorePositive(history))
  <2> SUFFICES ASSUME EntropyTypeOK, history # <<>>,
                      \A k \in DOMAIN history : history[k] = history[1],
                      Len(history[1]) > 2, DistinctBigrams(history[1])
               PROVE  ~ EScorePositive(history)
    OBVIOUS
  <2> DEFINE P == Seq(STRING)
  <2>1. history \in Seq(P)
    BY DEF EntropyTypeOK
  <2> HIDE DEF P
  <2>2. DOMAIN history = 1..Len(history) /\ history[1] \in P
    BY <2>1
  <2> QED
    BY <2>1, <2>2, IdenticalIsEven DEF P
<1>2. Spec => []EntropyTypeOK
  BY EntropyInit, EntropyStep, PTL DEF Spec
<1> QED
  BY <1>1, <1>2, PTL

(***************************************************************************)
(* The defence pipeline as the engine's machine runs it.                   *)
(***************************************************************************)
\* Beside the other parts, run takes only the pipeline's own steps: what
\* DefenceProofs proves of it holds of the whole.
THEOREM EngineRunsDefence == Spec => DefenceSpec
<1>1. Init => DefenceInit
  BY DEF Init
<1>2. [Next]_vars => [DefenceNext]_defenceVars
  BY DEF Next, vars, Worsen, RaiseSignal, TrackMinute, FlagIntent, StartOver,
         Arrive, Wait, Ask, Observe, Defend, Configure, Only
<1> QED
  BY <1>1, <1>2, PTL DEF Spec, DefenceSpec
=============================================================================
