------------------------------ MODULE MCEngine ------------------------------
(***************************************************************************)
(* The engine's sequential parts on small inputs: the score and tier       *)
(* policy, the velocity, entropy and anomaly signals, the defence pipeline *)
(* and the configuration.  Each has its own variables and a small machine  *)
(* that feeds it; `area` names the one that runs in a behaviour, so that   *)
(* the state spaces add up instead of multiplying.                         *)
(***************************************************************************)
EXTENDS TierPolicy, Velocity, Entropy, Anomaly, Defence, EngineConfig

CONSTANTS
    MaxDuration,            \* minutes of tracking
    MaxNow, MaxStamps, Lag, \* clock, record length, lateness of a timestamp
    Prompts, MaxPrompts,    \* prompts and history length
    Readings, MaxSeen,      \* feature values and observations
    MaxSettings             \* fields set in config.toml and the environment

ASSUME InputsAssumption ==
    Readings \subseteq Int /\ Lag \in Nat /\ Prompts \subseteq Seq(STRING)

\* 100 e^(-age) at ages of a sixth of a minute.
ExpDecay == <<100, 85, 72, 61, 51>>

\* Prompts that repeat a bigram, share one, share words only, or have none.
SomePrompts == {<<"a", "b", "c">>, <<"b", "c">>, <<"a", "a", "a">>, <<"c">>}

\* The priors of anomaly.rs, scaled to the readings.
SomeMeans == [f \in Features |-> IF f \in {"rpm", "prompt_len"} THEN 2 ELSE 1]
SomeVariances == [f \in Features |-> IF f = "similarity" THEN 0 ELSE 2]

SomeSynonyms == [high |-> {"strong"}, score |-> {"value", "rating"},
                 value |-> {"amount"}]
Word(w) == [word |-> w, num |-> 0, den |-> 1, dots |-> 0]
Space == Word("")
Figure(n, d) == [word |-> Number, num |-> n, den |-> d, dots |-> 0]
Full(token) == [token EXCEPT !.dots = 1]
SomeTexts ==
    {<<Word("the"), Word("score"), Space, Word("is"), Full(Figure(95, 1)), Space>>,
     <<Word("value"), Full(Figure(-7, 10)), Word("high"), Full(Word("score")),
       Full(Word("yes"))>>,
     <<Full(Word("no")), Full(Figure(10, 1)), Full(Space), Full(Word("value")),
       Figure(1204, 1000)>>,
     <<Full(Word("yes")), Full(Figure(4, 1000)), Space, Full(Word("no")), Space>>,
     <<Word("yes"), Full(Word("high")), Word("no")>>}

VARIABLES
    area,
    signal, duration, intent,  \* one observation of a session
    stamps, now,               \* its request timestamps and the clock
    history,                   \* its prompts
    model, seen,               \* the global anomaly model, what it was fed
    file, env                  \* the layers of the configuration
scoreVars == <<signal, duration, intent>>
velocityVars == <<stamps, now>>
anomalyVars == <<model, seen>>
configVars == <<file, env>>
vars == <<area, scoreVars, velocityVars, history, anomalyVars, configVars,
          defenceVars>>

Areas == {"score", "velocity", "entropy", "anomaly", "defence", "config"}
Only(a) ==
    /\ area = a /\ UNCHANGED area
    /\ a # "score"    => UNCHANGED scoreVars
    /\ a # "velocity" => UNCHANGED velocityVars
    /\ a # "entropy"  => UNCHANGED history
    /\ a # "anomaly"  => UNCHANGED anomalyVars
    /\ a # "defence"  => UNCHANGED defenceVars
    /\ a # "config"   => UNCHANGED configVars

SignalNames == {"velocity", "divergence", "entropy", "anomaly"}
FeatureVectors == [Features -> Readings]
Settings(f) ==
    CASE f = provider            -> {"groq", "ollama"}
      [] f = weight_velocity     -> {25, 45}
      [] f = tier2_synonym_ratio -> {0, 100}
      [] OTHER                   -> {"", "set"}

Init ==
    /\ area \in Areas
    /\ signal = [n \in SignalNames |-> 0] /\ duration = 0 /\ intent = FALSE
    /\ stamps = <<>> /\ now = 0
    /\ history = <<>>
    /\ model = NewModel /\ seen = <<>>
    /\ file = <<>> /\ env = <<>>
    /\ DefenceInit

RaiseSignal == /\ Only("score")
               /\ \E n \in SignalNames : /\ signal[n] < Scale
                                         /\ signal' = [signal EXCEPT ![n] = @ + 1]
               /\ UNCHANGED <<duration, intent>>
TrackMinute == /\ Only("score") /\ duration < MaxDuration
               /\ duration' = duration + 1
               /\ UNCHANGED <<signal, intent>>
FlagIntent == Only("score") /\ intent' = TRUE /\ UNCHANGED <<signal, duration>>
StartOver == /\ Only("score")
             /\ signal' = [n \in SignalNames |-> 0] /\ duration' = 0
             /\ intent' = FALSE
Worsen == RaiseSignal \/ TrackMinute \/ FlagIntent

\* A request appends the time it read when it arrived, so that a slow one
\* appends an older time than the one before it.
Arrive == /\ Only("velocity") /\ Len(stamps) < MaxStamps
          /\ \E t \in (now - Lag)..now : t >= 0 /\ stamps' = Append(stamps, t)
          /\ UNCHANGED now
Wait == /\ Only("velocity") /\ now < MaxNow
        /\ now' = now + 1 /\ UNCHANGED stamps

Ask == /\ Only("entropy") /\ Len(history) < MaxPrompts
       /\ \E p \in Prompts : history' = Append(history, p)

Observe == /\ Only("anomaly") /\ Len(seen) < MaxSeen
           /\ \E v \in FeatureVectors : /\ model' = Update(model, v)
                                        /\ seen' = Append(seen, v)

Defend == Only("defence") /\ DefenceNext

Configure ==
    /\ Only("config")
    /\ Cardinality(DOMAIN file) + Cardinality(DOMAIN env) < MaxSettings
    /\ \E f \in Fields : \E v \in Settings(f) :
         \/ f \notin DOMAIN file /\ file' = file @@ (f :> v) /\ UNCHANGED env
         \/ f \notin DOMAIN env /\ env' = env @@ (f :> v) /\ UNCHANGED file

Next == Worsen \/ StartOver \/ Arrive \/ Wait \/ Ask \/ Observe \/ Defend
        \/ Configure
Spec == Init /\ [][Next]_vars

(***************************************************************************)
(* Score and tier policy.                                                  *)
(***************************************************************************)
Hybrid == ComputeHybrid(signal.velocity, signal.divergence, signal.entropy,
                        signal.anomaly)
Tier == ClassifyTier(Hybrid, duration, intent)

\* compute_hybrid stays in [0.0, 1.0], is 0.0 when every signal is, and
\* saturates when every signal does: the weights of config.rs sum to 1.0, so
\* that here the score needs no clamp.
HybridScaled ==
    /\ Hybrid \in HybridRange
    /\ (\A n \in SignalNames : signal[n] = 0) => Hybrid = 0
    /\ (\A n \in SignalNames : signal[n] = Scale) => Hybrid >= 99 * Scale

\* A worse observation never lowers the score or the tier: nothing is gained
\* by a higher signal, a longer session or a flagged prompt.
NeverRewarded ==
    [][Worsen => /\ Hybrid' >= Hybrid
                 /\ Tier' >= Tier]_vars

\* The tiers as scoring/mod.rs states them (lines 17-21 and 86): Tier 1 exactly
\* below both of Tier 2's thresholds, Tier 3 exactly at its score for longer than
\* its duration.  An intent flag takes a session out of Tier 1 and grants no more:
\* the repository's README promises Tier 3, which IntentGivesTierThree refutes.
TierTable ==
    /\ Tier = 1 <=> /\ Hybrid < Tier2Score
                    /\ duration < Tier2MinDuration
                    /\ ~ intent
    /\ Tier = 3 <=> Hybrid >= Tier3Score /\ duration > Tier3MinDuration

\* README.md line 201, of a prompt that the intent classifier flags: the session
\* is "immediately escalated to Tier 3" whatever its score.  Line 220 gives Tier 3
\* the alternative "intent classifier fires".
IntentGivesTierThree == intent => Tier = 3

(***************************************************************************)
(* Velocity.                                                               *)
(***************************************************************************)
\* Overlapping requests append their timestamps out of order.  The span of
\* velocity.rs line 58 is then the first minus the last, not the longest: the
\* rate can only come out higher than that of the same times in order, so a
\* client does not slow its rate down by overlapping its requests.
Rearranged(order) == [k \in DOMAIN order |-> stamps[order[k]]]
Ascending(times) == \A j, k \in DOMAIN times : j < k => times[j] <= times[k]
OutOfOrderNeverHides ==
    \A order \in SetToSeqs(DOMAIN stamps) :
        Ascending(Rearranged(order))
          => AtMost(WeightedRpm(Rearranged(order), now), WeightedRpm(stamps, now))

\* A client whose requests are in order and apart by twice the ceiling's
\* interval and one second more is never over the ceiling.  A span between n
\* requests counts one too many, at most a factor of two, and whole seconds
\* shorten it by less than one: without either margin this is false.
PacedClientUnderCeiling ==
    (\A k \in 1..(Len(stamps) - 1) :
        (stamps[k + 1] - stamps[k]) * MaxRpm >= (2 * Minute + MaxRpm) * Second)
      => AtMost(WeightedRpm(stamps, now), Whole(MaxRpm))

\* A client that waits a second is not rated higher for it, as long as the
\* second takes no request out of the window.  (A fraction of a second can raise
\* its rate: it may cut a second off the span.)
WaitingNeverRaises ==
    Inside(stamps, now + Second) = Inside(stamps, now)
      => AtMost(WeightedRpm(stamps, now + Second), WeightedRpm(stamps, now))

(***************************************************************************)
(* Entropy.                                                                *)
(***************************************************************************)
\* The entropy never exceeds its maximum: the normalised entropy is in [0, 1]
\* before it is clamped, for one distinct bigram as for many.
EntropyNormalised ==
    ~ Unscored(history) =>
        Arrangements(history) <= Ceiling(history) * Repetitions(history)

\* Which prompt came first does not matter: a rewritten order of the same
\* recent prompts has the same bigrams, none of them made of two prompts.
EntropyUnordered ==
    \A order \in SetToSeqs(DOMAIN Recent(history)) :
        LET shuffled == [k \in DOMAIN order |-> Recent(history)[order[k]]]
        IN  Frequencies(shuffled) = Frequencies(Recent(history))

\* entropy.rs line 6: "1.0 = zero entropy (all prompts use identical
\* bigrams)"; the test of lines 80-90 expects more than 0.8 of five identical
\* prompts.  Here identical prompts only have to score at all.
Repeated == ~ Unscored(history) /\ \A k \in DOMAIN history : history[k] = history[1]
IdenticalPromptsScoreHigh == Repeated => EScorePositive(history)

(***************************************************************************)
(* Anomaly.                                                                *)
(***************************************************************************)
\* Whatever the order of the observations, the running statistics are those
\* of two passes over the prior and the observations: Welford's update drops
\* and counts nothing twice.
Observed(f) == [k \in DOMAIN seen |-> seen[k][f]]
Count == PriorCount + Len(seen)
Gathered(f) == PriorCount * PriorMean[f] + SumFunction(Observed(f))
\* Count^2 times the squared distance of a value from the mean.
Deviation(f, x) == (Count * x - Gathered(f)) * (Count * x - Gathered(f))
Deviations(f) ==
    Count * Count * PriorVariance[f] * (PriorCount - 1)
      + PriorCount * Deviation(f, PriorMean[f])
      + SumFunction([k \in DOMAIN seen |-> Deviation(f, seen[k][f])])
WelfordMatchesTwoPass ==
    \A f \in Features :
        model[f] = [count |-> Count, mean |-> Frac(Gathered(f), Count),
                    m2 |-> Frac(Deviations(f), Count * Count)]

\* An observation that the model has just learnt is not more anomalous than
\* before: the mean moved towards it by more than the spread can have shrunk.
LearningNeverAlarms ==
    [][Observe => AtMost(ScoredZ(model', Last(seen')),
                         ScoredZ(model, Last(seen')))]_vars

(***************************************************************************)
(* Configuration.                                                          *)
(***************************************************************************)
\* config.rs line 234: "env vars are sufficient"; lines 7-8 ask for the secrets
\* in variables, and lines 189-191 name them: store.redis_url is
\* VYSE_ENGINE_STORE_REDIS_URL.
EnvironmentSuffices ==
    (file = <<>> /\ DOMAIN env = Secrets /\ \A f \in Secrets : env[f] # "")
      => Loads(file, env)
=============================================================================
