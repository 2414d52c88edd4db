\* The default weights, thresholds and minutes with signals in quarters; times in
\* half seconds, a velocity window of four seconds where a minute has six; prompts
\* of up to two bigrams, three of them looked at; readings on both sides of each
\* prior; the factor in integers of two 4-bit halves; three synonyms and texts of
\* up to four sentences, with blanks, pieces of only blanks, and decimals finer
\* than a number may keep.
CONSTANTS
    Scale = 4
    WeightVelocity = 25
    WeightDivergence = 35
    WeightEntropy = 15
    WeightAnomaly = 25
    Tier2Score = 220
    Tier3Score = 360
    Tier2MinDuration = 2
    Tier3MinDuration = 10
    MaxDuration = 11
    Second = 2
    Minute = 6
    Window = 4
    MaxRpm = 8
    Decay <- ExpDecay
    MaxNow = 10
    MaxStamps = 4
    Lag = 2
    EntropyWindow = 3
    Prompts <- SomePrompts
    MaxPrompts = 4
    PriorCount = 3
    PriorMean <- SomeMeans
    PriorVariance <- SomeVariances
    Readings = {0, 6}
    MaxSeen = 2
    Number = "#"
    Synonyms <- SomeSynonyms
    Texts <- SomeTexts
    Tier2Ratio = 45
    Tier3Ratio = 70
    Pct = 10
    MaxDen = 100
    Reorder = TRUE
    Half = 16
    Seeds = {0, 2, 3, 5, 7, 8, 9, 11, 12}
    MaxSettings = 4
SPECIFICATION Spec
INVARIANT EnvironmentSuffices
CHECK_DEADLOCK FALSE
