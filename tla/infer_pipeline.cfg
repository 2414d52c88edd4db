\* Three requests of one session share a pool of two, the first two with a crash, a
\* delete and the TTL (see Scenario); fairness.
CONSTANTS
    r1 = r1
    r2 = r2
    r3 = r3
    s1 = s1
    NULL = NULL
    Request = {r1, r2, r3}
    SessionId = {s1}
    SessionOf <- OneSession
    PoolSize = 2
    HybridScores <- HighScores
    TrackingThreshold = 50
    Ttl = 2
    RequestTimeout = 1
    MaxClock = 2
    MaxCrashes = 1
    MaxDeletes = 1
    MaxTimestamps = 2
    MaxHistory = 1
    Scale = 1
    WeightVelocity = 25
    WeightDivergence = 35
    WeightEntropy = 15
    WeightAnomaly = 25
    Tier2Score = 55
    Tier3Score = 90
    Tier2MinDuration = 1
    Tier3MinDuration = 1
SPECIFICATION FairSpec
ACTION_CONSTRAINT Scenario
CHECK_DEADLOCK FALSE
INVARIANTS
    TypeOK
    PoolConserved
    RecordShape
    AuditedTierThree
    TierThreeNeedsHistory
    EscalationPersists
    SerialSessionsCount
    SerialSessionsSticky
    SerialSessionsOrdered
PROPERTIES
    RefinesRegister
    RequestsEnd
    PoolRecovers
