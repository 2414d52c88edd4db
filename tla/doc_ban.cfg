\* proto/vyse.proto:71 against a request sent after the ban.
CONSTANTS
    r1 = r1
    r2 = r2
    r3 = r3
    s1 = s1
    NULL = NULL
    Request = {r1, r2}
    SessionId = {s1}
    SessionOf <- OneSession
    PoolSize = 2
    HybridScores <- HighScores
    TrackingThreshold = 50
    Ttl = 3
    RequestTimeout = 1
    MaxClock = 2
    MaxCrashes = 0
    MaxDeletes = 1
    MaxTimestamps = 2
    MaxHistory = 1
    Scale = 1
    WeightVelocity = 25
    WeightDivergence = 35
    WeightEntropy = 15
    WeightAnomaly = 25
    Tier2Score = 55
    Tier3Score = 90
    Tier2MinDuration = 1
    Tier3MinDuration = 2
SPECIFICATION Spec
CHECK_DEADLOCK FALSE
INVARIANT BanHolds
