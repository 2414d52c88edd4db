\* Three sessions, two connections, a channel of one, limits that never, just
\* and early apply.
CONSTANTS
    Hash = {h1, h2, h3}
    Tiers = {1, 2}
    PoolSize = 2
    ChannelCap = 1
    Filters = {0, 1}
    Limits = {0, 2}
    MaxChanges = 1
SPECIFICATION FairSpec
INVARIANTS
    TypeOK
    PoolConserved
    StreamExact
    SteadySessionsListed
PROPERTY ListEnds
