SPECIFICATION FairSpec

CONSTANTS
    k1 = k1
    k2 = k2
    Keys = {k1}
    NumShards = 2
    ShardOf <- OneKey
    ShardCap = 1
    MinTTL = 1
    MaxTTL = 2
    StaleFor = 1
    StaleTTL = 5
    LeadFraction = 10
    LeadMin = 1
    LeadMax = 1
    MaxWorkers = 1
    HasRefresher = TRUE
    Answers <- MixedLives
    PurgeSets <- AllOrOne
    Clients = {c1}
    Workers = {w1}
    Admins = {a1}
    NoKey = NoKey
    NoEntry = NoEntry
    NoAnswer = NoAnswer
    NoReply = NoReply
    MaxTime = 3
    MaxGen = 1
    k3 = k3

PROPERTIES
    RemovalJustified
    
    NothingStuck
INVARIANTS
    PurgeReaches
