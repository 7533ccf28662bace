SPECIFICATION Spec
CONSTANTS
    k1 = k1
    k2 = k2
    k3 = k3
    Keys = {k1, k2, k3}
    NumShards = 1
    ShardOf <- OneShard
    ShardCap = 2
    MinTTL = 1
    MaxTTL = 2
    StaleFor = 2
    StaleTTL = 5
    LeadFraction = 10
    LeadMin = 1
    LeadMax = 1
    MaxWorkers = 2
    HasRefresher = TRUE
    Answers <- OneLife
    PurgeSets = {}
    Clients = {c1}
    Workers = {w1, w2}
    Admins = {}
    NoKey = NoKey
    NoEntry = NoEntry
    NoAnswer = NoAnswer
    NoReply = NoReply
    MaxTime = 2
    MaxGen = 0
SYMMETRY Alike
INVARIANTS
    FlightExact
    SlotsExact
    SingleFlight
    ShardBounded
PROPERTIES
    PoolSpec
