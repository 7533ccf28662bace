SPECIFICATION FairSpec

CONSTANTS
    u1 = u1
    u2 = u2
    Addrs = {u1, u2}
    Calls = {x1}
    Replies <- SomeReplies
    Configs <- TwoOneNone
    NoReply = NoReply
    NoStat = NoStat

PROPERTIES
    
    PromiseSpec
    ExchangeReturns
