SPECIFICATION FairSpec
CONSTANTS
    Proxies = {p1, p2, p3}
    Publics = {v1, v2}
    None = None
    PoolCap = 1
    MaxTries = 2
    MaxSlots = 2
    MaxAsked = 2
INVARIANTS
    SlotsAreExact
    EachProxyHasOneHolder
    NothingPooledAfterShutdown

    
    
CHECK_DEADLOCK FALSE
