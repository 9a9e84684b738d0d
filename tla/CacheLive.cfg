SPECIFICATION LiveSpec
CONSTANTS
    k1 = k1
    k2 = k2
    k3 = k3
    t1 = t1
    t2 = t2
    p1 = p1
    p2 = p2
    NoEntry = NoEntry
    NoNegative = NoNegative
    Keys = {k1}
    NumShards = 1
    ShardOf <- MCSingle
    Threads = {t1}
    Prefetchers = {p1, p2}
    NegativeKeys = {}
    Modes = {}
    Messages <- MCFew
    MaxUint32 = 7
    MinTTL = 1
    NegativeTTL = 1
    MaxSize = 0
    Prefetch = TRUE
    PrefetchDivisor = 2
    EvictBatch = 1
    TicksPerSecond = 2
    MaxTime = 4
    MaxStores = 3
INVARIANTS
    OnePrefetchPerEntry
    ServedTTLHonest
PROPERTIES
    ExpiredReclaimed
    PrefetchEnds
CHECK_DEADLOCK FALSE
