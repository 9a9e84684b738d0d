SPECIFICATION Spec
CONSTANTS
    k1 = k1
    k2 = k2
    k3 = k3
    t1 = t1
    t2 = t2
    p1 = p1
    p2 = p2
    NoEntry = NoEntry
    NoNegative = NoNegative
    Keys = {k1, k2, k3}
    NumShards = 2
    ShardOf <- MCTwoAndOne
    Threads = {t1}
    Prefetchers = {}
    NegativeKeys = {k3}
    Modes = {"negative", "expired", "all"}
    Messages <- MCFew
    MaxUint32 = 7
    MinTTL = 0
    NegativeTTL = 1
    MaxSize = 1
    Prefetch = FALSE
    PrefetchDivisor = 2
    EvictBatch = 1
    TicksPerSecond = 1
    MaxTime = 2
    MaxStores = 2
INVARIANTS
    ShardBound
    ServedAlive
    FlushCovers
PROPERTIES
    ImplementsCacheSpec
CHECK_DEADLOCK FALSE
