SPECIFICATION FrontSpec
CONSTANTS
    ip1 = ip1
    ip2 = ip2
    t1 = t1
    t2 = t2
    None = None
    Empty = Empty
    IPs = {ip1, ip2}
    Threads = {t1, t2}
    Cost = 2
    Burst = 2
    IdleTTL = 2
    CleanupEvery = 1
    MaxSkew = 1
    MaxTime = 6
    MaxQueries = 3
    LogSize = 2
    Window = 2
    MaxReadings = 4
INVARIANTS
    RateConforms
    DebtBounded
    RecentIsLast
    HistoryIsLast
    CountersMatchLog
PROPERTIES
    QuietClientServed
CHECK_DEADLOCK FALSE
SYMMETRY MCSymmetry
