SPECIFICATION WireSpec
CONSTANTS
    s1 = s1
    s2 = s2
    c1 = c1
    c2 = c2
    c3 = c3
    t1 = t1
    t2 = t2
    None = None
    Servers = {s1}
    Conns = {c1, c2}
    Threads = {t1, t2}
    MaxPerServer = 1
    IDs = 2
    Copies = 2
    FirstIDs = {0}
    MaxIdle = 1
    MaxExchanges = 2
    MaxTime = 1
    a = a
    b = b
    A = A
    Labels = {a, b, A}
    Lower <- MCLower
    MaxPointer = 12
    MaxDepth = 1
    Questions <- MCQuestions
    Packets <- MCPackets
    NoMessage = NoMessage
INVARIANTS
    ExclusiveUse
    OpenIffOwned
    PoolBound
    ParserEnds
    ParsesWhatIsSaid
    ReadsBack
PROPERTIES
    AcceptsOwnReply
    IdleReaped
CHECK_DEADLOCK FALSE
