SPECIFICATION QuerySpec
CONSTANTS
    q1 = q1
    q2 = q2
    q3 = q3
    p1 = p1
    k1 = k1
    k2 = k2
    None = None
    Queries = {q1, q2}
    Prefetchers = {p1}
    Keys = {k1, k2}
    ZoneKeys = {k2}
    Forwarder = TRUE
    Fallback = TRUE
    DNSSEC = TRUE
    MaxConcurrent = 1
    d1 = d1
    d2 = d2
    s1 = s1
    s2 = s2
    n1 = n1
    n2 = n2
    Unparsed = Unparsed
    Spelled = {d2, n2}
    Names = {d1, d2}
    Question = d1
    AskCNAME = FALSE
    NSNames = {n1, n2}
    Servers = {s1, s2}
    Roots = {s1}
    MaxDepth = 2
    Answers <- MCAnswers
    Cached <- MCCached
INVARIANTS
    SingleFlight
    WaiterHasLeader
    ReplyHasMessage
    AnswersTheQuestion
    CachedReplyKeepsID
    UpstreamBound
    NXDomainJustified
    AnswerFollowsChain
PROPERTIES
    QueryEnds
    GivesUpWithoutAddressOnly
CHECK_DEADLOCK FALSE
