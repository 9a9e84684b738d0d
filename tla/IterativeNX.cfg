SPECIFICATION LookupSpec
CONSTANTS
    d1 = d1
    d2 = d2
    s1 = s1
    s2 = s2
    n1 = n1
    n2 = n2
    Unparsed = Unparsed
    Spelled = {d2, n2}
    Names = {d1, d2}
    Question = d1
    AskCNAME = FALSE
    NSNames = {n1, n2}
    Servers = {s1, s2}
    Roots = {s1}
    MaxDepth = 2
    Answers <- MCAnswers
    Cached <- MCCached
INVARIANT OnlyDenialsCached
CHECK_DEADLOCK FALSE
