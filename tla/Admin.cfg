SPECIFICATION AdminFairSpec
CONSTANTS
    h1 = h1
    h2 = h2
    Absent = Absent
    Empty = Empty
    Garbled = Garbled
    Handlers = {h1, h2}
    Reloaders = {"reload"}
    Spellings <- MCSpellings
    ListDomains <- MCListDomains
    QueryNames <- MCQueryNames
    Records <- MCRecords
    FirstFiles <- MCFirstFiles
    MaxOps = 2
    MaxStarts = 2
INVARIANTS
    RulesInForce
PROPERTIES
    RemovedStaysRemoved
    RestartKeepsRules
    ModeConverges
CHECK_DEADLOCK FALSE
