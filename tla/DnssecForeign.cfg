CONSTANTS
    Lookups = {l1}
    Names = {"www"}
    Zones <- MCZones
    Cuts <- MCZones
    Home <- MCHome
    Keys <- MCKeys
    Own <- MCOwn
    Signed <- MCZones
    KeySets <- MCKeySets
    Sigs <- MCSigs
    Servers = 1
    TrueStarts = TRUE
    SignOwn = FALSE
    MaxDepth = 2
    TTLs = {0}
    DefaultTTL = 0
    MaxTime = 1

SPECIFICATION Spec

INVARIANT ChainValidated

CHECK_DEADLOCK FALSE
