CONSTANTS
    Lookups = {l1, l2}
    Names = {"www"}
    Zones <- MCZones
    Cuts <- MCZones
    Home <- MCHome
    Keys <- MCKeys
    Own <- MCOwn
    Signed <- MCZones
    KeySets <- MCKeySets
    Sigs <- MCSigs
    Servers = 1
    TrueStarts = TRUE
    SignOwn = TRUE
    MaxDepth = 2
    TTLs = {0}
    DefaultTTL = 0
    MaxTime = 1

SPECIFICATION Spec

INVARIANTS
    
    VerifiedIsGenuine
    TruthAccepted

SYMMETRY MCSymmetry

CHECK_DEADLOCK FALSE
