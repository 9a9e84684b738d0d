SPECIFICATION Spec
CONSTANTS
    q1 = q1
    q2 = q2
    q3 = q3
    p1 = p1
    k1 = k1
    k2 = k2
    None = None
    Queries = {q1, q2, q3}
    Prefetchers = {p1}
    Keys = {k1}
    ZoneKeys = {}
    Forwarder = FALSE
    Fallback = FALSE
    DNSSEC = TRUE
    MaxConcurrent = 1
INVARIANTS
    NoBogusReply
CHECK_DEADLOCK FALSE
