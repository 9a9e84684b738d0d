SPECIFICATION Spec
CONSTANTS
    q1 = q1
    q2 = q2
    q3 = q3
    p1 = p1
    k1 = k1
    k2 = k2
    None = None
    Queries = {q1, q2}
    Prefetchers = {}
    Keys = {k1}
    ZoneKeys = {}
    Forwarder = FALSE
    Fallback = FALSE
    DNSSEC = FALSE
    MaxConcurrent = 1
INVARIANTS
    ResponseID
CHECK_DEADLOCK FALSE
