CONSTANTS
    t1 = t1
    t2 = t2
    r1 = r1
    r2 = r2
    c1 = c1
    c2 = c2
    c3 = c3
    Triple = {t1, t2}
    Reason = {r1, r2}
    NoReason = NoReason
    Continuation = {c1, c2, c3}
    Endpoints <- MCEndpoints
    Daemon = {d1, d2}
    Legacy <- MCLegacy
    MaxRowid = 3
SPECIFICATION RelSpec
INVARIANTS IgnoredHasEdge MigratedEdgesUnique
PROPERTIES EdgesSpec
CHECK_DEADLOCK FALSE
