CONSTANTS
    f1 = f1
    f2 = f2
    c1 = c1
    c2 = c2
    Request = {f1, f2}
    Other = {o1}
    Elsewhere = {x1}
    Commitment = {c1, c2}
    Unit = 100
    k1 = k1
    k2 = k2
    Continuation = {k1, k2}
    NoContinuation = NoContinuation
    Actions <- MCActions
    Relations <- MCRelations
    On <- MCOn
    Revocable = {c2}
    Workers = 2
    MaxSignals = 2
    Free = Free
SPECIFICATION ForecastSpec
INVARIANTS NotPersistedMeansNone
CHECK_DEADLOCK FALSE
