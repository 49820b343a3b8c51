CONSTANTS
    e1 = e1
    e2 = e2
    e3 = e3
    q1 = q1
    q2 = q2
    Event = {e1, e2, e3}
    Daemon = {d1}
    Query = {q1, q2}
    LikeMatch <- MCLikeMatch
    TokenMatch <- MCTokenMatch
    SearchLimit = 2
    NoEvent = NoEvent
SPECIFICATION RawSpec
INVARIANTS RowsRebuildable
CHECK_DEADLOCK FALSE
