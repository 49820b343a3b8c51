CONSTANTS
    Token = {"a", "b", "c", "d", "e"}
    Event = {"none", "e1"}
    ResultLimit = 2
    TokenLimit = 2
    TokenCandidateLimit = 2
    Cases <- MCCases
    NewRow <- MCNewRow
    Deltas = {"active", "deferred", "closed"}
    NewEdges <- MCNewEdges
SPECIFICATION LensSpec
INVARIANTS ConstraintsHold BlockedNotAdvanced AnswerIsGrounded LivingMatchesShown
           RecallHidesNothing DeferredYields HarnessAgrees
CHECK_DEADLOCK FALSE
