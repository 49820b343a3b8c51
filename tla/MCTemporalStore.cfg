CONSTANTS
    k1 = k1
    k2 = k2
    ContId = {k1, k2}
    CommitId = {c1, c2}
    Conn = {daemon}
    Inputs <- MCInputs
    MaxDeltas = 2
    NoTx = NoTx
SPECIFICATION StoreFairSpec
INVARIANTS TypeOK NonRevocableKept DeltasExplainContinuations DeltasExplainCommitments
PROPERTIES FinishSettlesCommitments TxEnds LedgerSpec
CHECK_DEADLOCK FALSE
