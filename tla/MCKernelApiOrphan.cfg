CONSTANTS
    k1 = k1
    k2 = k2
    r1 = r1
    r2 = r2
    r3 = r3
    d1 = d1
    d2 = d2
    ContId = {k1, k2}
    CommitId = {c1, c2}
    Conn = {d1, d2}
    Request = {r1, r2, r3}
    Home <- MCHome
    Panics = {FALSE}
    Inputs <- MCInputs
    MaxDeltas = 2
    NoTx = NoTx
SPECIFICATION KernelSpec
INVARIANTS ObligationHasCommitment
CHECK_DEADLOCK FALSE
