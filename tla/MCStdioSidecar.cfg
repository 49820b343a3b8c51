CONSTANTS
    Program <- MCProgram
    RequestLen = 3
    Cap = 2
SPECIFICATION FairSidecar
INVARIANTS NoSidecarLeft SignalsFromWholeOutput
PROPERTIES CallReturns
CHECK_DEADLOCK FALSE
