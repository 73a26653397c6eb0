CONSTANTS
    p = 7
    WordSize = 16
    G1 <- MCG1
    G2 <- MCG2
    Proofs <- MCProofs
    Base = 4
    N = 2
    Signals <- MCSignals
SPECIFICATION Spec
INVARIANTS
    TypeOK
    SamePoints
    ErrorsTellTheReason
    InputsKept
CHECK_DEADLOCK FALSE
