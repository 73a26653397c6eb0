CONSTANTS
    Base = 4
    W = 2
    Radix = 16
    B_IN_BYTES = 8
    R_IN_BYTES = 9
    MAX_SCRATCH = 18
    Messages <- MCMessages
    Dsts <- MCDsts
    Digests <- MCDigests
    Xor <- MCXor
    r = 4099
    RInv = 3672
SPECIFICATION Spec
CHECK_DEADLOCK FALSE
INVARIANTS
    IInv
    PreimagesMatchRfc
    NeverPanics
    ResultIsRemainder
