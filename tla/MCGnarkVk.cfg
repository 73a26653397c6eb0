CONSTANTS
    Lengths <- MCLengths
    U32s <- MCU32s
SPECIFICATION Spec
CHECK_DEADLOCK FALSE
INVARIANTS
    TypeOK
    AcceptsExactlyImages
    AllocationCovered
    KeyFitsVerifier
    ErrorsTellTheReason
