CONSTANTS
    r = 3
    MaxScalar = 4
    OffCurve = OffCurve
    None = None
    Bsb22 = TRUE
    Vks <- MCVks
    Proofs <- MCProofs
    InputVectors <- MCInputVectors
    HashToField <- MCHashToField
SPECIFICATION FairSpec
INVARIANTS
    TypeOK
    VerdictCorrect
    ShapeSettledByConstructors
    PreparedNeverPartial
    CommitmentBlamed
PROPERTIES
    CallsReturn
    ImplementsSpec
