CONSTANTS
    r = 3
    MaxScalar = 4
    OffCurve = OffCurve
    None = None
    Bsb22 = TRUE
    Vks = {}
    Proofs = {}
    InputVectors = {}
    HashToField <- MCHashToField
    Words <- MCWords
    FromG1 <- MCFromG1
    FromG2 <- MCFromG2
    FromScalar <- MCFromScalar
    ToG1 <- MCToG1
    ToG2 <- MCToG2
    ToScalar <- MCToScalar
    VkOf <- MCVkOf
    Fixtures <- MCFixtures
SPECIFICATION Spec
INVARIANTS
    TypeOK
    AnswerDeserved
    HonestProofsAccepted
PROPERTIES
    EveryInstructionAnswered
CHECK_DEADLOCK FALSE
