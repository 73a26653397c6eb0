CONSTANTS
    Radix = 4
    Words <- MCWords
    Zero <- MCZero
    FromBe <- MCFromBe
    ToBe <- MCToBe
    FQ <- MCFQ
    Points <- MCPoints
SPECIFICATION Spec
CHECK_DEADLOCK FALSE
INVARIANTS
    IInv
    NegationIsExact
