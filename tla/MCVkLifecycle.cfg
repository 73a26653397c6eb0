CONSTANTS
    k1 = k1
    k2 = k2
    Missing = Missing
    Torn = Torn
    Keys <- MCKeys
    Forgeable <- MCForgeable
    MaxSetups = 2
SPECIFICATION Spec
INVARIANTS
    TypeOK
    PinDecides
