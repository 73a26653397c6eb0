CONSTANTS
    Base = 2
    Size = 2
    RawKeys <- MCRawKeys
    Setups = {"Production", "InsecureTest"}
SPECIFICATION KeySpec
CHECK_DEADLOCK FALSE
INVARIANTS
    KeyTypeOK
    CompiledKeyIsTheFile
    RefusedForItsReason
