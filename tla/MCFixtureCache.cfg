CONSTANTS
    t1 = t1
    t2 = t2
    t3 = t3
    None = None
    Threads <- MCThreads
    Variants = {1, 2, 4}
    Known = {1, 2}
    Sound = {1, 4}
SPECIFICATION FairSpec
INVARIANTS
    TypeOK
    NoDataRace
    CompiledOnce
PROPERTIES
    EveryCallReturns
    OneObjectPerCircuit
