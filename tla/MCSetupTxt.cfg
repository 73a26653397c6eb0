CONSTANTS
    DigestLen = 2
    Binaries <- MCBinaries
SPECIFICATION SearchSpec
CHECK_DEADLOCK FALSE
INVARIANTS
    NoMarkerPassedOver
    ReadsWhatWasWritten
PROPERTIES
    SearchReturns
