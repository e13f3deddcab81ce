SPECIFICATION Spec
CONSTANTS
    Tasks <- MCTasks
    U16Max = 7
    U32Max = 63
    StartOfTime = 20
    TimeFlag = 16
    Granule = 4
    Padding = 1
    OverflowChecks = FALSE
    Reserved <- MCReserved
    Letters <- MCLetters
    Numerals <- MCNumerals
    Huge <- MCHuge
    Holders <- MCHolders
    KeysOf <- MCKeysOf
CHECK_DEADLOCK FALSE
INVARIANTS
    LocksReadAsAsked
    OrdinalsReachTheirOutput
    OrdinalsToldOnce
    WrittenIsReadBack
    SigningCompletes
