SPECIFICATION FairSpec
CONSTANTS
    BlockSize = 2
    InitBlocks = 2
    NodeRatio = 1
    PairBytes = 3
    MemLimits = {1, 4}
    Megabyte = 16
    WordSize = 64
    MaxOther = 1
    MaxGens = 1
    NIL = NIL
INVARIANTS
    TypeOK
    CountersAgree
    NoBlockLost
    GcHasRoom
    BlockAtHand
    EachScannedOnce
PROPERTIES
    QuitOnlyWhenFull
    CallsEnd
