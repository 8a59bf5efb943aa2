SPECIFICATION Spec
CONSTANTS
    c = c  a1 = a1  a2 = a2  a3 = a3  a4 = a4  b2 = b2  x = x  z = z
    NoHeader = NoHeader
    Header <- MCHeader
    Prev <- MCPrev
    CalcWork <- MCCalcWork
    Timestamp <- MCTimestamp
    ChainHeight <- MCChainHeight
    ChainWork <- MCChainWork
    Checkpoint = c
    Check2 = NoHeader
    Grace = 2
    EpochDepth = 1
    CheckDifficulty = TRUE
    ReduceMinDifficulty = FALSE
    ValidHeader <- MCValidHeader
    UintRange = 16
    RollbackTimes <- MCRollbackTimes
    RollbackHeights <- MCRollbackHeights
    CacheSize = 1
    MaxPending = 2
INVARIANTS StoredTrue NotBelowCheckpoint NoHole TipRecorded
PROPERTIES TipMoves ReorgPoint
CHECK_DEADLOCK TRUE
