SPECIFICATION FairExecSpec
CONSTANTS
    Callers = {a}
    MaxStarts = 2
    MaxTable = 1
    Spare = 0
    BufferCap = 1
    Chunks <- ChunksOf
INVARIANTS
    ChunksConserved
PROPERTIES
    FinalResultComplete
    NothingLingers
CHECK_DEADLOCK FALSE
