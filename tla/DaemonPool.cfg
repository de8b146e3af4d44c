SPECIFICATION FairPoolSpec
CONSTANTS
    Requests = {r1, r2}
    Size = 1
    MaxAttempts = 2
INVARIANTS
    NoOrphanWorker
    VerdictJustified
PROPERTIES
    PoolIsLease
    PoolSettles
CHECK_DEADLOCK FALSE
