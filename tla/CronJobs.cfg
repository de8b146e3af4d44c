SPECIFICATION FairCronSpec
CONSTANTS
    Schedulers = {s1, s2}
    Commands = {c1}
    MaxTime = 1
INVARIANTS
    ClaimIsExclusive
PROPERTIES
    RemovedStaysRemoved
    DueJobAdvances
CHECK_DEADLOCK FALSE
