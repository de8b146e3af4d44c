SPECIFICATION FairBackgroundSpec
CONSTANT Killers = {k1, k2}
INVARIANTS
    StopSticks
    KillIsClaimed
PROPERTIES
    TaskSettles
CHECK_DEADLOCK FALSE
