SPECIFICATION TuiSpec
CONSTANTS
    Sessions = {s1, s2}
    Home = s1
    NoSession = noSession
    MaxRuns = 2
    MaxEvents = 1
    Commands = {"/init", "/file"}
    Preserve = 1
INVARIANTS
    RunsAreRecorded
    CheckpointsRestorable
    AskersAreHeard
PROPERTIES
    MemoryFollowsLog
CHECK_DEADLOCK FALSE
