SPECIFICATION FairServerSpec
CONSTANTS
    Conns = {c1, c2}
    Ids = {s1, s2}
    MaxSessions = 1
    MaxStarts = 2
INVARIANTS
    RegistryExact
    CommandDrains
PROPERTIES
    ShutdownReturns
CHECK_DEADLOCK FALSE
