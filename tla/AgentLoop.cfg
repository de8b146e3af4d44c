SPECIFICATION FairAgentSpec
CONSTANTS
    MaxTurns = 3
    MaxCalls = 2
    MaxNotes = 1
    PreserveLast = 2
    MaxStallRetries = 1
    MaxEmptyTurns = 2
    MaxNudges = 1
    HintAt = 1
    StopAt = 2
INVARIANTS
    TranscriptValid
    ProseOnce
    GateHolds
PROPERTIES
    RunEnds
CHECK_DEADLOCK FALSE
