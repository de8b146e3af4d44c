SPECIFICATION SessionSpec
CONSTANTS
    agent = agent
    other = other
    Processes <- TwoProcesses
    Jobs <- JobsOfTwo
    NoProcess = noProcess
    MaxLog = 3
    MaxEdits = 2
    MaxFaults = 2
INVARIANTS
    LogWellFormed
    AckedIsDurable
PROPERTIES
    RewindRestores
CHECK_DEADLOCK FALSE
