SPECIFICATION FairSessionSpec
CONSTANTS
    Clients = {c1, c2}
    MaxBuffer = 2
    Capacity = 1
    MaxLines = 3
INVARIANTS
    NoPanic
    StreamExact
    FinalFrameTruthful
PROPERTIES
    StreamsEnd
CHECK_DEADLOCK FALSE
