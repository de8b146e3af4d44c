SPECIFICATION FairSwarmSpec
CONSTANTS
    MaxIds = 3
    MaxSize = 1
    MaxRestarts = 1
INVARIANTS
    NoTaskLost
PROPERTIES
    TeamIsWorkQueue
    TasksSettle
CHECK_DEADLOCK FALSE
