SPECIFICATION FairSpec
CONSTANTS
    Callers = {1}
    QueueCap = 1
    MaxAttempts = 2
    MaxGrabs = 2
    MaxCommands = 2
    MaxFaults = 1
INVARIANTS
    RecordingInv
    StoreOutlivesCalls
    QueuedIsSaved
PROPERTY ShutdownEndsAttempt
CHECK_DEADLOCK FALSE
