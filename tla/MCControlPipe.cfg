SPECIFICATION FairSpec
CONSTANTS
    None = None
    Viewers = {v1, v2}
    Cli = cli
    Slots = {1, 2}
    MaxEdits = 3
    MaxRequests = 3
    MaxFaults = 1
INVARIANTS
    ControlInv
PROPERTIES
    SavesAreInformed
    AgentFollowsFile
    ShutdownEnds
CHECK_DEADLOCK FALSE
