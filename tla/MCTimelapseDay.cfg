SPECIFICATION FairSpec
CONSTANTS
    None = None
    Legacy = Legacy
    Night = Night
    Keys = {k}
    Day = 2
    Dusk = 1
    SendDelay = 1
    Days = {0}
    MaxCache = 2
    MaxTime = 4
    MaxFaults = 1
    MaxChanges = 1
    MaxSweeps = 1
INVARIANTS
    TimelapseInv
    OfferedOnce
PROPERTIES
    EndedIsFinished
CHECK_DEADLOCK FALSE
