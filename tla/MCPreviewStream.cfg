SPECIFICATION PreviewFairSpec
CONSTANTS
    Nothing = Nothing
    PreviewTasks = {1, 2}
    Deadline = 1
    FreshFor = 1
    MaxSessions = 2
    MaxFrames = 1
    MaxTime = 1
    MaxLeases = 2
    MaxBreaks = 1
INVARIANTS
    PreviewInv
    LiveIsRecent
PROPERTIES
    StoppedIsNotLive
CHECK_DEADLOCK FALSE
