\* Two thread names, two commands, two faults.
SPECIFICATION FairSpec
CONSTANTS
    Ids = {1, 2}
    MaxCommands = 2
    MaxFaults = 2
    BatchCap = 1
INVARIANTS
    OneOwner
    PauseAgrees
    CapturesConserved
PROPERTIES
    NoStartAfterStop
    CapturesReachCamera
    CameraComesBack
    ShutdownEnds
CHECK_DEADLOCK FALSE
