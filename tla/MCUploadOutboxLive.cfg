SPECIFICATION FairSpec
CONSTANTS
    None = None
    still = still
    movie = movie
    x = x
    y = y
    f = f
    g = g
    Artifacts = {still, movie}
    Movies = {}
    Contents = {x}
    Auths = {f}
    RetryDelays = {1}
    Horizon = 1
    MaxAttempts = 9
    MaxDisturbances = 2
    MaxConfirms = 0
PROPERTIES
    EveryCaptureIsRecorded
    EveryRowSettles
CHECK_DEADLOCK FALSE
