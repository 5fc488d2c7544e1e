SPECIFICATION Spec
CONSTANTS
    None = None
    still = still
    movie = movie
    x = x
    y = y
    f = f
    g = g
    Artifacts = {movie}
    Movies = {movie}
    Contents = {x}
    Auths = {f}
    RetryDelays = {1}
    Horizon = 1
    MaxAttempts = 2
    MaxDisturbances = 2
    MaxConfirms = 0
INVARIANT PreactivationNotUploaded
CHECK_DEADLOCK FALSE
