SPECIFICATION Spec
CONSTANTS
    None = None
    still = still
    movie = movie
    x = x
    y = y
    f = f
    g = g
    Artifacts = {movie}
    Movies = {movie}
    Contents = {x, y}
    Auths = {f, g}
    RetryDelays = {1}
    Horizon = 1
    MaxAttempts = 3
    MaxDisturbances = 4
    MaxConfirms = 2
SYMMETRY MCSymmetry
INVARIANTS
    AcknowledgedBeforeReclaim
    OneBodyPerKey
    RequeuedOncePerConfirmation
    DeliveredToOwner
PROPERTY RowHistory
CHECK_DEADLOCK FALSE
