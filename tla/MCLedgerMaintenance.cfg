SPECIFICATION Spec
CONSTANTS
    None = None
    Legacy = Legacy
    a1 = a1
    a2 = a2
    f = f
    g = g
    i1 = i1
    i2 = i2
    Artifacts = {a1, a2}
    Auths = {f, g}
    Ids = {i1, i2}
    PageSize = 1
    MaxRev = 4
    MaxFaults = 2
SYMMETRY MCSymmetry
INVARIANTS
    MaintenanceInv
    OwedIsSafe
    DeliveredOnce
PROPERTY CustodyKept
CHECK_DEADLOCK FALSE
