SPECIFICATION FairSpec
CONSTANTS
    None = None
    Choices <- SmallChoices
    MaxRevision = 3
    MaxSessions = 2
    MaxSends = 1
    Attempts = 2
    MaxEdits = 2
    MaxFaults = 1
INVARIANTS
    SharingInv
PROPERTIES
    SendsAreConsented
    SavesAreReviewed
    WithdrawnSharingEnds
CHECK_DEADLOCK FALSE
