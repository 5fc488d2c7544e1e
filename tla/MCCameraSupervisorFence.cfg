\* The comment's fence, against the race of a send with a faulted reload.
SPECIFICATION Spec
CONSTANTS
    Ids = {1}
    MaxCommands = 2
    MaxFaults = 1
    BatchCap = 1
INVARIANT RestartStaysFenced
CHECK_DEADLOCK FALSE
