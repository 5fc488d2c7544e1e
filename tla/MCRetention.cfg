SPECIFICATION Spec
CONSTANTS
    None = None
    Policies <- MCPolicies
    QueueCap = 1
    Capacity = 7
INVARIANTS
    PlanIsExact
    NewestIsKept
    WithinQuotas
    NoFileMissed
CHECK_DEADLOCK FALSE
