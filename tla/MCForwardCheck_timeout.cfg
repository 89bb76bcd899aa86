CONSTANTS
    Workers = 2
    MaxTargets = 7
    Patience = 2
    TargetTimeout = 3
    TotalTimeout = 5
    FaultSets <- NoFault
SPECIFICATION Spec
INVARIANT NoTimeout
CHECK_DEADLOCK FALSE
