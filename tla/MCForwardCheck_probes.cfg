CONSTANTS
    Workers = 2
    MaxTargets = 5
    Patience = 2
    TargetTimeout = 3
    TotalTimeout = 7
    FaultSets <- Everything
SPECIFICATION FairSpec
INVARIANTS ResultsBelong EveryProbeHasItsTime
PROPERTY CheckReturns
CHECK_DEADLOCK FALSE
