CONSTANTS
    Quiet = {0, 1}
    Verbose = 2
    Initial = 1
    Caller = {c1, c2}
    Timer = {t1, t2}
    None = none
    FaultSets <- Core
SPECIFICATION Spec
INVARIANT AlwaysQuietAfterwards
