CONSTANTS
    Quiet = {0, 1}
    Verbose = 2
    Initial = 1
    Caller = {c1, c2}
    Timer = {t1, t2}
    None = none
    FaultSets <- Everything
SPECIFICATION FairSpec
INVARIANTS AnnouncedSessionEnds OneTimer InactiveMeansQuiet
PROPERTY LoggingIsTemporary
