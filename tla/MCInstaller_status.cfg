CONSTANTS
    Config <- MCConfig
    Invalid <- MCInvalid
    Caller = {c1, c2}
    None = none
    Faults = {"command", "disk", "restart", "replace"}
    g1 = g1
    g2 = g2
    bad = bad
SPECIFICATION FairSpec
INVARIANTS TypeOK StatusIsTrue InstalledIsTrue InstalledIsAttached
PROPERTY DeploymentEnds
