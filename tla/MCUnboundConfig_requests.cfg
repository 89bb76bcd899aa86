CONSTANTS
    Settings <- FewSettings
    Default = default
    Custom <- MCCustom
    NoText = none
    Absent = absent
    Invalid <- NoSettings
    NeedsIPv6 <- MCNeedsIPv6
    CandidateBad <- MCBad
    EffectiveBad <- NoPairs
    Unhealthy <- NoPairs
    Caller <- MCCaller
    HistoryLimit = 2
    MaxHistory = 2
    Faults = {"command", "cancel", "write"}
    default = default
    ipv6 = ipv6
    invalid = invalid
    none = none
    text = text
    c1 = c1
    c2 = c2
SPECIFICATION FairSpec
INVARIANTS RefusalIsTrue FilesBelongTogether RunningIsInForce BothVersionsRecorded
PROPERTIES RequestsReturn ActivationIsAtomic
