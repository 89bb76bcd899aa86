CONSTANTS
    Settings <- FewSettings
    Default = default
    Custom <- MCCustom
    NoText = none
    Absent = absent
    Invalid <- NoSettings
    NeedsIPv6 <- MCNeedsIPv6
    CandidateBad <- NoPairs
    EffectiveBad <- NoPairs
    Unhealthy <- MCBad
    Caller <- MCCaller
    HistoryLimit = 2
    MaxHistory = 2
    Faults = {}
    default = default
    ipv6 = ipv6
    invalid = invalid
    none = none
    text = text
    c1 = c1
    c2 = c2
SYMMETRY Symmetric
SPECIFICATION Spec
INVARIANT ActivatedResolverIsHealthy
