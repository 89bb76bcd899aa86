CONSTANTS
    Settings <- MCSettings
    Default = default
    Custom <- MCCustom
    NoText = none
    Absent = absent
    Invalid <- MCInvalid
    NeedsIPv6 <- MCNeedsIPv6
    CandidateBad <- NoPairs
    EffectiveBad <- MCBad
    Unhealthy <- NoPairs
    Caller <- MCOneCaller
    HistoryLimit = 2
    MaxHistory = 3
    Faults = {"command", "cancel", "write", "restore", "snapshot", "crash", "control", "clock"}
    default = default
    ipv6 = ipv6
    invalid = invalid
    none = none
    text = text
    c1 = c1
    c2 = c2
SPECIFICATION Spec
INVARIANT ReportIsTrue
PROPERTY NewestVersionsKept
