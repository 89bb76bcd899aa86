CONSTANTS
    Canonical <- MCCanonical
    Forwardable <- MCForwardable
    ReverseZones <- MCReverseZones
    DefaultReverse <- MCDefaultReverse
    Null = null
    None = none
    Earlier = earlier
    MaxZones = 2
    MaxServers = 2
    MaxTargets = 3
    MaxDomains = 2
    MaxLength = 3
    MaxVersions = 2
    Document <- MCDocument
    OldDocument <- MCOldDocument
    Text <- LongText
    HabitSets <- NoHabit
    home = home
    corp = corp
    Root = root
    reverse10 = reverse10
    target1 = target1
    target2 = target2
    loopback = loopback
    net10 = net10
    net172 = net172
SPECIFICATION Spec
INVARIANT PreviewedTextIsAccepted
