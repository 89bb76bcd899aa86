CONSTANTS
    adguard = adguard
    unbound = unbound
    A = A
    B = B
    stable = stable
    beta = beta
    None = None
    Target = Target
    Service = {unbound}
    Image = {A, B}
    Worker = {w1}
    w1 = w1
    Config = {stable, beta}
    Caller = {c1}
    c1 = c1
    Reference <- UnboundReference
    Configured = {}
    FirstConfig = stable
    Published = {B}
    InstallerFaults = {}
    Volume = {}
    Attached = {}
    Migrated = {}
    MaxHistory = 1
    Faults = {}
SPECIFICATION StackSpec
INVARIANTS RollbackIsComplete
