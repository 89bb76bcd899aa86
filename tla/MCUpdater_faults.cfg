CONSTANTS
    Service = {unbound}
    Image = {A, B}
    Volume = {cache, logs}
    Attached = {logs}
    Worker = {w1, w2}
    Migrated = {unbound}
    MaxHistory = 1
    Faults = {"command", "deadline", "restart"}
    None = None
    Target = Target
    unbound = unbound
    cache = cache
    logs = logs
    A = A
    B = B
    w1 = w1
    w2 = w2
SPECIFICATION FairSpec

INVARIANTS TypeOK OneJobAtATime RolledBackIsComplete SuccessIsComplete
PROPERTIES PromiseKept JobsEnd
