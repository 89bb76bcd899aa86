CONSTANTS
    Service = {unbound}
    Image = {A, B}
    Volume = {}
    Attached = {}
    Worker = {w1, w2}
    Migrated = {unbound}
    MaxHistory = 1
    Faults = {"deadline"}
    None = None
    Target = Target
    unbound = unbound
    A = A
    B = B
    w1 = w1
    w2 = w2
SYMMETRY Symmetric
SPECIFICATION Spec
PROPERTY FailedReplacementIsRolledBack
