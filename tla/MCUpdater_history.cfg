CONSTANTS
    Service = {unbound}
    Image = {A, B, C}
    Volume = {}
    Attached = {}
    Worker = {w1, w2}
    Migrated = {}
    MaxHistory = 3
    Faults = {}
    None = None
    Target = Target
    unbound = unbound
    A = A
    B = B
    C = C
    w1 = w1
    w2 = w2
SYMMETRY Symmetric
SPECIFICATION Spec
INVARIANTS ImagesAtHand CleanupFindsItsEntry IdleReportIsTrue
