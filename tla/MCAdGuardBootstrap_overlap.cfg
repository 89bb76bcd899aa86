CONSTANTS
    Caller = {c1, c2, c3}
    Password = {p1, p2, p3, p4, p5, p6}
    None = none
    Truncated = truncated
    FaultSets <- Overlaps
SYMMETRY Symmetric
SPECIFICATION Spec
INVARIANT NeverLockedOut
