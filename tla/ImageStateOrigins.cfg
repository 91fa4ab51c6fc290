SPECIFICATION Spec
CONSTANTS
    a = a
    b = b
    p1 = p1
    p2 = p2
    None = None
    Pkg = {a, b}
    Proc = {p1, p2}
    Freezable = {a}
    Avoidable = {b}
    MaxCrashes = 2
    Exclusive = TRUE
    SingleOrigin = FALSE
    PartialFailures = TRUE
SYMMETRY Symmetric
CHECK_DEADLOCK FALSE
INVARIANT KnownIsCurrentOrFlagged
