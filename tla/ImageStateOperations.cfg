SPECIFICATION Spec
CONSTANTS
    a = a
    b = b
    p1 = p1
    p2 = p2
    None = None
    Pkg = {a, b}
    Proc = {p1, p2}
    Freezable = {a}
    Avoidable = {b}
    MaxCrashes = 2
    Exclusive = TRUE
    SingleOrigin = TRUE
    PartialFailures = FALSE
SYMMETRY Symmetric
INVARIANT KnownIsCurrentOrFlagged
INVARIANT RecordMatchesFiles
INVARIANT MirrorAgrees
PROPERTY ManualIsKept
CHECK_DEADLOCK FALSE
