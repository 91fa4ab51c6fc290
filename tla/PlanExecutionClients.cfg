SPECIFICATION Spec
CONSTANTS
    Client = {c1, c2, c3}
    None = None
    MaxBe = 4
    Faults = {}
SYMMETRY Symmetry
INVARIANTS
    NewBeIsAllOrNothing
    CopiesAreQuiet
    EndIsRecorded
    RecordIsTrue
    RestoredIsClean
PROPERTY
    CompletedIsKept
CHECK_DEADLOCK FALSE
