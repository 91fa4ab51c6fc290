SPECIFICATION Spec
CONSTANTS
    c1 = c1
    c2 = c2
    c3 = c3
    Child = {c1, c2, c3}
    Concurrency = 2
    ConcurrencySet = FALSE
INVARIANT DoneIsComplete
PROPERTY RecursesInStages
PROPERTY RecursionEnds
CHECK_DEADLOCK FALSE
