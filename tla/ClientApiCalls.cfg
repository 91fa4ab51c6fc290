SPECIFICATION Spec
CONSTANTS
    Thread = {t1, t2, t3}
    Other = o
    None = None
INVARIANT CancelHasAnOwner
INVARIANT LocksReleased
INVARIANT PlanRunsOnItsImage
INVARIANT RunsAtMostOnce
PROPERTY CancelStopsTheCall
PROPERTY EveryCallReturns
CHECK_DEADLOCK FALSE
