SPECIFICATION FairSpec
CONSTANTS
    p1 = p1
    p2 = p2
    t1 = t1
    t2 = t2
    t3 = t3
    NoOne = NoOne
    Process = {p1, p2}
    Thread = {t1, t2, t3}
    ProcOf <- TwoThreadsInOne
    Uses <- AllUses
INVARIANT ThreadExclusion
INVARIANT SafeExclusion
PROPERTY LockReturns
