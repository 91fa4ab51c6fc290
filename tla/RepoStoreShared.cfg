SPECIFICATION Spec
CONSTANTS
    depot = depot
    pkgsend = pkgsend
    t1 = t1
    t2 = t2
    k1 = k1
    k2 = k2
    f1 = f1
    f2 = f2
    None = None
    Process = {depot, pkgsend}
    Actor = {t1, t2}
    ProcOf <- TwoProcesses
    Pkg = {k1, k2}
    File = {f1, f2}
    Contents <- SharedFile
    Crashes = TRUE
    Exclusive = FALSE
    Removes = TRUE
    QuietRemoves = TRUE
    Repairs = TRUE
INVARIANT AckedIsDurable
PROPERTY RefreshRestores
