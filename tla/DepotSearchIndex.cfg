SPECIFICATION Spec
CONSTANTS
    worker = worker
    pkgrepo = pkgrepo
    None = None
    Pkg = {p1}
    Searcher = {s1}
    Requests = {"refresh", "rebuild"}
    Commands = {"refresh", "rebuild"}
    QueueLimit = 1
    MaxBuilds = 2
INVARIANT SearchIsCoherent
INVARIANT WholeAtRest
PROPERTY RefreshIndexes
CHECK_DEADLOCK FALSE
