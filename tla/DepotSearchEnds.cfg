SPECIFICATION Spec
CONSTANTS
    worker = worker
    pkgrepo = pkgrepo
    None = None
    Pkg = {p1, p2}
    Searcher = {s1}
    Requests = {"refresh", "rebuild"}
    Commands = {}
    QueueLimit = 1
    MaxBuilds = 3
PROPERTY SearchEnds
CHECK_DEADLOCK FALSE
