SPECIFICATION Spec
CONSTANTS
    worker = worker
    pkgrepo = pkgrepo
    None = None
    Pkg = {p1}
    Searcher = {}
    Requests = {"refresh"}
    Commands = {"rebuild"}
    QueueLimit = 1
    MaxBuilds = 2
PROPERTY RefreshIsComplete
CHECK_DEADLOCK FALSE
