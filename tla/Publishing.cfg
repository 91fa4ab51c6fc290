SPECIFICATION PartSpec
CONSTANTS
    Cert = {c1, c2}
    Uploads <- SomeUploads
    AppendUploads <- SignatureUploads
    Acts <- Action
    MaxActions = 5
    StopOnError = TRUE
    Restarts = TRUE

    k1 = k1
    k2 = k2
    Pkg = {k1, k2}
    Deps = {k2}
    PerSecond = 2
    PerHour = 2
    MaxTime = 4
    NeverEmpty = TRUE
    Removals = TRUE
    ServerRestarts = TRUE
    Rebuilds = TRUE
    Caches = TRUE
    Failures = TRUE

    p1 = p1
    p2 = p2
    mirror = mirror
    origin = origin
    other = other
    None = None
    Pub = {p1, p2}
    Repo = {mirror, origin, other}
    ReposOf <- TwoPublishers
    File = {f1, f2}
    MaxHandles = 2
    MaxTries = 2
    MaxErrors = 2
INVARIANT PublishedIsConsistent
INVARIANT RestartForgetsNothing
INVARIANT ListIsComplete
PROPERTY ChainIsCompleteUnlessRestarted
PROPERTY InstallsSnapshot
PROPERTY NeverGoesBack
PROPERTY Converges
PROPERTY RetrievalEnds
