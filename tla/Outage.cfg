SPECIFICATION Spec
CONSTANTS
    Jobs = {j1, j2}
    Workers = {w1}
    Clients = {c1, c2}
    NoJob = NoJob
    NoWorker = NoWorker
    NoClient = NoClient
    MaxRows = 1
    MaxPending = 1
    MaxAttempt = 1
    LiveAlias = FALSE
    FaultyOps = {"begin", "starting", "finalize", "verdict", "repair", "reconcile", "claim", "create", "save", "accept", "unadmit", "reap"}
    CanCrash = TRUE
SYMMETRY Symmetry
\* A pool that was shut down, with every id used, has nothing left to do.
CHECK_DEADLOCK FALSE
INVARIANTS
    PoolAddsUp
PROPERTIES
    NoSilentOrphan
    ImplementsLifecycle
