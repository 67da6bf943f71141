SPECIFICATION Spec
CONSTANTS
    Jobs = {j1}
    Workers = {w1}
    Clients = {c1, c2, c3}
    NoJob = NoJob
    NoWorker = NoWorker
    NoClient = NoClient
    MaxRows = 1
    MaxPending = 1
    MaxAttempt = 3
    LiveAlias = TRUE
    FaultyOps = {}
    CanCrash = FALSE
SYMMETRY Symmetry
\* A pool that was shut down, with every id used, has nothing left to do.
CHECK_DEADLOCK FALSE
INVARIANTS
    QueuedRunStartsOwnClaim
