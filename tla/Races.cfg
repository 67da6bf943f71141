SPECIFICATION FairSpec
CONSTANTS
    Jobs = {j1}
    Workers = {w1, w2}
    Clients = {c1, c2}
    NoJob = NoJob
    NoWorker = NoWorker
    NoClient = NoClient
    MaxRows = 1
    MaxPending = 1
    MaxAttempt = 3
    LiveAlias = FALSE
    FaultyOps = {}
    CanCrash = FALSE
\* A pool that was shut down, with every id used, has nothing left to do.
CHECK_DEADLOCK FALSE
INVARIANTS
    OneOwnerPerJob
    QueuedRunStartsOwnClaim
    StopsAreExact
PROPERTIES
    RefusalSparesNewerClaim
    LiveJobSettles
    ShutdownDrains
