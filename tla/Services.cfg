SPECIFICATION AllSpec
CONSTANTS
    Jobs = {j1, j2, j3}
    Callers = {c1, c2}
    Threads = 2
    MaxPending = 2
    MaxPools = 3
    StoreFaults = TRUE
    Launches = {p1, p2}
    Discoveries = {r}
    Nobody = Nobody
    Servers = {p1, p2}
    Transcripts = {t1, t2}
    Total = 3
    Request = 1
    Grace = 1
    MaxText = 2
    Horizon = 5
    Words = {w}
    Marks = {m}
    Guess = g
    Longest = 3
    MaxEdit = 1
    MaxPieces = 3
    MaxSpans = 2
    Installers = {i1, i2}
    Seeders = {s}
    Nothing = Nothing
    Users = {u1, u2}
    Unset = Unset
    Free = Free
    Slots = 1
    MaxBuilt = 4
    MaxChunks = 2
    LongestSource = 3
    Pipe = 2
    Absent = Absent
    Peers = {a1, a2, a3}
    Rate = 2
    Capacity = 2
    Ttl = 2
    LastTick = 7
    Files = {f1, f2}
    Urls = {u}
    Queries = {q}
    MaxActs = 4
\* Each part comes to an end of its own.
CHECK_DEADLOCK FALSE
INVARIANTS
    RunsBounded
    StrandedVerdictsSurvive
    DiscoveryIsExact
    OneCleanupAtATime
    ShownIsOfThisText
    UnsureSpansStand
    CachedIsPinned
    WholeOrNothing
    FullMeansLive
    OneRunPerModel
    PageFollowsWatched
