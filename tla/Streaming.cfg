SPECIFICATION AllSpec
CONSTANTS
    Sessions = {s1, s2}
    MaxSessions = 1
    Reckless = {s1}
    MaxFrames = 4
    MaxQueue = 3
    MaxRecords = 8
    Deadline = 2
    Overlap = FALSE
    MaxInbox = 2
    MaxSent = 4
    CoreKeepsPromise = TRUE
    Connections = {c1, c2, c3}
    HandshakeLimit = 2
    TotalLimit = 2
    MaxChars = 4
    MaxWords = 2
    MaxEvents = 2
    MaxHistory = 2
    MaxSeq = 4
\* What has ended leaves nothing to do.
CHECK_DEADLOCK FALSE
INVARIANTS
    NothingLeaks
    CancelStands
    HonestChildAccepted
    FinishedIsComplete
    AudioAccountedFor
    CountersMatchLeases
    NoUnseenHole
PROPERTIES
    EndedReleases
    StallIsNoticed
    PromptRelease
    ConnectionEnds
