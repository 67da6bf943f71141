SPECIFICATION Spec
CONSTANTS
    Duration = 66
    Stops = {}
    Recordings <- ShortBehindBoundary
    Jitters <- SecondOff
    MaxSkips = 0
    MaxRuns = 2
CHECK_DEADLOCK FALSE
INVARIANTS
    OwnSnapshotAccepted
