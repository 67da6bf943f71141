SPECIFICATION Spec
CONSTANTS
    Duration = 100
    Stops = {"c"}
    Recordings <- Recorded
    Jitters <- Off
    MaxSkips = 1
    MaxRuns = 2
\* A transcription that has ended stays as it is.
CHECK_DEADLOCK FALSE
INVARIANTS
    EachWordOnce
    PlayableInOrder
PROPERTIES
    CallsEnd
