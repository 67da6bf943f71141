SPECIFICATION Spec
CONSTANTS
    Cores = 2
    Off = Off
    Diarizer = Diarizer
    German = German
    French = French
    Mine = Mine
    Theirs = Theirs
    Stamped <- PdfOnly
    Formats <- TextAndPdf
    Requests <- BothOrNeither
    SameRequest = TRUE
    MaxRuns = 2
    MaxVersion = 2
    MaxForeign = 1
    MaxRemovals = 1
\* A job whose runs are used up has nothing left to do.
CHECK_DEADLOCK FALSE
INVARIANTS
    RecordIsCoherent
    NoWorkIsRedone
    ServedAsRequested
    DoneIsPublished
    RefusalIsForeign
PROPERTIES
    WorkIsKept
