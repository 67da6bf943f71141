SPECIFICATION Spec
CONSTANTS
    MaxInbox = 2
    MaxSent = 2
    CoreKeepsPromise = FALSE
INVARIANT
    DiesWithConnection
