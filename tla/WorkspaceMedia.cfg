SPECIFICATION Spec
CONSTANTS
    Files = {f1, f2}
    Urls = {u}
    Queries = {}
    Nothing = Nothing
    MaxActs = 4
CHECK_DEADLOCK FALSE
INVARIANT
    TimestampsSeekOwnMedia
