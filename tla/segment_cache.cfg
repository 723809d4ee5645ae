SPECIFICATION Spec
CONSTANTS
    None = None
    Worker = Worker
    r1 = r1
    r2 = r2
    Videos = {1, 2, 3}
    Priority <- MCPriority
    SegmentCount = 2
    Cached = {1}
    Importing = {3}
    Limit = 2
    Requests = {r1, r2}
    Kinds = {"flush", "clear", "clear all", "detail", "cache"}
    MaxRequests = 2
    MaxWrites = 1
    MaxMishaps = 1
SYMMETRY MCSymmetry
INVARIANTS
    TypeOK
    EntryIsTrue
    WorkerFindsSegments
PROPERTIES
    EvictsToLimit
CHECK_DEADLOCK FALSE
