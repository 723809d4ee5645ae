SPECIFICATION Spec
CONSTANTS
    None = None
    r1 = r1
    r2 = r2
    Videos = {1, 2}
    t1 = t1
    t2 = t2
    Tokens = {t1, t2}
    Requests = {r1, r2}
    Reports <- MCReports
    Duration = 40
    Buckets = 4
    LikeBound = 1
    MaxReports = 3
    Liked = {1}
    MaxTime = 1
    MaxMishaps = 1
SYMMETRY MCSymmetry
INVARIANTS
    TypeOK
    PlayIsEarned
    NoSecondsInvented
    AloneIsExact
    HighlightIsPeak
    LikesAreKept
CHECK_DEADLOCK FALSE
