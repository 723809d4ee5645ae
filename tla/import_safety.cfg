SPECIFICATION Spec
CONSTANTS
    MaxJobs = 2
    Videos = {v1, v2}
    NoVideo = NoVideo
    NumSegments = 2
    Contents = {c1, c2}
    NoContent = NoContent
    Torn = Torn
    MaxFailures = 1
    MaxKept = 0
    MaxRestarts = 1
    MaxClears = 1
    MaxReplaced = 0
    MayClearJobs = TRUE
    MayTearFiles = FALSE
SYMMETRY MCSymmetry
INVARIANTS
    TypeOK
    ListedIsStored
    ManifestIsLast
    NoCopies
CHECK_DEADLOCK FALSE
