SPECIFICATION Spec
CONSTANTS
    MaxJobs = 2
    Videos = {v1, v2}
    NoVideo = NoVideo
    NumSegments = 1
    Contents = {c1, c2}
    NoContent = NoContent
    Torn = Torn
    MaxFailures = 1
    MaxKept = 2
    MaxRestarts = 1
    MaxClears = 0
    MaxReplaced = 1
    MayClearJobs = TRUE
    MayTearFiles = TRUE
SYMMETRY MCSymmetry
INVARIANTS
    GoneLeavesNothing
    HiddenIsReachable
CHECK_DEADLOCK FALSE
