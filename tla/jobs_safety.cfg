SPECIFICATION Spec
CONSTANTS
    MaxJobs = 2
    c1 = c1
    c2 = c2
    v1 = v1
    Videos = {v1}
    NoVideo = NoVideo
    Clients = {c1, c2}
    Requests <- MCAll
    Rounds = 1
    MaxErrors = 1
    MaxRestarts = 1
SYMMETRY MCSymmetry
INVARIANTS
    TypeOK
    QueueMirrorsScheduled
    RunningIsProcessing
    CancelFlagAgrees
    QueuedDeleteIsOwned
PROPERTIES
    DeletionsAreTasks
