SPECIFICATION FairSpec
CONSTANTS
    MaxJobs = 2
    c1 = c1
    c2 = c2
    v1 = v1
    Videos = {v1}
    NoVideo = NoVideo
    Clients = {c1}
    Requests <- MCAll
    Rounds = 1
    MaxErrors = 0
    MaxRestarts = 1
PROPERTIES
    DeleteIsFinished
    QueueDrains
