SPECIFICATION FairSpec
CONSTANTS
    TaskCount = 4
    WorkerCount = 2
    Attempts = 2
    StoredFirst = {1}
    Rapid = {2}
    MaxFaults = 2
INVARIANTS
    TypeOK
    TokenIsKept
PROPERTIES
    KeepsPromise
    PoolReturns
CHECK_DEADLOCK FALSE
