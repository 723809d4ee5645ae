SPECIFICATION Spec
CONSTANTS
    s1 = s1
    s2 = s2
    LastSegment = 1
    WindowSize = 1
    MaxSessions = 2
    MaxMishaps = 1
    Ranges <- MCBoth
    Streams = {s1, s2}
SYMMETRY MCSymmetry
INVARIANTS
    TypeOK
    NothingSkipped
PROPERTIES
    ReadsFromRemote
CHECK_DEADLOCK FALSE
