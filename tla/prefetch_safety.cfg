SPECIFICATION Spec
CONSTANTS
    s1 = s1
    s2 = s2
    LastSegment = 1
    WindowSize = 1
    MaxSessions = 3
    MaxMishaps = 1
    Ranges <- MCProbe
    Streams = {s1, s2}
SYMMETRY MCSymmetry
INVARIANTS
    OneDownloader

    
CHECK_DEADLOCK FALSE
