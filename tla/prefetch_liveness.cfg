SPECIFICATION FairSpec
CONSTANTS
    s1 = s1
    s2 = s2
    LastSegment = 3
    WindowSize = 2
    MaxSessions = 2
    MaxMishaps = 0
    Ranges <- MCProbe
    Streams = {s1, s2}
PROPERTIES
    PrefetchStops
    WindowIsFetched
CHECK_DEADLOCK FALSE
