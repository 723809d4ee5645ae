SPECIFICATION FairSpec
CONSTANTS
    None = None
    e1 = e1
    LastId = 2
    Stored = {1, 2}
    Known = {1, 2}
    Editors = {e1}
    EditKinds = {"metadata"}
    Blocked = {1}
    MaxEdits = 2
    MaxSyncs = 1
    MaxMishaps = 1
PROPERTIES
    DirtyIsCleaned
    EditsArrive
CHECK_DEADLOCK FALSE
