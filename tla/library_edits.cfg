SPECIFICATION Spec
CONSTANTS
    None = None
    e1 = e1
    LastId = 2
    Stored = {1, 2}
    Known = {1}
    Editors = {e1}
    EditKinds = {"metadata", "tags", "artwork"}
    Blocked = {}
    MaxEdits = 2
    MaxSyncs = 1
    MaxMishaps = 1
INVARIANTS
    TypeOK
    CleanIsPublished
CHECK_DEADLOCK FALSE
