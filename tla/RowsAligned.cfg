CONSTANTS
    Sha = {a, b}
    FirstCap = 1
    MaxPhotos = 2
    MaxRows = 2
    MaxIds = 2
    MaxKills = 2
SPECIFICATION Spec
INVARIANT RowsAligned
CHECK_DEADLOCK FALSE
