CONSTANTS
    Sha = {a, b}
    FirstCap = 1
    MaxPhotos = 2
    MaxRows = 2
    MaxIds = 2
    MaxKills = 2
SYMMETRY ContentSymmetry
SPECIFICATION Spec
INVARIANTS
    ReopenAccepts
    LivePhotosHaveMasters
    AcknowledgedSurvive
    StartRepairs
CHECK_DEADLOCK FALSE
