\* The bounds of MCGallery.cfg with a third identity slot, two jobs, and four
\* handlers or restarts around them.
SPECIFICATION JobSpec
CONSTANTS
    Sha = {a, b}
    NoSha = NoSha
    MaxImages = 2
    MaxFaces = 3
    MaxIds = 3
    MaxNew = 2
    MinSize = 2
    CountMax = 3
    MaxRuns = 2
    MaxHandled = 4
SYMMETRY ShaSymmetry
INVARIANTS
    ListedFacesReferBack
    IdentitiesMatchMembers
    HiddenNeverSurface
PROPERTIES
    PinnedRowsAreFixed
    IngestMeanwhileSurvives
CHECK_DEADLOCK FALSE
