\* One photo with two faces: clustered, then split, hidden or renamed after a
\* second job took its snapshot.
SPECIFICATION JobSpec
CONSTANTS
    Sha = {a, b}
    NoSha = NoSha
    MaxImages = 1
    MaxFaces = 2
    MaxIds = 2
    MaxNew = 2
    MinSize = 2
    CountMax = 2
    MaxRuns = 2
    MaxHandled = 4
PROPERTIES
    PinnedNeverDissolvedByJob
CHECK_DEADLOCK FALSE
