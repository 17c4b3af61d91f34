\* One photo with four faces: two groups of equal size compete for one id.
SPECIFICATION Spec
CONSTANTS
    Sha = {a, b}
    NoSha = NoSha
    MaxImages = 1
    MaxFaces = 4
    MaxIds = 2
    MaxNew = 4
    MinSize = 2
    CountMax = 2
PROPERTIES
    IdsFollowLargestOverlap
CHECK_DEADLOCK FALSE
