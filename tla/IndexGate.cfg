\* The bounds of MCGallery.cfg; the counterexample needs one photo.
SPECIFICATION Spec
CONSTANTS
    Sha = {a, b}
    NoSha = NoSha
    MaxImages = 2
    MaxFaces = 3
    MaxIds = 2
    MaxNew = 2
    MinSize = 2
    CountMax = 2
INVARIANTS
    IndexedFacesPassGate
CHECK_DEADLOCK FALSE
