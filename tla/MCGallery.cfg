\* Two photos, three faces, two identity slots: a photo with two faces can be
\* upgraded, split, merged and clustered with a face from the other photo, and
\* a third identity would need a slot the bound does not give.
SPECIFICATION Spec
CONSTANTS
    Sha = {a, b}
    NoSha = NoSha
    MaxImages = 2
    MaxFaces = 3
    MaxIds = 2
    MaxNew = 2
    MinSize = 2
    CountMax = 2
SYMMETRY ShaSymmetry
INVARIANTS
    TypeOK
    MembershipMirrorsRefs
    IdentitiesMatchMembers
    PhotosConsistent
    IndexCoversFaces
    HiddenFacesSuppressed
PROPERTIES
    AutomationKeepsPinnedFaces
    DeadIdsStayDead
CHECK_DEADLOCK FALSE
