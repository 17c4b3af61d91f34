CONSTANTS
    Worker = {w1, w2}
    NoWorker = NoWorker
    Content = {"small", "large", "crop", "bare", "rubbish"}
    None = "none"
    Pixels <- MCPixels
    HardAlike <- MCHardAlike
    SoftAlike <- MCSoftAlike
    Faceless = {"bare"}
    Corrupt = {"rubbish"}
    Permits = 1
    Requests <- MCRequests
    MaxPhotos = 3
    MaxRequests = 2
SPECIFICATION Spec
PROPERTIES
    ImplementsPhotoStore
    AnswersHold
    RequestsAnswered
CHECK_DEADLOCK FALSE
