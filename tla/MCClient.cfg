CONSTANTS
    Worker = {w1, w2}
    Server = {"home", "work"}
    Model = {"small", "large"}
    Files <- MCFiles
    Faceless <- MCFaceless
    Posts = {"profile"}
    MaxPosts = 2
    MaxRuns = 2
SPECIFICATION Spec
INVARIANTS
    MarkersAreTrue
    CleanExitMeansDone
    SummaryAddsUp
PROPERTIES
    RunEnds
CHECK_DEADLOCK FALSE
