CONSTANTS
    Proc = {p1, p2}
    Brief = {p2}
    Handler = {h1}
    MaxRequests = 2
    MaxRounds = 1
    MaxSignals = 2
SPECIFICATION Spec
INVARIANTS
    DirectoryHasOneWriter
PROPERTIES
    CommandsEnd
    SignalEndsTheProcess
    ClusteringComesFree
CHECK_DEADLOCK FALSE
