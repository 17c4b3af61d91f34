CONSTANTS
    Task <- MCTask
    UrlOf <- MCUrlOf
    ByUrl <- MCByUrl
    Server <- MCServer
    JobsOf <- MCJobsOf
    Fallback = 2
    MaxChanges = 1
    MaxDeaths = 1
SPECIFICATION Spec
INVARIANTS
    NoIdleSlots
    PostedOnce
PROPERTIES
    SlotsFollowLimit
    EveryTaskEnds
CHECK_DEADLOCK FALSE
