SPECIFICATION FairSpec
CONSTANTS
    s1 = s1
    s2 = s2
    Sends = {s1, s2}
    Keyed = {s1, s2}
    Cap = 1
    CapWindow = 1
    DedupWindow = 1
    PauseWindow = 2
    FallbackWindow = 3
    MinSample = 1
    BounceLimit = 500
    ComplaintLimit = 100
    MaxClock = 3
    MaxResumes = 1
    MaxFaults = 1
INVARIANTS
    TypeOK
    CapHolds
    PauseAudited
    FreshStart
PROPERTIES
    BreachPauses
CHECK_DEADLOCK FALSE
