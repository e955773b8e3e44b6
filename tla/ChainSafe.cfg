SPECIFICATION Spec
CONSTANTS
    h1 = h1
    h2 = h2
    Creator = Creator
    Handlers = {h1, h2}
    Last = 3
    Policy <- BranchFromThird
    BranchTo <- ToFirst
    MaxReviews = 6
    MaxRejections = 2
    MaxRedecisions = 1
    MaxRemovals = 0
    MaxFaults = 1
SYMMETRY PermuteHandlers
INVARIANTS
    TypeOK
    NobodyPassedOver
    NothingLeftOpen
PROPERTIES
    OverIsOver
    ImplementsRoute
CHECK_DEADLOCK FALSE
