SPECIFICATION FairSpec
CONSTANTS
    h1 = h1
    h2 = h2
    Creator = Creator
    Handlers = {h1}
    Last = 2
    Policy <- BranchFromSecond
    BranchTo <- ToFirst
    MaxReviews = 8
    MaxRejections = 1
    MaxRedecisions = 1
    MaxRemovals = 1
    MaxFaults = 1
PROPERTIES
    DecidedStepMoves
    RouteEnds
CHECK_DEADLOCK FALSE
