SPECIFICATION FairSpec
CONSTANTS
    r1 = r1
    r2 = r2
    w1 = w1
    w2 = w2
    None = None
    Requests = {r1}
    Locking = {}
    Workers = {w1, w2}
    OfferedActions = {"reject", "request_changes", "custom_effect", "reject_from_iteration"}
    Timeouts = {"expire", "auto_approve", "auto_reject"}
    MaxIterations = 1
    MaxVersion = 2
    MaxLadder = 2
    MaxSnoozes = 1
    MaxFaults = 1
INVARIANTS
    TypeOK
    UnattendedAsConfigured
PROPERTIES
    DueReviewCloses
    CapEndsIteration
    LadderClimbsOneRung
CHECK_DEADLOCK FALSE
