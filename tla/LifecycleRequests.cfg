SPECIFICATION Spec
CONSTANTS
    r1 = r1
    r2 = r2
    w1 = w1
    w2 = w2
    None = None
    Requests = {r1, r2}
    Locking = {r2}
    Workers = {w1}
    OfferedActions = {"approve", "request_changes", "cancel_iteration"}
    Timeouts = {"expire", "auto_approve", "auto_reject"}
    MaxIterations = 1
    MaxVersion = 2
    MaxLadder = 0
    MaxSnoozes = 0
    MaxFaults = 0
INVARIANTS
    MonitoringToldTruth
PROPERTIES
    MonitoringDecidedOnce
    DecisionCoversCurrentPayload
CHECK_DEADLOCK FALSE
