SPECIFICATION Spec
CONSTANTS
    r1 = r1
    r2 = r2
    w1 = w1
    w2 = w2
    None = None
    Requests = {r1, r2}
    Locking = {r1, r2}
    Workers = {}
    OfferedActions = {"approve", "reject"}
    Timeouts = {"expire", "auto_approve", "auto_reject"}
    MaxIterations = 1
    MaxVersion = 1
    MaxLadder = 0
    MaxSnoozes = 0
    MaxFaults = 0
INVARIANTS
    AgentToldOneOutcome
CHECK_DEADLOCK FALSE
