SPECIFICATION TokensFairSpec
CONSTANTS
    r1 = r1
    e1 = e1
    e2 = e2
    w1 = w1
    None = None
    Requests = {r1, e1, e2}
    Locking = {e2}
    Recipients = {e1, e2}
    Workers = {}
    OfferedActions = {"approve", "custom_effect"}
    Timeouts = {"expire"}
    MaxIterations = 1
    MaxVersion = 1
    MaxLadder = 0
    MaxSnoozes = 0
    MaxFaults = 1
    MaxTokens = 2
INVARIANTS
    TokensTypeOK
    LinkDecidesOnce
PROPERTIES
    SharedReviewReturns
CHECK_DEADLOCK FALSE
