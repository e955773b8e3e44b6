SPECIFICATION FairSpec
CONSTANTS
    ann = ann
    x1 = x1
    x2 = x2
    None = None
    Reviewers = {ann}
    Runs = {x1, x2}
    MaxAttempts = 2
    RetryLimit = 1
    MaxDay = 2
    MaxFaults = 1
INVARIANTS
    TypeOK
    OneDigestADay
    DoneMeansCommitted
PROPERTIES
    DigestRuns
CHECK_DEADLOCK FALSE
