SPECIFICATION FairSpec
CONSTANTS
    w1 = w1
    w2 = w2
    None = None
    Sender = Sender
    Workers = {w1, w2}
    MaxAttempts = 3
    MaxManual = 1
    MaxCrashes = 2
    MaxStalls = 1
INVARIANTS
    TypeOK
    SuppressedNeverPosted
    OneTickAtATime
    MaxAttemptsHonoured
PROPERTIES
    DeliverySettles
CHECK_DEADLOCK FALSE
