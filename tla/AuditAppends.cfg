SPECIFICATION FairSpec
CONSTANTS
    a = a
    b = b
    c = c
    p = p
    q = q
    Writes = {a, b, c}
    Replicas = {p, q}
    Genesis = Genesis
    None = None
    MaxClock = 2
    MaxFaults = 1
INVARIANTS
    TypeOK
    ChainUnforked
    NoPhantomPredecessor
    VerifyDetectsForks
PROPERTIES
    CallsSettle
CHECK_DEADLOCK FALSE
