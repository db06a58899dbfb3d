SPECIFICATION Spec
CONSTANTS
    Hosts = {p, q}
    Previous = previous
    Ttl = 18
    HeartbeatInterval = 6
    RenewTimeout = 4
    Settle = 2
    MaxWindow = 1
    MaxClockSkew = 1
    BackoffBase = 2
    BackoffCap = 60
    Patience = 60
    Spread = 1
    PutDelay = 1
    GetDelay = 0
    MaxFailures = 1
    MaxErrors = 1
SYMMETRY Symmetry
INVARIANTS TypeOK OneHolder HolderOwnsLock
CHECK_DEADLOCK FALSE
