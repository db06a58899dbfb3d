SPECIFICATION Spec
CONSTANTS
    Bars = {1, 2}
    MaxCopies = 3
    Capacity = 1
    QueueLimit = 2
    MaxEpoch = 1
    Scenarios <- Covered
INVARIANTS TypeOK FullestKept NothingVanishes
PROPERTIES ReplayOnlyAdvances
CHECK_DEADLOCK FALSE
