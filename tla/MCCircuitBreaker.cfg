SPECIFICATION Spec
CONSTANTS
    t1 = t1
    t2 = t2
    t3 = t3
    Threads = {t1, t2, t3}
    Threshold = 2
    ResetTimeout = 3
    MaxStall = 1
    MaxTime = 7
SYMMETRY ThreadSymmetry
INVARIANT TypeOK ProbeHasOwner
PROPERTY OneProbePerWindow
CHECK_DEADLOCK FALSE
