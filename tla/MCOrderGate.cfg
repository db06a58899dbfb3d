SPECIFICATION FairGateSpec
CONSTANTS
    Threshold = 2
    MaxBackoffs = 2
    Limit <- MCLimit
    Window <- MCWindow
    MaxTime = 11
INVARIANTS TypeOK NoDuplicateOrder HaltBlocksNewExposure BudgetTypeOK AtMostTwiceTheLimit
PROPERTIES CallsReturn RefusalsAreFree
