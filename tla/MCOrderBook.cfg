SPECIFICATION BookFairSpec
CONSTANTS
    o1 = o1
    o2 = o2
    n1 = n1
    n2 = n2
    Orders = {o1}
    Numbers = {n1, n2}
    Quantity = 5
    LotSize = 2
    MaxOrders = 2
    MaxAliases = 1
    MaxCorrelations = 1
INVARIANTS BookTypeOK NoDoubleBooking FillsAccounted
PROPERTIES TerminalIsFinal ConvergesToBroker
CHECK_DEADLOCK FALSE
