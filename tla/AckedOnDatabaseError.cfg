SPECIFICATION Spec
CONSTANTS
    a = a
    b = b
    w1 = w1
    w2 = w2
    Orders = {1}
    ItemsOf <- OneItem
    OwnerOf <- OneOwner
    Workers = {w1}
    Products = {a}
    AdminStatuses = {}
    FaultKinds = {"database"}
    MaxFaults = 1
    MaxInt = 1
INVARIANTS
    AckedOrderHandled
CHECK_DEADLOCK FALSE
