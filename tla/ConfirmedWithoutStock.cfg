SPECIFICATION Spec
CONSTANTS
    a = a
    b = b
    w1 = w1
    w2 = w2
    Orders = {1, 2}
    ItemsOf <- TwoOrders
    OwnerOf <- CrossedOwners
    Workers = {w1}
    Products = {a}
    AdminStatuses = {"CREATED"}
    FaultKinds = {}
    MaxFaults = 1
    MaxInt = 1
INVARIANTS
    ConfirmedIsReserved
CHECK_DEADLOCK FALSE
