SPECIFICATION FairSpec
CONSTANTS
    a = a
    b = b
    w1 = w1
    w2 = w2
    Orders = {1}
    ItemsOf <- OneItem
    OwnerOf <- OtherOwner
    Workers = {w1, w2}
    Products = {a}
    AdminStatuses = {"CREATED", "SHIPPED"}
    FaultKinds = {"publish", "database", "commitLost", "redelivery", "duplicate", "inventoryStop", "orderStop"}
    MaxFaults = 2
    MaxInt = 1
INVARIANTS
    TypeOK
    ConfirmedIsReserved
    StatusAppliedOnce
    OrderNotLost
PROPERTIES
    EventsDrain
    OrderSettles
CHECK_DEADLOCK FALSE
