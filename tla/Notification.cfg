SPECIFICATION FairSpec
CONSTANTS
    c1 = c1
    c2 = c2
    Orders = {1}
    OwnerOf <- OneOwner
    Conns = {c1, c2}
    UserOf <- SameUser
    Changes = {"CONFIRMED"}
    MaxEvents = 2
    MaxFaults = 1
INVARIANTS
    TypeOK
    StoredOnce
    OneLossPerFault
    HubTracksLoops
PROPERTIES
    DisconnectedLeavesHub
    BroadcastReaches
    EventsAcked
CHECK_DEADLOCK FALSE
