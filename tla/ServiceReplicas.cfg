SPECIFICATION FairSpec
CONSTANTS
    r1 = r1
    r2 = r2
    h1 = h1
    h2 = h2
    g1 = g1
    Replicas = {r1, r2}
    Last = 2
    HttpRequests = {h1, h2}
    Rpcs = {g1}
INVARIANTS
    TypeOK
    MigratedOnce
    ServesMigrated
    Drained
PROPERTIES
    StartEnds
    StopEnds
CHECK_DEADLOCK FALSE
