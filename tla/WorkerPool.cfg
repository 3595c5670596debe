SPECIFICATION FairSpec
CONSTANTS
    w1 = w1
    w2 = w2
    Workers = {w1, w2}
    Buffer = 1
    MaxJobs = 6
INVARIANTS
    TypeOK
    CloseMeansHandled
    NoSendOnClosed
PROPERTIES
    QueueSpec
    PoolEnds
CHECK_DEADLOCK FALSE
