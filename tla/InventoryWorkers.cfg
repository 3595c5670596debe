SPECIFICATION FairSpec
CONSTANTS
    w1 = w1
    w2 = w2
    Workers = {w1, w2}
    MaxMessages = 3
    MaxFailures = 3
INVARIANTS
    TypeOK
    NoSendOnClosed
    NothingSkipped
PROPERTIES
    ErrorEndsConsumeOrders
    GoroutinesEnd
CHECK_DEADLOCK FALSE
