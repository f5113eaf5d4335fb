\* Two clients ask for the same identity at once, and nothing is cached.
CONSTANTS
    Requests = {r1, r2}
    NoRequest = NoRequest
    Identity <- OneIdentity
    RootPeers = {r1, r2}
    Writes = {w1, w2}
    AddQueueCapacity = 2
    ResultCapacity = 1
    CancelCapacity = 1
    MaxHandlers = 1
    MaxReads = 0
    ClockSteps = FALSE
    Ttl = 0
    MaxTime = 1
SPECIFICATION Spec
INVARIANT DuplicatesAreRefused
CHECK_DEADLOCK FALSE
