CONSTANTS
    Requests = {r1, r2}
    NoRequest = NoRequest
    Identity <- DistinctIdentities
    RootPeers = {r1, r2}
    Writes = {w1}
    AddQueueCapacity = 1
    ResultCapacity = 1
    CancelCapacity = 1
    MaxHandlers = 1
    MaxReads = 0
    ClockSteps = TRUE
    Ttl = 1
    MaxTime = 1
SPECIFICATION FairSpec
PROPERTIES RequestsAreAnswered CancelFreesProcessor GoneClientDecidesNothing
CHECK_DEADLOCK FALSE
