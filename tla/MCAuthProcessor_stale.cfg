\* The watch denies the challenge of a request that has already timed out.
CONSTANTS
    Requests = {r1, r2}
    NoRequest = NoRequest
    Identity <- DistinctIdentities
    RootPeers = {r1, r2}
    Writes = {w1}
    AddQueueCapacity = 1
    ResultCapacity = 1
    CancelCapacity = 1
    MaxHandlers = 1
    MaxReads = 0
    ClockSteps = FALSE
    Ttl = 0
    MaxTime = 1
SPECIFICATION Spec
INVARIANT OnlyCurrentChallengeDecides
CHECK_DEADLOCK FALSE
