CONSTANTS
    Requests = {r1, r2}
    NoRequest = NoRequest
    Identity <- DistinctIdentities
    RootPeers = {r1, r2}
    Writes = {w1}
    AddQueueCapacity = 1
    ResultCapacity = 1
    CancelCapacity = 1
    MaxHandlers = 1
    MaxReads = 1
    ClockSteps = FALSE
    Ttl = 1
    MaxTime = 2
SYMMETRY TaskSymmetry
SPECIFICATION Spec
INVARIANTS SuccessIsJustified ChallengeDecidesOnce NoRequestDropped WaitsOnFreshChallenge NoRequestLost CancelledDecidesNothing IInv SessionHonoursTtl
PROPERTIES ImplementsContract OnlyMarkReopens
CHECK_DEADLOCK FALSE
