SPECIFICATION FairSpec
CONSTANTS
    AuthTimeout = 3
    SigpipeKills = TRUE
INVARIANTS
    SuccessIsApproved
    ReasonIsReported
    ContextOutlivesThread
    DescriptorsClosed
    IInv
PROPERTIES
    EnterReturns
    AuthenticateReturns
\* the call returns, or a signal kills the process
CHECK_DEADLOCK FALSE
