SPECIFICATION Spec
CONSTANTS
    AuthTimeout = 3
    SigpipeKills = TRUE
INVARIANTS
    EnterContinues
\* a signal kills the process
CHECK_DEADLOCK FALSE
