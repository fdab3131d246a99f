SPECIFICATION Spec
CONSTANTS
    NumThreads = 1
    Ops <- Commands
    MaxCmds = 1
    MaxErr = 1
    Stale = TRUE
INVARIANTS OwnCommandsOnly
CHECK_DEADLOCK FALSE
