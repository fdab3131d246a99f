SPECIFICATION Spec
CONSTANTS
    NumThreads = 1
    Ops <- AllCommands
    MaxCmds = 1
    MaxErr = 1
    Stale = FALSE
INVARIANTS FailureCounted
CHECK_DEADLOCK FALSE
