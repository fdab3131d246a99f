SPECIFICATION FairSpec
CONSTANTS
    NumThreads = 2
    Ops <- Commands
    MaxCmds = 1
    MaxErr = 1
    Stale = FALSE
INVARIANTS TypeOK ErrorsCounted NoneAbandoned
PROPERTIES DeliversMail ShutsDown
CHECK_DEADLOCK FALSE
