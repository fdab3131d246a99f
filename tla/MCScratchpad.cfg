SPECIFICATION FairSpec
CONSTANTS
    Words = 2
    RspDepth = 4
    Requests <- MCRequests
INVARIANTS TypeOK NothingDropped
PROPERTIES ImplementsRam PortReopens
