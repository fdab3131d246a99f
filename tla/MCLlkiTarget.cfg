CONSTANTS
    Body = {"zero", "k1", "k2"}
    ZeroBody = "zero"
    KeyWords = 2
    TssWaitInit = 10
    Requests <- MCRequests
    NoRequest <- MCNoRequest
SPECIFICATION FairSpec
INVARIANTS
    TypeOK
    NoWordLost
    AckIsTrue
PROPERTIES
    CompleteKeyKept
    ClearAnswered
