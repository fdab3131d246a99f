CONSTANTS
    None = None
    Body = {"zero", "k0", "k1", "k2"}
    ZeroBody = "zero"
    Tag = {"t0", "t1"}
    ZeroTag = "t0"
    KeyWords = 2
    TssWaitInit = 3
    SrotWaitInit = 1
    KeyIndexRamSize = 5
    KeyRamSize = 3
    NumCores = 1
    FifoDepth = 2
    ReqFifoDepth = 8
    C2Requests <- MCC2Requests
    KeyRamWrites <- MCKeyRamWrites
    KeyIndexRamWrites <- MCKeyIndexRamWrites
    ModeBits = {0, 1}
    InitialKeyRam <- MCKeyRam
    InitialKeyIndexRam <- MCKeyIndexRam
SPECIFICATION FairSpec
INVARIANTS
    TypeOK
    ResponseIsTrue
    ResponseMatchesRequest
    QuietBetweenRequests
    NeverOutOfStep
    NoWordMistaken
    PortsNeverCollide
PROPERTIES
    RequestAnswered
    LockedForGood
    KeyServed
