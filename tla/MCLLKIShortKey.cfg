CONSTANTS
    None = None
    Body = {"zero", "k0", "k1", "k2"}
    ZeroBody = "zero"
    Tag = {"t0", "t1"}
    ZeroTag = "t0"
    KeyWords = 2
    TssWaitInit = 1
    SrotWaitInit = 1
    KeyIndexRamSize = 5
    KeyRamSize = 3
    NumCores = 1
    FifoDepth = 2
    ReqFifoDepth = 8
    C2Requests <- MCShortKeyRequests
    KeyRamWrites = {}
    KeyIndexRamWrites = {}
    ModeBits = {}
    InitialKeyRam <- MCKeyRam
    InitialKeyIndexRam <- MCShortKeyIndexRam
SPECIFICATION FairSpec
PROPERTIES
    WrongLengthReported
