CONSTANTS
    Addr = {"r0", "r1", "bad", "z0", "z1", "zbad"}
    Data = {0}
    Rdata = {0, 1}
    RdataReset = 0
    Source = {0, 1, 2}
    SourceReset = 0
    Requests <- AnyRequest
    NoRequest <- Idle
    Contents <- MCContents
    BadAddr = {"bad", "zbad"}
    ZeroCycle = {"z0", "z1", "zbad"}
    None = None
SPECIFICATION FairSpec
PROPERTIES
    RequestAnswered
