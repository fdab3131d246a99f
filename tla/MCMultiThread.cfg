CONSTANTS
    Harts = {"c0", "c1"}
    Locks = {0}
    Nobody = Nobody
    Master = "c0"
    MaxTest = 3
    Mapped = {0, 1}
    SignatureWord = 1
    Preferred <- MCPreferred
    MaxSweeps = 2
SPECIFICATION FairPoolSpec
CHECK_DEADLOCK FALSE
INVARIANTS
    PoolTypeOK
    EachTestOnce
PROPERTIES
    EveryThreadEnds
