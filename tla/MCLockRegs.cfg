CONSTANTS
    Harts = {h1, h2, h3}
    Locks = {0, 1}
    TimeOuts = {2}
    ResetId = h1
    Nobody = Nobody
    Careless = {}
    Testers = {h1, h2}
SPECIFICATION FairSpec
INVARIANTS
    TypeOK
    MutualExclusion
    NoOrphanedLock
PROPERTIES
    LockIsFreed
    ImplementsService
