CONSTANTS
    Harts = {h1, h2}
    Locks = {0, 1}
    TimeOuts = {1}
    ResetId = h1
    Nobody = Nobody
    Careless = {h1, h2}
    Testers = {}
SPECIFICATION Spec
INVARIANTS
    WorksUnderLock
