\* A calm user and another, who may be deleted, on two instances, one of which
\* loses Redis at times.
CONSTANTS
    User = {u1, u2}
    Request = {r1, r2}
    Instance = {i1, i2}
    Steady = {i1}
    Calm = {u1}
    Removable = {u2}
    None = None
SPECIFICATION FairSpec
INVARIANTS
    TypeOK
    CopiesLagBehind
    TogglesCount
PROPERTIES
    OwnChangesSeen
    RemovedUserLockedOut
