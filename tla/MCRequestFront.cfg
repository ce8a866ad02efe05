CONSTANTS
    Request = {r1, r2}
    Page = {p1}
    Mobile = {m1}
    Calm = {p1}
    Shared = TRUE
    Points <- OnePoint
    None = None
SPECIFICATION FairSpec
INVARIANTS
    TypeOK
    GracefulExit
    LateRequestsRefused
    CalmPageServed
PROPERTIES
    ShutdownEnds
    ErrorsAreLogged
