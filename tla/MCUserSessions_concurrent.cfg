\* The requests of u2 overlap freely, those of u1 do not.
CONSTANTS
    User = {u1, u2}
    Request = {r1, r2, r3, r4}
    Removable = {u1, u2}
    Calm = {u1}
    None = None
SPECIFICATION Spec
SYMMETRY Symmetry
INVARIANTS
    TypeOK
    UserIsolation
    LogoutSticks
    NoLockout
    CalmSingleSession
PROPERTIES
    CalmLogoutClosesAll
    ImplementsLifecycle
