\* One user, one request at a time, an old refresh token presented again.
CONSTANTS
    User = {u1}
    Request = {r1, r2, r3}
    Removable = {}
    Calm = {u1}
    None = None
SPECIFICATION Spec
INVARIANT
    RefreshTokenUsedOnce
