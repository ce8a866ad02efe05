\* Two logins of one user overlap.
CONSTANTS
    User = {u1}
    Request = {r1, r2, r3}
    Removable = {}
    Calm = {}
    None = None
SPECIFICATION Spec
INVARIANT
    SingleActiveSession
