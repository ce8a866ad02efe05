\* One user sends a request at a time, another whenever it pleases.
CONSTANTS
    User = {u1, u2}
    Request = {r1, r2, r3}
    Patient = {u1}
    Removable = {u1}
    Code = {c1, c2}
    Phone = {p1, p2}
    None = None
SPECIFICATION Spec
SYMMETRY Symmetry
INVARIANTS
    TypeOK
    CodeUsedOnce
    NumberProved
    SomeCodeSurvives
    OneLiveCode
