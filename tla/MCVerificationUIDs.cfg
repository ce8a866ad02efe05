\* One address sends a request at a time, another whenever it pleases.
CONSTANTS
    User = {u1, u2}
    Request = {r1, r2, r3}
    Removable = {u1, u2}
    Calm = {u1}
    None = None
SPECIFICATION Spec
SYMMETRY Symmetry
INVARIANTS
    TypeOK
    ProvenByMail
    SomeLinkSurvives
    CalmLinkDeleted
PROPERTY
    ClearedByItsOwn
