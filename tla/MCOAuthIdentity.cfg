CONSTANTS
    Address = {a1, a2}
    Request = {r1, r2, r3, r4}
    Calm = {a1}
    Removable = {a2}
    None = None
SPECIFICATION Spec
SYMMETRY Symmetry
INVARIANTS
    TypeOK
    ReturnsToAccount
    CalmNeverConflicts
PROPERTIES
    VerifiedStays
