CONSTANTS
    User = {u1, u2}
    Request = {r0, r1, r2, r3}
    Earlier = {r0}
    Removable = {u1, u2}
    Admin = {u1, u2}
    Asked <- Listings
    None = None
    Absent = Absent
    DEFAULT_PAGE = 1
    DEFAULT_PER_PAGE = 1
    MAX_PER_PAGE = 2
SPECIFICATION Spec
SYMMETRY Symmetry
INVARIANTS
    TypeOK
    DeletionAnnouncedOnce
    PagesAgree
