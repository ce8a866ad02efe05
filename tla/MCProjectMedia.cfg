\* Three requests over three uuids: a project with two files, and two requests
\* that delete or overwrite them, or a second project.
CONSTANTS
    Request = {r1, r2, r3}
    File = {f1, f2, f3}
    MaxFiles = 2
    None = None
SYMMETRY Symmetry
SPECIFICATION Spec
INVARIANTS
    TypeOK
    ProjectWhole
    StoredHasRow
    DeletedByOne
CHECK_DEADLOCK FALSE
