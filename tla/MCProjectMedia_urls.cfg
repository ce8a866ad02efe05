\* A project with a file, whose URL the answer is to bring.
CONSTANTS
    Request = {r1, r2}
    File = {f1, f2}
    MaxFiles = 1
    None = None
SYMMETRY Symmetry
SPECIFICATION Spec
PROPERTIES
    UrlsReachClient
CHECK_DEADLOCK FALSE
