CONSTANTS
    Conn = {c1, c2, c3}
    File = {"dynamic", "fib", "pic", "film"}
    FileSz <- MCFileSz
    PipeCap = 2
SPECIFICATION Spec
SYMMETRY ConnSymmetry
INVARIANTS
    TypeOK
    PipeAccounts
    AnnouncedLength
