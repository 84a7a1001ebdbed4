CONSTANTS
    a = a
    b = b
    Proc = {p1}
    Byte = {a, b}
    MaxLen = 1
    None = None
    Uses <- Crashes
SYMMETRY ProcSymmetry
CHECK_DEADLOCK FALSE
SPECIFICATION Spec
INVARIANTS
    ContentMatchesDigest
