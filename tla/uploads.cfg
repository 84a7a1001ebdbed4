CONSTANTS
    a = a
    b = b
    Proc = {p1, p2}
    Byte = {a, b}
    MaxLen = 2
    None = None
    Uses <- SerialAndRetry
SYMMETRY ProcSymmetry
CHECK_DEADLOCK FALSE
SPECIFICATION Spec
INVARIANTS
    ContentMatchesDigest
    HashStateFits
    
