CONSTANTS
    a = a
    b = b
    Proc = {p1, p2, p3}
    Byte = {a, b}
    MaxLen = 1
    None = None
    Uses <- Overlaps
SYMMETRY ProcSymmetry
CHECK_DEADLOCK FALSE
SPECIFICATION Spec
INVARIANTS
    NoEmptyBlob
