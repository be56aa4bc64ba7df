SPECIFICATION Spec
CONSTANTS
    p1 = p1
    p2 = p2
    None = None
    Proc = {p1, p2}
INVARIANTS
    CallersConverge
CHECK_DEADLOCK FALSE
