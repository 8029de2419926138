SPECIFICATION Spec
CONSTANTS
    Callers = {p1, p2}
    MaxSubs = 2
    MaxTime = 1
    MaxDate = 2
INVARIANTS
    SingleActive
SYMMETRY Symmetry
CHECK_DEADLOCK FALSE
