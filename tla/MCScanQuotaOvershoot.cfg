SPECIFICATION Spec
CONSTANTS
    Requests = {r1, r2, r3}
    ClientIds = {c1, c2}
    Limit = 1
    NoOne = NoOne
INVARIANTS
    NeverOvershoots
SYMMETRY Symmetry
CHECK_DEADLOCK FALSE
