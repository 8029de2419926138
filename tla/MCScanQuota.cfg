SPECIFICATION Spec
CONSTANTS
    Requests = {r1, r2, r3}
    ClientIds = {c1, c2}
    Limit = 2
    NoOne = NoOne
INVARIANTS
    TypeOK
    NoOvershootWithoutOverlap
    ExactWhileWarm
    AnswersMatchStore
PROPERTIES
    ImplementsPermits
SYMMETRY Symmetry
CHECK_DEADLOCK FALSE
