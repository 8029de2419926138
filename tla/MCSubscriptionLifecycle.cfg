SPECIFICATION Spec
CONSTANTS
    Callers = {p1, p2}
    MaxSubs = 3
    MaxTime = 2
    MaxDate = 3
INVARIANTS
    TypeOK
    OneActive
    ExpiredWasOver
    QueuePacked
    ActiveIsBacked
PROPERTIES
    EndedStaysEnded
CONSTRAINT Unstale
VIEW View
SYMMETRY Symmetry
CHECK_DEADLOCK FALSE
