SPECIFICATION Spec
CONSTANTS
    Orders = {o1, o2}
    Handlers = {h1, h2}
    Emails = {e1}
    MaxFaults = 1
INVARIANTS
    TypeOK
    SuccessIsBacked
    ContentionOnly
PROPERTIES
    ImplementsOrderBook
    CapturedIsSettled
CHECK_DEADLOCK FALSE
