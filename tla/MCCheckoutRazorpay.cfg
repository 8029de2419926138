SPECIFICATION Spec
CONSTANTS
    Orders = {o1}
    Handlers = {h1}
    Emails = {e1}
    MaxFaults = 0
PROPERTIES
    RazorpayIsSettled
CHECK_DEADLOCK FALSE
