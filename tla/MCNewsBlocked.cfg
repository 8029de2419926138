SPECIFICATION Spec
CONSTANTS
    Deliveries = {1}
    Flushers = {"f1", "f2"}
    BatchSize = 2
    RetryLimit = 2
    News = {1, 2}
    Kinds = {"customer_replied", "resolved", "closed"}
    Staff = {"s1", "s2"}
    Creator = "c"
    None = "none"
    Rosters <- AssigneeLeft
    Ids = {1, 2, 3}
    MaxAttempts = 2
    MaxFaults = 1
    MaxReads = 1
    Requests = {"r1", "r2"}
    MaxChanges = 1
    MaxRounds = 3
    MaxRedisFaults = 1
INVARIANTS
    ReadRowDoesNotBlock
CHECK_DEADLOCK FALSE
