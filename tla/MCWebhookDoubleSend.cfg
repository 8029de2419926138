SPECIFICATION SafetySpec
CONSTANTS
    Deliveries = {1, 2}
    Flushers = {f1, f2}
    BatchSize = 2
    RetryLimit = 2
INVARIANTS
    NoDoubleSend
SYMMETRY Symmetry
