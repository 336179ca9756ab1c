CONSTANTS
    Scans = {s1, s2}
    Duplicable = {}
    Requests = {k1}
    Limit = 1
    MaxRetry = 1
    None = None
    MaxFaults = 1
    MaxRestarts = 1
SPECIFICATION Spec
SYMMETRY Symmetry
INVARIANTS CancelledIsFinal
CHECK_DEADLOCK FALSE
