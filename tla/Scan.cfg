CONSTANTS
    Scans = {s1, s2}
    Duplicable = {s1}
    Requests = {k1}
    Limit = 1
    MaxRetry = 1
    None = None
    MaxFaults = 2
    MaxRestarts = 1
SPECIFICATION FairSpec
INVARIANTS TypeOK CancelReaches HonestStatus
PROPERTIES CompletedIsSettled 
CHECK_DEADLOCK FALSE
