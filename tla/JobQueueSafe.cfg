CONSTANTS
    scan = scan
    Jobs = {j1, j2}
    Workers = {w1, w2}
    Types = {scan}
    TypeOf <- MCTypeOf
    BufferSize = 1
    MaxRetry = 1
    NoJob = NoJob
    MaxBoots = 2
    MaxOutages = 1
SPECIFICATION Spec
SYMMETRY Symmetry
INVARIANTS TypeOK OnePlace RetryBudget ExhaustedHasSink StoppedIsQuiet
PROPERTIES ImplementsDelivery
CHECK_DEADLOCK FALSE
