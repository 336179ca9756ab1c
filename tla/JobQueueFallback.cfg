CONSTANTS
    scan = scan
    Jobs = {j1}
    Workers = {w1}
    Types = {scan}
    TypeOf <- MCTypeOf
    BufferSize = 1
    MaxRetry = 0
    NoJob = NoJob
    MaxBoots = 1
    MaxOutages = 1
SPECIFICATION FairSpec
PROPERTIES FallbackIsHandled
CHECK_DEADLOCK FALSE
