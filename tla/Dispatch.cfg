CONSTANTS
    Apex = r
    SeedA = a
    SeedB = b
    Names = {r, a, b, c}
    Root = r
    Seeds <- MCSeeds
    SubNames = {b, c}
    PtrNames = {c}
    IPs = {i1}
    Ports = {p1}
    Depth = 2
    MaxAssets = 9
    HopConcurrency = 2
    None = None
    Dispatchers = {"scan", "domain", "discovery"}
    Ticks = {1, 2}
    Orders = {1, 2}
    Period = 1
    Horizon = 2
    MaxRows = 3
    MaxFaults = 1
    MaxEdits = 1
SPECIFICATION DispatchSpec
INVARIANTS DispatchTypeOK  RepeatIsExcused
PROPERTIES RunEnds CatchesUp
CHECK_DEADLOCK FALSE
