CONSTANTS
    Apex = r
    SeedA = a
    SeedB = b
    Names = {r, a}
    Root = r
    Seeds <- MCRootOnly
    SubNames = {r, a}
    PtrNames = {r, a}
    IPs = {i1, i2}
    Ports = {p1}
    Depth = 2
    MaxAssets = 8
    HopConcurrency = 2
SPECIFICATION Spec
INVARIANTS FrontierReentry
CHECK_DEADLOCK FALSE
