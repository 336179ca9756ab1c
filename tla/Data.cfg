SPECIFICATION DataSpec
CONSTANTS
    n1 = n1
    n2 = n2
    n3 = n3
    n4 = n4
    p1 = p1
    p2 = p2
    p3 = p3
    d1 = d1
    d2 = d2
    k1 = k1
    k2 = k2
    Nodes = {n1, n2, n3, n4}
    Scores = {0, 1, 2}
    Ends <- MCEnds
    Depths = {0, 1, 3}
    Inventories <- MCInventories
    Runners = {p1, p2, p3}
    Worker = p3
    Engines = {"risk", "relations", "paths", "exposure", "snapshot"}
    MaxRuns = 2
    MaxChanges = 1
    MaxFailures = 1
    Detectors = {d1, d2}
    Types <- MCTypes
    Keys = {k1, k2}
    Vals = {"a", "b"}
    Absent = "-"
    MaxScans = 2
    MaxAlters = 1
    MaxErrors = 1
    Requests = {1, 2, 3}
    Mixes <- MCMixes
    First = 0
    NoOne = 9
    MaxAttempts = 5
    MaxLapses = 1
    Posts = {1, 2, 3, 4}
    Asks <- MCAsks
    Standing = 0
    RateCap = 2
    Window = 2
    Orgs <- MCOrgs
    MaxClock = 2
    MaxFaults = 1
SYMMETRY MCSymmetry
CHECK_DEADLOCK FALSE
INVARIANTS DataTypeOK SearchIsBest RebuildsAreWhole ChangesAreTold  
PROPERTIES EnginesAreExact
