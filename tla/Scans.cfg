SPECIFICATION ScansSpec
CONSTANTS
    Scanners = {"network", "port", "dns", "web", "subdomain"}
    PoolSize = 2
    Targets = 4
    Words = 2
    Listings <- MCListings
    InCap = 1
    OutCap = 1
    MaxQueries = 2
    Scans = {"s1", "s2"}
    Plans <- MCPlans
    Addresses = {"ip"}
    Bare <- MCBare
    Unresolvable = {"https://d"}
    Live <- MCLive
    OpenPorts <- MCOpenPorts
    Records <- MCRecords
    Resolving <- MCResolving
    Chained <- MCChained
    Sites <- MCSites
    MaxExpanded = 2
    MaxUpsets = 1
CHECK_DEADLOCK FALSE
INVARIANTS ScansTypeOK   ScansAreWhole 
PROPERTIES PipelineEnds SettledStays
