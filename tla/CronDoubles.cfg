CONSTANTS
    None = None
    Ticks = {1}
    Dispatchers <- ScanOnly
    Orders <- OneOrder
    Period = 2
    Horizon = 5
    MaxRows = 4
    MaxFaults = 0
    MaxEdits = 0
SPECIFICATION RecurrenceSpec
INVARIANT OneScanPerOccurrence
CHECK_DEADLOCK FALSE
