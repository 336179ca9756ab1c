SPECIFICATION ToolsSpec
CONSTANTS
    Jobs = {1, 2}
    WorkflowOrders <- MCOrders
    Tools <- MCTooling
    OnDisk <- MCOnDisk
    Prior <- MCPrior
    Limits <- MCLimits
    MaxChanges = 1
    MaxFailures = 1
    Queued = {j1, j2}
    Workers = {w1}
    job = job
    NoJob = NoJob
CHECK_DEADLOCK FALSE
INVARIANTS ToolsTypeOK SlotsHold  
PROPERTIES WorkflowEnds 
