CONSTANTS
    r1 = r1
    r2 = r2
    chat = chat
    cron = cron
    Requests = {r1, r2}
    Keys = {chat, cron}
    Resolved <- MCResolved
    max_instances = 1
    max_invocations = 2
    MaxCells = 2
    MaxDrains = 1
    MaxCancels = 1
SPECIFICATION FairSpec
CHECK_DEADLOCK FALSE
INVARIANTS
    PoolInv
    
PROPERTIES
    DispatchEnds
