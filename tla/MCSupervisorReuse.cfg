CONSTANTS
    run = run
    instance = instance
    Ids = {run}
    Persistent = {}
    Deadline <- MCDeadline
    Retimes = {1}
    MaxTime = 2
SPECIFICATION Spec
CHECK_DEADLOCK FALSE
INVARIANTS
    SignalsReachOwnChild
