CONSTANTS
    run = run
    instance = instance
    Ids = {run, instance}
    Persistent = {instance}
    Deadline <- MCDeadline
    Retimes = {1}
    MaxTime = 2
SPECIFICATION FairSpec
CHECK_DEADLOCK FALSE
INVARIANTS
    SupervisorInv
PROPERTIES
    LifecycleKept
    DeadlineEnforced
