CONSTANTS
    a1 = a1
    a2 = a2
    a3 = a3
    b1 = b1
    a = a
    b = b
    w1 = w1
    w2 = w2
    None = None
    Jobs = {a1, a2, a3, b1}
    Keys = {a, b}
    Key <- MCKey
    Before <- MCBefore
    Workers = {w1, w2}
    max_concurrent_sessions = 1
    WORKER_QUEUE_DEPTH = 2
    SUBMIT_CHANNEL_DEPTH = 2
    MaxPanics = 1
SPECIFICATION FairSpec
CHECK_DEADLOCK FALSE
INVARIANTS
    WorkersInv
    SessionsBounded
PROPERTIES
    ConversationsKept
    NobodyWaitsForEver
