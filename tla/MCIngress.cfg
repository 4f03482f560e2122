SPECIFICATION Spec
CONSTANTS
    Clients = {"a", "b"}
    Requests = {"r"}
    Lines <- MCLines
    MAX_CONNECTIONS = 1
    EVENT_QUEUE_SLOTS = 2
    MAX_EVENT_QUEUE_BYTES = 1
    RunEvents = 1
    MaxRead = 2
    Inputs <- MCInputs
    MAX_FRAME_BYTES = 2
    MaxSaid = 2
    Stories <- MCStories
    Installed = {"deploy"}
    Policies <- MCPolicies
    Paths = {"", "..", "./sh"}
    Owners = {"owner"}
    OpenChats = {"group"}
    GroupChats = {"group"}
    per_minute = 3
    ttl = 0
    MaxNow = 1
    MaxStops = 1
    MaxLosses = 1
INVARIANTS
    ApiInv
    TgInv
PROPERTIES
    
    NothingIsHeldForever
    EveryUpdateLeaves
\* All stop: the API when the daemon does, the bridge with the socket, Telegram when nobody writes any more.
CHECK_DEADLOCK FALSE
