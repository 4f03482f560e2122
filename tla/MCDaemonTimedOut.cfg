SPECIFICATION RunAlone
CONSTANTS
    Day = 5
    MaxSleep = 3
    Fallback = 1
    RetentionHour = 1
    RetentionWindow = 2
    Configs <- MCConfigs
    Durations = {0, 3}
    Events = {0, 1}
    Horizon = 9
    MAX_MESSAGE_UNITS = 6
    MAX_MESSAGE_CHARS = 5
    MAX_MESSAGE_BYTES = 8
    MAX_TITLE_BYTES = 5
    MAX_TITLE_CHARS = 2
    ENCODED_WORD_MAX = 8
    Jobs <- MCJobs
    Installed = {"p1", "p2"}
    Environ <- MCEnviron
    state_path <- MCStatePath
    SecretFiles <- MCSecretFiles
    TAIL_LINES = 2
    Budget <- MCBudget
    Supplies <- MCSupplies
    PowerConfigs <- MCPowerConfigs
    Overrides = {"none", "Run", "Defer"}
    MaxReadings = 1
INVARIANTS
    TimedOutIsNoSuccess
CHECK_DEADLOCK FALSE
