SPECIFICATION Spec
CONSTANTS
    SecPerMin = 2
    MinPerHour = 2
    HoursPerDay = 3
    DaysPerWeek = 2
    StaleAfter = 3
    MaxNow = 52
    Scheds <- MCScheds
    Daemons = {"d1", "d2"}
    Pids = {11}
    Commands <- MCCommands
    Tolerance = 1
    Forward = 0
    MaxTime = 2
    MaxSerial = 2
    MaxFails = 1
    Procs = {"daemon", "cli"}
    MAX_ENTRIES = 2
    MaxStarts = 3
    MaxFaults = 1
    Checkers = {"daemon", "cli"}
    Agents = {"x", "y"}
    Shas = {"A", "B"}
    MaxChanges = 2
    MaxChecks = 2
    MaxMishaps = 1
    Writers = {"p", "q"}
    max_bytes = 2
    MaxLines = 6
    MaxStamp = 2
    MaxKills = 2
    Tears = {"torn", "garbage", "whole"}
    Interval = 4
    stale_after = 2
    window_retention_days = 2
    retention_days = 1
    compress_after_days = 0
    LastDate = 5
    MaxInodes = 3
    MaxMisses = 1
    MaxWrites = 2
    Toolkits = {"t1", "t2"}
    transcript_bytes_max = 1
    MaxBytes = 2
    MaxTurns = 3
    MaxNovos = 1
    MaxSaveFails = 1
    Keepers = {"daemon", "cli"}
    Texts <- MCTexts
    TopicSets = {{}, {2}}
    Queries = {{1, 2}}
    LastDay = 0
    Recency <- MCRecency
    Reinforcement <- MCReinforcement
    PASS_LIMIT = 2
    MaxBlock = 5
    MaxStated = 3
    MaxCalls = 2
    MaxDay = 1
    Entries <- MCEntries
    Numerals = {"5"}
    Unfit <- MCUnfit
    MaxEntries = 3
    Names = {1, 2, 3, 4, 5}
    Plugins = {"vpn"}
    sanitize <- MCsanitize
    telegram_name <- MCtelegram_name
    remediation_tool_name_for <- MCremediation_tool_name_for
    SKILL_READ = 4
    SKILL_RUN = 5
    AgentFiles <- MCAgentFiles
    SkillFiles <- MCSkillFiles
    CommandFiles <- MCCommandFiles
    Configs <- MCConfigs
    Paths = {"", "/bin/sh"}
    Calls <- MCCalls
    MaxRequests = 2
    MaxEdits = 1
INVARIANTS
    WalkInv
    BootInv
    StateInv
    CacheInv
    AuditInv
    RetentionInv
    AsInv
    MemInv
    McpInv
\* Every one of them stops at its bounds.
CHECK_DEADLOCK FALSE
