CONSTANTS
    SecPerMin = 1
    MinPerHour = 1
    HoursPerDay = 5
    DaysPerWeek = 1
    BACKOFF_SECONDS <- MCLadder
    Procs = {daemon, cli}
    Manifest <- MCSpaced
    Listens = {"given_up"}
    Outcomes = {"ok", "fail"}
    MaxTime = 3
    MaxFaults = 1
SPECIFICATION FairSpec
INVARIANTS
    TableTellsTheNotices
PROPERTIES
    TicksEnd
