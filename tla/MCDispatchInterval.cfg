CONSTANTS
    SecPerMin = 1
    MinPerHour = 1
    HoursPerDay = 5
    DaysPerWeek = 1
    BACKOFF_SECONDS <- MCLadder
    Procs = {daemon}
    Manifest <- MCInterval
    Listens = {"given_up"}
    Outcomes = {"ok", "fail", "preflight", "lost", "error"}
    MaxTime = 4
    MaxFaults = 1
SPECIFICATION Spec
INVARIANTS
    TypeOK
    RunBudget
    TickInv
PROPERTIES
    GivenUpIsFinal
