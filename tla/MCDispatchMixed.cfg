CONSTANTS
    SecPerMin = 1
    MinPerHour = 1
    HoursPerDay = 3
    DaysPerWeek = 1
    BACKOFF_SECONDS <- MCLadder
    Procs = {daemon}
    Manifest <- MCMixed
    Listens = {"given_up", "stale"}
    Outcomes = {"ok", "fail"}
    MaxTime = 4
    MaxFaults = 0
SPECIFICATION Spec
INVARIANTS
    GivenUpWasTried
    TickInv
PROPERTIES
    SuccessEndsTheEpisode
