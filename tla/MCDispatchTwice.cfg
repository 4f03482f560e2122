CONSTANTS
    SecPerMin = 1
    MinPerHour = 1
    HoursPerDay = 5
    DaysPerWeek = 1
    BACKOFF_SECONDS <- MCLadder
    Procs = {daemon}
    Manifest <- MCInterval
    Listens = {"given_up"}
    Outcomes = {"fail"}
    MaxTime = 4
    MaxFaults = 0
SPECIFICATION Spec
PROPERTIES
    NotAnnouncedTwice
