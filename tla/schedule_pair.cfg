CONSTANTS
    daily = daily
    once = once
    None = None
    Schedules <- TwoSchedules
    Occurrences <- CompetingOccurrences
    Grace = 1
    CountLimit = 3
    MaxConcurrent = 1
    MaxFailures = 2
    MaxHistory = 1
    MaxPerChat = 2
    MaxTime = 3
    MaxRuns = 3
    MaxManual = 0
    MaxCrashes = 1
    MaxReloads = 0
SPECIFICATION Spec
PROPERTIES
    ImplementsLedger
    DueIsSettled
CHECK_DEADLOCK FALSE
