CONSTANTS
    daily = daily
    once = once
    None = None
    Schedules <- OneSchedule
    Occurrences <- RecurringOccurrences
    Grace = 1
    CountLimit = 3
    MaxConcurrent = 2
    MaxFailures = 2
    MaxHistory = 1
    MaxPerChat = 2
    MaxTime = 3
    MaxRuns = 3
    MaxManual = 1
    MaxCrashes = 1
    MaxReloads = 1
SPECIFICATION Spec
INVARIANTS
    RunningRowIsLive
    RunsExclusive
    CountersAddUp
CHECK_DEADLOCK FALSE
