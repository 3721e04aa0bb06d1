CONSTANTS
    chat = chat
    code = code
    scheduled = scheduled
    search = search
    Jobs <- ThreeJobs
    Kind <- OneOfEach
    FirstLimit = 1
    Limits = {1}
    MaxFinished = 1
    MaxReloads = 1
SPECIFICATION Spec
INVARIANTS
    RunningWithinLimit
    ListedWhileLive
    ActiveIsOwned
PROPERTIES
    StoppedTaskStays
CHECK_DEADLOCK FALSE
