CONSTANTS
    chat = chat
    code = code
    scheduled = scheduled
    search = search
    Jobs <- ThreeJobs
    Kind <- OneOfEach
    FirstLimit = 1
    Limits = {1, 2}
    MaxFinished = 1
    MaxReloads = 1
SPECIFICATION Spec
PROPERTIES
    StopIsFinal
CHECK_DEADLOCK FALSE
