CONSTANTS
    task = task
    old = old
    Paths <- OwnPaths
    Jobs <- OneJob
    Room = 1
    MaxReloads = 1
    Artifacts = {a}
    MaxItems = 2
    MaxChunks = 2
SPECIFICATION Spec
INVARIANTS
    CommittedIsDelivered
    SuccessIsComplete
    ThreadRunsAlone
    LiveWorkSurvives
PROPERTIES
    PressureHandled
    ReplyEnds
CHECK_DEADLOCK FALSE
