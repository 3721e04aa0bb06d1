CONSTANTS
    task = task
    old = old
    Paths <- AllPaths
    Jobs <- OneJob
    Room = 4
    MaxReloads = 0
    Artifacts = {a, b}
    MaxItems = 2
    MaxChunks = 2
SPECIFICATION Spec
INVARIANTS
    TypeOK
    CommittedIsDelivered
    SuccessIsComplete
CHECK_DEADLOCK FALSE
