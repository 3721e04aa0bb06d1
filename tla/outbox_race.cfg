CONSTANTS
    task = task
    old = old
    Paths <- AllPaths
    Jobs <- OneJob
    Room = 1
    MaxReloads = 0
    Artifacts = {a}
    MaxItems = 1
    MaxChunks = 1
SPECIFICATION Spec
INVARIANTS
    OutboxSurvives
CHECK_DEADLOCK FALSE
