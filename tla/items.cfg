SPECIFICATION Spec
CONSTANTS
    Facts = {p, s, q}
    Projects = {p, s}
    Private = {s}
    MaxItems = 3
    None = None
    Jobs = {j1, j2}
    Scheduled = {j1}
    MaxBatch = 2
    MaxReviews = 1
    MaxCommands = 2
INVARIANTS SensitivityAgrees
PROPERTIES NoLostNote ReviewsKeep
CHECK_DEADLOCK FALSE
