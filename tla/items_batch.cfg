SPECIFICATION Spec
CONSTANTS
    Facts = {p, q}
    Projects = {p}
    Private = {}
    MaxItems = 3
    None = None
    Jobs = {j1}
    Scheduled = {j1}
    MaxBatch = 2
    MaxReviews = 2
    MaxCommands = 0
INVARIANT BatchApplies
CHECK_DEADLOCK FALSE
