SPECIFICATION Spec
CONSTANTS
    Facts = {p, q}
    Projects = {p}
    Private = {}
    MaxItems = 2
    None = None
    Jobs = {j1}
    Scheduled = {j1}
    MaxBatch = 1
    MaxReviews = 2
    MaxCommands = 0
INVARIANT ActiveHasEvidence
CHECK_DEADLOCK FALSE
