CONSTANTS
    None = None
    MaxMessages = 1
    MaxBatch = 1
    MaxReplies = 1
    Tasks = {1, 2, 3}
    Works = {1, 2, 3, 4}
    Eligible = {"allowed"}
    Configs = {"allowed", "denied"}
    Overrides = {"user", "owner"}
    MaxReloads = 1
    MaxChanges = 1
SPECIFICATION Spec
INVARIANTS
    OverrideHolds
CHECK_DEADLOCK FALSE
