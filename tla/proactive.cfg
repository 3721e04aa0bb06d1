CONSTANTS
    None = None
    MaxMessages = 3
    MaxBatch = 2
    MaxReplies = 2
    Tasks = {1, 2, 3}
    Works = {1, 2, 3, 4}
    Eligible = {"allowed"}
    Configs = {"allowed", "denied"}
    Overrides = {"user", "owner"}
    MaxReloads = 1
    MaxChanges = 1
SPECIFICATION Spec
INVARIANTS
    AnsweredOnce
    Accounted
    PartsAgree
PROPERTIES
    Settles
CHECK_DEADLOCK FALSE
