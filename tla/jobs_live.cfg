CONSTANTS
    chat = chat
    code = code
    scheduled = scheduled
    search = search
    Jobs <- ThreeCompeting
    Kind <- Competing
    FirstLimit = 1
    Limits = {1}
    MaxFinished = 1
    MaxReloads = 0
SPECIFICATION Spec
PROPERTIES
    ReplyFollows
CHECK_DEADLOCK FALSE
