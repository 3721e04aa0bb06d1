CONSTANTS
    group = group
    private = private
    m1 = m1
    m2 = m2
    m3 = m3
    Unset = Unset
    Background = background
    Requests = {request}
    Scopes <- OneScope
    Sources <- GroupMessages
    ScopeOf <- OfGroup
    Threshold = 2
    Minimum = 1
    MaxAttempts = 1
    MaxInterrupts = 1
    MaxToggles = 2
SPECIFICATION ReviewSpec
INVARIANTS
    InputIsOwn
    SourcesRemain
PROPERTIES
    CancelledNeverCommits
    BacklogIsReviewed
    StopFinishes
CHECK_DEADLOCK FALSE
