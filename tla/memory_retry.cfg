CONSTANTS
    group = group
    private = private
    m1 = m1
    m2 = m2
    m3 = m3
    Unset = Unset
    Background = background
    Requests = {request}
    Scopes <- TwoScopes
    Sources <- OneEach
    ScopeOf <- OfBoth
    Threshold = 1
    Minimum = 1
    MaxAttempts = 1
    MaxInterrupts = 1
    MaxToggles = 0
SPECIFICATION ReviewSpec
PROPERTIES
    RetriedLater
CHECK_DEADLOCK FALSE
