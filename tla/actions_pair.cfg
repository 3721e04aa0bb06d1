CONSTANTS
    progress = progress
    again = again
    notice = notice
    fetch = fetch
    None = None
    Calls <- SharedCalls
    Sends <- SharedCalls
    Echo <- SharedEcho
    Echoes = {progress}
    Notice = None
    Conns = {k1, k2}
    GatewayIsPrompt = FALSE
SPECIFICATION Spec
INVARIANTS
    TypeOK
    EntryIsLive
    WaiterIsRegistered
    AnsweredOverItsConnection
PROPERTIES
    ImplementsReceipts
CHECK_DEADLOCK FALSE
