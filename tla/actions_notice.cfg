CONSTANTS
    progress = progress
    again = again
    notice = notice
    fetch = fetch
    None = None
    Calls <- OnlyNotice
    Sends <- OnlyNotice
    Echo <- OnlyEcho
    Echoes <- OnlyNotice
    Notice = notice
    Conns = {k1}
    GatewayIsPrompt = TRUE
SPECIFICATION Spec
INVARIANTS
    ConfirmedInTime
CHECK_DEADLOCK FALSE
