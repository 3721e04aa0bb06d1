CONSTANTS
    progress = progress
    again = again
    notice = notice
    fetch = fetch
    None = None
    Calls <- NoticeCalls
    Sends = {notice}
    Echo <- OwnEcho
    Echoes <- NoticeCalls
    Notice = notice
    Conns = {k1, k2}
    GatewayIsPrompt = FALSE
SPECIFICATION Spec
PROPERTIES
    EveryCallEnds
    StopFinishes
CHECK_DEADLOCK FALSE
