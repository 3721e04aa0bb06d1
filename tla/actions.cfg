CONSTANTS
    progress = progress
    again = again
    notice = notice
    fetch = fetch
    None = None
    Calls <- ThreeCalls
    Sends <- ThreeCalls
    Echo <- ThreeEcho
    Echoes <- TheirEchoes
    Notice = notice
    Conns = {k1}
    GatewayIsPrompt = FALSE
SPECIFICATION Spec
INVARIANTS
    WaiterIsRegistered
PROPERTIES
    ImplementsReceipts
    StopFinishes
CHECK_DEADLOCK FALSE
