CONSTANTS
    TraceMax = 5
    TraceEnabled = TRUE
    MaxRuntime = 4
    MaxEvents = 2
    Events <- MCEvents
    Files = {"image"}
    Models = {"auto", "chosen"}
SPECIFICATION Spec
INVARIANTS
    TraceIsHarmless
CHECK_DEADLOCK FALSE
