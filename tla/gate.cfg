CONSTANTS
    t1 = t1
    t2 = t2
    t3 = t3
    None = None
    Tasks <- MCTasks
    MaxDepth <- MCMaxDepth
SPECIFICATION GateSpec
INVARIANTS
    LeaseIsOwn
PROPERTIES
    MaintenanceNotStarved
    ActivityResumes
    ImplementsLease
