CONSTANTS
    t1 = t1
    p1 = p1
    s1 = s1
    h1 = h1
    a = a
    b = b
    Tasks <- MCTasks
    Partitions <- MCPartitions
    Heals <- MCHeals
    Standing <- MCStanding
    owner <- MCOwner
    target <- MCTarget
    Components <- MCComponents
    ends <- MCEnds
    Nobody = Nobody
    Outlive = {"create"}
    MaxFaults = 1
SPECIFICATION TasksSpec
INVARIANTS
    
    UndispatchedNeverActs
    CleanupReportTrue
    
PROPERTIES
    LeasesEnd
CHECK_DEADLOCK FALSE
