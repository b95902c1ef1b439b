SPECIFICATION SchedulerSpec
CONSTANTS
    large = large
    small = small
    a = a
    w1 = w1
    w2 = w2
    r1 = r1
    r2 = r2
    b = b
    Cells = {large, small}
    Components = {a, b}
    Eligible <- Changing
    Workers = {w1, w2}
    NoWorker = NoWorker
    Runtimes = {r1, r2}
    NoTarget = NoTarget
    MaxInflight = 3
    MaxPerWorker = 2
    BatchSize = 1
    Interval <- Short
    JobTimeout = 1
    Ttl = 1
    MaxSequence = 3
SYMMETRY Symmetry
INVARIANTS
    EveryTargetScheduled
    LabelsAreTrue
    CapacityHolds
PROPERTIES
    YoungerStays
    NobodyOvertaken
