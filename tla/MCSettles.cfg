SPECIFICATION FairSpec
CONSTANTS
    lnd = lnd
    mint = mint
    r1 = r1
    r2 = r2
    v1 = v1
    v2 = v2
    Absent = Absent
    Components <- MCComponents
    Revisions <- MCRevisions
    Rollouts <- MCRollouts
    Config <- MCConfig
    Unsupported <- MCUnsupported
    Requests <- MCRequests
    Keys <- MCKeys
    MaxGeneration = 2
    MaxIncarnation = 1
    Workers = {recovery}
    Recovery = recovery
    WatchLag = TRUE
    MaxFaults = 1
    Refusals = TRUE
PROPERTIES
    CellKeepsContract
    
\* A cell that was deleted and has no pending edit has no step left.
CHECK_DEADLOCK FALSE
