SPECIFICATION ReconcileSpec
CONSTANTS
    lnd = lnd
    mint = mint
    r1 = r1
    r2 = r2
    v1 = v1
    v2 = v2
    Absent = Absent
    Components <- OneComponent
    Revisions <- MCRevisions
    Rollouts <- MCRollouts
    Config <- MCConfig
    Unsupported <- MCUnsupported
    Requests <- MCRequests
    Keys <- MCKeys
    MaxGeneration = 3
    MaxIncarnation = 1
    Workers = {w1, w2}
    Recovery = none
    WatchLag = FALSE
    MaxFaults = 0
    Refusals = FALSE
SYMMETRY
    TaskSymmetry
INVARIANTS
    AppliedWasDelivered
PROPERTIES
    DeliveryNeverRegresses
\* A cell that was deleted and has no pending edit has no step left.
CHECK_DEADLOCK FALSE
