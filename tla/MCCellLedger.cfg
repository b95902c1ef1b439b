SPECIFICATION Spec
CONSTANTS
    lnd = lnd
    mint = mint
    r1 = r1
    r2 = r2
    r3 = r3
    v1 = v1
    v2 = v2
    Absent = Absent
    Components <- MCComponents
    Revisions <- MCRevisions
    Rollouts <- MCRollouts
    Config <- MCConfig
    Unsupported <- MCUnsupported
    Requests <- MCRequests
    Keys = {k1, k2, k3}
    MaxGeneration = 4
    MaxIncarnation = 2
SYMMETRY KeySymmetry
INVARIANTS
    NoOperationUnderPendingEdit
    PinnedComponentsStable
    RetainedNeverDeployed
    EachKeySpentOnce
    OneIncarnationOnly
PROPERTIES
    FirstResultWins
    LeasesHold
\* The bound on incarnations ends a behaviour: the last purge has no successor.
CHECK_DEADLOCK FALSE
