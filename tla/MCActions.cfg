CONSTANTS
    submission = submission
    retry = retry
    Clients <- MCClients
    Kinds = {"job", "exec"}
    Prompt = TRUE
    MaxCreations = 2
    MaxFaults = 2
SPECIFICATION ActionsSpec
INVARIANTS
    NotStartedTrue
    CancelledIsOver
PROPERTIES
    OperationKeepsContract
    OperationsEnd
CHECK_DEADLOCK FALSE
