CONSTANTS
    Cluster = {c1, c2, c3}
    MaxConcurrency = 1
    WantVersion = TRUE
    WantOperators = TRUE
    Identified = {c1, c2, c3}
    InitialMain = {c2, c3}
    InitialCanary = {c1}
    JobOutcomes = {"completed", "failed", "failedAgain"}
    Expiring = {"upgrade", "operators"}
    Editable = {}
    Faults = {"stale", "list", "create", "update", "crash"}
    MaxFaults = 1
    MaxEdits = 0
SPECIFICATION Spec
INVARIANTS
    TypeOK
    CompleteIsTrue
    OperatorsAfterUpgrade
    CompletionIsReal
    CanaryFirst
    OnlyGivenUpExceed
    NoWorkLeftBehind
PROPERTIES
    ImplementsRollout
CHECK_DEADLOCK FALSE
