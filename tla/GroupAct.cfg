CONSTANTS
    a1 = a1
    a2 = a2
    Cluster = {c1}
    Action = {a1, a2}
    View = {v1}
    InitialMatches = {c1}
    Specs <- ActionsOrViews
    SpecEdits <- OneChange
    Faults = {"stale", "list", "placement", "actions", "views", "request", "delete", "write", "backoff", "crash"}
    MaxEvents = 2
    MaxEdits = 1
SPECIFICATION FairSpec
INVARIANTS
    TypeOK
    RunsOnce
    NothingLeftAfterDeletion
PROPERTIES
    OutcomeReported
    EveryActionRuns
    ViewsFollow
    DeselectedCleared
    DeletionCompletes
CHECK_DEADLOCK FALSE
