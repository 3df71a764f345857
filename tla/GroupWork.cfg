CONSTANTS
    Cluster = {c1, c2}
    InitialMatches = {c1}
    Reports <- AgentReportsIn
    Faults = {"stale", "list", "placement", "works", "create", "delete", "update", "write", "crash"}
    MaxFaults = 1
    MaxEdits = 1
    MaxRelabels = 1
SPECIFICATION FairSpec
INVARIANTS
    TypeOK
    NothingLeftAfterDeletion
PROPERTIES
    CreatedIsKept
    DeletionCompletes
    DeselectedCleared
    NewlySelectedServed
    RecordFollowsWork
CHECK_DEADLOCK FALSE
