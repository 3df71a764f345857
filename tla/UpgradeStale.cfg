CONSTANTS
    Cluster = {c1}
    MaxConcurrency = 1
    WantVersion = TRUE
    WantOperators = TRUE
    Identified = {c1}
    InitialMain = {c1}
    InitialCanary = {}
    JobOutcomes = {"completed", "failed"}
    Expiring = {"upgrade", "operators"}
    Editable = {}
    Faults = {"stale"}
    MaxFaults = 0
    MaxEdits = 0
SPECIFICATION OnlineSpec
PROPERTIES
    UpgradeSettles
CHECK_DEADLOCK FALSE
