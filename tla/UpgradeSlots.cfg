CONSTANTS
    Cluster = {c1, c2}
    MaxConcurrency = 1
    WantVersion = TRUE
    WantOperators = TRUE
    Identified = {c1, c2}
    InitialMain = {c1, c2}
    InitialCanary = {}
    JobOutcomes = {"completed", "failed"}
    Expiring = {"upgrade", "operators"}
    Editable = {}
    Faults = {}
    MaxFaults = 0
    MaxEdits = 0
SPECIFICATION OnlineSpec
PROPERTIES
    FailedAreIgnored
CHECK_DEADLOCK FALSE
