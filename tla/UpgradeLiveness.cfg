CONSTANTS
    Cluster = {c1, c2}
    MaxConcurrency = 1
    WantVersion = TRUE
    WantOperators = TRUE
    Identified = {c1, c2}
    InitialMain = {c1, c2}
    InitialCanary = {c1}
    JobOutcomes = {"completed", "failed"}
    Expiring = {"upgrade", "operators"}
    Editable = {}
    Faults = {"list", "create", "delete"}
    MaxFaults = 1
    MaxEdits = 0
SPECIFICATION FairSpec
PROPERTIES
    UpgradeSettles
    GoesQuiet
    OperatorsSettle
    CompletesUnlessFailed
CHECK_DEADLOCK FALSE
