CONSTANTS
    Cluster = {c1, c2}
    MaxConcurrency = 1
    WantVersion = TRUE
    WantOperators = TRUE
    Identified = {c1, c2}
    InitialMain = {c1, c2}
    InitialCanary = {}
    JobOutcomes = {"completed"}
    Expiring = {"upgrade"}
    Editable = {"main"}
    Faults = {"stale"}
    MaxFaults = 0
    MaxEdits = 2
SPECIFICATION Spec
SYMMETRY AnyCluster
INVARIANTS
    CompleteIsTrue
    OperatorsAfterUpgrade
    RunningBounded
    PolledUntilOver
PROPERTIES
    RunningStaysListed
    NeverStartsOver
CHECK_DEADLOCK FALSE
