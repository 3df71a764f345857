CONSTANTS
    Cluster = {c1, c2, c3, c4}
SPECIFICATION Spec
INVARIANTS
    LoopMatchesClosedForm
    NothingElseIsRemoved
CHECK_DEADLOCK FALSE
