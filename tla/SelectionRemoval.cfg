CONSTANTS
    Cluster = {c1, c2, c3, c4}
SPECIFICATION Spec
INVARIANTS
    OnlySelectedRemain
CHECK_DEADLOCK FALSE
