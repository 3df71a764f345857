CONSTANTS
    etcd = etcd
    acm = acm
    cetcd = cetcd
    Operator = {etcd, acm, cetcd}
    PartOf <- Texts
    Selections <- Lists
    WaitTime = 2
    SweepTime = 2
    MaxPlans = 2
    MaxFaults = 1
SPECIFICATION Spec
INVARIANTS
    ExcludedNotApproved
CHECK_DEADLOCK FALSE
