SPECIFICATION Spec
CONSTANTS
    NodeIds = {n1, n2}
    NoQuota = NoQuota
    Threshold = 3
    Cooldown = 1
    Word = 16
    Rpcs = {r1, r2, r3}
    TaskIds = {t1, t2}
    Keys = {k1, k2}
    Required <- MCRequired
    Specs <- MCSpecs
    None = None
    BrokerMayFail = TRUE
SYMMETRY Symmetric
INVARIANTS
    Idempotent
    ScheduledHasNode
    DispatchAfterSchedule
    WatcherKeepsUp
PROPERTIES
    CanceledIsFinal
