SPECIFICATION Spec
CONSTANTS
    NodeIds = {n1}
    NoQuota = NoQuota
    Threshold = 3
    Cooldown = 1
    Word = 16
    Rpcs = {r1, r2, r3}
    TaskIds = {t1}
    Keys = {k1}
    Required <- MCRequired
    Specs <- MCSpecs
    None = None
    BrokerMayFail = FALSE
INVARIANTS
    CancelFreesOwnSlot
