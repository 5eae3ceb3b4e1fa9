SPECIFICATION Spec
CONSTANTS
    n1 = n1
    n2 = n2
    NodeIds = {n1, n2}
    NoQuota = NoQuota
    Threshold = 2
    Cooldown = 2
    Word = 8
    Specs <- MCSpecs
    MaxHeld = 2
    MaxFailures = 3
INVARIANTS
    LoadIsHeld
    BreakerTracksStreak
PROPERTIES
    RestedBeforeReuse
