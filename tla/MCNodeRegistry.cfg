SPECIFICATION Spec
CONSTANTS
    NodeIds = {n1, n2}
    CapSets <- MCCapSets
    None = None
    TTL = 2
    CleanupInterval = 1
    SyncInterval = 2
    MaxLate = 1
INVARIANTS
    NoSilentTarget
PROPERTIES
    LiveNodeIsKept
    SilentNodeLeaves
    DeclaredIsScheduled
