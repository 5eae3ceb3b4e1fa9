SPECIFICATION Spec
CONSTANTS
    Fns = {"f", "g"}
    Channels = {"c"}
    Programs <- MCPrograms
    None = None
    MaxTasks = 4
INVARIANTS
    AwaitedOnce
    ChannelKeepsOrder
PROPERTIES
    AwaitsEnd
CHECK_DEADLOCK FALSE
