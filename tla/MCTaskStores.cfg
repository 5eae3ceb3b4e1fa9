SPECIFICATION Spec
CONSTANTS
    c1 = c1
    s1 = s1
    s2 = s2
    Backends = {"redis", "postgres"}
    Servers = {s1, s2}
    Callers = {c1, c2}
    ServerOf <- MCServerOf
    Keys = {pk}
    ChildKeys = {pk}
    Statuses = {"scheduled"}
    Nodes = {n1}
    None = None
    MaxTasks = 3
    MaxCalls = 3
    MaxFaults = 1
INVARIANTS
    RegisterKeepsItsWord
    ReferencesAreStored
    SubmittedOnce
PROPERTIES
    SubmittedIsHeard
    PostgresKeepsNode
    IsTaskTable
CHECK_DEADLOCK FALSE
