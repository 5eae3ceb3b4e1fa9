SPECIFICATION Spec
CONSTANTS
    c1 = c1
    s1 = s1
    s2 = s2
    Backends = {"redis", "postgres"}
    Servers = {s1, s2}
    Callers = {c1, c2}
    ServerOf <- MCServerOf
    Keys = {pk}
    ChildKeys = {pk}
    Statuses = {"scheduled"}
    Nodes = {n1}
    None = None
    MaxTasks = 2
    MaxCalls = 3
    MaxFaults = 0
INVARIANTS
    OneTaskPerKey
CHECK_DEADLOCK FALSE
