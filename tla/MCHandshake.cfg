SPECIFICATION Spec
CONSTANTS
    Agents = {r1, r2, py}
    Python = {py}
    Offers = {"plain", "bad_token"}
    None = None
    MaxMissed = 1
    MaxSessions = 2
    MaxData = 1
    MaxStarts = 3
    MaxPings = 2
    MaxInbox = 2
INVARIANTS
    TypeOK
    NoReplyStorm
PROPERTIES
    RefreshMeansPeerAnswered
    DeadPeerExpires
CHECK_DEADLOCK FALSE
