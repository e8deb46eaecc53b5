SPECIFICATION FairSpec
CONSTANTS
    Client = {c1}
    User = {u1}
    Earlier = {}
    Visitor = {u1}
    None = None
    MaxSessions = 1
    MaxMessages = 2
    MaxPushes = 1
    MaxDeaths = 1
PROPERTY EveryMessageServed
PROPERTY Reconnects
CHECK_DEADLOCK FALSE
