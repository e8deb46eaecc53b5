SPECIFICATION Spec
CONSTANTS
    Client = {c1, c2, c3}
    User = {u1, u2}
    Earlier = {u2}
    Visitor = {u1}
    None = None
    MaxSessions = 2
    MaxMessages = 0
    MaxPushes = 2
    MaxDeaths = 0
SYMMETRY ClientSymmetry
INVARIANT TypeOK
INVARIANT SessionTable
INVARIANT PushFindsUser
INVARIANT PushesInOrder
CHECK_DEADLOCK FALSE
