SPECIFICATION Spec
CONSTANTS
    Client = {c1, c2}
    User = {u1, u2}
    Earlier = {}
    Visitor = {u1, u2}
    None = None
    MaxSessions = 1
    MaxMessages = 2
    MaxPushes = 0
    MaxDeaths = 1
SYMMETRY ClientUserSymmetry
INVARIANT MessagesInOrder
CHECK_DEADLOCK FALSE
