SPECIFICATION Spec
CONSTANTS
    User = {u1, u2}
    Slot = {t1}
    Nobody = Nobody
    NoThread = NoThread
    MaxSessions = 1
    MaxEvents = 7
    MaxReplays = 1
    MaxRounds = 1
SYMMETRY UserSymmetry
INVARIANT TypeOK
INVARIANT MessagesOnceInOrder
INVARIANT FollowersOnce
CHECK_DEADLOCK FALSE
