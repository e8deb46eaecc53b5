SPECIFICATION FairSpec
CONSTANTS
    User = {u1, u2}
    Slot = {t1}
    Nobody = Nobody
    NoThread = NoThread
    MaxSessions = 1
    MaxEvents = 6
    MaxReplays = 0
    MaxRounds = 1
PROPERTY OnlyCrossingBlocks
CHECK_DEADLOCK FALSE
