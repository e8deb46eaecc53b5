SPECIFICATION FairSpec
CONSTANTS
    LINES = 18
    MaxText = 2
    CommandLength = 1
    None = None
    MaxKeys = 3
    MaxPushes = 2
INVARIANT TypeOK
INVARIANT MessagesKept
INVARIANT TimelineShowsNewest
PROPERTY EveryMessageShown
CHECK_DEADLOCK FALSE
