CONSTANTS
    N = 3
    Pool = {t1,t2}
    MaxBoots = 3
    MaxKills = 1
    Resets = TRUE
SPECIFICATION FairSpec
INVARIANT TypeOK
INVARIANT BootSafety
PROPERTY ImplementsLeadership
PROPERTY BootsGetThrough
CHECK_DEADLOCK FALSE
