CONSTANTS
    N = 3
    Pool = {t1,t2}
    MaxBoots = 0
    MaxKills = 1
    Resets = TRUE
SPECIFICATION FELinkSpec
PROPERTY FrontEndReconnects
CHECK_DEADLOCK FALSE
