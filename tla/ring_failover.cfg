CONSTANTS
    N = 3
    Pool = {t1,t2,t3}
    MaxBoots = 0
    MaxKills = 2
    Resets = TRUE
SPECIFICATION SteadySpec
INVARIANT AnnouncedIsPrimary
INVARIANT NamedIsPrimary
INVARIANT HighestWins
INVARIANT PrimaryWatchesNobody
INVARIANT VotersWatched
PROPERTY ElectionEnds
PROPERTY SomeoneLeads
CHECK_DEADLOCK FALSE
