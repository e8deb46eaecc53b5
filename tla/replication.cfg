SPECIFICATION Spec
CONSTANTS
    N = 3
    Primary = 0
    Users = 2
    Pool = {t1, t2}
    FirstUp = {0, 1, 2}
    MaxSessions = 1
    MaxEvents = 3
    MaxJoins = 1
    MaxKills = 1
    Ending = {"raced", "missed", "died"}
    EndingJoined = {"overtaken"}
SYMMETRY ThreadSymmetry
INVARIANT TypeOK
INVARIANT CopiesAgree
INVARIANT JoinerCatchesUp
INVARIANT FollowAnswered
INVARIANT AnsweredMeansReplicated
INVARIANT TargetOnItsWay
CHECK_DEADLOCK FALSE
