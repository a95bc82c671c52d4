CONSTANTS
    u1 = u1
    u2 = u2
    u3 = u3
    Users = {u1, u2, u3}
    Poor = {}
    NoUser = NoUser
    MaxPlayerCount = 3
    MinPlayerCount = 2
    MaxBureau = 2
    CanWatch = TRUE
    CanEnterStarted = TRUE
    SchedulerMin = 2
    WatchLimit = 3
    ToChairs = {3}
    MaxTimers = 1
    MaxAnswerTasks = 0
    MaxFaults = 1
SPECIFICATION Spec
CHECK_DEADLOCK FALSE
SYMMETRY Symmetry
INVARIANT CountBoundedByUsers
INVARIANT DbMatchesMembership
INVARIANT UnreadyIsTimed
INVARIANT BureausBounded
INVARIANT PlayingOnlyInGame
PROPERTY PlayersStay
PROPERTY DismissedForEver
