CONSTANTS
    u1 = u1
    u2 = u2
    u3 = u3
    Users = {u1, u2, u3}
    Poor = {}
    NoUser = NoUser
    MaxPlayerCount = 3
    MinPlayerCount = 2
    MaxBureau = 2
    CanWatch = TRUE
    CanEnterStarted = TRUE
    SchedulerMin = 1
    WatchLimit = 3
    ToChairs = {1, 2}
    MaxTimers = 2
    MaxAnswerTasks = 0
    MaxFaults = 0
SPECIFICATION Spec
CHECK_DEADLOCK FALSE
SYMMETRY Symmetry
INVARIANT CountMatchesUsers
