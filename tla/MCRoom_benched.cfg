CONSTANTS
    u1 = u1
    u2 = u2
    u3 = u3
    u4 = u4
    u5 = u5
    Users = {u1, u2, u3, u4, u5}
    Poor = {}
    NoUser = NoUser
    MaxPlayerCount = 6
    MinPlayerCount = 2
    MaxBureau = 8
    CanWatch = TRUE
    CanEnterStarted = TRUE
    SchedulerMin = 4
    WatchLimit = 20
    ToChairs = {}
    MaxTimers = 1
    MaxAnswerTasks = 0
    MaxFaults = 0
SPECIFICATION Spec
CHECK_DEADLOCK FALSE
SYMMETRY Symmetry
PROPERTY ScheduledPlayersWereReady
