CONSTANTS
    u1 = u1
    u2 = u2
    Users = {u1, u2}
    Poor = {}
    NoUser = NoUser
    MaxPlayerCount = 2
    MinPlayerCount = 2
    MaxBureau = 2
    CanWatch = TRUE
    CanEnterStarted = TRUE
    SchedulerMin = 1
    WatchLimit = 3
    ToChairs = {1, 2}
    MaxTimers = 1
    MaxAnswerTasks = 0
    MaxFaults = 0
SPECIFICATION Spec
CHECK_DEADLOCK FALSE
SYMMETRY Symmetry
INVARIANT RecordingReturns
