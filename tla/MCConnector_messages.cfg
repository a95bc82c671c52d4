SPECIFICATION Spec
CONSTANTS
    g1 = g1
    g2 = g2
    w1 = w1
    w2 = w2
    None = None
    Cids = {g1, g2}
    Objects = {o1, o2}
    Workers = {w1, w2}
    WorkerOf <- TwoWorkers
    Uids = {u1, u2}
    MaxConnections = 1
    QueueSize = 1
    MaxMessages <- Talkative
    MaxLost = 1
INVARIANT SlotsAreOwned
INVARIANT OrderKept
INVARIANT AnswersReachOwner
INVARIANT RoomIdIsNewest
SYMMETRY Interchangeable
