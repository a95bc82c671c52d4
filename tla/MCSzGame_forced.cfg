CONSTANTS
    ChairCount = 3
    MinPlayers = 2
    MaxRound = 1
    MaxBureau = 2
    UnionRoom = TRUE
    CanTrust = TRUE
    ShortDelay = 1
    LongDelay = 3
    PourTime = 4
    Deals <- ThreeDeals
    Trusters = {0}
    MaxPours = 3
    MaxHasty = 0
SPECIFICATION Spec
CHECK_DEADLOCK FALSE
INVARIANT ComparingGoesOn
