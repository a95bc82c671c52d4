CONSTANTS
    ChairCount = 3
    MinPlayers = 2
    MaxRound = 1
    MaxBureau = 2
    UnionRoom = FALSE
    CanTrust = TRUE
    ShortDelay = 1
    LongDelay = 3
    PourTime = 4
    Deals <- ThreeDeals
    Trusters = {0}
    MaxPours = 3
    MaxHasty = 1
SPECIFICATION FairSpec
CHECK_DEADLOCK FALSE
INVARIANT TypeOK
INVARIANT StageIsTimed
INVARIANT WinnerRemains
INVARIANT SettledOnce
INVARIANT RoundsEven
PROPERTY LosersDoNotPour
PROPERTY TurnPasses
PROPERTY ImplementsRound
PROPERTY StagesEnd
