CONSTANTS
    Suits = 2
    Feng = 3
    RankCount = 3
    Zhong = 35
    MaxTiles = 14
    MaxGui = 8
    KeyDic <- NewTable
    KeyFengDic <- NewFengTable
    ChairCount = 3
    HandSize = 4
    Ma = 1
    Chunniunai = TRUE
    BaseScore = 1
    UnionRoom = FALSE
    Purse = 0
    MaxBureau = 3
    CanTrust = TRUE
    Decks <- Bureaus
    Trusters = {0}
    TestCards <- OneTestCard
    Namers = {2}
    NamedCards = {10, 12}
    MaxLate = 1
SPECIFICATION Spec
CHECK_DEADLOCK FALSE
INVARIANT TypeOK
INVARIANT OneClaim
INVARIANT SurplusTile
INVARIANT WinnerIsComplete
INVARIANT ScoresBalance
INVARIANT SettledOnce
INVARIANT StageIsTimed
