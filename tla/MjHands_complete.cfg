CONSTANTS
    Suits = 2
    Feng = 3
    RankCount = 4
    Zhong = 35
    MaxTiles = 14
    MaxGui = 8
    KeyDic <- NewTable
    KeyFengDic <- NewFengTable
    MaxHand = 11
SPECIFICATION Spec
CHECK_DEADLOCK FALSE
INVARIANT CompleteWins
