SPECIFICATION Spec
CONSTANTS
    a = a
    b = b
    c = c
    r1 = 1
    Users = {a, b, c}
    NoUser = NoUser
    RoomIds = {1, 2, 3}
    NoRoom = 0
    UnionIdBegin = 10
    InviteIdBegin = 0
    Slots = {1, 2}
    MaxFaults = 1
    MaxUnionCount = 3
    RoomSize = 2
    Starts <- AllStarts
    MaxAsked = 3
INVARIANT TypeOK
INVARIANT LockHasHolder
INVARIANT OneHolder
INVARIANT NoOverdraft
INVARIANT BooksBalance
INVARIANT MembershipKept
INVARIANT IdsDiffer
INVARIANT OneRoomEach
INVARIANT TakesOnce
INVARIANT SettingsKept
