----------------------------- MODULE GameUnions -----------------------------
(***************************************************************************)
(* The unions of one game server, their rooms, red envelopes (hongBao) and *)
(* settings: game/handler/union.go, unionMgr.go and proxy.go, and          *)
(* game/logic/union_manager.go and union.go.                               *)
(*                                                                         *)
(* A union is loaded by the first message about it and then answers from   *)
(* memory.  Its lock is held only where rooms are created and dismissed.   *)
(* What happens inside a room is the module Room: here a room is its users *)
(* and every visit to it is one step.                                      *)
(*                                                                         *)
(* Left out: the queries; RemoveRoomRuleList (the database refuses its     *)
(* update); the hours of red envelopes, and the shares (one each).         *)
(***************************************************************************)
EXTENDS UserDocs

CONSTANT RoomSize   \* chairs of a room

VARIABLES
    game,      \* the UnionManager
    session    \* roomId of the users' sessions at the connector

PlainUnion == 1   \* the union of rooms without one

\* The requests of unionMgr.go, and the setting each works on.
SettingOf == [UpdateOpeningStatus |-> "opening", UpdateUnionNotice |-> "notice",
              UpdateLotteryStatus |-> "lottery", AddRoomRuleList |-> "rules",
              HongBaoSetting |-> "hongBao"]
SettingOps == DOMAIN SettingOf

\* The steps of each handler, in their order.
CreateRoomSteps == <<"findUser", "inRoom", "getUnion", "createRoom", "storeRoom",
                     "storeServer">>
JoinRoomSteps == <<"proxy", "rejoin", "findUser", "joinRoom", "storeRoom", "storeServer">>
QuickJoinSteps == <<"findUser", "inRoom", "getUnion", "quickJoin", "storeRoom",
                    "storeServer", "panicGame">>
GetHongBaoSteps == <<"getUnion", "checkHongBao", "keepUid", "creditHongBao",
                     "recordHongBao", "storeUid">>
StoreThenCache == <<"getUnion", "setting", "storeSetting", "cacheSetting">>
CacheThenStore == <<"getUnion", "setting", "storeSetting">>

GameSteps == [CreateRoom |-> CreateRoomSteps, JoinRoom |-> JoinRoomSteps,
              QuickJoin |-> QuickJoinSteps, GetHongBao |-> GetHongBaoSteps,
              LeaveRoom |-> <<"leave">>, DismissRoom |-> <<"getUnion", "dismiss">>,
              UpdateOpeningStatus |-> StoreThenCache, UpdateUnionNotice |-> StoreThenCache,
              AddRoomRuleList |-> StoreThenCache, HongBaoSetting |-> StoreThenCache,
              UpdateLotteryStatus |-> CacheThenStore]
GameOps == DOMAIN GameSteps

UnionValue == [id: Nat,
               data: BOOLEAN,                       \* unionData is not nil
               owner: Users \cup {NoUser}, set: Settings, list: BOOLEAN, uids: Seq(Users),
               rooms: UNION {[ids -> SUBSET Users] : ids \in SUBSET RoomIds}]

\* Every value ever made, and the handle of the one the manager has of a union.
NewUnionManager == [values |-> <<>>, unionList |-> <<>>]

Known == {game.unionList[x] : x \in DOMAIN game.unionList}
Value(s) == game.values[reqs[s].handle]
WithRooms(g, h, rooms) == [g EXCEPT !.values[h].rooms = rooms]

\* A map with one more key, or another value of one.
With(map, key, value) ==
    [k \in DOMAIN map \cup {key} |-> IF k = key THEN value ELSE map[k]]

\* GetRoomById and getUnionByRoomID look through the values the manager has.
Holding(id) == {h \in Known : id \in DOMAIN game.values[h].rooms}
IsUserInRoom(u, id) == \E h \in Holding(id) : u \in game.values[h].rooms[id]

\* The server restarts without unions and rooms; the documents stay.
GamePanics ==
    LET lost == {s \in Slots : reqs[s] # Idle /\ reqs[s].op \in GameOps}
    IN /\ reqs' = [s \in Slots |-> IF s \in lost THEN Idle ELSE reqs[s]]
       /\ failed' = failed \cup {reqs[s].uid : s \in lost}
       /\ game' = NewUnionManager
       /\ UNCHANGED <<db, faults, session>>

InMemory == Calm /\ UNCHANGED <<db, session>>
InDocs == Calm /\ UNCHANGED <<game, session>>

-----------------------------------------------------------------------------
(* GetUnion: looks, loads and keeps, its lock is released before it looks.  *)

\* Mutant: the manager keeps the union before it is made.
GetUnionEarly(s) ==
    /\ At(s, "getUnion")
    /\ LET r == reqs[s]
       IN IF r.union \in DOMAIN game.unionList
          THEN GoOn(s, [r EXCEPT !.handle = game.unionList[r.union]])
          ELSE Then(s, r, <<"keepUnion", "init">> \o Tail(r.todo))
    /\ UNCHANGED game /\ InMemory

GetUnion(s) ==
    /\ At(s, "getUnion")
    /\ LET r == reqs[s]
       IN IF r.union \in DOMAIN game.unionList
          THEN GoOn(s, [r EXCEPT !.handle = game.unionList[r.union]])
          ELSE Then(s, r, <<"init", "keepUnion">> \o Tail(r.todo))
    /\ UNCHANGED game /\ InMemory

NilValue(x) == [id |-> x, data |-> FALSE, owner |-> NoUser,
                set |-> [opening |-> FALSE, notice |-> FALSE, lottery |-> FALSE,
                         rules |-> 0, hongBao |-> FALSE],
                list |-> FALSE, uids |-> <<>>, rooms |-> <<>>]
LoadedValue(x) ==
    IF x = PlainUnion \/ UnionAt(x) = 0 THEN NilValue(x)
    ELSE [id |-> x, data |-> TRUE, owner |-> UnionOf(x).owner, set |-> UnionOf(x).set,
          list |-> UnionOf(x).list, uids |-> UnionOf(x).uids, rooms |-> <<>>]

NewValue(s, value) ==
    /\ game' = [game EXCEPT !.values = Append(@, value)]
    /\ GoOn(s, [reqs[s] EXCEPT !.handle = Len(game.values) + 1])

InitUnion(s) ==
    /\ At(s, "init")
    /\ NewValue(s, LoadedValue(reqs[s].union))
    /\ InMemory

KeepUnion(s) ==
    /\ At(s, "keepUnion")
    /\ game' = [game EXCEPT !.unionList = With(@, reqs[s].union, reqs[s].handle)]
    /\ GoOn(s, reqs[s])
    /\ InMemory

-----------------------------------------------------------------------------
(* Rooms. *)

FindUserData(s) ==
    /\ AtOp(s, GameOps, "findUser")
    /\ GoOn(s, [reqs[s] EXCEPT !.unions = UnionsOf(reqs[s].uid)])
    /\ UNCHANGED db /\ InDocs

\* Mutant: a user who is in a room may make another.
InRoomGoesOn(s) == At(s, "inRoom") /\ GoOn(s, reqs[s]) /\ UNCHANGED game /\ InMemory

InRoom(s) ==
    /\ At(s, "inRoom")
    /\ IF IsUserInRoom(reqs[s].uid, reqs[s].sess) THEN Refuse(s) ELSE GoOn(s, reqs[s])
    /\ UNCHANGED game /\ InMemory

\* CreateRoomId draws numbers until no room has the one it drew.
FreeRoomIds == {id \in RoomIds : Holding(id) = {}}

\* A creator who may not enter leaves an empty room.
CreateRoom(s) ==
    /\ At(s, "createRoom")
    /\ \E id \in FreeRoomIds, enters \in BOOLEAN :
          LET r == reqs[s]
              users == IF enters THEN {r.uid} ELSE {}
          IN /\ game' = WithRooms(game, r.handle, With(Value(s).rooms, id, users))
             /\ IF enters THEN GoOn(s, [r EXCEPT !.n = id]) ELSE Refuse(s)
    /\ InMemory

\* Proxy: Redis knows on which server a room is.
Proxy(s) ==
    /\ At(s, "proxy")
    /\ IF reqs[s].n \in db.servers THEN GoOn(s, reqs[s]) ELSE Refuse(s)
    /\ UNCHANGED db /\ InDocs

Rejoin(s) ==
    /\ At(s, "rejoin")
    /\ LET r == reqs[s]
       IN GoOn(s, IF IsUserInRoom(r.uid, r.sess) THEN [r EXCEPT !.n = r.sess] ELSE r)
    /\ UNCHANGED game /\ InMemory

\* UserEntryRoom of a room: a user who is in it does not store it again.
Enters(s, h, id, steps) ==
    LET r == reqs[s]
        v == game.values[h]
    IN \/ v.id \notin r.unions \cup {PlainUnion} /\ Refuse(s) /\ UNCHANGED game
       \/ /\ v.id \in r.unions \cup {PlainUnion}
          /\ \/ /\ r.uid \in v.rooms[id]
                /\ Then(s, [r EXCEPT !.n = id], Tail(steps)) /\ UNCHANGED game
             \/ /\ r.uid \notin v.rooms[id]
                /\ game' = WithRooms(game, h, [v.rooms EXCEPT ![id] = @ \cup {r.uid}])
                /\ Then(s, [r EXCEPT !.n = id], steps)

JoinRoom(s) ==
    /\ At(s, "joinRoom")
    /\ \/ Holding(reqs[s].n) = {} /\ Refuse(s) /\ UNCHANGED game
       \/ \E h \in Holding(reqs[s].n) :
             LET users == game.values[h].rooms[reqs[s].n]
             IN IF Cardinality(users) = RoomSize /\ reqs[s].uid \notin users
                THEN Refuse(s) /\ UNCHANGED game
                ELSE Enters(s, h, reqs[s].n, Tail(reqs[s].todo))
    /\ InMemory

\* Without an error QuickJoin returns nil, which its handler reads (panicGame);
\* a room it makes has no UserService to store its user with.
QuickJoin(s) ==
    /\ At(s, "quickJoin")
    /\ LET r == reqs[s]
           v == Value(s)
           open == {id \in DOMAIN v.rooms : Cardinality(v.rooms[id]) < RoomSize}
       IN \/ ~v.data /\ GamePanics
          \/ v.data /\ v.set.rules = 0 /\ Refuse(s) /\ UNCHANGED game /\ InMemory
          \/ /\ v.data /\ v.set.rules > 0
             /\ \E id \in open : Enters(s, r.handle, id, Tail(r.todo))
             /\ InMemory
          \/ v.data /\ v.set.rules > 0 /\ GamePanics

StoreRoom(s) ==
    /\ At(s, "storeRoom")
    /\ db' = [db EXCEPT !.users[reqs[s].uid].room = reqs[s].n]
    /\ GoOn(s, reqs[s]) /\ InDocs

StoreServer(s) ==
    /\ At(s, "storeServer")
    /\ session' = [session EXCEPT ![reqs[s].uid] = reqs[s].n]
    /\ db' = [db EXCEPT !.servers = @ \cup {reqs[s].n}]
    /\ GoOn(s, reqs[s])
    /\ Calm /\ UNCHANGED game

PanicGame(s) == At(s, "panicGame") /\ GamePanics

\* userLeaveRoom; the last user takes the room away with him.
Leave(s) ==
    /\ At(s, "leave")
    /\ LET r == reqs[s]
       IN \/ ~IsUserInRoom(r.uid, r.sess) /\ UNCHANGED <<game, db>>
          \/ \E h \in Holding(r.sess) :
                LET rooms == game.values[h].rooms
                    left == rooms[r.sess] \ {r.uid}
                IN /\ r.uid \in rooms[r.sess]
                   /\ db' = [db EXCEPT !.users[r.uid].room = NoRoom]
                   /\ game' = WithRooms(game, h,
                         IF left = {} THEN Restrict(rooms, DOMAIN rooms \ {r.sess})
                         ELSE [rooms EXCEPT ![r.sess] = left])
    /\ Refuse(s) /\ Calm /\ UNCHANGED session

Dismiss(s) ==
    /\ At(s, "dismiss")
    /\ LET r == reqs[s]
           rooms == Value(s).rooms
       IN \/ (Value(s).owner # r.uid \/ r.n \notin DOMAIN rooms) /\ UNCHANGED <<game, db>>
          \/ /\ Value(s).owner = r.uid /\ r.n \in DOMAIN rooms
             /\ db' = [db EXCEPT !.users = [u \in Users |->
                          IF u \in rooms[r.n] THEN [@[u] EXCEPT !.room = NoRoom] ELSE @[u]]]
             /\ game' = WithRooms(game, r.handle, Restrict(rooms, DOMAIN rooms \ {r.n}))
    /\ Refuse(s) /\ Calm /\ UNCHANGED session

-----------------------------------------------------------------------------
(* Red envelopes. *)

\* Mutant: who took a share is not looked up.
CheckHongBaoStatus(s) ==
    /\ At(s, "checkHongBao")
    /\ IF Value(s).data /\ Value(s).set.hongBao /\ Value(s).list
       THEN GoOn(s, reqs[s]) ELSE Refuse(s)
    /\ UNCHANGED game /\ InMemory

CheckHongBao(s) ==
    /\ At(s, "checkHongBao")
    /\ LET v == Value(s)
       IN IF v.data /\ v.set.hongBao /\ v.list /\ reqs[s].uid \notin ToSet(v.uids)
          THEN GoOn(s, reqs[s]) ELSE Refuse(s)
    /\ UNCHANGED game /\ InMemory

\* The list without the share is not kept.
KeepUid(s) ==
    /\ At(s, "keepUid")
    /\ game' = [game EXCEPT !.values[reqs[s].handle].uids = Append(@, reqs[s].uid)]
    /\ GoOn(s, reqs[s]) /\ InMemory

\* Who is not in the union is not updated, and the handler reads nil.
CreditHongBao(s) ==
    /\ At(s, "creditHongBao")
    /\ LET r == reqs[s]
       IN \/ ~InUnion(r.uid, r.union) /\ GamePanics
          \/ /\ InUnion(r.uid, r.union)
             /\ db' = IncScore(db, r.uid, r.union, 1)
             /\ GoOn(s, r) /\ InDocs

RecordHongBao(s) ==
    /\ At(s, "recordHongBao")
    /\ db' = [db EXCEPT !.changes[reqs[s].uid] = @ + 1]
    /\ GoOn(s, reqs[s]) /\ InDocs

StoreUid(s) ==
    /\ At(s, "storeUid")
    /\ LET x == reqs[s].union
       IN db' = [db EXCEPT !.unions[UnionAt(x)] =
                    [UnionOf(x) EXCEPT !.list = Value(s).list,
                                       !.uids = Append(@, reqs[s].uid)]]
    /\ GoOn(s, reqs[s]) /\ InDocs

-----------------------------------------------------------------------------
(* Settings: a setting that is as wanted is left alone.  The lottery's and  *)
(* the lists of red envelopes change in memory first, the others last.      *)

Wanted(r) == r.n = 1
Changed(s) ==
    LET v == Value(s)
        r == reqs[s]
    IN CASE r.op = "AddRoomRuleList" -> TRUE
         [] r.op = "HongBaoSetting" -> ~(Wanted(r) /\ v.list)
         [] OTHER -> v.set[SettingOf[r.op]] # Wanted(r)

SetInMemory(v, r) ==
    CASE r.op = "UpdateLotteryStatus" -> [v EXCEPT !.set.lottery = Wanted(r)]
      [] r.op = "HongBaoSetting" -> [v EXCEPT !.list = Wanted(r), !.uids = <<>>]
      [] OTHER -> v

Setting(s) ==
    /\ At(s, "setting")
    /\ LET r == reqs[s]
           v == Value(s)
       IN \/ (v.owner # r.uid \/ ~Changed(s)) /\ Refuse(s) /\ UNCHANGED game
          \/ /\ v.owner = r.uid /\ Changed(s)
             /\ game' = [game EXCEPT !.values[r.handle] = SetInMemory(v, r)]
             /\ GoOn(s, r)
    /\ InMemory

\* Mutant: the union in memory is saved as a whole.
SetInDocWhole(d, r) ==
    LET set == game.values[r.handle].set
    IN IF r.op = "AddRoomRuleList" THEN [d EXCEPT !.set = [set EXCEPT !.rules = @ + 1]]
       ELSE [d EXCEPT !.set = [set EXCEPT ![SettingOf[r.op]] = Wanted(r)]]

\* AddRoomRuleList and UpdateRoomRuleList get the new list back.
SetInDoc(d, r) ==
    CASE r.op = "AddRoomRuleList" -> [d EXCEPT !.set.rules = @ + 1]
      [] r.op = "HongBaoSetting" ->
            [d EXCEPT !.set.hongBao = Wanted(r), !.list = Wanted(r), !.uids = <<>>]
      [] OTHER -> [d EXCEPT !.set[SettingOf[r.op]] = Wanted(r)]

StoreSetting(s) ==
    /\ At(s, "storeSetting")
    /\ LET r == reqs[s]
           d == SetInDoc(UnionOf(r.union), r)
       IN /\ db' = [db EXCEPT !.unions[UnionAt(r.union)] = d]
          /\ GoOn(s, [r EXCEPT !.id = d.set.rules])
    /\ InDocs

CacheSetting(s) ==
    /\ At(s, "cacheSetting")
    /\ LET r == reqs[s]
       IN game' = [game EXCEPT !.values[r.handle].set[SettingOf[r.op]] =
                      IF r.op = "AddRoomRuleList" THEN r.id ELSE Wanted(r)]
    /\ GoOn(s, reqs[s]) /\ InMemory

-----------------------------------------------------------------------------
(* The database fails. *)

GameDocSteps == {"findUser", "proxy", "storeRoom", "storeServer", "recordHongBao",
                 "storeUid", "storeSetting"}

GameFault(s) ==
    /\ reqs[s] # Idle /\ reqs[s].op \in GameOps
    /\ faults < MaxFaults
    /\ \/ /\ Head(Steps(s)) \in GameDocSteps
          /\ IF AtOp(s, {"UpdateOpeningStatus"}, "storeSetting")
             THEN GoOn(s, reqs[s]) ELSE Refuse(s)
          /\ session' = IF At(s, "storeServer")
                        THEN [session EXCEPT ![reqs[s].uid] = reqs[s].n] ELSE session
          /\ failed' = failed \cup {reqs[s].uid}
          /\ faults' = faults + 1
          /\ UNCHANGED <<db, game>>
       \/ /\ At(s, "init") /\ reqs[s].union # PlainUnion
          /\ NewValue(s, NilValue(reqs[s].union))
          /\ failed' = failed \cup {reqs[s].uid}
          /\ faults' = faults + 1
          /\ UNCHANGED <<db, session>>
       \/ At(s, "creditHongBao") /\ GamePanics

GameStep(s) ==
    \/ GetUnion(s) \/ InitUnion(s) \/ KeepUnion(s)
    \/ FindUserData(s) \/ InRoom(s) \/ CreateRoom(s) \/ Proxy(s) \/ Rejoin(s)
    \/ JoinRoom(s) \/ QuickJoin(s) \/ StoreRoom(s) \/ StoreServer(s) \/ PanicGame(s)
    \/ Leave(s) \/ Dismiss(s)
    \/ CheckHongBao(s) \/ KeepUid(s) \/ CreditHongBao(s) \/ RecordHongBao(s) \/ StoreUid(s)
    \/ Setting(s) \/ StoreSetting(s) \/ CacheSetting(s)
    \/ GameFault(s)
=============================================================================
