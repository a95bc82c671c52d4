---------------------------- MODULE ClubsProofs ----------------------------
(***************************************************************************)
(* What is proved of users' locks (syncLock), for any users, documents,    *)
(* requests and number of requests at a time.                              *)
(*                                                                         *)
(* Only ModifyScore and SafeBoxOperation take a lock; the invariant says   *)
(* which calls such a request has still to make, so that none of them ends *)
(* without giving its lock up or an error, and that nobody else holds it.  *)
(***************************************************************************)
EXTENDS Clubs, FiniteSetTheorems, WellFoundedInduction, TLAPS

Ops == HallOps \cup GameOps
Lockers == {"ModifyScore", "SafeBoxOperation"}

Fields == {"op", "uid", "other", "union", "n", "todo", "holds", "owner", "unions",
           "spreader", "id", "sess", "handle"}
UserFields == {"lock", "room", "info"}

\* A request with calls to make.
Formed(r) ==
    /\ DOMAIN r = Fields
    /\ r.op \in Ops /\ r.uid \in Users /\ r.other \in Users
    /\ r.todo # <<>> /\ r.holds \in BOOLEAN

\* Documents in which every user has a lock.
HasLocks(d) ==
    /\ "users" \in DOMAIN d /\ DOMAIN d.users = Users
    /\ \A u \in Users : DOMAIN d.users[u] = UserFields /\ d.users[u].lock \in BOOLEAN

Shaped ==
    /\ HasLocks(db)
    /\ DOMAIN reqs = Slots
    /\ \A s \in Busy : Formed(reqs[s])

\* The calls of the requests that take no lock.
FreeCalls == {
    "findUser", "findOwned", "exists", "incr", "set", "insertUnion", "addToSet",
    "findInviter", "findUnion", "countMember", "push", "findOther", "pull", "moveDownlines",
    "uncountMember", "debit", "credit", "record", "recordOther", "setPartner", "unLockSelf",
    "unLockOther", "panic",
    "inRoom", "getUnion", "init", "keepUnion", "createRoom", "storeRoom", "storeServer",
    "proxy", "rejoin", "joinRoom", "quickJoin", "panicGame", "leave", "dismiss",
    "checkHongBao", "keepUid", "creditHongBao", "recordHongBao", "storeUid",
    "setting", "storeSetting", "cacheSetting"}

\* Their courses: to enter a room is never the last call.
FreeSteps == {q \in Seq(FreeCalls) : q # <<>> => q[Len(q)] \notin {"joinRoom", "quickJoin"}}

\* Where a request that takes a lock stands, with the lock and without it.
ModifyBefore == {<<"findUnion", "lock", "findOther", "debit", "credit", "record">>,
                 <<"lock", "findOther", "debit", "credit", "record">>}
ModifyHolding == {<<"findOther", "debit", "credit", "record">>,
                  <<"debit", "credit", "record">>, <<"unLockSelf">>,
                  <<"unLockSelf", "unLockOther">>, <<"unLockSelf", "credit", "record">>}
ModifyAfter == {<<"unLockOther">>, <<"credit", "record">>, <<"record">>}
SafeHolding == {<<"update">>, <<"unLockSelf">>}

Course(op, holds) ==
    IF op = "ModifyScore" THEN IF holds THEN ModifyHolding ELSE ModifyBefore \cup ModifyAfter
    ELSE IF holds THEN SafeHolding ELSE {<<"lock", "update">>}

OnCourse(r) ==
    /\ r.op \notin Lockers => ~r.holds /\ r.todo \in FreeSteps
    /\ r.op \in Lockers => r.todo \in Course(r.op, r.holds)

Holds(s, u) == s \in Busy /\ reqs[s].uid = u /\ reqs[s].holds

\* Who holds a lock that was never taken away holds it alone, and it is set.
Sole ==
    \A u \in Users \ hist.released : \A p, q \in Slots :
        Holds(p, u) /\ Holds(q, u) => p = q /\ db.users[u].lock

OwnInv == Shaped /\ (\A s \in Busy : OnCourse(reqs[s])) /\ Sole

-----------------------------------------------------------------------------
(* The course of a request. *)

\* The handlers by name.
LEMMA OpsByName ==
    /\ HallOps = {"CreateUnion", "JoinUnion", "InviteJoinUnion", "ExitUnion",
                  "SafeBoxOperation", "ModifyScore", "GiveScore", "AddPartner"}
    /\ GameOps = {"CreateRoom", "JoinRoom", "QuickJoin", "GetHongBao", "LeaveRoom",
                  "DismissRoom", "UpdateOpeningStatus", "UpdateUnionNotice",
                  "AddRoomRuleList", "HongBaoSetting", "UpdateLotteryStatus"}
    /\ SettingOps = {"UpdateOpeningStatus", "UpdateUnionNotice", "UpdateLotteryStatus",
                     "AddRoomRuleList", "HongBaoSetting"}
  BY DEF HallOps, HallSteps, GameOps, GameSteps, SettingOps, SettingOf

\* One course after another ends as the second does.
LEMMA OneAfterAnother ==
    ASSUME NEW S, NEW p \in Seq(S), NEW t \in Seq(S), p # <<>>
    PROVE  /\ p \o t \in Seq(S) /\ p \o t # <<>>
           /\ t # <<>> => (p \o t)[Len(p \o t)] = t[Len(t)]
           /\ t = <<>> => p \o t = p
  <1>1. p \o t \in Seq(S) /\ Len(p \o t) = Len(p) + Len(t)
    OBVIOUS
  <1>2. Len(p) \in Nat \ {0} /\ Len(t) \in Nat
    OBVIOUS
  <1>3. p \o t # <<>>
    BY <1>1, <1>2
  <1>4. ASSUME t # <<>>
        PROVE  (p \o t)[Len(p) + Len(t)] = t[Len(t)]
    <2>1. Len(t) > 0
      BY <1>4
    <2>2. /\ Len(p) + Len(t) \in 1 .. Len(p) + Len(t)
          /\ Len(p) + Len(t) > Len(p)
          /\ Len(p) + Len(t) - Len(p) = Len(t)
      BY <1>2, <2>1
    <2>. QED  BY <1>2, <2>2
  <1>5. ASSUME t = <<>>
        PROVE  p \o t = p
    BY <1>5
  <1>. QED  BY <1>1, <1>3, <1>4, <1>5

\* What is left of calls that take no lock takes none.
LEMMA FreeRest ==
    ASSUME NEW q \in FreeSteps, q # <<>>
    PROVE  /\ Head(q) \in FreeCalls /\ Tail(q) \in FreeSteps
           /\ <<"set">> \o Tail(q) \in FreeSteps
           /\ <<"init", "keepUnion">> \o Tail(q) \in FreeSteps
           /\ Head(q) \in {"joinRoom", "quickJoin"} => Tail(Tail(q)) \in FreeSteps
  <1>1. "set" \in FreeCalls /\ "init" \in FreeCalls /\ "keepUnion" \in FreeCalls
    BY DEF FreeCalls
  <1>2. ASSUME NEW x \in FreeSteps, x # <<>>
        PROVE  Tail(x) \in FreeSteps /\ Head(x) \in FreeCalls
    <2>1. /\ x \in Seq(FreeCalls) /\ Tail(x) \in Seq(FreeCalls) /\ Head(x) \in FreeCalls
          /\ Len(Tail(x)) = Len(x) - 1
      BY <1>2 DEF FreeSteps
    <2>2. Tail(x) # <<>> => Tail(x)[Len(Tail(x))] = x[Len(x)]
      BY <2>1
    <2>. QED  BY <1>2, <2>1, <2>2 DEF FreeSteps
  <1>3. ASSUME NEW p \in Seq(FreeCalls), p # <<>>, p[Len(p)] \notin {"joinRoom", "quickJoin"}
        PROVE  p \o Tail(q) \in FreeSteps
    <2>1. Tail(q) \in FreeSteps /\ Tail(q) \in Seq(FreeCalls)
      BY <1>2 DEF FreeSteps
    <2>. DEFINE t == Tail(q)
    <2>3. /\ p \o t \in Seq(FreeCalls) /\ p \o t # <<>>
          /\ t # <<>> => (p \o t)[Len(p \o t)] = t[Len(t)]
          /\ t = <<>> => p \o t = p
      <3>. HIDE DEF t
      <3>. QED  BY <1>3, <2>1, OneAfterAnother DEF t
    <2>. QED  BY <1>3, <2>1, <2>3 DEF FreeSteps
  <1>4. ASSUME Head(q) \in {"joinRoom", "quickJoin"}
        PROVE  Tail(q) # <<>>
    <2>1. q \in Seq(FreeCalls) /\ q[Len(q)] \notin {"joinRoom", "quickJoin"}
      BY DEF FreeSteps
    <2>2. q[1] \in {"joinRoom", "quickJoin"}
      BY <1>4, <2>1
    <2>3. Len(q) # 1 /\ Len(q) \in Nat /\ Len(q) # 0
      BY <2>1, <2>2
    <2>4. Len(Tail(q)) = Len(q) - 1
      BY <2>1
    <2>. QED  BY <2>3, <2>4
  <1>5. <<"set">> \o Tail(q) \in FreeSteps
    <2>1. <<"set">> \in Seq(FreeCalls) /\ <<"set">> # <<>> /\ Len(<<"set">>) = 1
      BY <1>1
    <2>. QED  BY <1>3, <2>1
  <1>6. <<"init", "keepUnion">> \o Tail(q) \in FreeSteps
    <2>. DEFINE p == <<"init", "keepUnion">>
    <2>1. p \in Seq(FreeCalls) /\ p # <<>> /\ Len(p) = 2 /\ p[2] = "keepUnion"
      BY <1>1
    <2>. HIDE DEF p
    <2>2. p \o Tail(q) \in FreeSteps
      BY <1>3, <2>1
    <2>. QED  BY <2>2 DEF p
  <1>. QED  BY <1>2, <1>4, <1>5, <1>6

\* The calls of every handler that takes no lock, from the first.
LEMMA FreeFromStart ==
    ASSUME NEW op \in Ops \ Lockers
    PROVE  StepsOf(op) \in FreeSteps /\ StepsOf(op) # <<>>
  <1>1. \/ op \in {"CreateUnion", "JoinUnion", "InviteJoinUnion", "ExitUnion", "GiveScore",
                   "AddPartner"} /\ op \in HallOps
        \/ op \in GameOps /\ op \notin HallOps
    <2>1. CASE op \in HallOps
      BY <2>1, OpsByName DEF Lockers
    <2>2. CASE op \in GameOps
      BY <2>2, OpsByName
    <2>. QED  BY <2>1, <2>2 DEF Ops
  <1>2. ASSUME NEW p \in FreeSteps, NEW t \in FreeSteps, p # <<>>
        PROVE  p \o t \in FreeSteps /\ p \o t # <<>>
    <2>1. p \in Seq(FreeCalls) /\ t \in Seq(FreeCalls)
      BY DEF FreeSteps
    <2>. QED  BY <1>2, <2>1, OneAfterAnother DEF FreeSteps
  <1>3. \A x \in {"findUser", "findOwned", "exists", "incr", "insertUnion", "addToSet",
                  "findInviter", "findUnion", "countMember", "push", "findOther", "pull",
                  "moveDownlines", "uncountMember", "debit", "credit", "record", "recordOther",
                  "setPartner", "inRoom", "getUnion", "createRoom", "storeRoom",
                  "storeServer", "proxy", "rejoin", "joinRoom", "quickJoin", "panicGame",
                  "leave", "dismiss", "checkHongBao", "keepUid", "creditHongBao",
                  "recordHongBao", "storeUid", "setting", "storeSetting", "cacheSetting"} :
           x \in FreeCalls
    BY DEF FreeCalls
  <1>4. NextId \in FreeSteps /\ NextId # <<>>
    BY <1>3 DEF FreeSteps, NextId
  <1>5. CASE op = "CreateUnion"
    <2>1. /\ <<"findUser", "findOwned">> \in FreeSteps
          /\ <<"insertUnion">> \in FreeSteps /\ <<"addToSet">> \in FreeSteps
          /\ <<"findUser", "findOwned">> # <<>>
      BY <1>3 DEF FreeSteps
    <2>2. CreateUnion \in FreeSteps /\ CreateUnion # <<>>
      BY <1>2, <1>4, <2>1 DEF CreateUnion
    <2>. QED  BY <1>1, <1>5, <2>2, OpsByName DEF StepsOf, HallSteps
  <1>6. CASE op = "JoinUnion"
    <2>1. /\ <<"findInviter", "findUnion", "findUser", "countMember">> \in FreeSteps
          /\ <<"findInviter", "findUnion", "findUser", "countMember">> # <<>>
          /\ <<"push">> \in FreeSteps
      BY <1>3 DEF FreeSteps
    <2>2. JoinUnion \in FreeSteps /\ JoinUnion # <<>>
      BY <1>2, <1>4, <2>1 DEF JoinUnion
    <2>. QED  BY <1>6, <2>2, OpsByName DEF StepsOf, HallSteps
  <1>7. CASE op = "InviteJoinUnion"
    <2>1. /\ <<"findUnion", "findUser", "findOther", "countMember">> \in FreeSteps
          /\ <<"findUnion", "findUser", "findOther", "countMember">> # <<>>
          /\ <<"push">> \in FreeSteps
      BY <1>3 DEF FreeSteps
    <2>2. InviteJoinUnion \in FreeSteps /\ InviteJoinUnion # <<>>
      BY <1>2, <1>4, <2>1 DEF InviteJoinUnion
    <2>. QED  BY <1>7, <2>2, OpsByName DEF StepsOf, HallSteps
  <1>8. CASE op \in {"ExitUnion", "GiveScore", "AddPartner"}
    <2>1. /\ ExitUnion \in FreeSteps /\ ExitUnion # <<>>
          /\ GiveScore \in FreeSteps /\ GiveScore # <<>>
          /\ AddPartner \in FreeSteps /\ AddPartner # <<>>
      BY <1>3 DEF FreeSteps, ExitUnion, GiveScore, AddPartner
    <2>. QED  BY <1>8, <2>1, OpsByName DEF StepsOf, HallSteps
  <1>9. CASE op \in GameOps /\ op \notin HallOps
    <2>1. /\ CreateRoomSteps \in FreeSteps /\ CreateRoomSteps # <<>>
          /\ JoinRoomSteps \in FreeSteps /\ JoinRoomSteps # <<>>
          /\ QuickJoinSteps \in FreeSteps /\ QuickJoinSteps # <<>>
          /\ GetHongBaoSteps \in FreeSteps /\ GetHongBaoSteps # <<>>
      BY <1>3 DEF FreeSteps, CreateRoomSteps, JoinRoomSteps, QuickJoinSteps, GetHongBaoSteps
    <2>2. /\ StoreThenCache \in FreeSteps /\ StoreThenCache # <<>>
          /\ CacheThenStore \in FreeSteps /\ CacheThenStore # <<>>
          /\ <<"leave">> \in FreeSteps /\ <<"getUnion", "dismiss">> \in FreeSteps
      BY <1>3 DEF FreeSteps, StoreThenCache, CacheThenStore
    <2>3. StepsOf(op) \in {CreateRoomSteps, JoinRoomSteps, QuickJoinSteps, GetHongBaoSteps,
                           StoreThenCache, CacheThenStore, <<"leave">>,
                           <<"getUnion", "dismiss">>}
      BY <1>9, OpsByName DEF StepsOf, GameSteps
    <2>4. <<"leave">> # <<>> /\ <<"getUnion", "dismiss">> # <<>>
      OBVIOUS
    <2>. QED  BY <2>1, <2>2, <2>3, <2>4
  <1>. QED  BY <1>1, <1>5, <1>6, <1>7, <1>8, <1>9

-----------------------------------------------------------------------------
(* What the calls make of the locks. *)

\* The locks of d are those of the documents.
SameLocks(d) == HasLocks(d) /\ \A v \in Users : d.users[v].lock = db.users[v].lock

\* One user's document is replaced by one with the same lock.
LEMMA OneUser ==
    ASSUME HasLocks(db), NEW u \in Users, NEW w,
           DOMAIN w = UserFields, w.lock = db.users[u].lock
    PROVE  SameLocks([db EXCEPT !.users = [db.users EXCEPT ![u] = w]])
  <1>. DEFINE us == [db.users EXCEPT ![u] = w]
              d == [db EXCEPT !.users = us]
  <1>1. /\ DOMAIN us = Users /\ us[u] = w
        /\ \A v \in Users \ {u} : us[v] = db.users[v]
    BY DEF HasLocks
  <1>. HIDE DEF us
  <1>2. d.users = us /\ "users" \in DOMAIN d
    BY DEF HasLocks
  <1>. HIDE DEF d
  <1>3. \A v \in Users : /\ DOMAIN us[v] = UserFields /\ us[v].lock = db.users[v].lock
                         /\ us[v].lock \in BOOLEAN
    BY <1>1 DEF HasLocks
  <1>4. SameLocks(d)
    BY <1>1, <1>2, <1>3 DEF SameLocks, HasLocks
  <1>. QED  BY <1>4 DEF d, us

\* The entries of a user are replaced.
LEMMA NewEntries ==
    ASSUME HasLocks(db), NEW u \in Users, NEW entries
    PROVE  SameLocks([db EXCEPT !.users[u].info = entries])
  <1>. DEFINE w == [db.users[u] EXCEPT !.info = entries]
  <1>1. DOMAIN w = UserFields /\ w.lock = db.users[u].lock
    BY DEF HasLocks, UserFields
  <1>2. [db EXCEPT !.users[u].info = entries]
          = [db EXCEPT !.users = [db.users EXCEPT ![u] = w]]
    OBVIOUS
  <1>. HIDE DEF w
  <1>. QED  BY <1>1, <1>2, OneUser

\* Scores, memberships and rooms do not touch the locks.
LEMMA UpdatesKeepLocks ==
    ASSUME HasLocks(db), NEW u \in Users
    PROVE  /\ \A x, n : SameLocks(IncScore(db, u, x, n))
           /\ \A e : SameLocks(PushEntry(db, u, e))
           /\ \A x : SameLocks(PullEntries(db, u, x))
           /\ \A k : SameLocks([db EXCEPT !.users[u].info[k].partner = TRUE])
           /\ \A id : SameLocks([db EXCEPT !.users[u].room = id])
  <1>1. ASSUME NEW x, NEW n
        PROVE  SameLocks(IncScore(db, u, x, n))
    <2>. DEFINE k == EntryOf(u, x)
                e == [db.users[u].info EXCEPT ![k].score = @ + n]
    <2>1. IncScore(db, u, x, n) = [db EXCEPT !.users[u].info = e]
      BY DEF IncScore
    <2>. QED  BY <2>1, NewEntries
  <1>2. ASSUME NEW e
        PROVE  SameLocks(PushEntry(db, u, e))
    <2>1. PushEntry(db, u, e) = [db EXCEPT !.users[u].info = Append(db.users[u].info, e)]
      BY DEF PushEntry
    <2>. QED  BY <2>1, NewEntries
  <1>3. ASSUME NEW x
        PROVE  SameLocks(PullEntries(db, u, x))
    <2>. DEFINE e == OtherEntries(db.users[u].info, x)
    <2>1. PullEntries(db, u, x) = [db EXCEPT !.users[u].info = e]
      BY DEF PullEntries
    <2>. HIDE DEF e
    <2>. QED  BY <2>1, NewEntries
  <1>4. ASSUME NEW k
        PROVE  SameLocks([db EXCEPT !.users[u].info[k].partner = TRUE])
    <2>. DEFINE e == [db.users[u].info EXCEPT ![k].partner = TRUE]
    <2>1. [db EXCEPT !.users[u].info[k].partner = TRUE] = [db EXCEPT !.users[u].info = e]
      OBVIOUS
    <2>. QED  BY <2>1, NewEntries
  <1>5. ASSUME NEW id
        PROVE  SameLocks([db EXCEPT !.users[u].room = id])
    <2>. DEFINE w == [db.users[u] EXCEPT !.room = id]
    <2>1. DOMAIN w = UserFields /\ w.lock = db.users[u].lock
      BY DEF HasLocks, UserFields
    <2>2. [db EXCEPT !.users[u].room = id]
            = [db EXCEPT !.users = [db.users EXCEPT ![u] = w]]
      OBVIOUS
    <2>. HIDE DEF w
    <2>. QED  BY <2>1, <2>2, OneUser
  <1>. QED  BY <1>1, <1>2, <1>3, <1>4, <1>5

\* Nor does it touch them who is below whom.
LEMMA DownlinesKeepLocks ==
    ASSUME HasLocks(db), NEW x, NEW from, NEW to
    PROVE  SameLocks(MoveDownlines(db, x, from, to))
  <1>. DEFINE low(u) == SelectInSeq(db.users[u].info,
                                    LAMBDA e : e.union = x /\ e.spreader = from)
              us == [u \in Users |->
                        IF low(u) = 0 THEN db.users[u]
                        ELSE [db.users[u] EXCEPT !.info[low(u)].spreader = to]]
  <1>1. MoveDownlines(db, x, from, to) = [db EXCEPT !.users = us]
    BY DEF MoveDownlines
  <1>2. \A u \in Users : DOMAIN us[u] = UserFields /\ us[u].lock = db.users[u].lock
    <2>. HIDE DEF low
    <2>. QED  BY DEF HasLocks, UserFields
  <1>3. DOMAIN us = Users
    OBVIOUS
  <1>. HIDE DEF us
  <1>. QED  BY <1>1, <1>2, <1>3 DEF SameLocks, HasLocks

\* Nor do changes of unions, counters, records and servers.
LEMMA OthersKeepLocks ==
    ASSUME HasLocks(db), NEW d, DOMAIN d = DOMAIN db, d.users = db.users
    PROVE  SameLocks(d)
  BY DEF SameLocks, HasLocks

\* The records of changes touch nothing else.
LEMMA RecordsOnly ==
    ASSUME NEW s, Record(s) \/ RecordOther(s)
    PROVE  /\ DOMAIN db' = DOMAIN db /\ db'.users = db.users /\ db'.unions = db.unions
           /\ db'.counters = db.counters
           /\ GoOn(s, reqs[s]) /\ Calm
  <1>. DEFINE r == reqs[s]
              a == [db EXCEPT !.changes[r.uid] = @ - r.n, !.changes[r.other] = @ - r.n]
              b == [db EXCEPT !.changes[r.uid] = @ - r.n]
              c == [db EXCEPT !.changes[r.other] = @ + r.n]
              Same(d) == /\ DOMAIN d = DOMAIN db /\ d.users = db.users
                         /\ d.unions = db.unions /\ d.counters = db.counters
  <1>1. Same(a) /\ Same(b) /\ Same(c)
    <2>1. Same(a)
      OBVIOUS
    <2>2. Same(b)
      OBVIOUS
    <2>3. Same(c)
      OBVIOUS
    <2>. QED  BY <2>1, <2>2, <2>3
  <1>2. Record(s) => db' = IF r.op = "ModifyScore" THEN a ELSE b
    BY Zenon DEF Record
  <1>3. RecordOther(s) => db' = c
    BY Zenon DEF RecordOther
  <1>4. GoOn(s, reqs[s]) /\ Calm
    BY Zenon DEF Record, RecordOther
  <1>. HIDE DEF a, b, c
  <1>5. db' \in {a, b, c}
    BY <1>2, <1>3
  <1>6. Same(db')
    <2>. HIDE DEF Same
    <2>. QED  BY <1>1, <1>5
  <1>. QED  BY <1>4, <1>6

\* Setting and freeing a lock.
LEMMA LockingLocks ==
    ASSUME NEW d, HasLocks(d), NEW u \in Users, NEW b \in BOOLEAN
    PROVE  /\ HasLocks(Locking(d, u, b))
           /\ Locking(d, u, b).users[u].lock = b
           /\ \A v \in Users \ {u} : Locking(d, u, b).users[v].lock = d.users[v].lock
  <1>. DEFINE w == [d.users[u] EXCEPT !.lock = b]
              us == [d.users EXCEPT ![u] = w]
              e == [d EXCEPT !.users = us]
  <1>0. Locking(d, u, b) = e
    BY DEF Locking
  <1>1. DOMAIN w = UserFields /\ w.lock = b
    BY DEF HasLocks, UserFields
  <1>. HIDE DEF w
  <1>2. /\ DOMAIN us = Users /\ us[u] = w
        /\ \A v \in Users \ {u} : us[v] = d.users[v]
    BY DEF HasLocks
  <1>. HIDE DEF us
  <1>3. e.users = us /\ "users" \in DOMAIN e
    BY DEF HasLocks
  <1>. HIDE DEF e
  <1>4. HasLocks(e)
    BY <1>1, <1>2, <1>3 DEF HasLocks
  <1>. QED  BY <1>0, <1>1, <1>2, <1>3, <1>4

-----------------------------------------------------------------------------
(* Requests that take no lock. *)

\* The same request, whatever else it remembers.
Alike(k, r) ==
    /\ DOMAIN k = Fields
    /\ k.op = r.op /\ k.uid = r.uid /\ k.other = r.other /\ k.todo = r.todo

\* The request ends, or goes on without taking a lock.
Goes(s) ==
    /\ DOMAIN reqs' = Slots /\ \A q \in Slots \ {s} : reqs'[q] = reqs[q]
    /\ \/ reqs'[s] = Idle
       \/ /\ Formed(reqs'[s])
          /\ reqs'[s].op = reqs[s].op /\ reqs'[s].uid = reqs[s].uid
          /\ ~reqs'[s].holds /\ reqs'[s].todo \in FreeSteps

\* No lock is set.
Frees == HasLocks(db') /\ \A v \in Users : db'.users[v].lock => db.users[v].lock

\* To free a lock sets none.
LEMMA FreeingFrees ==
    ASSUME HasLocks(db), NEW u \in Users, db' = Locking(db, u, FALSE)
    PROVE  Frees
  <1>1. /\ HasLocks(Locking(db, u, FALSE))
        /\ Locking(db, u, FALSE).users[u].lock = FALSE
        /\ \A v \in Users \ {u} : Locking(db, u, FALSE).users[v].lock = db.users[v].lock
    <2>. HIDE DEF Locking
    <2>. QED  BY LockingLocks
  <1>. QED  BY <1>1 DEF Frees

\* What a handler does next.
LEMMA ThenDoes ==
    ASSUME DOMAIN reqs = Slots, NEW s \in Slots, NEW k, DOMAIN k = Fields, NEW steps,
           Then(s, k, steps)
    PROVE  /\ DOMAIN reqs' = Slots /\ \A q \in Slots \ {s} : reqs'[q] = reqs[q]
           /\ steps = <<>> => reqs'[s] = Idle
           /\ steps # <<>> => /\ DOMAIN reqs'[s] = Fields /\ reqs'[s].todo = steps
                              /\ reqs'[s].op = k.op /\ reqs'[s].uid = k.uid
                              /\ reqs'[s].other = k.other /\ reqs'[s].holds = k.holds
  <1>. DEFINE e == [k EXCEPT !.todo = steps]
  <1>1. /\ DOMAIN e = Fields /\ e.todo = steps /\ e.op = k.op /\ e.uid = k.uid
        /\ e.other = k.other /\ e.holds = k.holds
    BY DEF Fields
  <1>2. reqs' = [reqs EXCEPT ![s] = IF steps = <<>> THEN Idle ELSE e]
    BY DEF Then
  <1>. HIDE DEF e
  <1>. QED  BY <1>1, <1>2

\* The ways on of a request that takes no lock.
LEMMA FreeWays ==
    ASSUME Shaped, NEW s \in Busy, reqs[s].op \notin Lockers, OnCourse(reqs[s])
    PROVE  /\ Refuse(s) => Goes(s)
           /\ \A k : Alike(k, reqs[s]) /\ ~k.holds =>
                 /\ GoOn(s, k) => Goes(s)
                 /\ \A q \in FreeSteps : Then(s, k, q) => Goes(s)
           /\ Alike(reqs[s], reqs[s]) /\ ~reqs[s].holds /\ reqs[s].todo \in FreeSteps
           /\ Tail(reqs[s].todo) \in FreeSteps /\ Head(reqs[s].todo) \in FreeCalls
           /\ reqs[s].uid \in Users /\ reqs[s].other \in Users
  <1>. DEFINE r == reqs[s]
  <1>1. Formed(r) /\ DOMAIN reqs = Slots /\ s \in Slots /\ ~r.holds /\ r.todo \in FreeSteps
    BY DEF Shaped, Busy, OnCourse
  <1>. HIDE DEF r
  <1>2. ASSUME NEW k, Alike(k, r), ~k.holds, NEW q \in FreeSteps, Then(s, k, q)
        PROVE  Goes(s)
    <2>1. DOMAIN k = Fields /\ k.op \in Ops /\ k.uid \in Users /\ k.other \in Users
      BY <1>1, <1>2 DEF Alike, Formed
    <2>2. /\ DOMAIN reqs' = Slots /\ \A p \in Slots \ {s} : reqs'[p] = reqs[p]
          /\ q = <<>> => reqs'[s] = Idle
          /\ q # <<>> => /\ DOMAIN reqs'[s] = Fields /\ reqs'[s].todo = q
                         /\ reqs'[s].op = k.op /\ reqs'[s].uid = k.uid
                         /\ reqs'[s].other = k.other /\ reqs'[s].holds = k.holds
      BY <1>1, <1>2, <2>1, ThenDoes
    <2>3. CASE q = <<>>
      BY <2>2, <2>3 DEF Goes
    <2>4. CASE q # <<>>
      <3>1. reqs'[s].holds = FALSE
        BY <1>2, <2>2, <2>4
      <3>2. Formed(reqs'[s])
        BY <2>1, <2>2, <2>4, <3>1 DEF Formed
      <3>. QED  BY <1>2, <2>2, <2>4, <3>1, <3>2 DEF Goes, Alike, r
    <2>. QED  BY <2>3, <2>4
  <1>3. Tail(r.todo) \in FreeSteps /\ Head(r.todo) \in FreeCalls
    BY <1>1, FreeRest DEF Formed
  <1>4. Alike(r, r)
    BY <1>1 DEF Alike, Formed
  <1>5. ASSUME NEW k, Alike(k, r), ~k.holds, GoOn(s, k)
        PROVE  Goes(s)
    BY <1>2, <1>3, <1>5 DEF GoOn, Alike
  <1>6. <<>> \in FreeSteps
    BY DEF FreeSteps
  <1>7. Refuse(s) => Goes(s)
    BY <1>1, <1>2, <1>4, <1>6 DEF Refuse, r
  <1>. QED  BY <1>1, <1>2, <1>3, <1>4, <1>5, <1>7 DEF r, Formed

\* It remembers what it read, whatever that is.
LEMMA Remembers ==
    ASSUME NEW r, DOMAIN r = Fields, ~r.holds
    PROVE  /\ \A x : /\ Alike([r EXCEPT !.owner = x], r) /\ ~[r EXCEPT !.owner = x].holds
                     /\ Alike([r EXCEPT !.spreader = x], r) /\ ~[r EXCEPT !.spreader = x].holds
                     /\ Alike([r EXCEPT !.union = x], r) /\ ~[r EXCEPT !.union = x].holds
                     /\ Alike([r EXCEPT !.id = x], r) /\ ~[r EXCEPT !.id = x].holds
                     /\ Alike([r EXCEPT !.n = x], r) /\ ~[r EXCEPT !.n = x].holds
                     /\ Alike([r EXCEPT !.handle = x], r) /\ ~[r EXCEPT !.handle = x].holds
                     /\ Alike([r EXCEPT !.unions = x], r) /\ ~[r EXCEPT !.unions = x].holds
           /\ \A x, y : /\ Alike([r EXCEPT !.spreader = x, !.union = y], r)
                        /\ ~[r EXCEPT !.spreader = x, !.union = y].holds
           /\ Alike([r EXCEPT !.holds = FALSE], r) /\ ~[r EXCEPT !.holds = FALSE].holds
  BY DEF Alike, Fields

\* Calls of the hall by a request that takes no lock.
LEMMA HallFree ==
    ASSUME Shaped, NEW s \in Busy, reqs[s].op \notin Lockers, OnCourse(reqs[s]),
           SharedStep(s) \/ HallStep(s), ~Panic(s)
    PROVE  Goes(s) /\ Frees
  <1>. DEFINE r == reqs[s]
  <1>0. /\ Refuse(s) => Goes(s)
        /\ \A k : Alike(k, r) /\ ~k.holds =>
              /\ GoOn(s, k) => Goes(s)
              /\ \A q \in FreeSteps : Then(s, k, q) => Goes(s)
        /\ Alike(r, r) /\ ~r.holds /\ r.todo \in FreeSteps
        /\ r.uid \in Users /\ r.other \in Users /\ r.op \notin Lockers
        /\ Tail(r.todo) \in FreeSteps /\ Head(r.todo) \in FreeCalls
    BY FreeWays
  <1>a. /\ GoOn(s, r) => Goes(s)
        /\ \A q \in FreeSteps : Then(s, r, q) => Goes(s)
    BY <1>0
  <1>b. DOMAIN r = Fields /\ HasLocks(db) /\ r # Idle /\ r.todo # <<>>
    BY DEF Shaped, Busy, Formed
  <1>c. \A d : (db' = d /\ SameLocks(d)) => Frees
    BY DEF SameLocks, Frees
  <1>d. db' = db => Frees
    BY <1>b DEF Frees
  <1>e. \A x : At(s, x) => Head(r.todo) = x
    BY <1>b DEF At, Steps
  <1>f. /\ \A x : /\ Alike([r EXCEPT !.owner = x], r) /\ ~[r EXCEPT !.owner = x].holds
                  /\ Alike([r EXCEPT !.spreader = x], r) /\ ~[r EXCEPT !.spreader = x].holds
                  /\ Alike([r EXCEPT !.union = x], r) /\ ~[r EXCEPT !.union = x].holds
                  /\ Alike([r EXCEPT !.id = x], r) /\ ~[r EXCEPT !.id = x].holds
        /\ \A x, y : /\ Alike([r EXCEPT !.spreader = x, !.union = y], r)
                     /\ ~[r EXCEPT !.spreader = x, !.union = y].holds
        /\ Alike([r EXCEPT !.holds = FALSE], r) /\ ~[r EXCEPT !.holds = FALSE].holds
    BY <1>0, <1>b, Remembers
  <1>g. /\ <<"unLockSelf">> \in FreeSteps
        /\ <<"unLockSelf", "credit", "record">> \in FreeSteps
        /\ <<"unLockSelf", "credit", "record", "recordOther">> \in FreeSteps
        /\ <<"credit", "panic">> \in FreeSteps
        /\ <<"set">> \o Tail(r.todo) \in FreeSteps
    <2>1. "unLockSelf" \in FreeCalls /\ "credit" \in FreeCalls /\ "record" \in FreeCalls
          /\ "recordOther" \in FreeCalls
          /\ "panic" \in FreeCalls
      BY DEF FreeCalls
    <2>2. <<"set">> \o Tail(r.todo) \in FreeSteps
      BY <1>0, <1>b, FreeRest
    <2>. QED  BY <2>1, <2>2 DEF FreeSteps
  <1>h. /\ \A u \in Users : \A x, n : SameLocks(IncScore(db, u, x, n))
        /\ \A u \in Users : \A e : SameLocks(PushEntry(db, u, e))
        /\ \A u \in Users : \A x : SameLocks(PullEntries(db, u, x))
        /\ \A u \in Users : \A k : SameLocks([db EXCEPT !.users[u].info[k].partner = TRUE])
    BY <1>b, UpdatesKeepLocks
  <1>i. \A d : DOMAIN d = DOMAIN db /\ d.users = db.users => SameLocks(d)
    BY <1>b, OthersKeepLocks
  <1>j. /\ \A k, x : SameLocks([db EXCEPT !.counters[k] = x])
        /\ \A x : SameLocks([db EXCEPT !.unions = x])
        /\ \A x : SameLocks([db EXCEPT !.changes = x])
    <2>1. ASSUME NEW k, NEW x
          PROVE  LET d == [db EXCEPT !.counters[k] = x]
                 IN DOMAIN d = DOMAIN db /\ d.users = db.users
      OBVIOUS
    <2>2. ASSUME NEW x
          PROVE  LET d == [db EXCEPT !.unions = x]
                 IN DOMAIN d = DOMAIN db /\ d.users = db.users
      OBVIOUS
    <2>3. ASSUME NEW x
          PROVE  LET d == [db EXCEPT !.changes = x]
                 IN DOMAIN d = DOMAIN db /\ d.users = db.users
      OBVIOUS
    <2>. QED  BY <1>i, <2>1, <2>2, <2>3
  <1>. HIDE DEF r
  <1>1. CASE UnLockSelf(s)
    <2>1. GoOn(s, [r EXCEPT !.holds = FALSE]) /\ db' = Locking(db, r.uid, FALSE)
      BY <1>1 DEF UnLockSelf, r
    <2>2. Frees
      BY <1>0, <1>b, <2>1, FreeingFrees
    <2>. QED  BY <1>0, <1>f, <2>1, <2>2
  <1>2. CASE Exists(s) \/ SetBegin(s) \/ Incr(s)
    <2>1. \/ Then(s, r, <<"set">> \o Tail(r.todo))
          \/ GoOn(s, r)
          \/ \E x : GoOn(s, [r EXCEPT !.union = x])
          \/ \E x : GoOn(s, [r EXCEPT !.id = x])
      BY <1>2 DEF Exists, SetBegin, Incr, r
    <2>2. db' = db \/ \E k, x : db' = [db EXCEPT !.counters[k] = x]
      BY <1>2 DEF Exists, SetBegin, Incr
    <2>3. ASSUME db' = db PROVE Frees
      BY <1>d, <2>3
    <2>4. ASSUME \E k, x : db' = [db EXCEPT !.counters[k] = x] PROVE Frees
      <3>1. PICK k, x : db' = [db EXCEPT !.counters[k] = x]
        BY <2>4, Zenon
      <3>2. SameLocks([db EXCEPT !.counters[k] = x])
        BY <1>j, Zenon
      <3>. QED  BY <1>c, <3>1, <3>2, Zenon
    <2>5. Frees
      BY <2>2, <2>3, <2>4
    <2>. QED  BY <1>0, <1>a, <1>f, <1>g, <2>1, <2>5
  <1>3. CASE FindUnion(s) \/ FindInviter(s) \/ FindUser(s) \/ FindOwned(s)
    <2>1. \/ Refuse(s) \/ GoOn(s, r) \/ Then(s, r, <<"unLockSelf">>)
          \/ \E x : GoOn(s, [r EXCEPT !.owner = x])
          \/ \E x : GoOn(s, [r EXCEPT !.spreader = x])
          \/ \E x, y : GoOn(s, [r EXCEPT !.spreader = x, !.union = y])
      BY <1>3 DEF FindUnion, FindInviter, FindUser, FindOwned, r
    <2>2. db' = db
      BY <1>3 DEF FindUnion, FindInviter, FindUser, FindOwned
    <2>. QED  BY <1>0, <1>a, <1>d, <1>f, <1>g, <2>1, <2>2
  <1>4. CASE FindOther(s)
    <2>1. \/ Refuse(s) \/ GoOn(s, r) \/ Then(s, r, <<"unLockSelf">>)
          \/ Then(s, r, <<"unLockSelf", "unLockOther">>)
          \/ Then(s, r, <<"unLockSelf", "credit", "record">>)
          \/ Then(s, r, <<"unLockSelf", "credit", "record", "recordOther">>)
      BY <1>4 DEF FindOther, r
    <2>2. db' = db
      BY <1>4 DEF FindOther
    <2>3. <<"unLockSelf", "unLockOther">> \in FreeSteps
      BY DEF FreeSteps, FreeCalls
    <2>4. Goes(s)
      BY <1>0, <1>a, <1>g, <2>1, <2>3
    <2>. QED  BY <1>d, <2>2, <2>4
  <1>5. CASE InsertUnion(s) \/ CountMember(s) \/ UncountMember(s) \/ Record(s)
             \/ RecordOther(s)
    <2>1. GoOn(s, r)
      BY <1>5 DEF InsertUnion, CountMember, UncountMember, Record, RecordOther, r
    <2>2. \/ db' = db \/ (\E x : db' = [db EXCEPT !.unions = x])
          \/ Record(s) \/ RecordOther(s)
      <3>1. InsertUnion(s) => \E x : db' = [db EXCEPT !.unions = x]
        BY DEF InsertUnion
      <3>2. \A x, n : IncMember(db, x, n) = db \/ \E y : IncMember(db, x, n) = [db EXCEPT !.unions = y]
        BY DEF IncMember
      <3>3. CountMember(s) => db' = IncMember(db, reqs[s].union, 1)
        BY DEF CountMember
      <3>4. UncountMember(s) => db' = IncMember(db, reqs[s].union, -1)
        BY DEF UncountMember
      <3>. QED  BY <1>5, <3>1, <3>2, <3>3, <3>4
    <2>3. ASSUME db' = db PROVE Frees
      BY <1>d, <2>3
    <2>4. ASSUME \E x : db' = [db EXCEPT !.unions = x] PROVE Frees
      <3>1. PICK x : db' = [db EXCEPT !.unions = x]
        BY <2>4, Zenon
      <3>. QED  BY <1>c, <1>j, <3>1, Zenon
    <2>5. ASSUME Record(s) \/ RecordOther(s) PROVE Frees
      <3>1. DOMAIN db' = DOMAIN db /\ db'.users = db.users
        BY <2>5, RecordsOnly
      <3>. QED  BY <1>c, <1>i, <3>1
    <2>. QED  BY <1>a, <2>1, <2>2, <2>3, <2>4, <2>5
  <1>6. CASE AddToSet(s) \/ Push(s) \/ Pull(s)
    <2>1. GoOn(s, r)
      BY <1>6 DEF AddToSet, Push, Pull, r
    <2>2. \/ \E e : db' = PushEntry(db, r.uid, e)
          \/ \E e : db' = PushEntry(db, r.other, e)
          \/ db' = PullEntries(db, r.uid, r.union)
      BY <1>6 DEF AddToSet, Push, Pull, r
    <2>3. Frees
      BY <1>0, <1>c, <1>h, <2>2
    <2>. QED  BY <1>a, <2>1, <2>3
  <1>7. CASE Downlines(s)
    <2>1. GoOn(s, r) /\ db' = MoveDownlines(db, r.union, r.uid, r.spreader)
      BY <1>7 DEF Downlines, r
    <2>2. SameLocks(db')
      BY <1>b, <2>1, DownlinesKeepLocks
    <2>. QED  BY <1>a, <1>c, <2>1, <2>2
  <1>8. CASE SetPartner(s)
    <2>1. \/ Refuse(s) /\ db' = db
          \/ GoOn(s, r) /\ \E k : db' = [db EXCEPT !.users[r.other].info[k].partner = TRUE]
      BY <1>8 DEF SetPartner, Fail, r
    <2>. QED  BY <1>0, <1>a, <1>c, <1>d, <1>h, <2>1
  <1>9. CASE Debit(s)
    <2>1. \/ GoOn(s, r) /\ db' = IncScore(db, r.uid, r.union, -r.n)
          \/ Then(s, r, <<"credit", "panic">>) /\ db' = db
      BY <1>0, <1>9 DEF Debit, Lockers, r
    <2>. QED  BY <1>0, <1>a, <1>c, <1>d, <1>g, <1>h, <2>1
  <1>10. CASE Credit(s)
    <2>1. \/ Refuse(s) /\ db' = db
          \/ GoOn(s, r) /\ db' = IncScore(db, r.other, r.union, r.n)
      BY <1>0, <1>10 DEF Credit, Fail, Lockers, r
    <2>. QED  BY <1>0, <1>a, <1>c, <1>d, <1>h, <2>1
  <1>11. CASE HallFault(s)
    <2>1. \/ Refuse(s) \/ GoOn(s, r)
          \/ Then(s, r, <<"set">> \o Tail(r.todo)) \/ Then(s, r, <<"credit", "panic">>)
          \/ GoOn(s, [r EXCEPT !.holds = FALSE])
      BY <1>11 DEF HallFault, r
    <2>2. db' = db
      BY <1>11 DEF HallFault
    <2>. QED  BY <1>0, <1>a, <1>d, <1>f, <1>g, <2>1, <2>2
  <1>12. CASE UnLockOther(s)
    <2>1. GoOn(s, r) /\ db' = Locking(db, r.other, FALSE)
      BY <1>12 DEF UnLockOther, r
    <2>2. Frees
      BY <1>0, <1>b, <2>1, FreeingFrees
    <2>. QED  BY <1>a, <2>1, <2>2
  <1>13. ~Lock(s) /\ ~UpdateSafe(s)
    <2>1. "lock" \notin FreeCalls /\ "update" \notin FreeCalls
      BY DEF FreeCalls
    <2>. QED  BY <1>0, <1>e, <2>1 DEF Lock, UpdateSafe
  <1>. QED
    BY <1>1, <1>2, <1>3, <1>4, <1>5, <1>6, <1>7, <1>8, <1>9, <1>10, <1>11, <1>12, <1>13
    DEF SharedStep, HallStep

\* Rooms that are dismissed.
LEMMA DismissKeepsLocks ==
    ASSUME HasLocks(db), NEW R
    PROVE  SameLocks([db EXCEPT !.users = [u \in Users |->
                         IF u \in R THEN [db.users[u] EXCEPT !.room = NoRoom] ELSE db.users[u]]])
  <1>. DEFINE us == [u \in Users |->
                       IF u \in R THEN [db.users[u] EXCEPT !.room = NoRoom] ELSE db.users[u]]
  <1>1. \A u \in Users : DOMAIN us[u] = UserFields /\ us[u].lock = db.users[u].lock
    BY DEF HasLocks, UserFields
  <1>2. DOMAIN us = Users
    OBVIOUS
  <1>. HIDE DEF us
  <1>. QED  BY <1>1, <1>2 DEF SameLocks, HasLocks

\* Calls of the game server.
LEMMA GameFree ==
    ASSUME Shaped, NEW s \in Busy, reqs[s].op \notin Lockers, OnCourse(reqs[s]), GameStep(s)
    PROVE  (Goes(s) /\ Frees) \/ GamePanics
  <1>. DEFINE r == reqs[s]
  <1>0. /\ Refuse(s) => Goes(s)
        /\ \A k : Alike(k, r) /\ ~k.holds =>
              /\ GoOn(s, k) => Goes(s)
              /\ \A q \in FreeSteps : Then(s, k, q) => Goes(s)
        /\ Alike(r, r) /\ ~r.holds /\ r.todo \in FreeSteps
        /\ r.uid \in Users /\ r.op \notin Lockers
        /\ Tail(r.todo) \in FreeSteps
    BY FreeWays
  <1>a. /\ Refuse(s) => Goes(s)
        /\ GoOn(s, r) => Goes(s)
        /\ \A q \in FreeSteps : Then(s, r, q) => Goes(s)
    BY <1>0
  <1>b. DOMAIN r = Fields /\ HasLocks(db) /\ r # Idle /\ r.todo # <<>>
    BY DEF Shaped, Busy, Formed
  <1>c. \A d : (db' = d /\ SameLocks(d)) => Frees
    BY DEF SameLocks, Frees
  <1>d. db' = db => Frees
    BY <1>b DEF Frees
  <1>e. \A x : At(s, x) => Head(r.todo) = x
    BY <1>b DEF At, Steps
  <1>f. \A x : /\ Alike([r EXCEPT !.id = x], r) /\ ~[r EXCEPT !.id = x].holds
              /\ Alike([r EXCEPT !.n = x], r) /\ ~[r EXCEPT !.n = x].holds
              /\ Alike([r EXCEPT !.handle = x], r) /\ ~[r EXCEPT !.handle = x].holds
              /\ Alike([r EXCEPT !.unions = x], r) /\ ~[r EXCEPT !.unions = x].holds
    BY <1>0, <1>b, Remembers
  <1>h. /\ <<"init", "keepUnion">> \o Tail(r.todo) \in FreeSteps
        /\ Head(r.todo) \in {"joinRoom", "quickJoin"} => Tail(Tail(r.todo)) \in FreeSteps
    BY <1>0, <1>b, FreeRest
  <1>i. \A d : DOMAIN d = DOMAIN db /\ d.users = db.users => SameLocks(d)
    BY <1>b, OthersKeepLocks
  <1>j. /\ \A x, n : SameLocks(IncScore(db, r.uid, x, n))
        /\ \A x : SameLocks([db EXCEPT !.users[r.uid].room = x])
    BY <1>0, <1>b, UpdatesKeepLocks
  <1>. HIDE DEF r
  <1>1. CASE GetUnion(s)
    <2>1. \/ \E x : GoOn(s, [r EXCEPT !.handle = x])
          \/ Then(s, r, <<"init", "keepUnion">> \o Tail(r.todo))
      BY <1>1 DEF GetUnion, r
    <2>2. db' = db
      BY <1>1 DEF GetUnion, InMemory
    <2>3. Goes(s)
      BY <1>0, <1>f, <1>h, <2>1
    <2>. QED  BY <1>d, <2>2, <2>3
  <1>2. CASE InitUnion(s) \/ KeepUnion(s) \/ InRoom(s) \/ CheckHongBao(s)
    <2>1. Refuse(s) \/ GoOn(s, r) \/ \E x : GoOn(s, [r EXCEPT !.handle = x])
      BY <1>2 DEF InitUnion, NewValue, KeepUnion, InRoom, CheckHongBao, r
    <2>2. db' = db
      BY <1>2 DEF InitUnion, KeepUnion, InRoom, CheckHongBao, InMemory
    <2>3. Goes(s)
      BY <1>0, <1>f, <2>1
    <2>. QED  BY <1>d, <2>2, <2>3
  <1>3. CASE FindUserData(s) \/ CreateRoom(s) \/ Proxy(s) \/ Rejoin(s)
    <2>1. \/ Refuse(s) \/ GoOn(s, r) \/ \E x : GoOn(s, [r EXCEPT !.unions = x])
          \/ \E x : GoOn(s, [r EXCEPT !.n = x])
      BY <1>3 DEF FindUserData, CreateRoom, Proxy, Rejoin, r
    <2>2. db' = db
      BY <1>3 DEF FindUserData, CreateRoom, Proxy, Rejoin, InMemory
    <2>3. Goes(s)
      BY <1>0, <1>f, <2>1
    <2>. QED  BY <1>d, <2>2, <2>3
  <1>4. ASSUME NEW h, NEW id, Enters(s, h, id, Tail(r.todo)),
               Head(r.todo) \in {"joinRoom", "quickJoin"}
        PROVE  Goes(s)
    <2>1. \/ Refuse(s) \/ Then(s, [r EXCEPT !.n = id], Tail(r.todo))
          \/ Then(s, [r EXCEPT !.n = id], Tail(Tail(r.todo)))
      BY <1>4 DEF Enters, r
    <2>2. Tail(r.todo) \in FreeSteps /\ Tail(Tail(r.todo)) \in FreeSteps
      BY <1>0, <1>4, <1>h
    <2>. QED  BY <1>0, <1>f, <2>1, <2>2
  <1>5. CASE JoinRoom(s)
    <2>1. Head(r.todo) = "joinRoom" /\ db' = db
      BY <1>5, <1>e DEF JoinRoom, InMemory
    <2>2. Refuse(s) \/ \E h, id : Enters(s, h, id, Tail(r.todo))
      BY <1>5 DEF JoinRoom, r
    <2>. QED  BY <1>0, <1>4, <1>d, <2>1, <2>2
  <1>6. CASE QuickJoin(s)
    <2>1. Head(r.todo) = "quickJoin"
      BY <1>6, <1>e DEF QuickJoin
    <2>2. \/ GamePanics
          \/ Refuse(s) /\ db' = db
          \/ (\E h, id : Enters(s, h, id, Tail(r.todo))) /\ db' = db
      BY <1>6 DEF QuickJoin, InMemory, r
    <2>. QED  BY <1>0, <1>4, <1>d, <2>1, <2>2
  <1>7. CASE StoreRoom(s) \/ StoreServer(s)
    <2>1. GoOn(s, r)
      BY <1>7 DEF StoreRoom, StoreServer, r
    <2>2. ASSUME StoreServer(s) PROVE SameLocks(db')
      <3>1. db' = [db EXCEPT !.servers = @ \cup {r.n}]
        BY <2>2 DEF StoreServer, r
      <3>2. DOMAIN db' = DOMAIN db /\ db'.users = db.users
        BY <3>1
      <3>. QED  BY <1>i, <3>2
    <2>3. StoreRoom(s) => SameLocks(db')
      BY <1>j DEF StoreRoom, r
    <2>. QED  BY <1>7, <1>a, <1>c, <2>1, <2>2, <2>3
  <1>8. CASE PanicGame(s)
    BY <1>8 DEF PanicGame
  <1>9. CASE Leave(s)
    <2>1. Refuse(s)
      BY <1>9 DEF Leave
    <2>2. db' = db \/ db' = [db EXCEPT !.users[r.uid].room = NoRoom]
      BY <1>9 DEF Leave, r
    <2>. QED  BY <1>0, <1>c, <1>d, <1>j, <2>1, <2>2
  <1>10. CASE Dismiss(s)
    <2>1. Refuse(s)
      BY <1>10 DEF Dismiss
    <2>2. \/ db' = db
          \/ \E R : db' = [db EXCEPT !.users = [u \in Users |->
                          IF u \in R THEN [@[u] EXCEPT !.room = NoRoom] ELSE @[u]]]
      BY <1>10 DEF Dismiss
    <2>3. ASSUME NEW R, db' = [db EXCEPT !.users = [u \in Users |->
                          IF u \in R THEN [@[u] EXCEPT !.room = NoRoom] ELSE @[u]]]
          PROVE  SameLocks(db')
      BY <1>b, <2>3, DismissKeepsLocks
    <2>. QED  BY <1>0, <1>c, <1>d, <2>1, <2>2, <2>3
  <1>11. CASE KeepUid(s) \/ Setting(s) \/ CacheSetting(s)
    <2>1. Refuse(s) \/ GoOn(s, r)
      BY <1>11 DEF KeepUid, Setting, CacheSetting, r
    <2>2. db' = db
      BY <1>11 DEF KeepUid, Setting, CacheSetting, InMemory
    <2>. QED  BY <1>0, <1>a, <1>d, <2>1, <2>2
  <1>12. CASE CreditHongBao(s)
    <2>1. GamePanics \/ (GoOn(s, r) /\ db' = IncScore(db, r.uid, r.union, 1))
      BY <1>12 DEF CreditHongBao, r
    <2>. QED  BY <1>a, <1>c, <1>j, <2>1
  <1>13. CASE RecordHongBao(s)
    <2>1. GoOn(s, r) /\ db' = [db EXCEPT !.changes[r.uid] = @ + 1]
      BY <1>13 DEF RecordHongBao, r
    <2>2. DOMAIN db' = DOMAIN db /\ db'.users = db.users
      BY <2>1
    <2>. QED  BY <1>a, <1>c, <1>i, <2>1, <2>2
  <1>14. CASE StoreUid(s)
    <2>1. GoOn(s, r)
      BY <1>14 DEF StoreUid, r
    <2>2. \E at, d : db' = [db EXCEPT !.unions[at] = d]
      BY <1>14, Zenon DEF StoreUid
    <2>3. DOMAIN db' = DOMAIN db /\ db'.users = db.users
      BY <2>2
    <2>. QED  BY <1>a, <1>c, <1>i, <2>1, <2>3
  <1>15. CASE StoreSetting(s)
    <2>1. \E x : GoOn(s, [r EXCEPT !.id = x])
      BY <1>15 DEF StoreSetting, r
    <2>2. \E at, d : db' = [db EXCEPT !.unions[at] = d]
      BY <1>15, Zenon DEF StoreSetting
    <2>3. DOMAIN db' = DOMAIN db /\ db'.users = db.users
      BY <2>2
    <2>4. Goes(s)
      BY <1>0, <1>f, <2>1
    <2>. QED  BY <1>c, <1>i, <2>3, <2>4
  <1>16. CASE GameFault(s)
    <2>1. \/ GamePanics
          \/ (Refuse(s) \/ GoOn(s, r) \/ \E x : GoOn(s, [r EXCEPT !.handle = x])) /\ db' = db
      BY <1>16 DEF GameFault, NewValue, r
    <2>2. CASE GamePanics
      BY <2>2
    <2>3. CASE Refuse(s) /\ db' = db
      BY <1>a, <1>d, <2>3
    <2>4. CASE GoOn(s, r) /\ db' = db
      BY <1>a, <1>d, <2>4
    <2>5. CASE (\E x : GoOn(s, [r EXCEPT !.handle = x])) /\ db' = db
      <3>1. Goes(s)
        BY <1>0, <1>f, <2>5
      <3>. QED  BY <1>d, <2>5, <3>1
    <2>. QED  BY <2>1, <2>2, <2>3, <2>4, <2>5
  <1>. QED
    BY <1>1, <1>2, <1>3, <1>5, <1>6, <1>7, <1>8, <1>9, <1>10, <1>11, <1>12, <1>13, <1>14,
       <1>15, <1>16
    DEF GameStep

-----------------------------------------------------------------------------
(* Requests that take a lock. *)

\* The request ends, or goes on as a request of its kind does.
Runs(s) ==
    /\ DOMAIN reqs' = Slots /\ \A q \in Slots \ {s} : reqs'[q] = reqs[q]
    /\ \/ reqs'[s] = Idle
       \/ /\ Formed(reqs'[s]) /\ OnCourse(reqs'[s])
          /\ reqs'[s].op = reqs[s].op /\ reqs'[s].uid = reqs[s].uid
HoldsNext(s) == reqs'[s] # Idle /\ reqs'[s].holds

\* What a step of a request can do with its user's lock.
Takes(s) ==
    LET u == reqs[s].uid
    IN /\ ~reqs[s].holds /\ HoldsNext(s) /\ HasLocks(db')
       /\ ~db.users[u].lock /\ db'.users[u].lock
       /\ \A v \in Users \ {u} : db'.users[v].lock = db.users[v].lock
Keeps(s) == reqs[s].holds /\ HoldsNext(s) /\ db' = db
Gives(s) ==
    LET u == reqs[s].uid
    IN reqs[s].holds /\ ~HoldsNext(s) /\ Frees /\ (~db'.users[u].lock \/ u \in failed')
Lacks(s) == ~reqs[s].holds /\ ~HoldsNext(s) /\ Frees

\* What is first and what is left.
LEMMA LockerCalls ==
    /\ Head(<<"findUnion", "lock", "findOther", "debit", "credit", "record">>) = "findUnion"
    /\ Tail(<<"findUnion", "lock", "findOther", "debit", "credit", "record">>) = <<"lock", "findOther", "debit", "credit", "record">>
    /\ Head(<<"lock", "findOther", "debit", "credit", "record">>) = "lock"
    /\ Tail(<<"lock", "findOther", "debit", "credit", "record">>) = <<"findOther", "debit", "credit", "record">>
    /\ Head(<<"findOther", "debit", "credit", "record">>) = "findOther"
    /\ Tail(<<"findOther", "debit", "credit", "record">>) = <<"debit", "credit", "record">>
    /\ Head(<<"debit", "credit", "record">>) = "debit"
    /\ Tail(<<"debit", "credit", "record">>) = <<"credit", "record">>
    /\ Head(<<"credit", "record">>) = "credit"
    /\ Tail(<<"credit", "record">>) = <<"record">>
    /\ Head(<<"record">>) = "record"
    /\ Tail(<<"record">>) = <<>>
    /\ Head(<<"unLockSelf">>) = "unLockSelf"
    /\ Tail(<<"unLockSelf">>) = <<>>
    /\ Head(<<"unLockSelf", "unLockOther">>) = "unLockSelf"
    /\ Tail(<<"unLockSelf", "unLockOther">>) = <<"unLockOther">>
    /\ Head(<<"unLockSelf", "credit", "record">>) = "unLockSelf"
    /\ Tail(<<"unLockSelf", "credit", "record">>) = <<"credit", "record">>
    /\ Head(<<"unLockOther">>) = "unLockOther"
    /\ Tail(<<"unLockOther">>) = <<>>
    /\ Head(<<"lock", "update">>) = "lock"
    /\ Tail(<<"lock", "update">>) = <<"update">>
    /\ Head(<<"update">>) = "update"
    /\ Tail(<<"update">>) = <<>>
  OBVIOUS

\* Where such a request stands.
LEMMA LockerStands ==
    ASSUME NEW r, r.op \in Lockers, r.holds \in BOOLEAN, OnCourse(r)
    PROVE  LET modifies == r.op = "ModifyScore"
               saves == r.op = "SafeBoxOperation"
           IN /\ Head(r.todo) \in {"findUnion", "lock", "findOther", "debit", "credit", "record",
                                  "unLockSelf", "unLockOther", "update"}
              /\ Head(r.todo) = "findUnion" => /\ ~r.holds /\ modifies
                    /\ Tail(r.todo) = <<"lock", "findOther", "debit", "credit", "record">>
              /\ Head(r.todo) = "lock" => /\ ~r.holds
                    /\ \/ saves /\ Tail(r.todo) = <<"update">>
                       \/ /\ modifies
                          /\ Tail(r.todo) = <<"findOther", "debit", "credit", "record">>
              /\ Head(r.todo) = "findOther" => /\ r.holds /\ modifies
                    /\ Tail(r.todo) = <<"debit", "credit", "record">>
              /\ Head(r.todo) = "debit" =>
                    r.holds /\ modifies /\ Tail(r.todo) = <<"credit", "record">>
              /\ Head(r.todo) = "credit" => ~r.holds /\ modifies /\ Tail(r.todo) = <<"record">>
              /\ Head(r.todo) \in {"record", "unLockOther"} =>
                    ~r.holds /\ modifies /\ Tail(r.todo) = <<>>
              /\ Head(r.todo) = "unLockSelf" => /\ r.holds
                    /\ \/ Tail(r.todo) = <<>>
                       \/ modifies /\ Tail(r.todo) \in {<<"unLockOther">>, <<"credit", "record">>}
              /\ Head(r.todo) = "update" => r.holds /\ saves
  <1>1. CASE r.op = "ModifyScore" /\ r.holds
    <2>1. r.todo \in ModifyHolding
      BY <1>1 DEF OnCourse, Course, Lockers
    <2>. QED  BY <1>1, <2>1, LockerCalls DEF ModifyHolding
  <1>2. CASE r.op = "ModifyScore" /\ ~r.holds
    <2>1. r.todo \in ModifyBefore \cup ModifyAfter
      BY <1>2 DEF OnCourse, Course, Lockers
    <2>. QED  BY <1>2, <2>1, LockerCalls DEF ModifyBefore, ModifyAfter
  <1>3. CASE r.op = "SafeBoxOperation" /\ r.holds
    <2>1. r.todo \in SafeHolding
      BY <1>3 DEF OnCourse, Course, Lockers
    <2>. QED  BY <1>3, <2>1, LockerCalls DEF SafeHolding
  <1>4. CASE r.op = "SafeBoxOperation" /\ ~r.holds
    <2>1. r.todo = <<"lock", "update">>
      BY <1>4 DEF OnCourse, Course, Lockers
    <2>. QED  BY <1>4, <2>1, LockerCalls
  <1>. QED  BY <1>1, <1>2, <1>3, <1>4 DEF Lockers

\* It goes on with calls of its course.
LEMMA LockerGoes ==
    ASSUME Shaped, NEW s \in Busy, reqs[s].op \in Lockers,
           NEW k, Alike(k, reqs[s]), k.holds \in BOOLEAN,
           NEW steps, steps # <<>> => steps \in Course(k.op, k.holds), Then(s, k, steps)
    PROVE  Runs(s) /\ (HoldsNext(s) <=> steps # <<>> /\ k.holds)
  <1>. DEFINE r == reqs[s]
  <1>1. Formed(r) /\ DOMAIN reqs = Slots /\ s \in Slots
    BY DEF Shaped, Busy
  <1>. HIDE DEF r
  <1>2. DOMAIN k = Fields /\ k.op = r.op /\ k.uid = r.uid /\ k.other = r.other
    BY DEF Alike, r
  <1>3. /\ DOMAIN reqs' = Slots /\ \A p \in Slots \ {s} : reqs'[p] = reqs[p]
        /\ steps = <<>> => reqs'[s] = Idle
        /\ steps # <<>> => /\ DOMAIN reqs'[s] = Fields /\ reqs'[s].todo = steps
                           /\ reqs'[s].op = k.op /\ reqs'[s].uid = k.uid
                           /\ reqs'[s].other = k.other /\ reqs'[s].holds = k.holds
    BY <1>1, <1>2, ThenDoes
  <1>4. CASE steps = <<>>
    BY <1>3, <1>4 DEF Runs, HoldsNext
  <1>5. CASE steps # <<>>
    <2>1. Formed(reqs'[s])
      BY <1>1, <1>2, <1>3, <1>5 DEF Formed
    <2>2. OnCourse(reqs'[s])
      BY <1>2, <1>3, <1>5 DEF OnCourse, r
    <2>3. reqs'[s] # Idle
      <3>1. DOMAIN Idle = {"op"}
        BY DEF Idle
      <3>. QED  BY <1>3, <1>5, <3>1 DEF Fields
    <2>. QED  BY <1>2, <1>3, <1>5, <2>1, <2>2, <2>3 DEF Runs, HoldsNext, r
  <1>. QED  BY <1>4, <1>5

\* Its calls.
LEMMA LockerSteps ==
    ASSUME Shaped, NEW s \in Busy, reqs[s].op \in Lockers, OnCourse(reqs[s]),
           SharedStep(s) \/ HallStep(s)
    PROVE  Runs(s) /\ (Takes(s) \/ Keeps(s) \/ Gives(s) \/ Lacks(s))
  <1>. DEFINE r == reqs[s]
              tail == Tail(r.todo)
  <1>0. /\ Formed(r) /\ HasLocks(db) /\ r # Idle /\ r.op \in Lockers /\ r.holds \in BOOLEAN
        /\ DOMAIN r = Fields /\ r.todo # <<>> /\ r.uid \in Users /\ r.other \in Users
    BY DEF Shaped, Busy, Formed
  <1>a. ASSUME NEW k, Alike(k, r), k.holds \in BOOLEAN,
               NEW q, q # <<>> => q \in Course(k.op, k.holds), Then(s, k, q)
        PROVE  Runs(s) /\ (HoldsNext(s) <=> q # <<>> /\ k.holds)
    BY <1>a, LockerGoes
  <1>b. Alike(r, r)
    BY <1>0 DEF Alike
  <1>c. ASSUME NEW h \in BOOLEAN
        PROVE  LET k == [r EXCEPT !.holds = h]
               IN Alike(k, r) /\ k.holds = h /\ k.todo = r.todo
    BY <1>0 DEF Alike, Fields
  <1>d. ASSUME NEW x
        PROVE  LET k == [r EXCEPT !.owner = x]
               IN Alike(k, r) /\ k.holds = r.holds /\ k.todo = r.todo
    BY <1>0 DEF Alike, Fields
  <1>e. \A x : At(s, x) => Head(r.todo) = x
    BY <1>0 DEF At, Steps
  <1>f. Refuse(s) => Runs(s) /\ ~HoldsNext(s)
    BY <1>0, <1>a, <1>b DEF Refuse
  <1>g. /\ Head(r.todo) \in {"findUnion", "lock", "findOther", "debit", "credit", "record",
                            "unLockSelf", "unLockOther", "update"}
        /\ Head(r.todo) = "findUnion" => /\ ~r.holds /\ r.op = "ModifyScore"
              /\ tail = <<"lock", "findOther", "debit", "credit", "record">>
        /\ Head(r.todo) = "lock" => /\ ~r.holds
              /\ \/ r.op = "SafeBoxOperation" /\ tail = <<"update">>
                 \/ r.op = "ModifyScore" /\ tail = <<"findOther", "debit", "credit", "record">>
        /\ Head(r.todo) = "findOther" => /\ r.holds /\ r.op = "ModifyScore"
              /\ tail = <<"debit", "credit", "record">>
        /\ Head(r.todo) = "debit" =>
              r.holds /\ r.op = "ModifyScore" /\ tail = <<"credit", "record">>
        /\ Head(r.todo) = "credit" => ~r.holds /\ r.op = "ModifyScore" /\ tail = <<"record">>
        /\ Head(r.todo) \in {"record", "unLockOther"} =>
              ~r.holds /\ r.op = "ModifyScore" /\ tail = <<>>
        /\ Head(r.todo) = "unLockSelf" => /\ r.holds
              /\ \/ tail = <<>>
                 \/ /\ r.op = "ModifyScore"
                    /\ tail \in {<<"unLockOther">>, <<"credit", "record">>}
        /\ Head(r.todo) = "update" => r.holds /\ r.op = "SafeBoxOperation"
    BY <1>0, LockerStands
  <1>h. db' = db => Frees
    BY <1>0 DEF Frees
  <1>i. \A d : db' = d /\ SameLocks(d) => Frees
    BY DEF SameLocks, Frees
  <1>j. ASSUME NEW x, NEW n, NEW u \in Users, NEW v \in Users,
               db' = Locking(IncScore(db, u, x, n), v, FALSE)
        PROVE  Frees /\ ~db'.users[v].lock
    <2>. DEFINE d == IncScore(db, u, x, n)
    <2>1. SameLocks(d)
      BY <1>0, UpdatesKeepLocks
    <2>. HIDE DEF d
    <2>2. /\ HasLocks(Locking(d, v, FALSE)) /\ Locking(d, v, FALSE).users[v].lock = FALSE
          /\ \A w \in Users \ {v} : Locking(d, v, FALSE).users[w].lock = d.users[w].lock
      <3>. HIDE DEF Locking
      <3>. QED  BY <2>1, LockingLocks DEF SameLocks
    <2>3. db' = Locking(d, v, FALSE)
      BY <1>j DEF d
    <2>. QED  BY <2>1, <2>2, <2>3 DEF Frees, SameLocks
  <1>k. ASSUME NEW u \in Users, db' = Locking(db, u, FALSE)
        PROVE  Frees /\ ~db'.users[u].lock
    <2>1. Frees
      BY <1>0, <1>k, FreeingFrees
    <2>2. Locking(db, u, FALSE).users[u].lock = FALSE
      <3>. HIDE DEF Locking
      <3>. QED  BY <1>0, LockingLocks
    <2>. QED  BY <1>k, <2>1, <2>2
  <1>l. ASSUME NEW h \in BOOLEAN, NEW q, q # <<>> => q \in Course(r.op, h),
               Then(s, [r EXCEPT !.holds = h], q)
        PROVE  Runs(s) /\ (HoldsNext(s) <=> q # <<>> /\ h)
    <2>. DEFINE k == [r EXCEPT !.holds = h]
    <2>1. Alike(k, r) /\ k.holds = h /\ Then(s, k, q)
      BY <1>c, <1>l
    <2>. HIDE DEF k
    <2>2. k.op = r.op
      BY <2>1 DEF Alike
    <2>. QED  BY <1>a, <1>l, <2>1, <2>2
  <1>m. ASSUME NEW q, q # <<>> => q \in Course(r.op, r.holds), Then(s, r, q)
        PROVE  Runs(s) /\ (HoldsNext(s) <=> q # <<>> /\ r.holds)
    BY <1>0, <1>a, <1>b, <1>m
  <1>. HIDE DEF r, tail
  <1>1. CASE FindUnion(s)
    <2>1. Head(r.todo) = "findUnion" /\ db' = db
      BY <1>1, <1>e DEF FindUnion, AtOp
    <2>2. tail \in Course("ModifyScore", FALSE)
      BY <1>g, <2>1 DEF Course, ModifyBefore
    <2>3. Refuse(s) \/ \E x : GoOn(s, [r EXCEPT !.owner = x])
      BY <1>1 DEF FindUnion, r
    <2>4. ASSUME NEW x, GoOn(s, [r EXCEPT !.owner = x])
          PROVE  Runs(s) /\ ~HoldsNext(s)
      <3>. DEFINE k == [r EXCEPT !.owner = x]
      <3>1. Alike(k, r) /\ k.holds = r.holds /\ Then(s, k, tail)
        BY <1>d, <2>4 DEF GoOn, tail
      <3>. HIDE DEF k
      <3>. QED  BY <1>0, <1>a, <1>g, <2>1, <2>2, <3>1 DEF Alike
    <2>5. Runs(s) /\ ~HoldsNext(s)
      BY <1>f, <2>3, <2>4
    <2>. QED  BY <1>g, <1>h, <2>1, <2>5 DEF Lacks, r
  <1>2. CASE Lock(s)
    <2>1. Head(r.todo) = "lock" /\ ~r.holds
      BY <1>2, <1>e, <1>g DEF Lock
    <2>2. tail \in Course(r.op, TRUE) /\ <<"unLockSelf">> \in Course(r.op, TRUE)
      BY <1>g, <2>1 DEF Course, ModifyHolding, SafeHolding
    <2>3. tail # <<>> /\ <<"unLockSelf">> # <<>>
      BY <1>g, <2>1
    <2>4. CASE Refuse(s) /\ db' = db
      BY <1>f, <1>h, <2>1, <2>4 DEF Lacks, r
    <2>5. CASE /\ ~db.users[r.uid].lock /\ db' = Locking(db, r.uid, TRUE)
               /\ \/ Then(s, [r EXCEPT !.holds = TRUE], <<"unLockSelf">>)
                  \/ Then(s, [r EXCEPT !.holds = TRUE], tail)
      <3>1. Runs(s) /\ HoldsNext(s)
        BY <1>l, <2>2, <2>3, <2>5
      <3>2. /\ HasLocks(Locking(db, r.uid, TRUE))
            /\ Locking(db, r.uid, TRUE).users[r.uid].lock = TRUE
            /\ \A v \in Users \ {r.uid} :
                  Locking(db, r.uid, TRUE).users[v].lock = db.users[v].lock
        <4>. HIDE DEF Locking
        <4>. QED  BY <1>0, LockingLocks
      <3>3. db' = Locking(db, r.uid, TRUE)
        BY <2>5
      <3>. HIDE DEF Locking
      <3>. QED  BY <2>1, <2>5, <3>1, <3>2, <3>3 DEF Takes, r
    <2>6. [r EXCEPT !.holds = TRUE].todo = r.todo
      BY <1>c
    <2>7. \/ Refuse(s) /\ db' = db
          \/ /\ ~db.users[r.uid].lock /\ db' = Locking(db, r.uid, TRUE)
             /\ \/ Then(s, [r EXCEPT !.holds = TRUE], <<"unLockSelf">>)
                \/ GoOn(s, [r EXCEPT !.holds = TRUE])
      <3>1. [r EXCEPT !.holds = TRUE].uid = r.uid
        BY <1>0 DEF Fields
      <3>2. \/ Refuse(s) /\ db' = db
            \/ /\ ~db.users[[r EXCEPT !.holds = TRUE].uid].lock
               /\ db' = Locking(db, [r EXCEPT !.holds = TRUE].uid, TRUE)
               /\ \/ Then(s, [r EXCEPT !.holds = TRUE], <<"unLockSelf">>)
                  \/ GoOn(s, [r EXCEPT !.holds = TRUE])
        <4>. DEFINE k == [r EXCEPT !.holds = TRUE]
                    unfit == db.users[k.uid].room # NoRoom \/ LacksScore(k)
        <4>1. \/ Refuse(s) /\ db' = db
              \/ /\ ~db.users[k.uid].lock
                 /\ db' = Locking(db, k.uid, TRUE)
                 /\ IF unfit THEN Then(s, k, <<"unLockSelf">>) ELSE GoOn(s, k)
          BY <1>2, Zenon DEF Lock, r
        <4>. HIDE DEF unfit
        <4>. QED  BY <4>1, Zenon
      <3>. QED  BY <3>1, <3>2
    <2>8. GoOn(s, [r EXCEPT !.holds = TRUE]) => Then(s, [r EXCEPT !.holds = TRUE], tail)
      BY <2>6 DEF GoOn, tail
    <2>. QED  BY <2>4, <2>5, <2>7, <2>8
  <1>3. CASE FindOther(s)
    <2>1. Head(r.todo) = "findOther" /\ db' = db /\ r.holds /\ r.op = "ModifyScore"
      BY <1>3, <1>e, <1>g DEF FindOther
    <2>2. /\ tail \in Course(r.op, TRUE) /\ <<"unLockSelf">> \in Course(r.op, TRUE)
          /\ <<"unLockSelf", "unLockOther">> \in Course(r.op, TRUE)
          /\ <<"unLockSelf", "credit", "record">> \in Course(r.op, TRUE)
      BY <1>g, <2>1 DEF Course, ModifyHolding
    <2>3. tail # <<>>
      <3>1. tail = <<"debit", "credit", "record">>
        BY <1>g, <2>1
      <3>. QED  BY <3>1
    <2>4. MemberVerdict(r) \in {"pay", "unLockBoth"}
      BY <2>1 DEF MemberVerdict
    <2>5. \/ Then(s, r, tail) \/ Then(s, r, <<"unLockSelf", "unLockOther">>)
          \/ Then(s, r, <<"unLockSelf", "credit", "record">>)
      BY <1>3, <2>1, <2>4 DEF FindOther, GoOn, r, tail
    <2>6. r.holds = TRUE
      BY <1>0, <2>1
    <2>7. Runs(s) /\ HoldsNext(s)
      <3>1. /\ <<"unLockSelf", "unLockOther">> # <<>>
            /\ <<"unLockSelf", "credit", "record">> # <<>>
        OBVIOUS
      <3>2. PICK q : q # <<>> /\ q \in Course(r.op, TRUE) /\ Then(s, r, q)
        BY <2>2, <2>3, <2>5, <3>1
      <3>. QED  BY <1>m, <2>6, <3>2
    <2>. QED  BY <2>1, <2>7 DEF Keeps, r
  <1>4. CASE Debit(s)
    <2>1. Head(r.todo) = "debit" /\ r.holds /\ r.op = "ModifyScore"
      BY <1>4, <1>e, <1>g DEF Debit
    <2>2. tail \in Course(r.op, FALSE)
      BY <1>g, <2>1 DEF Course, ModifyAfter
    <2>3. CASE /\ db' = Locking(IncScore(db, r.uid, r.union, -r.n), r.uid, FALSE)
               /\ Then(s, [r EXCEPT !.holds = FALSE], tail)
      <3>1. Runs(s) /\ ~HoldsNext(s)
        BY <1>l, <2>2, <2>3
      <3>2. Frees /\ ~db'.users[r.uid].lock
        BY <1>0, <1>j, <2>3
      <3>. QED  BY <2>1, <3>1, <3>2 DEF Gives, r
    <2>4. CASE Fail(s) /\ db' = db
      <3>1. Runs(s) /\ ~HoldsNext(s) /\ r.uid \in failed'
        BY <1>f, <2>4 DEF Fail, r
      <3>. QED  BY <1>h, <2>1, <2>4, <3>1 DEF Gives, r
    <2>5. [r EXCEPT !.holds = FALSE].todo = r.todo
      BY <1>c
    <2>. QED  BY <1>4, <2>1, <2>3, <2>4, <2>5 DEF Debit, GoOn, r, tail
  <1>5. CASE Credit(s)
    <2>1. Head(r.todo) = "credit" /\ ~r.holds /\ r.op = "ModifyScore"
      BY <1>5, <1>e, <1>g DEF Credit
    <2>2. tail \in Course(r.op, FALSE) /\ r.holds = FALSE
      BY <1>0, <1>g, <2>1 DEF Course, ModifyAfter
    <2>3. \/ Refuse(s) /\ db' = db
          \/ Then(s, r, tail) /\ db' = Locking(IncScore(db, r.other, r.union, r.n), r.other, FALSE)
      BY <1>5, <2>1 DEF Credit, Fail, GoOn, r, tail
    <2>4. Runs(s) /\ ~HoldsNext(s)
      BY <1>f, <1>m, <2>2, <2>3
    <2>5. Frees
      BY <1>0, <1>h, <1>j, <2>3
    <2>. QED  BY <2>1, <2>4, <2>5 DEF Lacks, r
  <1>6. CASE Record(s)
    <2>1. Head(r.todo) = "record" /\ ~r.holds /\ tail = <<>>
      BY <1>6, <1>e, <1>g DEF Record
    <2>2. Then(s, r, tail)
      BY <1>6 DEF Record, GoOn, r, tail
    <2>3. Runs(s) /\ ~HoldsNext(s)
      BY <1>m, <2>1, <2>2
    <2>5. DOMAIN db' = DOMAIN db /\ db'.users = db.users
      BY <1>6, RecordsOnly
    <2>6. Frees
      BY <1>0, <1>i, <2>5, OthersKeepLocks
    <2>. QED  BY <2>1, <2>3, <2>6 DEF Lacks, r
  <1>7. CASE UnLockSelf(s)
    <2>1. Head(r.todo) = "unLockSelf" /\ r.holds
      BY <1>7, <1>e, <1>g DEF UnLockSelf
    <2>2. tail # <<>> => tail \in Course(r.op, FALSE)
      BY <1>g, <2>1 DEF Course, ModifyAfter
    <2>3. [r EXCEPT !.holds = FALSE].todo = r.todo
      BY <1>c
    <2>4. Then(s, [r EXCEPT !.holds = FALSE], tail) /\ db' = Locking(db, r.uid, FALSE)
      BY <1>7, <2>3 DEF UnLockSelf, GoOn, r, tail
    <2>5. Runs(s) /\ ~HoldsNext(s)
      BY <1>l, <2>2, <2>4
    <2>6. Frees /\ ~db'.users[r.uid].lock
      BY <1>0, <1>k, <2>4
    <2>. QED  BY <2>1, <2>5, <2>6 DEF Gives, r
  <1>8. CASE UnLockOther(s)
    <2>1. Head(r.todo) = "unLockOther" /\ ~r.holds /\ tail = <<>>
      BY <1>8, <1>e, <1>g DEF UnLockOther
    <2>2. Then(s, r, tail) /\ db' = Locking(db, r.other, FALSE)
      BY <1>8 DEF UnLockOther, GoOn, r, tail
    <2>3. Runs(s) /\ ~HoldsNext(s)
      BY <1>m, <2>1, <2>2
    <2>4. Frees
      BY <1>0, <1>k, <2>2
    <2>. QED  BY <2>1, <2>3, <2>4 DEF Lacks, r
  <1>9. CASE UpdateSafe(s)
    <2>1. Head(r.todo) = "update" /\ r.holds /\ db' = db
      BY <1>9, <1>e, <1>g DEF UpdateSafe
    <2>2. Refuse(s) /\ r.uid \in failed'
      BY <1>9 DEF UpdateSafe, Fail, r
    <2>. QED  BY <1>f, <1>h, <2>1, <2>2 DEF Gives, r
  <1>10. CASE HallFault(s)
    <2>1. db' = db /\ r.uid \in failed'
      BY <1>10 DEF HallFault, r
    <2>2. \/ Refuse(s)
          \/ Head(r.todo) = "unLockSelf" /\ GoOn(s, [r EXCEPT !.holds = FALSE])
          \/ Head(r.todo) = "unLockOther" /\ GoOn(s, r)
      <3>1. ~At(s, "exists") /\ ~At(s, "recordOther")
        BY <1>e, <1>g
      <3>2. \A x : ~AtOp(s, {"GiveScore"}, x)
        BY <1>0 DEF AtOp, Lockers, r
      <3>. QED  BY <1>10, <1>e, <3>1, <3>2 DEF HallFault, r
    <2>3. CASE Refuse(s)
      <3>1. Runs(s) /\ ~HoldsNext(s) /\ Frees
        BY <1>f, <1>h, <2>1, <2>3
      <3>. QED  BY <2>1, <3>1 DEF Gives, Lacks, r
    <2>4. CASE Head(r.todo) = "unLockSelf" /\ GoOn(s, [r EXCEPT !.holds = FALSE])
      <3>1. tail # <<>> => tail \in Course(r.op, FALSE)
        BY <1>g, <2>4 DEF Course, ModifyAfter
      <3>2. Then(s, [r EXCEPT !.holds = FALSE], tail)
        BY <1>c, <2>4 DEF GoOn, tail
      <3>3. Runs(s) /\ ~HoldsNext(s)
        BY <1>l, <3>1, <3>2
      <3>. QED  BY <1>g, <1>h, <2>1, <2>4, <3>3 DEF Gives, r
    <2>5. CASE Head(r.todo) = "unLockOther" /\ GoOn(s, r)
      <3>1. Then(s, r, tail) /\ tail = <<>> /\ ~r.holds
        BY <1>g, <2>5 DEF GoOn, tail
      <3>2. Runs(s) /\ ~HoldsNext(s)
        BY <1>m, <3>1
      <3>. QED  BY <1>h, <2>1, <3>1, <3>2 DEF Lacks, r
    <2>. QED  BY <2>2, <2>3, <2>4, <2>5
  <1>11. /\ ~Exists(s) /\ ~SetBegin(s) /\ ~Incr(s)
         /\ ~FindInviter(s) /\ ~FindUser(s) /\ ~FindOwned(s) /\ ~InsertUnion(s)
         /\ ~AddToSet(s) /\ ~CountMember(s) /\ ~Push(s) /\ ~Pull(s) /\ ~Downlines(s)
         /\ ~UncountMember(s) /\ ~SetPartner(s) /\ ~Panic(s)
         /\ ~RecordOther(s)
    <2>1. \A x \in {"exists", "set", "incr", "findInviter", "findUser", "findOwned",
                    "insertUnion", "addToSet", "countMember", "push", "pull",
                    "moveDownlines", "uncountMember", "setPartner", "panic", "recordOther"} :
             ~At(s, x)
      BY <1>e, <1>g
    <2>. QED
      BY <2>1
      DEF Exists, SetBegin, Incr, FindInviter, FindUser, FindOwned, InsertUnion, AddToSet,
          CountMember, Push, Pull, Downlines, UncountMember, SetPartner, Panic, RecordOther, AtOp
  <1>. QED
    BY <1>1, <1>2, <1>3, <1>4, <1>5, <1>6, <1>7, <1>8, <1>9, <1>10, <1>11
    DEF SharedStep, HallStep

\* It makes no call of the game server.
LEMMA LockerNoGame ==
    ASSUME Shaped, NEW s \in Busy, reqs[s].op \in Lockers, OnCourse(reqs[s])
    PROVE  ~GameStep(s)
  <1>. DEFINE r == reqs[s]
  <1>0. Formed(r) /\ r # Idle /\ r.op \in Lockers /\ r.holds \in BOOLEAN
    BY DEF Shaped, Busy, Formed
  <1>1. Head(r.todo) \in {"findUnion", "lock", "findOther", "debit", "credit", "record",
                          "unLockSelf", "unLockOther", "update"}
    BY <1>0, LockerStands
  <1>2. \A x : At(s, x) => Head(r.todo) = x
    BY <1>0 DEF At, Steps, Formed
  <1>3. r.op \notin GameOps
    BY <1>0, OpsByName DEF Lockers
  <1>4. \A x \in {"getUnion", "init", "keepUnion", "findUser", "inRoom", "createRoom", "proxy",
                  "rejoin", "joinRoom", "quickJoin", "storeRoom", "storeServer", "panicGame",
                  "leave", "dismiss", "checkHongBao", "keepUid", "creditHongBao",
                  "recordHongBao", "storeUid", "setting", "storeSetting", "cacheSetting"} :
           ~At(s, x)
    BY <1>1, <1>2
  <1>. QED
    BY <1>3, <1>4
    DEF GameStep, GetUnion, InitUnion, KeepUnion, FindUserData, InRoom, CreateRoom, Proxy,
        Rejoin, JoinRoom, QuickJoin, StoreRoom, StoreServer, PanicGame, Leave, Dismiss,
        CheckHongBao, KeepUid, CreditHongBao, RecordHongBao, StoreUid, Setting,
        StoreSetting, CacheSetting, GameFault, AtOp

-----------------------------------------------------------------------------
(* Every step. *)

\* Requests are lost, nothing else happens to the documents.
Lost ==
    /\ db' = db /\ DOMAIN reqs' = Slots
    /\ \A q \in Slots : \/ reqs'[q] = reqs[q]
                        \/ reqs'[q] = Idle /\ reqs[q].uid \in failed'

\* A step of a request is one of its own course, or a panic.
LEMMA StepIs ==
    ASSUME Shaped, NEW s \in Busy, OnCourse(reqs[s]),
           SharedStep(s) \/ HallStep(s) \/ GameStep(s)
    PROVE  Lost \/ (Runs(s) /\ (Takes(s) \/ Keeps(s) \/ Gives(s) \/ Lacks(s)))
  <1>1. ASSUME Panic(s)
        PROVE  Lost
    <2>. DEFINE lost == {q \in Slots : reqs[q] # Idle /\ reqs[q].op \in HallOps}
    <2>1. /\ db' = db /\ reqs' = [q \in Slots |-> IF q \in lost THEN Idle ELSE reqs[q]]
          /\ failed' = failed \cup {reqs[q].uid : q \in lost}
      BY <1>1 DEF Panic, HallPanics
    <2>. HIDE DEF lost
    <2>. QED  BY <2>1 DEF Lost
  <1>2. ASSUME GamePanics
        PROVE  Lost
    <2>. DEFINE lost == {q \in Slots : reqs[q] # Idle /\ reqs[q].op \in GameOps}
    <2>1. /\ db' = db /\ reqs' = [q \in Slots |-> IF q \in lost THEN Idle ELSE reqs[q]]
          /\ failed' = failed \cup {reqs[q].uid : q \in lost}
      BY <1>2 DEF GamePanics
    <2>. HIDE DEF lost
    <2>. QED  BY <2>1 DEF Lost
  <1>3. CASE reqs[s].op \notin Lockers
    <2>1. Lost \/ (Goes(s) /\ Frees)
      BY <1>1, <1>2, <1>3, HallFree, GameFree
    <2>2. ASSUME Goes(s), Frees
          PROVE  Runs(s) /\ Lacks(s)
      <3>1. ~reqs[s].holds
        BY <1>3 DEF OnCourse
      <3>2. ~HoldsNext(s)
        BY <2>2 DEF Goes, HoldsNext
      <3>3. Runs(s)
        BY <1>3, <2>2 DEF Goes, Runs, OnCourse
      <3>. QED  BY <2>2, <3>1, <3>2, <3>3 DEF Lacks
    <2>. QED  BY <2>1, <2>2
  <1>4. CASE reqs[s].op \in Lockers
    BY <1>4, LockerSteps, LockerNoGame
  <1>. QED  BY <1>3, <1>4

\* What became of the requests and of the locks.
LEMMA OwnersStay ==
    ASSUME OwnInv, NEW s \in Busy, Runs(s), Takes(s) \/ Keeps(s) \/ Gives(s) \/ Lacks(s),
           hist'.released = hist.released \cup ReleasedBy(s)
    PROVE  OwnInv'
  <1>. DEFINE u == reqs[s].uid
  <1>1. /\ HasLocks(db) /\ DOMAIN reqs = Slots /\ \A q \in Busy : Formed(reqs[q])
        /\ \A q \in Busy : OnCourse(reqs[q])
        /\ s \in Slots /\ u \in Users
    BY DEF OwnInv, Shaped, Busy, Formed
  <1>2. HasLocks(db')
    BY <1>1 DEF Takes, Keeps, Gives, Lacks, Frees
  <1>3. /\ DOMAIN reqs' = Slots /\ \A q \in Slots \ {s} : reqs'[q] = reqs[q]
        /\ reqs'[s] # Idle => /\ Formed(reqs'[s]) /\ OnCourse(reqs'[s])
                             /\ reqs'[s].uid = u
    BY DEF Runs
  <1>4. Shaped'
    BY <1>1, <1>2, <1>3 DEF Shaped, Busy, HasLocks
  <1>5. \A q \in Busy' : OnCourse(reqs'[q])
    BY <1>1, <1>3 DEF Busy
  <1>6. ASSUME NEW v \in Users, v \notin hist'.released, db.users[v].lock, ~db'.users[v].lock
        PROVE  v = u /\ reqs[s].holds
    BY <1>6 DEF ReleasedBy
  <1>7. \A q \in Slots, v \in Users : q # s => (Holds(q, v)' <=> Holds(q, v))
    BY <1>3 DEF Holds, Busy
  <1>8. \A v \in Users : Holds(s, v) <=> v = u /\ reqs[s].holds
    BY DEF Holds
  <1>9. \A v \in Users : Holds(s, v)' <=> v = u /\ HoldsNext(s)
    BY <1>1, <1>3 DEF Holds, HoldsNext, Busy
  <1>10. \A v \in Users \ hist'.released : v \notin hist.released
    OBVIOUS
  <1>11. \A v \in Users \ hist.released : \A p, q \in Slots :
            Holds(p, v) /\ Holds(q, v) => p = q /\ db.users[v].lock
    BY DEF OwnInv, Sole
  <1>12. ASSUME NEW v \in Users \ hist'.released, NEW p \in Slots, NEW q \in Slots,
                Holds(p, v)', Holds(q, v)'
         PROVE  p = q /\ db'.users[v].lock
    <2>1. CASE Takes(s)
      <3>1. v # u => p # s /\ q # s
        BY <1>9, <1>12
      <3>2. CASE v # u
        BY <1>7, <1>10, <1>11, <1>12, <2>1, <3>1, <3>2 DEF Takes
      <3>3. CASE v = u
        <4>1. \A x \in Slots : x # s => ~Holds(x, u)
          BY <1>10, <1>11, <1>12, <2>1, <3>3 DEF Takes
        <4>. QED  BY <1>7, <1>12, <2>1, <3>3, <4>1 DEF Takes
      <3>. QED  BY <3>2, <3>3
    <2>2. CASE Keeps(s)
      BY <1>7, <1>8, <1>9, <1>10, <1>11, <1>12, <2>2 DEF Keeps
    <2>3. CASE Gives(s)
      <3>1. p # s /\ q # s
        BY <1>9, <1>12, <2>3 DEF Gives
      <3>2. p = q /\ db.users[v].lock /\ Holds(p, v)
        BY <1>7, <1>10, <1>11, <1>12, <3>1
      <3>3. v # u
        <4>1. v = u => Holds(s, v)
          BY <1>8, <2>3 DEF Gives
        <4>2. v \in Users \ hist.released
          BY <1>10
        <4>. QED  BY <1>1, <1>11, <3>1, <3>2, <4>1, <4>2
      <3>. QED  BY <1>6, <1>12, <3>2, <3>3
    <2>4. CASE Lacks(s)
      <3>1. p # s /\ q # s
        BY <1>9, <1>12, <2>4 DEF Lacks
      <3>2. p = q /\ db.users[v].lock
        BY <1>7, <1>10, <1>11, <1>12, <3>1
      <3>. QED  BY <1>6, <1>12, <2>4, <3>2 DEF Lacks
    <2>. QED  BY <2>1, <2>2, <2>3, <2>4
  <1>13. Sole'
    BY <1>12 DEF Sole
  <1>. QED  BY <1>4, <1>5, <1>13 DEF OwnInv

\* Nothing changes for the requests that a panic leaves.
LEMMA OwnersAfterPanic ==
    ASSUME OwnInv, Lost, hist.released \subseteq hist'.released
    PROVE  OwnInv'
  <1>1. /\ db' = db /\ DOMAIN reqs' = Slots
        /\ \A q \in Slots : reqs'[q] = reqs[q] \/ reqs'[q] = Idle
    BY DEF Lost
  <1>2. Shaped'
    BY <1>1 DEF OwnInv, Shaped, Busy, HasLocks
  <1>3. \A q \in Busy' : OnCourse(reqs'[q])
    BY <1>1 DEF OwnInv, Busy
  <1>4. \A q \in Slots, v \in Users : Holds(q, v)' => Holds(q, v)
    BY <1>1 DEF Holds, Busy
  <1>5. Sole'
    BY <1>1, <1>4 DEF OwnInv, Sole
  <1>. QED  BY <1>2, <1>3, <1>5 DEF OwnInv

\* A request that arrives holds nothing.
LEMMA NewIsFree ==
    ASSUME NEW i \in DOMAIN Starts, NEW c \in Starts[i].calls
    PROVE  /\ Formed(NewRequest(c)) /\ OnCourse(NewRequest(c)) /\ ~NewRequest(c).holds
           /\ NewRequest(c) # Idle
  <1>. DEFINE k == NewRequest(c)
  <1>1. c \in [op : HallOps \cup GameOps, uid : Users, other : Users, union : Nat, n : Nat]
    BY ClubsAssumption
  <1>2. c.op \in Ops /\ c.uid \in Users /\ c.other \in Users
    BY <1>1 DEF Ops
  <1>3. /\ DOMAIN k = Fields /\ k.op = c.op /\ k.uid = c.uid /\ k.other = c.other
        /\ k.todo = StepsOf(c.op) /\ k.holds = FALSE
    BY DEF NewRequest, Fields
  <1>. HIDE DEF k
  <1>4. k # Idle
    <2>1. DOMAIN Idle = {"op"}
      BY DEF Idle
    <2>. QED  BY <1>3, <2>1 DEF Fields
  <1>5. CASE c.op \notin Lockers
    BY <1>2, <1>3, <1>4, <1>5, FreeFromStart DEF Formed, OnCourse, k
  <1>6. CASE c.op \in Lockers
    <2>1. \/ c.op = "ModifyScore" /\ StepsOf(c.op) = ModifyScore
          \/ c.op = "SafeBoxOperation" /\ StepsOf(c.op) = SafeBoxOperation
      BY <1>6, OpsByName DEF Lockers, StepsOf, HallSteps
    <2>2. StepsOf(c.op) # <<>> /\ StepsOf(c.op) \in Course(c.op, FALSE)
      BY <2>1 DEF ModifyScore, SafeBoxOperation, Course, ModifyBefore
    <2>. QED  BY <1>2, <1>3, <1>4, <1>6, <2>2 DEF Formed, OnCourse, k
  <1>. QED  BY <1>5, <1>6

\* A message arrives.
LEMMA OwnersArrive ==
    ASSUME OwnInv, NEW s \in Slots, Arrive(s), start \in DOMAIN Starts
    PROVE  OwnInv'
  <1>1. PICK c \in Starts[start].calls : reqs' = [reqs EXCEPT ![s] = NewRequest(c)]
    BY DEF Arrive
  <1>. DEFINE k == NewRequest(c)
  <1>2. Formed(k) /\ OnCourse(k) /\ ~k.holds /\ k # Idle
    BY NewIsFree
  <1>3. reqs' = [reqs EXCEPT ![s] = k] /\ db' = db /\ hist' = hist
    BY <1>1 DEF Arrive
  <1>. HIDE DEF k
  <1>4. DOMAIN reqs = Slots /\ HasLocks(db)
    BY DEF OwnInv, Shaped
  <1>5. reqs'[s] = k /\ \A q \in Slots \ {s} : reqs'[q] = reqs[q]
    BY <1>3, <1>4
  <1>6. Shaped'
    BY <1>2, <1>3, <1>4, <1>5 DEF OwnInv, Shaped, Busy, HasLocks
  <1>7. \A q \in Busy' : OnCourse(reqs'[q])
    BY <1>2, <1>5 DEF OwnInv, Busy
  <1>8. \A q \in Slots, v \in Users : Holds(q, v)' => Holds(q, v)
    BY <1>2, <1>5 DEF Holds, Busy
  <1>9. Sole'
    BY <1>3, <1>8 DEF OwnInv, Sole
  <1>. QED  BY <1>6, <1>7, <1>9 DEF OwnInv

-----------------------------------------------------------------------------
(* Locks that are set. *)

\* Who failed is not forgotten.
LEMMA FailedGrows ==
    ASSUME NEW s \in Slots, SharedStep(s) \/ HallStep(s) \/ GameStep(s)
    PROVE  failed \subseteq failed'
  <1>1. Calm => failed \subseteq failed'
    BY DEF Calm
  <1>2. Fail(s) => failed \subseteq failed'
    BY DEF Fail
  <1>3. InMemory \/ InDocs => Calm
    BY DEF InMemory, InDocs
  <1>4. GamePanics => failed \subseteq failed'
    BY DEF GamePanics
  <1>. HIDE DEF Calm
  <1>5. CASE SharedStep(s)
    BY <1>1, <1>5 DEF SharedStep, UnLockSelf, UnLockOther, Exists, SetBegin, Incr
  <1>6. CASE HallStep(s)
    <2>1. Panic(s) => failed \subseteq failed'
      BY DEF Panic, HallPanics
    <2>2. HallFault(s) => failed \subseteq failed'
      BY DEF HallFault
    <2>3. FindUnion(s) \/ FindInviter(s) \/ FindUser(s) \/ FindOther(s) \/ FindOwned(s)
          \/ InsertUnion(s) \/ AddToSet(s) \/ CountMember(s) \/ Push(s) \/ Pull(s)
          \/ Downlines(s) \/ UncountMember(s) \/ Lock(s) \/ Record(s)
          \/ RecordOther(s) => Calm
      BY DEF FindUnion, FindInviter, FindUser, FindOther, FindOwned, InsertUnion, AddToSet,
             CountMember, Push, Pull, Downlines, UncountMember, Lock, Record, RecordOther
    <2>4. UpdateSafe(s) => Fail(s)
      BY DEF UpdateSafe
    <2>5. SetPartner(s) => Fail(s) \/ Calm
      BY DEF SetPartner
    <2>6. Debit(s) => Fail(s) \/ Calm
      BY Zenon DEF Debit
    <2>7. Credit(s) => Fail(s) \/ Calm
      BY Zenon DEF Credit
    <2>. QED
      BY <1>1, <1>2, <1>6, <2>1, <2>2, <2>3, <2>4, <2>5, <2>6, <2>7 DEF HallStep
  <1>7. CASE GameStep(s)
    <2>1. GetUnion(s) \/ InitUnion(s) \/ KeepUnion(s) \/ InRoom(s) \/ CreateRoom(s) \/ Rejoin(s)
          \/ JoinRoom(s) \/ CheckHongBao(s) \/ KeepUid(s) \/ Setting(s) \/ CacheSetting(s)
          => InMemory
      BY DEF GetUnion, InitUnion, KeepUnion, InRoom, CreateRoom, Rejoin, JoinRoom,
             CheckHongBao, KeepUid, Setting, CacheSetting
    <2>2. FindUserData(s) \/ Proxy(s) \/ StoreRoom(s) \/ RecordHongBao(s) \/ StoreUid(s)
          \/ StoreSetting(s) => InDocs
      BY DEF FindUserData, Proxy, StoreRoom, RecordHongBao, StoreUid, StoreSetting
    <2>3. StoreServer(s) \/ Leave(s) \/ Dismiss(s) => Calm
      BY DEF StoreServer, Leave, Dismiss
    <2>4. QuickJoin(s) => GamePanics \/ InMemory
      BY Zenon DEF QuickJoin
    <2>5. CreditHongBao(s) => GamePanics \/ InDocs
      BY Zenon DEF CreditHongBao
    <2>6. PanicGame(s) => GamePanics
      BY DEF PanicGame
    <2>7. GameFault(s) => GamePanics \/ failed \subseteq failed'
      BY DEF GameFault
    <2>. QED
      BY <1>1, <1>3, <1>4, <1>7, <2>1, <2>2, <2>3, <2>4, <2>5, <2>6, <2>7 DEF GameStep
  <1>. QED  BY <1>5, <1>6, <1>7

\* LockHasHolder by the slots.
Held == \A u \in Users : db.users[u].lock => (\E q \in Slots : Holds(q, u)) \/ u \in failed

\* The two forms say the same.
LEMMA HeldHasHolder == Held <=> LockHasHolder
  <1>1. ASSUME NEW u \in Users
        PROVE  Holders(u) # {} <=> \E q \in Slots : Holds(q, u)
    BY DEF Holders, Holds, Busy
  <1>. QED  BY <1>1 DEF Held, LockHasHolder

\* A step that takes a lock, keeps or gives it back, or lacks one, leaves no lock
\* without a holder.
LEMMA LocksStayHeld ==
    ASSUME OwnInv, Held, NEW s \in Busy, Runs(s),
           Takes(s) \/ Keeps(s) \/ Gives(s) \/ Lacks(s), failed \subseteq failed'
    PROVE  Held'
  <1>. DEFINE u == reqs[s].uid
  <1>1. s \in Slots /\ u \in Users
    BY DEF OwnInv, Shaped, Busy, Formed
  <1>2. /\ DOMAIN reqs' = Slots /\ \A q \in Slots \ {s} : reqs'[q] = reqs[q]
        /\ reqs'[s] # Idle => reqs'[s].uid = u
    BY DEF Runs
  <1>3. \A q \in Slots, v \in Users : q # s => (Holds(q, v)' <=> Holds(q, v))
    BY <1>2 DEF Holds, Busy
  <1>4. \A v \in Users : Holds(s, v) <=> v = u /\ reqs[s].holds
    BY DEF Holds
  <1>5. \A v \in Users : Holds(s, v)' <=> v = u /\ HoldsNext(s)
    BY <1>1, <1>2 DEF Holds, HoldsNext, Busy
  <1>6. ASSUME NEW v \in Users, db'.users[v].lock
        PROVE  (\E q \in Slots : Holds(q, v)') \/ v \in failed'
    <2>1. CASE db.users[v].lock /\ v \notin failed
      <3>1. PICK q \in Slots : Holds(q, v)
        BY <2>1 DEF Held
      <3>2. CASE q # s
        BY <1>3, <3>1, <3>2
      <3>3. CASE q = s
        <4>1. v = u /\ reqs[s].holds
          BY <1>4, <3>1, <3>3
        <4>2. HoldsNext(s) \/ u \in failed'
          BY <1>6, <4>1 DEF Takes, Keeps, Gives, Lacks
        <4>. QED  BY <1>1, <1>5, <4>1, <4>2
      <3>. QED  BY <3>2, <3>3
    <2>2. CASE ~db.users[v].lock
      <3>1. Takes(s) /\ v = u
        BY <1>6, <2>2 DEF Takes, Keeps, Gives, Lacks, Frees
      <3>2. Holds(s, v)'
        BY <1>5, <3>1 DEF Takes
      <3>. QED  BY <1>1, <3>2
    <2>. QED  BY <2>1, <2>2
  <1>. QED  BY <1>6 DEF Held

\* A panic ends the requests of a server: those who held locks have failed.
LEMMA LocksHeldAfterPanic ==
    ASSUME OwnInv, Held, Lost, failed \subseteq failed'
    PROVE  Held'
  <1>1. ASSUME NEW v \in Users, db'.users[v].lock, v \notin failed'
        PROVE  \E q \in Slots : Holds(q, v)'
    <2>1. PICK q \in Slots : Holds(q, v)
      BY <1>1 DEF Held, Lost
    <2>2. reqs[q].uid = v /\ reqs[q].holds /\ reqs[q] # Idle
      BY <2>1 DEF Holds, Busy
    <2>3. reqs'[q] = reqs[q]
      BY <1>1, <2>2 DEF Lost
    <2>4. Holds(q, v)'
      BY <2>2, <2>3 DEF Holds, Busy
    <2>. QED  BY <2>4
  <1>. QED  BY <1>1 DEF Held

\* A request that arrives holds nothing yet.
LEMMA LocksHeldOnArrival ==
    ASSUME OwnInv, Held, NEW s \in Slots, Arrive(s)
    PROVE  Held'
  <1>1. /\ \A q \in Slots \ {s} : reqs'[q] = reqs[q]
        /\ reqs[s] = Idle /\ db' = db /\ failed' = failed
    BY DEF Arrive, OwnInv, Shaped
  <1>2. \A q \in Slots, v \in Users : Holds(q, v) => Holds(q, v)'
    BY <1>1 DEF Holds, Busy
  <1>. QED  BY <1>1, <1>2 DEF Held

-----------------------------------------------------------------------------
(* Theorems. *)

\* Whoever handles a request handles one.
LEMMA SomeoneHandles ==
    ASSUME OwnInv, NEW s \in Slots, HallHandles(s) \/ GameHandles(s)
    PROVE  /\ s \in Busy /\ start' = start /\ OnCourse(reqs[s]) /\ Shaped
           /\ SharedStep(s) \/ HallStep(s) \/ GameStep(s)
           /\ hist'.released = hist.released \cup ReleasedBy(s)
           /\ failed \subseteq failed'
  <1>1. s \in Busy /\ start' = start /\ hist' = Noted(s)
    BY DEF HallHandles, GameHandles, Busy
  <1>2. SharedStep(s) \/ HallStep(s) \/ GameStep(s)
    BY DEF HallHandles, GameHandles
  <1>3. hist'.released = hist.released \cup ReleasedBy(s)
    <2>1. Noted(s).released = hist.released \cup ReleasedBy(s)
      BY DEF Noted
    <2>. QED  BY <1>1, <2>1
  <1>4. failed \subseteq failed'
    BY <1>2, FailedGrows
  <1>. QED  BY <1>1, <1>2, <1>3, <1>4 DEF OwnInv

\* The users' documents at the start.
LEMMA StartsShaped ==
    ASSUME Init
    PROVE  OwnInv /\ start \in DOMAIN Starts /\ Busy = {}
  <1>1. db \in Docs
    BY ClubsAssumption DEF Init
  <1>2. db.users \in [Users -> User] /\ "users" \in DOMAIN db
    BY <1>1 DEF Docs
  <1>3. HasLocks(db)
    BY <1>2 DEF HasLocks, User, UserFields
  <1>4. Busy = {} /\ DOMAIN reqs = Slots /\ start \in DOMAIN Starts
    BY DEF Init, Busy
  <1>. QED  BY <1>3, <1>4 DEF OwnInv, Shaped, Sole, Holds

\* In every state of every behaviour a request that takes a lock stands where
\* it will give it up, and who holds a lock that nobody took away holds it
\* alone (GetUnlockUserDataAndLock, UnLockUserData).
THEOREM LocksHaveOneOwner == Spec => []OwnInv
  <1>. DEFINE Inv == OwnInv /\ start \in DOMAIN Starts
  <1>1. Init => Inv
    BY StartsShaped
  <1>2. Inv /\ [Next]_vars => Inv'
    <2>. SUFFICES ASSUME Inv, [Next]_vars
                  PROVE  Inv'
      OBVIOUS
    <2>1. ASSUME NEW s \in Slots, Arrive(s)
          PROVE  Inv'
      <3>1. start' = start
        BY <2>1 DEF Arrive
      <3>. QED  BY <2>1, <3>1, OwnersArrive
    <2>2. ASSUME NEW s \in Slots, HallHandles(s) \/ GameHandles(s)
          PROVE  Inv'
      <3>1. /\ s \in Busy /\ start' = start
            /\ hist'.released = hist.released \cup ReleasedBy(s)
        BY <2>2, SomeoneHandles
      <3>2. Lost \/ (Runs(s) /\ (Takes(s) \/ Keeps(s) \/ Gives(s) \/ Lacks(s)))
        BY <2>2, SomeoneHandles, StepIs
      <3>3. OwnInv'
        BY <3>1, <3>2, OwnersStay, OwnersAfterPanic
      <3>. QED  BY <3>1, <3>3
    <2>3. CASE UNCHANGED vars
      BY <2>3 DEF vars, OwnInv, Shaped, HasLocks, Busy, Sole, Holds
    <2>4. Rest => UNCHANGED vars
      BY DEF Rest
    <2>. QED  BY <2>1, <2>2, <2>3, <2>4 DEF Next
  <1>. QED  BY <1>1, <1>2, PTL DEF Spec

\* Two requests hold a user's syncLock only after a third one, which did not
\* hold it, took it away.
THEOREM OneHolderAtATime == Spec => []OneHolder
  <1>1. OwnInv => OneHolder
    <2>. SUFFICES ASSUME OwnInv, NEW u \in Users, u \notin hist.released
                  PROVE  ~(Cardinality(Holders(u)) > 1)
      BY DEF OneHolder
    <2>1. \A p, q \in Holders(u) : p = q
      BY DEF OwnInv, Sole, Holders, Holds, Busy
    <2>2. CASE Holders(u) = {}
      BY <2>2, FS_EmptySet
    <2>3. CASE Holders(u) # {}
      <3>1. PICK p : Holders(u) = {p}
        BY <2>1, <2>3
      <3>2. Cardinality({p}) = 1
        BY FS_Singleton
      <3>. QED  BY <3>1, <3>2
    <2>. QED  BY <2>2, <2>3
  <1>. QED  BY <1>1, LocksHaveOneOwner, PTL

\* Where nobody's syncLock is set at the start, it is set only while a request
\* of the user holds it, or after one of his requests failed.
THEOREM LocksHaveHolders ==
    ASSUME \A i \in DOMAIN Starts : \A u \in Users : ~Starts[i].docs.users[u].lock
    PROVE  Spec => []LockHasHolder
  <1>1. Init => Held
    BY DEF Init, Held
  <1>2. OwnInv /\ Held /\ [Next]_vars => Held'
    <2>. SUFFICES ASSUME OwnInv, Held, [Next]_vars
                  PROVE  Held'
      OBVIOUS
    <2>1. ASSUME NEW s \in Slots, Arrive(s)
          PROVE  Held'
      BY <2>1, LocksHeldOnArrival
    <2>2. ASSUME NEW s \in Slots, HallHandles(s) \/ GameHandles(s)
          PROVE  Held'
      <3>1. s \in Busy /\ failed \subseteq failed'
        BY <2>2, SomeoneHandles
      <3>2. Lost \/ (Runs(s) /\ (Takes(s) \/ Keeps(s) \/ Gives(s) \/ Lacks(s)))
        BY <2>2, SomeoneHandles, StepIs
      <3>. QED  BY <3>1, <3>2, LocksStayHeld, LocksHeldAfterPanic
    <2>3. CASE UNCHANGED vars
      BY <2>3 DEF vars, Held, Holds, Busy
    <2>4. Rest => UNCHANGED vars
      BY DEF Rest
    <2>. QED  BY <2>1, <2>2, <2>3, <2>4 DEF Next
  <1>3. Held => LockHasHolder
    BY HeldHasHolder
  <1>. QED  BY <1>1, <1>2, <1>3, LocksHaveOneOwner, PTL DEF Spec

-----------------------------------------------------------------------------
(* Numbers. *)

\* A set of numbers has a least one.
LEMMA LeastExists ==
    ASSUME NEW S \in SUBSET Nat, S # {}
    PROVE  \E m \in S : \A k \in S : m <= k
  <1>. DEFINE R == OpToRel(<, Nat)
  <1>1. IsWellFoundedOn(R, Nat)
    BY NatLessThanWellFounded
  <1>2. \A k, m \in Nat : k < m => <<k, m>> \in R
    BY DEF OpToRel
  <1>. HIDE DEF R
  <1>3. \E m \in S : \A k \in S : ~ (<<k, m>> \in R)
    BY <1>1, WFMin
  <1>4. PICK m \in S : \A k \in S : ~ (<<k, m>> \in R)
    BY <1>3
  <1>5. \A k \in S : ~(k < m)
    BY <1>2, <1>4
  <1>. QED  BY <1>4, <1>5
=============================================================================
