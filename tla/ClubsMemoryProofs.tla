------------------------- MODULE ClubsMemoryProofs -------------------------
(***************************************************************************)
(* What is proved of the unions in the game server's memory, for any       *)
(* users, documents, requests and number of requests at a time: a user     *)
(* takes one share of a red envelope, settings are not lost, and a user is *)
(* in one room at most.                                                    *)
(*                                                                         *)
(* MemInv comes first: what the memory and the documents are, and that a   *)
(* request has the rest of its handler before it and works on a value of   *)
(* the union it is about.  It holds of every state, failures and panics    *)
(* included.  Over it, one invariant for each of the three, which says how *)
(* far a request has come and what memory and document are by then.        *)
(***************************************************************************)
EXTENDS ClubsProofs

-----------------------------------------------------------------------------
(* Requests. *)

\* Where a request stands: the call it makes next.
Now(r) == Head(r.todo)

\* The calls of the hall's handlers, and of the game server's.
HallCalls == {
    "findUser", "findOwned", "exists", "incr", "set", "insertUnion", "addToSet",
    "findInviter", "findUnion", "countMember", "push", "findOther", "pull", "moveDownlines",
    "uncountMember", "debit", "credit", "record", "recordOther", "setPartner", "unLockSelf",
    "unLockOther", "panic", "lock", "update"}

SetNames == {"opening", "notice", "lottery", "rules", "hongBao"}

UnionCalls == {"getUnion", "init", "keepUnion"}
CallsOf(op) ==
    CASE op = "CreateRoom" -> UnionCalls \cup {"findUser", "inRoom", "createRoom",
                                               "storeRoom", "storeServer"}
      [] op = "JoinRoom" -> {"proxy", "rejoin", "findUser", "joinRoom", "storeRoom",
                             "storeServer"}
      [] op = "QuickJoin" -> UnionCalls \cup {"findUser", "inRoom", "quickJoin", "storeRoom",
                                              "storeServer", "panicGame"}
      [] op = "GetHongBao" -> UnionCalls \cup {"checkHongBao", "keepUid", "creditHongBao",
                                               "recordHongBao", "storeUid"}
      [] op = "LeaveRoom" -> {"leave"}
      [] op = "DismissRoom" -> UnionCalls \cup {"dismiss"}
      [] op = "UpdateLotteryStatus" -> UnionCalls \cup {"setting", "storeSetting"}
      [] OTHER -> UnionCalls \cup {"setting", "storeSetting", "cacheSetting"}

\* The call after x of a handler of the game server.
AfterUnion(op) ==
    CASE op = "CreateRoom" -> "createRoom"
      [] op = "QuickJoin" -> "quickJoin"
      [] op = "GetHongBao" -> "checkHongBao"
      [] op = "DismissRoom" -> "dismiss"
      [] OTHER -> "setting"
NextCall(op, x) ==
    CASE x \in {"getUnion", "keepUnion"} -> AfterUnion(op)
      [] x = "init" -> "keepUnion"
      [] x = "findUser" -> IF op = "JoinRoom" THEN "joinRoom" ELSE "inRoom"
      [] x = "inRoom" -> "getUnion"
      [] x = "proxy" -> "rejoin"
      [] x = "rejoin" -> "findUser"
      [] x \in {"createRoom", "joinRoom", "quickJoin"} -> "storeRoom"
      [] x = "storeRoom" -> "storeServer"
      [] x = "storeServer" -> IF op = "QuickJoin" THEN "panicGame" ELSE "end"
      [] x = "checkHongBao" -> "keepUid"
      [] x = "keepUid" -> "creditHongBao"
      [] x = "creditHongBao" -> "recordHongBao"
      [] x = "recordHongBao" -> "storeUid"
      [] x = "setting" -> "storeSetting"
      [] x = "storeSetting" -> IF op = "UpdateLotteryStatus" THEN "end" ELSE "cacheSetting"
      [] OTHER -> "end"

\* What is left of a handler of the game server.
Path(op, q) ==
    /\ q \in Seq(CallsOf(op)) /\ q # <<>>
    /\ \A i \in 1 .. Len(q) - 1 : q[i + 1] = NextCall(op, q[i])
    /\ NextCall(op, q[Len(q)]) = "end"

OnPath(r) == IF r.op \in HallOps THEN r.todo \in Seq(HallCalls) ELSE Path(r.op, r.todo)

-----------------------------------------------------------------------------
(* The documents and the memory. *)

IsSeq(q) == \E S : q \in Seq(S)

DbFields == {"users", "unions", "counters", "changes", "servers"}
DocFields == {"id", "owner", "curMember", "forbidInvite", "forbidGive", "set", "list", "uids"}
ValueFields == {"id", "data", "owner", "set", "list", "uids", "rooms"}

DocShaped(d) == DOMAIN d = DocFields /\ DOMAIN d.set = SetNames /\ IsSeq(d.uids)
DocsShaped ==
    /\ DOMAIN db = DbFields /\ IsSeq(db.unions)
    /\ \A i \in DOMAIN db.unions : DocShaped(db.unions[i])

ValueShaped(v) ==
    /\ DOMAIN v = ValueFields /\ DOMAIN v.set = SetNames /\ IsSeq(v.uids)
    /\ v.data \in BOOLEAN /\ (~v.data => v.owner = NoUser)
    /\ v.data => UnionAt(v.id) # 0
    /\ DOMAIN v.rooms # {} => v.id \in DOMAIN game.unionList
MemoryShaped ==
    /\ DOMAIN game = {"values", "unionList"} /\ IsSeq(game.values)
    /\ \A h \in DOMAIN game.values : ValueShaped(game.values[h])
    /\ \A x \in DOMAIN game.unionList : /\ game.unionList[x] \in DOMAIN game.values
                                        /\ game.values[game.unionList[x]].id = x

\* The calls that work on the value that GetUnion returned.
HandleCalls == {
    "keepUnion", "createRoom", "quickJoin", "dismiss", "checkHongBao", "keepUid",
    "creditHongBao", "recordHongBao", "storeUid", "setting", "storeSetting",
    "cacheSetting"}
HandleOk(r) ==
    Now(r) \in HandleCalls =>
        /\ r.handle \in DOMAIN game.values /\ game.values[r.handle].id = r.union
        /\ Now(r) # "keepUnion" => r.union \in DOMAIN game.unionList
        /\ Now(r) \in {"keepUid", "creditHongBao", "recordHongBao", "storeUid",
                       "storeSetting", "cacheSetting"} => game.values[r.handle].data

MemInv ==
    /\ DocsShaped /\ MemoryShaped
    /\ \A s \in Busy : OnPath(reqs[s]) /\ HandleOk(reqs[s])

-----------------------------------------------------------------------------
(* Red envelopes. *)

Once(q, u) == \A i, j \in DOMAIN q : q[i] = u /\ q[j] = u => i = j

\* A union that was loaded once.
Single(x) ==
    \A h, k \in DOMAIN game.values :
        game.values[h].id = x /\ game.values[k].id = x => h = k

\* The list is reset in memory and not yet in the document.
Resets(x) ==
    \E s \in Busy : /\ reqs[s].op = "HongBaoSetting" /\ reqs[s].union = x
                    /\ Now(reqs[s]) = "storeSetting"

TakingCalls == {"creditHongBao", "recordHongBao", "storeUid"}

\* The document lists a user once.
OnceInDocs(u) ==
    \A i \in DOMAIN db.unions : Single(db.unions[i].id) => Once(db.unions[i].uids, u)

\* Whom the document lists, memory does.
Listed(u) ==
    \A h \in DOMAIN game.values :
        LET v == game.values[h]
        IN v.data /\ Single(v.id) /\ u \in ToSet(UnionOf(v.id).uids)
              => u \in ToSet(v.uids) \/ Resets(v.id)

\* Who takes a share is not yet listed in the document.
NotYet(s, u) ==
    LET r == reqs[s]
    IN r.op = "GetHongBao" /\ r.uid = u /\ Single(r.union)
          => /\ Now(r) \in TakingCalls \cup {"keepUid"} => u \notin ToSet(UnionOf(r.union).uids)
             /\ Now(r) \in TakingCalls => u \in ToSet(game.values[r.handle].uids)

Takes1(u) == OnceInDocs(u) /\ Listed(u) /\ \A s \in Busy : NotYet(s, u)

TakesInv ==
    failed = {} => \A u \in Users : <<"hongBao", u>> \notin hist.clashed => Takes1(u)

-----------------------------------------------------------------------------
(* Settings. *)

NewVal(r) == IF r.op = "AddRoomRuleList" THEN r.id ELSE Wanted(r)
SetReq(s, name) == s \in Busy /\ reqs[s].op \in SettingOps /\ SettingOf[reqs[s].op] = name

\* One of document and memory has the new setting.
Half(r) == Now(r) = "cacheSetting" \/ (Now(r) = "storeSetting" /\ r.op = "UpdateLotteryStatus")

Agrees(name) ==
    /\ \A s \in Slots : SetReq(s, name) =>
          /\ Now(reqs[s]) = "cacheSetting" =>
                UnionOf(reqs[s].union).set[name] = NewVal(reqs[s])
          /\ Now(reqs[s]) = "storeSetting" /\ name = "lottery" =>
                game.values[reqs[s].handle].set[name] = Wanted(reqs[s])
    /\ \A h \in DOMAIN game.values :
          LET v == game.values[h]
          IN v.data /\ Single(v.id) =>
                \/ v.set[name] = UnionOf(v.id).set[name]
                \/ \E s \in Slots : SetReq(s, name) /\ reqs[s].union = v.id /\ Half(reqs[s])

SettingsInv ==
    failed = {} => \A name \in SetNames : <<"set", name>> \notin hist.clashed => Agrees(name)

-----------------------------------------------------------------------------
(* Rooms. *)

AllSingle ==
    \A h, k \in DOMAIN game.values : game.values[h].id = game.values[k].id => h = k

RoomsDistinct ==
    \A h, k \in DOMAIN game.values :
        DOMAIN game.values[h].rooms \cap DOMAIN game.values[k].rooms # {} => h = k

Inside(u, h, id) ==
    /\ h \in DOMAIN game.values /\ id \in DOMAIN game.values[h].rooms
    /\ u \in game.values[h].rooms[id]

RoomOps == {"CreateRoom", "JoinRoom", "QuickJoin", "LeaveRoom"}
RoomReq(s, u) == s \in Busy /\ reqs[s].uid = u /\ reqs[s].op \in RoomOps

StoreCalls == {"storeRoom", "storeServer"}

Placed(u) ==
    /\ \A h, k, i, j : Inside(u, h, i) /\ Inside(u, k, j) => h = k /\ i = j
    /\ \A h, i : Inside(u, h, i) =>
          \/ session[u] = i
          \/ \E s \in Slots : RoomReq(s, u) /\ Now(reqs[s]) \in StoreCalls
    /\ \A s \in Slots : RoomReq(s, u) =>
          LET r == reqs[s]
          IN /\ Now(r) \in {"proxy", "rejoin", "findUser", "inRoom"} => r.sess = session[u]
             /\ Now(r) \in UnionCalls \cup {"createRoom", "quickJoin"} =>
                   \A h, i : ~Inside(u, h, i)
             /\ \/ Now(r) \in StoreCalls \cup {"joinRoom"}
                \/ Now(r) = "findUser" /\ r.op = "JoinRoom"
                => \A h, i : Inside(u, h, i) => i = r.n

RoomInv ==
    /\ DOMAIN session = Users
    /\ AllSingle =>
          /\ RoomsDistinct
          /\ \A u \in Users \ failed : <<"room", u>> \notin hist.clashed => Placed(u)
-----------------------------------------------------------------------------
(* Sequences. *)

\* A list with one more entry.
LEMMA Appending ==
    ASSUME NEW q, IsSeq(q), NEW e
    PROVE  /\ IsSeq(Append(q, e)) /\ Len(q) \in Nat /\ DOMAIN q = 1 .. Len(q)
           /\ Len(q) + 1 \notin DOMAIN q
           /\ DOMAIN Append(q, e) = DOMAIN q \cup {Len(q) + 1}
           /\ Append(q, e)[Len(q) + 1] = e
           /\ \A i \in DOMAIN q : Append(q, e)[i] = q[i]
  <1>1. PICK S : q \in Seq(S)
    BY DEF IsSeq
  <1>2. q \in Seq(S \cup {e}) /\ e \in S \cup {e}
    BY <1>1
  <1>. DEFINE T == S \cup {e}
  <1>. HIDE DEF T
  <1>3. q \in Seq(T) /\ e \in T
    BY <1>2 DEF T
  <1>4. /\ Append(q, e) \in Seq(T) /\ Len(q) \in Nat /\ DOMAIN q = 1 .. Len(q)
        /\ DOMAIN Append(q, e) = 1 .. Len(q) + 1
        /\ Append(q, e)[Len(q) + 1] = e
        /\ \A i \in 1 .. Len(q) : Append(q, e)[i] = q[i]
    BY <1>3
  <1>5. 1 .. Len(q) + 1 = (1 .. Len(q)) \cup {Len(q) + 1} /\ Len(q) + 1 \notin 1 .. Len(q)
    BY <1>4
  <1>. QED  BY <1>4, <1>5 DEF IsSeq

\* A list in which one entry is replaced.
LEMMA Replacing ==
    ASSUME NEW q, IsSeq(q), NEW i \in DOMAIN q, NEW e
    PROVE  /\ IsSeq([q EXCEPT ![i] = e]) /\ DOMAIN [q EXCEPT ![i] = e] = DOMAIN q
           /\ [q EXCEPT ![i] = e][i] = e
           /\ \A j \in DOMAIN q \ {i} : [q EXCEPT ![i] = e][j] = q[j]
  <1>1. PICK S : q \in Seq(S)
    BY DEF IsSeq
  <1>2. [q EXCEPT ![i] = e] \in Seq(S \cup {e})
    BY <1>1
  <1>. QED  BY <1>2 DEF IsSeq

\* UnionAt of a list of documents.
DocAt(q, x) == SelectInSeq(q, LAMBDA d : d.id = x)

\* It finds the first document of a union.
LEMMA DocAtIs ==
    ASSUME NEW q, IsSeq(q), NEW x
    PROVE  \/ DocAt(q, x) = 0 /\ \A i \in DOMAIN q : q[i].id # x
           \/ /\ DocAt(q, x) \in DOMAIN q /\ DocAt(q, x) # 0
              /\ q[DocAt(q, x)].id = x
              /\ \A i \in DOMAIN q : q[i].id = x => DocAt(q, x) <= i
  <1>. DEFINE I == {i \in 1 .. Len(q) : q[i].id = x}
  <1>1. DocAt(q, x) = IF I # {} THEN Min(I) ELSE 0
    BY DEF DocAt, SelectInSeq
  <1>2. DOMAIN q = 1 .. Len(q) /\ Len(q) \in Nat
    BY DEF IsSeq
  <1>3. I # {} => Min(I) \in I /\ \A k \in I : Min(I) <= k
    <2>1. I \in SUBSET Nat
      BY <1>2
    <2>. HIDE DEF I
    <2>. QED  BY <2>1, LeastExists DEF Min
  <1>4. 0 \notin DOMAIN q
    BY <1>2
  <1>. QED  BY <1>1, <1>2, <1>3, <1>4

\* Where documents are only added, the first of a union stays the first.
LEMMA DocAtStays ==
    ASSUME NEW q, NEW p, IsSeq(q), IsSeq(p), NEW x, DocAt(q, x) # 0,
           DOMAIN q \subseteq DOMAIN p,
           \A i \in DOMAIN q : p[i].id = q[i].id
    PROVE  DocAt(p, x) = DocAt(q, x)
  <1>. DEFINE k == DocAt(q, x)
              j == DocAt(p, x)
  <1>1. /\ k \in DOMAIN q /\ q[k].id = x
        /\ \A i \in DOMAIN q : q[i].id = x => k <= i
    BY DocAtIs
  <1>2. \/ j = 0 /\ \A i \in DOMAIN p : p[i].id # x
        \/ /\ j \in DOMAIN p /\ j # 0 /\ p[j].id = x
           /\ \A i \in DOMAIN p : p[i].id = x => j <= i
    BY DocAtIs
  <1>3. /\ DOMAIN q = 1 .. Len(q) /\ Len(q) \in Nat
        /\ DOMAIN p = 1 .. Len(p) /\ Len(p) \in Nat
    BY DEF IsSeq
  <1>. HIDE DEF k, j
  <1>4. k \in DOMAIN p /\ p[k].id = x
    BY <1>1
  <1>5. j \in DOMAIN p /\ j <= k /\ p[j].id = x
    BY <1>2, <1>4
  <1>6. j \in DOMAIN q
    BY <1>1, <1>3, <1>5
  <1>7. k <= j /\ k \in Nat /\ j \in Nat
    BY <1>1, <1>3, <1>5, <1>6
  <1>8. k = j
    BY <1>5, <1>7
  <1>. QED  BY <1>8 DEF k, j

\* UnionAt and UnionOf are about the list of the documents.
ByPlace ==
    \A x : /\ UnionAt(x) = DocAt(db.unions, x)
           /\ UnionOf(x) = db.unions[DocAt(db.unions, x)]

\* UnionAt and UnionOf find the first document of a union.
LEMMA UnionAtIs == ByPlace
  <1>1. \A x : UnionAt(x) = DocAt(db.unions, x)
    BY DEF UnionAt, DocAt
  <1>2. \A x : UnionOf(x) = db.unions[UnionAt(x)]
    BY DEF UnionOf
  <1>. QED  BY <1>1, <1>2 DEF ByPlace

\* They do in the next state.
LEMMA UnionAtIsNext == ByPlace'
  BY UnionAtIs, PTL

-----------------------------------------------------------------------------
(* The courses of the game server's handlers. *)

\* The handlers that make a call.
LEMMA WhoCalls ==
    ASSUME NEW op \in GameOps, NEW x \in CallsOf(op)
    PROVE  /\ x # "end" /\ x \notin HallCalls \ {"findUser"}
           /\ x = "createRoom" => op = "CreateRoom"
           /\ x \in {"proxy", "rejoin", "joinRoom"} => op = "JoinRoom"
           /\ x \in {"quickJoin", "panicGame"} => op = "QuickJoin"
           /\ x = "inRoom" => op \in {"CreateRoom", "QuickJoin"}
           /\ x = "findUser" => op \in {"CreateRoom", "QuickJoin", "JoinRoom"}
           /\ x \in StoreCalls => op \in {"CreateRoom", "QuickJoin", "JoinRoom"}
           /\ x = "leave" => op = "LeaveRoom"
           /\ x = "dismiss" => op = "DismissRoom"
           /\ x \in TakingCalls \cup {"checkHongBao", "keepUid"} => op = "GetHongBao"
           /\ x \in {"setting", "storeSetting", "cacheSetting"} => op \in SettingOps
           /\ x = "cacheSetting" => op # "UpdateLotteryStatus"
           /\ op \in RoomOps /\ x \in UnionCalls => op \in {"CreateRoom", "QuickJoin"}
  BY OpsByName DEF CallsOf, UnionCalls, HallCalls, StoreCalls, TakingCalls, RoomOps

\* A handler goes on with calls of its own.
LEMMA NextIsCall ==
    ASSUME NEW op \in GameOps, NEW x \in CallsOf(op), NextCall(op, x) # "end"
    PROVE  NextCall(op, x) \in CallsOf(op)
  <1>1. CASE op \in {"CreateRoom", "JoinRoom", "QuickJoin"}
    BY <1>1 DEF CallsOf, UnionCalls, NextCall, AfterUnion
  <1>2. CASE op \in {"GetHongBao", "LeaveRoom", "DismissRoom"}
    BY <1>2 DEF CallsOf, UnionCalls, NextCall, AfterUnion
  <1>3. CASE op \in SettingOps
    BY <1>3, OpsByName DEF CallsOf, UnionCalls, NextCall, AfterUnion
  <1>. QED  BY <1>1, <1>2, <1>3, OpsByName

\* What is left after a call.
LEMMA PathOn ==
    ASSUME NEW op \in GameOps, NEW q, Path(op, q)
    PROVE  /\ q # <<>> /\ Head(q) \in CallsOf(op)
           /\ NextCall(op, Head(q)) = "end" => Tail(q) = <<>>
           /\ NextCall(op, Head(q)) # "end" =>
                 Tail(q) # <<>> /\ Path(op, Tail(q)) /\ Head(Tail(q)) = NextCall(op, Head(q))
  <1>. DEFINE C == CallsOf(op)
              t == Tail(q)
  <1>1. /\ q \in Seq(C) /\ q # <<>>
        /\ \A i \in 1 .. Len(q) - 1 : q[i + 1] = NextCall(op, q[i])
        /\ NextCall(op, q[Len(q)]) = "end"
    BY DEF Path
  <1>2. \A x \in C : x # "end"
    BY WhoCalls
  <1>. HIDE DEF C
  <1>3. /\ Len(q) \in Nat /\ Len(q) > 0 /\ Head(q) = q[1] /\ Head(q) \in C
        /\ t \in Seq(C) /\ Len(t) = Len(q) - 1
        /\ \A i \in 1 .. Len(q) - 1 : t[i] = q[i + 1]
        /\ \A i \in 1 .. Len(q) : q[i] \in C
    BY <1>1
  <1>. HIDE DEF t
  <1>4. CASE Len(q) = 1
    <2>1. t = <<>>
      BY <1>3, <1>4
    <2>. QED  BY <1>1, <1>3, <1>4, <2>1 DEF t, C
  <1>5. CASE Len(q) # 1
    <2>1. Len(t) \in Nat /\ Len(t) > 0 /\ t # <<>> /\ Head(t) = t[1]
      BY <1>3, <1>5
    <2>2. 1 \in 1 .. Len(q) - 1 /\ t[1] = q[2] /\ q[2] = NextCall(op, q[1]) /\ q[2] \in C
      BY <1>1, <1>3, <1>5
    <2>3. NextCall(op, q[1]) # "end"
      BY <1>2, <2>2
    <2>4. \A i \in 1 .. Len(t) - 1 : t[i + 1] = NextCall(op, t[i])
      <3>. SUFFICES ASSUME NEW i \in 1 .. Len(t) - 1
                    PROVE  t[i + 1] = NextCall(op, t[i])
        OBVIOUS
      <3>1. i \in 1 .. Len(q) - 1 /\ i + 1 \in 1 .. Len(q) - 1
        BY <1>3
      <3>2. t[i] = q[i + 1] /\ t[i + 1] = q[i + 1 + 1]
        BY <1>3, <3>1
      <3>3. q[i + 1 + 1] = NextCall(op, q[i + 1])
        BY <1>1, <3>1
      <3>. QED  BY <3>2, <3>3
    <2>5. t[Len(t)] = q[Len(q)]
      <3>1. Len(t) \in 1 .. Len(q) - 1 /\ Len(t) + 1 = Len(q)
        BY <1>3, <2>1
      <3>. QED  BY <1>3, <3>1
    <2>6. Path(op, t)
      BY <1>1, <1>3, <2>1, <2>4, <2>5 DEF Path, C
    <2>. QED  BY <1>1, <1>3, <2>1, <2>2, <2>3, <2>6 DEF t, C
  <1>. QED  BY <1>4, <1>5

\* A handler that loads the union first.
LEMMA PathDetour ==
    ASSUME NEW op \in GameOps, NEW q, Path(op, q), Head(q) = "getUnion"
    PROVE  LET p == <<"init", "keepUnion">> \o Tail(q)
           IN Path(op, p) /\ p # <<>> /\ Head(p) = "init"
  <1>. DEFINE C == CallsOf(op)
              t == Tail(q)
              p == <<"init", "keepUnion">> \o t
  <1>1. "getUnion" \in C
    BY PathOn
  <1>2. "init" \in C /\ "keepUnion" \in C
    BY <1>1, OpsByName DEF CallsOf, UnionCalls
  <1>3. /\ NextCall(op, "init") = "keepUnion"
        /\ NextCall(op, "keepUnion") = AfterUnion(op)
        /\ NextCall(op, "getUnion") = AfterUnion(op)
    BY DEF NextCall
  <1>4. AfterUnion(op) # "end"
    BY DEF AfterUnion
  <1>5. t # <<>> /\ Path(op, t) /\ Head(t) = AfterUnion(op)
    BY <1>3, <1>4, PathOn
  <1>6. /\ t \in Seq(C) /\ Len(t) \in Nat /\ Len(t) > 0 /\ t[1] = AfterUnion(op)
        /\ \A i \in 1 .. Len(t) - 1 : t[i + 1] = NextCall(op, t[i])
        /\ NextCall(op, t[Len(t)]) = "end"
    BY <1>5 DEF Path
  <1>. HIDE DEF t, C
  <1>7. /\ p \in Seq(C) /\ Len(p) = Len(t) + 2 /\ p # <<>> /\ Head(p) = p[1]
        /\ p[1] = "init" /\ p[2] = "keepUnion"
        /\ \A i \in 1 .. Len(t) : p[i + 2] = t[i]
    BY <1>2, <1>6
  <1>. HIDE DEF p
  <1>8. \A i \in 1 .. Len(p) - 1 : p[i + 1] = NextCall(op, p[i])
    <2>. SUFFICES ASSUME NEW i \in 1 .. Len(p) - 1
                  PROVE  p[i + 1] = NextCall(op, p[i])
      OBVIOUS
    <2>1. CASE i = 1
      BY <1>3, <1>7, <2>1
    <2>2. CASE i = 2
      <3>1. p[1 + 2] = t[1]
        BY <1>6, <1>7
      <3>. QED  BY <1>3, <1>6, <1>7, <2>2, <3>1
    <2>3. CASE i # 1 /\ i # 2
      <3>. DEFINE j == i - 2
      <3>1. j \in 1 .. Len(t) - 1 /\ j \in 1 .. Len(t) /\ j + 1 \in 1 .. Len(t)
            /\ j + 2 = i /\ (j + 1) + 2 = i + 1
        BY <1>6, <1>7, <2>3
      <3>. HIDE DEF j
      <3>2. p[i] = t[j] /\ p[i + 1] = t[j + 1]
        BY <1>7, <3>1
      <3>. QED  BY <1>6, <3>1, <3>2
    <2>. QED  BY <2>1, <2>2, <2>3
  <1>9. p[Len(p)] = t[Len(t)]
    BY <1>6, <1>7
  <1>. QED  BY <1>6, <1>7, <1>8, <1>9 DEF Path, p, t, C

-----------------------------------------------------------------------------
(* What becomes of a request. *)

OthersWait(s) == DOMAIN reqs' = Slots /\ \A p \in Slots \ {s} : reqs'[p] = reqs[p]
Quits(s) == OthersWait(s) /\ reqs'[s] = Idle

\* It is k, at the call x.
Turns(s, k, x) ==
    /\ OthersWait(s) /\ DOMAIN reqs'[s] = Fields /\ reqs'[s] # Idle
    /\ Now(reqs'[s]) = x /\ OnPath(reqs'[s])
    /\ reqs'[s].op = k.op /\ reqs'[s].uid = k.uid /\ reqs'[s].union = k.union
    /\ reqs'[s].n = k.n /\ reqs'[s].id = k.id /\ reqs'[s].sess = k.sess
    /\ reqs'[s].handle = k.handle

\* It is at work, and its handler one of the game server's.
Plays(s) == Shaped /\ MemInv /\ s \in Busy /\ reqs[s].op \in GameOps

\* A request is told from no request.
LEMMA IdleIsNot == ASSUME NEW k, DOMAIN k = Fields PROVE k # Idle
  <1>1. DOMAIN Idle = {"op"}
    BY DEF Idle
  <1>. QED  BY <1>1 DEF Fields

\* The handlers of the two servers are not the same, and settings are the game
\* server's.
LEMMA GameIsNotHall == GameOps \cap HallOps = {} /\ SettingOps \subseteq GameOps
  BY OpsByName

\* A request that plays.
LEMMA PlayerIs ==
    ASSUME NEW s, Plays(s)
    PROVE  /\ s \in Slots /\ DOMAIN reqs = Slots /\ DOMAIN reqs[s] = Fields /\ reqs[s] # Idle
           /\ Path(reqs[s].op, reqs[s].todo) /\ reqs[s].todo # <<>>
           /\ Now(reqs[s]) \in CallsOf(reqs[s].op) /\ reqs[s].op \notin HallOps
           /\ reqs[s].uid \in Users
           /\ \A x : At(s, x) <=> Now(reqs[s]) = x
  <1>1. /\ s \in Slots /\ DOMAIN reqs = Slots /\ DOMAIN reqs[s] = Fields /\ reqs[s] # Idle
        /\ reqs[s].todo # <<>> /\ reqs[s].uid \in Users /\ reqs[s].op \in GameOps
    BY DEF Plays, Shaped, Busy, Formed
  <1>2. reqs[s].op \notin HallOps
    BY <1>1, GameIsNotHall
  <1>3. Path(reqs[s].op, reqs[s].todo)
    BY <1>2 DEF Plays, MemInv, OnPath
  <1>4. Now(reqs[s]) \in CallsOf(reqs[s].op)
    BY <1>1, <1>3, PathOn DEF Now
  <1>5. \A x : At(s, x) <=> Now(reqs[s]) = x
    BY <1>1 DEF At, Steps, Now
  <1>. QED  BY <1>1, <1>2, <1>3, <1>4, <1>5

\* Then, to a course of the game server.
LEMMA PathTurns ==
    ASSUME NEW s, Plays(s), NEW k, DOMAIN k = Fields, k.op = reqs[s].op,
           NEW q, Then(s, k, q)
    PROVE  /\ q = <<>> => Quits(s)
           /\ q # <<>> /\ Path(k.op, q) => Turns(s, k, Head(q))
  <1>. DEFINE e == [k EXCEPT !.todo = q]
  <1>1. /\ DOMAIN e = Fields /\ e.todo = q /\ e.op = k.op /\ e.uid = k.uid
        /\ e.union = k.union /\ e.n = k.n /\ e.id = k.id /\ e.sess = k.sess
        /\ e.handle = k.handle
    BY DEF Fields
  <1>2. reqs' = [reqs EXCEPT ![s] = IF q = <<>> THEN Idle ELSE e]
    BY DEF Then
  <1>3. e # Idle
    BY <1>1, IdleIsNot
  <1>4. Path(k.op, q) => OnPath(e)
    BY <1>1, PlayerIs DEF OnPath
  <1>. HIDE DEF e
  <1>5. DOMAIN reqs = Slots /\ s \in Slots
    BY PlayerIs
  <1>6. OthersWait(s) /\ reqs'[s] = IF q = <<>> THEN Idle ELSE e
    BY <1>2, <1>5 DEF OthersWait
  <1>7. CASE q = <<>>
    BY <1>6, <1>7 DEF Quits
  <1>8. CASE q # <<>>
    <2>1. reqs'[s] = e
      BY <1>6, <1>8
    <2>2. Path(k.op, q) => Turns(s, k, Head(q))
      BY <1>1, <1>3, <1>4, <1>6, <2>1 DEF Turns, Now
    <2>. QED  BY <1>8, <2>2
  <1>. QED  BY <1>7, <1>8

\* The ways on.
LEMMA GameTurns ==
    ASSUME NEW s, Plays(s)
    PROVE  /\ Refuse(s) => Quits(s)
           /\ \A k : DOMAIN k = Fields /\ k.op = reqs[s].op /\ k.todo = reqs[s].todo =>
                 LET x == NextCall(reqs[s].op, Now(reqs[s]))
                 IN /\ GoOn(s, k) \/ Then(s, k, Tail(reqs[s].todo)) =>
                          /\ x = "end" => Quits(s)
                          /\ x # "end" => Turns(s, k, x)
                    /\ /\ Now(reqs[s]) \in {"joinRoom", "quickJoin"}
                       /\ Then(s, k, Tail(Tail(reqs[s].todo)))
                       => Turns(s, k, "storeServer")
                    /\ /\ Now(reqs[s]) = "getUnion"
                       /\ Then(s, k, <<"init", "keepUnion">> \o Tail(reqs[s].todo))
                       => Turns(s, k, "init")
  <1>. DEFINE r == reqs[s]
              op == r.op
              x == NextCall(op, Now(r))
              t == Tail(r.todo)
              p == <<"init", "keepUnion">> \o t
  <1>1. DOMAIN r = Fields /\ Path(op, r.todo) /\ op \in GameOps
    BY PlayerIs DEF Plays
  <1>2. /\ x = "end" => t = <<>>
        /\ x # "end" => t # <<>> /\ Path(op, t) /\ Head(t) = x
    BY <1>1, PathOn DEF Now
  <1>3. Refuse(s) => Quits(s)
    BY <1>1, PathTurns DEF Refuse
  <1>4. Now(r) = "getUnion" => Path(op, p) /\ p # <<>> /\ Head(p) = "init"
    BY <1>1, PathDetour DEF Now
  <1>. HIDE DEF p, t, x
  <1>5. ASSUME NEW k, DOMAIN k = Fields, k.op = op, k.todo = r.todo
        PROVE  /\ GoOn(s, k) \/ Then(s, k, t) =>
                     /\ x = "end" => Quits(s)
                     /\ x # "end" => Turns(s, k, x)
               /\ Now(r) \in {"joinRoom", "quickJoin"} /\ Then(s, k, Tail(t))
                  => Turns(s, k, "storeServer")
               /\ Now(r) = "getUnion" /\ Then(s, k, p) => Turns(s, k, "init")
    <2>1. GoOn(s, k) => Then(s, k, t)
      BY <1>5 DEF GoOn, t
    <2>2. Then(s, k, t) => (x = "end" => Quits(s)) /\ (x # "end" => Turns(s, k, x))
      BY <1>2, <1>5, PathTurns
    <2>3. ASSUME Now(r) \in {"joinRoom", "quickJoin"}, Then(s, k, Tail(t))
          PROVE  Turns(s, k, "storeServer")
      <3>1. x = "storeRoom"
        BY <2>3 DEF x, NextCall
      <3>2. t # <<>> /\ Path(op, t) /\ Head(t) = "storeRoom"
        BY <1>2, <3>1
      <3>3. NextCall(op, "storeRoom") = "storeServer"
        BY DEF NextCall
      <3>4. Tail(t) # <<>> /\ Path(op, Tail(t)) /\ Head(Tail(t)) = "storeServer"
        BY <1>1, <3>2, <3>3, PathOn
      <3>. QED  BY <1>5, <2>3, <3>4, PathTurns
    <2>4. Now(r) = "getUnion" /\ Then(s, k, p) => Turns(s, k, "init")
      BY <1>4, <1>5, PathTurns
    <2>. QED  BY <2>1, <2>2, <2>3, <2>4
  <1>. QED  BY <1>3, <1>5 DEF p, t, x

\* It may remember a handle, an id, a room or the unions it read.
LEMMA Recalls ==
    ASSUME NEW s, Plays(s)
    PROVE  \A x :
             LET r == reqs[s]
             IN /\ DOMAIN [r EXCEPT !.handle = x] = Fields /\ [r EXCEPT !.handle = x].op = r.op
                /\ [r EXCEPT !.handle = x].todo = r.todo
                /\ DOMAIN [r EXCEPT !.id = x] = Fields /\ [r EXCEPT !.id = x].op = r.op
                /\ [r EXCEPT !.id = x].todo = r.todo
                /\ DOMAIN [r EXCEPT !.n = x] = Fields /\ [r EXCEPT !.n = x].op = r.op
                /\ [r EXCEPT !.n = x].todo = r.todo
                /\ DOMAIN [r EXCEPT !.unions = x] = Fields /\ [r EXCEPT !.unions = x].op = r.op
                /\ [r EXCEPT !.unions = x].todo = r.todo
  <1>1. DOMAIN reqs[s] = Fields
    BY PlayerIs
  <1>. QED  BY <1>1 DEF Fields

-----------------------------------------------------------------------------
(* The requests of the hall. *)

Works(s) == Shaped /\ MemInv /\ s \in Busy /\ reqs[s].op \in HallOps

\* It goes on in the hall.
HallTurns(s) ==
    /\ OthersWait(s) /\ DOMAIN reqs'[s] = Fields /\ reqs'[s] # Idle
    /\ reqs'[s].op = reqs[s].op /\ reqs'[s].uid = reqs[s].uid /\ OnPath(reqs'[s])
    /\ Now(reqs'[s]) \in HallCalls

\* The documents of the unions are what they were, but for members.
DocsStay(d) ==
    /\ DOMAIN d = DbFields /\ IsSeq(d.unions) /\ DOMAIN d.unions = DOMAIN db.unions
    /\ \A i \in DOMAIN db.unions :
          /\ DocShaped(d.unions[i])
          /\ d.unions[i].id = db.unions[i].id /\ d.unions[i].set = db.unions[i].set
          /\ d.unions[i].uids = db.unions[i].uids

\* Or there is one more.
DocAdded(d) ==
    /\ DOMAIN d = DbFields
    /\ \E x, u : d.unions = Append(db.unions, NewUnion(x, u))

\* The ways of the hall.
LEMMA HallWays ==
    ASSUME NEW s, Works(s)
    PROVE  /\ Refuse(s) => Quits(s)
           /\ \A k : DOMAIN k = Fields /\ k.op = reqs[s].op /\ k.uid = reqs[s].uid
                     /\ k.todo = reqs[s].todo =>
                 /\ GoOn(s, k) => Quits(s) \/ HallTurns(s)
                 /\ \A q \in Seq(HallCalls) : Then(s, k, q) => Quits(s) \/ HallTurns(s)
           /\ <<"set">> \o Tail(reqs[s].todo) \in Seq(HallCalls)
           /\ Head(reqs[s].todo) \in HallCalls
           /\ DOMAIN reqs[s] = Fields /\ s \in Slots /\ reqs[s].uid \in Users
           /\ reqs[s].other \in Users /\ reqs[s].op \notin GameOps
           /\ \A x : At(s, x) <=> Now(reqs[s]) = x
  <1>. DEFINE r == reqs[s]
  <1>1. /\ s \in Slots /\ DOMAIN reqs = Slots /\ DOMAIN r = Fields /\ r # Idle
        /\ r.todo # <<>> /\ r.uid \in Users /\ r.other \in Users /\ r.op \in HallOps
    BY DEF Works, Shaped, Busy, Formed
  <1>2. r.todo \in Seq(HallCalls)
    BY <1>1 DEF Works, MemInv, OnPath
  <1>3. "set" \in HallCalls
    BY DEF HallCalls
  <1>4. Tail(r.todo) \in Seq(HallCalls) /\ Head(r.todo) \in HallCalls
    BY <1>1, <1>2
  <1>5. <<"set">> \o Tail(r.todo) \in Seq(HallCalls)
    BY <1>3, <1>4
  <1>6. ASSUME NEW k, DOMAIN k = Fields, k.op = r.op, k.uid = r.uid,
               NEW q \in Seq(HallCalls), Then(s, k, q)
        PROVE  Quits(s) \/ HallTurns(s)
    <2>. DEFINE e == [k EXCEPT !.todo = q]
    <2>1. DOMAIN e = Fields /\ e.todo = q /\ e.op = k.op /\ e.uid = k.uid
      BY <1>6 DEF Fields
    <2>2. reqs' = [reqs EXCEPT ![s] = IF q = <<>> THEN Idle ELSE e]
      BY <1>6 DEF Then
    <2>3. e # Idle /\ OnPath(e)
      BY <1>1, <1>6, <2>1, IdleIsNot DEF OnPath
    <2>. HIDE DEF e
    <2>4. OthersWait(s) /\ reqs'[s] = IF q = <<>> THEN Idle ELSE e
      BY <1>1, <2>2 DEF OthersWait
    <2>5. q # <<>> => Now(e) \in HallCalls
      BY <1>6, <2>1 DEF Now
    <2>. QED  BY <1>6, <2>1, <2>3, <2>4, <2>5 DEF Quits, HallTurns
  <1>7. Refuse(s) => Quits(s)
    <2>1. Refuse(s) => reqs' = [reqs EXCEPT ![s] = Idle]
      BY DEF Refuse, Then
    <2>. QED  BY <1>1, <2>1 DEF Quits, OthersWait
  <1>8. r.op \notin GameOps
    BY <1>1, GameIsNotHall
  <1>9. \A x : At(s, x) <=> Now(r) = x
    BY <1>1 DEF At, Steps, Now
  <1>. HIDE DEF r
  <1>10. \A k : GoOn(s, k) <=> Then(s, k, Tail(k.todo))
    BY DEF GoOn
  <1>. QED  BY <1>1, <1>4, <1>5, <1>6, <1>7, <1>8, <1>9, <1>10 DEF r

\* What it may remember.
LEMMA HallRecalls ==
    ASSUME NEW r, DOMAIN r = Fields
    PROVE  /\ \A x : \A k \in {[r EXCEPT !.owner = x], [r EXCEPT !.spreader = x],
                               [r EXCEPT !.union = x], [r EXCEPT !.id = x],
                               [r EXCEPT !.holds = x]} :
                DOMAIN k = Fields /\ k.op = r.op /\ k.uid = r.uid /\ k.todo = r.todo
           /\ \A x, y : LET k == [r EXCEPT !.spreader = x, !.union = y]
                        IN DOMAIN k = Fields /\ k.op = r.op /\ k.uid = r.uid /\ k.todo = r.todo
  BY DEF Fields

\* A step of the hall goes on in the hall, or panics.
LEMMA HallGoes ==
    ASSUME NEW s, Works(s), SharedStep(s) \/ HallStep(s), ~Panic(s)
    PROVE  Quits(s) \/ HallTurns(s)
  <1>. DEFINE r == reqs[s]
              Fine == Quits(s) \/ HallTurns(s)
  <1>0. /\ Refuse(s) => Fine
        /\ \A k : DOMAIN k = Fields /\ k.op = r.op /\ k.uid = r.uid /\ k.todo = r.todo =>
              /\ GoOn(s, k) => Fine
              /\ \A q \in Seq(HallCalls) : Then(s, k, q) => Fine
        /\ <<"set">> \o Tail(r.todo) \in Seq(HallCalls)
        /\ DOMAIN r = Fields
    BY HallWays
  <1>a. /\ <<"unLockSelf">> \in Seq(HallCalls)
        /\ <<"unLockSelf", "unLockOther">> \in Seq(HallCalls)
        /\ <<"unLockSelf", "credit", "record">> \in Seq(HallCalls)
        /\ <<"unLockSelf", "credit", "record", "recordOther">> \in Seq(HallCalls)
        /\ <<"credit", "panic">> \in Seq(HallCalls)
    BY DEF HallCalls
  <1>. DEFINE Kin(k) == DOMAIN k = Fields /\ k.op = r.op /\ k.uid = r.uid /\ k.todo = r.todo
  <1>b. /\ \A x : /\ Kin([r EXCEPT !.owner = x]) /\ Kin([r EXCEPT !.spreader = x])
                  /\ Kin([r EXCEPT !.union = x]) /\ Kin([r EXCEPT !.id = x])
                  /\ Kin([r EXCEPT !.holds = x])
        /\ \A x, y : Kin([r EXCEPT !.spreader = x, !.union = y])
        /\ Kin(r)
    BY <1>0, HallRecalls
  <1>c. \A k : Kin(k) => /\ GoOn(s, k) => Fine
                         /\ \A q \in Seq(HallCalls) : Then(s, k, q) => Fine
    BY <1>0
  <1>. HIDE DEF r, Fine, Kin
  <1>1. CASE UnLockSelf(s) \/ UnLockOther(s) \/ SetBegin(s) \/ InsertUnion(s) \/ AddToSet(s)
             \/ CountMember(s) \/ Push(s) \/ Pull(s) \/ Downlines(s) \/ UncountMember(s)
             \/ Record(s) \/ RecordOther(s)
    <2>1. GoOn(s, r) \/ GoOn(s, [r EXCEPT !.holds = FALSE])
      BY <1>1 DEF UnLockSelf, UnLockOther, SetBegin, InsertUnion, AddToSet, CountMember, Push,
                  Pull, Downlines, UncountMember, Record, RecordOther, r
    <2>. QED  BY <1>b, <1>c, <2>1 DEF Fine
  <1>2. CASE Exists(s) \/ Incr(s)
    <2>1. \/ Then(s, r, <<"set">> \o Tail(r.todo)) \/ GoOn(s, r)
          \/ \E x : GoOn(s, [r EXCEPT !.union = x]) \/ GoOn(s, [r EXCEPT !.id = x])
      BY <1>2 DEF Exists, Incr, r
    <2>. QED  BY <1>0, <1>b, <1>c, <2>1 DEF Fine
  <1>3. CASE FindUnion(s) \/ FindInviter(s) \/ FindOwned(s)
    <2>1. \/ Refuse(s) \/ GoOn(s, r)
          \/ \E x : GoOn(s, [r EXCEPT !.owner = x])
          \/ \E x, y : GoOn(s, [r EXCEPT !.spreader = x, !.union = y])
      BY <1>3 DEF FindUnion, FindInviter, FindOwned, r
    <2>. QED  BY <1>0, <1>b, <1>c, <2>1 DEF Fine
  <1>4. CASE FindUser(s)
    <2>1. \/ Refuse(s) \/ GoOn(s, r) \/ Then(s, r, <<"unLockSelf">>)
          \/ \E x : GoOn(s, [r EXCEPT !.spreader = x])
      BY <1>4 DEF FindUser, r
    <2>. QED  BY <1>0, <1>a, <1>b, <1>c, <2>1 DEF Fine
  <1>5. CASE FindOther(s)
    <2>1. \/ Refuse(s) \/ GoOn(s, r) \/ Then(s, r, <<"unLockSelf">>)
          \/ Then(s, r, <<"unLockSelf", "unLockOther">>)
          \/ Then(s, r, <<"unLockSelf", "credit", "record">>)
          \/ Then(s, r, <<"unLockSelf", "credit", "record", "recordOther">>)
      BY <1>5 DEF FindOther, r
    <2>. QED  BY <1>0, <1>a, <1>b, <1>c, <2>1 DEF Fine
  <1>6. CASE SetPartner(s) \/ UpdateSafe(s) \/ Credit(s)
    <2>1. Refuse(s) \/ GoOn(s, r)
      BY <1>6 DEF SetPartner, UpdateSafe, Credit, Fail, r
    <2>. QED  BY <1>0, <1>b, <1>c, <2>1 DEF Fine
  <1>7. CASE Lock(s)
    <2>. DEFINE k == [r EXCEPT !.holds = TRUE]
    <2>1. Refuse(s) \/ GoOn(s, k) \/ Then(s, k, <<"unLockSelf">>)
      BY <1>7 DEF Lock, r
    <2>2. Kin(k)
      BY <1>b
    <2>. HIDE DEF k
    <2>. QED  BY <1>0, <1>a, <1>c, <2>1, <2>2 DEF Fine
  <1>8. CASE Debit(s)
    <2>1. \/ Refuse(s) \/ GoOn(s, r) \/ GoOn(s, [r EXCEPT !.holds = FALSE])
          \/ Then(s, r, <<"credit", "panic">>)
      BY <1>8 DEF Debit, Fail, r
    <2>. QED  BY <1>0, <1>a, <1>b, <1>c, <2>1 DEF Fine
  <1>9. CASE HallFault(s)
    <2>1. \/ Refuse(s) \/ GoOn(s, r) \/ GoOn(s, [r EXCEPT !.holds = FALSE])
          \/ Then(s, r, <<"credit", "panic">>) \/ Then(s, r, <<"set">> \o Tail(r.todo))
      BY <1>9 DEF HallFault, r
    <2>. QED  BY <1>0, <1>a, <1>b, <1>c, <2>1 DEF Fine
  <1>. QED
    BY <1>1, <1>2, <1>3, <1>4, <1>5, <1>6, <1>7, <1>8, <1>9 DEF SharedStep, HallStep, Fine

\* Calls that are not about a union's document leave them alone.
LEMMA SameUnions ==
    ASSUME DocsShaped, NEW d, DOMAIN d = DOMAIN db, d.unions = db.unions
    PROVE  DocsStay(d)
  BY DEF DocsShaped, DocsStay

\* The count of members is no setting.
LEMMA CountingKeeps ==
    ASSUME DocsShaped, NEW x, NEW n
    PROVE  DocsStay(IncMember(db, x, n))
  <1>1. CASE UnionAt(x) = 0
    BY <1>1, SameUnions DEF IncMember
  <1>2. CASE UnionAt(x) # 0
    <2>. DEFINE k == UnionAt(x)
                e == [db.unions[k] EXCEPT !.curMember = @ + n]
                q == [db.unions EXCEPT ![k] = e]
                d == [db EXCEPT !.unions = q]
    <2>1. IncMember(db, x, n) = d
      BY <1>2 DEF IncMember
    <2>2. k \in DOMAIN db.unions
      BY <1>2, DocAtIs, UnionAtIs DEF ByPlace, DocsShaped
    <2>3. /\ DOMAIN e = DocFields /\ e.id = db.unions[k].id /\ e.set = db.unions[k].set
          /\ e.uids = db.unions[k].uids
      BY <2>2 DEF DocsShaped, DocShaped, DocFields
    <2>. HIDE DEF e, k
    <2>4. IsSeq(q) /\ DOMAIN q = DOMAIN db.unions /\ q[k] = e
          /\ \A j \in DOMAIN db.unions \ {k} : q[j] = db.unions[j]
      BY <2>2, Replacing DEF DocsShaped
    <2>. HIDE DEF q
    <2>5. DOMAIN d = DbFields /\ d.unions = q
      BY DEF DocsShaped, DbFields
    <2>. HIDE DEF d
    <2>6. DocShaped(e)
      BY <2>2, <2>3 DEF DocsShaped, DocShaped
    <2>7. DocsStay(d)
      BY <2>2, <2>3, <2>4, <2>5, <2>6 DEF DocsStay, DocsShaped
    <2>. QED  BY <2>1, <2>7
  <1>. QED  BY <1>1, <1>2

\* What the hall does to the documents of unions.
LEMMA HallDocs ==
    ASSUME DocsShaped, NEW s, SharedStep(s) \/ HallStep(s)
    PROVE  DocsStay(db') \/ (DocAdded(db') /\ InsertUnion(s))
  <1>. DEFINE Same == DOMAIN db' = DOMAIN db /\ db'.unions = db.unions
  <1>0. Same => DocsStay(db')
    BY SameUnions
  <1>1. CASE UnLockSelf(s) \/ UnLockOther(s) \/ SetBegin(s) \/ Exists(s) \/ Incr(s)
    <2>1. Same
      BY <1>1 DEF UnLockSelf, UnLockOther, SetBegin, Exists, Incr, Locking, DocsShaped, DbFields
    <2>. QED  BY <1>0, <2>1
  <1>2. CASE FindUnion(s) \/ FindInviter(s) \/ FindOwned(s) \/ FindUser(s) \/ FindOther(s)
             \/ UpdateSafe(s) \/ Panic(s) \/ HallFault(s)
    <2>1. Same
      BY <1>2 DEF FindUnion, FindInviter, FindOwned, FindUser, FindOther, UpdateSafe, Panic,
                  HallFault
    <2>. QED  BY <1>0, <2>1
  <1>3. CASE Lock(s) \/ SetPartner(s)
    <2>1. Same
      BY <1>3 DEF Lock, SetPartner, Locking, DocsShaped, DbFields
    <2>. QED  BY <1>0, <2>1
  <1>4. CASE Debit(s) \/ Credit(s)
    <2>1. ASSUME NEW u, NEW x, NEW n, NEW v
          PROVE  /\ DOMAIN IncScore(db, u, x, n) = DOMAIN db
                 /\ IncScore(db, u, x, n).unions = db.unions
                 /\ DOMAIN Locking(IncScore(db, u, x, n), v, FALSE) = DOMAIN db
                 /\ Locking(IncScore(db, u, x, n), v, FALSE).unions = db.unions
      BY DEF IncScore, Locking, DocsShaped, DbFields
    <2>2. \/ db' = db
          \/ \E u, x, n, v : db' \in {IncScore(db, u, x, n), Locking(IncScore(db, u, x, n), v, FALSE)}
      BY <1>4 DEF Debit, Credit
    <2>3. CASE db' # db
      <3>1. PICK u, x, n, v :
               db' = IncScore(db, u, x, n) \/ db' = Locking(IncScore(db, u, x, n), v, FALSE)
        BY <2>2, <2>3
      <3>2. Same
        BY <2>1, <3>1
      <3>. QED  BY <1>0, <3>2
    <2>. QED  BY <1>0, <2>3
  <1>5. CASE AddToSet(s) \/ Push(s) \/ Pull(s)
    <2>1. Same
      BY <1>5 DEF AddToSet, Push, Pull, PushEntry, PullEntries, DocsShaped, DbFields
    <2>. QED  BY <1>0, <2>1
  <1>9. CASE Record(s) \/ RecordOther(s)
    <2>1. Same
      BY <1>9, RecordsOnly DEF DocsShaped
    <2>. QED  BY <1>0, <2>1
  <1>6. CASE Downlines(s)
    <2>1. ASSUME NEW us
          PROVE  LET d == [db EXCEPT !.users = us]
                 IN DOMAIN d = DOMAIN db /\ d.unions = db.unions
      BY DEF DocsShaped, DbFields
    <2>2. \E us : db' = [db EXCEPT !.users = us]
      BY <1>6 DEF Downlines, MoveDownlines
    <2>3. Same
      BY <2>1, <2>2
    <2>. QED  BY <1>0, <2>3
  <1>7. CASE CountMember(s) \/ UncountMember(s)
    <2>1. \E x, n : db' = IncMember(db, x, n)
      BY <1>7 DEF CountMember, UncountMember
    <2>. QED  BY <2>1, CountingKeeps
  <1>8. CASE InsertUnion(s)
    <2>1. PICK x, u : db' = [db EXCEPT !.unions = Append(db.unions, NewUnion(x, u))]
      BY <1>8 DEF InsertUnion
    <2>2. DOMAIN db' = DbFields /\ db'.unions = Append(db.unions, NewUnion(x, u))
      BY <2>1 DEF DocsShaped, DbFields
    <2>. QED  BY <1>8, <2>2 DEF DocAdded
  <1>. QED  BY <1>1, <1>2, <1>3, <1>4, <1>5, <1>6, <1>7, <1>8, <1>9
           DEF SharedStep, HallStep

\* Who does what.
LEMMA WhoWorks ==
    ASSUME NEW s, SharedStep(s) \/ HallStep(s), Plays(s)
    PROVE  FALSE
  <1>. DEFINE x == Now(reqs[s])
  <1>1. x \notin HallCalls \ {"findUser"} /\ reqs[s].op \notin HallOps
    BY PlayerIs, WhoCalls DEF Plays
  <1>2. \A y \in HallCalls \ {"findUser"} : ~At(s, y)
    BY <1>1, PlayerIs
  <1>3. ~AtOp(s, HallOps, "findUser") /\ ~AtOp(s, HallOps, "findUnion")
    BY <1>1 DEF AtOp
  <1>4. ~SharedStep(s)
    BY <1>2 DEF SharedStep, UnLockSelf, UnLockOther, Exists, SetBegin, Incr, HallCalls
  <1>5. ~(FindUnion(s) \/ FindInviter(s) \/ FindUser(s) \/ FindOther(s) \/ FindOwned(s)
          \/ InsertUnion(s) \/ AddToSet(s) \/ CountMember(s) \/ Push(s) \/ Pull(s))
    BY <1>2, <1>3 DEF FindUnion, FindInviter, FindUser, FindOther, FindOwned, InsertUnion,
                      AddToSet, CountMember, Push, Pull, HallCalls
  <1>6. ~(Downlines(s) \/ UncountMember(s) \/ SetPartner(s) \/ Lock(s) \/ UpdateSafe(s)
          \/ Debit(s) \/ Credit(s) \/ Record(s) \/ RecordOther(s) \/ Panic(s) \/ HallFault(s))
    BY <1>1, <1>2 DEF Downlines, UncountMember, SetPartner, Lock, UpdateSafe, Debit, Credit,
                      Record, RecordOther, Panic, HallFault, HallCalls
  <1>. QED  BY <1>4, <1>5, <1>6 DEF HallStep

\* A request of the hall makes none of the calls of the game server.
LEMMA WhoPlays ==
    ASSUME NEW s, GameStep(s), Works(s)
    PROVE  FALSE
  <1>1. reqs[s].op \notin GameOps /\ Now(reqs[s]) \in HallCalls
    BY HallWays DEF Now
  <1>2. \A y : y \notin HallCalls => ~At(s, y)
    BY <1>1, HallWays
  <1>3. ~AtOp(s, GameOps, "findUser")
    BY <1>1 DEF AtOp
  <1>4. ~(GetUnion(s) \/ InitUnion(s) \/ KeepUnion(s) \/ FindUserData(s) \/ InRoom(s)
          \/ CreateRoom(s) \/ Proxy(s) \/ Rejoin(s) \/ JoinRoom(s) \/ QuickJoin(s))
    BY <1>2, <1>3 DEF GetUnion, InitUnion, KeepUnion, FindUserData, InRoom, CreateRoom, Proxy,
                      Rejoin, JoinRoom, QuickJoin, HallCalls
  <1>5. ~(StoreRoom(s) \/ StoreServer(s) \/ PanicGame(s) \/ Leave(s) \/ Dismiss(s)
          \/ CheckHongBao(s) \/ KeepUid(s) \/ CreditHongBao(s) \/ RecordHongBao(s))
    BY <1>2 DEF StoreRoom, StoreServer, PanicGame, Leave, Dismiss, CheckHongBao, KeepUid,
                CreditHongBao, RecordHongBao, HallCalls
  <1>6. ~(StoreUid(s) \/ Setting(s) \/ StoreSetting(s) \/ CacheSetting(s) \/ GameFault(s))
    BY <1>1, <1>2 DEF StoreUid, Setting, StoreSetting, CacheSetting, GameFault, HallCalls
  <1>. QED  BY <1>4, <1>5, <1>6 DEF GameStep

-----------------------------------------------------------------------------
(* What the calls of the game server do. *)

\* The request is at the call x of its handler.
Moves(s, x) ==
    /\ OthersWait(s) /\ DOMAIN reqs'[s] = Fields /\ reqs'[s] # Idle
    /\ Now(reqs'[s]) = x /\ OnPath(reqs'[s])
    /\ reqs'[s].op = reqs[s].op /\ reqs'[s].uid = reqs[s].uid
    /\ reqs'[s].union = reqs[s].union /\ reqs'[s].sess = reqs[s].sess

\* And it remembers what it did.
Passes(s, x) ==
    /\ Moves(s, x)
    /\ reqs'[s].n = reqs[s].n /\ reqs'[s].id = reqs[s].id /\ reqs'[s].handle = reqs[s].handle

\* It makes its next call, or its handler is over.
NextOf(s) == NextCall(reqs[s].op, Now(reqs[s]))
Proceeds(s) ==
    /\ NextOf(s) = "end" => Quits(s)
    /\ NextOf(s) # "end" => Passes(s, NextOf(s))

Still == game' = game /\ db' = db /\ session' = session /\ failed' = failed

\* A value is another, and no other value is.
ValueSet(h, w) ==
    /\ DOMAIN game' = {"values", "unionList"} /\ game'.unionList = game.unionList
    /\ IsSeq(game'.values) /\ DOMAIN game'.values = DOMAIN game.values
    /\ game'.values[h] = w
    /\ \A k \in DOMAIN game.values \ {h} : game'.values[k] = game.values[k]
\* It has other rooms.
RoomsSet(h, rooms) ==
    /\ h \in DOMAIN game.values
    /\ \E w : /\ ValueSet(h, w) /\ DOMAIN w = ValueFields /\ w.rooms = rooms
              /\ w.id = game.values[h].id /\ w.data = game.values[h].data
              /\ w.owner = game.values[h].owner /\ w.set = game.values[h].set
              /\ w.uids = game.values[h].uids

\* A document is another, and no other document is.
DocSet(d, k, e) ==
    /\ DOMAIN d = DbFields /\ IsSeq(d.unions) /\ DOMAIN d.unions = DOMAIN db.unions
    /\ d.unions[k] = e /\ \A j \in DOMAIN db.unions \ {k} : d.unions[j] = db.unions[j]

\* What a request remembers is there when it makes its next call.
LEMMA TurnsMoves ==
    ASSUME NEW s, Plays(s)
    PROVE  /\ \A x : Turns(s, reqs[s], x) => Passes(s, x)
           /\ \A x, h : Turns(s, [reqs[s] EXCEPT !.handle = h], x)
                 => Moves(s, x) /\ reqs'[s].handle = h /\ reqs'[s].n = reqs[s].n
           /\ \A x, n : Turns(s, [reqs[s] EXCEPT !.n = n], x) => Moves(s, x) /\ reqs'[s].n = n
           /\ \A x, i : Turns(s, [reqs[s] EXCEPT !.id = i], x)
                 => Moves(s, x) /\ reqs'[s].id = i /\ reqs'[s].handle = reqs[s].handle
                    /\ reqs'[s].n = reqs[s].n
           /\ \A x, i : Turns(s, [reqs[s] EXCEPT !.unions = i], x) => Passes(s, x)
  <1>1. DOMAIN reqs[s] = Fields
    BY PlayerIs
  <1>. DEFINE r == reqs[s]
  <1>2. ASSUME NEW y
        PROVE  LET k == [r EXCEPT !.handle = y]
               IN k.op = r.op /\ k.uid = r.uid /\ k.union = r.union /\ k.n = r.n
                  /\ k.sess = r.sess /\ k.handle = y
    BY <1>1 DEF Fields
  <1>3. ASSUME NEW y
        PROVE  LET k == [r EXCEPT !.n = y]
               IN k.op = r.op /\ k.uid = r.uid /\ k.union = r.union /\ k.n = y
                  /\ k.sess = r.sess
    BY <1>1 DEF Fields
  <1>4. ASSUME NEW y
        PROVE  LET k == [r EXCEPT !.id = y]
               IN k.op = r.op /\ k.uid = r.uid /\ k.union = r.union /\ k.n = r.n
                  /\ k.sess = r.sess /\ k.handle = r.handle /\ k.id = y
    BY <1>1 DEF Fields
  <1>5. ASSUME NEW y
        PROVE  LET k == [r EXCEPT !.unions = y]
               IN k.op = r.op /\ k.uid = r.uid /\ k.union = r.union /\ k.n = r.n
                  /\ k.sess = r.sess /\ k.handle = r.handle /\ k.id = r.id
    BY <1>1 DEF Fields
  <1>6. \A x : Turns(s, r, x) => Passes(s, x)
    BY DEF Turns, Passes, Moves
  <1>7. ASSUME NEW x, NEW h, Turns(s, [r EXCEPT !.handle = h], x)
        PROVE  Moves(s, x) /\ reqs'[s].handle = h /\ reqs'[s].n = r.n
    BY <1>2, <1>7 DEF Turns, Moves
  <1>8. ASSUME NEW x, NEW n, Turns(s, [r EXCEPT !.n = n], x)
        PROVE  Moves(s, x) /\ reqs'[s].n = n
    BY <1>3, <1>8 DEF Turns, Moves
  <1>9. ASSUME NEW x, NEW i, Turns(s, [r EXCEPT !.id = i], x)
        PROVE  Moves(s, x) /\ reqs'[s].id = i /\ reqs'[s].handle = r.handle /\ reqs'[s].n = r.n
    BY <1>4, <1>9 DEF Turns, Moves
  <1>10. ASSUME NEW x, NEW i, Turns(s, [r EXCEPT !.unions = i], x)
         PROVE  Passes(s, x)
    BY <1>5, <1>10 DEF Turns, Moves, Passes
  <1>. QED  BY <1>6, <1>7, <1>8, <1>9, <1>10

\* The ways on, in these words.
LEMMA PlayerGoes ==
    ASSUME NEW s, Plays(s)
    PROVE  /\ Refuse(s) => Quits(s)
           /\ GoOn(s, reqs[s]) => Proceeds(s)
           /\ \A i : GoOn(s, [reqs[s] EXCEPT !.unions = i]) => Proceeds(s)
           /\ NextOf(s) # "end" =>
                 /\ \A h : GoOn(s, [reqs[s] EXCEPT !.handle = h])
                       => /\ Moves(s, NextOf(s)) /\ reqs'[s].handle = h
                          /\ reqs'[s].n = reqs[s].n
                 /\ \A n : \/ GoOn(s, [reqs[s] EXCEPT !.n = n])
                           \/ Then(s, [reqs[s] EXCEPT !.n = n], Tail(reqs[s].todo))
                       => Moves(s, NextOf(s)) /\ reqs'[s].n = n
                 /\ \A i : GoOn(s, [reqs[s] EXCEPT !.id = i])
                       => /\ Moves(s, NextOf(s)) /\ reqs'[s].id = i
                          /\ reqs'[s].handle = reqs[s].handle /\ reqs'[s].n = reqs[s].n
           /\ NextOf(s) = "end" => \A i : GoOn(s, [reqs[s] EXCEPT !.id = i]) => Quits(s)
           /\ Now(reqs[s]) \in {"joinRoom", "quickJoin"} =>
                 \A n : Then(s, [reqs[s] EXCEPT !.n = n], Tail(Tail(reqs[s].todo)))
                    => Moves(s, "storeServer") /\ reqs'[s].n = n
           /\ /\ Now(reqs[s]) = "getUnion"
                 /\ Then(s, reqs[s], <<"init", "keepUnion">> \o Tail(reqs[s].todo))
              => Passes(s, "init")
  <1>. DEFINE r == reqs[s]
              t == Tail(r.todo)
              p == <<"init", "keepUnion">> \o t
              Kin(k) == DOMAIN k = Fields /\ k.op = r.op /\ k.todo = r.todo
  <1>1. /\ Refuse(s) => Quits(s)
        /\ \A k : Kin(k) =>
              /\ GoOn(s, k) \/ Then(s, k, t) =>
                    /\ NextOf(s) = "end" => Quits(s)
                    /\ NextOf(s) # "end" => Turns(s, k, NextOf(s))
              /\ Now(r) \in {"joinRoom", "quickJoin"} /\ Then(s, k, Tail(t))
                    => Turns(s, k, "storeServer")
              /\ Now(r) = "getUnion" /\ Then(s, k, p) => Turns(s, k, "init")
    BY GameTurns DEF NextOf
  <1>2. Kin(r)
    BY PlayerIs
  <1>3. \A x : /\ Kin([r EXCEPT !.handle = x]) /\ Kin([r EXCEPT !.id = x])
              /\ Kin([r EXCEPT !.n = x]) /\ Kin([r EXCEPT !.unions = x])
    BY Recalls
  <1>4. /\ \A x : Turns(s, r, x) => Passes(s, x)
        /\ \A x, h : Turns(s, [r EXCEPT !.handle = h], x)
              => Moves(s, x) /\ reqs'[s].handle = h /\ reqs'[s].n = r.n
        /\ \A x, n : Turns(s, [r EXCEPT !.n = n], x) => Moves(s, x) /\ reqs'[s].n = n
        /\ \A x, i : Turns(s, [r EXCEPT !.id = i], x)
              => Moves(s, x) /\ reqs'[s].id = i /\ reqs'[s].handle = r.handle /\ reqs'[s].n = r.n
        /\ \A x, i : Turns(s, [r EXCEPT !.unions = i], x) => Passes(s, x)
    BY TurnsMoves
  <1>. HIDE DEF r, t, p, Kin
  <1>5. GoOn(s, r) => Proceeds(s)
    BY <1>1, <1>2, <1>4 DEF Proceeds
  <1>6. \A i : GoOn(s, [r EXCEPT !.unions = i]) => Proceeds(s)
    BY <1>1, <1>3, <1>4 DEF Proceeds
  <1>7. ASSUME NextOf(s) # "end", NEW h, GoOn(s, [r EXCEPT !.handle = h])
        PROVE  Moves(s, NextOf(s)) /\ reqs'[s].handle = h /\ reqs'[s].n = r.n
    BY <1>1, <1>3, <1>4, <1>7
  <1>8. ASSUME NextOf(s) # "end", NEW n,
               GoOn(s, [r EXCEPT !.n = n]) \/ Then(s, [r EXCEPT !.n = n], t)
        PROVE  Moves(s, NextOf(s)) /\ reqs'[s].n = n
    BY <1>1, <1>3, <1>4, <1>8
  <1>9. ASSUME NEW i, GoOn(s, [r EXCEPT !.id = i])
        PROVE  /\ NextOf(s) = "end" => Quits(s)
               /\ NextOf(s) # "end" => /\ Moves(s, NextOf(s)) /\ reqs'[s].id = i
                                       /\ reqs'[s].handle = r.handle /\ reqs'[s].n = r.n
    BY <1>1, <1>3, <1>4, <1>9
  <1>10. ASSUME Now(r) \in {"joinRoom", "quickJoin"}, NEW n,
                Then(s, [r EXCEPT !.n = n], Tail(t))
         PROVE  Moves(s, "storeServer") /\ reqs'[s].n = n
    BY <1>1, <1>3, <1>4, <1>10
  <1>11. Now(r) = "getUnion" /\ Then(s, r, p) => Passes(s, "init")
    BY <1>1, <1>2, <1>4
  <1>. QED  BY <1>1, <1>5, <1>6, <1>7, <1>8, <1>9, <1>10, <1>11 DEF r, t, p

-----------------------------------------------------------------------------
(* Each call of the game server by itself. *)

\* Another value of a union in memory.
LEMMA SetsValue ==
    ASSUME MemoryShaped, NEW h \in DOMAIN game.values, NEW w,
           game' = [game EXCEPT !.values[h] = w]
    PROVE  ValueSet(h, w)
  <1>. DEFINE q == [game.values EXCEPT ![h] = w]
  <1>1. IsSeq(q) /\ DOMAIN q = DOMAIN game.values /\ q[h] = w
        /\ \A k \in DOMAIN game.values \ {h} : q[k] = game.values[k]
    BY Replacing DEF MemoryShaped
  <1>2. game' = [game EXCEPT !.values = q]
    OBVIOUS
  <1>. HIDE DEF q
  <1>3. DOMAIN game' = {"values", "unionList"} /\ game'.values = q
        /\ game'.unionList = game.unionList
    BY <1>2 DEF MemoryShaped
  <1>. QED  BY <1>1, <1>3 DEF ValueSet

\* Other rooms of a union in memory.
LEMMA SetsRooms ==
    ASSUME MemoryShaped, NEW h \in DOMAIN game.values, NEW rooms,
           game' = WithRooms(game, h, rooms)
    PROVE  RoomsSet(h, rooms)
  <1>. DEFINE v == game.values[h]
              w == [v EXCEPT !.rooms = rooms]
  <1>1. DOMAIN v = ValueFields
    BY DEF MemoryShaped, ValueShaped
  <1>2. /\ DOMAIN w = ValueFields /\ w.rooms = rooms /\ w.id = v.id /\ w.data = v.data
        /\ w.owner = v.owner /\ w.set = v.set /\ w.uids = v.uids
    BY <1>1 DEF ValueFields
  <1>3. game' = [game EXCEPT !.values[h] = w]
    BY DEF WithRooms
  <1>. HIDE DEF w
  <1>4. ValueSet(h, w)
    BY <1>3, SetsValue
  <1>. QED  BY <1>2, <1>4 DEF RoomsSet

\* Another document of a union.
LEMMA SetsDoc ==
    ASSUME DocsShaped, NEW k \in DOMAIN db.unions, NEW e
    PROVE  DocSet([db EXCEPT !.unions[k] = e], k, e)
  <1>. DEFINE q == [db.unions EXCEPT ![k] = e]
              d == [db EXCEPT !.unions = q]
  <1>1. IsSeq(q) /\ DOMAIN q = DOMAIN db.unions /\ q[k] = e
        /\ \A j \in DOMAIN db.unions \ {k} : q[j] = db.unions[j]
    BY Replacing DEF DocsShaped
  <1>2. d = [db EXCEPT !.unions[k] = e]
    OBVIOUS
  <1>. HIDE DEF q
  <1>3. DOMAIN d = DbFields /\ d.unions = q
    BY DEF DocsShaped, DbFields
  <1>. HIDE DEF d
  <1>. QED  BY <1>1, <1>2, <1>3 DEF DocSet

\* GetUnion finds the union in memory, or goes to load it.
LEMMA DoesGetUnion ==
    ASSUME NEW s, Plays(s), GetUnion(s)
    PROVE  /\ Still /\ Now(reqs[s]) = "getUnion"
           /\ \/ Passes(s, "init")
              \/ /\ Moves(s, AfterUnion(reqs[s].op)) /\ reqs[s].union \in DOMAIN game.unionList
                 /\ reqs'[s].handle = game.unionList[reqs[s].union]
                 /\ reqs'[s].n = reqs[s].n
  <1>. DEFINE r == reqs[s]
  <1>1. Now(r) = "getUnion"
    BY PlayerIs DEF GetUnion
  <1>2. NextOf(s) = AfterUnion(r.op) /\ NextOf(s) # "end"
    BY <1>1 DEF NextOf, NextCall, AfterUnion
  <1>3. Still
    BY DEF GetUnion, InMemory, Calm, Still
  <1>4. \/ r.union \in DOMAIN game.unionList
           /\ GoOn(s, [r EXCEPT !.handle = game.unionList[r.union]])
        \/ Then(s, r, <<"init", "keepUnion">> \o Tail(r.todo))
    BY DEF GetUnion
  <1>. HIDE DEF r
  <1>. QED  BY <1>1, <1>2, <1>3, <1>4, PlayerGoes DEF r

\* A union is loaded; the load that fails leaves a union without a document.
Loads(s, v) ==
    /\ Moves(s, "keepUnion") /\ reqs'[s].n = reqs[s].n
    /\ reqs'[s].handle = Len(game.values) + 1
    /\ DOMAIN game' = {"values", "unionList"} /\ game'.unionList = game.unionList
    /\ game'.values = Append(game.values, v)
    /\ db' = db /\ session' = session
\* A union is loaded; the load that fails leaves a union without a document.
LEMMA DoesInit ==
    ASSUME NEW s, Plays(s), InitUnion(s) \/ (GameFault(s) /\ Now(reqs[s]) = "init")
    PROVE  /\ Now(reqs[s]) = "init"
           /\ \/ Loads(s, LoadedValue(reqs[s].union)) /\ failed' = failed
              \/ Loads(s, NilValue(reqs[s].union)) /\ failed' = failed \cup {reqs[s].uid}
  <1>. DEFINE r == reqs[s]
  <1>1. Now(r) = "init"
    BY PlayerIs DEF InitUnion
  <1>2. NextOf(s) = "keepUnion"
    BY <1>1 DEF NextOf, NextCall
  <1>3. ASSUME NEW v, NewValue(s, v), db' = db, session' = session
        PROVE  Loads(s, v)
    <2>1. Moves(s, "keepUnion") /\ reqs'[s].n = r.n /\ reqs'[s].handle = Len(game.values) + 1
      BY <1>2, <1>3, PlayerGoes DEF NewValue
    <2>2. game' = [game EXCEPT !.values = Append(game.values, v)]
      BY <1>3 DEF NewValue
    <2>3. DOMAIN game' = {"values", "unionList"} /\ game'.unionList = game.unionList
          /\ game'.values = Append(game.values, v)
      BY <2>2 DEF Plays, MemInv, MemoryShaped
    <2>. QED  BY <1>3, <2>1, <2>3 DEF Loads
  <1>4. InitUnion(s) => NewValue(s, LoadedValue(r.union)) /\ db' = db /\ session' = session
                        /\ failed' = failed
    BY DEF InitUnion, InMemory, Calm
  <1>5. GameFault(s) => NewValue(s, NilValue(r.union)) /\ db' = db /\ session' = session
                        /\ failed' = failed \cup {r.uid}
    <2>1. ~At(s, "creditHongBao") /\ Head(Steps(s)) \notin GameDocSteps
      BY <1>1, PlayerIs DEF Steps, Now, GameDocSteps
    <2>. QED  BY <2>1 DEF GameFault
  <1>. QED  BY <1>1, <1>3, <1>4, <1>5

\* The manager keeps it.
LEMMA DoesKeep ==
    ASSUME NEW s, Plays(s), KeepUnion(s)
    PROVE  /\ Now(reqs[s]) = "keepUnion" /\ Passes(s, AfterUnion(reqs[s].op))
           /\ DOMAIN game' = {"values", "unionList"} /\ game'.values = game.values
           /\ game'.unionList = With(game.unionList, reqs[s].union, reqs[s].handle)
           /\ db' = db /\ session' = session /\ failed' = failed
  <1>1. Now(reqs[s]) = "keepUnion"
    BY PlayerIs DEF KeepUnion
  <1>2. NextOf(s) = AfterUnion(reqs[s].op) /\ NextOf(s) # "end"
    BY <1>1 DEF NextOf, NextCall, AfterUnion
  <1>3. GoOn(s, reqs[s]) /\ db' = db /\ session' = session /\ failed' = failed
    BY DEF KeepUnion, InMemory, Calm
  <1>4. Passes(s, AfterUnion(reqs[s].op))
    BY <1>2, <1>3, PlayerGoes DEF Proceeds
  <1>5. game' = [game EXCEPT !.unionList = With(game.unionList, reqs[s].union, reqs[s].handle)]
    BY DEF KeepUnion
  <1>. QED  BY <1>1, <1>3, <1>4, <1>5 DEF Plays, MemInv, MemoryShaped

\* Calls that only read.
LEMMA DoesRead ==
    ASSUME NEW s, Plays(s), FindUserData(s) \/ InRoom(s) \/ Proxy(s) \/ CheckHongBao(s)
    PROVE  /\ Still /\ (Quits(s) \/ Passes(s, NextOf(s)))
           /\ Now(reqs[s]) \in {"findUser", "inRoom", "proxy", "checkHongBao"}
           /\ Now(reqs[s]) = "inRoom" /\ ~Quits(s)
                 => ~IsUserInRoom(reqs[s].uid, reqs[s].sess)
           /\ Now(reqs[s]) = "checkHongBao" /\ ~Quits(s)
                 => Value(s).data /\ reqs[s].uid \notin ToSet(Value(s).uids)
  <1>. DEFINE r == reqs[s]
  <1>1. Now(r) \in {"findUser", "inRoom", "proxy", "checkHongBao"}
    BY PlayerIs DEF FindUserData, InRoom, Proxy, CheckHongBao, AtOp
  <1>2. Still
    BY DEF FindUserData, InRoom, Proxy, CheckHongBao, InMemory, InDocs, Calm, Still
  <1>3. NextOf(s) # "end"
    BY <1>1 DEF NextOf, NextCall
  <1>4. Refuse(s) \/ GoOn(s, r) \/ GoOn(s, [r EXCEPT !.unions = UnionsOf(r.uid)])
    BY DEF FindUserData, InRoom, Proxy, CheckHongBao
  <1>5. Quits(s) \/ Passes(s, NextOf(s))
    BY <1>3, <1>4, PlayerGoes DEF Proceeds
  <1>6. Refuse(s) => Quits(s)
    BY PlayerGoes
  <1>7. Now(r) = "inRoom" => InRoom(s)
    BY PlayerIs DEF FindUserData, Proxy, CheckHongBao, AtOp
  <1>8. Now(r) = "checkHongBao" => CheckHongBao(s)
    BY PlayerIs DEF FindUserData, Proxy, InRoom, AtOp
  <1>9. InRoom(s) /\ ~Quits(s) => ~IsUserInRoom(r.uid, r.sess)
    BY <1>6 DEF InRoom
  <1>10. CheckHongBao(s) /\ ~Quits(s) => Value(s).data /\ r.uid \notin ToSet(Value(s).uids)
    BY <1>6 DEF CheckHongBao
  <1>. QED  BY <1>1, <1>2, <1>5, <1>7, <1>8, <1>9, <1>10

\* Who is in a room comes back to it.
LEMMA DoesRejoin ==
    ASSUME NEW s, Plays(s), Rejoin(s)
    PROVE  /\ Still /\ Now(reqs[s]) = "rejoin" /\ Moves(s, "findUser")
           /\ reqs'[s].n = IF IsUserInRoom(reqs[s].uid, reqs[s].sess)
                           THEN reqs[s].sess ELSE reqs[s].n
  <1>. DEFINE r == reqs[s]
  <1>1. Now(r) = "rejoin"
    BY PlayerIs DEF Rejoin
  <1>2. NextOf(s) = "findUser"
    BY <1>1 DEF NextOf, NextCall
  <1>3. Still
    BY DEF Rejoin, InMemory, Calm, Still
  <1>4. IF IsUserInRoom(r.uid, r.sess) THEN GoOn(s, [r EXCEPT !.n = r.sess]) ELSE GoOn(s, r)
    BY DEF Rejoin
  <1>5. GoOn(s, r) => Passes(s, "findUser")
    BY <1>2, PlayerGoes DEF Proceeds
  <1>6. GoOn(s, [r EXCEPT !.n = r.sess]) => Moves(s, "findUser") /\ reqs'[s].n = r.sess
    BY <1>2, PlayerGoes
  <1>. QED  BY <1>1, <1>3, <1>4, <1>5, <1>6 DEF Passes

\* Values that are the same but for their list of takers or their settings.
AlikeValues(w, v) ==
    /\ DOMAIN w = ValueFields /\ w.id = v.id /\ w.data = v.data /\ w.owner = v.owner
    /\ w.rooms = v.rooms
Elsewhere == db' = db /\ session' = session /\ failed' = failed

\* The value a request works on.
LEMMA HandleIs ==
    ASSUME NEW s, Plays(s), Now(reqs[s]) \in HandleCalls
    PROVE  LET r == reqs[s]
               v == Value(s)
           IN /\ r.handle \in DOMAIN game.values /\ v = game.values[r.handle]
              /\ v.id = r.union /\ ValueShaped(v)
              /\ Now(r) # "keepUnion" => r.union \in DOMAIN game.unionList
              /\ Now(r) \in {"keepUid", "creditHongBao", "recordHongBao", "storeUid",
                             "storeSetting", "cacheSetting"}
                 => /\ v.data /\ UnionAt(r.union) \in DOMAIN db.unions
                    /\ UnionOf(r.union) = db.unions[UnionAt(r.union)]
                    /\ UnionOf(r.union).id = r.union
  <1>. DEFINE r == reqs[s]
              v == game.values[r.handle]
  <1>1. HandleOk(r)
    BY DEF Plays, MemInv
  <1>2. /\ r.handle \in DOMAIN game.values /\ v.id = r.union
        /\ Now(r) # "keepUnion" => r.union \in DOMAIN game.unionList
        /\ Now(r) \in {"keepUid", "creditHongBao", "recordHongBao", "storeUid",
                       "storeSetting", "cacheSetting"} => v.data
    BY <1>1 DEF HandleOk
  <1>3. ValueShaped(v)
    BY <1>2 DEF Plays, MemInv, MemoryShaped
  <1>4. v.data => UnionAt(r.union) # 0
    BY <1>2, <1>3 DEF ValueShaped
  <1>5. UnionAt(r.union) # 0 =>
           /\ UnionAt(r.union) \in DOMAIN db.unions
           /\ db.unions[UnionAt(r.union)].id = r.union
    <2>1. IsSeq(db.unions) /\ UnionAt(r.union) = DocAt(db.unions, r.union)
      BY UnionAtIs DEF ByPlace, Plays, MemInv, DocsShaped
    <2>. QED  BY <2>1, DocAtIs
  <1>. QED  BY <1>2, <1>3, <1>4, <1>5 DEF Value, UnionOf

\* A room is made for its creator, who may not be let in.
LEMMA DoesCreate ==
    ASSUME NEW s, Plays(s), CreateRoom(s)
    PROVE  /\ Now(reqs[s]) = "createRoom" /\ Elsewhere
           /\ \E id \in RoomIds :
                 /\ Holding(id) = {}
                 /\ \/ /\ Moves(s, "storeRoom") /\ reqs'[s].n = id
                       /\ RoomsSet(reqs[s].handle, With(Value(s).rooms, id, {reqs[s].uid}))
                    \/ /\ Quits(s)
                       /\ RoomsSet(reqs[s].handle, With(Value(s).rooms, id, {}))
  <1>. DEFINE r == reqs[s]
  <1>1. Now(r) = "createRoom"
    BY PlayerIs DEF CreateRoom
  <1>2. NextOf(s) = "storeRoom"
    BY <1>1 DEF NextOf, NextCall
  <1>3. Elsewhere
    BY DEF CreateRoom, InMemory, Calm, Elsewhere
  <1>4. PICK id \in FreeRoomIds, enters \in BOOLEAN :
           /\ game' = WithRooms(game, r.handle,
                                With(Value(s).rooms, id, IF enters THEN {r.uid} ELSE {}))
           /\ IF enters THEN GoOn(s, [r EXCEPT !.n = id]) ELSE Refuse(s)
    BY DEF CreateRoom
  <1>5. r.handle \in DOMAIN game.values /\ MemoryShaped
    BY <1>1, HandleIs DEF HandleCalls, Plays, MemInv
  <1>6. GoOn(s, [r EXCEPT !.n = id]) => Moves(s, "storeRoom") /\ reqs'[s].n = id
    BY <1>2, PlayerGoes
  <1>7. Refuse(s) => Quits(s)
    BY PlayerGoes
  <1>8. RoomsSet(r.handle, With(Value(s).rooms, id, IF enters THEN {r.uid} ELSE {}))
    BY <1>4, <1>5, SetsRooms
  <1>9. id \in RoomIds /\ Holding(id) = {}
    BY DEF FreeRoomIds
  <1>. QED  BY <1>1, <1>3, <1>4, <1>6, <1>7, <1>8, <1>9

\* A user is let into a room, or was in it.
Comes(s, h, id) ==
    /\ h \in DOMAIN game.values /\ id \in DOMAIN game.values[h].rooms
    /\ reqs'[s].n = id /\ Elsewhere
    /\ \/ /\ reqs[s].uid \in game.values[h].rooms[id]
          /\ game' = game /\ Moves(s, "storeServer")
       \/ /\ RoomsSet(h, [game.values[h].rooms EXCEPT ![id] = @ \cup {reqs[s].uid}])
          /\ Moves(s, "storeRoom")

\* Who is let in comes to the room, unless he is turned away.
LEMMA EnterComes ==
    ASSUME NEW s, Plays(s), Now(reqs[s]) \in {"joinRoom", "quickJoin"},
           NEW h \in DOMAIN game.values, NEW id \in DOMAIN game.values[h].rooms,
           Enters(s, h, id, Tail(reqs[s].todo)), Elsewhere
    PROVE  (Quits(s) /\ Still) \/ Comes(s, h, id)
  <1>. DEFINE r == reqs[s]
              v == game.values[h]
  <1>1. \/ Refuse(s) /\ game' = game
        \/ /\ r.uid \in v.rooms[id] /\ game' = game
           /\ Then(s, [r EXCEPT !.n = id], Tail(Tail(r.todo)))
        \/ /\ game' = WithRooms(game, h, [v.rooms EXCEPT ![id] = @ \cup {r.uid}])
           /\ Then(s, [r EXCEPT !.n = id], Tail(r.todo))
    BY DEF Enters
  <1>2. NextOf(s) = "storeRoom"
    BY DEF NextOf, NextCall
  <1>3. CASE Refuse(s) /\ game' = game
    BY <1>3, PlayerGoes DEF Still, Elsewhere
  <1>4. CASE /\ r.uid \in v.rooms[id] /\ game' = game
             /\ Then(s, [r EXCEPT !.n = id], Tail(Tail(r.todo)))
    <2>1. Moves(s, "storeServer") /\ reqs'[s].n = id
      BY <1>4, PlayerGoes
    <2>. QED  BY <1>4, <2>1 DEF Comes
  <1>5. CASE /\ game' = WithRooms(game, h, [v.rooms EXCEPT ![id] = @ \cup {r.uid}])
             /\ Then(s, [r EXCEPT !.n = id], Tail(r.todo))
    <2>1. Moves(s, "storeRoom") /\ reqs'[s].n = id
      BY <1>2, <1>5, PlayerGoes
    <2>2. RoomsSet(h, [v.rooms EXCEPT ![id] = @ \cup {r.uid}])
      BY <1>5, SetsRooms DEF Plays, MemInv
    <2>. QED  BY <2>1, <2>2 DEF Comes
  <1>. QED  BY <1>1, <1>3, <1>4, <1>5

\* A user is let into the room he asks for, or into one that has a place.
LEMMA DoesEnter ==
    ASSUME NEW s, Plays(s), JoinRoom(s) \/ QuickJoin(s)
    PROVE  /\ Now(reqs[s]) \in {"joinRoom", "quickJoin"}
           /\ \/ GamePanics
              \/ Quits(s) /\ Still
              \/ \E h, id : Comes(s, h, id) /\ (Now(reqs[s]) = "joinRoom" => id = reqs[s].n)
  <1>. DEFINE r == reqs[s]
              t == Tail(r.todo)
  <1>a. MemoryShaped
    BY DEF Plays, MemInv
  <1>1. CASE JoinRoom(s)
    <2>1. Now(r) = "joinRoom"
      BY <1>1, PlayerIs DEF JoinRoom
    <2>2. \/ Refuse(s) /\ game' = game
          \/ \E h \in Holding(r.n) : Enters(s, h, r.n, t)
      BY <1>1 DEF JoinRoom
    <2>3. Elsewhere
      BY <1>1 DEF JoinRoom, InMemory, Calm, Elsewhere
    <2>4. CASE Refuse(s) /\ game' = game
      BY <2>1, <2>3, <2>4, PlayerGoes DEF Still, Elsewhere
    <2>5. ASSUME NEW h \in Holding(r.n), Enters(s, h, r.n, t)
          PROVE  (Quits(s) /\ Still) \/ Comes(s, h, r.n)
      <3>1. h \in DOMAIN game.values /\ r.n \in DOMAIN game.values[h].rooms
        BY <1>a DEF Holding, Known, MemoryShaped
      <3>. QED  BY <2>1, <2>3, <2>5, <3>1, EnterComes
    <2>. QED  BY <2>1, <2>2, <2>4, <2>5
  <1>2. CASE QuickJoin(s)
    <2>1. Now(r) = "quickJoin"
      BY <1>2, PlayerIs DEF QuickJoin
    <2>2. r.handle \in DOMAIN game.values /\ Value(s) = game.values[r.handle]
      BY <2>1, HandleIs DEF HandleCalls
    <2>3. \/ GamePanics
          \/ Refuse(s) /\ game' = game /\ Elsewhere
          \/ Elsewhere /\ \E id \in DOMAIN Value(s).rooms : Enters(s, r.handle, id, t)
      BY <1>2 DEF QuickJoin, InMemory, Calm, Elsewhere
    <2>4. CASE Refuse(s) /\ game' = game /\ Elsewhere
      BY <2>1, <2>4, PlayerGoes DEF Still, Elsewhere
    <2>5. ASSUME Elsewhere, NEW id \in DOMAIN Value(s).rooms, Enters(s, r.handle, id, t)
          PROVE  (Quits(s) /\ Still) \/ Comes(s, r.handle, id)
      BY <2>1, <2>2, <2>5, EnterComes
    <2>6. Now(r) # "joinRoom"
      BY <2>1
    <2>. QED  BY <2>1, <2>3, <2>4, <2>5, <2>6
  <1>. QED  BY <1>1, <1>2

\* The room is stored with the user, and on which server it is with the session.
LEMMA DoesStore ==
    ASSUME NEW s, Plays(s), StoreRoom(s) \/ StoreServer(s)
    PROVE  /\ Now(reqs[s]) \in StoreCalls /\ Proceeds(s)
           /\ DocsStay(db') /\ game' = game /\ failed' = failed
           /\ IF Now(reqs[s]) = "storeRoom" THEN session' = session
              ELSE session' = [session EXCEPT ![reqs[s].uid] = reqs[s].n]
  <1>. DEFINE r == reqs[s]
  <1>1. Now(r) \in StoreCalls /\ (StoreRoom(s) => Now(r) = "storeRoom")
        /\ (StoreServer(s) => Now(r) = "storeServer")
    BY PlayerIs DEF StoreRoom, StoreServer, StoreCalls
  <1>2. Proceeds(s)
    BY PlayerGoes DEF StoreRoom, StoreServer
  <1>3. game' = game /\ failed' = failed
    BY DEF StoreRoom, StoreServer, InDocs, Calm
  <1>4. DOMAIN db' = DOMAIN db /\ db'.unions = db.unions
    BY DEF StoreRoom, StoreServer, Plays, MemInv, DocsShaped, DbFields
  <1>5. DocsStay(db')
    BY <1>4, SameUnions DEF Plays, MemInv
  <1>6. StoreRoom(s) => session' = session
    BY DEF StoreRoom, InDocs
  <1>7. StoreServer(s) => session' = [session EXCEPT ![r.uid] = r.n]
    BY DEF StoreServer
  <1>. QED  BY <1>1, <1>2, <1>3, <1>5, <1>6, <1>7

\* A user leaves the room his session names.
LEMMA DoesLeave ==
    ASSUME NEW s, Plays(s), Leave(s)
    PROVE  /\ Now(reqs[s]) = "leave" /\ Quits(s) /\ DocsStay(db')
           /\ session' = session /\ failed' = failed
           /\ \/ game' = game
              \/ \E h \in DOMAIN game.values :
                    LET rooms == game.values[h].rooms
                        sess == reqs[s].sess
                        left == rooms[sess] \ {reqs[s].uid}
                    IN /\ sess \in DOMAIN rooms
                       /\ RoomsSet(h, IF left = {} THEN Restrict(rooms, DOMAIN rooms \ {sess})
                                      ELSE [rooms EXCEPT ![sess] = left])
  <1>. DEFINE r == reqs[s]
  <1>1. Now(r) = "leave" /\ Quits(s)
    BY PlayerIs, PlayerGoes DEF Leave
  <1>2. session' = session /\ failed' = failed
    BY DEF Leave, Calm
  <1>3. CASE game' = game /\ db' = db
    BY <1>1, <1>2, <1>3, SameUnions DEF Plays, MemInv
  <1>4. CASE ~(game' = game /\ db' = db)
    <2>1. PICK h \in Holding(r.sess) :
             LET rooms == game.values[h].rooms
                 left == rooms[r.sess] \ {r.uid}
             IN /\ db' = [db EXCEPT !.users[r.uid].room = NoRoom]
                /\ game' = WithRooms(game, h,
                      IF left = {} THEN Restrict(rooms, DOMAIN rooms \ {r.sess})
                      ELSE [rooms EXCEPT ![r.sess] = left])
      BY <1>4 DEF Leave
    <2>2. h \in DOMAIN game.values /\ r.sess \in DOMAIN game.values[h].rooms /\ MemoryShaped
      BY DEF Holding, Known, MemoryShaped, Plays, MemInv
    <2>3. DOMAIN db' = DOMAIN db /\ db'.unions = db.unions
      BY <2>1 DEF Plays, MemInv, DocsShaped, DbFields
    <2>4. DocsStay(db')
      BY <2>3, SameUnions DEF Plays, MemInv
    <2>. QED  BY <1>1, <1>2, <2>1, <2>2, <2>4, SetsRooms
  <1>. QED  BY <1>3, <1>4

\* The owner has a room dismissed.
LEMMA DoesDismiss ==
    ASSUME NEW s, Plays(s), Dismiss(s)
    PROVE  /\ Now(reqs[s]) = "dismiss" /\ Quits(s) /\ DocsStay(db')
           /\ session' = session /\ failed' = failed
           /\ \/ game' = game
              \/ RoomsSet(reqs[s].handle,
                          Restrict(Value(s).rooms, DOMAIN Value(s).rooms \ {reqs[s].n}))
  <1>. DEFINE r == reqs[s]
  <1>1. Now(r) = "dismiss" /\ Quits(s)
    BY PlayerIs, PlayerGoes DEF Dismiss
  <1>2. session' = session /\ failed' = failed
    BY DEF Dismiss, Calm
  <1>3. CASE game' = game /\ db' = db
    BY <1>1, <1>2, <1>3, SameUnions DEF Plays, MemInv
  <1>4. CASE ~(game' = game /\ db' = db)
    <2>1. /\ \E us : db' = [db EXCEPT !.users = us]
          /\ game' = WithRooms(game, r.handle,
                Restrict(Value(s).rooms, DOMAIN Value(s).rooms \ {r.n}))
      BY <1>4 DEF Dismiss
    <2>2. r.handle \in DOMAIN game.values /\ MemoryShaped
      BY <1>1, HandleIs DEF HandleCalls, Plays, MemInv
    <2>3. DOMAIN db' = DOMAIN db /\ db'.unions = db.unions
      BY <2>1 DEF Plays, MemInv, DocsShaped, DbFields
    <2>4. DocsStay(db')
      BY <2>3, SameUnions DEF Plays, MemInv
    <2>. QED  BY <1>1, <1>2, <2>1, <2>2, <2>4, SetsRooms
  <1>. QED  BY <1>3, <1>4

\* Who takes a share is listed in memory.
LEMMA DoesKeepUid ==
    ASSUME NEW s, Plays(s), KeepUid(s)
    PROVE  /\ Now(reqs[s]) = "keepUid" /\ Passes(s, "creditHongBao") /\ Elsewhere
           /\ \E w : /\ ValueSet(reqs[s].handle, w) /\ AlikeValues(w, Value(s))
                     /\ w.uids = Append(Value(s).uids, reqs[s].uid) /\ w.set = Value(s).set
  <1>. DEFINE r == reqs[s]
              h == r.handle
              v == game.values[h]
              w == [v EXCEPT !.uids = Append(v.uids, r.uid)]
  <1>1. Now(r) = "keepUid"
    BY PlayerIs DEF KeepUid
  <1>2. NextOf(s) = "creditHongBao"
    BY <1>1 DEF NextOf, NextCall
  <1>3. Elsewhere /\ GoOn(s, r)
    BY DEF KeepUid, InMemory, Calm, Elsewhere
  <1>4. h \in DOMAIN game.values /\ MemoryShaped /\ Value(s) = v /\ ValueShaped(v)
    BY <1>1, HandleIs DEF HandleCalls, Plays, MemInv
  <1>5. AlikeValues(w, v) /\ w.uids = Append(v.uids, r.uid) /\ w.set = v.set
    BY <1>4 DEF ValueShaped, ValueFields, AlikeValues
  <1>6. game' = [game EXCEPT !.values[h] = w]
    BY DEF KeepUid
  <1>7. Passes(s, "creditHongBao")
    BY <1>2, <1>3, PlayerGoes DEF Proceeds
  <1>. HIDE DEF w
  <1>8. ValueSet(h, w)
    BY <1>4, <1>6, SetsValue
  <1>. QED  BY <1>1, <1>3, <1>4, <1>5, <1>7, <1>8

\* His score grows and is on record.
LEMMA DoesCredit ==
    ASSUME NEW s, Plays(s), CreditHongBao(s) \/ RecordHongBao(s)
    PROVE  /\ Now(reqs[s]) \in {"creditHongBao", "recordHongBao"}
           /\ \/ GamePanics
              \/ /\ Passes(s, NextOf(s)) /\ DocsStay(db') /\ game' = game
                 /\ session' = session /\ failed' = failed
  <1>. DEFINE r == reqs[s]
  <1>1. Now(r) \in {"creditHongBao", "recordHongBao"}
    BY PlayerIs DEF CreditHongBao, RecordHongBao
  <1>2. NextOf(s) # "end"
    BY <1>1 DEF NextOf, NextCall
  <1>3. CASE ~GamePanics
    <2>1. /\ GoOn(s, r) /\ game' = game /\ session' = session /\ failed' = failed
          /\ \/ db' = IncScore(db, r.uid, r.union, 1)
             \/ db' = [db EXCEPT !.changes[r.uid] = @ + 1]
      BY <1>3 DEF CreditHongBao, RecordHongBao, InDocs, Calm
    <2>2. DOMAIN db' = DOMAIN db /\ db'.unions = db.unions
      BY <2>1 DEF IncScore, Plays, MemInv, DocsShaped, DbFields
    <2>3. DocsStay(db')
      BY <2>2, SameUnions DEF Plays, MemInv
    <2>. QED  BY <1>1, <1>2, <2>1, <2>3, PlayerGoes DEF Proceeds
  <1>. QED  BY <1>1, <1>3

\* He is listed in the document.
LEMMA DoesStoreUid ==
    ASSUME NEW s, Plays(s), StoreUid(s)
    PROVE  /\ Now(reqs[s]) = "storeUid" /\ Quits(s) /\ game' = game
           /\ session' = session /\ failed' = failed
           /\ \E e : LET d == UnionOf(reqs[s].union)
                     IN /\ DocSet(db', UnionAt(reqs[s].union), e)
                        /\ DOMAIN e = DocFields /\ e.id = d.id /\ e.set = d.set
                        /\ e.uids = Append(d.uids, reqs[s].uid)
  <1>. DEFINE r == reqs[s]
              k == UnionAt(r.union)
              d == db.unions[k]
              x == Value(s).list
              e == [d EXCEPT !.list = x, !.uids = Append(d.uids, r.uid)]
  <1>1. Now(r) = "storeUid"
    BY PlayerIs DEF StoreUid
  <1>2. NextOf(s) = "end"
    BY <1>1 DEF NextOf, NextCall
  <1>3. GoOn(s, r) /\ game' = game /\ session' = session /\ failed' = failed
    BY DEF StoreUid, InDocs, Calm
  <1>4. k \in DOMAIN db.unions /\ UnionOf(r.union) = d /\ DocsShaped
    BY <1>1, HandleIs DEF HandleCalls, Plays, MemInv
  <1>6. DOMAIN d = DocFields
    BY <1>4 DEF DocsShaped, DocShaped
  <1>7. /\ DOMAIN e = DocFields /\ e.id = d.id /\ e.set = d.set
        /\ e.uids = Append(d.uids, r.uid)
    BY <1>6 DEF DocFields
  <1>8. db' = [db EXCEPT !.unions[k] = e]
    BY <1>4 DEF StoreUid
  <1>. HIDE DEF e
  <1>9. DocSet(db', k, e)
    BY <1>4, <1>8, SetsDoc
  <1>10. Quits(s)
    BY <1>2, <1>3, PlayerGoes DEF Proceeds
  <1>. QED  BY <1>1, <1>3, <1>4, <1>7, <1>9, <1>10

\* What becomes of the settings in memory and in the document.
LEMMA SetsInMemory ==
    ASSUME NEW v, ValueShaped(v), NEW r
    PROVE  LET w == SetInMemory(v, r)
           IN /\ AlikeValues(w, v)
              /\ w.uids = IF r.op = "HongBaoSetting" THEN <<>> ELSE v.uids
              /\ w.set = IF r.op = "UpdateLotteryStatus"
                         THEN [v.set EXCEPT !.lottery = Wanted(r)] ELSE v.set
  <1>1. DOMAIN v = ValueFields
    BY DEF ValueShaped
  <1>2. CASE r.op = "UpdateLotteryStatus"
    <2>. DEFINE st == [v.set EXCEPT !.lottery = Wanted(r)]
                w == [v EXCEPT !.set = st]
    <2>1. SetInMemory(v, r) = w
      BY <1>2 DEF SetInMemory
    <2>. HIDE DEF st
    <2>2. AlikeValues(w, v) /\ w.uids = v.uids /\ w.set = st
      BY <1>1 DEF ValueFields, AlikeValues
    <2>. HIDE DEF w
    <2>. QED  BY <1>2, <2>1, <2>2 DEF st
  <1>3. CASE r.op = "HongBaoSetting"
    <2>. DEFINE b == Wanted(r)
                w == [v EXCEPT !.list = b, !.uids = <<>>]
    <2>1. SetInMemory(v, r) = w
      BY <1>3 DEF SetInMemory
    <2>. HIDE DEF b
    <2>2. AlikeValues(w, v) /\ w.uids = <<>> /\ w.set = v.set
      BY <1>1 DEF ValueFields, AlikeValues
    <2>. HIDE DEF w
    <2>. QED  BY <1>3, <2>1, <2>2
  <1>4. CASE r.op # "UpdateLotteryStatus" /\ r.op # "HongBaoSetting"
    <2>1. SetInMemory(v, r) = v
      BY <1>4 DEF SetInMemory
    <2>. QED  BY <1>1, <1>4, <2>1 DEF AlikeValues
  <1>. QED  BY <1>2, <1>3, <1>4

\* A document takes the wish of the owner.
LEMMA SetsInDoc ==
    ASSUME NEW d, DocShaped(d), NEW r, r.op \in SettingOps
    PROVE  LET e == SetInDoc(d, r)
           IN /\ DOMAIN e = DocFields /\ e.id = d.id
              /\ e.owner = d.owner /\ e.curMember = d.curMember
              /\ e.uids = IF r.op = "HongBaoSetting" THEN <<>> ELSE d.uids
              /\ e.set = [d.set EXCEPT ![SettingOf[r.op]] =
                             IF r.op = "AddRoomRuleList" THEN d.set.rules + 1 ELSE Wanted(r)]
  <1>1. DOMAIN d = DocFields
    BY DEF DocShaped
  <1>2. CASE r.op = "AddRoomRuleList"
    <2>. DEFINE st == [d.set EXCEPT !.rules = d.set.rules + 1]
                e == [d EXCEPT !.set = st]
    <2>1. SetInDoc(d, r) = e
      BY <1>2 DEF SetInDoc
    <2>2. SettingOf[r.op] = "rules"
      BY <1>2 DEF SettingOf
    <2>. HIDE DEF st
    <2>3. /\ DOMAIN e = DocFields /\ e.id = d.id /\ e.uids = d.uids /\ e.set = st
          /\ e.owner = d.owner /\ e.curMember = d.curMember
      BY <1>1 DEF DocFields
    <2>. HIDE DEF e
    <2>. QED  BY <1>2, <2>1, <2>2, <2>3 DEF st
  <1>3. CASE r.op = "HongBaoSetting"
    <2>. DEFINE b == Wanted(r)
                st == [d.set EXCEPT !.hongBao = b]
                e == [d EXCEPT !.set = st, !.list = b, !.uids = <<>>]
    <2>2. SettingOf[r.op] = "hongBao"
      BY <1>3 DEF SettingOf
    <2>1. SetInDoc(d, r) = e
      <3>1. SetInDoc(d, r) = [d EXCEPT !.set.hongBao = b, !.list = b, !.uids = <<>>]
        BY <1>3 DEF SetInDoc
      <3>. QED  BY <3>1
    <2>. HIDE DEF st
    <2>3. /\ DOMAIN e = DocFields /\ e.id = d.id /\ e.uids = <<>> /\ e.set = st
          /\ e.owner = d.owner /\ e.curMember = d.curMember
      BY <1>1 DEF DocFields
    <2>. HIDE DEF e
    <2>. QED  BY <1>3, <2>1, <2>2, <2>3 DEF st
  <1>4. CASE r.op # "AddRoomRuleList" /\ r.op # "HongBaoSetting"
    <2>. DEFINE st == [d.set EXCEPT ![SettingOf[r.op]] = Wanted(r)]
                e == [d EXCEPT !.set = st]
    <2>1. SetInDoc(d, r) = e
      BY <1>4 DEF SetInDoc
    <2>. HIDE DEF st
    <2>3. /\ DOMAIN e = DocFields /\ e.id = d.id /\ e.uids = d.uids /\ e.set = st
          /\ e.owner = d.owner /\ e.curMember = d.curMember
      BY <1>1 DEF DocFields
    <2>. HIDE DEF e
    <2>. QED  BY <1>4, <2>1, <2>3 DEF st
  <1>. QED  BY <1>2, <1>3, <1>4

\* The owner's wish is looked at, and some settings change in memory.
LEMMA DoesSetting ==
    ASSUME NEW s, Plays(s), Setting(s)
    PROVE  /\ Now(reqs[s]) = "setting" /\ Elsewhere
           /\ \/ Quits(s) /\ game' = game
              \/ /\ Passes(s, "storeSetting") /\ Value(s).data
                 /\ ValueSet(reqs[s].handle, SetInMemory(Value(s), reqs[s]))
  <1>. DEFINE r == reqs[s]
              v == Value(s)
  <1>1. Now(r) = "setting"
    BY PlayerIs DEF Setting
  <1>2. NextOf(s) = "storeSetting"
    BY <1>1 DEF NextOf, NextCall
  <1>3. Elsewhere
    BY DEF Setting, InMemory, Calm, Elsewhere
  <1>4. r.handle \in DOMAIN game.values /\ MemoryShaped /\ ValueShaped(v) /\ r.uid \in Users
    BY <1>1, HandleIs, PlayerIs DEF HandleCalls, Plays, MemInv
  <1>5. v.owner = r.uid => v.data
    BY <1>4, DocsAssumption DEF ValueShaped
  <1>6. \/ Refuse(s) /\ game' = game
        \/ /\ v.owner = r.uid /\ GoOn(s, r)
           /\ game' = [game EXCEPT !.values[r.handle] = SetInMemory(v, r)]
    BY DEF Setting
  <1>7. CASE Refuse(s) /\ game' = game
    BY <1>1, <1>3, <1>7, PlayerGoes
  <1>8. CASE /\ v.owner = r.uid /\ GoOn(s, r)
             /\ game' = [game EXCEPT !.values[r.handle] = SetInMemory(v, r)]
    <2>1. Passes(s, "storeSetting")
      BY <1>2, <1>8, PlayerGoes DEF Proceeds
    <2>2. ValueSet(r.handle, SetInMemory(v, r))
      BY <1>4, <1>8, SetsValue
    <2>. QED  BY <1>1, <1>3, <1>5, <1>8, <2>1, <2>2
  <1>. QED  BY <1>6, <1>7, <1>8

\* It changes in the document.
LEMMA DoesStoreSetting ==
    ASSUME NEW s, Plays(s), StoreSetting(s)
    PROVE  LET r == reqs[s]
               e == SetInDoc(UnionOf(r.union), r)
           IN /\ Now(r) = "storeSetting" /\ DocSet(db', UnionAt(r.union), e)
              /\ game' = game /\ session' = session /\ failed' = failed
              /\ IF r.op = "UpdateLotteryStatus" THEN Quits(s)
                 ELSE /\ Moves(s, "cacheSetting") /\ reqs'[s].id = e.set.rules
                      /\ reqs'[s].handle = r.handle /\ reqs'[s].n = r.n
  <1>. DEFINE r == reqs[s]
              e == SetInDoc(UnionOf(r.union), r)
  <1>1. Now(r) = "storeSetting"
    BY PlayerIs DEF StoreSetting
  <1>2. NextOf(s) = IF r.op = "UpdateLotteryStatus" THEN "end" ELSE "cacheSetting"
    BY <1>1 DEF NextOf, NextCall
  <1>3. /\ GoOn(s, [r EXCEPT !.id = e.set.rules])
        /\ db' = [db EXCEPT !.unions[UnionAt(r.union)] = e]
        /\ game' = game /\ session' = session /\ failed' = failed
    BY DEF StoreSetting, InDocs, Calm
  <1>4. UnionAt(r.union) \in DOMAIN db.unions /\ DocsShaped
    BY <1>1, HandleIs DEF HandleCalls, Plays, MemInv
  <1>. HIDE DEF e
  <1>5. DocSet(db', UnionAt(r.union), e)
    BY <1>3, <1>4, SetsDoc
  <1>6. CASE r.op = "UpdateLotteryStatus"
    <2>1. Quits(s)
      BY <1>2, <1>3, <1>6, PlayerGoes
    <2>. QED  BY <1>1, <1>3, <1>5, <1>6, <2>1 DEF e
  <1>7. CASE r.op # "UpdateLotteryStatus"
    <2>1. /\ Moves(s, "cacheSetting") /\ reqs'[s].id = e.set.rules
          /\ reqs'[s].handle = r.handle /\ reqs'[s].n = r.n
      BY <1>2, <1>3, <1>7, PlayerGoes
    <2>. QED  BY <1>1, <1>3, <1>5, <1>7, <2>1 DEF e
  <1>. QED  BY <1>6, <1>7

\* It changes in memory.
LEMMA DoesCache ==
    ASSUME NEW s, Plays(s), CacheSetting(s)
    PROVE  LET r == reqs[s]
           IN /\ Now(r) = "cacheSetting" /\ Quits(s) /\ Elsewhere
              /\ \E w : /\ ValueSet(r.handle, w) /\ AlikeValues(w, Value(s))
                        /\ w.uids = Value(s).uids
                        /\ w.set = [Value(s).set EXCEPT ![SettingOf[r.op]] = NewVal(r)]
  <1>. DEFINE r == reqs[s]
              h == r.handle
              v == game.values[h]
              st == [v.set EXCEPT ![SettingOf[r.op]] = NewVal(r)]
              w == [v EXCEPT !.set = st]
  <1>1. Now(r) = "cacheSetting"
    BY PlayerIs DEF CacheSetting
  <1>2. NextOf(s) = "end"
    BY <1>1 DEF NextOf, NextCall
  <1>3. Elsewhere /\ GoOn(s, r)
    BY DEF CacheSetting, InMemory, Calm, Elsewhere
  <1>4. h \in DOMAIN game.values /\ MemoryShaped /\ Value(s) = v /\ ValueShaped(v)
    BY <1>1, HandleIs DEF HandleCalls, Plays, MemInv
  <1>6. game' = [game EXCEPT !.values[h] = w]
    BY DEF CacheSetting, NewVal
  <1>. HIDE DEF st
  <1>5. AlikeValues(w, v) /\ w.uids = v.uids /\ w.set = st
    BY <1>4 DEF ValueShaped, ValueFields, AlikeValues
  <1>7. Quits(s)
    BY <1>2, <1>3, PlayerGoes DEF Proceeds
  <1>. HIDE DEF w
  <1>8. ValueSet(h, w)
    BY <1>4, <1>6, SetsValue
  <1>. QED  BY <1>1, <1>3, <1>4, <1>5, <1>7, <1>8 DEF st

\* A call of the database fails.
LEMMA DoesFault ==
    ASSUME NEW s, Plays(s), GameFault(s), Now(reqs[s]) # "init"
    PROVE  \/ GamePanics
           \/ /\ Quits(s) \/ Proceeds(s)
              /\ game' = game /\ db' = db /\ failed' = failed \cup {reqs[s].uid}
              /\ \/ session' = session
                 \/ session' = [session EXCEPT ![reqs[s].uid] = reqs[s].n]
  <1>. DEFINE r == reqs[s]
  <1>1. CASE ~GamePanics
    <2>1. ~At(s, "init")
      BY PlayerIs
    <2>2. /\ Refuse(s) \/ GoOn(s, r)
          /\ game' = game /\ db' = db /\ failed' = failed \cup {r.uid}
          /\ \/ session' = session
             \/ session' = [session EXCEPT ![r.uid] = r.n]
      BY <1>1, <2>1 DEF GameFault
    <2>. QED  BY <2>2, PlayerGoes
  <1>. QED  BY <1>1

-----------------------------------------------------------------------------
(* The documents and the memory keep their shape. *)

\* Documents are added and changed, never taken away.
GrownDocs ==
    /\ DocsShaped' /\ DOMAIN db.unions \subseteq DOMAIN db'.unions
    /\ \A i \in DOMAIN db.unions : db'.unions[i].id = db.unions[i].id

\* So are values in memory.
MemoryKeeps ==
    /\ DOMAIN game.values \subseteq DOMAIN game'.values
    /\ \A h \in DOMAIN game.values :
          game'.values[h].id = game.values[h].id /\ game'.values[h].data = game.values[h].data
    /\ DOMAIN game.unionList \subseteq DOMAIN game'.unionList

\* So the invariant holds after a step that does not panic.
Kept == MemInv' /\ GrownDocs /\ MemoryKeeps

\* Documents that stay, one more, and one that changes but for its id.
LEMMA DocsGrow ==
    ASSUME DocsShaped
    PROVE  /\ db' = db => GrownDocs
           /\ DocsStay(db') => GrownDocs
           /\ DocAdded(db') => GrownDocs
           /\ \A k \in DOMAIN db.unions : \A e :
                 DocSet(db', k, e) /\ DocShaped(e) /\ e.id = db.unions[k].id => GrownDocs
  <1>1. db' = db => GrownDocs
    BY DEF GrownDocs, DocsShaped, DocShaped
  <1>2. DocsStay(db') => GrownDocs
    BY DEF GrownDocs, DocsShaped, DocsStay, DocShaped
  <1>3. ASSUME DocAdded(db')
        PROVE  GrownDocs
    <2>1. DOMAIN db' = DbFields
      BY <1>3 DEF DocAdded
    <2>2. PICK x, u : db'.unions = Append(db.unions, NewUnion(x, u))
      BY <1>3 DEF DocAdded
    <2>. DEFINE e == NewUnion(x, u)
    <2>3. DocShaped(e)
      BY DEF DocShaped, NewUnion, NoSettings, DocFields, SetNames, IsSeq
    <2>. HIDE DEF e
    <2>4. /\ IsSeq(db'.unions) /\ DOMAIN db'.unions = DOMAIN db.unions \cup {Len(db.unions) + 1}
          /\ db'.unions[Len(db.unions) + 1] = e
          /\ \A i \in DOMAIN db.unions : db'.unions[i] = db.unions[i]
      BY <2>2, Appending DEF DocsShaped, e
    <2>5. \A i \in DOMAIN db'.unions : DocShaped(db'.unions[i])
      BY <2>3, <2>4 DEF DocsShaped
    <2>6. DocsShaped'
      BY <2>1, <2>4, <2>5 DEF DocsShaped, DocShaped
    <2>. QED  BY <2>4, <2>6 DEF GrownDocs
  <1>4. ASSUME NEW k \in DOMAIN db.unions, NEW e, DocSet(db', k, e), DocShaped(e),
               e.id = db.unions[k].id
        PROVE  GrownDocs
    <2>1. \A i \in DOMAIN db.unions : DocShaped(db'.unions[i]) /\ db'.unions[i].id = db.unions[i].id
      BY <1>4 DEF DocSet, DocsShaped
    <2>2. DocsShaped'
      BY <1>4, <2>1 DEF DocSet, DocsShaped, DocShaped
    <2>. QED  BY <1>4, <2>1, <2>2 DEF GrownDocs, DocSet
  <1>. QED  BY <1>1, <1>2, <1>3, <1>4

\* A union's document is found at its place again.
LEMMA FoundAgain ==
    ASSUME DocsShaped, GrownDocs, NEW x, UnionAt(x) # 0
    PROVE  /\ UnionAt(x)' = UnionAt(x) /\ UnionAt(x)' # 0
           /\ UnionAt(x) \in DOMAIN db.unions /\ db.unions[UnionAt(x)].id = x
           /\ UnionOf(x) = db.unions[UnionAt(x)] /\ UnionOf(x)' = db'.unions[UnionAt(x)]
  <1>1. UnionAt(x) = DocAt(db.unions, x) /\ UnionOf(x) = db.unions[DocAt(db.unions, x)]
    BY UnionAtIs DEF ByPlace
  <1>2. UnionAt(x)' = DocAt(db'.unions, x) /\ UnionOf(x)' = db'.unions[DocAt(db'.unions, x)]
    BY UnionAtIsNext DEF ByPlace
  <1>3. DocAt(db'.unions, x) = DocAt(db.unions, x)
    BY <1>1, DocAtStays DEF GrownDocs, DocsShaped
  <1>4. DocAt(db.unions, x) \in DOMAIN db.unions /\ db.unions[DocAt(db.unions, x)].id = x
    BY <1>1, DocAtIs DEF DocsShaped
  <1>. QED  BY <1>1, <1>2, <1>3, <1>4

\* A value of the same union in place of another.
LEMMA ValueKeeps ==
    ASSUME MemInv, GrownDocs, NEW h \in DOMAIN game.values, NEW w, ValueSet(h, w),
           DOMAIN w = ValueFields, DOMAIN w.set = SetNames, IsSeq(w.uids),
           w.id = game.values[h].id, w.data = game.values[h].data,
           w.owner = game.values[h].owner,
           DOMAIN w.rooms # {} => w.id \in DOMAIN game.unionList
    PROVE  MemoryShaped' /\ MemoryKeeps
  <1>1. /\ DOMAIN game' = {"values", "unionList"} /\ game'.unionList = game.unionList
        /\ IsSeq(game'.values) /\ DOMAIN game'.values = DOMAIN game.values
        /\ game'.values[h] = w
        /\ \A k \in DOMAIN game.values \ {h} : game'.values[k] = game.values[k]
    BY DEF ValueSet
  <1>2. /\ \A k \in DOMAIN game.values : ValueShaped(game.values[k])
        /\ \A x \in DOMAIN game.unionList : /\ game.unionList[x] \in DOMAIN game.values
                                            /\ game.values[game.unionList[x]].id = x
        /\ DocsShaped
    BY DEF MemInv, MemoryShaped
  <1>3. \A x : UnionAt(x) # 0 => UnionAt(x)' # 0
    BY <1>2, FoundAgain
  <1>4. ASSUME NEW k \in DOMAIN game.values
        PROVE  ValueShaped(game.values[k])'
    BY <1>1, <1>2, <1>3 DEF ValueShaped
  <1>5. MemoryKeeps
    BY <1>1 DEF MemoryKeeps
  <1>6. \A x \in DOMAIN game'.unionList : /\ game'.unionList[x] \in DOMAIN game'.values
                                          /\ game'.values[game'.unionList[x]].id = x
    BY <1>1, <1>2, <1>5 DEF MemoryKeeps
  <1>7. MemoryShaped'
    BY <1>1, <1>4, <1>6 DEF MemoryShaped
  <1>. QED  BY <1>5, <1>7

\* Other rooms leave the memory in shape, where only the manager gives rooms out.
LEMMA RoomsKeep ==
    ASSUME MemInv, GrownDocs, NEW h \in DOMAIN game.values, NEW rooms, RoomsSet(h, rooms),
           DOMAIN rooms # {} => game.values[h].id \in DOMAIN game.unionList
    PROVE  MemoryShaped' /\ MemoryKeeps
  <1>1. PICK w : /\ ValueSet(h, w) /\ DOMAIN w = ValueFields /\ w.rooms = rooms
                 /\ w.id = game.values[h].id /\ w.data = game.values[h].data
                 /\ w.owner = game.values[h].owner /\ w.set = game.values[h].set
                 /\ w.uids = game.values[h].uids
    BY DEF RoomsSet
  <1>2. DOMAIN w.set = SetNames /\ IsSeq(w.uids)
    BY <1>1 DEF MemInv, MemoryShaped, ValueShaped
  <1>. QED  BY <1>1, <1>2, ValueKeeps

\* The memory as it was.
LEMMA MemorySame ==
    ASSUME MemInv, GrownDocs, game' = game
    PROVE  MemoryShaped' /\ MemoryKeeps
  <1>1. \A x : UnionAt(x) # 0 => UnionAt(x)' # 0
    BY FoundAgain DEF MemInv
  <1>2. ASSUME NEW k \in DOMAIN game.values
        PROVE  ValueShaped(game.values[k])'
    BY <1>1 DEF ValueShaped, MemInv, MemoryShaped
  <1>3. MemoryShaped'
    BY <1>2 DEF MemInv, MemoryShaped
  <1>. QED  BY <1>3 DEF MemoryKeeps

\* The others' handles stay good.
LEMMA OthersKept ==
    ASSUME MemInv, NEW s \in Slots, OthersWait(s), MemoryKeeps, GrownDocs, MemoryShaped',
           reqs'[s] # Idle => OnPath(reqs'[s]) /\ HandleOk(reqs[s])'
    PROVE  Kept
  <1>1. ASSUME NEW p \in Busy', p # s
        PROVE  OnPath(reqs'[p]) /\ HandleOk(reqs[p])'
    <2>1. p \in Busy /\ reqs'[p] = reqs[p]
      BY <1>1 DEF OthersWait, Busy
    <2>2. OnPath(reqs[p]) /\ HandleOk(reqs[p])
      BY <2>1 DEF MemInv
    <2>3. HandleOk(reqs[p])'
      BY <2>1, <2>2 DEF HandleOk, MemoryKeeps
    <2>. QED  BY <2>1, <2>2, <2>3 DEF OnPath
  <1>2. \A p \in Busy' : OnPath(reqs'[p]) /\ HandleOk(reqs[p])'
    BY <1>1 DEF Busy
  <1>3. \A p \in Busy' : OnPath(reqs[p])'
    BY <1>2 DEF OnPath
  <1>. QED  BY <1>2, <1>3 DEF MemInv, GrownDocs, Kept

DataCalls == {"keepUid", "creditHongBao", "recordHongBao", "storeUid", "storeSetting",
              "cacheSetting"}

\* A request goes on with the value it works on.
LEMMA StaysWithValue ==
    ASSUME NEW s, Plays(s), MemoryKeeps, GrownDocs, MemoryShaped',
           \/ Quits(s)
           \/ \E x : /\ Moves(s, x)
                     /\ x \in HandleCalls =>
                           /\ reqs'[s].handle = reqs[s].handle /\ Now(reqs[s]) \in HandleCalls
                           /\ reqs[s].union \in DOMAIN game'.unionList
                           /\ x \in DataCalls => Value(s).data
    PROVE  Kept
  <1>1. s \in Slots /\ MemInv
    BY PlayerIs DEF Plays
  <1>2. CASE Quits(s)
    BY <1>1, <1>2, OthersKept DEF Quits
  <1>3. ASSUME NEW x, Moves(s, x),
               x \in HandleCalls =>
                  /\ reqs'[s].handle = reqs[s].handle /\ Now(reqs[s]) \in HandleCalls
                  /\ reqs[s].union \in DOMAIN game'.unionList
                  /\ x \in DataCalls => Value(s).data
        PROVE  Kept
    <2>. DEFINE r == reqs[s]
                h == r.handle
    <2>1. OthersWait(s) /\ OnPath(reqs'[s]) /\ Now(reqs'[s]) = x /\ reqs'[s].union = r.union
      BY <1>3 DEF Moves
    <2>2. CASE x \notin HandleCalls
      <3>1. HandleOk(reqs[s])'
        BY <2>1, <2>2 DEF HandleOk, Now
      <3>. QED  BY <1>1, <2>1, <3>1, OthersKept
    <2>3. CASE x \in HandleCalls
      <3>1. /\ h \in DOMAIN game.values /\ Value(s) = game.values[h]
            /\ game.values[h].id = r.union
        BY <1>3, <2>3, HandleIs
      <3>2. /\ h \in DOMAIN game'.values /\ game'.values[h].id = r.union
            /\ game'.values[h].data = game.values[h].data
        BY <3>1 DEF MemoryKeeps
      <3>3. reqs'[s].handle = h /\ r.union \in DOMAIN game'.unionList
            /\ (x \in DataCalls => game'.values[h].data)
        BY <1>3, <2>3, <3>1, <3>2
      <3>4. HandleOk(reqs[s])'
        BY <2>1, <3>2, <3>3 DEF HandleOk, Now, DataCalls
      <3>. QED  BY <1>1, <2>1, <3>4, OthersKept
    <2>. QED  BY <2>2, <2>3
  <1>. QED  BY <1>2, <1>3

\* The same where it proceeds from a call that has the value to another.
LEMMA ProceedsWithValue ==
    ASSUME NEW s, Plays(s), MemoryKeeps, GrownDocs, MemoryShaped',
           Quits(s) \/ Passes(s, NextOf(s)),
           Now(reqs[s]) \notin UnionCalls,
           NextOf(s) \in DataCalls => Now(reqs[s]) \in DataCalls \/ Value(s).data
    PROVE  Kept
  <1>. DEFINE r == reqs[s]
              x == NextOf(s)
  <1>1. ASSUME x \in HandleCalls
        PROVE  Now(r) \in HandleCalls \ {"keepUnion"}
    <2>1. Now(r) \in CallsOf(r.op)
      BY PlayerIs
    <2>. QED  BY <1>1, <2>1 DEF NextOf, NextCall, HandleCalls, UnionCalls
  <1>2. ASSUME x \in HandleCalls
        PROVE  /\ r.union \in DOMAIN game'.unionList
               /\ x \in DataCalls => Value(s).data
    <2>1. Now(r) \in HandleCalls \ {"keepUnion"}
      BY <1>1, <1>2
    <2>2. /\ r.union \in DOMAIN game.unionList
          /\ Now(r) \in DataCalls => Value(s).data
      BY <2>1, HandleIs DEF DataCalls
    <2>. QED  BY <2>2 DEF MemoryKeeps
  <1>3. Passes(s, x) => Moves(s, x) /\ reqs'[s].handle = r.handle
    BY DEF Passes
  <1>. HIDE DEF x
  <1>4. \/ Quits(s)
        \/ /\ Moves(s, x)
           /\ x \in HandleCalls =>
                 /\ reqs'[s].handle = r.handle /\ Now(r) \in HandleCalls
                 /\ r.union \in DOMAIN game'.unionList
                 /\ x \in DataCalls => Value(s).data
    BY <1>1, <1>2, <1>3 DEF x
  <1>. QED  BY <1>4, StaysWithValue

\* GetUnion and what it calls.
LEMMA MemUnion ==
    ASSUME NEW s, Plays(s),
           \/ GetUnion(s) \/ KeepUnion(s) \/ InitUnion(s)
           \/ GameFault(s) /\ Now(reqs[s]) = "init"
    PROVE  Kept
  <1>. DEFINE r == reqs[s]
  <1>0. /\ s \in Slots /\ MemInv /\ DocsShaped /\ MemoryShaped /\ r.op \in GameOps
        /\ IsSeq(game.values) /\ DOMAIN game = {"values", "unionList"}
    BY PlayerIs DEF Plays, MemInv, MemoryShaped
  <1>a. db' = db => GrownDocs
    BY <1>0, DocsGrow DEF GrownDocs
  <1>b. AfterUnion(r.op) \notin DataCalls \cup {"keepUnion"}
    BY DEF AfterUnion, DataCalls
  <1>1. CASE GetUnion(s)
    <2>1. game' = game /\ db' = db
      BY <1>1, DoesGetUnion DEF Still
    <2>2. GrownDocs /\ MemoryShaped' /\ MemoryKeeps
      BY <1>0, <1>a, <2>1, MemorySame
    <2>3. CASE Passes(s, "init")
      <3>1. Moves(s, "init") /\ "init" \notin HandleCalls
        BY <2>3 DEF Passes, HandleCalls
      <3>. QED  BY <2>2, <3>1, StaysWithValue
    <2>4. CASE /\ Moves(s, AfterUnion(r.op)) /\ r.union \in DOMAIN game.unionList
               /\ reqs'[s].handle = game.unionList[r.union]
      <3>1. /\ OthersWait(s) /\ OnPath(reqs'[s]) /\ Now(reqs'[s]) = AfterUnion(r.op)
            /\ reqs'[s].union = r.union
        BY <2>4 DEF Moves
      <3>2. /\ game.unionList[r.union] \in DOMAIN game.values
            /\ game.values[game.unionList[r.union]].id = r.union
        BY <1>0, <2>4 DEF MemoryShaped
      <3>3. HandleOk(reqs[s])'
        BY <1>b, <2>1, <2>4, <3>1, <3>2 DEF HandleOk, Now, DataCalls
      <3>. QED  BY <1>0, <2>2, <3>1, <3>3, OthersKept
    <2>. QED  BY <1>1, <2>3, <2>4, DoesGetUnion
  <1>2. CASE KeepUnion(s)
    <2>1. /\ Now(r) = "keepUnion" /\ Passes(s, AfterUnion(r.op))
          /\ DOMAIN game' = {"values", "unionList"} /\ game'.values = game.values
          /\ game'.unionList = With(game.unionList, r.union, r.handle) /\ db' = db
      BY <1>2, DoesKeep
    <2>2. r.handle \in DOMAIN game.values /\ game.values[r.handle].id = r.union
      BY <2>1, HandleIs DEF HandleCalls
    <2>3. GrownDocs
      BY <1>a, <2>1
    <2>4. /\ DOMAIN game'.unionList = DOMAIN game.unionList \cup {r.union}
          /\ \A x \in DOMAIN game'.unionList :
                game'.unionList[x] = IF x = r.union THEN r.handle ELSE game.unionList[x]
      BY <2>1 DEF With
    <2>5. MemoryKeeps
      BY <2>1, <2>4 DEF MemoryKeeps
    <2>6. \A x \in DOMAIN game'.unionList : /\ game'.unionList[x] \in DOMAIN game'.values
                                            /\ game'.values[game'.unionList[x]].id = x
      BY <1>0, <2>1, <2>2, <2>4 DEF MemoryShaped
    <2>7. \A x : UnionAt(x) # 0 => UnionAt(x)' # 0
      BY <1>0, <2>3, FoundAgain
    <2>8. ASSUME NEW k \in DOMAIN game.values
          PROVE  ValueShaped(game.values[k])'
      <3>1. ValueShaped(game.values[k])
        BY <1>0 DEF MemoryShaped
      <3>. QED  BY <2>1, <2>4, <2>7, <3>1 DEF ValueShaped
    <2>9. MemoryShaped'
      BY <1>0, <2>1, <2>6, <2>8 DEF MemoryShaped
    <2>10. Moves(s, AfterUnion(r.op)) /\ reqs'[s].handle = r.handle
           /\ r.union \in DOMAIN game'.unionList
      BY <2>1, <2>4 DEF Passes
    <2>11. Now(r) \in HandleCalls
      BY <2>1 DEF HandleCalls
    <2>. QED  BY <1>b, <2>3, <2>5, <2>9, <2>10, <2>11, StaysWithValue
  <1>3. CASE InitUnion(s) \/ (GameFault(s) /\ Now(r) = "init")
    <2>1. PICK v \in {LoadedValue(r.union), NilValue(r.union)} : Loads(s, v)
      BY <1>3, DoesInit
    <2>2. /\ Moves(s, "keepUnion") /\ reqs'[s].handle = Len(game.values) + 1
          /\ DOMAIN game' = {"values", "unionList"} /\ game'.unionList = game.unionList
          /\ game'.values = Append(game.values, v) /\ db' = db
      BY <2>1 DEF Loads
    <2>3. GrownDocs
      BY <1>a, <2>2
    <2>4. /\ DOMAIN v = ValueFields /\ DOMAIN v.set = SetNames /\ IsSeq(v.uids) /\ v.id = r.union
          /\ v.data \in BOOLEAN /\ (~v.data => v.owner = NoUser)
          /\ (v.data => UnionAt(v.id) # 0) /\ DOMAIN v.rooms = {}
      <3>. DEFINE n == NilValue(r.union)
      <3>1. /\ DOMAIN n = ValueFields /\ DOMAIN n.set = SetNames /\ IsSeq(n.uids)
            /\ n.id = r.union /\ n.data = FALSE /\ n.owner = NoUser /\ DOMAIN n.rooms = {}
        BY DEF NilValue, ValueFields, SetNames, IsSeq
      <3>. HIDE DEF n
      <3>2. CASE v = n
        BY <3>1, <3>2
      <3>3. CASE v # n
        <4>. DEFINE d == UnionOf(r.union)
        <4>1. /\ UnionAt(r.union) # 0
              /\ v = [id |-> r.union, data |-> TRUE, owner |-> d.owner, set |-> d.set,
                      list |-> d.list, uids |-> d.uids, rooms |-> <<>>]
          BY <2>1, <3>3 DEF LoadedValue, n
        <4>2. DocShaped(d)
          <5>1. d = db.unions[UnionAt(r.union)] /\ UnionAt(r.union) \in DOMAIN db.unions
            BY <1>0, <2>3, <4>1, FoundAgain
          <5>. QED  BY <1>0, <5>1 DEF DocsShaped
        <4>. HIDE DEF d
        <4>3. /\ v.id = r.union /\ v.data = TRUE /\ v.set = d.set /\ v.uids = d.uids
              /\ DOMAIN v.rooms = {} /\ DOMAIN v = ValueFields
          BY <4>1 DEF ValueFields
        <4>. QED  BY <4>1, <4>2, <4>3 DEF DocShaped
      <3>. QED  BY <3>2, <3>3
    <2>. HIDE DEF r
    <2>5. /\ IsSeq(game'.values)
          /\ DOMAIN game'.values = DOMAIN game.values \cup {Len(game.values) + 1}
          /\ game'.values[Len(game.values) + 1] = v
          /\ \A i \in DOMAIN game.values : game'.values[i] = game.values[i]
      BY <1>0, <2>2, Appending
    <2>6. MemoryKeeps
      BY <2>2, <2>5 DEF MemoryKeeps
    <2>7. \A x : UnionAt(x) # 0 => UnionAt(x)' # 0
      BY <1>0, <2>3, FoundAgain
    <2>8. ASSUME NEW k \in DOMAIN game.values
          PROVE  ValueShaped(game.values[k])'
      <3>1. ValueShaped(game.values[k])
        BY <1>0 DEF MemoryShaped
      <3>. QED  BY <2>2, <2>5, <2>7, <3>1 DEF ValueShaped
    <2>9. ASSUME NEW k, k = Len(game.values) + 1
          PROVE  ValueShaped(game.values[k])'
      BY <2>4, <2>5, <2>7, <2>9 DEF ValueShaped
    <2>10. \A x \in DOMAIN game'.unionList : /\ game'.unionList[x] \in DOMAIN game'.values
                                            /\ game'.values[game'.unionList[x]].id = x
      BY <1>0, <2>2, <2>5 DEF MemoryShaped
    <2>11. (\A k \in DOMAIN game.values : ValueShaped(game.values[k]))'
      BY <2>5, <2>8, <2>9
    <2>12. MemoryShaped'
      BY <2>2, <2>5, <2>10, <2>11 DEF MemoryShaped
    <2>13. OthersWait(s) /\ OnPath(reqs'[s]) /\ Now(reqs'[s]) = "keepUnion"
           /\ reqs'[s].union = r.union
      BY <2>2 DEF Moves, r
    <2>14. HandleOk(reqs[s])'
      BY <2>2, <2>4, <2>5, <2>13 DEF HandleOk, Now
    <2>. QED  BY <1>0, <2>3, <2>6, <2>12, <2>13, <2>14, OthersKept
  <1>. QED  BY <1>1, <1>2, <1>3

\* A call that leaves the memory alone, and documents but for what they hold.
LEMMA MemDocs ==
    ASSUME NEW s, Plays(s), game' = game, GrownDocs, Quits(s) \/ Passes(s, NextOf(s)),
           Now(reqs[s]) \notin UnionCalls,
           NextOf(s) \in DataCalls => Now(reqs[s]) \in DataCalls \/ Value(s).data
    PROVE  Kept
  <1>1. MemoryShaped' /\ MemoryKeeps /\ GrownDocs
    BY MemorySame DEF GrownDocs, Plays
  <1>. QED  BY <1>1, ProceedsWithValue

\* The calls about rooms.
LEMMA MemRooms ==
    ASSUME NEW s, Plays(s), ~GamePanics,
           \/ FindUserData(s) \/ InRoom(s) \/ Proxy(s) \/ Rejoin(s) \/ CreateRoom(s)
           \/ JoinRoom(s) \/ QuickJoin(s) \/ StoreRoom(s) \/ StoreServer(s)
           \/ Leave(s) \/ Dismiss(s) \/ CheckHongBao(s)
    PROVE  Kept
  <1>. DEFINE r == reqs[s]
  <1>0. s \in Slots /\ MemInv /\ DocsShaped /\ MemoryShaped /\ r.op \in GameOps
    BY PlayerIs DEF Plays, MemInv
  <1>a. (db' = db => GrownDocs) /\ (DocsStay(db') => GrownDocs)
    BY <1>0, DocsGrow
  <1>1. CASE FindUserData(s) \/ InRoom(s) \/ Proxy(s) \/ CheckHongBao(s)
    <2>1. /\ game' = game /\ db' = db /\ (Quits(s) \/ Passes(s, NextOf(s)))
          /\ Now(r) \in {"findUser", "inRoom", "proxy", "checkHongBao"}
          /\ Now(r) = "checkHongBao" /\ ~Quits(s) => Value(s).data
      BY <1>1, DoesRead DEF Still
    <2>2. CASE Quits(s)
      <3>1. MemoryShaped' /\ MemoryKeeps /\ GrownDocs
        BY <1>0, <1>a, <2>1, MemorySame DEF GrownDocs
      <3>. QED  BY <1>0, <2>2, <3>1, StaysWithValue
    <2>3. CASE ~Quits(s)
      <3>1. NextOf(s) \in DataCalls => Now(r) = "checkHongBao"
        BY <2>1 DEF NextOf, NextCall, DataCalls
      <3>2. Now(r) \notin UnionCalls
        BY <2>1 DEF UnionCalls
      <3>. QED  BY <1>a, <2>1, <2>3, <3>1, <3>2, MemDocs
    <2>. QED  BY <2>2, <2>3
  <1>2. CASE Rejoin(s)
    <2>1. game' = game /\ db' = db /\ Moves(s, "findUser")
      BY <1>2, DoesRejoin DEF Still
    <2>2. MemoryShaped' /\ MemoryKeeps /\ GrownDocs
      BY <1>0, <1>a, <2>1, MemorySame DEF GrownDocs
    <2>3. "findUser" \notin HandleCalls
      BY DEF HandleCalls
    <2>. QED  BY <2>1, <2>2, <2>3, StaysWithValue
  <1>3. CASE CreateRoom(s)
    <2>1. PICK rooms : /\ RoomsSet(r.handle, rooms) /\ db' = db /\ Now(r) = "createRoom"
                       /\ Moves(s, "storeRoom") \/ Quits(s)
      BY <1>3, DoesCreate DEF Elsewhere
    <2>2. /\ r.handle \in DOMAIN game.values /\ game.values[r.handle].id = r.union
          /\ r.union \in DOMAIN game.unionList
      BY <2>1, HandleIs DEF HandleCalls
    <2>3. MemoryShaped' /\ MemoryKeeps /\ GrownDocs
      BY <1>0, <1>a, <2>1, <2>2, RoomsKeep DEF GrownDocs
    <2>4. "storeRoom" \notin HandleCalls
      BY DEF HandleCalls
    <2>. QED  BY <2>1, <2>3, <2>4, StaysWithValue
  <1>4. CASE JoinRoom(s) \/ QuickJoin(s)
    <2>1. \/ Quits(s) /\ game' = game /\ db' = db
          \/ \E h, id : Comes(s, h, id)
      BY <1>4, DoesEnter DEF Still
    <2>2. CASE Quits(s) /\ game' = game /\ db' = db
      <3>1. MemoryShaped' /\ MemoryKeeps /\ GrownDocs
        BY <1>0, <1>a, <2>2, MemorySame DEF GrownDocs
      <3>. QED  BY <1>0, <2>2, <3>1, StaysWithValue
    <2>3. ASSUME NEW h, NEW id, Comes(s, h, id)
          PROVE  Kept
      <3>1. /\ h \in DOMAIN game.values /\ id \in DOMAIN game.values[h].rooms /\ db' = db
            /\ Moves(s, "storeServer") \/ Moves(s, "storeRoom")
            /\ game' = game \/ \E rooms : RoomsSet(h, rooms)
        BY <2>3 DEF Comes, Elsewhere
      <3>2. game.values[h].id \in DOMAIN game.unionList
        BY <1>0, <3>1 DEF MemoryShaped, ValueShaped
      <3>3. MemoryShaped' /\ MemoryKeeps /\ GrownDocs
        BY <1>0, <1>a, <3>1, <3>2, RoomsKeep, MemorySame DEF GrownDocs
      <3>4. "storeRoom" \notin HandleCalls /\ "storeServer" \notin HandleCalls
        BY DEF HandleCalls
      <3>. QED  BY <3>1, <3>3, <3>4, StaysWithValue
    <2>. QED  BY <2>1, <2>2, <2>3
  <1>5. CASE StoreRoom(s) \/ StoreServer(s)
    <2>1. Now(r) \in StoreCalls /\ Proceeds(s) /\ DocsStay(db') /\ game' = game
      BY <1>5, DoesStore
    <2>2. Quits(s) \/ Passes(s, NextOf(s))
      BY <2>1 DEF Proceeds
    <2>3. NextOf(s) \notin DataCalls /\ Now(r) \notin UnionCalls
      BY <2>1 DEF NextOf, NextCall, StoreCalls, DataCalls, UnionCalls
    <2>. QED  BY <1>a, <2>1, <2>2, <2>3, MemDocs
  <1>6. CASE Leave(s)
    <2>1. /\ Quits(s) /\ DocsStay(db')
          /\ \/ game' = game
             \/ \E h \in DOMAIN game.values :
                   /\ r.sess \in DOMAIN game.values[h].rooms
                   /\ \E rooms : RoomsSet(h, rooms)
      BY <1>6, DoesLeave
    <2>2. MemoryShaped' /\ MemoryKeeps /\ GrownDocs
      <3>1. CASE game' = game
        BY <1>0, <1>a, <2>1, <3>1, MemorySame DEF GrownDocs
      <3>2. ASSUME NEW h \in DOMAIN game.values, r.sess \in DOMAIN game.values[h].rooms,
                   NEW rooms, RoomsSet(h, rooms)
            PROVE  MemoryShaped' /\ MemoryKeeps /\ GrownDocs
        <4>1. game.values[h].id \in DOMAIN game.unionList
          BY <1>0, <3>2 DEF MemoryShaped, ValueShaped
        <4>. QED  BY <1>0, <1>a, <2>1, <3>2, <4>1, RoomsKeep DEF GrownDocs
      <3>. QED  BY <2>1, <3>1, <3>2
    <2>. QED  BY <1>0, <2>1, <2>2, StaysWithValue
  <1>7. CASE Dismiss(s)
    <2>1. /\ Now(r) = "dismiss" /\ Quits(s) /\ DocsStay(db')
          /\ game' = game \/ \E rooms : RoomsSet(r.handle, rooms)
      BY <1>7, DoesDismiss
    <2>2. /\ r.handle \in DOMAIN game.values /\ game.values[r.handle].id = r.union
          /\ r.union \in DOMAIN game.unionList
      BY <2>1, HandleIs DEF HandleCalls
    <2>3. MemoryShaped' /\ MemoryKeeps /\ GrownDocs
      BY <1>0, <1>a, <2>1, <2>2, MemorySame, RoomsKeep DEF GrownDocs
    <2>. QED  BY <1>0, <2>1, <2>3, StaysWithValue
  <1>. QED  BY <1>1, <1>2, <1>3, <1>4, <1>5, <1>6, <1>7

\* The calls about red envelopes and settings, and a call that fails.
LEMMA MemSettings ==
    ASSUME NEW s, Plays(s), ~GamePanics,
           \/ KeepUid(s) \/ CreditHongBao(s) \/ RecordHongBao(s) \/ StoreUid(s)
           \/ Setting(s) \/ StoreSetting(s) \/ CacheSetting(s)
           \/ GameFault(s) /\ Now(reqs[s]) # "init"
    PROVE  Kept
  <1>. DEFINE r == reqs[s]
              v == Value(s)
  <1>0. s \in Slots /\ MemInv /\ DocsShaped /\ MemoryShaped /\ r.op \in GameOps
    BY PlayerIs DEF Plays, MemInv
  <1>a. (db' = db => GrownDocs) /\ (DocsStay(db') => GrownDocs)
    BY <1>0, DocsGrow
  <1>b. Now(r) \in HandleCalls \ {"keepUnion"} =>
           /\ r.handle \in DOMAIN game.values /\ v = game.values[r.handle] /\ v.id = r.union
           /\ ValueShaped(v) /\ r.union \in DOMAIN game.unionList
    BY HandleIs
  <1>c. ASSUME Now(r) \in HandleCalls \ {"keepUnion"}, db' = db, NEW w, ValueSet(r.handle, w),
               AlikeValues(w, v), DOMAIN w.set = SetNames, IsSeq(w.uids),
               Quits(s) \/ (Passes(s, NextOf(s)) /\ (NextOf(s) \in DataCalls => v.data))
        PROVE  Kept
    <2>1. /\ DOMAIN w = ValueFields /\ w.id = v.id /\ w.data = v.data /\ w.owner = v.owner
          /\ w.rooms = v.rooms
      BY <1>c DEF AlikeValues
    <2>2. DOMAIN w.rooms # {} => w.id \in DOMAIN game.unionList
      BY <1>b, <1>c, <2>1
    <2>3. GrownDocs
      BY <1>a, <1>c DEF GrownDocs
    <2>4. MemoryShaped' /\ MemoryKeeps
      BY <1>0, <1>b, <1>c, <2>1, <2>2, <2>3, ValueKeeps
    <2>5. Now(r) \notin UnionCalls
      BY <1>c DEF UnionCalls, HandleCalls
    <2>6. CASE Quits(s)
      BY <2>3, <2>4, <2>6, StaysWithValue
    <2>7. CASE Passes(s, NextOf(s)) /\ (NextOf(s) \in DataCalls => Value(s).data)
      BY <2>3, <2>4, <2>5, <2>7, ProceedsWithValue
    <2>. QED  BY <1>c, <2>6, <2>7
  <1>1. CASE KeepUid(s)
    <2>1. PICK w : /\ Now(r) = "keepUid" /\ Passes(s, "creditHongBao") /\ db' = db
                   /\ ValueSet(r.handle, w) /\ AlikeValues(w, v)
                   /\ w.uids = Append(v.uids, r.uid) /\ w.set = v.set
      BY <1>1, DoesKeepUid DEF Elsewhere
    <2>2. /\ Now(r) \in HandleCalls \ {"keepUnion"} /\ NextOf(s) = "creditHongBao"
          /\ Now(r) \in DataCalls
      BY <2>1 DEF HandleCalls, NextOf, NextCall, DataCalls
    <2>3. v.data
      BY <2>2, HandleIs DEF DataCalls
    <2>4. DOMAIN w.set = SetNames /\ IsSeq(w.uids)
      BY <1>b, <2>1, <2>2, Appending DEF ValueShaped
    <2>. QED  BY <1>c, <2>1, <2>2, <2>3, <2>4
  <1>2. CASE CreditHongBao(s) \/ RecordHongBao(s)
    <2>1. /\ Now(r) \in {"creditHongBao", "recordHongBao"} /\ Passes(s, NextOf(s))
          /\ DocsStay(db') /\ game' = game
      BY <1>2, DoesCredit
    <2>2. Now(r) \in DataCalls /\ Now(r) \notin UnionCalls
      BY <2>1 DEF DataCalls, UnionCalls
    <2>. QED  BY <1>a, <2>1, <2>2, MemDocs
  <1>3. CASE StoreUid(s)
    <2>1. PICK e : /\ Now(r) = "storeUid" /\ Quits(s) /\ game' = game
                   /\ DocSet(db', UnionAt(r.union), e) /\ DOMAIN e = DocFields
                   /\ e.id = UnionOf(r.union).id /\ e.set = UnionOf(r.union).set
                   /\ e.uids = Append(UnionOf(r.union).uids, r.uid)
      BY <1>3, DoesStoreUid
    <2>2. /\ UnionAt(r.union) \in DOMAIN db.unions
          /\ UnionOf(r.union) = db.unions[UnionAt(r.union)]
      BY <2>1, HandleIs DEF HandleCalls
    <2>3. DocShaped(e)
      <3>1. DocShaped(UnionOf(r.union))
        BY <1>0, <2>2 DEF DocsShaped
      <3>. QED  BY <2>1, <3>1, Appending DEF DocShaped
    <2>4. GrownDocs
      BY <1>0, <2>1, <2>2, <2>3, DocsGrow
    <2>5. Now(r) \in DataCalls /\ Now(r) \notin UnionCalls
      BY <2>1 DEF DataCalls, UnionCalls
    <2>. QED  BY <2>1, <2>4, <2>5, MemDocs
  <1>4. CASE Setting(s)
    <2>1. /\ Now(r) = "setting" /\ db' = db
          /\ \/ Quits(s) /\ game' = game
             \/ /\ Passes(s, "storeSetting") /\ v.data
                /\ ValueSet(r.handle, SetInMemory(v, r))
      BY <1>4, DoesSetting DEF Elsewhere
    <2>2. Now(r) \in HandleCalls \ {"keepUnion"} /\ NextOf(s) = "storeSetting"
      BY <2>1 DEF HandleCalls, NextOf, NextCall
    <2>3. CASE Quits(s) /\ game' = game
      <3>1. MemoryShaped' /\ MemoryKeeps /\ GrownDocs
        BY <1>0, <1>a, <2>1, <2>3, MemorySame DEF GrownDocs
      <3>. QED  BY <1>0, <2>3, <3>1, StaysWithValue
    <2>4. CASE Passes(s, "storeSetting") /\ v.data /\ ValueSet(r.handle, SetInMemory(v, r))
      <3>. DEFINE w == SetInMemory(v, r)
      <3>1. /\ AlikeValues(w, v)
            /\ w.uids = IF r.op = "HongBaoSetting" THEN <<>> ELSE v.uids
            /\ w.set = IF r.op = "UpdateLotteryStatus"
                       THEN [v.set EXCEPT !.lottery = Wanted(r)] ELSE v.set
        BY <1>b, <2>2, SetsInMemory
      <3>. HIDE DEF w
      <3>2. DOMAIN v.set = SetNames /\ IsSeq(v.uids) /\ IsSeq(<<>>)
        BY <1>b, <2>2 DEF ValueShaped, IsSeq
      <3>3. DOMAIN w.set = SetNames
        <4>1. DOMAIN [v.set EXCEPT !.lottery = Wanted(r)] = DOMAIN v.set
          OBVIOUS
        <4>. QED  BY <3>1, <3>2, <4>1
      <3>4. IsSeq(w.uids)
        BY <3>1, <3>2
      <3>5. ValueSet(r.handle, w)
        BY <2>4 DEF w
      <3>. QED  BY <1>c, <2>1, <2>2, <2>4, <3>1, <3>3, <3>4, <3>5
    <2>. QED  BY <2>1, <2>3, <2>4
  <1>5. CASE StoreSetting(s)
    <2>. DEFINE e == SetInDoc(UnionOf(r.union), r)
    <2>1. /\ Now(r) = "storeSetting" /\ DocSet(db', UnionAt(r.union), e)
          /\ game' = game
          /\ IF r.op = "UpdateLotteryStatus" THEN Quits(s)
             ELSE Moves(s, "cacheSetting") /\ reqs'[s].handle = r.handle
      BY <1>5, DoesStoreSetting
    <2>2. /\ UnionAt(r.union) \in DOMAIN db.unions
          /\ UnionOf(r.union) = db.unions[UnionAt(r.union)]
          /\ r.union \in DOMAIN game.unionList /\ v.data
      BY <2>1, HandleIs DEF HandleCalls
    <2>3. DocShaped(e) /\ e.id = UnionOf(r.union).id
      <3>1. DocShaped(UnionOf(r.union))
        BY <1>0, <2>2 DEF DocsShaped
      <3>2. r.op \in SettingOps
        BY <1>0, <2>1, PlayerIs, WhoCalls
      <3>3. /\ DOMAIN e = DocFields /\ e.id = UnionOf(r.union).id
            /\ e.uids = IF r.op = "HongBaoSetting" THEN <<>> ELSE UnionOf(r.union).uids
            /\ e.set = [UnionOf(r.union).set EXCEPT ![SettingOf[r.op]] =
                   IF r.op = "AddRoomRuleList" THEN UnionOf(r.union).set.rules + 1 ELSE Wanted(r)]
        BY <3>1, <3>2, SetsInDoc
      <3>. HIDE DEF e
      <3>4. DOMAIN e.set = SetNames
        BY <3>1, <3>3 DEF DocShaped
      <3>5. IsSeq(e.uids)
        BY <3>1, <3>3 DEF DocShaped, IsSeq
      <3>. QED  BY <3>3, <3>4, <3>5 DEF DocShaped
    <2>. HIDE DEF e
    <2>4. GrownDocs
      BY <1>0, <2>1, <2>2, <2>3, DocsGrow
    <2>5. MemoryShaped' /\ MemoryKeeps /\ GrownDocs
      BY <1>0, <2>1, <2>4, MemorySame DEF GrownDocs
    <2>6. Now(r) \in HandleCalls /\ r.union \in DOMAIN game'.unionList
      BY <2>1, <2>2 DEF HandleCalls
    <2>. QED  BY <2>1, <2>2, <2>5, <2>6, StaysWithValue
  <1>6. CASE CacheSetting(s)
    <2>1. PICK w : /\ Now(r) = "cacheSetting" /\ Quits(s) /\ db' = db
                   /\ ValueSet(r.handle, w) /\ AlikeValues(w, v) /\ w.uids = v.uids
                   /\ w.set = [v.set EXCEPT ![SettingOf[r.op]] = NewVal(r)]
      BY <1>6, DoesCache DEF Elsewhere
    <2>2. Now(r) \in HandleCalls \ {"keepUnion"}
      BY <2>1 DEF HandleCalls
    <2>3. DOMAIN w.set = SetNames /\ IsSeq(w.uids)
      <3>1. DOMAIN w.set = DOMAIN v.set
        BY <2>1
      <3>. QED  BY <1>b, <2>1, <2>2, <3>1 DEF ValueShaped
    <2>. QED  BY <1>c, <2>1, <2>2, <2>3
  <1>7. CASE GameFault(s) /\ Now(r) # "init"
    <2>1. (Quits(s) \/ Proceeds(s)) /\ game' = game /\ db' = db
      BY <1>7, DoesFault
    <2>2. MemoryShaped' /\ MemoryKeeps /\ GrownDocs
      BY <1>0, <1>a, <2>1, MemorySame DEF GrownDocs
    <2>3. CASE Quits(s)
      BY <1>0, <2>2, <2>3, StaysWithValue
    <2>4. CASE ~Quits(s)
      <3>1. Passes(s, NextOf(s))
        BY <2>1, <2>4 DEF Proceeds
      <3>2. Refuse(s) => Quits(s)
        BY PlayerGoes
      <3>3. AtOp(s, {"UpdateOpeningStatus"}, "storeSetting")
        <4>1. ~At(s, "init")
          BY <1>7, PlayerIs
        <4>. QED  BY <1>7, <2>4, <3>2, <4>1 DEF GameFault
      <3>4. Now(r) = "storeSetting"
        BY <3>3, PlayerIs DEF AtOp
      <3>5. Now(r) \in DataCalls /\ Now(r) \notin UnionCalls
        BY <3>4 DEF DataCalls, UnionCalls
      <3>. QED  BY <1>a, <2>1, <3>1, <3>5, MemDocs
    <2>. QED  BY <2>3, <2>4
  <1>. QED  BY <1>1, <1>2, <1>3, <1>4, <1>5, <1>6, <1>7

\* The game server starts anew.
LEMMA MemAfterPanic ==
    ASSUME Shaped, MemInv, GamePanics
    PROVE  MemInv'
  <1>1. /\ DOMAIN reqs' = Slots /\ db' = db
        /\ \A p \in Slots : reqs'[p] = Idle \/ (reqs'[p] = reqs[p] /\ reqs[p].op \notin GameOps)
        /\ game' = [values |-> <<>>, unionList |-> <<>>]
    <2>1. DOMAIN reqs' = Slots /\ db' = db /\ game' = [values |-> <<>>, unionList |-> <<>>]
      BY DEF GamePanics, NewUnionManager
    <2>2. \A p \in Slots : reqs'[p] = IF reqs[p] # Idle /\ reqs[p].op \in GameOps THEN Idle
                                      ELSE reqs[p]
      BY DEF GamePanics
    <2>. QED  BY <2>1, <2>2
  <1>2. MemoryShaped'
    <2>1. DOMAIN game' = {"values", "unionList"} /\ game'.values = <<>> /\ game'.unionList = <<>>
      BY <1>1
    <2>2. DOMAIN game'.values = {} /\ DOMAIN game'.unionList = {} /\ IsSeq(game'.values)
      BY <2>1 DEF IsSeq
    <2>. QED  BY <2>1, <2>2 DEF MemoryShaped
  <1>3. DocsShaped'
    BY <1>1 DEF MemInv, DocsShaped, DocShaped
  <1>4. ASSUME NEW p \in Busy'
        PROVE  OnPath(reqs[p])' /\ HandleOk(reqs[p])'
    <2>1. p \in Busy /\ reqs'[p] = reqs[p] /\ reqs[p].op \notin GameOps /\ p \in Slots
      BY <1>1, <1>4 DEF Busy
    <2>2. Works(p)
      BY <2>1 DEF Works, Shaped, Formed, Ops
    <2>3. Now(reqs[p]) \in HallCalls /\ OnPath(reqs[p])
      BY <2>1, <2>2, HallWays DEF Now, MemInv
    <2>4. Now(reqs[p]) \notin HandleCalls
      BY <2>3 DEF HallCalls, HandleCalls
    <2>. QED  BY <2>1, <2>3, <2>4 DEF OnPath, HandleOk, Now
  <1>. QED  BY <1>2, <1>3, <1>4 DEF MemInv

\* The steps of the hall.
LEMMA MemHall ==
    ASSUME NEW s, Works(s), SharedStep(s) \/ HallStep(s), game' = game
    PROVE  Kept
  <1>0. s \in Slots /\ MemInv /\ DocsShaped
    BY HallWays DEF Works, MemInv
  <1>1. GrownDocs
    BY <1>0, HallDocs, DocsGrow
  <1>2. MemoryShaped' /\ MemoryKeeps /\ GrownDocs
    BY <1>0, <1>1, MemorySame DEF GrownDocs
  <1>3. CASE Panic(s)
    <2>1. /\ DOMAIN reqs' = Slots
          /\ \A p \in Slots : reqs'[p] = Idle \/ reqs'[p] = reqs[p]
      BY <1>3 DEF Panic, HallPanics
    <2>2. ASSUME NEW p \in Busy'
          PROVE  OnPath(reqs[p])' /\ HandleOk(reqs[p])'
      <3>1. p \in Busy /\ reqs'[p] = reqs[p]
        BY <2>1, <2>2 DEF Busy
      <3>2. OnPath(reqs[p]) /\ HandleOk(reqs[p])
        BY <1>0, <3>1 DEF MemInv
      <3>. QED  BY <1>2, <3>1, <3>2 DEF OnPath, HandleOk, Now, MemoryKeeps
    <2>. QED  BY <1>2, <2>2 DEF MemInv, GrownDocs, Kept
  <1>4. CASE ~Panic(s)
    <2>1. Quits(s) \/ HallTurns(s)
      BY <1>4, HallGoes
    <2>2. CASE Quits(s)
      BY <1>0, <1>2, <2>2, OthersKept DEF Quits
    <2>3. CASE HallTurns(s)
      <3>1. /\ OthersWait(s) /\ OnPath(reqs'[s]) /\ reqs'[s] # Idle /\ reqs'[s].op \in HallOps
            /\ DOMAIN reqs'[s] = Fields
        BY <2>3 DEF HallTurns, Works
      <3>2. Now(reqs'[s]) \in HallCalls
        BY <2>3 DEF HallTurns
      <3>3. HandleOk(reqs[s])'
        BY <3>2 DEF HandleOk, HallCalls, HandleCalls, Now
      <3>. QED  BY <1>0, <1>2, <3>1, <3>3, OthersKept
    <2>. QED  BY <2>1, <2>2, <2>3
  <1>. QED  BY <1>3, <1>4

\* What a message about to be handled has before it.
LEMMA NewOnPath ==
    ASSUME NEW i \in DOMAIN Starts, NEW c \in Starts[i].calls
    PROVE  LET k == NewRequest(c)
           IN /\ DOMAIN k = Fields /\ k # Idle /\ k.op = c.op /\ k.uid = c.uid
              /\ k.uid \in Users /\ k.op \in Ops
              /\ k.sess = session[k.uid] /\ k.todo = StepsOf(k.op) /\ OnPath(k)
              /\ k.op \in HallOps => Now(k) \in HallCalls
              /\ k.op \in GameOps => Now(k) \in {"getUnion", "findUser", "proxy", "leave"}
              /\ k.op \in GameOps /\ Now(k) = "getUnion" => k.op \notin RoomOps
  <1>. DEFINE k == NewRequest(c)
  <1>1. c \in [op : HallOps \cup GameOps, uid : Users, other : Users, union : Nat, n : Nat]
    BY ClubsAssumption
  <1>2. /\ DOMAIN k = Fields /\ k.op = c.op /\ k.uid = c.uid /\ k.todo = StepsOf(c.op)
        /\ k.sess = session[c.uid] /\ k.uid \in Users /\ k.op \in Ops
    BY <1>1 DEF NewRequest, Fields, Ops
  <1>. HIDE DEF k
  <1>3. k # Idle
    BY <1>2, IdleIsNot
  <1>4. CASE k.op \in HallOps
    <2>1. StepsOf(k.op) = HallSteps[k.op]
      BY <1>4 DEF StepsOf
    <2>2. HallSteps[k.op] \in {CreateUnion, JoinUnion, InviteJoinUnion, ExitUnion,
                               SafeBoxOperation, ModifyScore, GiveScore, AddPartner}
      BY <1>4, OpsByName DEF HallSteps
    <2>. DEFINE S == HallCalls
    <2>3. /\ NextId \in Seq(S) /\ <<"insertUnion">> \in Seq(S) /\ <<"addToSet">> \in Seq(S)
          /\ <<"push">> \in Seq(S) /\ <<"findUser", "findOwned">> \in Seq(S)
          /\ <<"findInviter", "findUnion", "findUser", "countMember">> \in Seq(S)
          /\ <<"findUnion", "findUser", "findOther", "countMember">> \in Seq(S)
          /\ NextId # <<>>
      BY DEF NextId, HallCalls
    <2>4. \A q \in {CreateUnion, JoinUnion, InviteJoinUnion, ExitUnion, SafeBoxOperation,
                     ModifyScore, GiveScore, AddPartner} :
             q \in Seq(S) /\ q # <<>>
      <3>1. /\ ExitUnion \in Seq(S) /\ ExitUnion # <<>>
            /\ SafeBoxOperation \in Seq(S) /\ SafeBoxOperation # <<>>
            /\ ModifyScore \in Seq(S) /\ ModifyScore # <<>>
            /\ GiveScore \in Seq(S) /\ GiveScore # <<>>
            /\ AddPartner \in Seq(S) /\ AddPartner # <<>>
        BY DEF ExitUnion, SafeBoxOperation, ModifyScore, GiveScore, AddPartner, HallCalls
      <3>. HIDE DEF S
      <3>2. /\ JoinUnion \in Seq(S) /\ JoinUnion # <<>>
            /\ InviteJoinUnion \in Seq(S) /\ InviteJoinUnion # <<>>
        BY <2>3, OneAfterAnother DEF JoinUnion, InviteJoinUnion
      <3>3. CreateUnion \in Seq(S) /\ CreateUnion # <<>>
        BY <2>3, OneAfterAnother DEF CreateUnion
      <3>. QED  BY <3>1, <3>2, <3>3
    <2>5. k.todo \in Seq(HallCalls) /\ k.todo # <<>>
      BY <1>2, <2>1, <2>2, <2>4
    <2>6. Head(k.todo) \in HallCalls
      BY <2>5
    <2>7. k.op \notin GameOps
      BY <1>4, GameIsNotHall
    <2>. QED  BY <1>2, <1>3, <1>4, <2>5, <2>6, <2>7 DEF OnPath, Now, k
  <1>5. CASE k.op \in GameOps
    <2>1. StepsOf(k.op) = GameSteps[k.op] /\ k.op \notin HallOps
      BY <1>5, GameIsNotHall DEF StepsOf
    <2>2. /\ Path(k.op, GameSteps[k.op])
          /\ Head(GameSteps[k.op]) \in {"getUnion", "findUser", "proxy", "leave"}
          /\ Head(GameSteps[k.op]) = "getUnion" => k.op \notin RoomOps
      <3>1. CASE k.op = "CreateRoom"
        BY <3>1 DEF GameSteps, CreateRoomSteps, Path, CallsOf, UnionCalls, NextCall, AfterUnion
      <3>2. CASE k.op = "JoinRoom"
        BY <3>2 DEF GameSteps, JoinRoomSteps, Path, CallsOf, UnionCalls, NextCall, AfterUnion
      <3>3. CASE k.op = "QuickJoin"
        BY <3>3 DEF GameSteps, QuickJoinSteps, Path, CallsOf, UnionCalls, NextCall, AfterUnion
      <3>4. CASE k.op = "GetHongBao"
        BY <3>4 DEF GameSteps, GetHongBaoSteps, Path, CallsOf, UnionCalls, NextCall, AfterUnion,
                    RoomOps
      <3>5. CASE k.op = "LeaveRoom"
        BY <3>5 DEF GameSteps, Path, CallsOf, NextCall
      <3>6. CASE k.op = "DismissRoom"
        BY <3>6 DEF GameSteps, Path, CallsOf, UnionCalls, NextCall, AfterUnion, RoomOps
      <3>7. CASE k.op \in SettingOps \ {"UpdateLotteryStatus"}
        <4>1. GameSteps[k.op] = StoreThenCache
          BY <3>7, OpsByName DEF GameSteps
        <4>2. /\ CallsOf(k.op) = UnionCalls \cup {"setting", "storeSetting", "cacheSetting"}
              /\ AfterUnion(k.op) = "setting" /\ k.op # "UpdateLotteryStatus"
          BY <3>7, OpsByName DEF CallsOf, AfterUnion
        <4>3. k.op \notin RoomOps
          BY <3>7, OpsByName DEF RoomOps
        <4>. QED  BY <4>1, <4>2, <4>3 DEF StoreThenCache, Path, UnionCalls, NextCall
      <3>8. CASE k.op = "UpdateLotteryStatus"
        BY <3>8 DEF GameSteps, CacheThenStore, Path, CallsOf, UnionCalls, NextCall, AfterUnion,
                    RoomOps
      <3>. QED  BY <1>5, <3>1, <3>2, <3>3, <3>4, <3>5, <3>6, <3>7, <3>8, OpsByName
    <2>. QED  BY <1>2, <1>3, <2>1, <2>2 DEF OnPath, Now, k
  <1>. QED  BY <1>2, <1>4, <1>5 DEF Ops

\* A message arrives.
LEMMA MemArrive ==
    ASSUME Shaped, MemInv, NEW s \in Slots, Arrive(s), start \in DOMAIN Starts
    PROVE  Kept
  <1>1. PICK c \in Starts[start].calls : reqs' = [reqs EXCEPT ![s] = NewRequest(c)]
    BY DEF Arrive
  <1>. DEFINE k == NewRequest(c)
  <1>2. /\ OnPath(k) /\ k.op \in Ops
        /\ k.op \in HallOps => Now(k) \in HallCalls
        /\ k.op \in GameOps => Now(k) \in {"getUnion", "findUser", "proxy", "leave"}
    BY NewOnPath
  <1>3. reqs' = [reqs EXCEPT ![s] = k] /\ game' = game /\ db' = db
    BY <1>1 DEF Arrive
  <1>. HIDE DEF k
  <1>4. OthersWait(s) /\ reqs'[s] = k
    BY <1>3 DEF Shaped, OthersWait
  <1>5. GrownDocs
    BY <1>3, DocsGrow DEF MemInv
  <1>6. MemoryShaped' /\ MemoryKeeps /\ GrownDocs
    BY <1>3, <1>5, MemorySame DEF GrownDocs
  <1>7. HandleOk(reqs[s])'
    <2>1. Now(k) \notin HandleCalls
      BY <1>2 DEF Ops, HallCalls, HandleCalls
    <2>. QED  BY <1>4, <2>1 DEF HandleOk, Now
  <1>. QED  BY <1>2, <1>4, <1>6, <1>7, OthersKept

\* Documents and memory at the start.
LEMMA MemAtStart ==
    ASSUME Init
    PROVE  MemInv
  <1>1. db \in Docs /\ Busy = {}
    BY StartsShaped, ClubsAssumption DEF Init
  <1>2. DOMAIN db = DbFields /\ db.unions \in Seq(Union)
    BY <1>1 DEF Docs, DbFields
  <1>3. ASSUME NEW d \in Union
        PROVE  DocShaped(d)
    BY DEF Union, Settings, DocShaped, DocFields, SetNames, IsSeq
  <1>4. DocsShaped
    BY <1>2, <1>3 DEF DocsShaped, IsSeq
  <1>5. game = [values |-> <<>>, unionList |-> <<>>]
    BY DEF Init, NewUnionManager
  <1>6. MemoryShaped
    BY <1>5 DEF MemoryShaped, IsSeq
  <1>. QED  BY <1>1, <1>4, <1>6 DEF MemInv

-----------------------------------------------------------------------------
(* Every step. *)

\* One of the two servers is at work on a request.
LEMMA WhoSteps ==
    ASSUME OwnInv, MemInv, NEW s \in Slots, HallHandles(s) \/ GameHandles(s)
    PROVE  /\ s \in Busy /\ hist' = Noted(s) /\ start' = start
           /\ \/ /\ Works(s) /\ (SharedStep(s) \/ HallStep(s))
                 /\ game' = game /\ session' = session
              \/ Plays(s) /\ GameStep(s)
  <1>1. s \in Busy /\ hist' = Noted(s) /\ start' = start
    BY DEF HallHandles, GameHandles, Busy
  <1>2. Works(s) \/ Plays(s)
    BY <1>1 DEF OwnInv, Shaped, Formed, Ops, Works, Plays
  <1>3. CASE HallHandles(s)
    <2>1. (SharedStep(s) \/ HallStep(s)) /\ game' = game /\ session' = session
      BY <1>3 DEF HallHandles
    <2>. QED  BY <1>1, <1>2, <2>1, WhoWorks
  <1>4. CASE GameHandles(s)
    <2>1. GameStep(s)
      BY <1>4 DEF GameHandles
    <2>. QED  BY <1>1, <1>2, <2>1, WhoPlays
  <1>. QED  BY <1>3, <1>4

\* The calls of the game server, by what they are about.
UnionStep(s) == \/ GetUnion(s) \/ KeepUnion(s) \/ InitUnion(s)
                \/ GameFault(s) /\ Now(reqs[s]) = "init"
RoomStep(s) ==
    \/ FindUserData(s) \/ InRoom(s) \/ Proxy(s) \/ Rejoin(s) \/ CreateRoom(s)
    \/ JoinRoom(s) \/ QuickJoin(s) \/ StoreRoom(s) \/ StoreServer(s)
    \/ Leave(s) \/ Dismiss(s) \/ CheckHongBao(s)
SettingStep(s) ==
    \/ KeepUid(s) \/ CreditHongBao(s) \/ RecordHongBao(s) \/ StoreUid(s)
    \/ Setting(s) \/ StoreSetting(s) \/ CacheSetting(s)
    \/ GameFault(s) /\ Now(reqs[s]) # "init"

\* These are all.
LEMMA PlayerSteps ==
    ASSUME NEW s, GameStep(s)
    PROVE  GamePanics \/ UnionStep(s) \/ RoomStep(s) \/ SettingStep(s)
  <1>1. PanicGame(s) => GamePanics
    BY DEF PanicGame
  <1>. QED  BY <1>1 DEF GameStep, UnionStep, RoomStep, SettingStep

\* A step of the game server that is no panic.
LEMMA MemGame ==
    ASSUME NEW s, Plays(s), GameStep(s), ~GamePanics
    PROVE  Kept
  <1>1. UnionStep(s) => Kept
    BY MemUnion DEF UnionStep
  <1>2. RoomStep(s) => Kept
    BY MemRooms DEF RoomStep
  <1>3. SettingStep(s) => Kept
    BY MemSettings DEF SettingStep
  <1>. QED  BY <1>1, <1>2, <1>3, PlayerSteps

\* A step that changes nothing.
LEMMA MemStutters ==
    ASSUME MemInv, UNCHANGED vars
    PROVE  Kept
  <1>1. db' = db /\ game' = game /\ reqs' = reqs
    BY DEF vars
  <1>2. GrownDocs
    BY <1>1, DocsGrow DEF MemInv
  <1>3. MemoryShaped' /\ MemoryKeeps
    BY <1>1, <1>2, MemorySame
  <1>4. \A p \in Busy' : OnPath(reqs[p])' /\ HandleOk(reqs[p])'
    BY <1>1 DEF MemInv, Busy, OnPath, HandleOk, Now
  <1>. QED  BY <1>2, <1>3, <1>4 DEF Kept, MemInv, GrownDocs

\* A message arrives, a server works on a request, nothing happens, or the
\* game server panics.
LEMMA EveryStep ==
    ASSUME OwnInv, MemInv, start \in DOMAIN Starts, [Next]_vars
    PROVE  /\ start' = start
           /\ \/ Kept /\ \E s \in Slots : Arrive(s)
              \/ Kept /\ UNCHANGED vars
              \/ \E s \in Busy :
                    /\ hist' = Noted(s)
                    /\ \/ /\ Kept /\ Works(s) /\ (SharedStep(s) \/ HallStep(s))
                          /\ game' = game /\ session' = session
                       \/ Kept /\ Plays(s) /\ GameStep(s) /\ ~GamePanics
                       \/ MemInv' /\ Plays(s) /\ GamePanics
  <1>1. ASSUME NEW s \in Slots, Arrive(s)
        PROVE  start' = start /\ Kept
    BY <1>1, MemArrive DEF Arrive, OwnInv
  <1>2. ASSUME NEW s \in Slots, HallHandles(s) \/ GameHandles(s)
        PROVE  /\ start' = start /\ s \in Busy /\ hist' = Noted(s)
               /\ \/ /\ Kept /\ Works(s) /\ (SharedStep(s) \/ HallStep(s))
                     /\ game' = game /\ session' = session
                  \/ Kept /\ Plays(s) /\ GameStep(s) /\ ~GamePanics
                  \/ MemInv' /\ Plays(s) /\ GamePanics
    <2>1. /\ s \in Busy /\ hist' = Noted(s) /\ start' = start
          /\ \/ /\ Works(s) /\ (SharedStep(s) \/ HallStep(s))
                /\ game' = game /\ session' = session
             \/ Plays(s) /\ GameStep(s)
      BY <1>2, WhoSteps
    <2>2. Works(s) /\ (SharedStep(s) \/ HallStep(s)) /\ game' = game => Kept
      BY MemHall
    <2>3. Plays(s) /\ GameStep(s) /\ ~GamePanics => Kept
      BY MemGame
    <2>4. GamePanics => MemInv'
      BY MemAfterPanic DEF OwnInv
    <2>. QED  BY <2>1, <2>2, <2>3, <2>4
  <1>3. UNCHANGED vars => start' = start /\ Kept
    BY MemStutters DEF vars
  <1>4. Rest => UNCHANGED vars
    BY DEF Rest
  <1>. QED  BY <1>1, <1>2, <1>3, <1>4 DEF Next

\* In every state of every behaviour the game server's memory is of the
\* documents it was loaded from, a request works on a value of the union it is
\* about, and has the rest of its handler before it (GetUnion, union.go).
THEOREM MemoryStaysShaped == Spec => []MemInv
  <1>1. Init => MemInv /\ start \in DOMAIN Starts
    BY MemAtStart DEF Init
  <1>2. OwnInv /\ (MemInv /\ start \in DOMAIN Starts) /\ [Next]_vars
          => (MemInv /\ start \in DOMAIN Starts)'
    BY EveryStep DEF Kept
  <1>. QED  BY <1>1, <1>2, LocksHaveOneOwner, PTL DEF Spec

-----------------------------------------------------------------------------
(* What a step leaves alone. *)

\* A union that is loaded once was so before.
LEMMA SingleStays ==
    ASSUME MemoryKeeps
    PROVE  /\ \A x : Single(x)' => Single(x)
           /\ AllSingle' => AllSingle
  <1>1. /\ DOMAIN game.values \subseteq DOMAIN game'.values
        /\ \A h \in DOMAIN game.values : game'.values[h].id = game.values[h].id
    BY DEF MemoryKeeps
  <1>2. ASSUME NEW x, Single(x)'
        PROVE  Single(x)
    BY <1>1, <1>2 DEF Single
  <1>3. AllSingle' => AllSingle
    BY <1>1 DEF AllSingle
  <1>. QED  BY <1>2, <1>3

\* Requests that meet are noted.
LEMMA ClashNoted ==
    ASSUME NEW s \in Busy, hist' = Noted(s)
    PROVE  /\ hist.clashed \subseteq hist'.clashed
           /\ \A p \in Busy \ {s} : \A t :
                 t \in Alone(reqs[p]) /\ t \in Alone(reqs[s]) => t \in hist'.clashed
  <1>. DEFINE Met(p) == Clashes(reqs[p], reqs[s]) \cup Clashes(reqs[s], reqs[p])
  <1>1. hist'.clashed = hist.clashed \cup UNION {Met(p) : p \in Busy \ {s}}
    BY DEF Noted
  <1>2. \A p : \A t : t \in Alone(reqs[p]) /\ t \in Alone(reqs[s]) => t \in Met(p)
    BY DEF Clashes
  <1>. HIDE DEF Met
  <1>3. ASSUME NEW p \in Busy \ {s}
        PROVE  Met(p) \subseteq hist'.clashed
    BY <1>1, Zenon
  <1>. QED  BY <1>1, <1>2, <1>3

\* Requests of the game server that others have wait.
GamesWait(s) ==
    \A p \in Slots \ {s} :
        \/ reqs'[p] = reqs[p]
        \/ (p \in Busy => reqs[p].op \notin GameOps) /\ (p \in Busy' => reqs'[p].op \notin GameOps)

\* The hall leaves the game server's requests alone.
LEMMA HallStill ==
    ASSUME NEW s, Works(s), SharedStep(s) \/ HallStep(s)
    PROVE  /\ GamesWait(s) /\ reqs[s].op \notin GameOps
           /\ s \in Busy' => reqs'[s].op \notin GameOps
           /\ DocsStay(db') \/ DocAdded(db')
           /\ failed \subseteq failed'
  <1>0. s \in Slots /\ reqs[s].op \notin GameOps /\ reqs[s].op \in HallOps /\ DocsShaped
    BY HallWays DEF Works, MemInv
  <1>1. DocsStay(db') \/ DocAdded(db')
    BY <1>0, HallDocs
  <1>2. failed \subseteq failed'
    BY <1>0, FailedGrows
  <1>3. CASE Panic(s)
    <2>1. \A p \in Slots : reqs'[p] = Idle \/ (reqs'[p] = reqs[p])
      BY <1>3 DEF Panic, HallPanics
    <2>2. \A p \in Slots : reqs[p] # Idle /\ reqs[p].op \in GameOps => reqs'[p] = reqs[p]
      BY <1>3, GameIsNotHall DEF Panic, HallPanics
    <2>3. GamesWait(s)
      BY <2>1, <2>2 DEF GamesWait, Busy
    <2>. QED  BY <1>0, <1>1, <1>2, <2>1, <2>3 DEF Busy
  <1>4. CASE ~Panic(s)
    <2>1. Quits(s) \/ HallTurns(s)
      BY <1>4, HallGoes
    <2>. QED  BY <1>0, <1>1, <1>2, <2>1 DEF Quits, HallTurns, OthersWait, GamesWait, Busy
  <1>. QED  BY <1>3, <1>4

\* The game server panics: its requests fail, and its memory is gone.
LEMMA PanicLoses ==
    ASSUME NEW s, Plays(s), GamePanics
    PROVE  /\ failed' # {} /\ failed \subseteq failed'
           /\ \A p \in Busy : reqs[p].op \in GameOps => reqs[p].uid \in failed'
           /\ \A p \in Busy' : reqs'[p].op \notin GameOps
           /\ DOMAIN game'.values = {} /\ db' = db /\ session' = session
  <1>. DEFINE L == {p \in Slots : reqs[p] # Idle /\ reqs[p].op \in GameOps}
  <1>1. /\ reqs' = [p \in Slots |-> IF p \in L THEN Idle ELSE reqs[p]]
        /\ failed' = failed \cup {reqs[p].uid : p \in L}
        /\ game' = [values |-> <<>>, unionList |-> <<>>] /\ db' = db /\ session' = session
    BY DEF GamePanics, NewUnionManager
  <1>2. s \in L
    BY PlayerIs DEF Plays
  <1>3. \A p \in Slots : reqs'[p] = IF p \in L THEN Idle ELSE reqs[p]
    BY <1>1
  <1>4. \A p \in Busy' : reqs'[p].op \notin GameOps
    BY <1>3 DEF Busy
  <1>5. DOMAIN game'.values = {}
    BY <1>1
  <1>6. \A p \in L : reqs[p].uid \in failed'
    BY <1>1
  <1>. QED  BY <1>1, <1>2, <1>4, <1>5, <1>6 DEF Busy

\* The values in memory are what they were, but for rooms.
SameValues ==
    /\ DOMAIN game'.values = DOMAIN game.values
    /\ \A h \in DOMAIN game.values :
          /\ game'.values[h].id = game.values[h].id /\ game'.values[h].data = game.values[h].data
          /\ game'.values[h].set = game.values[h].set
          /\ game'.values[h].uids = game.values[h].uids

\* The documents too.
LEMMA DocsSame == ASSUME DocsShaped, db' = db PROVE DocsStay(db')
  BY DEF DocsShaped, DocsStay

\* Rooms are no part of what else a value has.
LEMMA RoomsAside ==
    ASSUME NEW h, NEW rooms, RoomsSet(h, rooms)
    PROVE  SameValues
  <1>1. PICK w : /\ ValueSet(h, w) /\ w.id = game.values[h].id /\ w.data = game.values[h].data
                 /\ w.set = game.values[h].set /\ w.uids = game.values[h].uids
    BY DEF RoomsSet
  <1>. QED  BY <1>1 DEF ValueSet, SameValues

\* The calls that change nothing of lists and settings.
LEMMA Neutral ==
    ASSUME NEW s, Plays(s), ~GamePanics,
           GetUnion(s) \/ KeepUnion(s) \/ (RoomStep(s) /\ ~CheckHongBao(s))
    PROVE  /\ SameValues /\ DocsStay(db') /\ OthersWait(s) /\ Now(reqs[s]) \notin DataCalls
           /\ Quits(s) \/ \E x : Moves(s, x) /\ x \notin DataCalls
  <1>. DEFINE r == reqs[s]
  <1>0. DocsShaped
    BY DEF Plays, MemInv
  <1>a. Quits(s) => OthersWait(s)
    BY DEF Quits
  <1>b. \A x : Passes(s, x) => Moves(s, x)
    BY DEF Passes
  <1>c. \A x : Moves(s, x) => OthersWait(s)
    BY DEF Moves
  <1>d. (db' = db => DocsStay(db')) /\ (game' = game => SameValues)
    BY <1>0, DocsSame DEF SameValues
  <1>e. AfterUnion(r.op) \notin DataCalls /\ "init" \notin DataCalls
    BY DEF AfterUnion, DataCalls
  <1>f. /\ "findUser" \notin DataCalls /\ "storeRoom" \notin DataCalls
        /\ "storeServer" \notin DataCalls /\ "createRoom" \notin DataCalls
    BY DEF DataCalls
  <1>1. CASE GetUnion(s)
    <2>1. /\ game' = game /\ db' = db /\ Now(r) = "getUnion"
          /\ Passes(s, "init") \/ Moves(s, AfterUnion(r.op))
      BY <1>1, DoesGetUnion DEF Still
    <2>2. Now(r) \notin DataCalls
      BY <2>1 DEF DataCalls
    <2>. QED  BY <1>b, <1>c, <1>d, <1>e, <2>1, <2>2
  <1>2. CASE KeepUnion(s)
    <2>1. /\ game'.values = game.values /\ db' = db /\ Now(r) = "keepUnion"
          /\ Passes(s, AfterUnion(r.op))
      BY <1>2, DoesKeep
    <2>2. Now(r) \notin DataCalls /\ SameValues
      BY <2>1 DEF DataCalls, SameValues
    <2>. QED  BY <1>b, <1>c, <1>d, <1>e, <2>1, <2>2
  <1>3. CASE FindUserData(s) \/ InRoom(s) \/ Proxy(s)
    <2>1. /\ game' = game /\ db' = db
          /\ Quits(s) \/ Passes(s, NextOf(s))
          /\ Now(r) \in {"findUser", "inRoom", "proxy", "checkHongBao"}
      BY <1>3, DoesRead DEF Still
    <2>2. Now(r) # "checkHongBao"
      BY <1>3, PlayerIs DEF AtOp, FindUserData, InRoom, Proxy
    <2>3. Now(r) \notin DataCalls /\ NextOf(s) \notin DataCalls
      BY <2>1, <2>2 DEF DataCalls, NextOf, NextCall
    <2>. QED  BY <1>a, <1>b, <1>c, <1>d, <2>1, <2>3
  <1>4. CASE Rejoin(s)
    <2>1. game' = game /\ db' = db /\ Moves(s, "findUser") /\ Now(r) = "rejoin"
      BY <1>4, DoesRejoin DEF Still
    <2>2. Now(r) \notin DataCalls
      BY <2>1 DEF DataCalls
    <2>. QED  BY <1>c, <1>d, <1>f, <2>1, <2>2
  <1>5. CASE CreateRoom(s)
    <2>1. /\ db' = db /\ Now(r) = "createRoom"
          /\ Moves(s, "storeRoom") \/ Quits(s)
          /\ \E rooms : RoomsSet(r.handle, rooms)
      BY <1>5, DoesCreate DEF Elsewhere
    <2>2. Now(r) \notin DataCalls
      BY <2>1 DEF DataCalls
    <2>. QED  BY <1>a, <1>c, <1>d, <1>f, <2>1, <2>2, RoomsAside
  <1>6. CASE JoinRoom(s) \/ QuickJoin(s)
    <2>1. /\ Now(r) \in {"joinRoom", "quickJoin"}
          /\ \/ Quits(s) /\ game' = game /\ db' = db
             \/ \E h, id : Comes(s, h, id)
      BY <1>6, DoesEnter DEF Still
    <2>2. Now(r) \notin DataCalls
      BY <2>1 DEF DataCalls
    <2>3. ASSUME NEW h, NEW id, Comes(s, h, id)
          PROVE  /\ db' = db /\ (game' = game \/ \E rooms : RoomsSet(h, rooms))
                 /\ Moves(s, "storeServer") \/ Moves(s, "storeRoom")
      BY <2>3 DEF Comes, Elsewhere
    <2>. QED  BY <1>a, <1>c, <1>d, <1>f, <2>1, <2>2, <2>3, RoomsAside
  <1>7. CASE StoreRoom(s) \/ StoreServer(s)
    <2>1. Now(r) \in StoreCalls /\ Proceeds(s) /\ DocsStay(db') /\ game' = game
      BY <1>7, DoesStore
    <2>2. Now(r) \notin DataCalls /\ NextOf(s) \notin DataCalls
      BY <2>1 DEF DataCalls, NextOf, NextCall, StoreCalls
    <2>3. Quits(s) \/ Passes(s, NextOf(s))
      BY <2>1 DEF Proceeds
    <2>. QED  BY <1>a, <1>b, <1>c, <1>d, <2>1, <2>2, <2>3
  <1>8. CASE Leave(s)
    <2>1. /\ Now(r) = "leave" /\ Quits(s) /\ DocsStay(db')
          /\ game' = game \/ \E h, rooms : RoomsSet(h, rooms)
      BY <1>8, DoesLeave
    <2>2. Now(r) \notin DataCalls
      BY <2>1 DEF DataCalls
    <2>. QED  BY <1>a, <1>d, <2>1, <2>2, RoomsAside
  <1>9. CASE Dismiss(s)
    <2>1. /\ Now(r) = "dismiss" /\ Quits(s) /\ DocsStay(db')
          /\ game' = game \/ \E rooms : RoomsSet(r.handle, rooms)
      BY <1>9, DoesDismiss
    <2>2. Now(r) \notin DataCalls
      BY <2>1 DEF DataCalls
    <2>. QED  BY <1>a, <1>d, <2>1, <2>2, RoomsAside
  <1>. QED  BY <1>1, <1>2, <1>3, <1>4, <1>5, <1>6, <1>7, <1>8, <1>9 DEF RoomStep

-----------------------------------------------------------------------------
(* Red envelopes. *)

\* Lists.
LEMMA Listing ==
    ASSUME NEW q, IsSeq(q), NEW w, NEW u
    PROVE  /\ Once(<<>>, u) /\ u \notin ToSet(<<>>)
           /\ u \in ToSet(q) => u \in ToSet(Append(q, w))
           /\ w \in ToSet(Append(q, w))
           /\ w # u => /\ u \in ToSet(Append(q, w)) => u \in ToSet(q)
                       /\ Once(q, u) => Once(Append(q, w), u)
           /\ u \notin ToSet(q) => Once(Append(q, u), u)
  <1>. DEFINE a == Append(q, w)
              b == Append(q, u)
              n == Len(q) + 1
  <1>1. /\ DOMAIN a = DOMAIN q \cup {n} /\ a[n] = w /\ n \notin DOMAIN q
        /\ \A i \in DOMAIN q : a[i] = q[i]
    BY Appending
  <1>2. DOMAIN b = DOMAIN q \cup {n} /\ b[n] = u /\ \A i \in DOMAIN q : b[i] = q[i]
    BY Appending
  <1>3. \A p, e : e \in ToSet(p) <=> \E i \in DOMAIN p : p[i] = e
    BY DEF ToSet
  <1>. HIDE DEF a, b, n
  <1>4. Once(<<>>, u) /\ u \notin ToSet(<<>>)
    <2>1. DOMAIN <<>> = {}
      OBVIOUS
    <2>. QED  BY <1>3, <2>1 DEF Once
  <1>5. (u \in ToSet(q) => u \in ToSet(a)) /\ w \in ToSet(a)
    BY <1>1, <1>3
  <1>6. w # u => (u \in ToSet(a) => u \in ToSet(q)) /\ (Once(q, u) => Once(a, u))
    BY <1>1, <1>3 DEF Once
  <1>7. u \notin ToSet(q) => Once(b, u)
    BY <1>2, <1>3 DEF Once
  <1>. QED  BY <1>4, <1>5, <1>6, <1>7 DEF a, b

\* Requests that have to do with a user's shares.
Touches(r, u) == (r.op = "GetHongBao" /\ r.uid = u) \/ r.op = "HongBaoSetting"

\* Two of them clash.
LEMMA TouchingClash ==
    ASSUME NEW s \in Busy, hist' = Noted(s), NEW u \in Users,
           <<"hongBao", u>> \notin hist'.clashed, Touches(reqs[s], u)
    PROVE  \A p \in Busy \ {s} : ~Touches(reqs[p], u)
  <1>1. \A r : r.op = "GetHongBao" /\ r.uid = u => <<"hongBao", u>> \in Alone(r)
    BY OpsByName DEF Alone
  <1>2. ASSUME NEW r, r.op = "HongBaoSetting"
        PROVE  <<"hongBao", u>> \in Alone(r)
    <2>1. Alone(r) = {<<"hongBao", v>> : v \in Users} \cup {<<"set", "hongBao">>}
      BY <1>2, OpsByName DEF Alone
    <2>. QED  BY <2>1
  <1>3. \A r : Touches(r, u) => <<"hongBao", u>> \in Alone(r)
    BY <1>1, <1>2 DEF Touches
  <1>. QED  BY <1>3, ClashNoted

\* No document lists the user anew.
NoMore(u) ==
    \A i \in DOMAIN db'.unions :
        LET p == db'.unions[i].uids
            q == db.unions[i].uids
        IN IF i \in DOMAIN db.unions
           THEN (u \in ToSet(p) => u \in ToSet(q)) /\ (Once(q, u) => Once(p, u))
           ELSE p = <<>>

\* Documents that list nobody, or only others, anew.
LEMMA DocsNoMore ==
    ASSUME DocsShaped, NEW u
    PROVE  /\ DocsStay(db') \/ DocAdded(db') => NoMore(u)
           /\ \A k \in DOMAIN db.unions : \A e :
                 /\ DocSet(db', k, e)
                 /\ \/ e.uids \in {db.unions[k].uids, <<>>}
                    \/ \E w : w # u /\ e.uids = Append(db.unions[k].uids, w)
                 => NoMore(u)
  <1>1. CASE DocsStay(db')
    BY <1>1 DEF DocsStay, NoMore
  <1>2. CASE DocAdded(db')
    <2>1. PICK x, w : db'.unions = Append(db.unions, NewUnion(x, w))
      BY <1>2 DEF DocAdded
    <2>. DEFINE e == NewUnion(x, w)
    <2>2. e.uids = <<>>
      BY DEF NewUnion
    <2>. HIDE DEF e
    <2>3. /\ DOMAIN db'.unions = DOMAIN db.unions \cup {Len(db.unions) + 1}
          /\ db'.unions[Len(db.unions) + 1] = e
          /\ \A i \in DOMAIN db.unions : db'.unions[i] = db.unions[i]
      BY <2>1, Appending DEF DocsShaped, e
    <2>. QED  BY <2>2, <2>3 DEF NoMore
  <1>3. ASSUME NEW k \in DOMAIN db.unions, NEW e, DocSet(db', k, e),
               \/ e.uids \in {db.unions[k].uids, <<>>}
               \/ \E w : w # u /\ e.uids = Append(db.unions[k].uids, w)
        PROVE  NoMore(u)
    <2>. DEFINE q == db.unions[k].uids
    <2>1. IsSeq(q)
      BY DEF DocsShaped, DocShaped
    <2>2. (u \in ToSet(e.uids) => u \in ToSet(q)) /\ (Once(q, u) => Once(e.uids, u))
      <3>. HIDE DEF q
      <3>1. CASE e.uids \in {q, <<>>}
        BY <2>1, <3>1, Listing
      <3>2. ASSUME NEW w, w # u, e.uids = Append(q, w)
            PROVE  (u \in ToSet(e.uids) => u \in ToSet(q)) /\ (Once(q, u) => Once(e.uids, u))
        BY <2>1, <3>2, Listing
      <3>. QED  BY <1>3, <3>1, <3>2 DEF q
    <2>. QED  BY <1>3, <2>2 DEF DocSet, NoMore
  <1>. QED  BY <1>1, <1>2, <1>3

\* The document of a union, in the next state.
LEMMA FoundNoMore ==
    ASSUME MemInv, Kept, NEW u, NoMore(u)
    PROVE  \A x : UnionAt(x) # 0 /\ u \in ToSet(UnionOf(x).uids)' => u \in ToSet(UnionOf(x).uids)
  <1>1. ASSUME NEW x, UnionAt(x) # 0, u \in ToSet(UnionOf(x).uids)'
        PROVE  u \in ToSet(UnionOf(x).uids)
    <2>1. /\ UnionAt(x) \in DOMAIN db.unions /\ UnionOf(x) = db.unions[UnionAt(x)]
          /\ UnionOf(x)' = db'.unions[UnionAt(x)] /\ DOMAIN db.unions \subseteq DOMAIN db'.unions
      BY <1>1, FoundAgain DEF MemInv, Kept, GrownDocs
    <2>2. u \in ToSet(db'.unions[UnionAt(x)].uids)
      BY <1>1, <2>1
    <2>. QED  BY <2>1, <2>2 DEF NoMore
  <1>. QED  BY <1>1

\* A step after which no document lists the user anew, and memory as well as
\* before.
LEMMA TakesStay ==
    ASSUME MemInv, Kept, NEW u, NEW s, GamesWait(s), Takes1(u), NoMore(u),
           \A h \in DOMAIN game.values :
              u \in ToSet(game.values[h].uids)
                 => u \in ToSet(game'.values[h].uids) \/ Resets(game.values[h].id)',
           \A h \in DOMAIN game'.values \ DOMAIN game.values :
              game'.values[h].data => game'.values[h].uids = (UnionOf(game.values[h].id).uids)',
           \A x : Resets(x) => Resets(x)' \/ u \notin ToSet(UnionOf(x).uids)',
           \A p \in Busy \ {s} : Touches(reqs[p], u) =>
              \A h \in DOMAIN game.values :
                 u \in ToSet(game.values[h].uids) => u \in ToSet(game'.values[h].uids),
           s \in Busy' => NotYet(s, u)'
    PROVE  Takes1(u)'
  <1>1. /\ \A x : Single(x)' => Single(x)
        /\ \A x : UnionAt(x) # 0 /\ u \in ToSet(UnionOf(x).uids)' => u \in ToSet(UnionOf(x).uids)
    BY SingleStays, FoundNoMore DEF Kept
  <1>2. /\ DOMAIN db.unions \subseteq DOMAIN db'.unions
        /\ \A i \in DOMAIN db.unions : db'.unions[i].id = db.unions[i].id
        /\ DOMAIN game.values \subseteq DOMAIN game'.values
        /\ \A h \in DOMAIN game.values : /\ game'.values[h].id = game.values[h].id
                                         /\ game'.values[h].data = game.values[h].data
    BY DEF Kept, GrownDocs, MemoryKeeps
  <1>3. \A h \in DOMAIN game.values : game.values[h].data => UnionAt(game.values[h].id) # 0
    BY DEF MemInv, MemoryShaped, ValueShaped
  <1>4. OnceInDocs(u)'
    <2>. SUFFICES ASSUME NEW i \in DOMAIN db'.unions, Single(db.unions[i].id)'
                  PROVE  Once(db'.unions[i].uids, u)
      BY DEF OnceInDocs
    <2>1. CASE i \in DOMAIN db.unions
      <3>1. Single(db.unions[i].id)
        BY <1>1, <1>2, <2>1
      <3>. QED  BY <2>1, <3>1 DEF Takes1, OnceInDocs, NoMore
    <2>2. CASE i \notin DOMAIN db.unions
      <3>1. db'.unions[i].uids = <<>>
        BY <2>2 DEF NoMore
      <3>. QED  BY <3>1 DEF Once
    <2>. QED  BY <2>1, <2>2
  <1>5. Listed(u)'
    <2>. SUFFICES ASSUME NEW h \in DOMAIN game'.values, game'.values[h].data,
                         Single(game.values[h].id)', u \in ToSet(UnionOf(game.values[h].id).uids)'
                  PROVE  u \in ToSet(game'.values[h].uids) \/ Resets(game.values[h].id)'
      BY DEF Listed
    <2>1. CASE h \notin DOMAIN game.values
      BY <2>1
    <2>2. CASE h \in DOMAIN game.values
      <3>. PICK x : x = game.values[h].id
        OBVIOUS
      <3>1. game'.values[h].id = x /\ game.values[h].data /\ UnionAt(x) # 0
        BY <1>2, <1>3, <2>2
      <3>2. Single(x) /\ u \in ToSet(UnionOf(x).uids)' /\ u \in ToSet(UnionOf(x).uids)
        BY <1>1, <3>1
      <3>3. u \in ToSet(game.values[h].uids) \/ Resets(x)
        BY <2>2, <3>1, <3>2 DEF Takes1, Listed
      <3>. QED  BY <2>2, <3>1, <3>2, <3>3
    <2>. QED  BY <2>1, <2>2
  <1>6. ASSUME NEW p \in Busy', p # s
        PROVE  NotYet(p, u)'
    <2>. SUFFICES ASSUME reqs'[p].op = "GetHongBao", reqs'[p].uid = u, Single(reqs[p].union)'
                  PROVE  /\ Now(reqs[p])' \in TakingCalls \cup {"keepUid"}
                               => u \notin ToSet(UnionOf(reqs[p].union).uids)'
                         /\ Now(reqs[p])' \in TakingCalls
                               => u \in ToSet(game'.values[reqs'[p].handle].uids)
      BY DEF NotYet
    <2>1. p \in Busy /\ reqs'[p] = reqs[p]
      BY <1>6, OpsByName DEF GamesWait, Busy
    <2>. DEFINE r == reqs[p]
    <2>2. NotYet(p, u) /\ Single(r.union) /\ Touches(r, u)
      BY <1>1, <2>1 DEF Takes1, Touches
    <2>3. Now(r) \in TakingCalls \cup {"keepUid"} =>
             r.handle \in DOMAIN game.values /\ UnionAt(r.union) # 0
      <3>1. HandleOk(r)
        BY <2>1 DEF MemInv
      <3>. QED  BY <1>3, <3>1 DEF HandleOk, TakingCalls, HandleCalls
    <2>4. /\ Now(r) \in TakingCalls \cup {"keepUid"} => u \notin ToSet(UnionOf(r.union).uids)
          /\ Now(r) \in TakingCalls => u \in ToSet(game.values[r.handle].uids)
      BY <2>1, <2>2 DEF NotYet, Touches
    <2>5. Now(reqs[p])' = Now(r)
      BY <2>1 DEF Now
    <2>6. Now(r) \in TakingCalls => u \in ToSet(game'.values[r.handle].uids)
      BY <1>6, <2>1, <2>2, <2>3, <2>4
    <2>7. Now(r) \in TakingCalls \cup {"keepUid"} => u \notin ToSet(UnionOf(r.union).uids)'
      BY <1>1, <2>1, <2>3, <2>4
    <2>. QED  BY <2>1, <2>5, <2>6, <2>7
  <1>7. (\A p \in Busy : NotYet(p, u))'
    BY <1>6
  <1>. QED  BY <1>4, <1>5, <1>7 DEF Takes1

\* A list that was reset in memory stays to be reset in the document.
LEMMA ResetsStay ==
    ASSUME NEW s, GamesWait(s),
           s \in Busy /\ reqs[s].op = "HongBaoSetting" => Now(reqs[s]) # "storeSetting"
    PROVE  \A x : Resets(x) => Resets(x)'
  <1>1. ASSUME NEW x, Resets(x)
        PROVE  Resets(x)'
    <2>1. PICK p \in Busy : /\ reqs[p].op = "HongBaoSetting" /\ reqs[p].union = x
                            /\ Now(reqs[p]) = "storeSetting"
      BY <1>1 DEF Resets
    <2>2. p # s /\ reqs[p].op \in GameOps
      BY <2>1, OpsByName
    <2>3. reqs'[p] = reqs[p] /\ p \in Busy'
      BY <2>2 DEF GamesWait, Busy
    <2>. QED  BY <2>1, <2>3 DEF Resets, Now
  <1>. QED  BY <1>1

\* A request that is not about to take a share.
LEMMA NotTaking ==
    ASSUME NEW s, NEW x, Moves(s, x), x \notin DataCalls \/ reqs[s].op # "GetHongBao", NEW u
    PROVE  NotYet(s, u)'
  <1>1. Now(reqs'[s]) = x /\ reqs'[s].op = reqs[s].op
    BY DEF Moves
  <1>2. TakingCalls \cup {"keepUid"} \subseteq DataCalls
    BY DEF TakingCalls, DataCalls
  <1>. QED  BY <1>1, <1>2 DEF NotYet, Now, TakingCalls

\* Requests of the hall wait too.
LEMMA OthersAreGames == \A s : OthersWait(s) => GamesWait(s)
  BY DEF OthersWait, GamesWait

\* The steps of the hall.
LEMMA TakesInHall ==
    ASSUME NEW s, Works(s), SharedStep(s) \/ HallStep(s), game' = game, Kept,
           NEW u, Takes1(u)
    PROVE  Takes1(u)'
  <1>1. /\ GamesWait(s) /\ reqs[s].op \notin GameOps
        /\ s \in Busy' => reqs'[s].op \notin GameOps
        /\ DocsStay(db') \/ DocAdded(db')
    BY HallStill
  <1>2. MemInv /\ DocsShaped
    BY DEF Works, MemInv
  <1>3. NoMore(u)
    BY <1>1, <1>2, DocsNoMore
  <1>4. \A x : Resets(x) => Resets(x)'
    BY <1>1, ResetsStay, OpsByName
  <1>5. s \in Busy' => NotYet(s, u)'
    BY <1>1, OpsByName DEF NotYet
  <1>. QED  BY <1>1, <1>2, <1>3, <1>4, <1>5, TakesStay

\* Calls that leave the lists alone.
LEMMA TakesAside ==
    ASSUME NEW s, Plays(s), Kept, NEW u, Takes1(u), OthersWait(s), DocsStay(db'), SameValues,
           reqs[s].op = "HongBaoSetting" => Now(reqs[s]) # "storeSetting",
           \/ Quits(s) \/ NotYet(s, u)'
           \/ \E x : Moves(s, x) /\ (x \notin DataCalls \/ reqs[s].op # "GetHongBao")
    PROVE  Takes1(u)'
  <1>1. MemInv /\ DocsShaped /\ GamesWait(s)
    BY OthersAreGames DEF Plays, MemInv
  <1>2. NoMore(u)
    BY <1>1, DocsNoMore
  <1>3. \A x : Resets(x) => Resets(x)'
    BY <1>1, ResetsStay
  <1>4. s \in Busy' => NotYet(s, u)'
    BY NotTaking DEF Quits, Busy
  <1>. QED  BY <1>1, <1>2, <1>3, <1>4, TakesStay DEF SameValues

\* GetUnion and the calls about rooms.
LEMMA TakesNeutral ==
    ASSUME NEW s, Plays(s), ~GamePanics, Kept, NEW u, Takes1(u),
           GetUnion(s) \/ KeepUnion(s) \/ (RoomStep(s) /\ ~CheckHongBao(s))
    PROVE  Takes1(u)'
  <1>1. /\ SameValues /\ DocsStay(db') /\ OthersWait(s) /\ Now(reqs[s]) \notin DataCalls
        /\ Quits(s) \/ \E x : Moves(s, x) /\ x \notin DataCalls
    BY Neutral
  <1>2. Now(reqs[s]) # "storeSetting"
    BY <1>1 DEF DataCalls
  <1>. QED  BY <1>1, <1>2, TakesAside

\* What a loaded value is.
LEMMA LoadedIs ==
    ASSUME NEW s, Plays(s), UnionStep(s), ~GetUnion(s), ~KeepUnion(s), Kept
    PROVE  /\ OthersWait(s) /\ db' = db /\ Moves(s, "keepUnion") /\ Now(reqs[s]) = "init"
           /\ \A h \in DOMAIN game.values : game'.values[h] = game.values[h]
           /\ \A h \in DOMAIN game'.values \ DOMAIN game.values :
                 /\ DOMAIN game'.values[h].rooms = {} /\ game'.values[h].id = reqs[s].union
                 /\ game'.values[h].data =>
                       /\ game'.values[h].uids = UnionOf(reqs[s].union).uids
                       /\ game'.values[h].set = UnionOf(reqs[s].union).set
  <1>. DEFINE r == reqs[s]
  <1>1. InitUnion(s) \/ (GameFault(s) /\ Now(r) = "init")
    BY DEF UnionStep
  <1>2. PICK v \in {LoadedValue(r.union), NilValue(r.union)} : Loads(s, v) /\ Now(r) = "init"
    BY <1>1, DoesInit
  <1>3. Moves(s, "keepUnion") /\ db' = db /\ game'.values = Append(game.values, v)
    BY <1>2 DEF Loads
  <1>4. OthersWait(s)
    BY <1>3 DEF Moves
  <1>5. /\ DOMAIN v.rooms = {} /\ v.id = r.union
        /\ v.data => v.uids = UnionOf(r.union).uids /\ v.set = UnionOf(r.union).set
    BY <1>2 DEF LoadedValue, NilValue
  <1>. HIDE DEF r
  <1>6. /\ DOMAIN game'.values = DOMAIN game.values \cup {Len(game.values) + 1}
        /\ game'.values[Len(game.values) + 1] = v
        /\ \A i \in DOMAIN game.values : game'.values[i] = game.values[i]
    BY <1>3, Appending DEF Plays, MemInv, MemoryShaped
  <1>. QED  BY <1>2, <1>3, <1>4, <1>5, <1>6 DEF r

\* A value that is loaded has the list of the document.
LEMMA TakesInit ==
    ASSUME NEW s, Plays(s), UnionStep(s), ~GetUnion(s), ~KeepUnion(s), Kept, NEW u, Takes1(u)
    PROVE  Takes1(u)'
  <1>1. MemInv /\ DocsShaped
    BY DEF Plays, MemInv
  <1>2. /\ OthersWait(s) /\ db' = db /\ Moves(s, "keepUnion") /\ Now(reqs[s]) = "init"
        /\ \A h \in DOMAIN game.values : game'.values[h] = game.values[h]
        /\ \A h \in DOMAIN game'.values \ DOMAIN game.values :
              /\ game'.values[h].id = reqs[s].union
              /\ game'.values[h].data => game'.values[h].uids = UnionOf(reqs[s].union).uids
    BY LoadedIs
  <1>3. DocsStay(db') /\ GamesWait(s)
    BY <1>1, <1>2, DocsSame, OthersAreGames
  <1>4. NoMore(u)
    BY <1>1, <1>3, DocsNoMore
  <1>5. \A x : Resets(x) => Resets(x)'
    BY <1>2, <1>3, ResetsStay
  <1>6. NotYet(s, u)'
    BY <1>2, NotTaking DEF DataCalls
  <1>7. ASSUME NEW h \in DOMAIN game'.values \ DOMAIN game.values, game'.values[h].data
        PROVE  game'.values[h].uids = (UnionOf(game.values[h].id).uids)'
    <2>1. PICK x : x = reqs[s].union
      OBVIOUS
    <2>2. game'.values[h].id = x /\ game'.values[h].uids = UnionOf(x).uids
      BY <1>2, <1>7, <2>1
    <2>3. UnionOf(x)' = db'.unions[DocAt(db'.unions, x)] /\ UnionOf(x) = db.unions[DocAt(db.unions, x)]
      BY UnionAtIs, UnionAtIsNext DEF ByPlace
    <2>4. UnionOf(x)' = UnionOf(x)
      BY <1>2, <2>3
    <2>. QED  BY <2>2, <2>4
  <1>. QED  BY <1>1, <1>2, <1>3, <1>4, <1>5, <1>6, <1>7, TakesStay

\* Who is found not to have taken a share is not listed.
LEMMA TakesCheck ==
    ASSUME NEW s, Plays(s), CheckHongBao(s), Kept, NEW u \in Users, Takes1(u),
           hist' = Noted(s), <<"hongBao", u>> \notin hist'.clashed
    PROVE  Takes1(u)'
  <1>. DEFINE r == reqs[s]
  <1>1. game' = game /\ db' = db /\ (Quits(s) \/ Passes(s, NextOf(s)))
    BY DoesRead DEF Still
  <1>2. Now(r) = "checkHongBao" /\ NextOf(s) = "keepUid" /\ r.op = "GetHongBao" /\ s \in Busy
    <2>1. Now(r) = "checkHongBao"
      BY PlayerIs DEF CheckHongBao
    <2>. QED  BY <2>1, PlayerIs, WhoCalls DEF NextOf, NextCall, Plays
  <1>3. OthersWait(s) /\ DocsStay(db') /\ SameValues
    BY <1>1, DocsSame DEF Quits, Passes, Moves, SameValues, Plays, MemInv
  <1>4. CASE ~Quits(s)
    <2>1. Passes(s, "keepUid") /\ Value(s).data /\ r.uid \notin ToSet(Value(s).uids)
      BY <1>1, <1>2, <1>4, DoesRead
    <2>2. /\ r.handle \in DOMAIN game.values /\ Value(s) = game.values[r.handle]
          /\ Value(s).id = r.union
      BY <1>2, HandleIs DEF HandleCalls
    <2>3. /\ Now(reqs'[s]) = "keepUid" /\ reqs'[s].op = r.op /\ reqs'[s].uid = r.uid
          /\ reqs'[s].union = r.union
      BY <2>1 DEF Passes, Moves
    <2>4. ASSUME r.uid = u, Single(r.union)'
          PROVE  u \notin ToSet(UnionOf(r.union).uids)
      <3>1. PICK x : x = r.union
        OBVIOUS
      <3>2. Single(x)
        BY <1>1, <2>3, <2>4, <3>1 DEF Single
      <3>3. ~Resets(x)
        <4>1. \A p \in Busy \ {s} : ~Touches(reqs[p], u)
          BY <1>2, <2>4, TouchingClash DEF Touches
        <4>. QED  BY <1>2, <4>1 DEF Resets, Touches
      <3>. QED  BY <2>1, <2>2, <2>4, <3>1, <3>2, <3>3 DEF Takes1, Listed
    <2>5. NotYet(s, u)'
      <3>1. PICK x : x = r.union
        OBVIOUS
      <3>2. UnionOf(x)' = db'.unions[DocAt(db'.unions, x)]
            /\ UnionOf(x) = db.unions[DocAt(db.unions, x)]
        BY UnionAtIs, UnionAtIsNext DEF ByPlace
      <3>3. UnionOf(x)' = UnionOf(x)
        BY <1>1, <3>2
      <3>4. reqs'[s].union = x /\ (r.uid = u /\ Single(x)' => u \notin ToSet(UnionOf(x).uids))
        BY <2>3, <2>4, <3>1
      <3>. QED  BY <2>3, <3>3, <3>4 DEF NotYet, Now, TakingCalls
    <2>. QED  BY <1>2, <1>3, <2>5, TakesAside
  <1>5. CASE Quits(s)
    BY <1>2, <1>3, <1>5, TakesAside
  <1>. QED  BY <1>4, <1>5

\* A request goes on taking its share.
LEMMA StillTaking ==
    ASSUME NEW s, Plays(s), Kept, NEW u, NoMore(u), NotYet(s, u), NEW y, Passes(s, y),
           Now(reqs[s]) \in TakingCalls \cup {"keepUid"},
           reqs[s].uid = u => \/ Now(reqs[s]) \in TakingCalls /\ game' = game
                              \/ u \in ToSet(game'.values[reqs[s].handle].uids)
    PROVE  NotYet(s, u)'
  <1>. DEFINE r == reqs[s]
  <1>1. /\ Now(reqs'[s]) = y /\ reqs'[s].op = r.op /\ reqs'[s].uid = r.uid
        /\ reqs'[s].union = r.union /\ reqs'[s].handle = r.handle
    BY DEF Passes, Moves
  <1>2. MemInv
    BY DEF Plays
  <1>3. PICK x : x = r.union
    OBVIOUS
  <1>4. UnionAt(x) # 0
    <2>1. Now(r) \in HandleCalls /\ Now(r) \in DataCalls
      BY DEF TakingCalls, HandleCalls, DataCalls
    <2>2. Value(s).data /\ ValueShaped(Value(s)) /\ Value(s).id = x
      BY <1>3, <2>1, HandleIs DEF DataCalls
    <2>. QED  BY <2>2 DEF ValueShaped
  <1>5. u \in ToSet(UnionOf(x).uids)' => u \in ToSet(UnionOf(x).uids)
    BY <1>2, <1>4, FoundNoMore
  <1>6. Single(x)' => Single(x)
    BY SingleStays DEF Kept
  <1>7. ASSUME r.op = "GetHongBao", r.uid = u, Single(x)'
        PROVE  /\ u \notin ToSet(UnionOf(x).uids)'
               /\ u \in ToSet(game'.values[r.handle].uids)
    BY <1>3, <1>5, <1>6, <1>7 DEF NotYet
  <1>. QED  BY <1>1, <1>3, <1>7 DEF NotYet, Now

\* Who takes a share is listed in memory first.
LEMMA TakesKeep ==
    ASSUME NEW s, Plays(s), KeepUid(s), Kept, NEW u, Takes1(u)
    PROVE  Takes1(u)'
  <1>. DEFINE r == reqs[s]
              v == Value(s)
  <1>1. PICK w : /\ Now(r) = "keepUid" /\ Passes(s, "creditHongBao") /\ db' = db
                 /\ ValueSet(r.handle, w) /\ w.uids = Append(v.uids, r.uid)
    BY DoesKeepUid DEF Elsewhere
  <1>2. /\ r.handle \in DOMAIN game.values /\ v = game.values[r.handle] /\ IsSeq(v.uids)
        /\ MemInv /\ DocsShaped /\ s \in Busy
    BY <1>1, HandleIs DEF HandleCalls, ValueShaped, Plays, MemInv
  <1>3. /\ u \in ToSet(v.uids) => u \in ToSet(w.uids)
        /\ r.uid \in ToSet(w.uids)
    <2>. HIDE DEF v, r
    <2>. QED  BY <1>1, <1>2, Listing
  <1>4. DocsStay(db') /\ GamesWait(s)
    BY <1>1, <1>2, DocsSame, OthersAreGames DEF Passes, Moves
  <1>5. NoMore(u)
    BY <1>2, <1>4, DocsNoMore
  <1>6. \A x : Resets(x) => Resets(x)'
    BY <1>1, <1>4, ResetsStay
  <1>7. /\ DOMAIN game'.values = DOMAIN game.values /\ game'.values[r.handle] = w
        /\ \A h \in DOMAIN game.values \ {r.handle} : game'.values[h] = game.values[h]
    BY <1>1 DEF ValueSet
  <1>8. NotYet(s, u)'
    <2>1. NotYet(s, u)
      BY <1>2 DEF Takes1
    <2>2. r.uid = u => u \in ToSet(game'.values[r.handle].uids)
      BY <1>3, <1>7
    <2>. QED  BY <1>1, <1>5, <2>1, <2>2, StillTaking
  <1>9. \A h \in DOMAIN game.values :
           u \in ToSet(game.values[h].uids) => u \in ToSet(game'.values[h].uids)
    BY <1>2, <1>3, <1>7
  <1>. QED  BY <1>2, <1>4, <1>5, <1>6, <1>7, <1>8, <1>9, TakesStay

\* His score changes.
LEMMA TakesCredit ==
    ASSUME NEW s, Plays(s), CreditHongBao(s) \/ RecordHongBao(s), ~GamePanics, Kept,
           NEW u, Takes1(u)
    PROVE  Takes1(u)'
  <1>1. /\ Now(reqs[s]) \in {"creditHongBao", "recordHongBao"} /\ Passes(s, NextOf(s))
        /\ DocsStay(db') /\ game' = game
    BY DoesCredit
  <1>2. MemInv /\ DocsShaped /\ s \in Busy
    BY DEF Plays, MemInv
  <1>3. OthersWait(s) /\ SameValues /\ Now(reqs[s]) # "storeSetting"
        /\ Now(reqs[s]) \in TakingCalls
    BY <1>1 DEF Passes, Moves, SameValues, TakingCalls
  <1>4. NotYet(s, u)'
    BY <1>1, <1>2, <1>3, DocsNoMore, StillTaking DEF Takes1
  <1>. QED  BY <1>1, <1>3, <1>4, TakesAside

\* Who took his share is listed in the document, and was not.
LEMMA TakesStore ==
    ASSUME NEW s, Plays(s), StoreUid(s), Kept, NEW u \in Users, Takes1(u),
           hist' = Noted(s), <<"hongBao", u>> \notin hist'.clashed
    PROVE  Takes1(u)'
  <1>. DEFINE r == reqs[s]
  <1>1. PICK x, k, d : x = r.union /\ k = UnionAt(r.union) /\ d = UnionOf(r.union)
    OBVIOUS
  <1>2. PICK e : /\ Now(r) = "storeUid" /\ Quits(s) /\ game' = game
                 /\ DocSet(db', k, e) /\ e.id = d.id /\ e.uids = Append(d.uids, r.uid)
    BY <1>1, DoesStoreUid
  <1>3. /\ MemInv /\ DocsShaped /\ s \in Busy /\ r.op = "GetHongBao"
        /\ r.handle \in DOMAIN game.values /\ game.values[r.handle].id = x
        /\ k \in DOMAIN db.unions /\ d = db.unions[k] /\ d.id = x /\ UnionAt(x) = k
    BY <1>1, <1>2, HandleIs, PlayerIs, WhoCalls DEF HandleCalls, Plays, MemInv, TakingCalls
  <1>4. IsSeq(d.uids)
    BY <1>3 DEF DocsShaped, DocShaped
  <1>5. GamesWait(s) /\ s \notin Busy'
    BY <1>2, OthersAreGames DEF Quits, Busy
  <1>6. CASE r.uid # u
    <2>1. NoMore(u)
      BY <1>2, <1>3, <1>6, DocsNoMore
    <2>2. \A y : Resets(y) => Resets(y)'
      BY <1>2, <1>5, ResetsStay
    <2>. QED  BY <1>2, <1>3, <1>5, <2>1, <2>2, TakesStay
  <1>7. CASE r.uid = u
    <2>1. /\ \A y : Single(y)' => Single(y)
          /\ DOMAIN db'.unions = DOMAIN db.unions /\ db'.unions[k] = e
          /\ \A i \in DOMAIN db.unions \ {k} : db'.unions[i] = db.unions[i]
      BY <1>2, SingleStays DEF Kept, DocSet
    <2>2. Single(x) => u \notin ToSet(d.uids) /\ u \in ToSet(game.values[r.handle].uids)
      BY <1>1, <1>2, <1>3, <1>7 DEF Takes1, NotYet, TakingCalls
    <2>3. OnceInDocs(u)'
      <3>1. u \notin ToSet(d.uids) => Once(e.uids, u)
        BY <1>2, <1>4, <1>7, Listing
      <3>2. ASSUME NEW i \in DOMAIN db.unions, Single(db.unions[i].id)'
            PROVE  Once(db'.unions[i].uids, u)
        <4>1. CASE i = k
          BY <1>2, <1>3, <2>1, <2>2, <3>1, <3>2, <4>1
        <4>2. CASE i # k
          BY <2>1, <3>2, <4>2 DEF Takes1, OnceInDocs
        <4>. QED  BY <4>1, <4>2
      <3>. QED  BY <2>1, <3>2 DEF OnceInDocs
    <2>4. ASSUME NEW h \in DOMAIN game.values, game.values[h].data,
                 Single(game.values[h].id)', u \in ToSet(UnionOf(game.values[h].id).uids)'
          PROVE  u \in ToSet(game'.values[h].uids) \/ Resets(game.values[h].id)'
      <3>. PICK y : y = game.values[h].id
        OBVIOUS
      <3>1. Single(y) /\ u \in ToSet(UnionOf(y).uids)' /\ UnionAt(y) # 0
        BY <1>2, <1>3, <2>1, <2>4 DEF MemInv, MemoryShaped, ValueShaped
      <3>2. CASE y = x
        <4>1. h = r.handle
          BY <1>3, <3>1, <3>2 DEF Single
        <4>. QED  BY <1>2, <2>2, <3>1, <3>2, <4>1
      <3>3. CASE y # x
        <4>1. /\ UnionAt(y) \in DOMAIN db.unions /\ db.unions[UnionAt(y)].id = y
              /\ UnionOf(y) = db.unions[UnionAt(y)] /\ UnionOf(y)' = db'.unions[UnionAt(y)]
          BY <1>3, <3>1, FoundAgain DEF Kept
        <4>2. UnionAt(y) # k
          BY <1>3, <3>3, <4>1
        <4>3. UnionOf(y)' = UnionOf(y)
          BY <2>1, <4>1, <4>2
        <4>4. u \in ToSet(game.values[h].uids) \/ Resets(y)
          BY <2>4, <3>1, <4>3 DEF Takes1, Listed
        <4>5. Resets(y) => Resets(y)'
          BY <1>2, <1>5, ResetsStay
        <4>. QED  BY <1>2, <4>4, <4>5
      <3>. QED  BY <3>2, <3>3
    <2>5. Listed(u)'
      BY <1>2, <2>4 DEF Listed
    <2>6. ASSUME NEW p \in Busy'
          PROVE  NotYet(p, u)'
      <3>1. p # s /\ (reqs'[p].op = "GetHongBao" => p \in Busy /\ reqs'[p] = reqs[p])
        BY <1>5, <2>6, OpsByName DEF GamesWait, Busy
      <3>2. \A q \in Busy \ {s} : ~Touches(reqs[q], u)
        BY <1>3, <1>7, TouchingClash DEF Touches
      <3>. QED  BY <3>1, <3>2 DEF NotYet, Touches
    <2>. QED  BY <2>3, <2>5, <2>6 DEF Takes1
  <1>. QED  BY <1>6, <1>7

\* A setting changes in memory, or a list is reset there.
LEMMA TakesSetting ==
    ASSUME NEW s, Plays(s), Setting(s) \/ CacheSetting(s), Kept, NEW u \in Users, Takes1(u),
           hist' = Noted(s), <<"hongBao", u>> \notin hist'.clashed
    PROVE  Takes1(u)'
  <1>. DEFINE r == reqs[s]
              v == Value(s)
  <1>1. /\ Now(r) \in {"setting", "cacheSetting"} /\ db' = db
        /\ \/ Quits(s) /\ game' = game
           \/ \E w : /\ ValueSet(r.handle, w)
                     /\ \/ Quits(s) /\ w.uids = v.uids
                        \/ /\ Passes(s, "storeSetting")
                           /\ w.uids = IF r.op = "HongBaoSetting" THEN <<>> ELSE v.uids
    <2>1. CASE Setting(s)
      <3>1. /\ Now(r) = "setting" /\ db' = db
            /\ \/ Quits(s) /\ game' = game
               \/ Passes(s, "storeSetting") /\ ValueSet(r.handle, SetInMemory(v, r))
        BY <2>1, DoesSetting DEF Elsewhere
      <3>2. ValueShaped(v)
        BY <3>1, HandleIs DEF HandleCalls
      <3>3. SetInMemory(v, r).uids = IF r.op = "HongBaoSetting" THEN <<>> ELSE v.uids
        BY <3>2, SetsInMemory
      <3>. HIDE DEF r, v
      <3>. QED  BY <3>1, <3>3
    <2>2. CASE CacheSetting(s)
      BY <2>2, DoesCache DEF Elsewhere
    <2>. QED  BY <2>1, <2>2
  <1>2. /\ r.handle \in DOMAIN game.values /\ v = game.values[r.handle] /\ v.id = r.union
        /\ MemInv /\ DocsShaped /\ s \in Busy /\ r.op \in SettingOps
    BY <1>1, HandleIs, PlayerIs, WhoCalls DEF HandleCalls, Plays, MemInv
  <1>3. r.op # "GetHongBao" /\ OthersWait(s) /\ DocsStay(db') /\ GamesWait(s)
    BY <1>1, <1>2, OpsByName, DocsSame, OthersAreGames DEF Passes, Moves, Quits
  <1>4. NoMore(u)
    BY <1>2, <1>3, DocsNoMore
  <1>5. \A x : Resets(x) => Resets(x)'
    BY <1>1, <1>3, ResetsStay
  <1>6. s \in Busy' => NotYet(s, u)'
    BY <1>1, <1>3, NotTaking DEF Passes, Quits, Busy
  <1>7. CASE Quits(s) /\ game' = game
    BY <1>2, <1>3, <1>4, <1>5, <1>6, <1>7, TakesStay
  <1>8. ASSUME NEW w, ValueSet(r.handle, w),
               \/ Quits(s) /\ w.uids = v.uids
               \/ Passes(s, "storeSetting")
                  /\ w.uids = IF r.op = "HongBaoSetting" THEN <<>> ELSE v.uids
        PROVE  Takes1(u)'
    <2>1. /\ DOMAIN game'.values = DOMAIN game.values /\ game'.values[r.handle] = w
          /\ \A h \in DOMAIN game.values \ {r.handle} : game'.values[h] = game.values[h]
      BY <1>8 DEF ValueSet
    <2>2. CASE w.uids = v.uids
      <3>1. \A h \in DOMAIN game.values : game'.values[h].uids = game.values[h].uids
        BY <1>2, <2>1, <2>2
      <3>. QED  BY <1>2, <1>3, <1>4, <1>5, <1>6, <2>1, <3>1, TakesStay
    <2>3. CASE w.uids # v.uids
      <3>1. r.op = "HongBaoSetting" /\ Passes(s, "storeSetting")
        BY <1>8, <2>3
      <3>2. Resets(r.union)'
        BY <1>2, <3>1 DEF Resets, Passes, Moves, Busy, Now
      <3>3. \A h \in DOMAIN game.values : u \in ToSet(game.values[h].uids)
               => u \in ToSet(game'.values[h].uids) \/ Resets(game.values[h].id)'
        <4>1. PICK x : x = r.union
          OBVIOUS
        <4>2. Resets(x)' /\ game.values[r.handle].id = x /\ game'.values[r.handle].id = x
          <5>1. reqs'[s].union = r.union
            BY <3>1 DEF Passes, Moves
          <5>2. reqs'[s].union = x
            BY <4>1, <5>1
          <5>3. Resets(x)'
            BY <3>2, <4>1, <5>2
          <5>. QED  BY <1>2, <4>1, <5>3 DEF Kept, MemoryKeeps
        <4>. QED  BY <2>1, <4>2
      <3>4. \A p \in Busy \ {s} : ~Touches(reqs[p], u)
        BY <1>2, <3>1, TouchingClash DEF Touches
      <3>. QED  BY <1>2, <1>3, <1>4, <1>5, <1>6, <2>1, <3>3, <3>4, TakesStay
    <2>. QED  BY <2>2, <2>3
  <1>. QED  BY <1>1, <1>7, <1>8

\* A setting changes in the document, or a list is reset there.
LEMMA TakesStoreSetting ==
    ASSUME NEW s, Plays(s), StoreSetting(s), Kept, NEW u, Takes1(u)
    PROVE  Takes1(u)'
  <1>. DEFINE r == reqs[s]
  <1>1. PICK x, k, d : x = r.union /\ k = UnionAt(r.union) /\ d = UnionOf(r.union)
    OBVIOUS
  <1>2. PICK e : e = SetInDoc(d, r)
    OBVIOUS
  <1>3. /\ Now(r) = "storeSetting" /\ DocSet(db', k, e) /\ game' = game
        /\ Quits(s) \/ Moves(s, "cacheSetting")
    BY <1>1, <1>2, DoesStoreSetting
  <1>4. /\ MemInv /\ DocsShaped /\ s \in Busy /\ r.op \in SettingOps
        /\ k \in DOMAIN db.unions /\ d = db.unions[k] /\ UnionAt(x) = k /\ k # 0
    <2>1. /\ MemInv /\ DocsShaped /\ s \in Busy /\ r.op \in SettingOps
          /\ k \in DOMAIN db.unions /\ d = db.unions[k] /\ UnionAt(x) = k
      BY <1>1, <1>3, HandleIs, PlayerIs, WhoCalls DEF HandleCalls, Plays, MemInv
    <2>. QED  BY <2>1 DEF DocsShaped, IsSeq
  <1>5. e.uids = IF r.op = "HongBaoSetting" THEN <<>> ELSE d.uids
    <2>1. DocShaped(d)
      BY <1>4 DEF DocsShaped
    <2>. HIDE DEF r
    <2>0. r.op \in SettingOps
      BY <1>4 DEF r
    <2>2. LET f == SetInDoc(d, r)
          IN f.uids = IF r.op = "HongBaoSetting" THEN <<>> ELSE d.uids
      BY <2>0, <2>1, SetsInDoc
    <2>. QED  BY <1>2, <2>2
  <1>6. r.op # "GetHongBao" /\ OthersWait(s) /\ GamesWait(s)
    BY <1>3, <1>4, OpsByName, OthersAreGames DEF Moves, Quits
  <1>7. NoMore(u)
    BY <1>3, <1>4, <1>5, DocsNoMore
  <1>8. s \in Busy' => NotYet(s, u)'
    BY <1>3, <1>6, NotTaking DEF Quits, Busy
  <1>9. \A y : Resets(y) => Resets(y)' \/ u \notin ToSet(UnionOf(y).uids)'
    <2>1. CASE r.op # "HongBaoSetting"
      BY <1>6, <2>1, ResetsStay
    <2>2. ASSUME r.op = "HongBaoSetting", NEW y, y # x, Resets(y)
          PROVE  Resets(y)'
      <3>1. PICK p \in Busy : /\ reqs[p].op = "HongBaoSetting" /\ reqs[p].union = y
                              /\ Now(reqs[p]) = "storeSetting"
        BY <2>2 DEF Resets
      <3>2. p # s /\ reqs[p].op \in GameOps
        BY <1>1, <2>2, <3>1, OpsByName
      <3>3. reqs'[p] = reqs[p] /\ p \in Busy'
        BY <1>6, <3>2 DEF GamesWait, Busy
      <3>. QED  BY <3>1, <3>3 DEF Resets, Now
    <2>3. ASSUME r.op = "HongBaoSetting"
          PROVE  u \notin ToSet(UnionOf(x).uids)'
      <3>1. UnionOf(x)' = db'.unions[k]
        BY <1>4, FoundAgain DEF Kept
      <3>2. UnionOf(x)' = e /\ e.uids = <<>>
        BY <1>3, <1>5, <2>3, <3>1 DEF DocSet
      <3>3. u \notin ToSet(<<>>)
        BY DEF ToSet
      <3>. QED  BY <3>2, <3>3
    <2>. QED  BY <2>1, <2>2, <2>3
  <1>. QED  BY <1>3, <1>4, <1>6, <1>7, <1>8, <1>9, TakesStay

\* A message arrives.
LEMMA TakesArrive ==
    ASSUME Shaped, MemInv, NEW s \in Slots, Arrive(s), start \in DOMAIN Starts, Kept,
           NEW u, Takes1(u)
    PROVE  Takes1(u)'
  <1>1. PICK c \in Starts[start].calls : reqs' = [reqs EXCEPT ![s] = NewRequest(c)]
    BY DEF Arrive
  <1>2. PICK k : k = NewRequest(c)
    OBVIOUS
  <1>3. /\ k.op \in Ops
        /\ k.op \in HallOps => Now(k) \in HallCalls
        /\ k.op \in GameOps => Now(k) \in {"getUnion", "findUser", "proxy", "leave"}
    BY <1>2, NewOnPath
  <1>4. reqs' = [reqs EXCEPT ![s] = k] /\ game' = game /\ db' = db /\ reqs[s] = Idle
    BY <1>1, <1>2 DEF Arrive
  <1>5. OthersWait(s) /\ reqs'[s] = k /\ DocsShaped
    BY <1>4 DEF Shaped, OthersWait, MemInv
  <1>6. NoMore(u) /\ GamesWait(s)
    BY <1>4, <1>5, DocsSame, DocsNoMore, OthersAreGames
  <1>7. NotYet(s, u)'
    <2>1. Now(k) \notin TakingCalls \cup {"keepUid"}
      BY <1>3 DEF Ops, HallCalls, TakingCalls
    <2>. QED  BY <1>5, <2>1 DEF NotYet, Now, TakingCalls
  <1>8. \A x : Resets(x) => Resets(x)'
    BY <1>4, <1>6, ResetsStay DEF Busy
  <1>. QED  BY <1>4, <1>6, <1>7, <1>8, TakesStay

\* Nothing happens.
LEMMA TakesStutter ==
    ASSUME UNCHANGED vars, MemInv, Kept, NEW u, Takes1(u)
    PROVE  Takes1(u)'
  <1>1. db' = db /\ game' = game /\ reqs' = reqs
    BY DEF vars
  <1>2. /\ Busy' = Busy /\ \A s : GamesWait(s)
    BY <1>1 DEF Busy, GamesWait
  <1>3. NoMore(u)
    BY <1>1, DocsSame, DocsNoMore DEF MemInv
  <1>4. \A x : Resets(x) => Resets(x)'
    BY <1>1, <1>2 DEF Resets, Now
  <1>. PICK s : s \notin Busy
    BY <1>1, NoSetContainsEverything
  <1>. QED  BY <1>1, <1>2, <1>3, <1>4, TakesStay

\* No document of the start lists a user twice.
StartsOnce ==
    \A i \in DOMAIN Starts : \A j \in DOMAIN Starts[i].docs.unions : \A u \in Users :
        Once(Starts[i].docs.unions[j].uids, u)

\* The calls of the game server.
LEMMA TakesGame ==
    ASSUME NEW s, Plays(s), GameStep(s), ~GamePanics, Kept, failed' = {},
           NEW u \in Users, Takes1(u), hist' = Noted(s), <<"hongBao", u>> \notin hist'.clashed
    PROVE  Takes1(u)'
  <1>1. CASE UnionStep(s)
    BY <1>1, TakesInit, TakesNeutral
  <1>2. CASE RoomStep(s)
    BY <1>2, TakesCheck, TakesNeutral
  <1>3. CASE SettingStep(s)
    <2>1. ~(GameFault(s) /\ Now(reqs[s]) # "init")
      BY DoesFault
    <2>. QED
      BY <1>3, <2>1, TakesKeep, TakesCredit, TakesStore, TakesSetting, TakesStoreSetting
         DEF SettingStep
  <1>. QED  BY <1>1, <1>2, <1>3, PlayerSteps

\* What a step does to failures and to what is noted.
LEMMA ExcusesGrow ==
    ASSUME OwnInv, MemInv, start \in DOMAIN Starts, [Next]_vars
    PROVE  failed \subseteq failed' /\ hist.clashed \subseteq hist'.clashed
  <1>1. ASSUME NEW s \in Slots, Arrive(s)
        PROVE  failed' = failed /\ hist' = hist
    BY <1>1 DEF Arrive
  <1>2. ASSUME NEW s \in Slots, HallHandles(s) \/ GameHandles(s)
        PROVE  failed \subseteq failed' /\ hist.clashed \subseteq hist'.clashed
    <2>1. s \in Busy /\ hist' = Noted(s) /\ (SharedStep(s) \/ HallStep(s) \/ GameStep(s))
      BY <1>2, WhoSteps
    <2>. QED  BY <2>1, FailedGrows, ClashNoted
  <1>3. UNCHANGED vars => failed' = failed /\ hist' = hist
    BY DEF vars
  <1>4. Rest => UNCHANGED vars
    BY DEF Rest
  <1>. QED  BY <1>1, <1>2, <1>3, <1>4 DEF Next

\* While nothing failed, and no two requests about a user's shares met, a
\* document of a union that was loaded once lists the user once, memory lists
\* whom the document does, and who takes a share is not listed in the document
\* before he is in memory (GetHongBao of union.go).
THEOREM SharesStayListed ==
    ASSUME StartsOnce
    PROVE  Spec => []TakesInv
  <1>1. Init => TakesInv
    <2>. SUFFICES ASSUME Init, NEW u \in Users
                  PROVE  Takes1(u)
      BY DEF TakesInv
    <2>1. Busy = {} /\ db = Starts[start].docs /\ start \in DOMAIN Starts
      BY DEF Init, Busy
    <2>2. DOMAIN game.values = {}
      BY DEF Init, NewUnionManager
    <2>. QED  BY <2>1, <2>2 DEF StartsOnce, Takes1, OnceInDocs, Listed
  <1>2. OwnInv /\ MemInv /\ start \in DOMAIN Starts /\ TakesInv /\ [Next]_vars
          => TakesInv' /\ (start \in DOMAIN Starts)'
    <2>. SUFFICES ASSUME OwnInv, MemInv, start \in DOMAIN Starts, TakesInv, [Next]_vars
                  PROVE  TakesInv' /\ start' = start
      OBVIOUS
    <2>1. start' = start
      BY EveryStep
    <2>2. ASSUME failed' = {}, NEW u \in Users, <<"hongBao", u>> \notin hist'.clashed
          PROVE  Takes1(u)'
      <3>1. Takes1(u)
        BY <2>2, ExcusesGrow DEF TakesInv
      <3>2. ASSUME NEW s \in Slots, Arrive(s), Kept
            PROVE  Takes1(u)'
        BY <3>1, <3>2, TakesArrive DEF OwnInv
      <3>3. UNCHANGED vars /\ Kept => Takes1(u)'
        BY <3>1, TakesStutter
      <3>4. ASSUME NEW s \in Busy, hist' = Noted(s), Kept, Works(s),
                   SharedStep(s) \/ HallStep(s), game' = game
            PROVE  Takes1(u)'
        BY <3>1, <3>4, TakesInHall
      <3>5. ASSUME NEW s \in Busy, hist' = Noted(s), Kept, Plays(s), GameStep(s), ~GamePanics
            PROVE  Takes1(u)'
        BY <2>2, <3>1, <3>5, TakesGame
      <3>6. ASSUME NEW s \in Busy, Plays(s), GamePanics
            PROVE  FALSE
        BY <2>2, <3>6, PanicLoses
      <3>. QED  BY <3>2, <3>3, <3>4, <3>5, <3>6, EveryStep
    <2>. QED  BY <2>1, <2>2 DEF TakesInv
  <1>3. Init => start \in DOMAIN Starts
    BY DEF Init
  <1>. QED  BY <1>1, <1>2, <1>3, LocksHaveOneOwner, MemoryStaysShaped, PTL DEF Spec

\* A union that is not in memory twice was loaded once.
LEMMA SingleUnlessDoubled ==
    ASSUME MemInv, NEW x, ~Doubled(x)
    PROVE  Single(x)
  <1>. DEFINE H == {h \in DOMAIN game.values : game.values[h].id = x}
  <1>1. ~(Cardinality(H) > 1)
    BY DEF Doubled
  <1>2. IsFiniteSet(DOMAIN game.values)
    <2>1. DOMAIN game.values = 1 .. Len(game.values) /\ Len(game.values) \in Nat
      BY DEF MemInv, MemoryShaped, IsSeq
    <2>. QED  BY <2>1, FS_Interval
  <1>3. IsFiniteSet(H)
    BY <1>2, FS_Subset
  <1>. HIDE DEF H
  <1>4. ASSUME NEW h \in H, NEW k \in H, h # k
        PROVE  FALSE
    <2>1. Cardinality({h, k}) = 2
      <3>1. IsFiniteSet({h}) /\ Cardinality({h}) = 1 /\ k \notin {h}
        BY <1>4, FS_Singleton
      <3>2. Cardinality({h} \cup {k}) = 1 + 1
        BY <3>1, FS_AddElement
      <3>3. {h} \cup {k} = {h, k}
        OBVIOUS
      <3>. QED  BY <3>2, <3>3
    <2>2. Cardinality({h, k}) <= Cardinality(H) /\ Cardinality(H) \in Nat
      BY <1>3, FS_Subset, FS_CardinalityType
    <2>. QED  BY <1>1, <2>1, <2>2
  <1>. QED  BY <1>4 DEF H, Single

\* Something that is in a set once is not there twice.
LEMMA AtMostOne ==
    ASSUME NEW S, \A i, j \in S : i = j
    PROVE  ~(Cardinality(S) > 1)
  <1>1. CASE S = {}
    BY <1>1, FS_EmptySet
  <1>2. CASE S # {}
    <2>1. PICK p : S = {p}
      BY <1>2
    <2>2. Cardinality({p}) = 1
      BY FS_Singleton
    <2>. QED  BY <2>1, <2>2
  <1>. QED  BY <1>1, <1>2

\* A user takes one share of a red envelope, unless his message met another
\* of his or one of the owner, one failed, or the union was loaded twice
\* (GetHongBao of union.go).
THEOREM OneShareEach ==
    ASSUME StartsOnce
    PROVE  Spec => []TakesOnce
  <1>1. MemInv /\ TakesInv => TakesOnce
    <2>. SUFFICES ASSUME MemInv, TakesInv, NEW d \in ToSet(db.unions), NEW u \in Users,
                         <<"hongBao", u>> \notin hist.clashed, failed = {}, ~Doubled(d.id)
                  PROVE  ~(Cardinality({i \in DOMAIN d.uids : d.uids[i] = u}) > 1)
      BY DEF TakesOnce
    <2>1. Single(d.id)
      BY SingleUnlessDoubled
    <2>2. PICK k \in DOMAIN db.unions : db.unions[k] = d
      BY DEF ToSet
    <2>3. Once(d.uids, u)
      BY <2>1, <2>2 DEF TakesInv, Takes1, OnceInDocs
    <2>4. \A i, j \in {i \in DOMAIN d.uids : d.uids[i] = u} : i = j
      BY <2>3 DEF Once
    <2>. QED  BY <2>4, AtMostOne
  <1>. QED  BY <1>1, MemoryStaysShaped, SharesStayListed, PTL

-----------------------------------------------------------------------------
(* Settings. *)

\* The setting a request is about.
LEMMA SettingNames ==
    /\ \A op \in SettingOps :
          /\ SettingOf[op] \in SetNames
          /\ SettingOf[op] = "lottery" <=> op = "UpdateLotteryStatus"
          /\ SettingOf[op] = "rules" <=> op = "AddRoomRuleList"
    /\ "GetHongBao" \notin SettingOps /\ SettingOps \subseteq GameOps
    /\ \A op \in RoomOps : op \notin SettingOps
  <1>1. /\ SettingOf["UpdateOpeningStatus"] = "opening"
        /\ SettingOf["UpdateUnionNotice"] = "notice"
        /\ SettingOf["UpdateLotteryStatus"] = "lottery"
        /\ SettingOf["AddRoomRuleList"] = "rules" /\ SettingOf["HongBaoSetting"] = "hongBao"
    BY DEF SettingOf
  <1>. QED  BY <1>1, OpsByName DEF SetNames, RoomOps

\* Two requests about one setting clash.
LEMMA SettingClash ==
    ASSUME NEW s, NEW name, SetReq(s, name), hist' = Noted(s),
           <<"set", name>> \notin hist'.clashed
    PROVE  \A p \in Slots \ {s} : ~SetReq(p, name)
  <1>1. ASSUME NEW r, r.op \in SettingOps, SettingOf[r.op] = name
        PROVE  <<"set", name>> \in Alone(r)
    <2>1. CASE r.op = "HongBaoSetting"
      <3>1. Alone(r) = {<<"hongBao", v>> : v \in Users} \cup {<<"set", "hongBao">>}
        BY <2>1, OpsByName DEF Alone
      <3>2. name = "hongBao"
        BY <1>1, <2>1 DEF SettingOf
      <3>. QED  BY <3>1, <3>2
    <2>2. CASE r.op # "HongBaoSetting"
      <3>1. Alone(r) = {<<"set", SettingOf[r.op]>>}
        BY <1>1, <2>2, OpsByName DEF Alone
      <3>. QED  BY <1>1, <3>1
    <2>. QED  BY <2>1, <2>2
  <1>2. s \in Busy /\ <<"set", name>> \in Alone(reqs[s])
    BY <1>1 DEF SetReq
  <1>3. ASSUME NEW p \in Slots \ {s}, SetReq(p, name)
        PROVE  FALSE
    <2>1. p \in Busy /\ <<"set", name>> \in Alone(reqs[p])
      BY <1>1, <1>3 DEF SetReq
    <2>. QED  BY <1>2, <1>3, <2>1, ClashNoted
  <1>. QED  BY <1>3

\* A request of the game server that waits is about the same setting.
LEMMA SettingsWait ==
    ASSUME NEW s, GamesWait(s), NEW p \in Slots \ {s}, NEW name
    PROVE  /\ SetReq(p, name)' <=> SetReq(p, name)
           /\ SetReq(p, name) => reqs'[p] = reqs[p]
  <1>1. SettingOps \subseteq GameOps
    BY GameIsNotHall
  <1>. QED  BY <1>1 DEF GamesWait, SetReq, Busy

\* A value of a union that is there has a document.
LEMMA DocOfValue ==
    ASSUME MemInv, Kept, NEW h \in DOMAIN game.values, game.values[h].data, NEW x,
           x = game.values[h].id
    PROVE  /\ UnionAt(x) \in DOMAIN db.unions /\ UnionOf(x) = db.unions[UnionAt(x)]
           /\ UnionOf(x)' = db'.unions[UnionAt(x)] /\ db.unions[UnionAt(x)].id = x
  <1>1. UnionAt(x) # 0
    BY DEF MemInv, MemoryShaped, ValueShaped
  <1>. QED  BY <1>1, FoundAgain DEF MemInv, Kept

\* What a request about a setting holds to.
Stored(s, name) ==
    /\ Now(reqs[s]) = "cacheSetting" => UnionOf(reqs[s].union).set[name] = NewVal(reqs[s])
    /\ Now(reqs[s]) = "storeSetting" /\ name = "lottery" =>
          game.values[reqs[s].handle].set[name] = Wanted(reqs[s])

\* It is about to work on a value that has a document.
LEMMA HalfHasDoc ==
    ASSUME MemInv, Kept, NEW s, NEW name, SetReq(s, name),
           Now(reqs[s]) \in {"storeSetting", "cacheSetting"}, NEW x, x = reqs[s].union
    PROVE  /\ reqs[s].handle \in DOMAIN game.values
           /\ game.values[reqs[s].handle].id = x /\ game.values[reqs[s].handle].data
           /\ UnionAt(x) \in DOMAIN db.unions /\ UnionOf(x) = db.unions[UnionAt(x)]
           /\ UnionOf(x)' = db'.unions[UnionAt(x)] /\ db.unions[UnionAt(x)].id = x
  <1>1. HandleOk(reqs[s])
    BY DEF SetReq, MemInv
  <1>2. /\ reqs[s].handle \in DOMAIN game.values
        /\ game.values[reqs[s].handle].id = x /\ game.values[reqs[s].handle].data
    BY <1>1 DEF HandleOk, HandleCalls
  <1>. QED  BY <1>2, DocOfValue

\* A step that leaves a setting alone.
LEMMA AgreesStay ==
    ASSUME MemInv, Kept, NEW s \in Slots, GamesWait(s), NEW name, Agrees(name),
           \A i \in DOMAIN db.unions : db'.unions[i].set[name] = db.unions[i].set[name],
           \A h \in DOMAIN game.values : game'.values[h].set[name] = game.values[h].set[name],
           \A h \in DOMAIN game'.values \ DOMAIN game.values :
              game'.values[h].data =>
                 game'.values[h].set[name] = (UnionOf(game.values[h].id).set[name])',
           SetReq(s, name) => ~Half(reqs[s]),
           SetReq(s, name)' => ~Half(reqs[s])'
    PROVE  Agrees(name)'
  <1>1. ASSUME NEW p \in Slots, SetReq(p, name)'
        PROVE  Stored(p, name)'
    <2>1. CASE p = s
      <3>1. ~Half(reqs[s])' /\ reqs'[s].op \in SettingOps /\ SettingOf[reqs'[s].op] = name
        BY <1>1, <2>1 DEF SetReq
      <3>. QED  BY <2>1, <3>1, SettingNames DEF Stored, Half
    <2>2. CASE p # s
      <3>1. SetReq(p, name) /\ reqs'[p] = reqs[p]
        BY <1>1, <2>2, SettingsWait
      <3>2. Stored(p, name)
        BY <3>1 DEF Agrees, Stored
      <3>3. PICK x, k : x = reqs[p].union /\ k = reqs[p].handle
        OBVIOUS
      <3>4. CASE Now(reqs[p]) \in {"storeSetting", "cacheSetting"}
        <4>1. /\ k \in DOMAIN game.values /\ UnionAt(x) \in DOMAIN db.unions
              /\ UnionOf(x) = db.unions[UnionAt(x)] /\ UnionOf(x)' = db'.unions[UnionAt(x)]
          BY <3>1, <3>3, <3>4, HalfHasDoc
        <4>2. /\ game'.values[k].set[name] = game.values[k].set[name]
              /\ (UnionOf(x).set[name])' = UnionOf(x).set[name]
          BY <4>1
        <4>3. /\ Now(reqs[p])' = Now(reqs[p]) /\ NewVal(reqs[p])' = NewVal(reqs[p])
              /\ Wanted(reqs[p])' = Wanted(reqs[p])
              /\ reqs'[p].union = x /\ reqs'[p].handle = k
          BY <3>1, <3>3 DEF Now, NewVal, Wanted
        <4>. QED  BY <3>2, <3>3, <4>2, <4>3 DEF Stored
      <3>5. CASE Now(reqs[p]) \notin {"storeSetting", "cacheSetting"}
        BY <3>1, <3>5 DEF Stored, Now
      <3>. QED  BY <3>4, <3>5
    <2>. QED  BY <2>1, <2>2
  <1>2. ASSUME NEW h \in DOMAIN game'.values, game'.values[h].data, NEW x,
               x = game'.values[h].id, Single(x)'
        PROVE  \/ game'.values[h].set[name] = (UnionOf(x).set[name])'
               \/ \E p \in Slots : /\ SetReq(p, name)' /\ reqs'[p].union = x
                                   /\ Half(reqs[p])'
    <2>1. CASE h \notin DOMAIN game.values
      BY <1>2, <2>1
    <2>2. CASE h \in DOMAIN game.values
      <3>1. game.values[h].id = x /\ game.values[h].data /\ Single(x)
        BY <1>2, <2>2, SingleStays DEF Kept, MemoryKeeps
      <3>2. CASE game.values[h].set[name] = UnionOf(x).set[name]
        <4>1. /\ UnionAt(x) \in DOMAIN db.unions /\ UnionOf(x) = db.unions[UnionAt(x)]
              /\ UnionOf(x)' = db'.unions[UnionAt(x)]
          BY <2>2, <3>1, DocOfValue
        <4>2. (UnionOf(x).set[name])' = UnionOf(x).set[name]
          BY <4>1
        <4>. QED  BY <2>2, <3>2, <4>2
      <3>3. CASE game.values[h].set[name] # UnionOf(x).set[name]
        <4>1. PICK p \in Slots : SetReq(p, name) /\ reqs[p].union = x /\ Half(reqs[p])
          BY <2>2, <3>1, <3>3 DEF Agrees
        <4>2. p # s
          BY <4>1
        <4>3. SetReq(p, name)' /\ reqs'[p] = reqs[p]
          BY <4>1, <4>2, SettingsWait
        <4>4. Half(reqs[p])'
          BY <4>1, <4>3 DEF Half, Now
        <4>. QED  BY <4>1, <4>3, <4>4
      <3>. QED  BY <3>2, <3>3
    <2>. QED  BY <2>1, <2>2
  <1>. QED  BY <1>1, <1>2 DEF Agrees, Stored

\* A step of a request about a setting, when no other is about it.
LEMMA AgreesAlone ==
    ASSUME MemInv, Kept, NEW s \in Slots, GamesWait(s), NEW name, Agrees(name),
           SetReq(s, name), hist' = Noted(s), <<"set", name>> \notin hist'.clashed,
           NEW x, x = reqs[s].union, NEW k, k = reqs[s].handle, k \in DOMAIN game.values,
           game.values[k].id = x, DOMAIN game'.values = DOMAIN game.values,
           \A i \in DOMAIN db.unions \ {UnionAt(x)} :
              db'.unions[i].set[name] = db.unions[i].set[name],
           \A h \in DOMAIN game.values \ {k} :
              game'.values[h].set[name] = game.values[h].set[name],
           game.values[k].data =>
              \/ game'.values[k].set[name] = (UnionOf(x).set[name])'
              \/ SetReq(s, name)' /\ reqs'[s].union = x /\ Half(reqs[s])',
           SetReq(s, name)' => Stored(s, name)'
    PROVE  Agrees(name)'
  <1>0. \A p \in Slots \ {s} : ~SetReq(p, name)
    BY SettingClash
  <1>1. ASSUME NEW p \in Slots, SetReq(p, name)'
        PROVE  Stored(p, name)'
    <2>1. p = s
      BY <1>0, <1>1, SettingsWait
    <2>. QED  BY <1>1, <2>1
  <1>2. ASSUME NEW h \in DOMAIN game'.values, game'.values[h].data, NEW y,
               y = game'.values[h].id, Single(y)'
        PROVE  \/ game'.values[h].set[name] = (UnionOf(y).set[name])'
               \/ \E p \in Slots : /\ SetReq(p, name)' /\ reqs'[p].union = y
                                   /\ Half(reqs[p])'
    <2>1. game.values[h].id = y /\ game.values[h].data /\ Single(y) /\ h \in DOMAIN game.values
      BY <1>2, SingleStays DEF Kept, MemoryKeeps
    <2>2. CASE y = x
      <3>1. h = k
        BY <2>1, <2>2 DEF Single
      <3>. QED  BY <2>1, <2>2, <3>1
    <2>3. CASE y # x
      <3>1. game.values[h].set[name] = UnionOf(y).set[name]
        BY <1>0, <2>1, <2>3 DEF Agrees
      <3>2. /\ UnionAt(y) \in DOMAIN db.unions /\ UnionOf(y) = db.unions[UnionAt(y)]
            /\ UnionOf(y)' = db'.unions[UnionAt(y)] /\ db.unions[UnionAt(y)].id = y
        BY <2>1, DocOfValue
      <3>3. ASSUME UnionAt(y) = UnionAt(x)
            PROVE  FALSE
        <4>1. UnionAt(x) # 0
          BY <2>1, <3>3 DEF MemInv, MemoryShaped, ValueShaped
        <4>2. db.unions[UnionAt(x)].id = x
          BY <4>1, FoundAgain DEF MemInv, Kept
        <4>. QED  BY <2>3, <3>2, <3>3, <4>2
      <3>4. (UnionOf(y).set[name])' = UnionOf(y).set[name]
        BY <3>2, <3>3
      <3>5. h # k
        BY <2>1, <2>3
      <3>. QED  BY <2>1, <3>1, <3>4, <3>5
    <2>. QED  BY <2>2, <2>3
  <1>. QED  BY <1>1, <1>2 DEF Agrees, Stored

\* Documents that are what they were, or one more.
LEMMA SetsStay ==
    ASSUME DocsShaped, NEW name
    PROVE  /\ DocsStay(db') \/ DocAdded(db') =>
                 \A i \in DOMAIN db.unions : db'.unions[i].set[name] = db.unions[i].set[name]
           /\ \A k \in DOMAIN db.unions : \A e :
                 DocSet(db', k, e) /\ e.set[name] = db.unions[k].set[name] =>
                 \A i \in DOMAIN db.unions : db'.unions[i].set[name] = db.unions[i].set[name]
  <1>1. CASE DocsStay(db')
    BY <1>1 DEF DocsStay
  <1>2. CASE DocAdded(db')
    <2>1. PICK x, w : db'.unions = Append(db.unions, NewUnion(x, w))
      BY <1>2 DEF DocAdded
    <2>. DEFINE e == NewUnion(x, w)
    <2>. HIDE DEF e
    <2>2. \A i \in DOMAIN db.unions : db'.unions[i] = db.unions[i]
      BY <2>1, Appending DEF DocsShaped, e
    <2>. QED  BY <2>2
  <1>3. ASSUME NEW k \in DOMAIN db.unions, NEW e, DocSet(db', k, e),
               e.set[name] = db.unions[k].set[name]
        PROVE  \A i \in DOMAIN db.unions : db'.unions[i].set[name] = db.unions[i].set[name]
    BY <1>3 DEF DocSet
  <1>. QED  BY <1>1, <1>2, <1>3

\* The steps of the hall.
LEMMA SettingsInHall ==
    ASSUME NEW s, Works(s), SharedStep(s) \/ HallStep(s), game' = game, Kept,
           NEW name, Agrees(name)
    PROVE  Agrees(name)'
  <1>1. /\ GamesWait(s) /\ reqs[s].op \notin GameOps /\ s \in Slots
        /\ s \in Busy' => reqs'[s].op \notin GameOps
        /\ DocsStay(db') \/ DocAdded(db')
    BY HallStill DEF Works, Busy
  <1>2. MemInv /\ DocsShaped
    BY DEF Works, MemInv
  <1>3. \A i \in DOMAIN db.unions : db'.unions[i].set[name] = db.unions[i].set[name]
    BY <1>1, <1>2, SetsStay
  <1>4. ~SetReq(s, name) /\ ~SetReq(s, name)'
    BY <1>1, SettingNames DEF SetReq
  <1>. QED  BY <1>1, <1>2, <1>3, <1>4, AgreesStay

\* A request that is not half done.
LEMMA NotHalf ==
    ASSUME NEW s, NEW name
    PROVE  /\ Quits(s) => ~SetReq(s, name)'
           /\ \A x : Moves(s, x) /\ x \notin {"storeSetting", "cacheSetting"} => ~Half(reqs[s])'
           /\ \A x : Moves(s, x) /\ ~SetReq(s, name) /\ s \in Busy => ~SetReq(s, name)'
           /\ Now(reqs[s]) \notin {"storeSetting", "cacheSetting"} => ~Half(reqs[s])
           /\ reqs[s].op = "GetHongBao" => ~SetReq(s, name)
  BY SettingNames DEF Quits, Moves, SetReq, Busy, Half, Now

\* GetUnion and the calls about rooms.
LEMMA SettingsNeutral ==
    ASSUME NEW s, Plays(s), ~GamePanics, Kept, NEW name, Agrees(name),
           GetUnion(s) \/ KeepUnion(s) \/ (RoomStep(s) /\ ~CheckHongBao(s))
    PROVE  Agrees(name)'
  <1>1. /\ SameValues /\ DocsStay(db') /\ OthersWait(s) /\ Now(reqs[s]) \notin DataCalls
        /\ Quits(s) \/ \E x : Moves(s, x) /\ x \notin DataCalls
    BY Neutral
  <1>2. MemInv /\ DocsShaped /\ GamesWait(s) /\ s \in Slots
    BY <1>1, OthersAreGames DEF Plays, MemInv, Busy
  <1>3. \A i \in DOMAIN db.unions : db'.unions[i].set[name] = db.unions[i].set[name]
    BY <1>1, <1>2, SetsStay
  <1>4. {"storeSetting", "cacheSetting"} \subseteq DataCalls
    BY DEF DataCalls
  <1>5. SetReq(s, name) => ~Half(reqs[s])
    BY <1>1, <1>4, NotHalf
  <1>6. SetReq(s, name)' => ~Half(reqs[s])'
    BY <1>1, <1>4, NotHalf
  <1>. QED  BY <1>1, <1>2, <1>3, <1>5, <1>6, AgreesStay DEF SameValues

\* A value that is loaded has the settings of the document.
LEMMA SettingsInit ==
    ASSUME NEW s, Plays(s), UnionStep(s), ~GetUnion(s), ~KeepUnion(s), Kept,
           NEW name, Agrees(name)
    PROVE  Agrees(name)'
  <1>1. MemInv /\ DocsShaped /\ s \in Slots
    BY DEF Plays, MemInv, Busy
  <1>2. /\ OthersWait(s) /\ db' = db /\ Moves(s, "keepUnion") /\ Now(reqs[s]) = "init"
        /\ \A h \in DOMAIN game.values : game'.values[h] = game.values[h]
        /\ \A h \in DOMAIN game'.values \ DOMAIN game.values :
              /\ game'.values[h].id = reqs[s].union
              /\ game'.values[h].data => game'.values[h].set = UnionOf(reqs[s].union).set
    BY LoadedIs
  <1>3. DocsStay(db') /\ GamesWait(s)
    BY <1>1, <1>2, DocsSame, OthersAreGames
  <1>4. \A i \in DOMAIN db.unions : db'.unions[i].set[name] = db.unions[i].set[name]
    BY <1>1, <1>3, SetsStay
  <1>5. /\ SetReq(s, name) => ~Half(reqs[s])
        /\ SetReq(s, name)' => ~Half(reqs[s])'
    BY <1>2, NotHalf
  <1>6. ASSUME NEW h \in DOMAIN game'.values \ DOMAIN game.values, game'.values[h].data
        PROVE  game'.values[h].set[name] = (UnionOf(game.values[h].id).set[name])'
    <2>1. PICK x : x = reqs[s].union
      OBVIOUS
    <2>2. game'.values[h].id = x /\ game'.values[h].set = UnionOf(x).set
      BY <1>2, <1>6, <2>1
    <2>3. UnionOf(x)' = db'.unions[DocAt(db'.unions, x)] /\ UnionOf(x) = db.unions[DocAt(db.unions, x)]
      BY UnionAtIs, UnionAtIsNext DEF ByPlace
    <2>4. UnionOf(x)' = UnionOf(x)
      BY <1>2, <2>3
    <2>. QED  BY <2>2, <2>4
  <1>. QED  BY <1>1, <1>2, <1>3, <1>4, <1>5, <1>6, AgreesStay

\* The calls about red envelopes.
LEMMA SettingsTaking ==
    ASSUME NEW s, Plays(s), ~GamePanics, Kept, NEW name, Agrees(name),
           \/ CheckHongBao(s) \/ KeepUid(s) \/ CreditHongBao(s) \/ RecordHongBao(s)
           \/ StoreUid(s)
    PROVE  Agrees(name)'
  <1>. DEFINE r == reqs[s]
  <1>1. MemInv /\ DocsShaped /\ s \in Slots /\ s \in Busy
    BY DEF Plays, MemInv, Busy
  <1>2. /\ Now(r) \in {"checkHongBao", "keepUid"} \cup TakingCalls
        /\ Quits(s) \/ \E x : Moves(s, x)
        /\ \A i \in DOMAIN db.unions : db'.unions[i].set[name] = db.unions[i].set[name]
        /\ DOMAIN game'.values = DOMAIN game.values
        /\ \A h \in DOMAIN game.values : game'.values[h].set[name] = game.values[h].set[name]
    <2>1. CASE CheckHongBao(s)
      <3>1. Now(r) = "checkHongBao"
        BY <2>1, PlayerIs DEF CheckHongBao
      <3>2. Still /\ (Quits(s) \/ Passes(s, NextOf(s)))
        BY <2>1, DoesRead
      <3>. QED  BY <3>1, <3>2 DEF Still, Passes
    <2>2. CASE KeepUid(s)
      <3>1. PICK w : /\ Now(r) = "keepUid" /\ Passes(s, "creditHongBao") /\ db' = db
                     /\ ValueSet(r.handle, w) /\ w.set = Value(s).set
        BY <2>2, DoesKeepUid DEF Elsewhere
      <3>2. r.handle \in DOMAIN game.values /\ Value(s) = game.values[r.handle]
        BY <3>1, HandleIs DEF HandleCalls
      <3>. QED  BY <3>1, <3>2 DEF Passes, ValueSet
    <2>3. CASE CreditHongBao(s) \/ RecordHongBao(s)
      <3>1. /\ Now(r) \in {"creditHongBao", "recordHongBao"} /\ Passes(s, NextOf(s))
            /\ DocsStay(db') /\ game' = game
        BY <2>3, DoesCredit
      <3>. QED  BY <1>1, <3>1, SetsStay DEF Passes, TakingCalls
    <2>4. CASE StoreUid(s)
      <3>1. PICK x, k, d : x = r.union /\ k = UnionAt(r.union) /\ d = UnionOf(r.union)
        OBVIOUS
      <3>2. PICK e : /\ Now(r) = "storeUid" /\ Quits(s) /\ game' = game
                     /\ DocSet(db', k, e) /\ e.set = d.set
        BY <2>4, <3>1, DoesStoreUid
      <3>3. k \in DOMAIN db.unions /\ d = db.unions[k]
        BY <3>1, <3>2, HandleIs DEF HandleCalls
      <3>4. e.set[name] = db.unions[k].set[name]
        BY <3>2, <3>3
      <3>. QED  BY <1>1, <3>2, <3>3, <3>4, SetsStay DEF TakingCalls
    <2>. QED  BY <2>1, <2>2, <2>3, <2>4
  <1>3. r.op = "GetHongBao"
    BY <1>2, PlayerIs, WhoCalls DEF Plays
  <1>4. ~SetReq(s, name) /\ ~SetReq(s, name)'
    BY <1>1, <1>2, <1>3, NotHalf
  <1>5. GamesWait(s)
    BY <1>2, OthersAreGames DEF Quits, Moves
  <1>. QED  BY <1>1, <1>2, <1>4, <1>5, AgreesStay

\* The lottery changes in memory first.
LEMMA SettingsSetting ==
    ASSUME NEW s, Plays(s), Setting(s), Kept, NEW name \in SetNames, Agrees(name),
           hist' = Noted(s), <<"set", name>> \notin hist'.clashed
    PROVE  Agrees(name)'
  <1>. DEFINE r == reqs[s]
              v == Value(s)
  <1>1. /\ Now(r) = "setting" /\ db' = db
        /\ \/ Quits(s) /\ game' = game
           \/ Passes(s, "storeSetting") /\ v.data /\ ValueSet(r.handle, SetInMemory(v, r))
    BY DoesSetting DEF Elsewhere
  <1>2. /\ r.handle \in DOMAIN game.values /\ v = game.values[r.handle] /\ v.id = r.union
        /\ MemInv /\ DocsShaped /\ s \in Busy /\ s \in Slots /\ r.op \in SettingOps
        /\ ValueShaped(v) /\ DOMAIN v.set = SetNames
    BY <1>1, HandleIs, PlayerIs, WhoCalls DEF HandleCalls, Plays, MemInv, ValueShaped
  <1>3. GamesWait(s) /\ DocsStay(db')
    BY <1>1, <1>2, DocsSame, OthersAreGames DEF Passes, Moves, Quits
  <1>4. \A i \in DOMAIN db.unions : db'.unions[i].set[name] = db.unions[i].set[name]
    BY <1>2, <1>3, SetsStay
  <1>5. SetReq(s, name) => ~Half(reqs[s])
    BY <1>1, NotHalf
  <1>6. CASE Quits(s) /\ game' = game
    <2>1. ~SetReq(s, name)'
      BY <1>6, NotHalf
    <2>. QED  BY <1>2, <1>3, <1>4, <1>5, <1>6, <2>1, AgreesStay
  <1>7. CASE Passes(s, "storeSetting") /\ ValueSet(r.handle, SetInMemory(v, r))
    <2>1. PICK w : w = SetInMemory(v, r)
      OBVIOUS
    <2>2. w.set = IF r.op = "UpdateLotteryStatus"
                  THEN [v.set EXCEPT !.lottery = Wanted(r)] ELSE v.set
      <3>1. LET z == SetInMemory(v, r)
            IN z.set = IF r.op = "UpdateLotteryStatus"
                       THEN [v.set EXCEPT !.lottery = Wanted(r)] ELSE v.set
        <4>. HIDE DEF r, v
        <4>. QED  BY <1>2, SetsInMemory
      <3>. QED  BY <2>1, <3>1
    <2>3. /\ DOMAIN game'.values = DOMAIN game.values /\ game'.values[r.handle] = w
          /\ \A h \in DOMAIN game.values \ {r.handle} : game'.values[h] = game.values[h]
      BY <1>7, <2>1 DEF ValueSet
    <2>4. /\ Now(reqs'[s]) = "storeSetting" /\ reqs'[s].op = r.op /\ reqs'[s].union = r.union
          /\ reqs'[s].n = r.n /\ reqs'[s].handle = r.handle /\ s \in Busy'
      BY <1>2, <1>7 DEF Passes, Moves, Busy
    <2>5. CASE r.op = "UpdateLotteryStatus" /\ name = "lottery"
      <3>1. PICK x, k : x = r.union /\ k = r.handle
        OBVIOUS
      <3>2. w.set[name] = Wanted(r)
        BY <1>2, <2>2, <2>5 DEF SetNames
      <3>3. SetReq(s, name) /\ SetReq(s, name)'
        BY <1>2, <2>4, <2>5, SettingNames DEF SetReq
      <3>4. Half(reqs[s])' /\ reqs'[s].union = x
        BY <2>4, <2>5, <3>1 DEF Half, Now
      <3>5. Stored(s, name)'
        <4>1. Now(reqs[s])' = "storeSetting" /\ Wanted(reqs[s])' = Wanted(r)
          BY <2>4 DEF Now, Wanted
        <4>. QED  BY <2>3, <2>4, <3>2, <4>1 DEF Stored
      <3>6. \A h \in DOMAIN game.values \ {k} :
               game'.values[h].set[name] = game.values[h].set[name]
        BY <2>3, <3>1
      <3>. QED  BY <1>2, <1>3, <1>4, <2>3, <3>1, <3>3, <3>4, <3>5, <3>6, AgreesAlone
    <2>6. CASE ~(r.op = "UpdateLotteryStatus" /\ name = "lottery")
      <3>1. w.set[name] = v.set[name]
        <4>1. CASE r.op # "UpdateLotteryStatus"
          BY <2>2, <4>1
        <4>2. CASE r.op = "UpdateLotteryStatus"
          <5>1. PICK n : w.set = [v.set EXCEPT !.lottery = n]
            BY <2>2, <4>2
          <5>. HIDE DEF v
          <5>2. name \in DOMAIN v.set /\ name # "lottery"
            BY <1>2, <2>6, <4>2
          <5>. QED  BY <5>1, <5>2
        <4>. QED  BY <4>1, <4>2
      <3>2. \A h \in DOMAIN game.values : game'.values[h].set[name] = game.values[h].set[name]
        BY <1>2, <2>3, <3>1
      <3>3. SetReq(s, name)' => ~Half(reqs[s])'
        BY <1>2, <2>4, <2>6, SettingNames DEF SetReq, Half, Now
      <3>. QED  BY <1>2, <1>3, <1>4, <1>5, <2>3, <3>2, <3>3, AgreesStay
    <2>. QED  BY <2>5, <2>6
  <1>. QED  BY <1>1, <1>6, <1>7

\* A setting changes in the document.
LEMMA SettingsStore ==
    ASSUME NEW s, Plays(s), StoreSetting(s), Kept, NEW name \in SetNames, Agrees(name),
           hist' = Noted(s), <<"set", name>> \notin hist'.clashed
    PROVE  Agrees(name)'
  <1>. DEFINE r == reqs[s]
  <1>1. PICK x, k, d : x = r.union /\ k = r.handle /\ d = UnionOf(r.union)
    OBVIOUS
  <1>2. PICK e : e = SetInDoc(d, r)
    OBVIOUS
  <1>3. /\ Now(r) = "storeSetting" /\ DocSet(db', UnionAt(x), e) /\ game' = game
        /\ IF r.op = "UpdateLotteryStatus" THEN Quits(s)
           ELSE /\ Moves(s, "cacheSetting") /\ reqs'[s].id = e.set.rules
                /\ reqs'[s].handle = r.handle /\ reqs'[s].n = r.n
    BY <1>1, <1>2, DoesStoreSetting
  <1>4. /\ MemInv /\ DocsShaped /\ s \in Busy /\ s \in Slots /\ r.op \in SettingOps
        /\ k \in DOMAIN game.values /\ game.values[k].id = x
        /\ UnionAt(x) \in DOMAIN db.unions /\ d = db.unions[UnionAt(x)]
    BY <1>1, <1>3, HandleIs, PlayerIs, WhoCalls DEF HandleCalls, Plays, MemInv
  <1>5. DocShaped(d) /\ DOMAIN d.set = SetNames
    BY <1>4 DEF DocsShaped, DocShaped
  <1>6. e.set = [d.set EXCEPT ![SettingOf[r.op]] =
                    IF r.op = "AddRoomRuleList" THEN d.set.rules + 1 ELSE Wanted(r)]
    <2>1. LET f == SetInDoc(d, r)
          IN f.set = [d.set EXCEPT ![SettingOf[r.op]] =
                    IF r.op = "AddRoomRuleList" THEN d.set.rules + 1 ELSE Wanted(r)]
      <3>. HIDE DEF r
      <3>. QED  BY <1>4, <1>5, SetsInDoc
    <2>. QED  BY <1>2, <2>1
  <1>7. GamesWait(s)
    BY <1>3, OthersAreGames DEF Moves, Quits
  <1>8. CASE ~SetReq(s, name)
    <2>1. SettingOf[r.op] # name
      BY <1>4, <1>8 DEF SetReq
    <2>2. e.set[name] = db.unions[UnionAt(x)].set[name]
      BY <1>4, <1>5, <1>6, <2>1
    <2>3. \A i \in DOMAIN db.unions : db'.unions[i].set[name] = db.unions[i].set[name]
      BY <1>3, <1>4, <2>2, SetsStay
    <2>4. ~SetReq(s, name)'
      BY <1>3, <1>4, <1>8, NotHalf
    <2>. QED  BY <1>3, <1>4, <1>7, <1>8, <2>3, <2>4, AgreesStay
  <1>9. CASE SetReq(s, name)
    <2>1. name = SettingOf[r.op]
      BY <1>9 DEF SetReq
    <2>2. e.set[name] = IF r.op = "AddRoomRuleList" THEN d.set.rules + 1 ELSE Wanted(r)
      BY <1>5, <1>6, <2>1
    <2>3. \A i \in DOMAIN db.unions \ {UnionAt(x)} :
             db'.unions[i].set[name] = db.unions[i].set[name]
      BY <1>3 DEF DocSet
    <2>4. UnionOf(x)' = e
      <3>1. UnionOf(x)' = db'.unions[UnionAt(x)]
        BY <1>1, <1>3, <1>9, HalfHasDoc DEF Plays
      <3>. QED  BY <1>3, <3>1 DEF DocSet
    <2>5. CASE r.op = "UpdateLotteryStatus"
      <3>1. ~SetReq(s, name)'
        BY <1>3, <2>5, NotHalf
      <3>2. game.values[k].set[name] = Wanted(r)
        BY <1>1, <1>3, <1>4, <1>9, <2>1, <2>5, SettingNames DEF Agrees
      <3>3. game'.values[k].set[name] = (UnionOf(x).set[name])'
        BY <1>3, <2>2, <2>4, <2>5, <3>2
      <3>. QED  BY <1>1, <1>3, <1>4, <1>7, <1>9, <2>3, <3>1, <3>3, AgreesAlone
    <2>6. CASE r.op # "UpdateLotteryStatus"
      <3>1. /\ Now(reqs'[s]) = "cacheSetting" /\ reqs'[s].op = r.op /\ reqs'[s].union = x
            /\ reqs'[s].n = r.n /\ reqs'[s].id = e.set.rules /\ s \in Busy'
        BY <1>1, <1>3, <1>4, <2>6 DEF Moves, Busy
      <3>2. SetReq(s, name)' /\ Half(reqs[s])' /\ reqs'[s].union = x
        BY <1>4, <2>1, <3>1 DEF SetReq, Half, Now
      <3>3. Stored(s, name)'
        <4>1. Now(reqs[s])' = "cacheSetting"
          BY <3>1 DEF Now
        <4>2. NewVal(reqs[s])' = e.set[name]
          <5>1. CASE r.op = "AddRoomRuleList"
            <6>1. name = "rules"
              BY <1>4, <2>1, <5>1, SettingNames
            <6>. QED  BY <3>1, <5>1, <6>1 DEF NewVal
          <5>2. CASE r.op # "AddRoomRuleList"
            <6>1. NewVal(reqs[s])' = Wanted(r)
              BY <3>1, <5>2 DEF NewVal, Wanted
            <6>. QED  BY <2>2, <5>2, <6>1
          <5>. QED  BY <5>1, <5>2
        <4>3. (UnionOf(x).set[name])' = e.set[name]
          BY <2>4
        <4>. QED  BY <3>1, <4>1, <4>2, <4>3 DEF Stored
      <3>. QED  BY <1>1, <1>3, <1>4, <1>7, <1>9, <2>3, <3>2, <3>3, AgreesAlone
    <2>. QED  BY <2>5, <2>6
  <1>. QED  BY <1>8, <1>9

\* A setting changes in memory last.
LEMMA SettingsCache ==
    ASSUME NEW s, Plays(s), CacheSetting(s), Kept, NEW name, Agrees(name),
           hist' = Noted(s), <<"set", name>> \notin hist'.clashed
    PROVE  Agrees(name)'
  <1>. DEFINE r == reqs[s]
  <1>1. PICK x, k, v : x = r.union /\ k = r.handle /\ v = Value(s)
    OBVIOUS
  <1>2. PICK w : /\ Now(r) = "cacheSetting" /\ Quits(s) /\ db' = db
                 /\ ValueSet(k, w) /\ w.set = [v.set EXCEPT ![SettingOf[r.op]] = NewVal(r)]
    BY <1>1, DoesCache DEF Elsewhere
  <1>3. /\ MemInv /\ DocsShaped /\ s \in Busy /\ s \in Slots /\ r.op \in SettingOps
        /\ k \in DOMAIN game.values /\ v = game.values[k] /\ v.id = x
        /\ DOMAIN v.set = SetNames
    BY <1>1, <1>2, HandleIs, PlayerIs, WhoCalls DEF HandleCalls, Plays, MemInv, ValueShaped
  <1>4. /\ DOMAIN game'.values = DOMAIN game.values /\ game'.values[k] = w
        /\ \A h \in DOMAIN game.values \ {k} : game'.values[h] = game.values[h]
    BY <1>2 DEF ValueSet
  <1>5. GamesWait(s) /\ DocsStay(db') /\ ~SetReq(s, name)'
    BY <1>2, <1>3, DocsSame, OthersAreGames, NotHalf DEF Quits
  <1>6. \A i \in DOMAIN db.unions : db'.unions[i].set[name] = db.unions[i].set[name]
    BY <1>3, <1>5, SetsStay
  <1>7. CASE ~SetReq(s, name)
    <2>1. SettingOf[r.op] # name
      BY <1>3, <1>7 DEF SetReq
    <2>2. w.set[name] = v.set[name]
      BY <1>2, <2>1
    <2>3. \A h \in DOMAIN game.values : game'.values[h].set[name] = game.values[h].set[name]
      BY <1>3, <1>4, <2>2
    <2>. QED  BY <1>3, <1>4, <1>5, <1>6, <1>7, <2>3, AgreesStay
  <1>8. CASE SetReq(s, name)
    <2>1. name = SettingOf[r.op] /\ name \in SetNames
      BY <1>3, <1>8, SettingNames DEF SetReq
    <2>2. w.set[name] = NewVal(r)
      BY <1>2, <1>3, <2>1
    <2>3. UnionOf(x).set[name] = NewVal(r)
      BY <1>1, <1>2, <1>3, <1>8 DEF Agrees
    <2>4. (UnionOf(x).set[name])' = UnionOf(x).set[name]
      <3>1. /\ UnionAt(x) \in DOMAIN db.unions /\ UnionOf(x) = db.unions[UnionAt(x)]
            /\ UnionOf(x)' = db'.unions[UnionAt(x)]
        BY <1>1, <1>2, <1>3, <1>8, HalfHasDoc
      <3>. QED  BY <1>6, <3>1
    <2>5. game'.values[k].set[name] = (UnionOf(x).set[name])'
      BY <1>4, <2>2, <2>3, <2>4
    <2>. QED  BY <1>1, <1>3, <1>4, <1>5, <1>6, <1>8, <2>5, AgreesAlone
  <1>. QED  BY <1>7, <1>8

\* The calls of the game server.
LEMMA SettingsGame ==
    ASSUME NEW s, Plays(s), GameStep(s), ~GamePanics, Kept, failed' = {},
           NEW name \in SetNames, Agrees(name), hist' = Noted(s),
           <<"set", name>> \notin hist'.clashed
    PROVE  Agrees(name)'
  <1>1. CASE UnionStep(s)
    BY <1>1, SettingsInit, SettingsNeutral
  <1>2. CASE RoomStep(s)
    BY <1>2, SettingsTaking, SettingsNeutral
  <1>3. CASE SettingStep(s)
    <2>1. ~(GameFault(s) /\ Now(reqs[s]) # "init")
      BY DoesFault
    <2>. QED
      BY <1>3, <2>1, SettingsTaking, SettingsSetting, SettingsStore, SettingsCache
         DEF SettingStep
  <1>. QED  BY <1>1, <1>2, <1>3, PlayerSteps

\* A message arrives, or nothing happens.
LEMMA SettingsArrive ==
    ASSUME Shaped, MemInv, NEW s \in Slots, Arrive(s), start \in DOMAIN Starts, Kept,
           NEW name, Agrees(name)
    PROVE  Agrees(name)'
  <1>1. PICK c \in Starts[start].calls : reqs' = [reqs EXCEPT ![s] = NewRequest(c)]
    BY DEF Arrive
  <1>2. PICK k : k = NewRequest(c)
    OBVIOUS
  <1>3. /\ k.op \in Ops
        /\ k.op \in HallOps => Now(k) \in HallCalls
        /\ k.op \in GameOps => Now(k) \in {"getUnion", "findUser", "proxy", "leave"}
    BY <1>2, NewOnPath
  <1>4. reqs' = [reqs EXCEPT ![s] = k] /\ game' = game /\ db' = db /\ reqs[s] = Idle
    BY <1>1, <1>2 DEF Arrive
  <1>5. OthersWait(s) /\ reqs'[s] = k /\ DocsShaped
    BY <1>4 DEF Shaped, OthersWait, MemInv
  <1>6. GamesWait(s) /\ DocsStay(db')
    BY <1>4, <1>5, DocsSame, OthersAreGames
  <1>7. \A i \in DOMAIN db.unions : db'.unions[i].set[name] = db.unions[i].set[name]
    BY <1>5, <1>6, SetsStay
  <1>8. Now(k) \notin {"storeSetting", "cacheSetting"}
    BY <1>3 DEF Ops, HallCalls
  <1>9. ~SetReq(s, name) /\ ~Half(reqs[s])'
    BY <1>4, <1>5, <1>8 DEF SetReq, Busy, Half, Now
  <1>. QED  BY <1>4, <1>6, <1>7, <1>9, AgreesStay

\* Nothing happens.
LEMMA SettingsStutter ==
    ASSUME UNCHANGED vars, NEW name, Agrees(name)
    PROVE  Agrees(name)'
  <1>1. db' = db /\ game' = game /\ reqs' = reqs
    BY DEF vars
  <1>2. ByPlace /\ ByPlace'
    BY UnionAtIs, UnionAtIsNext
  <1>3. \A x : UnionOf(x) = db.unions[DocAt(db.unions, x)]
    BY <1>2 DEF ByPlace
  <1>4. \A x : UnionOf(x)' = db'.unions[DocAt(db'.unions, x)]
    BY <1>2 DEF ByPlace
  <1>5. \A x : UnionOf(x)' = UnionOf(x)
    BY <1>1, <1>3, <1>4
  <1>. QED  BY <1>1, <1>5 DEF Agrees, SetReq, Half, NewVal, Wanted, Busy, Now, Single

\* While nothing failed, and no two requests about one setting met, memory and
\* document of a union that was loaded once agree on it, but for a request that
\* has changed one of the two; and what it changed is what it wants
\* (unionMgr.go, UpdateLotteryStatus of union.go).
THEOREM SettingsStayAgreed == Spec => []SettingsInv
  <1>1. Init => SettingsInv
    <2>1. Init => Busy = {} /\ DOMAIN game.values = {}
      BY DEF Init, Busy, NewUnionManager
    <2>. QED  BY <2>1 DEF SettingsInv, Agrees, SetReq
  <1>2. OwnInv /\ MemInv /\ start \in DOMAIN Starts /\ SettingsInv /\ [Next]_vars
          => SettingsInv' /\ (start \in DOMAIN Starts)'
    <2>. SUFFICES ASSUME OwnInv, MemInv, start \in DOMAIN Starts, SettingsInv, [Next]_vars
                  PROVE  SettingsInv' /\ start' = start
      OBVIOUS
    <2>1. start' = start
      BY EveryStep
    <2>2. ASSUME failed' = {}, NEW name \in SetNames, <<"set", name>> \notin hist'.clashed
          PROVE  Agrees(name)'
      <3>1. Agrees(name)
        BY <2>2, ExcusesGrow DEF SettingsInv
      <3>2. ASSUME NEW s \in Slots, Arrive(s), Kept
            PROVE  Agrees(name)'
        BY <3>1, <3>2, SettingsArrive DEF OwnInv
      <3>3. UNCHANGED vars => Agrees(name)'
        BY <3>1, SettingsStutter
      <3>4. ASSUME NEW s \in Busy, hist' = Noted(s), Kept, Works(s),
                   SharedStep(s) \/ HallStep(s), game' = game
            PROVE  Agrees(name)'
        BY <3>1, <3>4, SettingsInHall
      <3>5. ASSUME NEW s \in Busy, hist' = Noted(s), Kept, Plays(s), GameStep(s), ~GamePanics
            PROVE  Agrees(name)'
        BY <2>2, <3>1, <3>5, SettingsGame
      <3>6. ASSUME NEW s \in Busy, Plays(s), GamePanics
            PROVE  FALSE
        BY <2>2, <3>6, PanicLoses
      <3>. QED  BY <3>2, <3>3, <3>4, <3>5, <3>6, EveryStep
    <2>. QED  BY <2>1, <2>2 DEF SettingsInv
  <1>3. Init => start \in DOMAIN Starts
    BY DEF Init
  <1>. QED  BY <1>1, <1>2, <1>3, LocksHaveOneOwner, MemoryStaysShaped, PTL DEF Spec

\* At rest, the union that answers from memory has the settings of its
\* document: changes of different settings never lose one another.
THEOREM SettingsAreKept == Spec => []SettingsKept
  <1>1. MemInv /\ SettingsInv => SettingsKept
    <2>. SUFFICES ASSUME MemInv, SettingsInv, Busy = {}, failed = {},
                         NEW x \in DOMAIN game.unionList, ~Doubled(x),
                         game.values[game.unionList[x]].data,
                         NEW name \in DOMAIN game.values[game.unionList[x]].set,
                         <<"set", name>> \notin hist.clashed
                  PROVE  game.values[game.unionList[x]].set[name] = UnionOf(x).set[name]
      BY Zenon DEF SettingsKept
    <2>. PICK h : h = game.unionList[x]
      OBVIOUS
    <2>1. Single(x)
      BY SingleUnlessDoubled
    <2>2. h \in DOMAIN game.values /\ game.values[h].id = x
      BY DEF MemInv, MemoryShaped
    <2>3. name \in SetNames
      BY <2>2 DEF MemInv, MemoryShaped, ValueShaped
    <2>4. Agrees(name)
      BY <2>3 DEF SettingsInv
    <2>. QED  BY <2>1, <2>2, <2>4 DEF Agrees, SetReq
  <1>. QED  BY <1>1, MemoryStaysShaped, SettingsStayAgreed, PTL

-----------------------------------------------------------------------------
(* Rooms. *)

\* A union with rooms is one the manager knows.
LEMMA KnownRooms ==
    ASSUME MemInv, AllSingle
    PROVE  /\ \A h \in DOMAIN game.values : \A id \in DOMAIN game.values[h].rooms :
                 h \in Holding(id)
           /\ \A u, id : IsUserInRoom(u, id) <=> \E h : Inside(u, h, id)
           /\ Known \subseteq DOMAIN game.values
  <1>1. \A x \in DOMAIN game.unionList : /\ game.unionList[x] \in DOMAIN game.values
                                         /\ game.values[game.unionList[x]].id = x
    BY DEF MemInv, MemoryShaped
  <1>2. Known \subseteq DOMAIN game.values
    BY <1>1 DEF Known
  <1>3. ASSUME NEW h \in DOMAIN game.values, NEW id \in DOMAIN game.values[h].rooms
        PROVE  h \in Holding(id)
    <2>1. game.values[h].id \in DOMAIN game.unionList
      BY <1>3 DEF MemInv, MemoryShaped, ValueShaped
    <2>2. game.unionList[game.values[h].id] = h
      BY <1>1, <2>1 DEF AllSingle
    <2>3. h \in Known
      BY <2>1, <2>2 DEF Known
    <2>. QED  BY <2>3 DEF Holding
  <1>4. \A u, id : IsUserInRoom(u, id) <=> \E h : Inside(u, h, id)
    BY <1>2, <1>3 DEF IsUserInRoom, Inside, Holding
  <1>. QED  BY <1>2, <1>3, <1>4

\* No room is new, and nobody in a room is.
Fewer ==
    \A h \in DOMAIN game'.values : \A i \in DOMAIN game'.values[h].rooms :
        /\ h \in DOMAIN game.values /\ i \in DOMAIN game.values[h].rooms
        /\ game'.values[h].rooms[i] \subseteq game.values[h].rooms[i]
Leaves(u) == \A h, i : Inside(u, h, i)' => Inside(u, h, i)

\* Users only leave, and no room comes to be in two unions.
LEMMA FewerLeave ==
    ASSUME Fewer
    PROVE  /\ RoomsDistinct => RoomsDistinct'
           /\ \A u : Leaves(u)
  <1>1. RoomsDistinct => RoomsDistinct'
    <2>. SUFFICES ASSUME RoomsDistinct, NEW h \in DOMAIN game'.values,
                         NEW k \in DOMAIN game'.values,
                         NEW i \in DOMAIN game'.values[h].rooms \cap DOMAIN game'.values[k].rooms
                  PROVE  h = k
      BY DEF RoomsDistinct
    <2>. QED  BY DEF Fewer, RoomsDistinct
  <1>2. ASSUME NEW u
        PROVE  Leaves(u)
    BY DEF Fewer, Inside, Leaves
  <1>. QED  BY <1>1, <1>2

\* What a request about rooms holds to.
Placing(s, u) ==
    LET r == reqs[s]
    IN /\ Now(r) \in {"proxy", "rejoin", "findUser", "inRoom"} => r.sess = session[u]
       /\ Now(r) \in UnionCalls \cup {"createRoom", "quickJoin"} =>
             \A h, i : ~Inside(u, h, i)
       /\ \/ Now(r) \in StoreCalls \cup {"joinRoom"}
          \/ Now(r) = "findUser" /\ r.op = "JoinRoom"
          => \A h, i : Inside(u, h, i) => i = r.n

\* A request of a user waits.
LEMMA RoomsWait ==
    ASSUME NEW s, GamesWait(s), NEW p \in Slots \ {s}, NEW u
    PROVE  /\ RoomReq(p, u)' <=> RoomReq(p, u)
           /\ RoomReq(p, u) => reqs'[p] = reqs[p]
  <1>1. RoomOps \subseteq GameOps
    BY OpsByName DEF RoomOps
  <1>. QED  BY <1>1 DEF GamesWait, RoomReq, Busy

\* Two requests of a user about rooms clash.
LEMMA RoomClash ==
    ASSUME NEW s, NEW u, RoomReq(s, u), hist' = Noted(s), <<"room", u>> \notin hist'.clashed
    PROVE  \A p \in Slots \ {s} : ~RoomReq(p, u)
  <1>1. ASSUME NEW r, r.op \in RoomOps, r.uid = u
        PROVE  <<"room", u>> \in Alone(r)
    <2>1. Alone(r) = {<<"room", r.uid>>}
      BY <1>1, OpsByName DEF RoomOps, Alone
    <2>. QED  BY <1>1, <2>1
  <1>2. s \in Busy /\ <<"room", u>> \in Alone(reqs[s])
    BY <1>1 DEF RoomReq
  <1>3. ASSUME NEW p \in Slots \ {s}, RoomReq(p, u)
        PROVE  FALSE
    <2>1. p \in Busy /\ <<"room", u>> \in Alone(reqs[p])
      BY <1>1, <1>3 DEF RoomReq
    <2>. QED  BY <1>2, <1>3, <2>1, ClashNoted
  <1>. QED  BY <1>3

\* A step that is not of the user's requests about rooms.
LEMMA PlacedStays ==
    ASSUME NEW s \in Slots, GamesWait(s), NEW u, Placed(u), Leaves(u),
           session'[u] = session[u], ~RoomReq(s, u), ~RoomReq(s, u)'
    PROVE  Placed(u)'
  <1>1. ASSUME NEW h, NEW k, NEW i, NEW j, Inside(u, h, i)', Inside(u, k, j)'
        PROVE  h = k /\ i = j
    BY <1>1 DEF Placed, Leaves
  <1>2. ASSUME NEW h, NEW i, Inside(u, h, i)'
        PROVE  \/ session'[u] = i
               \/ \E p \in Slots : RoomReq(p, u)' /\ Now(reqs[p])' \in StoreCalls
    <2>1. Inside(u, h, i)
      BY <1>2 DEF Leaves
    <2>2. CASE session[u] # i
      <3>1. PICK p \in Slots : RoomReq(p, u) /\ Now(reqs[p]) \in StoreCalls
        BY <2>1, <2>2 DEF Placed
      <3>2. RoomReq(p, u)' /\ reqs'[p] = reqs[p]
        BY <3>1, RoomsWait
      <3>. QED  BY <3>1, <3>2 DEF Now
    <2>. QED  BY <2>2
  <1>3. ASSUME NEW p \in Slots, RoomReq(p, u)'
        PROVE  Placing(p, u)'
    <2>1. RoomReq(p, u) /\ reqs'[p] = reqs[p]
      BY <1>3, RoomsWait
    <2>2. Placing(p, u)
      BY <2>1 DEF Placed, Placing
    <2>3. Now(reqs[p])' = Now(reqs[p])
      BY <2>1 DEF Now
    <2>4. (\A h, i : ~Inside(u, h, i)) => \A h, i : ~Inside(u, h, i)'
      BY DEF Leaves
    <2>5. ASSUME NEW n
          PROVE  (\A h, i : Inside(u, h, i) => i = n) => \A h, i : Inside(u, h, i)' => i = n
      BY DEF Leaves
    <2>. QED  BY <2>1, <2>2, <2>3, <2>4, <2>5 DEF Placing
  <1>. QED  BY <1>1, <1>2, <1>3 DEF Placed, Placing

\* A step of a request of his, when no other of his is about rooms.
LEMMA PlacedAlone ==
    ASSUME NEW s \in Slots, GamesWait(s), NEW u, RoomReq(s, u), hist' = Noted(s),
           <<"room", u>> \notin hist'.clashed,
           \A h, k, i, j : Inside(u, h, i)' /\ Inside(u, k, j)' => h = k /\ i = j,
           \A h, i : Inside(u, h, i)' =>
              session'[u] = i \/ (RoomReq(s, u)' /\ Now(reqs[s])' \in StoreCalls),
           RoomReq(s, u)' => Placing(s, u)'
    PROVE  Placed(u)'
  <1>1. ASSUME NEW p \in Slots, RoomReq(p, u)'
        PROVE  Placing(p, u)'
    <2>1. p = s
      BY <1>1, RoomClash, RoomsWait
    <2>. QED  BY <1>1, <2>1
  <1>. QED  BY <1>1 DEF Placed, Placing

\* A request of his before it changes anything is the only reason for him to
\* be in a room that his session does not name.
LEMMA PlacedBefore ==
    ASSUME NEW s \in Slots, NEW u, RoomReq(s, u), hist' = Noted(s), Placed(u),
           <<"room", u>> \notin hist'.clashed, Now(reqs[s]) \notin StoreCalls
    PROVE  \A h, i : Inside(u, h, i) => session[u] = i
  BY RoomClash DEF Placed

\* It ends without a change.
LEMMA PlacedQuits ==
    ASSUME NEW s \in Slots, Quits(s), NEW u, RoomReq(s, u), hist' = Noted(s), Placed(u),
           <<"room", u>> \notin hist'.clashed, Now(reqs[s]) \notin StoreCalls,
           Leaves(u), session' = session
    PROVE  Placed(u)'
  <1>1. GamesWait(s) /\ ~RoomReq(s, u)'
    BY OthersAreGames DEF Quits, RoomReq, Busy
  <1>2. \A h, k, i, j : Inside(u, h, i)' /\ Inside(u, k, j)' => h = k /\ i = j
    BY DEF Placed, Leaves
  <1>3. \A h, i : Inside(u, h, i)' => session'[u] = i
    BY PlacedBefore DEF Leaves
  <1>. QED  BY <1>1, <1>2, <1>3, PlacedAlone

\* It goes on without a change.
LEMMA PlacedGoes ==
    ASSUME NEW s \in Slots, NEW x, Moves(s, x), NEW u, RoomReq(s, u), hist' = Noted(s),
           Placed(u), <<"room", u>> \notin hist'.clashed,
           Leaves(u), session' = session, Placing(s, u)',
           Now(reqs[s]) \in StoreCalls => x \in StoreCalls
    PROVE  Placed(u)'
  <1>1. GamesWait(s) /\ RoomReq(s, u)' /\ Now(reqs[s])' = x
    BY OthersAreGames DEF Moves, RoomReq, Busy, Now
  <1>2. \A h, k, i, j : Inside(u, h, i)' /\ Inside(u, k, j)' => h = k /\ i = j
    BY DEF Placed, Leaves
  <1>3. \A h, i : Inside(u, h, i)' =>
           session'[u] = i \/ (RoomReq(s, u)' /\ Now(reqs[s])' \in StoreCalls)
    <2>1. CASE Now(reqs[s]) \in StoreCalls
      BY <1>1, <2>1
    <2>2. CASE Now(reqs[s]) \notin StoreCalls
      BY <2>2, PlacedBefore DEF Leaves
    <2>. QED  BY <2>1, <2>2
  <1>. QED  BY <1>1, <1>2, <1>3, PlacedAlone

\* A value with other rooms.
LEMMA RoomsAre ==
    ASSUME NEW h, NEW rooms, RoomsSet(h, rooms)
    PROVE  /\ h \in DOMAIN game.values /\ DOMAIN game'.values = DOMAIN game.values
           /\ game'.values[h].rooms = rooms
           /\ \A k \in DOMAIN game.values \ {h} : game'.values[k].rooms = game.values[k].rooms
  BY DEF RoomsSet, ValueSet

\* Values that have the rooms they had.
LEMMA SameRoomsFewer ==
    ASSUME DOMAIN game'.values = DOMAIN game.values,
           \A h \in DOMAIN game.values : game'.values[h].rooms = game.values[h].rooms
    PROVE  Fewer
  BY DEF Fewer

\* A step of a request that is not about rooms, or of another user.
LEMMA PlacedAside ==
    ASSUME NEW s, Plays(s), Quits(s) \/ \E x : Moves(s, x), NEW u, Placed(u),
           ~RoomReq(s, u), Leaves(u), session'[u] = session[u]
    PROVE  Placed(u)'
  <1>1. s \in Slots /\ s \in Busy
    BY DEF Plays, Busy
  <1>2. GamesWait(s)
    BY OthersAreGames DEF Quits, Moves
  <1>3. ~RoomReq(s, u)'
    BY <1>1 DEF Quits, Moves, RoomReq, Busy
  <1>. QED  BY <1>1, <1>2, <1>3, PlacedStays

\* The step of a request leaves the rooms as they should be.
Settles ==
    /\ RoomsDistinct'
    /\ \A u \in Users \ failed' :
          <<"room", u>> \notin hist'.clashed /\ Placed(u) => Placed(u)'
RoomsGood == AllSingle /\ AllSingle' /\ RoomsDistinct /\ DOMAIN session = Users

\* A call of the database fails.
LEMMA FaultSettles ==
    ASSUME NEW s, Plays(s), ~GamePanics, GameFault(s), Now(reqs[s]) # "init", RoomsGood
    PROVE  Settles
  <1>1. /\ Quits(s) \/ \E x : Moves(s, x)
        /\ game' = game /\ reqs[s].uid \in failed'
        /\ session' = session \/ session' = [session EXCEPT ![reqs[s].uid] = reqs[s].n]
    BY DoesFault DEF Proceeds, Passes
  <1>2. Fewer
    BY <1>1, SameRoomsFewer
  <1>3. ASSUME NEW u \in Users \ failed', Placed(u)
        PROVE  Placed(u)'
    <2>1. u # reqs[s].uid /\ u \in DOMAIN session
      BY <1>1 DEF RoomsGood
    <2>2. ~RoomReq(s, u) /\ session'[u] = session[u]
      BY <1>1, <2>1 DEF RoomReq
    <2>3. Leaves(u)
      BY <1>2, FewerLeave
    <2>. QED  BY <1>1, <1>3, <2>2, <2>3, PlacedAside
  <1>. QED  BY <1>2, <1>3, FewerLeave DEF Settles, RoomsGood

\* The calls about red envelopes and settings.
LEMMA SettingSettles ==
    ASSUME NEW s, Plays(s), ~GamePanics, RoomsGood,
           \/ CheckHongBao(s) \/ KeepUid(s) \/ CreditHongBao(s) \/ RecordHongBao(s)
           \/ StoreUid(s) \/ Setting(s) \/ StoreSetting(s) \/ CacheSetting(s)
    PROVE  Settles
  <1>. DEFINE r == reqs[s]
  <1>0. \A h, w : ValueSet(h, w) /\ h \in DOMAIN game.values /\ w.rooms = game.values[h].rooms
                     => Fewer
    BY SameRoomsFewer DEF ValueSet
  <1>1. /\ Quits(s) \/ \E x : Moves(s, x)
        /\ Now(r) \in {"checkHongBao", "keepUid", "setting", "storeSetting", "cacheSetting"}
                      \cup TakingCalls
        /\ session' = session /\ Fewer
    <2>1. CASE CheckHongBao(s)
      <3>1. Now(r) = "checkHongBao"
        BY <2>1, PlayerIs DEF CheckHongBao
      <3>2. Still /\ (Quits(s) \/ Passes(s, NextOf(s)))
        BY <2>1, DoesRead
      <3>. QED  BY <3>1, <3>2, SameRoomsFewer DEF Still, Passes
    <2>2. CASE KeepUid(s)
      <3>1. PICK w : /\ Now(r) = "keepUid" /\ Passes(s, "creditHongBao") /\ Elsewhere
                     /\ ValueSet(r.handle, w) /\ w.rooms = Value(s).rooms
        BY <2>2, DoesKeepUid DEF AlikeValues
      <3>2. r.handle \in DOMAIN game.values /\ Value(s) = game.values[r.handle]
        BY <3>1, HandleIs DEF HandleCalls
      <3>. QED  BY <1>0, <3>1, <3>2 DEF Passes, Elsewhere
    <2>3. CASE CreditHongBao(s) \/ RecordHongBao(s)
      <3>1. /\ Now(r) \in {"creditHongBao", "recordHongBao"} /\ Passes(s, NextOf(s))
            /\ session' = session /\ game' = game
        BY <2>3, DoesCredit
      <3>. QED  BY <3>1, SameRoomsFewer DEF Passes, TakingCalls
    <2>4. CASE StoreUid(s)
      <3>1. Now(r) = "storeUid" /\ Quits(s) /\ game' = game /\ session' = session
        BY <2>4, DoesStoreUid
      <3>. QED  BY <3>1, SameRoomsFewer DEF TakingCalls
    <2>5. CASE Setting(s)
      <3>1. /\ Now(r) = "setting" /\ Elsewhere
            /\ \/ Quits(s) /\ game' = game
               \/ Passes(s, "storeSetting") /\ ValueSet(r.handle, SetInMemory(Value(s), r))
        BY <2>5, DoesSetting
      <3>2. PICK v : v = Value(s)
        OBVIOUS
      <3>3. r.handle \in DOMAIN game.values /\ v = game.values[r.handle] /\ ValueShaped(v)
        BY <3>1, <3>2, HandleIs DEF HandleCalls
      <3>4. SetInMemory(v, r).rooms = v.rooms
        <4>. HIDE DEF r
        <4>. QED  BY <3>3, SetsInMemory DEF AlikeValues
      <3>5. ValueSet(r.handle, SetInMemory(v, r)) => Fewer
        BY <1>0, <3>3, <3>4
      <3>. QED  BY <3>1, <3>2, <3>5, SameRoomsFewer DEF Elsewhere, Passes
    <2>6. CASE StoreSetting(s)
      <3>1. /\ Now(r) = "storeSetting" /\ game' = game /\ session' = session
            /\ Quits(s) \/ Moves(s, "cacheSetting")
        BY <2>6, DoesStoreSetting
      <3>. QED  BY <3>1, SameRoomsFewer
    <2>7. CASE CacheSetting(s)
      <3>1. PICK w : /\ Now(r) = "cacheSetting" /\ Quits(s) /\ Elsewhere
                     /\ ValueSet(r.handle, w) /\ w.rooms = Value(s).rooms
        BY <2>7, DoesCache DEF AlikeValues
      <3>2. r.handle \in DOMAIN game.values /\ Value(s) = game.values[r.handle]
        BY <3>1, HandleIs DEF HandleCalls
      <3>. QED  BY <1>0, <3>1, <3>2 DEF Elsewhere
    <2>. QED  BY <2>1, <2>2, <2>3, <2>4, <2>5, <2>6, <2>7
  <1>2. r.op \notin RoomOps
    <2>1. r.op = "GetHongBao" \/ r.op \in SettingOps
      BY <1>1, PlayerIs, WhoCalls DEF Plays
    <2>. QED  BY <2>1, SettingNames DEF RoomOps
  <1>3. ASSUME NEW u, Placed(u)
        PROVE  Placed(u)'
    <2>1. ~RoomReq(s, u) /\ session'[u] = session[u] /\ Leaves(u)
      BY <1>1, <1>2, FewerLeave DEF RoomReq
    <2>. QED  BY <1>1, <1>3, <2>1, PlacedAside
  <1>. QED  BY <1>1, <1>3, FewerLeave DEF Settles, RoomsGood

\* GetUnion and what it calls.
LEMMA UnionSettles ==
    ASSUME NEW s, Plays(s), UnionStep(s), Kept, RoomsGood, hist' = Noted(s)
    PROVE  Settles
  <1>. DEFINE r == reqs[s]
  <1>1. /\ Now(r) \in UnionCalls /\ session' = session /\ Fewer
        /\ \E x \in UnionCalls \cup {AfterUnion(r.op)} : Moves(s, x)
    <2>1. CASE GetUnion(s)
      <3>1. /\ Still /\ Now(r) = "getUnion"
            /\ Passes(s, "init") \/ Moves(s, AfterUnion(r.op))
        BY <2>1, DoesGetUnion
      <3>. QED  BY <3>1, SameRoomsFewer DEF Still, Passes, UnionCalls
    <2>2. CASE KeepUnion(s)
      <3>1. /\ Now(r) = "keepUnion" /\ Passes(s, AfterUnion(r.op))
            /\ game'.values = game.values /\ session' = session
        BY <2>2, DoesKeep
      <3>. QED  BY <3>1, SameRoomsFewer DEF Passes, UnionCalls
    <2>3. CASE ~GetUnion(s) /\ ~KeepUnion(s)
      <3>1. InitUnion(s) \/ (GameFault(s) /\ Now(r) = "init")
        BY <2>3 DEF UnionStep
      <3>2. session' = session
        BY <3>1, DoesInit DEF Loads
      <3>3. /\ Moves(s, "keepUnion") /\ Now(r) = "init"
            /\ \A h \in DOMAIN game.values : game'.values[h] = game.values[h]
            /\ \A h \in DOMAIN game'.values \ DOMAIN game.values :
                  DOMAIN game'.values[h].rooms = {}
        BY <2>3, LoadedIs
      <3>. QED  BY <3>2, <3>3 DEF Fewer, UnionCalls
    <2>. QED  BY <2>1, <2>2, <2>3
  <1>2. PICK x \in UnionCalls \cup {AfterUnion(r.op)} : Moves(s, x)
    BY <1>1
  <1>3. s \in Slots /\ Now(r) \notin StoreCalls
    BY <1>1 DEF Plays, Busy, UnionCalls, StoreCalls
  <1>4. ASSUME NEW u \in Users, <<"room", u>> \notin hist'.clashed, Placed(u)
        PROVE  Placed(u)'
    <2>1. Leaves(u)
      BY <1>1, FewerLeave
    <2>2. CASE ~RoomReq(s, u)
      BY <1>1, <1>2, <1>4, <2>1, <2>2, PlacedAside
    <2>3. CASE RoomReq(s, u)
      <3>1. r.op \in {"CreateRoom", "QuickJoin"}
        BY <1>1, <2>3, PlayerIs, WhoCalls DEF Plays, RoomReq
      <3>2. x \in UnionCalls \cup {"createRoom", "quickJoin"}
        BY <3>1 DEF AfterUnion
      <3>3. \A h, i : ~Inside(u, h, i)
        BY <1>1, <1>3, <1>4, <2>3 DEF Placed
      <3>4. Now(reqs[s])' = x
        BY <1>2 DEF Moves, Now
      <3>5. Placing(s, u)'
        BY <2>1, <3>2, <3>3, <3>4 DEF Placing, Leaves, UnionCalls, StoreCalls
      <3>. QED  BY <1>1, <1>2, <1>3, <1>4, <2>1, <2>3, <3>5, PlacedGoes
    <2>. QED  BY <2>2, <2>3
  <1>. QED  BY <1>1, <1>4, FewerLeave DEF Settles, RoomsGood

\* The calls that look for a user's room, and Rejoin.
LEMMA ReadSettles ==
    ASSUME NEW s, Plays(s), FindUserData(s) \/ InRoom(s) \/ Proxy(s) \/ Rejoin(s), RoomsGood,
           hist' = Noted(s)
    PROVE  Settles
  <1>. DEFINE r == reqs[s]
  <1>1. /\ Still /\ Now(r) \in {"findUser", "inRoom", "proxy", "rejoin"}
        /\ Quits(s) \/ Moves(s, NextOf(s))
        /\ Now(r) \in {"findUser", "inRoom", "proxy"} => Quits(s) \/ Passes(s, NextOf(s))
        /\ Now(r) = "inRoom" /\ ~Quits(s) => ~IsUserInRoom(r.uid, r.sess)
        /\ Now(r) = "rejoin" =>
              reqs'[s].n = IF IsUserInRoom(r.uid, r.sess) THEN r.sess ELSE r.n
    <2>1. CASE FindUserData(s) \/ InRoom(s) \/ Proxy(s)
      <3>1. /\ Still /\ (Quits(s) \/ Passes(s, NextOf(s)))
            /\ Now(r) \in {"findUser", "inRoom", "proxy", "checkHongBao"}
            /\ Now(r) = "inRoom" /\ ~Quits(s) => ~IsUserInRoom(r.uid, r.sess)
        BY <2>1, DoesRead
      <3>2. Now(r) # "checkHongBao" /\ Now(r) # "rejoin"
        BY <2>1, PlayerIs DEF AtOp, FindUserData, InRoom, Proxy
      <3>. QED  BY <3>1, <3>2 DEF Passes
    <2>2. CASE Rejoin(s)
      <3>1. /\ Still /\ Now(r) = "rejoin" /\ Moves(s, "findUser")
            /\ reqs'[s].n = IF IsUserInRoom(r.uid, r.sess) THEN r.sess ELSE r.n
        BY <2>2, DoesRejoin
      <3>2. NextOf(s) = "findUser"
        BY <3>1 DEF NextOf, NextCall
      <3>. QED  BY <3>1, <3>2
    <2>. QED  BY <2>1, <2>2
  <1>2. Fewer /\ session' = session /\ game' = game
    BY <1>1, SameRoomsFewer DEF Still
  <1>3. s \in Slots /\ s \in Busy /\ Now(r) \notin StoreCalls /\ MemInv
    BY <1>1 DEF Plays, Busy, StoreCalls
  <1>4. ASSUME NEW u \in Users, <<"room", u>> \notin hist'.clashed, Placed(u)
        PROVE  Placed(u)'
    <2>1. Leaves(u)
      BY <1>2, FewerLeave
    <2>2. CASE ~RoomReq(s, u)
      BY <1>1, <1>2, <1>4, <2>1, <2>2, PlacedAside
    <2>3. CASE RoomReq(s, u) /\ Quits(s)
      BY <1>2, <1>3, <1>4, <2>1, <2>3, PlacedQuits
    <2>4. CASE RoomReq(s, u) /\ ~Quits(s)
      <3>1. /\ Now(reqs[s])' = NextOf(s) /\ reqs'[s].op = r.op /\ reqs'[s].sess = r.sess
            /\ Moves(s, NextOf(s))
            /\ Now(r) # "rejoin" => reqs'[s].n = r.n
        BY <1>1, <2>4 DEF Moves, Passes, Now
      <3>2. \A h, i : Inside(u, h, i) => session[u] = i
        BY <1>3, <1>4, <2>4, PlacedBefore
      <3>3. \A id : IsUserInRoom(u, id) <=> \E h : Inside(u, h, id)
        BY <1>3, KnownRooms DEF RoomsGood
      <3>4. Placing(s, u) /\ r.uid = u
        BY <1>3, <1>4, <2>4 DEF Placed, Placing, RoomReq
      <3>5. Placing(s, u)'
        <4>1. CASE Now(r) = "findUser"
          <5>1. CASE r.op = "JoinRoom"
            <6>1. NextOf(s) = "joinRoom"
              BY <4>1, <5>1 DEF NextOf, NextCall
            <6>2. \A h, i : Inside(u, h, i) => i = r.n
              BY <3>4, <4>1, <5>1 DEF Placing
            <6>3. reqs'[s].n = r.n
              BY <3>1, <4>1
            <6>. QED  BY <2>1, <3>1, <6>1, <6>2, <6>3 DEF Placing, Leaves, UnionCalls
          <5>2. CASE r.op # "JoinRoom"
            <6>1. NextOf(s) = "inRoom"
              BY <4>1, <5>2 DEF NextOf, NextCall
            <6>2. r.sess = session'[u]
              BY <1>2, <3>4, <4>1 DEF Placing
            <6>. QED  BY <3>1, <6>1, <6>2 DEF Placing, UnionCalls, StoreCalls
          <5>. QED  BY <5>1, <5>2
        <4>2. CASE Now(r) = "inRoom"
          <5>1. NextOf(s) = "getUnion"
            BY <4>2 DEF NextOf, NextCall
          <5>2. r.sess = session[u] /\ ~IsUserInRoom(u, r.sess)
            BY <1>1, <2>4, <3>4, <4>2 DEF Placing
          <5>3. \A h, i : ~Inside(u, h, i)
            BY <3>2, <3>3, <5>2
          <5>. QED  BY <2>1, <3>1, <5>1, <5>3 DEF Placing, Leaves, StoreCalls
        <4>3. CASE Now(r) = "proxy"
          <5>1. NextOf(s) = "rejoin"
            BY <4>3 DEF NextOf, NextCall
          <5>2. r.sess = session'[u]
            BY <1>2, <3>4, <4>3 DEF Placing
          <5>. QED  BY <3>1, <5>1, <5>2 DEF Placing, UnionCalls, StoreCalls
        <4>4. CASE Now(r) = "rejoin"
          <5>1. NextOf(s) = "findUser"
            BY <4>4 DEF NextOf, NextCall
          <5>2. r.sess = session[u] /\ session'[u] = session[u]
            BY <1>2, <3>4, <4>4 DEF Placing
          <5>3. ASSUME NEW h, NEW i, Inside(u, h, i)
                PROVE  i = reqs'[s].n
            <6>1. i = r.sess /\ IsUserInRoom(u, r.sess)
              BY <3>2, <3>3, <5>2, <5>3
            <6>. QED  BY <1>1, <3>4, <4>4, <6>1
          <5>. QED  BY <2>1, <3>1, <5>1, <5>2, <5>3 DEF Placing, Leaves, UnionCalls, StoreCalls
        <4>. QED  BY <1>1, <4>1, <4>2, <4>3, <4>4
      <3>. QED  BY <1>2, <1>3, <1>4, <2>1, <2>4, <3>1, <3>5, PlacedGoes
    <2>. QED  BY <2>2, <2>3, <2>4
  <1>. QED  BY <1>2, <1>4, FewerLeave DEF Settles, RoomsGood

\* A room is made: its number is one no room has.
LEMMA CreateSettles ==
    ASSUME NEW s, Plays(s), CreateRoom(s), RoomsGood, hist' = Noted(s)
    PROVE  Settles
  <1>. DEFINE r == reqs[s]
  <1>1. Now(r) = "createRoom" /\ session' = session /\ s \in Slots /\ s \in Busy /\ MemInv
    BY DoesCreate DEF Elsewhere, Plays, Busy
  <1>2. PICK id \in RoomIds, in \in SUBSET {r.uid} :
           /\ Holding(id) = {} /\ RoomsSet(r.handle, With(Value(s).rooms, id, in))
           /\ \/ Moves(s, "storeRoom") /\ reqs'[s].n = id /\ in = {r.uid}
              \/ Quits(s) /\ in = {}
    BY DoesCreate
  <1>3. PICK k, rooms, more : /\ k = r.handle /\ rooms = Value(s).rooms
                              /\ more = With(Value(s).rooms, id, in)
    OBVIOUS
  <1>4. /\ k \in DOMAIN game.values /\ DOMAIN game'.values = DOMAIN game.values
        /\ game'.values[k].rooms = more /\ rooms = game.values[k].rooms
        /\ \A h \in DOMAIN game.values \ {k} : game'.values[h].rooms = game.values[h].rooms
    BY <1>2, <1>3, RoomsAre DEF Value
  <1>5. /\ DOMAIN more = DOMAIN rooms \cup {id} /\ more[id] = in
        /\ \A i \in DOMAIN rooms \ {id} : more[i] = rooms[i]
    BY <1>3 DEF With
  <1>6. \A h \in DOMAIN game.values : id \notin DOMAIN game.values[h].rooms
    BY <1>1, <1>2, KnownRooms DEF RoomsGood
  <1>7. RoomsDistinct'
    <2>. SUFFICES ASSUME NEW h \in DOMAIN game.values, NEW l \in DOMAIN game.values,
                         NEW i \in DOMAIN game'.values[h].rooms \cap DOMAIN game'.values[l].rooms
                  PROVE  h = l
      BY <1>4 DEF RoomsDistinct
    <2>1. \A m \in DOMAIN game.values : i \in DOMAIN game'.values[m].rooms =>
             i \in DOMAIN game.values[m].rooms \/ (i = id /\ m = k)
      BY <1>4, <1>5
    <2>. QED  BY <1>6, <2>1 DEF RoomsGood, RoomsDistinct
  <1>8. ASSUME NEW u, NEW h, NEW i, Inside(u, h, i)'
        PROVE  Inside(u, h, i) \/ (h = k /\ i = id /\ u \in in)
    BY <1>4, <1>5, <1>8 DEF Inside
  <1>9. ASSUME NEW u \in Users, <<"room", u>> \notin hist'.clashed, Placed(u)
        PROVE  Placed(u)'
    <2>1. CASE u \notin in
      <3>1. Leaves(u)
        BY <1>8, <2>1 DEF Leaves
      <3>2. CASE ~RoomReq(s, u)
        BY <1>1, <1>2, <1>9, <3>1, <3>2, PlacedAside
      <3>3. CASE RoomReq(s, u)
        <4>1. Quits(s) /\ Now(r) \notin StoreCalls
          BY <1>1, <1>2, <2>1, <3>3 DEF RoomReq, StoreCalls
        <4>. QED  BY <1>1, <1>9, <3>1, <3>3, <4>1, PlacedQuits
      <3>. QED  BY <3>2, <3>3
    <2>2. CASE u \in in
      <3>1. u = r.uid /\ Moves(s, "storeRoom") /\ reqs'[s].n = id
        BY <1>2, <2>2
      <3>2. RoomReq(s, u)
        <4>1. r.op = "CreateRoom"
          BY <1>1, PlayerIs, WhoCalls DEF Plays
        <4>. QED  BY <1>1, <3>1, <4>1 DEF RoomReq, RoomOps
      <3>3. \A h, i : ~Inside(u, h, i)
        BY <1>1, <1>9, <3>2 DEF Placed
      <3>4. \A h, i : Inside(u, h, i)' => h = k /\ i = id
        BY <1>8, <3>3
      <3>5. GamesWait(s) /\ RoomReq(s, u)' /\ Now(reqs[s])' = "storeRoom"
        BY <1>1, <3>1, <3>2, OthersAreGames DEF Moves, RoomReq, Busy, Now
      <3>6. Placing(s, u)' /\ "storeRoom" \in StoreCalls
        BY <3>1, <3>4, <3>5 DEF Placing, UnionCalls, StoreCalls
      <3>. QED  BY <1>1, <1>9, <3>2, <3>4, <3>5, <3>6, PlacedAlone
    <2>. QED  BY <2>1, <2>2
  <1>. QED  BY <1>7, <1>9 DEF Settles

\* A user is let into a room: he was in no other.
LEMMA EnterSettles ==
    ASSUME NEW s, Plays(s), JoinRoom(s) \/ QuickJoin(s), ~GamePanics, RoomsGood,
           hist' = Noted(s)
    PROVE  Settles
  <1>. DEFINE r == reqs[s]
  <1>1. /\ Now(r) \in {"joinRoom", "quickJoin"} /\ s \in Slots /\ s \in Busy
        /\ \/ Quits(s) /\ Still
           \/ \E h, id : Comes(s, h, id) /\ (Now(r) = "joinRoom" => id = r.n)
    BY DoesEnter DEF Plays, Busy
  <1>2. Now(r) \notin StoreCalls
    BY <1>1 DEF StoreCalls
  <1>3. CASE Quits(s) /\ Still
    <2>1. Fewer /\ session' = session
      BY <1>3, SameRoomsFewer DEF Still
    <2>2. ASSUME NEW u \in Users, <<"room", u>> \notin hist'.clashed, Placed(u)
          PROVE  Placed(u)'
      <3>1. Leaves(u)
        BY <2>1, FewerLeave
      <3>. QED  BY <1>1, <1>2, <1>3, <2>1, <2>2, <3>1, PlacedAside, PlacedQuits
    <2>. QED  BY <2>1, <2>2, FewerLeave DEF Settles, RoomsGood
  <1>4. ASSUME NEW h, NEW id, Comes(s, h, id), Now(r) = "joinRoom" => id = r.n
        PROVE  Settles
    <2>1. /\ h \in DOMAIN game.values /\ id \in DOMAIN game.values[h].rooms
          /\ reqs'[s].n = id /\ session' = session
      BY <1>4 DEF Comes, Elsewhere
    <2>2. PICK x \in StoreCalls : Moves(s, x)
      BY <1>4 DEF Comes, StoreCalls
    <2>3. /\ DOMAIN game'.values = DOMAIN game.values
          /\ \A k \in DOMAIN game.values : DOMAIN game'.values[k].rooms = DOMAIN game.values[k].rooms
          /\ \A k \in DOMAIN game.values : \A i \in DOMAIN game.values[k].rooms :
                game'.values[k].rooms[i] \subseteq
                   game.values[k].rooms[i] \cup (IF k = h /\ i = id THEN {r.uid} ELSE {})
      <3>1. CASE game' = game
        BY <3>1
      <3>2. CASE RoomsSet(h, [game.values[h].rooms EXCEPT ![id] = @ \cup {r.uid}])
        <4>1. PICK more : more = [game.values[h].rooms EXCEPT ![id] = @ \cup {r.uid}]
          OBVIOUS
        <4>2. /\ DOMAIN more = DOMAIN game.values[h].rooms
              /\ more[id] = game.values[h].rooms[id] \cup {r.uid}
              /\ \A i \in DOMAIN more \ {id} : more[i] = game.values[h].rooms[i]
          BY <2>1, <4>1
        <4>3. /\ DOMAIN game'.values = DOMAIN game.values /\ game'.values[h].rooms = more
              /\ \A k \in DOMAIN game.values \ {h} :
                    game'.values[k].rooms = game.values[k].rooms
          BY <3>2, <4>1, RoomsAre
        <4>. QED  BY <2>1, <4>2, <4>3
      <3>. QED  BY <1>4, <3>1, <3>2 DEF Comes
    <2>4. RoomsDistinct'
      BY <2>3 DEF RoomsGood, RoomsDistinct
    <2>5. ASSUME NEW u, NEW k, NEW i, Inside(u, k, i)'
          PROVE  Inside(u, k, i) \/ (k = h /\ i = id /\ u = r.uid)
      BY <2>3, <2>5 DEF Inside
    <2>6. ASSUME NEW u \in Users, <<"room", u>> \notin hist'.clashed, Placed(u)
          PROVE  Placed(u)'
      <3>1. CASE u # r.uid
        <4>1. Leaves(u) /\ ~RoomReq(s, u)
          BY <2>5, <3>1 DEF Leaves, RoomReq
        <4>. QED  BY <2>1, <2>2, <2>6, <4>1, PlacedAside
      <3>2. CASE u = r.uid
        <4>1. RoomReq(s, u)
          <5>1. r.op \in {"JoinRoom", "QuickJoin"}
            BY <1>1, PlayerIs, WhoCalls DEF Plays
          <5>. QED  BY <1>1, <3>2, <5>1 DEF RoomReq, RoomOps
        <4>2. ASSUME NEW k, NEW i, Inside(u, k, i)
              PROVE  k = h /\ i = id
          <5>1. Now(r) = "joinRoom"
            BY <1>1, <2>6, <4>1, <4>2 DEF Placed
          <5>2. i = id
            BY <1>1, <1>4, <2>6, <4>1, <4>2, <5>1 DEF Placed
          <5>. QED  BY <2>1, <4>2, <5>2 DEF Inside, RoomsGood, RoomsDistinct
        <4>3. \A k, i : Inside(u, k, i)' => k = h /\ i = id
          BY <2>5, <4>2
        <4>4. GamesWait(s) /\ RoomReq(s, u)' /\ Now(reqs[s])' = x
          BY <1>1, <2>2, <4>1, OthersAreGames DEF Moves, RoomReq, Busy, Now
        <4>5. Placing(s, u)'
          BY <2>1, <2>2, <4>3, <4>4 DEF Placing, UnionCalls, StoreCalls
        <4>. QED  BY <1>1, <2>2, <2>6, <4>1, <4>3, <4>4, <4>5, PlacedAlone
      <3>. QED  BY <3>1, <3>2
    <2>. QED  BY <2>4, <2>6 DEF Settles
  <1>. QED  BY <1>1, <1>3, <1>4

\* A user's session is told his room.
LEMMA StoreSettles ==
    ASSUME NEW s, Plays(s), StoreRoom(s) \/ StoreServer(s), RoomsGood, hist' = Noted(s)
    PROVE  Settles
  <1>. DEFINE r == reqs[s]
  <1>1. /\ Now(r) \in StoreCalls /\ Proceeds(s) /\ game' = game
        /\ IF Now(r) = "storeRoom" THEN session' = session
           ELSE session' = [session EXCEPT ![r.uid] = r.n]
    BY DoesStore
  <1>2. Fewer /\ s \in Slots /\ s \in Busy /\ r.op \in RoomOps
    <2>1. r.op \in {"CreateRoom", "QuickJoin", "JoinRoom"}
      BY <1>1, PlayerIs, WhoCalls DEF Plays
    <2>. QED  BY <1>1, <2>1, SameRoomsFewer DEF Plays, Busy, RoomOps
  <1>3. Quits(s) \/ Passes(s, NextOf(s))
    BY <1>1 DEF Proceeds
  <1>4. ASSUME NEW u \in Users, <<"room", u>> \notin hist'.clashed, Placed(u)
        PROVE  Placed(u)'
    <2>1. Leaves(u)
      BY <1>2, FewerLeave
    <2>2. CASE u # r.uid
      <3>1. ~RoomReq(s, u) /\ session'[u] = session[u]
        BY <1>1, <2>2 DEF RoomReq, RoomsGood
      <3>. QED  BY <1>3, <1>4, <2>1, <3>1, PlacedAside DEF Passes
    <2>3. CASE u = r.uid
      <3>1. RoomReq(s, u)
        BY <1>2, <2>3 DEF RoomReq
      <3>2. \A h, i : Inside(u, h, i)' => i = r.n
        BY <1>1, <1>2, <1>4, <2>1, <3>1 DEF Placed, Leaves
      <3>3. \A h, k, i, j : Inside(u, h, i)' /\ Inside(u, k, j)' => h = k /\ i = j
        BY <1>4, <2>1 DEF Placed, Leaves
      <3>4. GamesWait(s)
        BY <1>3, OthersAreGames DEF Quits, Passes, Moves
      <3>5. CASE Now(r) = "storeRoom"
        <4>1. Passes(s, "storeServer")
          BY <1>1, <3>5 DEF Proceeds, NextOf, NextCall
        <4>2. Now(reqs[s])' = "storeServer" /\ reqs'[s].n = r.n /\ RoomReq(s, u)'
          BY <1>2, <3>1, <4>1 DEF Passes, Moves, RoomReq, Busy, Now
        <4>3. Placing(s, u)' /\ "storeServer" \in StoreCalls
          BY <3>2, <4>2 DEF Placing, UnionCalls, StoreCalls
        <4>. QED  BY <1>2, <1>4, <3>1, <3>3, <3>4, <4>2, <4>3, PlacedAlone
      <3>6. CASE Now(r) = "storeServer"
        <4>1. session'[u] = r.n
          BY <1>1, <2>3, <3>6 DEF RoomsGood
        <4>2. \A h, i : Inside(u, h, i)' => session'[u] = i
          BY <3>2, <4>1
        <4>3. NextOf(s) \in {"end", "panicGame"}
          BY <3>6 DEF NextOf, NextCall
        <4>4. RoomReq(s, u)' => Placing(s, u)'
          <5>1. CASE Quits(s)
            BY <5>1 DEF Quits, RoomReq, Busy
          <5>2. CASE ~Quits(s)
            <6>1. Now(reqs[s])' \in {"end", "panicGame"}
              BY <1>3, <4>3, <5>2 DEF Passes, Moves, Now
            <6>. QED  BY <6>1 DEF Placing, UnionCalls, StoreCalls
          <5>. QED  BY <5>1, <5>2
        <4>. QED  BY <1>2, <1>4, <3>1, <3>3, <3>4, <4>2, <4>4, PlacedAlone
      <3>. QED  BY <1>1, <3>5, <3>6 DEF StoreCalls
    <2>. QED  BY <2>2, <2>3
  <1>. QED  BY <1>2, <1>4, FewerLeave DEF Settles, RoomsGood

\* A user leaves his room, or a room is dismissed.
LEMMA LeaveSettles ==
    ASSUME NEW s, Plays(s), Leave(s) \/ Dismiss(s), RoomsGood, hist' = Noted(s)
    PROVE  Settles
  <1>. DEFINE r == reqs[s]
  <1>0. ASSUME NEW h, NEW rooms, RoomsSet(h, rooms),
               /\ DOMAIN rooms \subseteq DOMAIN game.values[h].rooms
               /\ \A i \in DOMAIN rooms : rooms[i] \subseteq game.values[h].rooms[i]
        PROVE  Fewer
    BY <1>0, RoomsAre DEF Fewer
  <1>1. Now(r) \in {"leave", "dismiss"} /\ Quits(s) /\ session' = session /\ Fewer
    <2>1. CASE Leave(s)
      <3>1. Now(r) = "leave" /\ Quits(s) /\ session' = session
        BY <2>1, DoesLeave
      <3>2. CASE game' = game
        BY <3>1, <3>2, SameRoomsFewer
      <3>3. CASE game' # game
        <4>1. PICK h \in DOMAIN game.values :
                 LET rooms == game.values[h].rooms
                     left == rooms[r.sess] \ {r.uid}
                 IN /\ r.sess \in DOMAIN rooms
                    /\ RoomsSet(h, IF left = {} THEN Restrict(rooms, DOMAIN rooms \ {r.sess})
                                   ELSE [rooms EXCEPT ![r.sess] = left])
          BY <2>1, <3>3, DoesLeave
        <4>2. PICK rooms, sess : rooms = game.values[h].rooms /\ sess = r.sess
          OBVIOUS
        <4>3. PICK more : /\ RoomsSet(h, more)
                          /\ \/ more = Restrict(rooms, DOMAIN rooms \ {sess})
                             \/ more = [rooms EXCEPT ![sess] = rooms[sess] \ {r.uid}]
          BY <4>1, <4>2
        <4>4. /\ DOMAIN more \subseteq DOMAIN rooms
              /\ \A i \in DOMAIN more : more[i] \subseteq rooms[i]
          BY <4>3 DEF Restrict
        <4>. QED  BY <1>0, <3>1, <4>2, <4>3, <4>4
      <3>. QED  BY <3>2, <3>3
    <2>2. CASE Dismiss(s)
      <3>1. Now(r) = "dismiss" /\ Quits(s) /\ session' = session
        BY <2>2, DoesDismiss
      <3>2. CASE game' = game
        BY <3>1, <3>2, SameRoomsFewer
      <3>3. CASE game' # game
        <4>1. PICK k, rooms, n : k = r.handle /\ rooms = Value(s).rooms /\ n = r.n
          OBVIOUS
        <4>2. RoomsSet(k, Restrict(rooms, DOMAIN rooms \ {n})) /\ rooms = game.values[k].rooms
          BY <2>2, <3>3, <4>1, DoesDismiss DEF Value
        <4>3. PICK more : more = Restrict(rooms, DOMAIN rooms \ {n})
          OBVIOUS
        <4>4. /\ DOMAIN more \subseteq DOMAIN rooms
              /\ \A i \in DOMAIN more : more[i] \subseteq rooms[i]
          BY <4>3 DEF Restrict
        <4>. QED  BY <1>0, <3>1, <4>2, <4>3, <4>4
      <3>. QED  BY <3>2, <3>3
    <2>. QED  BY <2>1, <2>2
  <1>2. s \in Slots /\ Now(r) \notin StoreCalls
    BY <1>1 DEF Plays, Busy, StoreCalls
  <1>3. ASSUME NEW u \in Users, <<"room", u>> \notin hist'.clashed, Placed(u)
        PROVE  Placed(u)'
    <2>1. Leaves(u) /\ session'[u] = session[u]
      BY <1>1, FewerLeave
    <2>2. CASE ~RoomReq(s, u)
      BY <1>1, <1>3, <2>1, <2>2, PlacedAside
    <2>3. CASE RoomReq(s, u)
      BY <1>1, <1>2, <1>3, <2>1, <2>3, PlacedQuits
    <2>. QED  BY <2>2, <2>3
  <1>. QED  BY <1>1, <1>3, FewerLeave DEF Settles, RoomsGood

\* The calls of the game server.
LEMMA GameSettles ==
    ASSUME NEW s, Plays(s), GameStep(s), ~GamePanics, Kept, RoomsGood, hist' = Noted(s)
    PROVE  Settles
  <1>1. CASE UnionStep(s)
    BY <1>1, UnionSettles
  <1>2. CASE RoomStep(s)
    BY <1>2, ReadSettles, CreateSettles, EnterSettles, StoreSettles, LeaveSettles,
       SettingSettles DEF RoomStep
  <1>3. CASE SettingStep(s)
    BY <1>3, SettingSettles, FaultSettles DEF SettingStep
  <1>. QED  BY <1>1, <1>2, <1>3, PlayerSteps

\* The hall knows no rooms.
LEMMA HallSettles ==
    ASSUME NEW s, Works(s), SharedStep(s) \/ HallStep(s), game' = game, session' = session,
           RoomsDistinct
    PROVE  RoomsDistinct' /\ \A u : Placed(u) => Placed(u)'
  <1>1. /\ GamesWait(s) /\ reqs[s].op \notin GameOps /\ s \in Slots
        /\ s \in Busy' => reqs'[s].op \notin GameOps
    BY HallStill DEF Works, Busy
  <1>2. RoomOps \subseteq GameOps
    BY OpsByName DEF RoomOps
  <1>3. Fewer
    BY SameRoomsFewer
  <1>4. \A u : Leaves(u) /\ ~RoomReq(s, u) /\ ~RoomReq(s, u)'
    BY <1>1, <1>2, <1>3, FewerLeave DEF RoomReq
  <1>. QED  BY <1>1, <1>3, <1>4, FewerLeave, PlacedStays

\* The game server panics: nobody is in a room.
LEMMA PanicSettles ==
    ASSUME NEW s, Plays(s), GamePanics
    PROVE  RoomsDistinct' /\ \A u : Placed(u)'
  <1>1. DOMAIN game'.values = {} /\ \A p \in Busy' : reqs'[p].op \notin GameOps
    BY PanicLoses
  <1>2. RoomOps \subseteq GameOps
    BY OpsByName DEF RoomOps
  <1>3. \A u, p : ~RoomReq(p, u)'
    BY <1>1, <1>2 DEF RoomReq
  <1>. QED  BY <1>1, <1>3 DEF RoomsDistinct, Placed, Inside

\* Every user keeps his session.
LEMMA SessionsStay ==
    ASSUME NEW s, Plays(s), GameStep(s), ~GamePanics
    PROVE  DOMAIN session' = DOMAIN session
  <1>1. CASE GameFault(s)
    BY <1>1 DEF GameFault
  <1>2. CASE ~GameFault(s)
    <2>1. CASE UnionStep(s)
      BY <1>2, <2>1 DEF UnionStep, GetUnion, KeepUnion, InitUnion, InMemory
    <2>2. CASE RoomStep(s)
      <3>1. CASE FindUserData(s) \/ InRoom(s) \/ Proxy(s) \/ CheckHongBao(s)
        BY <3>1, DoesRead DEF Still
      <3>2. CASE Rejoin(s) \/ CreateRoom(s)
        BY <3>2, DoesRejoin, DoesCreate DEF Still, Elsewhere
      <3>3. CASE JoinRoom(s) \/ QuickJoin(s)
        BY <3>3, DoesEnter DEF Still, Comes, Elsewhere
      <3>4. CASE StoreRoom(s) \/ StoreServer(s)
        BY <3>4, DoesStore
      <3>5. CASE Leave(s) \/ Dismiss(s)
        BY <3>5, DoesLeave, DoesDismiss
      <3>. QED  BY <2>2, <3>1, <3>2, <3>3, <3>4, <3>5 DEF RoomStep
    <2>3. CASE SettingStep(s)
      BY <1>2, <2>3, DoesKeepUid, DoesCredit, DoesStoreUid, DoesSetting, DoesStoreSetting,
         DoesCache DEF SettingStep, Elsewhere
    <2>. QED  BY <2>1, <2>2, <2>3, PlayerSteps
  <1>. QED  BY <1>1, <1>2

\* A message arrives, with the room of the session it came from.
LEMMA ArriveSettles ==
    ASSUME Shaped, MemInv, NEW s \in Slots, Arrive(s), start \in DOMAIN Starts, RoomsDistinct
    PROVE  RoomsDistinct' /\ \A u : Placed(u) => Placed(u)'
  <1>1. PICK c \in Starts[start].calls : reqs' = [reqs EXCEPT ![s] = NewRequest(c)]
    BY DEF Arrive
  <1>2. PICK k : k = NewRequest(c)
    OBVIOUS
  <1>3. /\ k.op \in Ops /\ k.sess = session[k.uid] /\ k.todo = StepsOf(k.op) /\ k # Idle
        /\ k.op \in HallOps => Now(k) \in HallCalls
        /\ k.op \in GameOps => Now(k) \in {"getUnion", "findUser", "proxy", "leave"}
        /\ k.op \in GameOps /\ Now(k) = "getUnion" => k.op \notin RoomOps
    BY <1>2, NewOnPath
  <1>4. /\ reqs' = [reqs EXCEPT ![s] = k] /\ game' = game /\ session' = session
        /\ reqs[s] = Idle
    BY <1>1, <1>2 DEF Arrive
  <1>5. OthersWait(s) /\ reqs'[s] = k /\ GamesWait(s)
    BY <1>4, OthersAreGames DEF Shaped, OthersWait
  <1>6. k.op = "JoinRoom" => Now(k) = "proxy"
    <2>1. StepsOf("JoinRoom") = JoinRoomSteps
      BY OpsByName DEF StepsOf, GameSteps
    <2>. QED  BY <1>3, <2>1 DEF Now, JoinRoomSteps
  <1>7. Fewer /\ \A u : Leaves(u)
    BY <1>4, SameRoomsFewer, FewerLeave
  <1>8. ASSUME NEW u, Placed(u)
        PROVE  Placed(u)'
    <2>1. ~RoomReq(s, u)
      BY <1>4 DEF RoomReq, Busy
    <2>2. CASE ~RoomReq(s, u)'
      BY <1>4, <1>5, <1>7, <1>8, <2>1, <2>2, PlacedStays
    <2>3. CASE RoomReq(s, u)'
      <3>1. k.op \in RoomOps /\ k.uid = u /\ Now(reqs[s])' = Now(k)
        BY <1>5, <2>3 DEF RoomReq, Now
      <3>2. Now(k) \in {"findUser", "proxy", "leave"}
        BY <1>3, <3>1, OpsByName DEF RoomOps
      <3>3. Placing(s, u)'
        BY <1>3, <1>4, <1>5, <1>6, <3>1, <3>2 DEF Placing, UnionCalls, StoreCalls
      <3>4. ASSUME NEW p \in Slots, RoomReq(p, u)', p # s
            PROVE  Placing(p, u)'
        <4>1. RoomReq(p, u) /\ reqs'[p] = reqs[p]
          BY <1>5, <3>4, RoomsWait
        <4>2. Placing(p, u) /\ Now(reqs[p])' = Now(reqs[p])
          BY <1>8, <4>1 DEF Placed, Placing, Now
        <4>. QED  BY <1>4, <1>7, <4>1, <4>2 DEF Placing, Inside
      <3>5. ASSUME NEW h, NEW i, Inside(u, h, i)'
            PROVE  \/ session'[u] = i
                   \/ \E p \in Slots : RoomReq(p, u)' /\ Now(reqs[p])' \in StoreCalls
        <4>1. CASE session[u] # i
          <5>1. Inside(u, h, i)
            BY <1>7, <3>5 DEF Leaves
          <5>2. PICK p \in Slots : RoomReq(p, u) /\ Now(reqs[p]) \in StoreCalls
            BY <1>8, <4>1, <5>1 DEF Placed
          <5>3. RoomReq(p, u)' /\ reqs'[p] = reqs[p]
            BY <1>5, <2>1, <5>2, RoomsWait
          <5>. QED  BY <5>2, <5>3 DEF Now
        <4>. QED  BY <1>4, <4>1
      <3>6. \A h, j, i, l : Inside(u, h, i)' /\ Inside(u, j, l)' => h = j /\ i = l
        BY <1>7, <1>8 DEF Placed, Leaves
      <3>. QED  BY <3>3, <3>4, <3>5, <3>6 DEF Placed, Placing
    <2>. QED  BY <2>2, <2>3
  <1>. QED  BY <1>7, <1>8, FewerLeave

\* Nothing happens.
LEMMA StutterSettles ==
    ASSUME UNCHANGED vars
    PROVE  /\ RoomsDistinct <=> RoomsDistinct'
           /\ \A u : Placed(u) <=> Placed(u)'
  <1>1. game' = game /\ reqs' = reqs /\ session' = session
    BY DEF vars
  <1>. QED  BY <1>1 DEF RoomsDistinct, Placed, Inside, RoomReq, Busy, Now

\* While no union was loaded twice, no room is in two unions; and a user of
\* whom no request failed, and no two requests about rooms met, is in one room
\* at most, which his session names once his request has told it, and which a
\* request of his that goes on to a room is about (CreateRoom, JoinRoom and
\* QuickJoin of game/handler/union.go and union_manager.go).
THEOREM UsersStayPlaced == Spec => []RoomInv
  <1>1. Init => RoomInv
    <2>1. Init => Busy = {} /\ DOMAIN game.values = {} /\ DOMAIN session = Users
      BY DEF Init, Busy, NewUnionManager
    <2>. QED  BY <2>1 DEF RoomInv, RoomsDistinct, Placed, Inside, RoomReq
  <1>2. OwnInv /\ MemInv /\ start \in DOMAIN Starts /\ RoomInv /\ [Next]_vars
          => RoomInv' /\ (start \in DOMAIN Starts)'
    <2>. SUFFICES ASSUME OwnInv, MemInv, start \in DOMAIN Starts, RoomInv, [Next]_vars
                  PROVE  RoomInv' /\ start' = start
      OBVIOUS
    <2>1. start' = start /\ failed \subseteq failed' /\ hist.clashed \subseteq hist'.clashed
      BY EveryStep, ExcusesGrow
    <2>2. DOMAIN session' = DOMAIN session
      <3>1. \A s \in Slots : Arrive(s) => session' = session
        BY DEF Arrive
      <3>2. UNCHANGED vars => session' = session
        BY DEF vars
      <3>3. \A s \in Busy : Plays(s) /\ GamePanics => session' = session
        BY PanicLoses
      <3>. QED  BY <3>1, <3>2, <3>3, EveryStep, SessionsStay
    <2>3. ASSUME AllSingle'
          PROVE  /\ RoomsDistinct'
                 /\ \A u \in Users \ failed' : <<"room", u>> \notin hist'.clashed => Placed(u)'
      <3>1. CASE \E s \in Busy : Plays(s) /\ GamePanics
        BY <3>1, PanicSettles
      <3>2. CASE Kept
        <4>1. AllSingle /\ RoomsDistinct
          BY <2>3, <3>2, SingleStays DEF Kept, RoomInv
        <4>2. \A u \in Users \ failed' : <<"room", u>> \notin hist'.clashed => Placed(u)
          BY <2>1, <4>1 DEF RoomInv
        <4>3. ASSUME NEW s \in Slots, Arrive(s)
              PROVE  RoomsDistinct' /\ \A u : Placed(u) => Placed(u)'
          BY <4>1, <4>3, ArriveSettles DEF OwnInv
        <4>4. UNCHANGED vars => RoomsDistinct' /\ \A u : Placed(u) => Placed(u)'
          BY <4>1, StutterSettles
        <4>5. ASSUME NEW s \in Busy, Works(s), SharedStep(s) \/ HallStep(s), game' = game,
                     session' = session
              PROVE  RoomsDistinct' /\ \A u : Placed(u) => Placed(u)'
          BY <4>1, <4>5, HallSettles
        <4>6. ASSUME NEW s \in Busy, hist' = Noted(s), Plays(s), GameStep(s), ~GamePanics
              PROVE  Settles
          <5>1. RoomsGood
            BY <2>3, <4>1 DEF RoomsGood, RoomInv
          <5>. QED  BY <3>2, <4>6, <5>1, GameSettles
        <4>7. \/ RoomsDistinct' /\ \A u : Placed(u) => Placed(u)'
              \/ Settles
              \/ \E s \in Busy : Plays(s) /\ GamePanics
          BY <4>3, <4>4, <4>5, <4>6, EveryStep
        <4>. QED  BY <3>1, <4>2, <4>7, PanicSettles DEF Settles
      <3>. QED  BY <3>1, <3>2, EveryStep
    <2>. QED  BY <2>1, <2>2, <2>3 DEF RoomInv
  <1>3. Init => start \in DOMAIN Starts
    BY DEF Init
  <1>. QED  BY <1>1, <1>2, <1>3, LocksHaveOneOwner, MemoryStaysShaped, PTL DEF Spec

\* A user is in one room at most, unless two of his messages about rooms met,
\* one failed, or a union was loaded twice.
THEOREM UsersAreInOneRoom == Spec => []OneRoomEach
  <1>1. MemInv /\ RoomInv => OneRoomEach
    <2>. SUFFICES ASSUME MemInv, RoomInv, NEW u \in Users, <<"room", u>> \notin hist.clashed,
                         u \notin failed, ~\E v \in ToSet(game.values) : Doubled(v.id)
                  PROVE  ~(Cardinality(RoomsOf(u)) > 1)
      BY DEF OneRoomEach
    <2>1. AllSingle
      <3>. SUFFICES ASSUME NEW h \in DOMAIN game.values, NEW k \in DOMAIN game.values,
                           game.values[h].id = game.values[k].id
                    PROVE  h = k
        BY DEF AllSingle
      <3>1. game.values[h] \in ToSet(game.values)
        BY DEF ToSet
      <3>2. Single(game.values[h].id)
        BY <3>1, SingleUnlessDoubled
      <3>. QED  BY <3>2 DEF Single
    <2>2. Placed(u)
      BY <2>1 DEF RoomInv
    <2>3. \A p \in RoomsOf(u) : \E h, i : p = <<h, i>> /\ Inside(u, h, i)
      BY DEF RoomsOf, RoomsIn, Inside
    <2>4. \A p, q \in RoomsOf(u) : p = q
      BY <2>2, <2>3 DEF Placed
    <2>. QED  BY <2>4, AtMostOne
  <1>. QED  BY <1>1, MemoryStaysShaped, UsersStayPlaced, PTL
=============================================================================
