------------------------- MODULE ClubsMembersProofs -------------------------
(***************************************************************************)
(* What is proved of the ids of unions and entries, of who is in which     *)
(* union, and of the types of documents, requests and memory, for any      *)
(* users, documents, requests and number of requests at a time.            *)
(*                                                                         *)
(* The handlers that make unions and members (CreateUnion, JoinUnion,      *)
(* InviteJoinUnion, ExitUnion) are a fixed list of calls each; a request   *)
(* is at one stage of it.  Between two calls the documents are not in      *)
(* order: an id is drawn and not used yet, a member is counted and has no  *)
(* entry, an entry is pulled and still counted, users are below one who    *)
(* left.  The invariants say what each stage leaves to be done.            *)
(***************************************************************************)
EXTENDS ClubsMemoryProofs, ClubsScoreProofs

-----------------------------------------------------------------------------
(* Stages. *)

MemberOps == {"CreateUnion", "JoinUnion", "InviteJoinUnion", "ExitUnion"}
Joins == {"JoinUnion", "InviteJoinUnion"}

\* The calls of the other handlers of the hall.
OtherCalls == {"findUser", "findUnion", "findOther", "lock", "update", "debit", "credit",
               "record", "recordOther", "setPartner", "unLockSelf", "unLockOther", "panic"}

\* The place of the next call in the handler, when these calls are left.
Place(op, q) == Len(HallSteps[op]) - Len(q) + 1
Left(op, q) ==
    /\ IsSeq(q) /\ Len(q) \in 1 .. Len(HallSteps[op])
    /\ \A i \in 2 .. Len(q) : q[i] = HallSteps[op][Place(op, q) + i - 1]
    /\ \/ q[1] = HallSteps[op][Place(op, q)]
       \/ q[1] = "set" /\ HallSteps[op][Place(op, q)] = "exists"

Stage(r) == Place(r.op, r.todo)

\* A request of the hall has the rest of its handler before it, and a counter
\* it increments exists.  CreateUnion knows the union's id once it drew it.
ClubWay(r) ==
    /\ r.op \in MemberOps =>
          /\ Left(r.op, r.todo) /\ r.union \in Nat /\ r.id \in Nat
          /\ Now(r) = "incr" => db.counters[Key(r)] # Absent
    /\ r.op = "CreateUnion" => (r.union = 0 <=> Stage(r) <= 4)
    /\ r.op \in HallOps \ MemberOps => r.todo \in Seq(OtherCalls)

\* A list of entries, the lists of the users, and the numbers in use.
Rows(q) ==
    /\ IsSeq(q)
    /\ \A i \in DOMAIN q : DOMAIN q[i] = EntryFields /\ q[i].union \in Nat /\ q[i].invite \in Nat
CountersAre(c) == DOMAIN c = Counters /\ \A k \in Counters : c[k] \in Nat \cup {Absent}

DocWays ==
    /\ \A u \in Users : Rows(Info(u))
    /\ \A i \in DOMAIN db.unions : db.unions[i].id \in Nat /\ db.unions[i].curMember \in Int
    /\ CountersAre(db.counters)
WaysInv == DocWays /\ \A s \in Busy : ClubWay(reqs[s])

-----------------------------------------------------------------------------
(* Ids. *)

\* The last number drawn.
Top(k) == IF db.counters[k] = Absent THEN Begin(k) ELSE db.counters[k]

\* Requests that drew a union's id, and those that drew an entry's.
Creates(s) == s \in Busy /\ reqs[s].op = "CreateUnion" /\ Stage(reqs[s]) >= 5
Invites(s) ==
    /\ s \in Busy
    /\ \/ reqs[s].op = "CreateUnion" /\ Stage(reqs[s]) = 8
       \/ reqs[s].op \in Joins /\ Stage(reqs[s]) = 7

UnionsNumbered ==
    /\ \A i \in DOMAIN db.unions : db.unions[i].id <= Top("union")
    /\ \A i, j \in DOMAIN db.unions : db.unions[i].id = db.unions[j].id => i = j
    /\ \A s \in Slots : Creates(s) =>
          /\ reqs[s].union <= Top("union")
          /\ Stage(reqs[s]) = 5 => \A i \in DOMAIN db.unions : db.unions[i].id # reqs[s].union
    /\ \A s, t \in Slots :
          Creates(s) /\ Creates(t) /\ reqs[s].union = reqs[t].union => s = t

EntriesNumbered ==
    /\ \A u \in Users : \A i \in DOMAIN Info(u) : Info(u)[i].invite <= Top("invite")
    /\ \A u, v \in Users : \A i \in DOMAIN Info(u), j \in DOMAIN Info(v) :
          Info(u)[i].invite = Info(v)[j].invite => u = v /\ i = j
    /\ \A s \in Slots : Invites(s) =>
          /\ reqs[s].id <= Top("invite")
          /\ \A u \in Users : \A i \in DOMAIN Info(u) : Info(u)[i].invite # reqs[s].id
    /\ \A s, t \in Slots : Invites(s) /\ Invites(t) /\ reqs[s].id = reqs[t].id => s = t

Numbered == ~hist.reset => UnionsNumbered /\ EntriesNumbered

-----------------------------------------------------------------------------
(* The stages of each handler. *)

\* One list of calls after another.
LEMMA CallsAfter ==
    ASSUME NEW p \in Seq(HallCalls), NEW q \in Seq(HallCalls), NEW n \in Nat, NEW m \in Nat,
           Len(p) = n, Len(q) = m
    PROVE  /\ p \o q \in Seq(HallCalls) /\ Len(p \o q) = n + m
           /\ \A i \in 1 .. n : (p \o q)[i] = p[i]
           /\ \A i \in 1 .. m : (p \o q)[n + i] = q[i]
  <1>1. /\ p \o q \in Seq(HallCalls) /\ Len(p \o q) = Len(p) + Len(q)
        /\ \A i \in 1 .. Len(p) : (p \o q)[i] = p[i]
        /\ \A i \in 1 .. Len(q) : (p \o q)[Len(p) + i] = q[i]
    OBVIOUS
  <1>. QED  BY <1>1

\* The calls that are put together.
LEMMA CallLists ==
    /\ NextId \in Seq(HallCalls) /\ Len(NextId) = 2
    /\ NextId[1] = "exists" /\ NextId[2] = "incr"
    /\ \A x \in {"insertUnion", "addToSet", "push"} :
          <<x>> \in Seq(HallCalls) /\ Len(<<x>>) = 1 /\ <<x>>[1] = x
    /\ \A i \in 1 .. 8 : i \in Nat
  BY DEF NextId, HallCalls

\* The handlers call by call.
LEMMA CallsInOrder ==
    /\ LET q == HallSteps["CreateUnion"]
       IN /\ IsSeq(q) /\ Len(q) = 8 /\ q[1] = "findUser" /\ q[2] = "findOwned"
          /\ q[3] = "exists" /\ q[4] = "incr" /\ q[5] = "insertUnion" /\ q[6] = "exists"
          /\ q[7] = "incr" /\ q[8] = "addToSet"
    /\ LET q == HallSteps["JoinUnion"]
       IN /\ IsSeq(q) /\ Len(q) = 7 /\ q[1] = "findInviter" /\ q[2] = "findUnion"
          /\ q[3] = "findUser" /\ q[4] = "countMember" /\ q[5] = "exists" /\ q[6] = "incr"
          /\ q[7] = "push"
    /\ LET q == HallSteps["InviteJoinUnion"]
       IN /\ IsSeq(q) /\ Len(q) = 7 /\ q[1] = "findUnion" /\ q[2] = "findUser"
          /\ q[3] = "findOther" /\ q[4] = "countMember" /\ q[5] = "exists" /\ q[6] = "incr"
          /\ q[7] = "push"
    /\ LET q == HallSteps["ExitUnion"]
       IN /\ IsSeq(q) /\ Len(q) = 5 /\ q[1] = "findUnion" /\ q[2] = "findUser"
          /\ q[3] = "pull" /\ q[4] = "moveDownlines" /\ q[5] = "uncountMember"
  <1>1. ASSUME NEW q, q = CreateUnion
        PROVE  /\ IsSeq(q) /\ Len(q) = 8
               /\ q[1] = "findUser" /\ q[2] = "findOwned" /\ q[3] = "exists" /\ q[4] = "incr"
               /\ q[5] = "insertUnion" /\ q[6] = "exists" /\ q[7] = "incr"
               /\ q[8] = "addToSet"
    <2>. DEFINE p0 == <<"findUser", "findOwned">>
                p1 == p0 \o NextId
                p2 == p1 \o <<"insertUnion">>
                p3 == p2 \o NextId
                p4 == p3 \o <<"addToSet">>
    <2>1. /\ p0 \in Seq(HallCalls) /\ Len(p0) = 2
          /\ p0[1] = "findUser" /\ p0[2] = "findOwned"
      BY DEF HallCalls
    <2>. HIDE DEF p0
    <2>2. /\ NextId \in Seq(HallCalls) /\ Len(NextId) = 2 /\ 2 \in Nat /\ 2 \in Nat
      BY CallLists
    <2>3. /\ p1 \in Seq(HallCalls) /\ Len(p1) = 2 + 2
          /\ \A i \in 1 .. 2 : p1[i] = p0[i]
          /\ \A i \in 1 .. 2 : p1[2 + i] = NextId[i]
      BY <2>1, <2>2, CallsAfter, Zenon
    <2>. HIDE DEF p1
    <2>4. /\ p1 \in Seq(HallCalls) /\ Len(p1) = 4
          /\ p1[1] = "findUser" /\ p1[2] = "findOwned" /\ p1[3] = "exists" /\ p1[4] = "incr"
      BY <2>1, <2>3, CallLists
    <2>5. /\ <<"insertUnion">> \in Seq(HallCalls) /\ Len(<<"insertUnion">>) = 1 /\ 1 \in Nat /\ 4 \in Nat
      BY CallLists
    <2>6. /\ p2 \in Seq(HallCalls) /\ Len(p2) = 4 + 1
          /\ \A i \in 1 .. 4 : p2[i] = p1[i]
          /\ \A i \in 1 .. 1 : p2[4 + i] = <<"insertUnion">>[i]
      BY <2>4, <2>5, CallsAfter, Zenon
    <2>. HIDE DEF p2
    <2>7. /\ p2 \in Seq(HallCalls) /\ Len(p2) = 5
          /\ p2[1] = "findUser" /\ p2[2] = "findOwned" /\ p2[3] = "exists" /\ p2[4] = "incr"
          /\ p2[5] = "insertUnion"
      BY <2>4, <2>6, CallLists
    <2>8. /\ NextId \in Seq(HallCalls) /\ Len(NextId) = 2 /\ 2 \in Nat /\ 5 \in Nat
      BY CallLists
    <2>9. /\ p3 \in Seq(HallCalls) /\ Len(p3) = 5 + 2
          /\ \A i \in 1 .. 5 : p3[i] = p2[i]
          /\ \A i \in 1 .. 2 : p3[5 + i] = NextId[i]
      BY <2>7, <2>8, CallsAfter, Zenon
    <2>. HIDE DEF p3
    <2>10. /\ p3 \in Seq(HallCalls) /\ Len(p3) = 7
           /\ p3[1] = "findUser" /\ p3[2] = "findOwned" /\ p3[3] = "exists" /\ p3[4] = "incr"
           /\ p3[5] = "insertUnion" /\ p3[6] = "exists" /\ p3[7] = "incr"
      BY <2>7, <2>9, CallLists
    <2>11. /\ <<"addToSet">> \in Seq(HallCalls) /\ Len(<<"addToSet">>) = 1 /\ 1 \in Nat /\ 7 \in Nat
      BY CallLists
    <2>12. /\ p4 \in Seq(HallCalls) /\ Len(p4) = 7 + 1
           /\ \A i \in 1 .. 7 : p4[i] = p3[i]
           /\ \A i \in 1 .. 1 : p4[7 + i] = <<"addToSet">>[i]
      BY <2>10, <2>11, CallsAfter, Zenon
    <2>. HIDE DEF p4
    <2>13. /\ p4 \in Seq(HallCalls) /\ Len(p4) = 8
           /\ p4[1] = "findUser" /\ p4[2] = "findOwned" /\ p4[3] = "exists" /\ p4[4] = "incr"
           /\ p4[5] = "insertUnion" /\ p4[6] = "exists" /\ p4[7] = "incr" /\ p4[8] = "addToSet"
      BY <2>10, <2>12, CallLists
    <2>14. q = p4
      BY <1>1 DEF CreateUnion, p0, p1, p2, p3, p4
    <2>. QED  BY <2>13, <2>14 DEF IsSeq
  <1>2. ASSUME NEW q, q = JoinUnion
        PROVE  /\ IsSeq(q) /\ Len(q) = 7
               /\ q[1] = "findInviter" /\ q[2] = "findUnion" /\ q[3] = "findUser"
               /\ q[4] = "countMember" /\ q[5] = "exists" /\ q[6] = "incr" /\ q[7] = "push"
    <2>. DEFINE p0 == <<"findInviter", "findUnion", "findUser", "countMember">>
                p1 == p0 \o NextId
                p2 == p1 \o <<"push">>
    <2>1. /\ p0 \in Seq(HallCalls) /\ Len(p0) = 4
          /\ p0[1] = "findInviter" /\ p0[2] = "findUnion" /\ p0[3] = "findUser"
          /\ p0[4] = "countMember"
      BY DEF HallCalls
    <2>. HIDE DEF p0
    <2>2. /\ NextId \in Seq(HallCalls) /\ Len(NextId) = 2 /\ 2 \in Nat /\ 4 \in Nat
      BY CallLists
    <2>3. /\ p1 \in Seq(HallCalls) /\ Len(p1) = 4 + 2
          /\ \A i \in 1 .. 4 : p1[i] = p0[i]
          /\ \A i \in 1 .. 2 : p1[4 + i] = NextId[i]
      BY <2>1, <2>2, CallsAfter, Zenon
    <2>. HIDE DEF p1
    <2>4. /\ p1 \in Seq(HallCalls) /\ Len(p1) = 6
          /\ p1[1] = "findInviter" /\ p1[2] = "findUnion" /\ p1[3] = "findUser"
          /\ p1[4] = "countMember" /\ p1[5] = "exists" /\ p1[6] = "incr"
      BY <2>1, <2>3, CallLists
    <2>5. /\ <<"push">> \in Seq(HallCalls) /\ Len(<<"push">>) = 1 /\ 1 \in Nat /\ 6 \in Nat
      BY CallLists
    <2>6. /\ p2 \in Seq(HallCalls) /\ Len(p2) = 6 + 1
          /\ \A i \in 1 .. 6 : p2[i] = p1[i]
          /\ \A i \in 1 .. 1 : p2[6 + i] = <<"push">>[i]
      BY <2>4, <2>5, CallsAfter, Zenon
    <2>. HIDE DEF p2
    <2>7. /\ p2 \in Seq(HallCalls) /\ Len(p2) = 7
          /\ p2[1] = "findInviter" /\ p2[2] = "findUnion" /\ p2[3] = "findUser"
          /\ p2[4] = "countMember" /\ p2[5] = "exists" /\ p2[6] = "incr" /\ p2[7] = "push"
      BY <2>4, <2>6, CallLists
    <2>8. q = p2
      BY <1>2 DEF JoinUnion, p0, p1, p2
    <2>. QED  BY <2>7, <2>8 DEF IsSeq
  <1>3. ASSUME NEW q, q = InviteJoinUnion
        PROVE  /\ IsSeq(q) /\ Len(q) = 7
               /\ q[1] = "findUnion" /\ q[2] = "findUser" /\ q[3] = "findOther"
               /\ q[4] = "countMember" /\ q[5] = "exists" /\ q[6] = "incr" /\ q[7] = "push"
    <2>. DEFINE p0 == <<"findUnion", "findUser", "findOther", "countMember">>
                p1 == p0 \o NextId
                p2 == p1 \o <<"push">>
    <2>1. /\ p0 \in Seq(HallCalls) /\ Len(p0) = 4
          /\ p0[1] = "findUnion" /\ p0[2] = "findUser" /\ p0[3] = "findOther"
          /\ p0[4] = "countMember"
      BY DEF HallCalls
    <2>. HIDE DEF p0
    <2>2. /\ NextId \in Seq(HallCalls) /\ Len(NextId) = 2 /\ 2 \in Nat /\ 4 \in Nat
      BY CallLists
    <2>3. /\ p1 \in Seq(HallCalls) /\ Len(p1) = 4 + 2
          /\ \A i \in 1 .. 4 : p1[i] = p0[i]
          /\ \A i \in 1 .. 2 : p1[4 + i] = NextId[i]
      BY <2>1, <2>2, CallsAfter, Zenon
    <2>. HIDE DEF p1
    <2>4. /\ p1 \in Seq(HallCalls) /\ Len(p1) = 6
          /\ p1[1] = "findUnion" /\ p1[2] = "findUser" /\ p1[3] = "findOther"
          /\ p1[4] = "countMember" /\ p1[5] = "exists" /\ p1[6] = "incr"
      BY <2>1, <2>3, CallLists
    <2>5. /\ <<"push">> \in Seq(HallCalls) /\ Len(<<"push">>) = 1 /\ 1 \in Nat /\ 6 \in Nat
      BY CallLists
    <2>6. /\ p2 \in Seq(HallCalls) /\ Len(p2) = 6 + 1
          /\ \A i \in 1 .. 6 : p2[i] = p1[i]
          /\ \A i \in 1 .. 1 : p2[6 + i] = <<"push">>[i]
      BY <2>4, <2>5, CallsAfter, Zenon
    <2>. HIDE DEF p2
    <2>7. /\ p2 \in Seq(HallCalls) /\ Len(p2) = 7
          /\ p2[1] = "findUnion" /\ p2[2] = "findUser" /\ p2[3] = "findOther"
          /\ p2[4] = "countMember" /\ p2[5] = "exists" /\ p2[6] = "incr" /\ p2[7] = "push"
      BY <2>4, <2>6, CallLists
    <2>8. q = p2
      BY <1>3 DEF InviteJoinUnion, p0, p1, p2
    <2>. QED  BY <2>7, <2>8 DEF IsSeq
  <1>4. ASSUME NEW q, q = ExitUnion
        PROVE  /\ IsSeq(q) /\ Len(q) = 5 /\ q[1] = "findUnion" /\ q[2] = "findUser"
               /\ q[3] = "pull" /\ q[4] = "moveDownlines" /\ q[5] = "uncountMember"
    <2>1. ExitUnion \in Seq(HallCalls)
      BY DEF ExitUnion, HallCalls
    <2>. QED  BY <1>4, <2>1 DEF ExitUnion, IsSeq
  <1>5. /\ HallSteps["CreateUnion"] = CreateUnion /\ HallSteps["JoinUnion"] = JoinUnion
        /\ HallSteps["InviteJoinUnion"] = InviteJoinUnion
        /\ HallSteps["ExitUnion"] = ExitUnion
    BY DEF HallSteps
  <1>. QED  BY <1>1, <1>2, <1>3, <1>4, <1>5

\* The rest of a handler, after the next call.
LEMMA LeftGoes ==
    ASSUME NEW op \in MemberOps, NEW q, Left(op, q)
    PROVE  LET n == Place(op, q)
               L == HallSteps[op]
           IN /\ q # <<>> /\ n \in 1 .. Len(L) /\ Len(L) \in Nat
              /\ Head(q) = L[n] \/ (Head(q) = "set" /\ L[n] = "exists")
              /\ Tail(q) = <<>> <=> n = Len(L)
              /\ Tail(q) # <<>> => Left(op, Tail(q)) /\ Place(op, Tail(q)) = n + 1
              /\ L[n] = "exists" => /\ Left(op, <<"set">> \o Tail(q))
                                    /\ Place(op, <<"set">> \o Tail(q)) = n
                                    /\ <<"set">> \o Tail(q) # <<>>
  <1>. DEFINE L == HallSteps[op]
              n == Place(op, q)
              t == Tail(q)
              z == <<"set">> \o t
  <1>1. Len(L) \in Nat
    BY CallsInOrder DEF MemberOps
  <1>2. /\ n = Len(L) - Len(q) + 1 /\ IsSeq(q) /\ Len(q) \in 1 .. Len(L)
        /\ \A i \in 2 .. Len(q) : q[i] = L[n + i - 1]
        /\ \/ q[1] = L[n]
           \/ q[1] = "set" /\ L[n] = "exists"
    BY DEF Left, Place
  <1>3. \A p : Place(op, p) = Len(L) - Len(p) + 1
    BY DEF Place
  <1>4. PICK S : q \in Seq(S)
    BY <1>2 DEF IsSeq
  <1>. HIDE DEF L, n
  <1>5. /\ Len(q) \in Nat /\ Len(q) >= 1 /\ Len(q) <= Len(L) /\ n \in 1 .. Len(L)
    BY <1>1, <1>2
  <1>6. q # <<>> /\ Head(q) = q[1] /\ t \in Seq(S) /\ Len(t) = Len(q) - 1
    BY <1>4, <1>5
  <1>7. \A i \in 1 .. Len(t) : t[i] = q[i + 1]
    BY <1>4, <1>5
  <1>8. t = <<>> <=> Len(q) = 1
    BY <1>5, <1>6
  <1>. HIDE DEF t
  <1>9. ASSUME t # <<>>
        PROVE  Left(op, t) /\ Place(op, t) = n + 1
    <2>. DEFINE m == Place(op, t)
    <2>1. m = Len(L) - Len(t) + 1
      BY <1>3
    <2>. HIDE DEF m
    <2>2. m = n + 1 /\ Len(t) \in 1 .. Len(L)
      BY <1>1, <1>2, <1>5, <1>6, <1>8, <1>9, <2>1
    <2>3. ASSUME NEW i \in 1 .. Len(t)
          PROVE  t[i] = L[m + i - 1]
      <3>1. i + 1 \in 2 .. Len(q) /\ n + (i + 1) - 1 = m + i - 1
        BY <1>5, <1>6, <2>2
      <3>2. q[i + 1] = L[n + (i + 1) - 1]
        BY <1>2, <3>1
      <3>. QED  BY <1>7, <3>1, <3>2
    <2>4. t[1] = L[m] /\ \A i \in 2 .. Len(t) : t[i] = L[m + i - 1]
      <3>1. 1 \in 1 .. Len(t) /\ m + 1 - 1 = m
        BY <1>5, <2>2
      <3>2. t[1] = L[m + 1 - 1]
        BY <2>3, <3>1
      <3>3. \A i \in 2 .. Len(t) : i \in 1 .. Len(t)
        BY <2>2
      <3>. QED  BY <2>3, <3>1, <3>2, <3>3
    <2>5. Left(op, t)
      BY <1>6, <2>2, <2>4 DEF Left, IsSeq, L, m
    <2>. QED  BY <2>2, <2>5 DEF m
  <1>10. ASSUME L[n] = "exists"
         PROVE  Left(op, z) /\ Place(op, z) = n /\ z # <<>>
    <2>. DEFINE T == S \cup {"set"}
    <2>1. t \in Seq(T) /\ "set" \in T
      BY <1>6
    <2>. HIDE DEF T
    <2>2. /\ z \in Seq(T) /\ Len(z) = Len(t) + 1 /\ z[1] = "set" /\ z # <<>>
          /\ \A i \in 2 .. Len(t) + 1 : z[i] = t[i - 1]
      BY <2>1
    <2>. HIDE DEF z
    <2>. DEFINE m == Place(op, z)
    <2>3. m = Len(L) - Len(z) + 1
      BY <1>3
    <2>. HIDE DEF m
    <2>4. Len(z) = Len(q) /\ m = n /\ Len(z) \in 1 .. Len(L)
      BY <1>1, <1>2, <1>5, <1>6, <2>2, <2>3
    <2>5. ASSUME NEW i \in 2 .. Len(z)
          PROVE  z[i] = L[m + i - 1]
      <3>1. i \in 2 .. Len(t) + 1 /\ i - 1 \in 1 .. Len(t) /\ (i - 1) + 1 = i /\ i \in 2 .. Len(q)
        BY <1>5, <1>6, <2>4
      <3>2. z[i] = t[i - 1] /\ t[i - 1] = q[(i - 1) + 1]
        BY <1>7, <2>2, <3>1
      <3>. QED  BY <1>2, <2>4, <3>1, <3>2
    <2>6. Left(op, z)
      BY <1>10, <2>2, <2>4, <2>5 DEF Left, IsSeq, L, m
    <2>. QED  BY <2>2, <2>4, <2>6 DEF m
  <1>11. t = <<>> <=> n = Len(L)
    <2>1. n = Len(L) - Len(q) + 1
      BY <1>2
    <2>2. ASSUME NEW k \in Nat, NEW l \in Nat, n = l - k + 1
          PROVE  k = 1 <=> n = l
      BY <2>2
    <2>3. Len(q) = 1 <=> n = Len(L)
      BY <1>1, <1>5, <2>1, <2>2
    <2>. QED  BY <1>8, <2>3
  <1>12. Head(q) = L[n] \/ (Head(q) = "set" /\ L[n] = "exists")
    BY <1>2, <1>6
  <1>. QED  BY <1>1, <1>5, <1>6, <1>9, <1>10, <1>11, <1>12 DEF L, n, t, z

\* Which stage a call is.
LEMMA WhereCalls ==
    ASSUME NEW op \in MemberOps, NEW q, Left(op, q)
    PROVE  LET n == Place(op, q)
               x == Head(q)
           IN /\ \/ x = "findUser"
                    /\ \/ op = "CreateUnion" /\ n = 1
                       \/ op = "JoinUnion" /\ n = 3
                       \/ op \in {"InviteJoinUnion", "ExitUnion"} /\ n = 2
                 \/ x = "findOwned" /\ op = "CreateUnion" /\ n = 2
                 \/ x \in {"exists", "set"} /\ \/ op = "CreateUnion" /\ n \in {3, 6}
                                               \/ op \in Joins /\ n = 5
                 \/ x = "incr" /\ \/ op = "CreateUnion" /\ n \in {4, 7}
                                  \/ op \in Joins /\ n = 6
                 \/ x = "insertUnion" /\ op = "CreateUnion" /\ n = 5
                 \/ x = "addToSet" /\ op = "CreateUnion" /\ n = 8
                 \/ x = "findInviter" /\ op = "JoinUnion" /\ n = 1
                 \/ x = "findUnion" /\ \/ op = "JoinUnion" /\ n = 2
                                       \/ op \in {"InviteJoinUnion", "ExitUnion"} /\ n = 1
                 \/ x = "findOther" /\ op = "InviteJoinUnion" /\ n = 3
                 \/ x = "countMember" /\ op \in Joins /\ n = 4
                 \/ x = "push" /\ op \in Joins /\ n = 7
                 \/ x = "pull" /\ op = "ExitUnion" /\ n = 3
                 \/ x = "moveDownlines" /\ op = "ExitUnion" /\ n = 4
                 \/ x = "uncountMember" /\ op = "ExitUnion" /\ n = 5
              /\ x = "exists" => HallSteps[op][n] = "exists"
              /\ Tail(q) = <<>> <=> \/ op = "CreateUnion" /\ n = 8
                                    \/ op \in Joins /\ n = 7
                                    \/ op = "ExitUnion" /\ n = 5
  <1>. DEFINE L == HallSteps[op]
              n == Place(op, q)
              x == Head(q)
              e == Tail(q) = <<>>
  <1>1. /\ n \in 1 .. Len(L)
        /\ x = L[n] \/ (x = "set" /\ L[n] = "exists")
        /\ e <=> n = Len(L)
    BY LeftGoes
  <1>. HIDE DEF n, x, e
  <1>2. CASE op = "CreateUnion"
    <2>1. /\ Len(L) = 8 /\ L[1] = "findUser" /\ L[2] = "findOwned"
          /\ L[3] = "exists" /\ L[4] = "incr" /\ L[5] = "insertUnion" /\ L[6] = "exists"
          /\ L[7] = "incr" /\ L[8] = "addToSet"
      BY <1>2, CallsInOrder
    <2>. HIDE DEF L
    <2>2. n \in {1, 2, 3, 4, 5, 6, 7, 8}
      BY <1>1, <2>1
    <2>. QED  BY <1>1, <1>2, <2>1, <2>2 DEF n, x, e, L, Joins
  <1>3. CASE op = "JoinUnion"
    <2>1. /\ Len(L) = 7 /\ L[1] = "findInviter" /\ L[2] = "findUnion" /\ L[3] = "findUser"
          /\ L[4] = "countMember" /\ L[5] = "exists" /\ L[6] = "incr" /\ L[7] = "push"
      BY <1>3, CallsInOrder
    <2>. HIDE DEF L
    <2>2. n \in {1, 2, 3, 4, 5, 6, 7}
      BY <1>1, <2>1
    <2>. QED  BY <1>1, <1>3, <2>1, <2>2 DEF n, x, e, L, Joins
  <1>4. CASE op = "InviteJoinUnion"
    <2>1. /\ Len(L) = 7 /\ L[1] = "findUnion" /\ L[2] = "findUser" /\ L[3] = "findOther"
          /\ L[4] = "countMember" /\ L[5] = "exists" /\ L[6] = "incr" /\ L[7] = "push"
      BY <1>4, CallsInOrder
    <2>. HIDE DEF L
    <2>2. n \in {1, 2, 3, 4, 5, 6, 7}
      BY <1>1, <2>1
    <2>. QED  BY <1>1, <1>4, <2>1, <2>2 DEF n, x, e, L, Joins
  <1>5. CASE op = "ExitUnion"
    <2>1. /\ Len(L) = 5 /\ L[1] = "findUnion" /\ L[2] = "findUser" /\ L[3] = "pull"
          /\ L[4] = "moveDownlines" /\ L[5] = "uncountMember"
      BY <1>5, CallsInOrder
    <2>. HIDE DEF L
    <2>2. n \in {1, 2, 3, 4, 5}
      BY <1>1, <2>1
    <2>. QED  BY <1>1, <1>5, <2>1, <2>2 DEF n, x, e, L, Joins
  <1>. QED  BY <1>2, <1>3, <1>4, <1>5 DEF MemberOps

-----------------------------------------------------------------------------
(* What becomes of a request for a member. *)

Member(s) == Works(s) /\ reqs[s].op \in MemberOps /\ ClubWay(reqs[s])

\* It is about this union, remembers this spreader and this id, and is at this
\* stage.
Stands(s, x, sp, id, n) ==
    /\ OthersWait(s) /\ reqs'[s] # Idle /\ DOMAIN reqs'[s] = Fields
    /\ reqs'[s].op = reqs[s].op /\ reqs'[s].uid = reqs[s].uid /\ reqs'[s].other = reqs[s].other
    /\ reqs'[s].union = x /\ reqs'[s].spreader = sp /\ reqs'[s].id = id
    /\ Left(reqs'[s].op, reqs'[s].todo) /\ Stage(reqs'[s]) = n
Sets(s) ==
    LET r == reqs[s]
    IN Stands(s, r.union, r.spreader, r.id, Stage(r)) /\ Now(reqs'[s]) = "set"
Reaches(s, x, sp, id) == Stands(s, x, sp, id, Stage(reqs[s]) + 1)

\* A request for a member.
LEMMA MemberIs ==
    ASSUME NEW s, Member(s)
    PROVE  LET r == reqs[s]
           IN /\ s \in Slots /\ s \in Busy /\ DOMAIN reqs = Slots /\ DOMAIN r = Fields /\ r # Idle
              /\ r.op \in HallOps /\ r.op \in MemberOps /\ r.uid \in Users /\ r.other \in Users
              /\ Left(r.op, r.todo) /\ r.union \in Nat /\ r.id \in Nat
              /\ Stage(r) \in Nat
              /\ \A x : At(s, x) <=> Now(r) = x
              /\ \A x : AtOp(s, HallOps, x) <=> Now(r) = x
  <1>. DEFINE r == reqs[s]
  <1>1. /\ s \in Slots /\ s \in Busy /\ DOMAIN reqs = Slots /\ DOMAIN r = Fields /\ r # Idle
        /\ r.op \in HallOps /\ r.uid \in Users /\ r.other \in Users
    BY DEF Member, Works, Shaped, Busy, Formed
  <1>2. r.op \in MemberOps /\ Left(r.op, r.todo) /\ r.union \in Nat /\ r.id \in Nat
    BY DEF Member, ClubWay
  <1>3. \A x : At(s, x) <=> Now(r) = x
    BY HallWays DEF Member
  <1>4. \A x : AtOp(s, HallOps, x) <=> Now(r) = x
    BY <1>1, <1>3 DEF AtOp
  <1>5. Stage(r) \in Nat
    <2>1. Place(r.op, r.todo) \in 1 .. Len(HallSteps[r.op]) /\ Len(HallSteps[r.op]) \in Nat
      BY <1>2, LeftGoes
    <2>. QED  BY <2>1 DEF Stage
  <1>. QED  BY <1>1, <1>2, <1>3, <1>4, <1>5

\* It goes on with the rest of its handler.
LEMMA MemberGoes ==
    ASSUME NEW s, Member(s)
    PROVE  LET r == reqs[s]
           IN /\ Refuse(s) => Quits(s)
              /\ \A k : /\ DOMAIN k = Fields /\ k.op = r.op /\ k.uid = r.uid /\ k.other = r.other
                        /\ k.todo = r.todo /\ GoOn(s, k)
                        => /\ Tail(r.todo) = <<>> => Quits(s)
                           /\ Tail(r.todo) # <<>> => Reaches(s, k.union, k.spreader, k.id)
              /\ Now(r) = "exists" /\ Then(s, r, <<"set">> \o Tail(r.todo)) => Sets(s)
  <1>. DEFINE r == reqs[s]
              t == Tail(r.todo)
              z == <<"set">> \o t
  <1>0. /\ DOMAIN reqs = Slots /\ s \in Slots /\ DOMAIN r = Fields /\ r.op \in MemberOps
        /\ Left(r.op, r.todo)
    BY MemberIs
  <1>1. /\ t # <<>> => Left(r.op, t) /\ Place(r.op, t) = Stage(r) + 1
        /\ Now(r) = "exists" => Left(r.op, z) /\ Place(r.op, z) = Stage(r) /\ z # <<>>
    BY <1>0, LeftGoes, WhereCalls DEF Stage, Now
  <1>2. Refuse(s) => Quits(s)
    BY HallWays DEF Member
  <1>3. ASSUME NEW k, DOMAIN k = Fields, k.op = r.op, k.uid = r.uid, k.other = r.other,
               NEW q, Then(s, k, q)
        PROVE  /\ q = <<>> => Quits(s)
               /\ q # <<>> /\ Left(r.op, q) =>
                     /\ Stands(s, k.union, k.spreader, k.id, Place(r.op, q))
                     /\ Now(reqs'[s]) = Head(q)
    <2>. DEFINE e == [k EXCEPT !.todo = q]
    <2>1. /\ DOMAIN e = Fields /\ e.todo = q /\ e.op = k.op /\ e.uid = k.uid
          /\ e.other = k.other /\ e.union = k.union /\ e.spreader = k.spreader /\ e.id = k.id
      BY <1>3 DEF Fields
    <2>2. reqs' = [reqs EXCEPT ![s] = IF q = <<>> THEN Idle ELSE e]
      BY <1>3 DEF Then
    <2>3. e # Idle
      BY <2>1, IdleIsNot
    <2>. HIDE DEF e
    <2>4. OthersWait(s) /\ reqs'[s] = IF q = <<>> THEN Idle ELSE e
      BY <1>0, <2>2 DEF OthersWait
    <2>. HIDE DEF r
    <2>5. q # <<>> => /\ OthersWait(s) /\ reqs'[s] = e /\ Stage(e) = Place(r.op, q)
                      /\ Now(e) = Head(q)
      BY <1>3, <2>1, <2>4 DEF Stage, Now
    <2>. QED  BY <1>3, <2>1, <2>3, <2>4, <2>5 DEF Quits, Stands, r
  <1>4. \A k : GoOn(s, k) <=> Then(s, k, Tail(k.todo))
    BY DEF GoOn
  <1>5. Now(r) = "exists" /\ Then(s, r, z) => Sets(s)
    <2>1. Head(z) = "set"
      <3>1. PICK S : r.todo \in Seq(S) /\ r.todo # <<>>
        BY <1>0, LeftGoes DEF Left, IsSeq
      <3>2. t \in Seq(S)
        BY <3>1
      <3>. HIDE DEF t
      <3>. QED  BY <3>2
    <2>. HIDE DEF z, r
    <2>. QED  BY <1>0, <1>1, <1>3, <2>1 DEF Sets, r
  <1>. HIDE DEF r, t, z
  <1>6. ASSUME NEW k, DOMAIN k = Fields, k.op = r.op, k.uid = r.uid, k.other = r.other,
               k.todo = r.todo, GoOn(s, k)
        PROVE  /\ t = <<>> => Quits(s)
               /\ t # <<>> => Reaches(s, k.union, k.spreader, k.id)
    <2>1. Then(s, k, t)
      BY <1>4, <1>6 DEF t
    <2>. QED  BY <1>1, <1>3, <1>6, <2>1 DEF Reaches, r
  <1>. QED  BY <1>2, <1>5, <1>6 DEF r, t, z

\* The step is the one of its call, or the database fails.
LEMMA MemberCalls ==
    ASSUME NEW s, Member(s), SharedStep(s) \/ HallStep(s)
    PROVE  \/ FindUser(s) \/ FindOwned(s) \/ FindInviter(s) \/ FindUnion(s) \/ FindOther(s)
           \/ Exists(s) \/ SetBegin(s) \/ Incr(s)
           \/ InsertUnion(s) \/ AddToSet(s) \/ CountMember(s) \/ Push(s)
           \/ Pull(s) \/ Downlines(s) \/ UncountMember(s)
           \/ HallFault(s)
  <1>1. Now(reqs[s]) \notin {"unLockSelf", "unLockOther", "setPartner", "lock", "update",
                             "debit", "credit", "record", "recordOther", "panic"}
    BY MemberIs, WhereCalls DEF Now
  <1>2. \A y \in {"unLockSelf", "unLockOther", "setPartner", "lock", "update",
                  "debit", "credit", "record", "recordOther", "panic"} : ~At(s, y)
    BY <1>1, MemberIs
  <1>. QED
    BY <1>2 DEF SharedStep, HallStep, UnLockSelf, UnLockOther, SetPartner, Lock, UpdateSafe,
                Debit, Credit, Record, RecordOther, Panic

\* Its ways on, in these words.
LEMMA MemberWays ==
    ASSUME NEW s, Member(s)
    PROVE  LET r == reqs[s]
               last == Now(r) \in {"addToSet", "push", "uncountMember"}
           IN /\ Refuse(s) => Quits(s)
              /\ GoOn(s, r) /\ last => Quits(s)
              /\ ~last => /\ GoOn(s, r) => Reaches(s, r.union, r.spreader, r.id)
                          /\ \A x : GoOn(s, [r EXCEPT !.owner = x])
                                       => Reaches(s, r.union, r.spreader, r.id)
                          /\ \A x : GoOn(s, [r EXCEPT !.spreader = x])
                                       => Reaches(s, r.union, x, r.id)
                          /\ \A x : GoOn(s, [r EXCEPT !.union = x])
                                       => Reaches(s, x, r.spreader, r.id)
                          /\ \A x : GoOn(s, [r EXCEPT !.id = x])
                                       => Reaches(s, r.union, r.spreader, x)
                          /\ \A x, y : GoOn(s, [r EXCEPT !.spreader = x, !.union = y])
                                          => Reaches(s, y, x, r.id)
              /\ Now(r) = "exists" /\ Then(s, r, <<"set">> \o Tail(r.todo)) => Sets(s)
  <1>. DEFINE r == reqs[s]
              t == Tail(r.todo)
              last == Now(r) \in {"addToSet", "push", "uncountMember"}
              Kin(k) == /\ DOMAIN k = Fields /\ k.op = r.op /\ k.uid = r.uid
                        /\ k.other = r.other /\ k.todo = r.todo
  <1>1. t = <<>> <=> last
    BY MemberIs, WhereCalls DEF Stage, Now, Joins
  <1>2. /\ Refuse(s) => Quits(s)
        /\ \A k : Kin(k) /\ GoOn(s, k)
              => /\ t = <<>> => Quits(s)
                 /\ t # <<>> => Reaches(s, k.union, k.spreader, k.id)
        /\ Now(r) = "exists" /\ Then(s, r, <<"set">> \o t) => Sets(s)
    BY MemberGoes
  <1>3. DOMAIN r = Fields
    BY MemberIs
  <1>. HIDE DEF r, t
  <1>4. /\ Kin(r)
        /\ \A x : LET k == [r EXCEPT !.owner = x]
                  IN Kin(k) /\ k.union = r.union /\ k.spreader = r.spreader /\ k.id = r.id
        /\ \A x : LET k == [r EXCEPT !.spreader = x]
                  IN Kin(k) /\ k.union = r.union /\ k.spreader = x /\ k.id = r.id
        /\ \A x : LET k == [r EXCEPT !.union = x]
                  IN Kin(k) /\ k.union = x /\ k.spreader = r.spreader /\ k.id = r.id
        /\ \A x : LET k == [r EXCEPT !.id = x]
                  IN Kin(k) /\ k.union = r.union /\ k.spreader = r.spreader /\ k.id = x
    BY <1>3 DEF Fields
  <1>. HIDE DEF Kin, last
  <1>5. /\ GoOn(s, r) /\ last => Quits(s)
        /\ ~last /\ GoOn(s, r) => Reaches(s, r.union, r.spreader, r.id)
    BY <1>1, <1>2, <1>4
  <1>6. ASSUME ~last, NEW x
        PROVE  /\ GoOn(s, [r EXCEPT !.owner = x]) => Reaches(s, r.union, r.spreader, r.id)
               /\ GoOn(s, [r EXCEPT !.spreader = x]) => Reaches(s, r.union, x, r.id)
               /\ GoOn(s, [r EXCEPT !.union = x]) => Reaches(s, x, r.spreader, r.id)
               /\ GoOn(s, [r EXCEPT !.id = x]) => Reaches(s, r.union, r.spreader, x)
    <2>. DEFINE k1 == [r EXCEPT !.owner = x]
                k2 == [r EXCEPT !.spreader = x]
                k3 == [r EXCEPT !.union = x]
                k4 == [r EXCEPT !.id = x]
    <2>1. /\ Kin(k1) /\ k1.union = r.union /\ k1.spreader = r.spreader /\ k1.id = r.id
          /\ Kin(k2) /\ k2.union = r.union /\ k2.spreader = x /\ k2.id = r.id
          /\ Kin(k3) /\ k3.union = x /\ k3.spreader = r.spreader /\ k3.id = r.id
          /\ Kin(k4) /\ k4.union = r.union /\ k4.spreader = r.spreader /\ k4.id = x
      BY <1>4
    <2>. HIDE DEF k1, k2, k3, k4
    <2>2. /\ GoOn(s, k1) => Reaches(s, r.union, r.spreader, r.id)
          /\ GoOn(s, k2) => Reaches(s, r.union, x, r.id)
          /\ GoOn(s, k3) => Reaches(s, x, r.spreader, r.id)
          /\ GoOn(s, k4) => Reaches(s, r.union, r.spreader, x)
      BY <1>1, <1>2, <1>6, <2>1
    <2>. QED  BY <2>2 DEF k1, k2, k3, k4
  <1>7. ASSUME ~last, NEW x, NEW y, GoOn(s, [r EXCEPT !.spreader = x, !.union = y])
        PROVE  Reaches(s, y, x, r.id)
    <2>. DEFINE k == [r EXCEPT !.spreader = x, !.union = y]
    <2>1. Kin(k) /\ k.union = y /\ k.spreader = x /\ k.id = r.id
      BY <1>3 DEF Fields, Kin
    <2>2. GoOn(s, k)
      BY <1>7
    <2>. HIDE DEF k
    <2>. QED  BY <1>1, <1>2, <1>7, <2>1, <2>2
  <1>. QED  BY <1>2, <1>5, <1>6, <1>7 DEF r, t, last

\* The step leaves the documents alone, and fails nobody.
OnlyReads == db' = db /\ failed' = failed

\* Which of the handlers make a call.
LEMMA MembersCall ==
    ASSUME NEW s, Member(s)
    PROVE  LET x == Now(reqs[s])
               op == reqs[s].op
               n == Stage(reqs[s])
           IN /\ op \in {"CreateUnion", "JoinUnion", "InviteJoinUnion", "ExitUnion"}
              /\ x = "findUser" => \/ op = "CreateUnion" /\ n = 1
                                   \/ op = "JoinUnion" /\ n = 3
                                   \/ op \in {"InviteJoinUnion", "ExitUnion"} /\ n = 2
              /\ x = "findOwned" => op = "CreateUnion" /\ n = 2
              /\ x \in {"exists", "set"} => \/ op = "CreateUnion" /\ n \in {3, 6}
                                            \/ op \in Joins /\ n = 5
              /\ x = "incr" => \/ op = "CreateUnion" /\ n \in {4, 7}
                               \/ op \in Joins /\ n = 6
              /\ x = "insertUnion" => op = "CreateUnion" /\ n = 5
              /\ x = "addToSet" => op = "CreateUnion" /\ n = 8
              /\ x = "findInviter" => op = "JoinUnion" /\ n = 1
              /\ x = "findUnion" => \/ op = "JoinUnion" /\ n = 2
                                    \/ op \in {"InviteJoinUnion", "ExitUnion"} /\ n = 1
              /\ x = "findOther" => op = "InviteJoinUnion" /\ n = 3
              /\ x = "countMember" => op \in Joins /\ n = 4
              /\ x = "push" => op \in Joins /\ n = 7
              /\ x = "pull" => op = "ExitUnion" /\ n = 3
              /\ x = "moveDownlines" => op = "ExitUnion" /\ n = 4
              /\ x = "uncountMember" => op = "ExitUnion" /\ n = 5
  <1>. DEFINE op == reqs[s].op
              n == Stage(reqs[s])
              x == Now(reqs[s])
  <1>1. Left(op, reqs[s].todo) /\ op \in MemberOps
    BY MemberIs
  <1>. HIDE DEF op
  <1>2. n = Place(op, reqs[s].todo) /\ x = Head(reqs[s].todo)
    BY DEF Stage, Now, op
  <1>. HIDE DEF n, x
  <1>3. \/ x = "findUser"
           /\ \/ op = "CreateUnion" /\ n = 1
              \/ op = "JoinUnion" /\ n = 3
              \/ op \in {"InviteJoinUnion", "ExitUnion"} /\ n = 2
        \/ x = "findOwned" /\ op = "CreateUnion" /\ n = 2
        \/ x \in {"exists", "set"} /\ \/ op = "CreateUnion" /\ n \in {3, 6}
                                      \/ op \in Joins /\ n = 5
        \/ x = "incr" /\ \/ op = "CreateUnion" /\ n \in {4, 7}
                         \/ op \in Joins /\ n = 6
        \/ x = "insertUnion" /\ op = "CreateUnion" /\ n = 5
        \/ x = "addToSet" /\ op = "CreateUnion" /\ n = 8
        \/ x = "findInviter" /\ op = "JoinUnion" /\ n = 1
        \/ x = "findUnion" /\ \/ op = "JoinUnion" /\ n = 2
                              \/ op \in {"InviteJoinUnion", "ExitUnion"} /\ n = 1
        \/ x = "findOther" /\ op = "InviteJoinUnion" /\ n = 3
        \/ x = "countMember" /\ op \in Joins /\ n = 4
        \/ x = "push" /\ op \in Joins /\ n = 7
        \/ x = "pull" /\ op = "ExitUnion" /\ n = 3
        \/ x = "moveDownlines" /\ op = "ExitUnion" /\ n = 4
        \/ x = "uncountMember" /\ op = "ExitUnion" /\ n = 5
    BY <1>1, <1>2, WhereCalls
  <1>4. op \in {"CreateUnion", "JoinUnion", "InviteJoinUnion", "ExitUnion"}
    BY <1>1 DEF MemberOps
  <1>. QED  BY <1>3, <1>4 DEF op, n, x

\* What a handler asks of the user: that he may make a union, is no member
\* or is one.
LEMMA DoesFindUser ==
    ASSUME NEW s, Member(s), FindUser(s)
    PROVE  LET r == reqs[s]
           IN /\ OnlyReads /\ Now(r) = "findUser"
              /\ \/ Quits(s)
                 \/ r.op = "CreateUnion" /\ Reaches(s, r.union, r.spreader, r.id)
                 \/ /\ r.op = "JoinUnion" /\ ~InUnion(r.uid, r.union)
                    /\ Reaches(s, r.union, r.spreader, r.id)
                 \/ /\ r.op \in {"InviteJoinUnion", "ExitUnion"} /\ InUnion(r.uid, r.union)
                    /\ Reaches(s, r.union, InfoOf(r.uid, r.union).spreader, r.id)
  <1>. DEFINE r == reqs[s]
              refused ==
                 CASE r.op = "CreateUnion" -> Len(db.users[r.uid].info) > MaxUnionCount
                   [] r.op = "JoinUnion" -> InUnion(r.uid, r.union)
                   [] r.op = "GiveScore" -> db.users[r.uid].room # NoRoom
                   [] OTHER -> ~InUnion(r.uid, r.union)
              y == InfoOf(r.uid, r.union).spreader
  <1>1. OnlyReads /\ Now(r) = "findUser"
    BY MemberIs DEF FindUser, Calm, OnlyReads, AtOp
  <1>2. r.op \in {"CreateUnion", "JoinUnion", "InviteJoinUnion", "ExitUnion"}
    BY MembersCall
  <1>3. \/ Refuse(s)
        \/ ~refused /\ r.op \in {"CreateUnion", "JoinUnion"} /\ GoOn(s, r)
        \/ /\ ~refused /\ r.op \in {"InviteJoinUnion", "ExitUnion"}
           /\ GoOn(s, [r EXCEPT !.spreader = y])
    BY <1>2 DEF FindUser
  <1>4. r.op \in {"InviteJoinUnion", "ExitUnion"} => refused = ~InUnion(r.uid, r.union)
    OBVIOUS
  <1>5. r.op = "JoinUnion" => refused = InUnion(r.uid, r.union)
    OBVIOUS
  <1>. HIDE DEF r, refused, y
  <1>6. /\ Refuse(s) => Quits(s)
        /\ GoOn(s, r) => Reaches(s, r.union, r.spreader, r.id)
        /\ GoOn(s, [r EXCEPT !.spreader = y]) => Reaches(s, r.union, y, r.id)
    BY <1>1, MemberWays DEF r
  <1>. QED  BY <1>1, <1>2, <1>3, <1>4, <1>5, <1>6 DEF r, y

\* The union is there and does not refuse the request.
LEMMA DoesFindUnion ==
    ASSUME NEW s, Member(s), FindUnion(s)
    PROVE  LET r == reqs[s]
           IN /\ OnlyReads /\ Now(r) = "findUnion"
              /\ \/ Quits(s)
                 \/ /\ UnionAt(r.union) # 0 /\ Reaches(s, r.union, r.spreader, r.id)
                    /\ r.op = "ExitUnion" => UnionOf(r.union).owner # r.uid
  <1>. DEFINE r == reqs[s]
              y == (UnionOf(r.union).owner = r.uid)
  <1>1. OnlyReads /\ Now(r) = "findUnion"
    BY MemberIs DEF FindUnion, Calm, OnlyReads, AtOp
  <1>2. \/ Refuse(s)
        \/ /\ UnionAt(r.union) # 0 /\ ~UnionRefuses(r, UnionOf(r.union))
           /\ GoOn(s, [r EXCEPT !.owner = y])
    BY DEF FindUnion
  <1>3. r.op = "ExitUnion" /\ ~UnionRefuses(r, UnionOf(r.union)) => UnionOf(r.union).owner # r.uid
    BY DEF UnionRefuses
  <1>. HIDE DEF r, y
  <1>4. /\ Refuse(s) => Quits(s)
        /\ GoOn(s, [r EXCEPT !.owner = y]) => Reaches(s, r.union, r.spreader, r.id)
    BY <1>1, MemberWays DEF r
  <1>. QED  BY <1>1, <1>2, <1>3, <1>4 DEF r

\* The inviter has an entry of the union.
LEMMA DoesFindInviter ==
    ASSUME NEW s, Member(s), FindInviter(s), \A u \in Users : Rows(Info(u))
    PROVE  LET r == reqs[s]
           IN /\ OnlyReads /\ Now(r) = "findInviter"
              /\ \/ Quits(s)
                 \/ \E u \in Users : \E i \in DOMAIN Info(u) :
                       Reaches(s, Info(u)[i].union, u, r.id)
  <1>. DEFINE r == reqs[s]
              Of(u) == SelectInSeq(Info(u), LAMBDA e : e.invite = r.n)
  <1>1. OnlyReads /\ Now(r) = "findInviter"
    BY MemberIs DEF FindInviter, Calm, OnlyReads
  <1>2. \/ Refuse(s)
        \/ \E u \in Users : /\ Of(u) # 0
                            /\ GoOn(s, [r EXCEPT !.spreader = u, !.union = Info(u)[Of(u)].union])
    BY DEF FindInviter, Info
  <1>3. ASSUME NEW u \in Users, Of(u) # 0
        PROVE  Of(u) \in DOMAIN Info(u)
    <2>. DEFINE q == Info(u)
                I == {i \in 1 .. Len(q) : q[i].invite = r.n}
    <2>1. Of(u) = IF I # {} THEN Min(I) ELSE 0
      BY DEF SelectInSeq
    <2>2. DOMAIN q = 1 .. Len(q) /\ Len(q) \in Nat
      BY DEF Rows, IsSeq
    <2>3. I # {} => Min(I) \in I
      <3>1. I \in SUBSET Nat
        BY <2>2
      <3>. HIDE DEF I
      <3>. QED  BY <3>1, LeastExists DEF Min
    <2>. QED  BY <1>3, <2>1, <2>2, <2>3
  <1>. HIDE DEF r, Of
  <1>4. /\ Refuse(s) => Quits(s)
        /\ \A x, y : GoOn(s, [r EXCEPT !.spreader = x, !.union = y]) => Reaches(s, y, x, r.id)
    BY <1>1, MemberWays DEF r
  <1>. QED  BY <1>1, <1>2, <1>3, <1>4 DEF r

\* The other is no member.
LEMMA DoesFindOther ==
    ASSUME NEW s, Member(s), FindOther(s)
    PROVE  LET r == reqs[s]
           IN /\ OnlyReads /\ Now(r) = "findOther"
              /\ \/ Quits(s)
                 \/ ~InUnion(r.other, r.union) /\ Reaches(s, r.union, r.spreader, r.id)
  <1>. DEFINE r == reqs[s]
              verdict == MemberVerdict(r)
  <1>1. OnlyReads /\ Now(r) = "findOther"
    BY MemberIs DEF FindOther, Calm, OnlyReads
  <1>2. r.op = "InviteJoinUnion"
    BY <1>1, MembersCall
  <1>3. verdict = IF InUnion(r.other, r.union) THEN "refuse" ELSE "go"
    BY <1>2 DEF MemberVerdict
  <1>4. \/ verdict = "refuse" /\ Refuse(s)
        \/ verdict = "go" /\ GoOn(s, r)
    BY <1>3 DEF FindOther
  <1>. HIDE DEF r, verdict
  <1>5. /\ Refuse(s) => Quits(s)
        /\ GoOn(s, r) => Reaches(s, r.union, r.spreader, r.id)
    BY <1>1, MemberWays DEF r
  <1>. QED  BY <1>1, <1>3, <1>4, <1>5 DEF r

\* The user has no union yet.
LEMMA DoesFindOwned ==
    ASSUME NEW s, Member(s), FindOwned(s)
    PROVE  LET r == reqs[s]
           IN /\ OnlyReads /\ Now(r) = "findOwned"
              /\ Quits(s) \/ Reaches(s, r.union, r.spreader, r.id)
  <1>. DEFINE r == reqs[s]
  <1>1. OnlyReads /\ Now(r) = "findOwned"
    BY MemberIs DEF FindOwned, Calm, OnlyReads
  <1>2. Refuse(s) \/ GoOn(s, r)
    BY DEF FindOwned
  <1>. QED  BY <1>1, <1>2, MemberWays

\* The counter is there, or is to be set.
LEMMA DoesExists ==
    ASSUME NEW s, Member(s), Exists(s)
    PROVE  LET r == reqs[s]
           IN /\ OnlyReads /\ Now(r) = "exists"
              /\ \/ Sets(s)
                 \/ db.counters[Key(r)] # Absent /\ Reaches(s, r.union, r.spreader, r.id)
  <1>. DEFINE r == reqs[s]
  <1>1. OnlyReads /\ Now(r) = "exists"
    BY MemberIs DEF Exists, Calm, OnlyReads
  <1>2. \/ Then(s, r, <<"set">> \o Tail(r.todo))
        \/ db.counters[Key(r)] # Absent /\ GoOn(s, r)
    BY DEF Exists
  <1>. QED  BY <1>1, <1>2, MemberWays

\* The database fails: the request ends, or sets the counter.
LEMMA DoesHallFault ==
    ASSUME NEW s, Member(s), HallFault(s)
    PROVE  /\ db' = db /\ failed' # {} /\ failed \subseteq failed'
           /\ Quits(s) \/ Sets(s)
  <1>. DEFINE r == reqs[s]
  <1>1. /\ db' = db /\ failed' = failed \cup {r.uid}
    BY DEF HallFault
  <1>2. r.op # "GiveScore" /\ Now(r) \notin {"unLockSelf", "unLockOther", "recordOther"}
    <2>1. r.op \in {"CreateUnion", "JoinUnion", "InviteJoinUnion", "ExitUnion"}
      BY MembersCall
    <2>2. Now(r) \notin {"unLockSelf", "unLockOther", "recordOther"}
      BY MemberIs, WhereCalls DEF Now
    <2>. QED  BY <2>1, <2>2
  <1>3. ~At(s, "unLockSelf") /\ ~At(s, "unLockOther") /\ ~At(s, "recordOther")
    BY <1>2, MemberIs
  <1>6. ~AtOp(s, {"GiveScore"}, "debit") /\ ~AtOp(s, {"GiveScore"}, "record")
    BY <1>2 DEF AtOp
  <1>4. \/ At(s, "exists") /\ Then(s, r, <<"set">> \o Tail(r.todo))
        \/ Refuse(s)
    BY <1>3, <1>6 DEF HallFault
  <1>5. At(s, "exists") => Now(r) = "exists"
    BY MemberIs
  <1>. QED  BY <1>1, <1>4, <1>5, MemberWays

-----------------------------------------------------------------------------
(* The calls that write. *)

\* A counter is this number, and nothing else is new.
CounterSet(k, n) ==
    /\ db'.users = db.users /\ db'.unions = db.unions
    /\ DOMAIN db'.counters = Counters /\ db'.counters[k] = n
    /\ \A j \in Counters \ {k} : db'.counters[j] = db.counters[j]

\* A user's list is this one.
ListSet(u, q) ==
    /\ db'.unions = db.unions /\ db'.counters = db.counters
    /\ db'.users[u].info = q
    /\ \A v \in Users \ {u} : db'.users[v].info = Info(v)

\* The union has n members more.
Counted(x, n) ==
    /\ db'.users = db.users /\ db'.counters = db.counters
    /\ DOMAIN db'.unions = DOMAIN db.unions
    /\ \A i \in DOMAIN db.unions :
          /\ db'.unions[i].id = db.unions[i].id /\ db'.unions[i].owner = db.unions[i].owner
          /\ db'.unions[i].curMember =
                IF i = UnionAt(x) THEN db.unions[i].curMember + n ELSE db.unions[i].curMember

\* One entry of a user of this union and below this user gets another spreader.
Lowers(q, p, x, from, to) ==
    /\ IsSeq(p) /\ DOMAIN p = DOMAIN q
    /\ \A i \in DOMAIN q : /\ DOMAIN p[i] = EntryFields
                           /\ p[i].union = q[i].union /\ p[i].invite = q[i].invite
    /\ \/ /\ \A i \in DOMAIN q : p[i].spreader = q[i].spreader
          /\ \A i \in DOMAIN q : ~(q[i].union = x /\ q[i].spreader = from)
       \/ \E k \in DOMAIN q :
             /\ q[k].union = x /\ q[k].spreader = from /\ p[k].spreader = to
             /\ \A i \in DOMAIN q \ {k} : p[i].spreader = q[i].spreader

\* Documents of which one part is replaced.
LEMMA OneField ==
    ASSUME DocsShaped, NEW v
    PROVE  /\ LET d == [db EXCEPT !.users = v]
              IN d.users = v /\ d.unions = db.unions /\ d.counters = db.counters
           /\ LET d == [db EXCEPT !.unions = v]
              IN d.users = db.users /\ d.unions = v /\ d.counters = db.counters
           /\ LET d == [db EXCEPT !.counters = v]
              IN d.users = db.users /\ d.unions = db.unions /\ d.counters = v
           /\ LET d == [db EXCEPT !.changes = v]
              IN d.users = db.users /\ d.unions = db.unions /\ d.counters = db.counters
           /\ LET d == [db EXCEPT !.servers = v]
              IN d.users = db.users /\ d.unions = db.unions /\ d.counters = db.counters
  BY DEF DocsShaped, DbFields

\* Documents of which one list is replaced.
LEMMA OneListSet ==
    ASSUME HasLocks(db), DocsShaped, NEW u \in Users, NEW q,
           db' = [db EXCEPT !.users[u].info = q]
    PROVE  ListSet(u, q)
  <1>1. db'.users[u].info = q /\ \A v \in Users \ {u} : db'.users[v].info = Info(v)
    BY OneList
  <1>. DEFINE us == [db.users EXCEPT ![u] = [db.users[u] EXCEPT !.info = q]]
  <1>2. db' = [db EXCEPT !.users = us]
    OBVIOUS
  <1>. HIDE DEF us
  <1>3. db'.unions = db.unions /\ db'.counters = db.counters
    BY <1>2, OneField
  <1>. QED  BY <1>1, <1>3 DEF ListSet

\* Documents of which one counter is replaced.
LEMMA OneCounterSet ==
    ASSUME DocsShaped, CountersAre(db.counters), NEW k \in Counters, NEW n,
           db' = [db EXCEPT !.counters[k] = n]
    PROVE  CounterSet(k, n)
  <1>. DEFINE c == [db.counters EXCEPT ![k] = n]
  <1>1. /\ DOMAIN c = Counters /\ c[k] = n
        /\ \A j \in Counters \ {k} : c[j] = db.counters[j]
    BY DEF CountersAre
  <1>2. db' = [db EXCEPT !.counters = c]
    OBVIOUS
  <1>. HIDE DEF c
  <1>3. db'.users = db.users /\ db'.unions = db.unions /\ db'.counters = c
    BY <1>2 DEF DocsShaped, DbFields
  <1>. QED  BY <1>1, <1>3 DEF CounterSet

\* What is shaped when a request works.
LEMMA MemberDocs ==
    ASSUME NEW s, Member(s)
    PROVE  HasLocks(db) /\ DocsShaped
  BY DEF Member, Works, Shaped, MemInv

\* The counter a request draws from.
LEMMA KeyIs ==
    ASSUME NEW r
    PROVE  /\ Key(r) \in Counters /\ (Key(r) = "union" \/ Key(r) = "invite")
           /\ Key(r) = "union" <=> r.op = "CreateUnion" /\ r.union = 0
           /\ "union" # "invite" /\ Counters = {"union", "invite"}
           /\ Begin("union") = UnionIdBegin /\ Begin("invite") = InviteIdBegin
           /\ UnionIdBegin \in Nat /\ InviteIdBegin \in Nat /\ UnionIdBegin # 0
           /\ Absent = -1 /\ Absent \notin Nat
  BY DocsAssumption DEF Key, Counters, Begin, Absent

\* The counter begins.
LEMMA DoesSetBegin ==
    ASSUME NEW s, Member(s), SetBegin(s), CountersAre(db.counters)
    PROVE  LET r == reqs[s]
           IN /\ Now(r) = "set" /\ failed' = failed
              /\ CounterSet(Key(r), Begin(Key(r)))
              /\ Reaches(s, r.union, r.spreader, r.id)
  <1>. DEFINE r == reqs[s]
              k == Key(r)
              b == Begin(k)
  <1>1. Now(r) = "set" /\ failed' = failed
    BY MemberIs DEF SetBegin, Calm
  <1>2. db' = [db EXCEPT !.counters[k] = b] /\ GoOn(s, r)
    BY DEF SetBegin
  <1>3. k \in Counters
    BY KeyIs
  <1>. HIDE DEF k, b
  <1>4. CounterSet(k, b)
    BY <1>2, <1>3, OneCounterSet, MemberDocs
  <1>. QED  BY <1>1, <1>2, <1>4, MemberWays DEF k, b

\* A number is drawn.
LEMMA DoesIncr ==
    ASSUME NEW s, Member(s), Incr(s), CountersAre(db.counters)
    PROVE  LET r == reqs[s]
               id == db.counters[Key(r)] + 1
           IN /\ Now(r) = "incr" /\ failed' = failed
              /\ CounterSet(Key(r), id)
              /\ Key(r) = "union" => Reaches(s, id, r.spreader, r.id)
              /\ Key(r) = "invite" => Reaches(s, r.union, r.spreader, id)
  <1>. DEFINE r == reqs[s]
              k == Key(r)
              id == db.counters[k] + 1
  <1>1. Now(r) = "incr" /\ failed' = failed
    BY MemberIs DEF Incr, Calm
  <1>2. /\ db' = [db EXCEPT !.counters[k] = id]
        /\ k = "union" => GoOn(s, [r EXCEPT !.union = id])
        /\ k # "union" => GoOn(s, [r EXCEPT !.id = id])
    BY DEF Incr
  <1>3. k \in Counters /\ "union" # "invite"
    BY KeyIs
  <1>. HIDE DEF k, id
  <1>4. CounterSet(k, id)
    BY <1>2, <1>3, OneCounterSet, MemberDocs
  <1>5. /\ GoOn(s, [r EXCEPT !.union = id]) => Reaches(s, id, r.spreader, r.id)
        /\ GoOn(s, [r EXCEPT !.id = id]) => Reaches(s, r.union, r.spreader, id)
    BY <1>1, MemberWays
  <1>. HIDE DEF r
  <1>6. /\ k = "union" => Reaches(s, id, r.spreader, r.id)
        /\ k = "invite" => Reaches(s, r.union, r.spreader, id)
    BY <1>2, <1>3, <1>5
  <1>. QED  BY <1>1, <1>4, <1>6 DEF k, id, r

\* A union is added.
LEMMA DoesInsert ==
    ASSUME NEW s, Member(s), InsertUnion(s)
    PROVE  LET r == reqs[s]
           IN /\ Now(r) = "insertUnion" /\ failed' = failed
              /\ db'.users = db.users /\ db'.counters = db.counters
              /\ db'.unions = Append(db.unions, NewUnion(r.union, r.uid))
              /\ Reaches(s, r.union, r.spreader, r.id)
  <1>. DEFINE r == reqs[s]
              q == Append(db.unions, NewUnion(r.union, r.uid))
  <1>1. Now(r) = "insertUnion" /\ failed' = failed
    BY MemberIs DEF InsertUnion, Calm
  <1>2. db' = [db EXCEPT !.unions = q] /\ GoOn(s, r)
    BY DEF InsertUnion
  <1>. HIDE DEF q
  <1>3. db'.users = db.users /\ db'.counters = db.counters /\ db'.unions = q
    BY <1>2, OneField, MemberDocs
  <1>. QED  BY <1>1, <1>2, <1>3, MemberWays DEF q

\* A count is changed.
LEMMA CountsMember ==
    ASSUME DocsShaped, NEW x, NEW n, db' = IncMember(db, x, n)
    PROVE  Counted(x, n)
  <1>. DEFINE k == UnionAt(x)
  <1>0. k = DocAt(db.unions, x)
    BY UnionAtIs DEF ByPlace
  <1>1. CASE k = 0
    <2>1. 0 \notin DOMAIN db.unions
      BY DEF DocsShaped, IsSeq
    <2>. QED  BY <1>1, <2>1 DEF IncMember, Counted
  <1>2. CASE k # 0
    <2>. DEFINE e == [db.unions[k] EXCEPT !.curMember = @ + n]
                q == [db.unions EXCEPT ![k] = e]
    <2>1. db' = [db EXCEPT !.unions = q]
      BY <1>2 DEF IncMember
    <2>2. k \in DOMAIN db.unions
      BY <1>0, <1>2, DocAtIs DEF DocsShaped
    <2>3. /\ e.id = db.unions[k].id /\ e.owner = db.unions[k].owner
          /\ e.curMember = db.unions[k].curMember + n
      BY <2>2 DEF DocsShaped, DocShaped, DocFields
    <2>. HIDE DEF e, k
    <2>4. DOMAIN q = DOMAIN db.unions /\ q[k] = e
          /\ \A j \in DOMAIN db.unions \ {k} : q[j] = db.unions[j]
      BY <2>2, Replacing DEF DocsShaped
    <2>. HIDE DEF q
    <2>5. db'.users = db.users /\ db'.counters = db.counters /\ db'.unions = q
      BY <2>1, OneField
    <2>. QED  BY <2>2, <2>3, <2>4, <2>5 DEF Counted, k
  <1>. QED  BY <1>1, <1>2

\* A member is counted, or no more.
LEMMA DoesCount ==
    ASSUME NEW s, Member(s)
    PROVE  LET r == reqs[s]
           IN /\ CountMember(s) =>
                    /\ Now(r) = "countMember" /\ failed' = failed /\ Counted(r.union, 1)
                    /\ Reaches(s, r.union, r.spreader, r.id)
              /\ UncountMember(s) =>
                    /\ Now(r) = "uncountMember" /\ failed' = failed /\ Counted(r.union, -1)
                    /\ Quits(s)
  <1>. DEFINE r == reqs[s]
  <1>1. CountMember(s) => /\ Now(r) = "countMember" /\ failed' = failed
                          /\ db' = IncMember(db, r.union, 1) /\ GoOn(s, r)
    BY MemberIs DEF CountMember, Calm
  <1>2. UncountMember(s) => /\ Now(r) = "uncountMember" /\ failed' = failed
                            /\ db' = IncMember(db, r.union, -1) /\ GoOn(s, r)
    BY MemberIs DEF UncountMember, Calm
  <1>3. \A x, n : db' = IncMember(db, x, n) => Counted(x, n)
    BY CountsMember, MemberDocs
  <1>. QED  BY <1>1, <1>2, <1>3, MemberWays

\* A user gets an entry.
LEMMA DoesPush ==
    ASSUME NEW s, Member(s), AddToSet(s) \/ Push(s)
    PROVE  LET r == reqs[s]
               u == IF r.op = "InviteJoinUnion" THEN r.other ELSE r.uid
               e == CASE r.op = "CreateUnion" -> Entry(r, NoUser, TRUE)
                      [] r.op = "JoinUnion" -> Entry(r, r.spreader, FALSE)
                      [] OTHER -> Entry(r, r.uid, FALSE)
           IN /\ \/ Now(r) = "addToSet" /\ r.op = "CreateUnion"
                 \/ Now(r) = "push" /\ r.op \in Joins
              /\ failed' = failed /\ ListSet(u, Append(Info(u), e)) /\ Quits(s)
  <1>. DEFINE r == reqs[s]
              u == IF r.op = "InviteJoinUnion" THEN r.other ELSE r.uid
              e == CASE r.op = "CreateUnion" -> Entry(r, NoUser, TRUE)
                     [] r.op = "JoinUnion" -> Entry(r, r.spreader, FALSE)
                     [] OTHER -> Entry(r, r.uid, FALSE)
              q == Append(Info(u), e)
  <1>1. /\ \/ Now(r) = "addToSet" /\ AddToSet(s)
           \/ Now(r) = "push" /\ Push(s)
        /\ failed' = failed /\ GoOn(s, r)
    BY MemberIs DEF AddToSet, Push, Calm
  <1>2. \/ Now(r) = "addToSet" /\ r.op = "CreateUnion" /\ AddToSet(s)
        \/ Now(r) = "push" /\ r.op \in Joins /\ Push(s)
    BY <1>1, MembersCall
  <1>3. db' = PushEntry(db, u, e)
    BY <1>2 DEF AddToSet, Push, Joins
  <1>4. db' = [db EXCEPT !.users[u].info = q]
    BY <1>3 DEF PushEntry, Info
  <1>5. u \in Users
    BY MemberIs
  <1>. HIDE DEF u, e, q
  <1>6. ListSet(u, q)
    BY <1>4, <1>5, OneListSet, MemberDocs
  <1>. HIDE DEF r
  <1>7. Quits(s)
    BY <1>1, MemberWays DEF r
  <1>. QED  BY <1>1, <1>2, <1>6, <1>7 DEF u, e, q, r

\* A user's entries of the union are gone.
LEMMA DoesPull ==
    ASSUME NEW s, Member(s), Pull(s)
    PROVE  LET r == reqs[s]
           IN /\ Now(r) = "pull" /\ r.op = "ExitUnion" /\ failed' = failed
              /\ ListSet(r.uid, OtherEntries(Info(r.uid), r.union))
              /\ Reaches(s, r.union, r.spreader, r.id)
  <1>. DEFINE r == reqs[s]
              u == r.uid
              q == OtherEntries(Info(u), r.union)
  <1>1. Now(r) = "pull" /\ failed' = failed /\ GoOn(s, r)
    BY MemberIs DEF Pull, Calm
  <1>2. db' = [db EXCEPT !.users[u].info = q]
    BY DEF Pull, PullEntries, Info
  <1>3. u \in Users
    BY MemberIs
  <1>. HIDE DEF u, q
  <1>4. ListSet(u, q)
    BY <1>2, <1>3, OneListSet, MemberDocs
  <1>. HIDE DEF r
  <1>5. r.op = "ExitUnion"
    BY <1>1, MembersCall DEF r
  <1>6. Reaches(s, r.union, r.spreader, r.id)
    BY <1>1, MemberWays DEF r
  <1>. QED  BY <1>1, <1>4, <1>5, <1>6 DEF u, q, r

\* Users below the one who left get his spreader.
LEMMA DoesDownlines ==
    ASSUME NEW s, Member(s), Downlines(s), \A u \in Users : Rows(Info(u))
    PROVE  LET r == reqs[s]
           IN /\ Now(r) = "moveDownlines" /\ r.op = "ExitUnion" /\ failed' = failed
              /\ db'.unions = db.unions /\ db'.counters = db.counters
              /\ \A u \in Users : Lowers(Info(u), db'.users[u].info, r.union, r.uid, r.spreader)
              /\ Reaches(s, r.union, r.spreader, r.id)
  <1>. DEFINE r == reqs[s]
              x == r.union
              from == r.uid
              to == r.spreader
              Low(u) == SelectInSeq(Info(u), LAMBDA e : e.union = x /\ e.spreader = from)
              us == [u \in Users |->
                        IF Low(u) = 0 THEN db.users[u]
                        ELSE [db.users[u] EXCEPT !.info[Low(u)].spreader = to]]
  <1>1. Now(r) = "moveDownlines" /\ failed' = failed /\ GoOn(s, r)
    BY MemberIs DEF Downlines, Calm
  <1>2. db' = [db EXCEPT !.users = us]
    BY DEF Downlines, MoveDownlines, Info
  <1>. HIDE DEF us
  <1>3. db'.users = us /\ db'.unions = db.unions /\ db'.counters = db.counters
    BY <1>2, OneField, MemberDocs
  <1>4. ASSUME NEW u \in Users
        PROVE  Lowers(Info(u), us[u].info, x, from, to)
    <2>. DEFINE q == Info(u)
                k == Low(u)
                e == [q[k] EXCEPT !.spreader = to]
                p == [q EXCEPT ![k] = e]
    <2>0. IsSeq(q) /\ \A i \in DOMAIN q : DOMAIN q[i] = EntryFields
      BY DEF Rows
    <2>1. \/ k = 0 /\ \A i \in DOMAIN q : ~(q[i].union = x /\ q[i].spreader = from)
          \/ k # 0 /\ k \in DOMAIN q /\ q[k].union = x /\ q[k].spreader = from
      <3>. DEFINE I == {i \in 1 .. Len(q) : q[i].union = x /\ q[i].spreader = from}
      <3>1. k = IF I # {} THEN Min(I) ELSE 0
        BY DEF SelectInSeq
      <3>2. DOMAIN q = 1 .. Len(q) /\ Len(q) \in Nat
        BY <2>0 DEF IsSeq
      <3>3. I # {} => Min(I) \in I
        <4>1. I \in SUBSET Nat
          BY <3>2
        <4>. HIDE DEF I
        <4>. QED  BY <4>1, LeastExists DEF Min
      <3>. QED  BY <3>1, <3>2, <3>3
    <2>. HIDE DEF Low
    <2>2. CASE k = 0
      <3>1. us[u] = db.users[u]
        BY <2>2 DEF us
      <3>2. us[u].info = q
        BY <3>1 DEF Info
      <3>. HIDE DEF q, k
      <3>. QED  BY <2>0, <2>1, <2>2, <3>2 DEF Lowers, q
    <2>3. CASE k # 0
      <3>1. us[u] = [db.users[u] EXCEPT !.info = p]
        BY <2>3 DEF us, Info
      <3>2. us[u].info = p
        <4>1. DOMAIN db.users[u] = UserFields
          BY MemberDocs DEF HasLocks
        <4>. HIDE DEF p
        <4>. QED  BY <3>1, <4>1 DEF UserFields
      <3>3. k \in DOMAIN q /\ q[k].union = x /\ q[k].spreader = from
        BY <2>1, <2>3
      <3>4. /\ DOMAIN e = EntryFields /\ e.union = q[k].union /\ e.invite = q[k].invite
            /\ e.spreader = to
        <4>1. DOMAIN q[k] = EntryFields
          BY <2>0, <3>3
        <4>. HIDE DEF q, k
        <4>. QED  BY <4>1 DEF EntryFields
      <3>. HIDE DEF e
      <3>5. /\ IsSeq(p) /\ DOMAIN p = DOMAIN q /\ p[k] = e
            /\ \A i \in DOMAIN q \ {k} : p[i] = q[i]
        <4>. HIDE DEF q, k
        <4>. QED  BY <2>0, <3>3, Replacing
      <3>. HIDE DEF p, q, k
      <3>6. Lowers(q, p, x, from, to)
        BY <2>0, <3>3, <3>4, <3>5 DEF Lowers
      <3>. QED  BY <3>2, <3>6 DEF q
    <2>. QED  BY <2>2, <2>3
  <1>. HIDE DEF r
  <1>5. r.op = "ExitUnion"
    BY <1>1, MembersCall DEF r
  <1>6. Reaches(s, r.union, r.spreader, r.id)
    BY <1>1, MemberWays DEF r
  <1>. QED  BY <1>1, <1>3, <1>4, <1>5, <1>6 DEF r

-----------------------------------------------------------------------------
(* The calls of the other requests. *)

\* A list with the same unions, ids and spreaders.
AlikeRows(q, p) ==
    /\ IsSeq(p) /\ DOMAIN p = DOMAIN q
    /\ \A i \in DOMAIN q : /\ DOMAIN p[i] = EntryFields
                           /\ p[i].union = q[i].union /\ p[i].invite = q[i].invite
                           /\ p[i].spreader = q[i].spreader
AlikeLists(d) == \A u \in Users : Rows(Info(u)) => AlikeRows(Info(u), d.users[u].info)

\* Unions with the same ids, owners and numbers of members.
AlikeUnions(d) ==
    /\ DOMAIN d.unions = DOMAIN db.unions
    /\ \A i \in DOMAIN db.unions :
          /\ d.unions[i].id = db.unions[i].id /\ d.unions[i].owner = db.unions[i].owner
          /\ d.unions[i].curMember = db.unions[i].curMember

AlikeDocs(d) == d.counters = db.counters /\ AlikeUnions(d) /\ AlikeLists(d)

\* A list is like itself, and like one with another score or partner.
LEMMA RowsAlike ==
    ASSUME NEW q, Rows(q)
    PROVE  /\ AlikeRows(q, q)
           /\ \A k \in DOMAIN q : \A n :
                 /\ AlikeRows(q, [q EXCEPT ![k] = [q[k] EXCEPT !.score = n]])
                 /\ AlikeRows(q, [q EXCEPT ![k] = [q[k] EXCEPT !.partner = n]])
  <1>1. AlikeRows(q, q)
    BY DEF AlikeRows, Rows
  <1>2. ASSUME NEW k \in DOMAIN q, NEW e, DOMAIN e = EntryFields, e.union = q[k].union,
               e.invite = q[k].invite, e.spreader = q[k].spreader
        PROVE  AlikeRows(q, [q EXCEPT ![k] = e])
    <2>. DEFINE p == [q EXCEPT ![k] = e]
    <2>1. IsSeq(p) /\ DOMAIN p = DOMAIN q /\ p[k] = e /\ \A j \in DOMAIN q \ {k} : p[j] = q[j]
      BY Replacing DEF Rows
    <2>. HIDE DEF p
    <2>2. AlikeRows(q, p)
      BY <1>2, <2>1 DEF AlikeRows, Rows
    <2>. QED  BY <2>2 DEF p
  <1>3. ASSUME NEW k \in DOMAIN q, NEW n
        PROVE  /\ AlikeRows(q, [q EXCEPT ![k] = [q[k] EXCEPT !.score = n]])
               /\ AlikeRows(q, [q EXCEPT ![k] = [q[k] EXCEPT !.partner = n]])
    <2>. DEFINE e == [q[k] EXCEPT !.score = n]
                f == [q[k] EXCEPT !.partner = n]
    <2>1. DOMAIN q[k] = EntryFields
      BY DEF Rows
    <2>2. /\ DOMAIN e = EntryFields /\ e.union = q[k].union
          /\ e.invite = q[k].invite /\ e.spreader = q[k].spreader
          /\ DOMAIN f = EntryFields /\ f.union = q[k].union
          /\ f.invite = q[k].invite /\ f.spreader = q[k].spreader
      BY <2>1 DEF EntryFields
    <2>. HIDE DEF e, f
    <2>3. AlikeRows(q, [q EXCEPT ![k] = e]) /\ AlikeRows(q, [q EXCEPT ![k] = f])
      BY <1>2, <2>2
    <2>. QED  BY <2>3 DEF e, f
  <1>. QED  BY <1>1, <1>3

\* Documents with the same users are alike where unions and counters are.
LEMMA SameAlike ==
    ASSUME NEW d, d.users = db.users, d.unions = db.unions, d.counters = db.counters
    PROVE  AlikeDocs(d)
  BY RowsAlike DEF AlikeDocs, AlikeUnions, AlikeLists, Info

\* Other users, or another list of one.
LEMMA UsersAlike ==
    ASSUME DocsShaped, NEW us,
           \A u \in Users : Rows(Info(u)) => AlikeRows(Info(u), us[u].info)
    PROVE  AlikeDocs([db EXCEPT !.users = us])
  <1>. DEFINE d == [db EXCEPT !.users = us]
  <1>1. d.users = us /\ d.unions = db.unions /\ d.counters = db.counters
    BY OneField
  <1>. HIDE DEF d
  <1>2. AlikeDocs(d)
    BY <1>1 DEF AlikeDocs, AlikeUnions, AlikeLists
  <1>. QED  BY <1>2 DEF d

\* Another list of one user.
LEMMA ListAlike ==
    ASSUME DocsShaped, HasLocks(db), NEW u \in Users, NEW p,
           Rows(Info(u)) => AlikeRows(Info(u), p)
    PROVE  AlikeDocs([db EXCEPT !.users[u].info = p])
  <1>. DEFINE us == [db.users EXCEPT ![u] = [db.users[u] EXCEPT !.info = p]]
              d == [db EXCEPT !.users = us]
  <1>0. d = [db EXCEPT !.users[u].info = p]
    OBVIOUS
  <1>1. d.users[u].info = p /\ \A v \in Users \ {u} : d.users[v].info = Info(v)
    BY <1>0, OneList
  <1>. HIDE DEF us
  <1>2. d.users = us
    BY OneField
  <1>3. \A v \in Users : Rows(Info(v)) => AlikeRows(Info(v), us[v].info)
    <2>. HIDE DEF d
    <2>. QED  BY <1>1, <1>2, RowsAlike
  <1>4. AlikeDocs(d)
    BY <1>3, UsersAlike
  <1>. QED  BY <1>0, <1>4

\* A score, or a partner.
LEMMA ScoreAlike ==
    ASSUME DocsShaped, HasLocks(db), NEW u \in Users, NEW x, InUnion(u, x)
    PROVE  /\ \A n : AlikeDocs(IncScore(db, u, x, n))
           /\ AlikeDocs([db EXCEPT !.users[u].info[EntryOf(u, x)].partner = TRUE])
  <1>. DEFINE q == Info(u)
              k == EntryOf(u, x)
  <1>1. ASSUME Rows(q)
        PROVE  k \in DOMAIN q
    <2>1. k = EntryIn(q, x) /\ k # 0
      BY DEF EntryOf, EntryIn, Info, InUnion
    <2>2. \E S : q \in Seq(S)
      BY <1>1 DEF Rows, IsSeq
    <2>. HIDE DEF q, k
    <2>. QED  BY <2>1, <2>2, EntryInIs
  <1>2. ASSUME NEW n
        PROVE  AlikeDocs(IncScore(db, u, x, n))
    <2>. DEFINE m == q[k].score + n
                p == [q EXCEPT ![k] = [q[k] EXCEPT !.score = m]]
    <2>1. IncScore(db, u, x, n) = [db EXCEPT !.users[u].info = p]
      BY DEF IncScore, Info
    <2>. HIDE DEF q, k, m
    <2>2. Rows(q) => AlikeRows(q, p)
      BY <1>1, RowsAlike
    <2>. HIDE DEF p
    <2>. QED  BY <2>1, <2>2, ListAlike DEF q
  <1>3. AlikeDocs([db EXCEPT !.users[u].info[k].partner = TRUE])
    <2>. DEFINE p == [q EXCEPT ![k] = [q[k] EXCEPT !.partner = TRUE]]
    <2>1. [db EXCEPT !.users[u].info[k].partner = TRUE] = [db EXCEPT !.users[u].info = p]
      BY DEF Info
    <2>. HIDE DEF q, k
    <2>2. Rows(q) => AlikeRows(q, p)
      BY <1>1, RowsAlike
    <2>. HIDE DEF p
    <2>. QED  BY <2>1, <2>2, ListAlike DEF q
  <1>. QED  BY <1>2, <1>3

\* A lock.
LEMMA LockAlike ==
    ASSUME NEW d, DOMAIN d = DbFields, HasLocks(d), AlikeDocs(d), NEW u \in Users, NEW b
    PROVE  AlikeDocs(Locking(d, u, b))
  <1>. DEFINE e == Locking(d, u, b)
  <1>1. \A v \in Users : e.users[v].info = d.users[v].info
    BY LockingLists
  <1>2. e.unions = d.unions /\ e.counters = d.counters
    BY DEF Locking, DbFields
  <1>. HIDE DEF e
  <1>3. AlikeDocs(e)
    BY <1>1, <1>2 DEF AlikeDocs, AlikeUnions, AlikeLists
  <1>. QED  BY <1>3 DEF e

\* What the other requests of the hall do.
LEMMA OtherDoes ==
    ASSUME NEW s, Works(s), reqs[s].op \notin MemberOps, ClubWay(reqs[s]),
           SharedStep(s) \/ HallStep(s)
    PROVE  /\ reqs[s].todo \in Seq(OtherCalls) /\ ~At(s, "exists")
           /\ \/ UnLockSelf(s) \/ UnLockOther(s) \/ FindUnion(s) \/ FindUser(s) \/ FindOther(s)
              \/ SetPartner(s) \/ Lock(s) \/ UpdateSafe(s) \/ Debit(s) \/ Credit(s)
              \/ Record(s) \/ RecordOther(s) \/ Panic(s) \/ HallFault(s)
  <1>. DEFINE r == reqs[s]
  <1>1. r.todo \in Seq(OtherCalls) /\ Now(r) \in OtherCalls
    <2>1. r.todo \in Seq(OtherCalls) /\ r.todo # <<>>
      BY DEF Works, Shaped, Busy, Formed, ClubWay
    <2>. HIDE DEF r
    <2>. QED  BY <2>1 DEF Now
  <1>2. \A y \in {"exists", "set", "incr", "findInviter", "findOwned", "insertUnion",
                  "addToSet", "countMember", "push", "pull", "moveDownlines",
                  "uncountMember"} : ~At(s, y)
    BY <1>1, HallWays DEF OtherCalls
  <1>3. \/ UnLockSelf(s) \/ UnLockOther(s) \/ FindUnion(s) \/ FindUser(s) \/ FindOther(s)
        \/ SetPartner(s) \/ Lock(s) \/ UpdateSafe(s) \/ Debit(s) \/ Credit(s)
        \/ Record(s) \/ RecordOther(s) \/ Panic(s) \/ HallFault(s)
    <2>1. /\ ~At(s, "exists") /\ ~At(s, "set") /\ ~At(s, "incr") /\ ~At(s, "findInviter")
          /\ ~At(s, "findOwned") /\ ~At(s, "insertUnion") /\ ~At(s, "addToSet")
          /\ ~At(s, "countMember") /\ ~At(s, "push") /\ ~At(s, "pull")
          /\ ~At(s, "moveDownlines") /\ ~At(s, "uncountMember")
      BY <1>2
    <2>2. /\ ~Exists(s) /\ ~SetBegin(s) /\ ~Incr(s) /\ ~FindInviter(s) /\ ~FindOwned(s)
          /\ ~InsertUnion(s) /\ ~AddToSet(s) /\ ~CountMember(s) /\ ~Push(s) /\ ~Pull(s)
          /\ ~Downlines(s) /\ ~UncountMember(s)
      BY <2>1, Zenon DEF Exists, SetBegin, Incr, FindInviter, FindOwned, InsertUnion, AddToSet,
                         CountMember, Push, Pull, Downlines, UncountMember
    <2>. QED  BY <2>2, Zenon DEF SharedStep, HallStep
  <1>. QED  BY <1>1, <1>2, <1>3

\* The other requests of the hall.
LEMMA HallAlike ==
    ASSUME NEW s, Works(s), reqs[s].op \notin MemberOps, ClubWay(reqs[s]),
           SharedStep(s) \/ HallStep(s)
    PROVE  AlikeDocs(db')
  <1>. DEFINE r == reqs[s]
  <1>0. /\ DocsShaped /\ HasLocks(db) /\ r.uid \in Users /\ r.other \in Users
        /\ DOMAIN db = DbFields /\ DOMAIN r = Fields
    BY HallWays DEF Works, Shaped, MemInv, DocsShaped
  <1>3. \/ UnLockSelf(s) \/ UnLockOther(s) \/ FindUnion(s) \/ FindUser(s) \/ FindOther(s)
        \/ SetPartner(s) \/ Lock(s) \/ UpdateSafe(s) \/ Debit(s) \/ Credit(s)
        \/ Record(s) \/ RecordOther(s) \/ Panic(s) \/ HallFault(s)
    BY OtherDoes
  <1>a. db' = db => AlikeDocs(db')
    BY SameAlike
  <1>b. \A u \in Users : \A b : db' = Locking(db, u, b) => AlikeDocs(db')
    BY <1>0, LockAlike, SameAlike
  <1>4. ASSUME UnLockSelf(s) \/ UnLockOther(s) \/ Lock(s)
        PROVE  AlikeDocs(db')
    <2>1. UnLockSelf(s) \/ UnLockOther(s) => \E u \in Users : db' = Locking(db, u, FALSE)
      BY <1>0 DEF UnLockSelf, UnLockOther
    <2>2. Lock(s) => db' = db \/ \E u : u = [r EXCEPT !.holds = TRUE].uid /\ db' = Locking(db, u, TRUE)
      BY Zenon DEF Lock, r
    <2>3. [r EXCEPT !.holds = TRUE].uid = r.uid
      BY <1>0 DEF Fields
    <2>. HIDE DEF r
    <2>. QED  BY <1>0, <1>4, <1>a, <1>b, <2>1, <2>2, <2>3
  <1>5. ASSUME FindUnion(s) \/ FindUser(s) \/ FindOther(s) \/ UpdateSafe(s) \/ HallFault(s)
               \/ Panic(s)
        PROVE  AlikeDocs(db')
    <2>1. db' = db
      BY <1>5 DEF FindUnion, FindUser, FindOther, UpdateSafe, HallFault, Panic
    <2>. QED  BY <1>a, <2>1
  <1>6. ASSUME Record(s) \/ RecordOther(s)
        PROVE  AlikeDocs(db')
    <2>1. db'.users = db.users /\ db'.unions = db.unions /\ db'.counters = db.counters
      BY <1>6, RecordsOnly
    <2>. QED  BY <2>1, SameAlike
  <1>7. ASSUME SetPartner(s)
        PROVE  AlikeDocs(db')
    <2>1. \/ db' = db
          \/ /\ InUnion(r.other, r.union)
             /\ db' = [db EXCEPT !.users[r.other].info[EntryOf(r.other, r.union)].partner = TRUE]
      BY <1>7, Zenon DEF SetPartner, r
    <2>. HIDE DEF r
    <2>2. InUnion(r.other, r.union) =>
             AlikeDocs([db EXCEPT !.users[r.other].info[EntryOf(r.other, r.union)].partner = TRUE])
      BY <1>0, ScoreAlike
    <2>. QED  BY <1>a, <2>1, <2>2
  <1>8. ASSUME Debit(s) \/ Credit(s)
        PROVE  AlikeDocs(db')
    <2>1. \/ db' = db
          \/ \E u \in {r.uid, r.other} : \E n :
                /\ InUnion(u, r.union)
                /\ \/ db' = IncScore(db, u, r.union, n)
                   \/ db' = Locking(IncScore(db, u, r.union, n), u, FALSE)
      <3>1. Debit(s) => \/ db' = db
                        \/ /\ InUnion(r.uid, r.union)
                           /\ \/ db' = IncScore(db, r.uid, r.union, -r.n)
                              \/ db' = Locking(IncScore(db, r.uid, r.union, -r.n), r.uid, FALSE)
        BY DEF Debit
      <3>2. Credit(s) => \/ db' = db
                         \/ /\ InUnion(r.other, r.union)
                            /\ \/ db' = IncScore(db, r.other, r.union, r.n)
                               \/ db' = Locking(IncScore(db, r.other, r.union, r.n), r.other, FALSE)
        BY DEF Credit
      <3>. HIDE DEF r
      <3>. QED  BY <1>8, <3>1, <3>2
    <2>. HIDE DEF r
    <2>2. ASSUME NEW u \in Users, NEW n, InUnion(u, r.union)
          PROVE  /\ AlikeDocs(IncScore(db, u, r.union, n))
                 /\ AlikeDocs(Locking(IncScore(db, u, r.union, n), u, FALSE))
      <3>. DEFINE e == IncScore(db, u, r.union, n)
      <3>1. AlikeDocs(e)
        BY <1>0, <2>2, ScoreAlike
      <3>2. HasLocks(e)
        BY <1>0, UpdatesKeepLocks DEF SameLocks
      <3>3. DOMAIN e = DbFields
        BY <1>0 DEF IncScore
      <3>. HIDE DEF e
      <3>4. AlikeDocs(Locking(e, u, FALSE))
        BY <3>1, <3>2, <3>3, LockAlike
      <3>. QED  BY <3>1, <3>4 DEF e
    <2>. QED  BY <1>0, <1>a, <2>1, <2>2
  <1>. QED  BY <1>3, <1>4, <1>5, <1>6, <1>7, <1>8

\* A document of a union that changes in other fields.
LEMMA DocAlike ==
    ASSUME DocsShaped, NEW k \in DOMAIN db.unions, NEW e,
           e.id = db.unions[k].id, e.owner = db.unions[k].owner,
           e.curMember = db.unions[k].curMember, db' = [db EXCEPT !.unions[k] = e]
    PROVE  AlikeDocs(db')
  <1>. DEFINE q == [db.unions EXCEPT ![k] = e]
  <1>1. DOMAIN q = DOMAIN db.unions /\ q[k] = e /\ \A j \in DOMAIN db.unions \ {k} : q[j] = db.unions[j]
    BY Replacing DEF DocsShaped
  <1>2. db' = [db EXCEPT !.unions = q]
    OBVIOUS
  <1>. HIDE DEF q
  <1>3. db'.users = db.users /\ db'.unions = q /\ db'.counters = db.counters
    BY <1>2 DEF DocsShaped, DbFields
  <1>4. AlikeUnions(db')
    BY <1>1, <1>3 DEF AlikeUnions
  <1>. QED  BY <1>3, <1>4, RowsAlike DEF AlikeDocs, AlikeLists, Info

\* The game server's.
LEMMA GameAlike ==
    ASSUME NEW s, Plays(s), GameStep(s)
    PROVE  AlikeDocs(db')
  <1>. DEFINE r == reqs[s]
  <1>0. /\ DocsShaped /\ HasLocks(db) /\ r.uid \in Users /\ DOMAIN db = DbFields
    BY PlayerIs DEF Plays, Shaped, MemInv, DocsShaped
  <1>a. db' = db => AlikeDocs(db')
    BY SameAlike
  <1>1. GamePanics => db' = db
    BY DEF GamePanics
  <1>2. ASSUME GetUnion(s) \/ InitUnion(s) \/ KeepUnion(s) \/ FindUserData(s) \/ InRoom(s)
               \/ CreateRoom(s) \/ Proxy(s) \/ Rejoin(s) \/ JoinRoom(s) \/ QuickJoin(s)
               \/ PanicGame(s) \/ CheckHongBao(s) \/ KeepUid(s) \/ Setting(s)
               \/ CacheSetting(s) \/ GameFault(s)
        PROVE  AlikeDocs(db')
    <2>1. InMemory => db' = db
      BY DEF InMemory
    <2>2. GetUnion(s) \/ InitUnion(s) \/ KeepUnion(s) \/ InRoom(s) \/ CreateRoom(s) \/ Rejoin(s)
          \/ JoinRoom(s) \/ CheckHongBao(s) \/ KeepUid(s) \/ Setting(s) \/ CacheSetting(s)
          => InMemory
      BY Zenon DEF GetUnion, InitUnion, KeepUnion, InRoom, CreateRoom, Rejoin, JoinRoom,
                   CheckHongBao, KeepUid, Setting, CacheSetting
    <2>3. QuickJoin(s) => GamePanics \/ InMemory
      BY Zenon DEF QuickJoin
    <2>4. FindUserData(s) \/ Proxy(s) => db' = db
      BY DEF FindUserData, Proxy
    <2>5. PanicGame(s) => GamePanics
      BY DEF PanicGame
    <2>6. GameFault(s) => GamePanics \/ db' = db
      BY DEF GameFault
    <2>. QED  BY <1>1, <1>2, <1>a, <2>1, <2>2, <2>3, <2>4, <2>5, <2>6
  <1>3. ASSUME StoreRoom(s) \/ Leave(s)
        PROVE  AlikeDocs(db')
    <2>. DEFINE New(x) == db' = [db EXCEPT !.users[r.uid].room = x]
    <2>1. db' = db \/ \E x : New(x)
      BY <1>3, Zenon DEF StoreRoom, Leave, r
    <2>. HIDE DEF r
    <2>2. ASSUME NEW x, New(x)
          PROVE  AlikeDocs(db')
      <3>. DEFINE us == [db.users EXCEPT ![r.uid] = [db.users[r.uid] EXCEPT !.room = x]]
      <3>1. \A u \in Users : db'.users[u].info = Info(u)
        BY <1>0, <2>2, RoomLists
      <3>2. db' = [db EXCEPT !.users = us]
        BY <2>2
      <3>. HIDE DEF us
      <3>3. db'.unions = db.unions /\ db'.counters = db.counters
        BY <1>0, <3>2, OneField
      <3>4. AlikeLists(db')
        BY <3>1, RowsAlike DEF AlikeLists
      <3>5. AlikeUnions(db')
        BY <3>3 DEF AlikeUnions
      <3>. QED  BY <3>3, <3>4, <3>5 DEF AlikeDocs
    <2>. HIDE DEF New
    <2>. QED  BY <1>a, <2>1, <2>2
  <1>4. ASSUME Dismiss(s)
        PROVE  AlikeDocs(db')
    <2>1. \/ db' = db
          \/ \E R : db' = [db EXCEPT !.users = [u \in Users |->
                          IF u \in R THEN [@[u] EXCEPT !.room = NoRoom] ELSE @[u]]]
      BY <1>4 DEF Dismiss
    <2>2. ASSUME NEW R, db' = [db EXCEPT !.users = [u \in Users |->
                          IF u \in R THEN [@[u] EXCEPT !.room = NoRoom] ELSE @[u]]]
          PROVE  AlikeDocs(db')
      <3>. DEFINE us == [u \in Users |->
                       IF u \in R THEN [db.users[u] EXCEPT !.room = NoRoom] ELSE db.users[u]]
      <3>1. \A u \in Users : us[u].info = Info(u)
        BY <1>0 DEF HasLocks, UserFields, Info
      <3>2. db' = [db EXCEPT !.users = us]
        BY <2>2
      <3>. HIDE DEF us
      <3>3. \A u \in Users : Rows(Info(u)) => AlikeRows(Info(u), us[u].info)
        BY <3>1, RowsAlike
      <3>. QED  BY <1>0, <3>2, <3>3, UsersAlike
    <2>. QED  BY <1>a, <2>1, <2>2
  <1>5. ASSUME StoreServer(s) \/ RecordHongBao(s)
        PROVE  AlikeDocs(db')
    <2>1. \/ \E x : db' = [db EXCEPT !.servers = x]
          \/ \E x : db' = [db EXCEPT !.changes = x]
      <3>1. StoreServer(s) => db' = [db EXCEPT !.servers = @ \cup {r.n}]
        BY DEF StoreServer
      <3>2. RecordHongBao(s) => db' = [db EXCEPT !.changes[r.uid] = @ + 1]
        BY DEF RecordHongBao
      <3>. QED  BY <1>5, <3>1, <3>2
    <2>2. db'.users = db.users /\ db'.unions = db.unions /\ db'.counters = db.counters
      BY <1>0, <2>1 DEF DbFields
    <2>. QED  BY <2>2, SameAlike
  <1>6. ASSUME StoreUid(s)
        PROVE  AlikeDocs(db')
    <2>. DEFINE k == UnionAt(r.union)
                d == db.unions[k]
                a == Value(s).list
                b == Append(d.uids, r.uid)
                e == [d EXCEPT !.list = a, !.uids = b]
    <2>1. Now(r) = "storeUid"
      BY <1>6, PlayerIs DEF StoreUid
    <2>2. k \in DOMAIN db.unions /\ UnionOf(r.union) = d
      BY <2>1, HandleIs DEF HandleCalls
    <2>3. db' = [db EXCEPT !.unions[k] = e]
      BY <1>6, <2>2 DEF StoreUid
    <2>4. e.id = d.id /\ e.owner = d.owner /\ e.curMember = d.curMember
      <3>1. DOMAIN d = DocFields
        BY <1>0, <2>2 DEF DocsShaped, DocShaped
      <3>. HIDE DEF d, a, b
      <3>. QED  BY <3>1 DEF DocFields
    <2>. HIDE DEF e, k
    <2>. QED  BY <1>0, <2>2, <2>3, <2>4, DocAlike
  <1>7. ASSUME StoreSetting(s)
        PROVE  AlikeDocs(db')
    <2>. DEFINE k == UnionAt(r.union)
                d == db.unions[k]
                e == SetInDoc(d, r)
    <2>1. Now(r) = "storeSetting"
      BY <1>7, PlayerIs DEF StoreSetting
    <2>2. k \in DOMAIN db.unions /\ UnionOf(r.union) = d
      BY <2>1, HandleIs DEF HandleCalls
    <2>3. db' = [db EXCEPT !.unions[k] = e]
      BY <1>7, <2>2 DEF StoreSetting
    <2>4. e.id = d.id /\ e.owner = d.owner /\ e.curMember = d.curMember
      <3>1. DocShaped(d)
        BY <1>0, <2>2 DEF DocsShaped
      <3>2. r.op \in SettingOps
        <4>1. r.op \in GameOps /\ Now(r) \in CallsOf(r.op)
          BY PlayerIs DEF Plays
        <4>. QED  BY <2>1, <4>1, WhoCalls
      <3>. HIDE DEF d, r
      <3>. QED  BY <3>1, <3>2, SetsInDoc
    <2>. HIDE DEF e, k
    <2>. QED  BY <1>0, <2>2, <2>3, <2>4, DocAlike
  <1>8. ASSUME CreditHongBao(s)
        PROVE  AlikeDocs(db')
    <2>1. GamePanics \/ (InUnion(r.uid, r.union) /\ db' = IncScore(db, r.uid, r.union, 1))
      BY <1>8 DEF CreditHongBao, r
    <2>. HIDE DEF r
    <2>. QED  BY <1>0, <1>1, <1>a, <2>1, ScoreAlike
  <1>. QED  BY <1>2, <1>3, <1>4, <1>5, <1>6, <1>7, <1>8 DEF GameStep

-----------------------------------------------------------------------------
(* A list without the entries of a union. *)

\* The entries of other unions, each once.
Sifts(q, p, x) ==
    /\ Rows(p)
    /\ \E f : /\ \A k \in DOMAIN p :
                    f[k] \in DOMAIN q /\ q[f[k]].union # x /\ p[k] = q[f[k]]
              /\ \A k, l \in DOMAIN p : f[k] = f[l] => k = l
              /\ \A i \in DOMAIN q : q[i].union # x => \E k \in DOMAIN p : f[k] = i

\* How many of some numbers are not above a number.
UpTo(K, i) == Cardinality({j \in K : j <= i})

\* They are counted one by one.
LEMMA UpToCounts ==
    ASSUME NEW n \in Nat, NEW K \in SUBSET (1 .. n)
    PROVE  /\ IsFiniteSet(K) /\ Cardinality(K) \in Nat
           /\ UpTo(K, 0) = 0 /\ UpTo(K, n) = Cardinality(K)
           /\ \A i \in Nat : UpTo(K, i) \in Nat
           /\ \A i \in 1 .. n : UpTo(K, i) = IF i \in K THEN UpTo(K, i - 1) + 1 ELSE UpTo(K, i - 1)
           /\ \A i \in K : \A j \in K : j < i => UpTo(K, j) < UpTo(K, i)
  <1>. DEFINE S(i) == {j \in K : j <= i}
  <1>0. \A j \in K : j \in Nat /\ 1 <= j /\ j <= n
    OBVIOUS
  <1>1. IsFiniteSet(K)
    <2>1. IsFiniteSet(1 .. n)
      BY FS_Interval
    <2>. QED  BY <2>1, FS_Subset
  <1>2. \A i : IsFiniteSet(S(i)) /\ Cardinality(S(i)) \in Nat
    BY <1>1, FS_Subset, FS_CardinalityType
  <1>3. Cardinality(K) \in Nat
    BY <1>1, FS_CardinalityType
  <1>a. \A i : UpTo(K, i) = Cardinality(S(i))
    BY DEF UpTo
  <1>b. \A i : \A j : j \in S(i) <=> j \in K /\ j <= i
    OBVIOUS
  <1>. HIDE DEF S
  <1>4. S(0) = {} /\ S(n) = K
    <2>0. \A j \in K : ~(j <= 0) /\ j <= n
      BY <1>0
    <2>1. \A j : j \notin S(0)
      BY <1>b, <2>0
    <2>2. \A j : j \in S(n) <=> j \in K
      BY <1>b, <2>0
    <2>. QED  BY <2>1, <2>2
  <1>5. ASSUME NEW i \in 1 .. n
        PROVE  UpTo(K, i) = IF i \in K THEN UpTo(K, i - 1) + 1 ELSE UpTo(K, i - 1)
    <2>1. CASE i \in K
      <3>1. S(i) = S(i - 1) \cup {i} /\ i \notin S(i - 1)
        <4>1. \A j \in K : j <= i <=> (j <= i - 1) \/ j = i
          BY <1>0
        <4>2. \A j : j \in S(i) <=> j \in S(i - 1) \/ j = i
          BY <1>b, <2>1, <4>1
        <4>3. i \notin S(i - 1)
          BY <1>b
        <4>. QED  BY <4>2, <4>3
      <3>2. Cardinality(S(i)) = Cardinality(S(i - 1)) + 1
        BY <1>2, <3>1, FS_AddElement
      <3>. QED  BY <1>a, <2>1, <3>2
    <2>2. CASE i \notin K
      <3>1. S(i) = S(i - 1)
        <4>1. \A j \in K : j <= i <=> j <= i - 1
          BY <1>0, <2>2
        <4>2. \A j : j \in S(i) <=> j \in S(i - 1)
          BY <1>b, <4>1
        <4>. QED  BY <4>2
      <3>. QED  BY <1>a, <2>2, <3>1
    <2>. QED  BY <2>1, <2>2
  <1>6. ASSUME NEW i \in K, NEW j \in K, j < i
        PROVE  UpTo(K, j) < UpTo(K, i)
    <2>1. S(j) \cup {i} \subseteq S(i) /\ i \notin S(j)
      <3>1. \A k \in K : k <= j => k <= i /\ k # i
        BY <1>0, <1>6
      <3>2. i <= i
        BY <1>0, <1>6
      <3>. QED  BY <1>b, <1>6, <3>1, <3>2
    <2>2. Cardinality(S(j) \cup {i}) = Cardinality(S(j)) + 1
      BY <1>2, <2>1, FS_AddElement
    <2>3. Cardinality(S(j) \cup {i}) <= Cardinality(S(i))
      BY <1>2, <2>1, FS_Subset
    <2>4. Cardinality(S(j)) < Cardinality(S(i))
      BY <1>2, <2>2, <2>3
    <2>. QED  BY <1>a, <2>4
  <1>. QED  BY <1>1, <1>2, <1>3, <1>4, <1>5, <1>6, <1>a, FS_EmptySet

\* Each of them has a place of its own.
LEMMA PlacesAre ==
    ASSUME NEW n \in Nat, NEW K \in SUBSET (1 .. n)
    PROVE  \A k \in 1 .. Cardinality(K) : \E i \in K : UpTo(K, i) = k
  <1>. DEFINE c == Cardinality(K)
  <1>1. /\ c \in Nat /\ UpTo(K, 0) = 0 /\ UpTo(K, n) = c
        /\ \A i \in Nat : UpTo(K, i) \in Nat
        /\ \A i \in 1 .. n : UpTo(K, i) = IF i \in K THEN UpTo(K, i - 1) + 1 ELSE UpTo(K, i - 1)
    BY UpToCounts
  <1>. HIDE DEF c
  <1>2. ASSUME NEW k \in 1 .. c
        PROVE  \E i \in K : UpTo(K, i) = k
    <2>. DEFINE M == {i \in Nat : i <= n /\ UpTo(K, i) >= k}
    <2>1. n \in M
      BY <1>1
    <2>2. PICK m \in M : \A i \in M : m <= i
      BY <2>1, LeastExists
    <2>3. m # 0 /\ m \in 1 .. n
      BY <1>1, <2>2
    <2>4. m - 1 \notin M /\ m - 1 \in Nat
      BY <2>2, <2>3
    <2>5. UpTo(K, m - 1) < k /\ UpTo(K, m) >= k
      BY <1>1, <2>2, <2>3, <2>4
    <2>6. m \in K /\ UpTo(K, m) = k
      BY <1>1, <2>3, <2>4, <2>5
    <2>. QED  BY <2>6
  <1>. QED  BY <1>2 DEF c

\* The entries that stay when a user leaves a union.
LEMMA OthersSift ==
    ASSUME NEW q, Rows(q), NEW x
    PROVE  Sifts(q, OtherEntries(q, x), x)
  <1>. DEFINE K == {i \in DOMAIN q : q[i].union # x}
              f == [k \in 1 .. Cardinality(K) |-> CHOOSE i \in K : UpTo(K, i) = k]
              p == OtherEntries(q, x)
              c == Cardinality(K)
  <1>1. p = [k \in 1 .. c |-> q[CHOOSE i \in K : UpTo(K, i) = k]]
    BY DEF OtherEntries, UpTo
  <1>2. p = [k \in 1 .. c |-> q[f[k]]]
    BY <1>1
  <1>3. DOMAIN q = 1 .. Len(q) /\ Len(q) \in Nat
    BY DEF Rows, IsSeq
  <1>4. K \in SUBSET (1 .. Len(q))
    BY <1>3
  <1>5. \A i \in K : i \in DOMAIN q /\ q[i].union # x
    OBVIOUS
  <1>6. \A i \in DOMAIN q : q[i].union # x => i \in K
    OBVIOUS
  <1>. HIDE DEF K
  <1>7. /\ c \in Nat /\ \A i \in K : \A j \in K : j < i => UpTo(K, j) < UpTo(K, i)
        /\ \A i \in Nat : UpTo(K, i) \in Nat
        /\ UpTo(K, 0) = 0 /\ UpTo(K, Len(q)) = c
    BY <1>3, <1>4, UpToCounts
  <1>8. \A k \in 1 .. c : \E i \in K : UpTo(K, i) = k
    BY <1>3, <1>4, PlacesAre
  <1>. HIDE DEF c, p
  <1>9. \A k \in 1 .. c : f[k] \in K /\ UpTo(K, f[k]) = k
    BY <1>8 DEF c
  <1>10. \A i \in K : UpTo(K, i) \in 1 .. c
    <2>1. TAKE i \in K
    <2>2. i \in Nat /\ UpTo(K, i) \in Nat
      BY <1>4, <1>7
    <2>3. UpTo(K, i) >= 1
      <3>1. /\ IsFiniteSet({i}) /\ Cardinality({i}) = 1
        BY FS_Singleton
      <3>2. {i} \in SUBSET {j \in K : j <= i}
        BY <2>2
      <3>3. IsFiniteSet({j \in K : j <= i})
        <4>1. IsFiniteSet(K)
          BY <1>3, <1>4, UpToCounts
        <4>. QED  BY <4>1, FS_Subset
      <3>4. Cardinality({i}) <= Cardinality({j \in K : j <= i})
        BY <3>2, <3>3, FS_Subset
      <3>. QED  BY <3>1, <3>4 DEF UpTo
    <2>4. UpTo(K, i) <= c
      <3>1. IsFiniteSet(K)
        BY <1>3, <1>4, UpToCounts
      <3>. QED  BY <3>1, FS_Subset DEF UpTo, c
    <2>. QED  BY <1>7, <2>2, <2>3, <2>4
  <1>11. \A i \in K : f[UpTo(K, i)] = i
    <2>1. TAKE i \in K
    <2>2. f[UpTo(K, i)] \in K /\ UpTo(K, f[UpTo(K, i)]) = UpTo(K, i)
      BY <1>9, <1>10
    <2>3. \A j \in K : UpTo(K, j) = UpTo(K, i) => j = i
      BY <1>4, <1>7
    <2>. QED  BY <2>2, <2>3
  <1>12. DOMAIN p = 1 .. c /\ \A k \in 1 .. c : p[k] = q[f[k]]
    BY <1>2 DEF c
  <1>. HIDE DEF f
  <1>13. Rows(p)
    <2>1. PICK S : q \in Seq(S)
      BY DEF Rows, IsSeq
    <2>2. \A k \in 1 .. c : p[k] \in S
      BY <1>5, <1>9, <1>12, <2>1
    <2>3. p = [k \in 1 .. c |-> p[k]]
      <3>1. p = [k \in 1 .. c |-> q[f[k]]]
        BY <1>2 DEF c
      <3>. QED  BY <1>12, <3>1
    <2>4. p \in Seq(S)
      BY <1>7, <2>2, <2>3
    <2>. QED  BY <1>5, <1>9, <1>12, <2>4 DEF Rows, IsSeq
  <1>14. /\ \A k \in DOMAIN p : f[k] \in DOMAIN q /\ q[f[k]].union # x /\ p[k] = q[f[k]]
         /\ \A k, l \in DOMAIN p : f[k] = f[l] => k = l
         /\ \A i \in DOMAIN q : q[i].union # x => \E k \in DOMAIN p : f[k] = i
    <2>1. \A k, l \in 1 .. c : f[k] = f[l] => k = l
      BY <1>9
    <2>. QED  BY <1>5, <1>6, <1>9, <1>10, <1>11, <1>12, <2>1
  <1>. QED  BY <1>13, <1>14 DEF Sifts, p

-----------------------------------------------------------------------------
(* A request for a member has the rest of its handler before it. *)

Involved(s) == s \in Busy /\ reqs[s].op \in MemberOps

\* A step that is nobody's membership: requests for members wait, or are lost
\* by a panic.
Aside ==
    /\ AlikeDocs(db')
    /\ \A p \in Slots : Involved(p)' => Involved(p) /\ reqs'[p] = reqs[p]
    /\ failed' = {} => \A p \in Slots : Involved(p) => Involved(p)'
OthersOk ==
    \A p \in Slots : p \in Busy' /\ reqs'[p].op \in HallOps \ MemberOps
                        => reqs'[p].todo \in Seq(OtherCalls)

\* Another request of the hall goes on.
Strolls(s) ==
    /\ OthersWait(s) /\ reqs'[s] # Idle /\ reqs'[s].op = reqs[s].op
    /\ reqs'[s].todo \in Seq(OtherCalls)

\* It ends or goes on with calls of the same kind.
LEMMA OtherGoes ==
    ASSUME NEW s, Works(s), reqs[s].op \notin MemberOps, ClubWay(reqs[s]),
           SharedStep(s) \/ HallStep(s), ~Panic(s)
    PROVE  Quits(s) \/ Strolls(s)
  <1>. DEFINE r == reqs[s]
              S == Seq(OtherCalls)
              Fine == Quits(s) \/ Strolls(s)
              Kin(k) == DOMAIN k = Fields /\ k.op = r.op /\ k.uid = r.uid /\ k.todo = r.todo
  <1>1. /\ s \in Slots /\ DOMAIN reqs = Slots /\ DOMAIN r = Fields /\ r # Idle /\ r.todo # <<>>
    BY DEF Works, Shaped, Busy, Formed
  <1>2. /\ r.todo \in S /\ ~At(s, "exists")
        /\ \/ UnLockSelf(s) \/ UnLockOther(s) \/ FindUnion(s) \/ FindUser(s) \/ FindOther(s)
           \/ SetPartner(s) \/ Lock(s) \/ UpdateSafe(s) \/ Debit(s) \/ Credit(s)
           \/ Record(s) \/ RecordOther(s) \/ HallFault(s)
    BY OtherDoes
  <1>3. Tail(r.todo) \in S
    BY <1>1, <1>2
  <1>4. /\ <<"unLockSelf">> \in S /\ <<"unLockSelf", "unLockOther">> \in S
        /\ <<"unLockSelf", "credit", "record">> \in S /\ <<"credit", "panic">> \in S
        /\ <<"unLockSelf", "credit", "record", "recordOther">> \in S
    BY DEF OtherCalls
  <1>5. ASSUME NEW k, Kin(k), NEW q \in S, Then(s, k, q)
        PROVE  Fine
    <2>. DEFINE e == [k EXCEPT !.todo = q]
    <2>1. DOMAIN e = Fields /\ e.todo = q /\ e.op = r.op
      BY <1>5 DEF Fields
    <2>2. reqs' = [reqs EXCEPT ![s] = IF q = <<>> THEN Idle ELSE e]
      BY <1>5 DEF Then
    <2>3. e # Idle
      BY <2>1, IdleIsNot
    <2>. HIDE DEF e
    <2>4. OthersWait(s) /\ reqs'[s] = IF q = <<>> THEN Idle ELSE e
      BY <1>1, <2>2 DEF OthersWait
    <2>. QED  BY <2>1, <2>3, <2>4 DEF Quits, Strolls
  <1>6. Refuse(s) => Fine
    BY HallWays
  <1>7. /\ \A x : Kin([r EXCEPT !.owner = x]) /\ Kin([r EXCEPT !.spreader = x])
                  /\ Kin([r EXCEPT !.holds = x])
        /\ Kin(r)
    BY <1>1, HallRecalls
  <1>. HIDE DEF Fine, S
  <1>8. ASSUME NEW k, Kin(k)
        PROVE  /\ GoOn(s, k) => Fine
               /\ \A q \in S : Then(s, k, q) => Fine
    BY <1>3, <1>5, <1>8 DEF GoOn
  <1>. HIDE DEF r, Kin
  <1>9. CASE UnLockSelf(s) \/ UnLockOther(s) \/ Record(s) \/ RecordOther(s)
    <2>1. GoOn(s, r) \/ GoOn(s, [r EXCEPT !.holds = FALSE])
      BY <1>9 DEF UnLockSelf, UnLockOther, Record, RecordOther, r
    <2>. QED  BY <1>7, <1>8, <2>1 DEF Fine
  <1>10. CASE FindUnion(s)
    <2>1. Refuse(s) \/ \E x : GoOn(s, [r EXCEPT !.owner = x])
      BY <1>10 DEF FindUnion, r
    <2>. QED  BY <1>6, <1>7, <1>8, <2>1 DEF Fine
  <1>11. CASE FindUser(s)
    <2>1. \/ Refuse(s) \/ GoOn(s, r) \/ Then(s, r, <<"unLockSelf">>)
          \/ \E x : GoOn(s, [r EXCEPT !.spreader = x])
      BY <1>11 DEF FindUser, r
    <2>. QED  BY <1>4, <1>6, <1>7, <1>8, <2>1 DEF Fine
  <1>12. CASE FindOther(s)
    <2>1. \/ Refuse(s) \/ GoOn(s, r) \/ Then(s, r, <<"unLockSelf">>)
          \/ Then(s, r, <<"unLockSelf", "unLockOther">>)
          \/ Then(s, r, <<"unLockSelf", "credit", "record">>)
          \/ Then(s, r, <<"unLockSelf", "credit", "record", "recordOther">>)
      BY <1>12 DEF FindOther, r
    <2>. QED  BY <1>4, <1>6, <1>7, <1>8, <2>1 DEF Fine
  <1>13. CASE SetPartner(s) \/ UpdateSafe(s) \/ Credit(s)
    <2>1. /\ SetPartner(s) => Refuse(s) \/ GoOn(s, r)
          /\ UpdateSafe(s) => Refuse(s)
          /\ Credit(s) => Refuse(s) \/ GoOn(s, r)
      BY Zenon DEF SetPartner, UpdateSafe, Credit, Fail, r
    <2>. QED  BY <1>6, <1>7, <1>8, <1>13, <2>1 DEF Fine
  <1>14. CASE Lock(s)
    <2>. DEFINE k == [r EXCEPT !.holds = TRUE]
    <2>1. Refuse(s) \/ GoOn(s, k) \/ Then(s, k, <<"unLockSelf">>)
      BY <1>14 DEF Lock, r
    <2>2. Kin(k)
      BY <1>7
    <2>. HIDE DEF k
    <2>. QED  BY <1>4, <1>6, <1>8, <2>1, <2>2 DEF Fine
  <1>15. CASE Debit(s)
    <2>1. \/ Refuse(s) \/ GoOn(s, r) \/ GoOn(s, [r EXCEPT !.holds = FALSE])
          \/ Then(s, r, <<"credit", "panic">>)
      BY <1>15 DEF Debit, Fail, r
    <2>. QED  BY <1>4, <1>6, <1>7, <1>8, <2>1 DEF Fine
  <1>16. CASE HallFault(s)
    <2>1. \/ Refuse(s) \/ GoOn(s, r) \/ GoOn(s, [r EXCEPT !.holds = FALSE])
          \/ Then(s, r, <<"credit", "panic">>)
      BY <1>2, <1>16 DEF HallFault, r
    <2>. QED  BY <1>4, <1>6, <1>7, <1>8, <2>1 DEF Fine
  <1>. QED
    BY <1>2, <1>9, <1>10, <1>11, <1>12, <1>13, <1>14, <1>15, <1>16 DEF Fine

\* One request goes on, and not in the hall for a member.
LEMMA OneAside ==
    ASSUME NEW s \in Slots, OthersWait(s), AlikeDocs(db'), ~Involved(s), ~Involved(s)'
    PROVE  Aside
  <1>1. \A p \in Slots \ {s} : reqs'[p] = reqs[p]
    BY DEF OthersWait
  <1>2. \A p \in Slots : (Involved(p)' <=> Involved(p)) /\ (Involved(p)' => reqs'[p] = reqs[p])
    BY <1>1 DEF Involved, Busy
  <1>. QED  BY <1>2 DEF Aside

\* A step of another request of the hall.
LEMMA HallAside ==
    ASSUME NEW s, Works(s), reqs[s].op \notin MemberOps, WaysInv,
           SharedStep(s) \/ HallStep(s)
    PROVE  Aside /\ OthersOk
  <1>0. s \in Busy /\ s \in Slots /\ ClubWay(reqs[s])
    BY DEF Works, Busy, WaysInv
  <1>1. AlikeDocs(db')
    BY <1>0, HallAlike
  <1>2. \A p \in Busy : reqs[p].op \in HallOps \ MemberOps => reqs[p].todo \in Seq(OtherCalls)
    BY DEF WaysInv, ClubWay
  <1>3. ASSUME Panic(s)
        PROVE  Aside /\ OthersOk
    <2>. DEFINE L == {p \in Slots : reqs[p] # Idle /\ reqs[p].op \in HallOps}
    <2>1. /\ reqs' = [p \in Slots |-> IF p \in L THEN Idle ELSE reqs[p]]
          /\ failed' = failed \cup {reqs[p].uid : p \in L}
      BY <1>3 DEF Panic, HallPanics
    <2>2. s \in L /\ \A p \in Slots : p \in L <=> reqs[p] # Idle /\ reqs[p].op \in HallOps
      BY <1>0 DEF Works, Busy
    <2>. HIDE DEF L
    <2>3. failed' # {} /\ \A p \in Slots : reqs'[p] = IF p \in L THEN Idle ELSE reqs[p]
      BY <2>1, <2>2
    <2>4. \A p \in Slots : p \in Busy' => p \in Busy /\ reqs'[p] = reqs[p] /\ reqs[p].op \notin HallOps
      BY <2>2, <2>3 DEF Busy
    <2>5. MemberOps \subseteq HallOps
      BY OpsByName DEF MemberOps
    <2>. QED  BY <1>1, <2>3, <2>4, <2>5 DEF Aside, OthersOk, Involved
  <1>4. ASSUME ~Panic(s)
        PROVE  Aside /\ OthersOk
    <2>1. Quits(s) \/ Strolls(s)
      BY <1>0, <1>4, OtherGoes
    <2>2. OthersWait(s)
      BY <2>1 DEF Quits, Strolls
    <2>3. s \in Busy' => reqs'[s].op = reqs[s].op /\ reqs'[s].todo \in Seq(OtherCalls)
      BY <2>1 DEF Quits, Strolls, Busy
    <2>4. ~Involved(s) /\ ~Involved(s)'
      BY <2>3 DEF Involved
    <2>5. \A p \in Slots \ {s} : p \in Busy' => p \in Busy /\ reqs'[p] = reqs[p]
      BY <2>2 DEF OthersWait, Busy
    <2>6. OthersOk
      BY <1>2, <2>3, <2>5 DEF OthersOk
    <2>. QED  BY <1>0, <1>1, <2>2, <2>4, <2>6, OneAside
  <1>. QED  BY <1>3, <1>4

\* A request of the game server stays one.
LEMMA GameWaits ==
    ASSUME NEW s, Plays(s), GameStep(s), ~GamePanics
    PROVE  OthersWait(s) /\ (s \in Busy' => reqs'[s].op = reqs[s].op)
  <1>. DEFINE r == reqs[s]
              Fine == OthersWait(s) /\ (s \in Busy' => reqs'[s].op = reqs[s].op)
              Kin(k) == DOMAIN k = Fields /\ k.op = r.op
  <1>1. /\ s \in Slots /\ DOMAIN reqs = Slots /\ DOMAIN r = Fields
    BY PlayerIs
  <1>2. ASSUME NEW k, Kin(k), NEW q, Then(s, k, q)
        PROVE  Fine
    <2>. DEFINE e == [k EXCEPT !.todo = q]
    <2>1. e.op = r.op
      BY <1>2 DEF Fields
    <2>2. reqs' = [reqs EXCEPT ![s] = IF q = <<>> THEN Idle ELSE e]
      BY <1>2 DEF Then
    <2>. HIDE DEF e
    <2>3. OthersWait(s) /\ reqs'[s] = IF q = <<>> THEN Idle ELSE e
      BY <1>1, <2>2 DEF OthersWait
    <2>. QED  BY <2>1, <2>3 DEF Busy
  <1>3. /\ \A x : /\ Kin([r EXCEPT !.id = x]) /\ Kin([r EXCEPT !.n = x])
                  /\ Kin([r EXCEPT !.handle = x]) /\ Kin([r EXCEPT !.unions = x])
        /\ Kin(r)
    BY <1>1 DEF Fields
  <1>. HIDE DEF Fine, Kin
  <1>4. ASSUME NEW k, Kin(k)
        PROVE  /\ GoOn(s, k) => Fine
               /\ \A q : Then(s, k, q) => Fine
    BY <1>2, <1>4 DEF GoOn
  <1>5. Refuse(s) => Fine
    BY <1>2, <1>3 DEF Refuse
  <1>. HIDE DEF r
  <1>6. CASE GetUnion(s) \/ InitUnion(s) \/ KeepUnion(s) \/ InRoom(s) \/ CheckHongBao(s)
             \/ FindUserData(s) \/ CreateRoom(s) \/ Proxy(s) \/ Rejoin(s)
    <2>1. \/ Refuse(s) \/ GoOn(s, r) \/ \E x : GoOn(s, [r EXCEPT !.handle = x])
          \/ Then(s, r, <<"init", "keepUnion">> \o Tail(r.todo))
          \/ \E x : GoOn(s, [r EXCEPT !.unions = x])
          \/ \E x : GoOn(s, [r EXCEPT !.n = x])
      BY <1>6 DEF GetUnion, InitUnion, NewValue, KeepUnion, InRoom, CheckHongBao,
                  FindUserData, CreateRoom, Proxy, Rejoin, r
    <2>. QED  BY <1>3, <1>4, <1>5, <2>1 DEF Fine
  <1>7. ASSUME NEW h, NEW id, NEW t, Enters(s, h, id, t)
        PROVE  Fine
    <2>1. Refuse(s) \/ \E q : Then(s, [r EXCEPT !.n = id], q)
      BY <1>7 DEF Enters, r
    <2>. QED  BY <1>3, <1>4, <1>5, <2>1
  <1>8. CASE JoinRoom(s) \/ QuickJoin(s)
    <2>1. JoinRoom(s) => Refuse(s) \/ \E h, id : Enters(s, h, id, Tail(r.todo))
      BY DEF JoinRoom, r
    <2>2. QuickJoin(s) => Refuse(s) \/ \E h, id : Enters(s, h, id, Tail(r.todo))
      BY DEF QuickJoin, r
    <2>. QED  BY <1>5, <1>7, <1>8, <2>1, <2>2 DEF Fine
  <1>9. CASE StoreRoom(s) \/ StoreServer(s) \/ Leave(s) \/ Dismiss(s)
             \/ KeepUid(s) \/ Setting(s) \/ CacheSetting(s) \/ CreditHongBao(s)
             \/ RecordHongBao(s) \/ StoreUid(s) \/ StoreSetting(s) \/ GameFault(s)
    <2>1. /\ StoreRoom(s) => GoOn(s, r)
          /\ StoreServer(s) => GoOn(s, r)
          /\ KeepUid(s) => GoOn(s, r)
          /\ RecordHongBao(s) => GoOn(s, r)
          /\ StoreUid(s) => GoOn(s, r)
          /\ CacheSetting(s) => GoOn(s, r)
          /\ Leave(s) => Refuse(s)
          /\ Dismiss(s) => Refuse(s)
          /\ Setting(s) => Refuse(s) \/ GoOn(s, r)
          /\ CreditHongBao(s) => GamePanics \/ GoOn(s, r)
      BY Zenon DEF StoreRoom, StoreServer, Leave, Dismiss, KeepUid, Setting, CacheSetting,
                  CreditHongBao, RecordHongBao, StoreUid, r
    <2>2. StoreSetting(s) => \E x : GoOn(s, [r EXCEPT !.id = x])
      BY DEF StoreSetting, r
    <2>3. GameFault(s) => \/ GoOn(s, r) \/ Refuse(s) \/ GamePanics
                         \/ \E x : GoOn(s, [r EXCEPT !.handle = x])
      BY DEF GameFault, NewValue, r
    <2>4. GoOn(s, r) \/ Refuse(s) => Fine
      BY <1>3, <1>4, <1>5
    <2>5. (\E x : GoOn(s, [r EXCEPT !.id = x])) => Fine
      BY <1>3, <1>4
    <2>6. (\E x : GoOn(s, [r EXCEPT !.handle = x])) => Fine
      BY <1>3, <1>4
    <2>. QED  BY <1>9, <2>1, <2>2, <2>3, <2>4, <2>5, <2>6 DEF Fine
  <1>10. ~PanicGame(s)
    BY DEF PanicGame
  <1>. QED  BY <1>6, <1>8, <1>9, <1>10 DEF GameStep, Fine

\* A step of the game server.
LEMMA GameAside ==
    ASSUME NEW s, Plays(s), GameStep(s) \/ GamePanics, WaysInv
    PROVE  Aside /\ OthersOk
  <1>0. s \in Busy /\ s \in Slots /\ reqs[s].op \in GameOps
    BY PlayerIs DEF Plays
  <1>1. AlikeDocs(db')
    <2>1. GamePanics => db' = db
      BY DEF GamePanics
    <2>. QED  BY <2>1, GameAlike, SameAlike
  <1>2. \A p \in Busy : reqs[p].op \in HallOps \ MemberOps => reqs[p].todo \in Seq(OtherCalls)
    BY DEF WaysInv, ClubWay
  <1>3. MemberOps \cap GameOps = {} /\ HallOps \cap GameOps = {}
    BY OpsByName, GameIsNotHall DEF MemberOps
  <1>4. ASSUME GamePanics
        PROVE  Aside /\ OthersOk
    <2>. DEFINE L == {p \in Slots : reqs[p] # Idle /\ reqs[p].op \in GameOps}
    <2>1. reqs' = [p \in Slots |-> IF p \in L THEN Idle ELSE reqs[p]]
      BY <1>4 DEF GamePanics
    <2>2. \A p \in Slots : p \in L <=> p \in Busy /\ reqs[p].op \in GameOps
      BY DEF Busy
    <2>. HIDE DEF L
    <2>3. \A p \in Slots : reqs'[p] = IF p \in L THEN Idle ELSE reqs[p]
      BY <2>1
    <2>4. \A p \in Slots : p \in Busy' => p \in Busy /\ reqs'[p] = reqs[p]
      BY <2>3 DEF Busy
    <2>5. \A p \in Slots : p \in Busy /\ reqs[p].op \notin GameOps => p \in Busy' /\ reqs'[p] = reqs[p]
      BY <2>2, <2>3 DEF Busy
    <2>. QED  BY <1>1, <1>2, <1>3, <2>4, <2>5 DEF Aside, OthersOk, Involved
  <1>5. ASSUME ~GamePanics
        PROVE  Aside /\ OthersOk
    <2>1. OthersWait(s) /\ (s \in Busy' => reqs'[s].op = reqs[s].op)
      BY <1>5, GameWaits
    <2>2. ~Involved(s) /\ ~Involved(s)'
      BY <1>0, <1>3, <2>1 DEF Involved
    <2>3. \A p \in Slots \ {s} : p \in Busy' => p \in Busy /\ reqs'[p] = reqs[p]
      BY <2>1 DEF OthersWait, Busy
    <2>4. OthersOk
      BY <1>0, <1>2, <1>3, <2>1, <2>3 DEF OthersOk
    <2>. QED  BY <1>0, <1>1, <2>1, <2>2, <2>4, OneAside
  <1>. QED  BY <1>4, <1>5

\* A step that changes nothing.
LEMMA StutterAside ==
    ASSUME WaysInv, db' = db, reqs' = reqs
    PROVE  Aside /\ OthersOk
  <1>1. AlikeDocs(db')
    BY SameAlike
  <1>2. \A p \in Busy : reqs[p].op \in HallOps \ MemberOps => reqs[p].todo \in Seq(OtherCalls)
    BY DEF WaysInv, ClubWay
  <1>3. Busy' = Busy
    BY DEF Busy
  <1>. QED  BY <1>1, <1>2, <1>3 DEF Aside, OthersOk, Involved

\* A message arrives, a server is at work on something else, or the hall on a
\* request for a member.
LEMMA EveryMember ==
    ASSUME OwnInv, MemInv, WaysInv, start \in DOMAIN Starts, [Next]_vars
    PROVE  \/ (\E s \in Slots : Arrive(s)) /\ hist' = hist /\ failed' = failed
           \/ Aside /\ OthersOk /\ hist' = hist /\ failed' = failed
           \/ Aside /\ OthersOk /\ \E s \in Busy : hist' = Noted(s)
           \/ \E s \in Busy : /\ hist' = Noted(s) /\ Member(s)
                              /\ SharedStep(s) \/ HallStep(s)
  <1>1. \/ \E s \in Slots : Arrive(s)
        \/ UNCHANGED vars
        \/ \E s \in Busy :
              /\ hist' = Noted(s)
              /\ \/ Works(s) /\ (SharedStep(s) \/ HallStep(s))
                 \/ Plays(s) /\ GameStep(s) /\ ~GamePanics
                 \/ Plays(s) /\ GamePanics
    BY EveryStep
  <1>2. CASE \E s \in Slots : Arrive(s)
    BY <1>2 DEF Arrive
  <1>3. CASE UNCHANGED vars
    <2>1. db' = db /\ reqs' = reqs /\ hist' = hist /\ failed' = failed
      BY <1>3 DEF vars
    <2>2. Aside /\ OthersOk
      BY <2>1, StutterAside
    <2>. QED  BY <2>1, <2>2
  <1>4. ASSUME NEW s \in Busy, hist' = Noted(s), Works(s), SharedStep(s) \/ HallStep(s)
        PROVE  \/ Aside /\ OthersOk
               \/ Member(s)
    <2>1. ClubWay(reqs[s])
      BY <1>4 DEF WaysInv
    <2>2. CASE reqs[s].op \in MemberOps
      BY <1>4, <2>1, <2>2 DEF Member
    <2>3. CASE reqs[s].op \notin MemberOps
      BY <1>4, <2>3, HallAside
    <2>. QED  BY <2>2, <2>3
  <1>5. ASSUME NEW s \in Busy, Plays(s), GameStep(s) \/ GamePanics
        PROVE  Aside /\ OthersOk
    BY <1>5, GameAside
  <1>6. ASSUME NEW s \in Busy, hist' = Noted(s),
               \/ Works(s) /\ (SharedStep(s) \/ HallStep(s))
               \/ Plays(s) /\ GameStep(s) /\ ~GamePanics
               \/ Plays(s) /\ GamePanics
        PROVE  \/ Aside /\ OthersOk
               \/ /\ Member(s)
                  /\ SharedStep(s) \/ HallStep(s)
    <2>1. CASE Plays(s) /\ (GameStep(s) \/ GamePanics)
      BY <2>1, <1>5
    <2>2. CASE Works(s) /\ (SharedStep(s) \/ HallStep(s))
      BY <1>6, <2>2, <1>4
    <2>. QED  BY <1>6, <2>1, <2>2
  <1>. QED  BY <1>1, <1>2, <1>3, <1>6


-----------------------------------------------------------------------------
(* Requests for members keep to their handlers. *)

\* A list that is like a list of entries.
LEMMA AlikeAreRows ==
    ASSUME NEW q, NEW p, Rows(q), AlikeRows(q, p)
    PROVE  Rows(p)
  BY DEF Rows, AlikeRows

\* Documents that are alike.
LEMMA AlikeWays ==
    ASSUME DocWays, AlikeDocs(db')
    PROVE  DocWays'
  <1>1. \A u \in Users : Rows(Info(u))'
    BY AlikeAreRows DEF DocWays, AlikeDocs, AlikeLists, Info
  <1>2. \A i \in DOMAIN db'.unions : db'.unions[i].id \in Nat /\ db'.unions[i].curMember \in Int
    BY DEF DocWays, AlikeDocs, AlikeUnions
  <1>3. CountersAre(db'.counters)
    BY DEF DocWays, AlikeDocs
  <1>. QED  BY <1>1, <1>2, <1>3 DEF DocWays

\* A step that is nobody's membership.
LEMMA AsideWays ==
    ASSUME WaysInv, Aside, OthersOk
    PROVE  WaysInv'
  <1>1. DocWays' /\ db'.counters = db.counters
    BY AlikeWays DEF WaysInv, Aside, AlikeDocs
  <1>2. ASSUME NEW s \in Busy'
        PROVE  ClubWay(reqs[s])'
    <2>1. s \in Slots
      BY <1>2 DEF Busy
    <2>2. CASE reqs'[s].op \in MemberOps
      <3>1. Involved(s)'
        BY <1>2, <2>2 DEF Involved
      <3>2. s \in Busy /\ reqs'[s] = reqs[s]
        BY <2>1, <3>1 DEF Aside, Involved
      <3>. QED  BY <1>1, <3>2 DEF WaysInv, ClubWay, Key
    <2>3. CASE reqs'[s].op \notin MemberOps
      <3>1. reqs'[s].op # "CreateUnion"
        BY <2>3 DEF MemberOps
      <3>. QED  BY <1>2, <2>1, <2>3, <3>1 DEF OthersOk, ClubWay
    <2>. QED  BY <2>2, <2>3
  <1>. QED  BY <1>1, <1>2 DEF WaysInv

\* Counters that exist go on to exist.
CountersStay ==
    \A k \in Counters : db.counters[k] # Absent => db'.counters[k] # Absent

\* What a request for a member leaves when it goes on.
MovesOn(s) ==
    LET r == reqs[s]
    IN \E x, id \in Nat : \E sp :
          /\ Reaches(s, x, sp, id)
          /\ r.op = "CreateUnion" => (x = 0 <=> Stage(r) + 1 <= 4)
          /\ Now(r) \in {"exists", "set"} => db'.counters[Key(r)] # Absent /\ x = r.union

\* A request at a stage before a number is drawn asks for the counter.
LEMMA AsksFirst ==
    ASSUME NEW s, Member(s),
           \/ reqs[s].op = "CreateUnion" /\ Stage(reqs[s]) \in {3, 6}
           \/ reqs[s].op \in Joins /\ Stage(reqs[s]) = 5
    PROVE  Now(reqs[s]) \in {"exists", "set"}
  <1>. DEFINE op == reqs[s].op
              n == Stage(reqs[s])
              x == Now(reqs[s])
  <1>1. Left(op, reqs[s].todo) /\ op \in MemberOps
    BY MemberIs
  <1>. HIDE DEF op
  <1>2. n = Place(op, reqs[s].todo) /\ x = Head(reqs[s].todo)
    BY DEF Stage, Now, op
  <1>3. \/ op = "CreateUnion" /\ n \in {3, 6}
        \/ op \in Joins /\ n = 5
    BY DEF op, n
  <1>. HIDE DEF n, x
  <1>4. \/ x = "findUser"
           /\ \/ op = "CreateUnion" /\ n = 1
              \/ op = "JoinUnion" /\ n = 3
              \/ op \in {"InviteJoinUnion", "ExitUnion"} /\ n = 2
        \/ x = "findOwned" /\ op = "CreateUnion" /\ n = 2
        \/ x \in {"exists", "set"} /\ \/ op = "CreateUnion" /\ n \in {3, 6}
                                      \/ op \in Joins /\ n = 5
        \/ x = "incr" /\ \/ op = "CreateUnion" /\ n \in {4, 7}
                         \/ op \in Joins /\ n = 6
        \/ x = "insertUnion" /\ op = "CreateUnion" /\ n = 5
        \/ x = "addToSet" /\ op = "CreateUnion" /\ n = 8
        \/ x = "findInviter" /\ op = "JoinUnion" /\ n = 1
        \/ x = "findUnion" /\ \/ op = "JoinUnion" /\ n = 2
                              \/ op \in {"InviteJoinUnion", "ExitUnion"} /\ n = 1
        \/ x = "findOther" /\ op = "InviteJoinUnion" /\ n = 3
        \/ x = "countMember" /\ op \in Joins /\ n = 4
        \/ x = "push" /\ op \in Joins /\ n = 7
        \/ x = "pull" /\ op = "ExitUnion" /\ n = 3
        \/ x = "moveDownlines" /\ op = "ExitUnion" /\ n = 4
        \/ x = "uncountMember" /\ op = "ExitUnion" /\ n = 5
    BY <1>1, <1>2, WhereCalls
  <1>. QED  BY <1>3, <1>4 DEF Joins, x

\* A request for a member ends, or goes on in its handler.
LEMMA MemberStays ==
    ASSUME NEW s, Member(s), WaysInv, DocWays', CountersStay,
           Quits(s) \/ Sets(s) \/ MovesOn(s)
    PROVE  WaysInv'
  <1>. DEFINE r == reqs[s]
              k == reqs'[s]
              Fit(t) ==
                 /\ t.op \in MemberOps =>
                       /\ Left(t.op, t.todo) /\ t.union \in Nat /\ t.id \in Nat
                       /\ Now(t) = "incr" => db'.counters[Key(t)] # Absent
                 /\ t.op = "CreateUnion" => (t.union = 0 <=> Stage(t) <= 4)
                 /\ t.op \in HallOps \ MemberOps => t.todo \in Seq(OtherCalls)
  <1>0. Fit(k) => ClubWay(reqs[s])'
    BY DEF ClubWay
  <1>. HIDE DEF Fit
  <1>1. /\ s \in Slots /\ s \in Busy /\ r.op \in MemberOps /\ r.op \in HallOps
        /\ r.union \in Nat /\ r.id \in Nat /\ Stage(r) \in Nat /\ ClubWay(r)
    BY MemberIs DEF Member
  <1>2. Key(r) \in Counters
    BY KeyIs
  <1>3. OthersWait(s)
    BY DEF Quits, Sets, Stands, MovesOn, Reaches
  <1>4. ASSUME NEW p \in Busy', p # s
        PROVE  ClubWay(reqs[p])'
    <2>1. p \in Busy /\ reqs'[p] = reqs[p]
      BY <1>3, <1>4 DEF OthersWait, Busy
    <2>2. Key(reqs[p]) \in Counters
      BY KeyIs
    <2>. QED  BY <2>1, <2>2 DEF WaysInv, ClubWay, Key, CountersStay
  <1>5. ASSUME Sets(s)
        PROVE  ClubWay(reqs[s])'
    <2>1. /\ k.op = r.op /\ k.union = r.union /\ k.id = r.id
          /\ Left(k.op, k.todo) /\ Stage(k) = Stage(r) /\ Now(k) = "set"
      BY <1>5 DEF Sets, Stands
    <2>. HIDE DEF r, k
    <2>2. Fit(k)
      BY <1>1, <2>1 DEF Fit, ClubWay
    <2>. QED  BY <1>0, <2>2 DEF k
  <1>6. ASSUME MovesOn(s)
        PROVE  ClubWay(reqs[s])'
    <2>0. PICK x \in Nat, id \in Nat : \E sp :
             /\ Reaches(s, x, sp, id)
             /\ r.op = "CreateUnion" => (x = 0 <=> Stage(r) + 1 <= 4)
             /\ Now(r) \in {"exists", "set"} => db'.counters[Key(r)] # Absent /\ x = r.union
      BY <1>6 DEF MovesOn
    <2>1. PICK sp :
             /\ Reaches(s, x, sp, id)
             /\ r.op = "CreateUnion" => (x = 0 <=> Stage(r) + 1 <= 4)
             /\ Now(r) \in {"exists", "set"} => db'.counters[Key(r)] # Absent /\ x = r.union
      BY <2>0
    <2>2. /\ k.op = r.op /\ k.union = x /\ k.id = id
          /\ Left(k.op, k.todo) /\ Stage(k) = Stage(r) + 1
      BY <2>1 DEF Reaches, Stands
    <2>3. Now(k) = "incr" => \/ k.op = "CreateUnion" /\ Stage(k) \in {4, 7}
                             \/ k.op \in Joins /\ Stage(k) = 6
      <3>. DEFINE y == Head(k.todo)
                  n == Place(k.op, k.todo)
      <3>1. y = Now(k) /\ n = Stage(k)
        BY DEF Now, Stage
      <3>2. y = "incr" => \/ k.op = "CreateUnion" /\ n \in {4, 7}
                          \/ k.op \in Joins /\ n = 6
        <4>1. k.op \in MemberOps
          BY <1>1, <2>2
        <4>. HIDE DEF k
        <4>. QED  BY <4>1, <2>2, WhereCalls
      <3>. QED  BY <3>1, <3>2
    <2>. HIDE DEF k
    <2>4. Now(k) = "incr" => db'.counters[Key(r)] # Absent /\ x = r.union
      <3>1. Now(k) = "incr" => \/ r.op = "CreateUnion" /\ Stage(r) \in {3, 6}
                               \/ r.op \in Joins /\ Stage(r) = 5
        BY <1>1, <2>2, <2>3
      <3>. QED  BY <2>1, <3>1, AsksFirst
    <2>5. x = r.union => Key(k) = Key(r)
      BY <2>2 DEF Key
    <2>. HIDE DEF r
    <2>6. Fit(k)
      BY <1>1, <2>1, <2>2, <2>4, <2>5 DEF Fit
    <2>. QED  BY <1>0, <2>6 DEF k
  <1>7. Quits(s) => s \notin Busy'
    BY DEF Quits, Busy
  <1>. QED  BY <1>4, <1>5, <1>6, <1>7 DEF WaysInv


\* Documents of which a counter is set, an entry is added or all of a union's
\* are gone.
LEMMA CounterWays ==
    ASSUME DocWays, NEW k \in Counters, NEW n \in Nat, CounterSet(k, n)
    PROVE  DocWays' /\ CountersStay /\ db'.counters[k] # Absent
  <1>1. \A u \in Users : Info(u)' = Info(u)
    BY DEF CounterSet, Info
  <1>2. /\ \A j \in Counters : db'.counters[j] = IF j = k THEN n ELSE db.counters[j]
        /\ DOMAIN db'.counters = Counters /\ db'.unions = db.unions
    BY DEF CounterSet
  <1>3. n # Absent
    BY DEF Absent
  <1>4. \A u \in Users : Rows(Info(u))'
    BY <1>1 DEF DocWays, Rows
  <1>5. CountersAre(db'.counters)
    BY <1>2 DEF DocWays, CountersAre
  <1>. QED  BY <1>2, <1>3, <1>4, <1>5 DEF DocWays, CountersStay

\* A list with one entry more.
LEMMA PushRows ==
    ASSUME NEW q, Rows(q), NEW e, DOMAIN e = EntryFields, e.union \in Nat, e.invite \in Nat
    PROVE  LET p == Append(q, e)
           IN /\ Rows(p) /\ Len(q) \in Nat /\ DOMAIN q = 1 .. Len(q)
              /\ DOMAIN p = 1 .. Len(q) + 1
              /\ \A i \in DOMAIN q : p[i] = q[i]
              /\ p[Len(q) + 1] = e
  <1>1. IsSeq(q)
    BY DEF Rows
  <1>2. PICK S : q \in Seq(S)
    BY <1>1 DEF IsSeq
  <1>. DEFINE p == Append(q, e)
              T == S \cup {e}
  <1>3. q \in Seq(T)
    BY <1>2
  <1>4. /\ p \in Seq(T) /\ Len(q) \in Nat /\ DOMAIN q = 1 .. Len(q)
        /\ DOMAIN p = 1 .. Len(q) + 1
        /\ \A i \in 1 .. Len(q) : p[i] = q[i]
        /\ p[Len(q) + 1] = e
    BY <1>3
  <1>5. IsSeq(p)
    BY <1>4 DEF IsSeq
  <1>. HIDE DEF p
  <1>6. ASSUME NEW i \in DOMAIN p
        PROVE  DOMAIN p[i] = EntryFields /\ p[i].union \in Nat /\ p[i].invite \in Nat
    <2>1. i \in 1 .. Len(q) \/ i = Len(q) + 1
      BY <1>4, <1>6
    <2>. QED  BY <1>4, <2>1 DEF Rows
  <1>. QED  BY <1>4, <1>5, <1>6 DEF Rows, p

\* A user's list that is replaced.
LEMMA ListWays ==
    ASSUME DocWays, NEW u \in Users, NEW q, Rows(q), ListSet(u, q)
    PROVE  DocWays' /\ CountersStay
  <1>1. \A v \in Users : Info(v)' = IF v = u THEN q ELSE Info(v)
    BY DEF ListSet, Info
  <1>2. \A v \in Users : Rows(Info(v)')
    BY <1>1 DEF DocWays
  <1>3. \A v \in Users : Rows(Info(v))'
    BY <1>2
  <1>. QED  BY <1>3 DEF DocWays, CountersStay, ListSet

\* Reading keeps documents.
LEMMA ReadWays ==
    ASSUME DocWays, db' = db
    PROVE  DocWays' /\ CountersStay
  <1>1. \A v \in Users : Info(v)' = Info(v)
    BY DEF Info
  <1>2. \A v \in Users : Rows(Info(v)')
    BY <1>1 DEF DocWays
  <1>3. \A v \in Users : Rows(Info(v))'
    BY <1>2
  <1>. QED  BY <1>3 DEF DocWays, CountersStay

\* Reading keeps a request for a member in its handler.
LEMMA ReadStays ==
    ASSUME NEW s, Member(s), WaysInv, db' = db,
           \/ FindUser(s) \/ FindOwned(s) \/ FindInviter(s) \/ FindUnion(s) \/ FindOther(s)
           \/ Exists(s) \/ HallFault(s)
    PROVE  WaysInv'
  <1>. DEFINE r == reqs[s]
  <1>1. DocWays' /\ CountersStay /\ \A u \in Users : Rows(Info(u))
    BY ReadWays DEF WaysInv, DocWays
  <1>2. /\ r.op \in MemberOps /\ r.union \in Nat /\ r.id \in Nat /\ Stage(r) \in Nat
        /\ r.op = "CreateUnion" => (r.union = 0 <=> Stage(r) <= 4)
    BY MemberIs DEF Member, ClubWay
  <1>. HIDE DEF r
  <1>3. ASSUME NEW sp, Reaches(s, r.union, sp, r.id), r.op = "CreateUnion" => Stage(r) # 4,
               Now(r) = "exists" => db'.counters[Key(r)] # Absent, Now(r) # "set"
        PROVE  MovesOn(s)
    <2>1. r.op = "CreateUnion" => (r.union = 0 <=> Stage(r) + 1 <= 4)
      BY <1>2, <1>3
    <2>. QED  BY <1>2, <1>3, <2>1 DEF MovesOn, r
  <1>4. FindUser(s) => Quits(s) \/ MovesOn(s)
    <2>. HAVE FindUser(s)
    <2>1. /\ Now(r) = "findUser"
          /\ Quits(s) \/ \E sp : Reaches(s, r.union, sp, r.id)
      BY DoesFindUser DEF r
    <2>2. r.op = "CreateUnion" => Stage(r) # 4
      BY <2>1, MembersCall DEF r
    <2>. QED  BY <1>3, <2>1, <2>2
  <1>5. FindOwned(s) => Quits(s) \/ MovesOn(s)
    <2>. HAVE FindOwned(s)
    <2>1. /\ Now(r) = "findOwned"
          /\ Quits(s) \/ \E sp : Reaches(s, r.union, sp, r.id)
      BY DoesFindOwned DEF r
    <2>2. r.op = "CreateUnion" => Stage(r) # 4
      BY <2>1, MembersCall DEF r
    <2>. QED  BY <1>3, <2>1, <2>2
  <1>6. FindUnion(s) => Quits(s) \/ MovesOn(s)
    <2>. HAVE FindUnion(s)
    <2>1. /\ Now(r) = "findUnion"
          /\ Quits(s) \/ \E sp : Reaches(s, r.union, sp, r.id)
      BY DoesFindUnion DEF r
    <2>2. r.op = "CreateUnion" => Stage(r) # 4
      BY <2>1, MembersCall DEF r
    <2>. QED  BY <1>3, <2>1, <2>2
  <1>7. FindOther(s) => Quits(s) \/ MovesOn(s)
    <2>. HAVE FindOther(s)
    <2>1. /\ Now(r) = "findOther"
          /\ Quits(s) \/ \E sp : Reaches(s, r.union, sp, r.id)
      BY DoesFindOther DEF r
    <2>2. r.op = "CreateUnion" => Stage(r) # 4
      BY <2>1, MembersCall DEF r
    <2>. QED  BY <1>3, <2>1, <2>2
  <1>8. Exists(s) => Sets(s) \/ MovesOn(s)
    <2>. HAVE Exists(s)
    <2>1. /\ Now(r) = "exists"
          /\ Sets(s) \/ (db.counters[Key(r)] # Absent /\ Reaches(s, r.union, r.spreader, r.id))
      BY DoesExists DEF r
    <2>2. r.op = "CreateUnion" => Stage(r) # 4
      BY <2>1, MembersCall DEF r
    <2>. QED  BY <1>3, <2>1, <2>2
  <1>9. FindInviter(s) => Quits(s) \/ MovesOn(s)
    <2>. HAVE FindInviter(s)
    <2>1. /\ Now(r) = "findInviter"
          /\ \/ Quits(s)
             \/ \E u \in Users : \E i \in DOMAIN Info(u) :
                   Reaches(s, Info(u)[i].union, u, r.id)
      BY <1>1, DoesFindInviter DEF r
    <2>2. r.op # "CreateUnion"
      BY <2>1, MembersCall DEF r
    <2>3. \A u \in Users : \A i \in DOMAIN Info(u) : Info(u)[i].union \in Nat
      BY <1>1 DEF Rows
    <2>4. ASSUME NEW u \in Users, NEW i \in DOMAIN Info(u),
                 Reaches(s, Info(u)[i].union, u, r.id)
          PROVE  MovesOn(s)
      <3>. DEFINE x == Info(u)[i].union
      <3>1. x \in Nat
        BY <2>3
      <3>. HIDE DEF x
      <3>2. Reaches(s, x, u, r.id)
        BY <2>4 DEF x
      <3>. QED  BY <1>2, <2>1, <2>2, <3>1, <3>2 DEF MovesOn, r
    <2>. QED  BY <2>1, <2>4
  <1>10. HallFault(s) => Quits(s) \/ Sets(s)
    BY DoesHallFault
  <1>. QED  BY <1>1, <1>4, <1>5, <1>6, <1>7, <1>8, <1>9, <1>10, MemberStays


\* A count that changes keeps documents.
LEMMA CountedWays ==
    ASSUME DocWays, NEW x, NEW n \in Int, Counted(x, n)
    PROVE  DocWays' /\ CountersStay
  <1>1. \A v \in Users : Info(v)' = Info(v)
    BY DEF Info, Counted
  <1>2. \A v \in Users : Rows(Info(v)')
    BY <1>1 DEF DocWays
  <1>3. \A v \in Users : Rows(Info(v))'
    BY <1>2
  <1>4. \A i \in DOMAIN db'.unions : db'.unions[i].id \in Nat /\ db'.unions[i].curMember \in Int
    BY DEF DocWays, Counted
  <1>. QED  BY <1>3, <1>4 DEF DocWays, CountersStay, Counted

\* One union more.
LEMMA InsertWays ==
    ASSUME DocWays, DocsShaped, db'.users = db.users, db'.counters = db.counters,
           NEW x \in Nat, NEW u, db'.unions = Append(db.unions, NewUnion(x, u))
    PROVE  /\ DocWays' /\ CountersStay
           /\ Len(db.unions) \in Nat /\ DOMAIN db.unions = 1 .. Len(db.unions)
           /\ DOMAIN db'.unions = 1 .. Len(db.unions) + 1
           /\ \A i \in DOMAIN db.unions : db'.unions[i] = db.unions[i]
           /\ LET d == db'.unions[Len(db.unions) + 1]
              IN d.id = x /\ d.owner = u /\ d.curMember = 1
  <1>. DEFINE e == NewUnion(x, u)
  <1>1. e.id = x /\ e.owner = u /\ e.curMember = 1
    BY DEF NewUnion
  <1>. HIDE DEF e
  <1>2. PICK S : db.unions \in Seq(S)
    BY DEF DocsShaped, IsSeq
  <1>3. db.unions \in Seq(S \cup {e}) /\ e \in S \cup {e}
    BY <1>2
  <1>4. db'.unions = Append(db.unions, e)
    BY DEF e
  <1>5. /\ Len(db.unions) \in Nat /\ DOMAIN db.unions = 1 .. Len(db.unions)
        /\ DOMAIN db'.unions = 1 .. Len(db.unions) + 1
        /\ \A i \in DOMAIN db.unions : db'.unions[i] = db.unions[i]
        /\ db'.unions[Len(db.unions) + 1] = e
    BY <1>3, <1>4
  <1>6. \A v \in Users : Info(v)' = Info(v)
    BY DEF Info
  <1>7. \A v \in Users : Rows(Info(v)')
    BY <1>6 DEF DocWays
  <1>8. \A v \in Users : Rows(Info(v))'
    BY <1>7
  <1>9. ASSUME NEW i \in DOMAIN db'.unions
        PROVE  db'.unions[i].id \in Nat /\ db'.unions[i].curMember \in Int
    <2>1. i \in 1 .. Len(db.unions) \/ i = Len(db.unions) + 1
      BY <1>5, <1>9
    <2>. QED  BY <1>1, <1>5, <2>1 DEF DocWays
  <1>. QED  BY <1>1, <1>5, <1>8, <1>9 DEF DocWays, CountersStay

\* Downlines that move keep documents.
LEMMA LowersWays ==
    ASSUME DocWays, db'.unions = db.unions, db'.counters = db.counters, NEW x, NEW from, NEW to,
           \A u \in Users : Lowers(Info(u), db'.users[u].info, x, from, to)
    PROVE  DocWays' /\ CountersStay
  <1>1. ASSUME NEW u \in Users
        PROVE  Rows(Info(u)')
    <2>. DEFINE q == Info(u)
                p == Info(u)'
    <2>1. Lowers(q, p, x, from, to) /\ Rows(q)
      BY DEF Info, DocWays
    <2>. HIDE DEF q, p
    <2>2. Rows(p)
      BY <2>1 DEF Lowers, Rows
    <2>. QED  BY <2>2 DEF p
  <1>2. \A v \in Users : Rows(Info(v))'
    BY <1>1
  <1>. QED  BY <1>2 DEF DocWays, CountersStay

\* The entry a request adds.
Added(r) ==
    CASE r.op = "CreateUnion" -> Entry(r, NoUser, TRUE)
      [] r.op = "JoinUnion" -> Entry(r, r.spreader, FALSE)
      [] OTHER -> Entry(r, r.uid, FALSE)
AddedTo(r) == IF r.op = "InviteJoinUnion" THEN r.other ELSE r.uid

\* It is of the union and has the id the request remembers.
LEMMA AddedIs ==
    ASSUME NEW r
    PROVE  LET e == Added(r)
           IN DOMAIN e = EntryFields /\ e.union = r.union /\ e.invite = r.id
  BY DEF Added, Entry, EntryFields

\* A user gets that entry.
LEMMA PushAdds ==
    ASSUME NEW s, Member(s), AddToSet(s) \/ Push(s)
    PROVE  LET r == reqs[s]
           IN /\ \/ Now(r) = "addToSet" /\ r.op = "CreateUnion" /\ Stage(r) = 8
                 \/ Now(r) = "push" /\ r.op \in Joins /\ Stage(r) = 7
              /\ AddedTo(r) \in Users
              /\ failed' = failed /\ ListSet(AddedTo(r), Append(Info(AddedTo(r)), Added(r)))
              /\ Quits(s)
  <1>1. reqs[s].uid \in Users /\ reqs[s].other \in Users
    BY MemberIs
  <1>. QED  BY <1>1, DoesPush, MembersCall DEF Added, AddedTo

\* The calls that write keep a request for a member in its handler.
LEMMA WriteStays ==
    ASSUME NEW s, Member(s), WaysInv,
           \/ SetBegin(s) \/ Incr(s) \/ InsertUnion(s) \/ AddToSet(s) \/ CountMember(s)
           \/ Push(s) \/ Pull(s) \/ Downlines(s) \/ UncountMember(s)
    PROVE  WaysInv'
  <1>. DEFINE r == reqs[s]
  <1>1. DocWays /\ DocsShaped /\ CountersAre(db.counters) /\ \A u \in Users : Rows(Info(u))
    BY MemberDocs DEF WaysInv, DocWays
  <1>2. /\ r.op \in MemberOps /\ r.union \in Nat /\ r.id \in Nat /\ Stage(r) \in Nat
        /\ r.op = "CreateUnion" => (r.union = 0 <=> Stage(r) <= 4)
        /\ r.uid \in Users
        /\ Now(r) = "incr" => db.counters[Key(r)] # Absent
    BY MemberIs DEF Member, ClubWay
  <1>3. Key(r) \in Counters
    BY KeyIs
  <1>. HIDE DEF r
  <1>4. ASSUME NEW sp, Reaches(s, r.union, sp, r.id), r.op = "CreateUnion" => Stage(r) # 4,
               Now(r) \in {"exists", "set"} => db'.counters[Key(r)] # Absent
        PROVE  MovesOn(s)
    <2>1. r.op = "CreateUnion" => (r.union = 0 <=> Stage(r) + 1 <= 4)
      BY <1>2, <1>4
    <2>. QED  BY <1>2, <1>4, <2>1 DEF MovesOn, r
  <1>5. ASSUME SetBegin(s)
        PROVE  DocWays' /\ CountersStay /\ MovesOn(s)
    <2>1. /\ Now(r) = "set" /\ CounterSet(Key(r), Begin(Key(r)))
          /\ Reaches(s, r.union, r.spreader, r.id)
      BY <1>1, <1>5, DoesSetBegin DEF r
    <2>2. Begin(Key(r)) \in Nat
      BY KeyIs
    <2>3. DocWays' /\ CountersStay /\ db'.counters[Key(r)] # Absent
      BY <1>1, <1>3, <2>1, <2>2, CounterWays
    <2>4. r.op = "CreateUnion" => Stage(r) # 4
      BY <2>1, MembersCall DEF r
    <2>. QED  BY <1>4, <2>1, <2>3, <2>4
  <1>6. ASSUME Incr(s)
        PROVE  DocWays' /\ CountersStay /\ MovesOn(s)
    <2>. DEFINE id == db.counters[Key(r)] + 1
    <2>1. /\ Now(r) = "incr" /\ CounterSet(Key(r), id)
          /\ Key(r) = "union" => Reaches(s, id, r.spreader, r.id)
          /\ Key(r) = "invite" => Reaches(s, r.union, r.spreader, id)
      BY <1>1, <1>6, DoesIncr DEF r
    <2>2. id \in Nat /\ id # 0
      BY <1>1, <1>2, <1>3, <2>1 DEF CountersAre
    <2>. HIDE DEF id
    <2>3. DocWays' /\ CountersStay
      BY <1>1, <1>3, <2>1, <2>2, CounterWays
    <2>4. r.op = "CreateUnion" => Stage(r) \in {4, 7}
      BY <2>1, MembersCall DEF r, Joins
    <2>5. Key(r) = "union" <=> r.op = "CreateUnion" /\ Stage(r) = 4
      BY <1>2, <2>4, KeyIs
    <2>6. Key(r) = "union" \/ Key(r) = "invite"
      BY KeyIs
    <2>7. ASSUME Key(r) = "union"
          PROVE  MovesOn(s)
      <3>1. Reaches(s, id, r.spreader, r.id)
        BY <2>1, <2>7
      <3>2. id = 0 <=> Stage(r) + 1 <= 4
        BY <2>2, <2>5, <2>7
      <3>3. Now(r) \notin {"exists", "set"}
        BY <2>1
      <3>. QED  BY <1>2, <2>2, <3>1, <3>2, <3>3 DEF MovesOn, r
    <2>8. ASSUME Key(r) = "invite"
          PROVE  MovesOn(s)
      <3>1. r.op = "CreateUnion" => Stage(r) = 7
        BY <2>4, <2>5, <2>8, KeyIs
      <3>2. r.op = "CreateUnion" => (r.union = 0 <=> Stage(r) + 1 <= 4)
        BY <1>2, <3>1
      <3>3. Reaches(s, r.union, r.spreader, id)
        BY <2>1, <2>8
      <3>4. Now(r) \notin {"exists", "set"}
        BY <2>1
      <3>. QED  BY <1>2, <2>2, <3>2, <3>3, <3>4 DEF MovesOn, r
    <2>. QED  BY <2>3, <2>6, <2>7, <2>8
  <1>7. ASSUME InsertUnion(s)
        PROVE  DocWays' /\ CountersStay /\ MovesOn(s)
    <2>1. /\ Now(r) = "insertUnion" /\ db'.users = db.users /\ db'.counters = db.counters
          /\ db'.unions = Append(db.unions, NewUnion(r.union, r.uid))
          /\ Reaches(s, r.union, r.spreader, r.id)
      BY <1>7, DoesInsert DEF r
    <2>2. DocWays' /\ CountersStay
      BY <1>1, <1>2, <2>1, InsertWays
    <2>3. r.op = "CreateUnion" => Stage(r) # 4
      BY <2>1, MembersCall DEF r
    <2>. QED  BY <1>4, <2>1, <2>2, <2>3
  <1>8. ASSUME CountMember(s) \/ UncountMember(s)
        PROVE  DocWays' /\ CountersStay /\ (Quits(s) \/ MovesOn(s))
    <2>1. /\ Counted(r.union, 1) \/ Counted(r.union, -1)
          /\ Now(r) \in {"countMember", "uncountMember"}
          /\ Quits(s) \/ Reaches(s, r.union, r.spreader, r.id)
      BY <1>8, DoesCount DEF r
    <2>2. DocWays' /\ CountersStay
      BY <1>1, <2>1, CountedWays
    <2>3. r.op = "CreateUnion" => Stage(r) # 4
      BY <2>1, MembersCall DEF r, Joins
    <2>. QED  BY <1>4, <2>1, <2>2, <2>3
  <1>9. ASSUME AddToSet(s) \/ Push(s)
        PROVE  DocWays' /\ CountersStay /\ Quits(s)
    <2>1. /\ AddedTo(r) \in Users /\ Quits(s)
          /\ ListSet(AddedTo(r), Append(Info(AddedTo(r)), Added(r)))
      BY <1>9, PushAdds DEF r
    <2>2. Rows(Append(Info(AddedTo(r)), Added(r)))
      BY <1>1, <1>2, <2>1, AddedIs, PushRows
    <2>. QED  BY <1>1, <2>1, <2>2, ListWays
  <1>10. ASSUME Pull(s)
         PROVE  DocWays' /\ CountersStay /\ MovesOn(s)
    <2>1. /\ Now(r) = "pull" /\ ListSet(r.uid, OtherEntries(Info(r.uid), r.union))
          /\ Reaches(s, r.union, r.spreader, r.id)
      BY <1>10, DoesPull DEF r
    <2>2. Rows(OtherEntries(Info(r.uid), r.union))
      BY <1>1, <1>2, OthersSift DEF Sifts
    <2>3. DocWays' /\ CountersStay
      BY <1>1, <1>2, <2>1, <2>2, ListWays
    <2>4. r.op = "CreateUnion" => Stage(r) # 4
      BY <2>1, MembersCall DEF r
    <2>. QED  BY <1>4, <2>1, <2>3, <2>4
  <1>11. ASSUME Downlines(s)
         PROVE  DocWays' /\ CountersStay /\ MovesOn(s)
    <2>1. /\ Now(r) = "moveDownlines" /\ db'.unions = db.unions /\ db'.counters = db.counters
          /\ \A u \in Users : Lowers(Info(u), db'.users[u].info, r.union, r.uid, r.spreader)
          /\ Reaches(s, r.union, r.spreader, r.id)
      BY <1>1, <1>11, DoesDownlines DEF r
    <2>2. DocWays' /\ CountersStay
      BY <1>1, <2>1, LowersWays
    <2>3. r.op = "CreateUnion" => Stage(r) # 4
      BY <2>1, MembersCall DEF r
    <2>. QED  BY <1>4, <2>1, <2>2, <2>3
  <1>12. DocWays' /\ CountersStay /\ (Quits(s) \/ MovesOn(s))
    BY <1>5, <1>6, <1>7, <1>8, <1>9, <1>10, <1>11
  <1>13. Quits(s) \/ Sets(s) \/ MovesOn(s)
    BY <1>12
  <1>14. DocWays' /\ CountersStay
    BY <1>12
  <1>. QED  BY <1>13, <1>14, MemberStays

\* A step of a request for a member.
LEMMA MemberKeepsWays ==
    ASSUME NEW s, Member(s), SharedStep(s) \/ HallStep(s), WaysInv
    PROVE  WaysInv'
  <1>1. \A u \in Users : Rows(Info(u))
    BY DEF WaysInv, DocWays
  <1>2. CASE \/ FindUser(s) \/ FindOwned(s) \/ FindInviter(s) \/ FindUnion(s) \/ FindOther(s)
             \/ Exists(s)
    <2>1. OnlyReads
      BY <1>1, <1>2, DoesFindUser, DoesFindOwned, DoesFindInviter, DoesFindUnion,
         DoesFindOther, DoesExists
    <2>. QED  BY <1>2, <2>1, ReadStays DEF OnlyReads
  <1>3. CASE HallFault(s)
    <2>1. db' = db
      BY <1>3, DoesHallFault
    <2>. QED  BY <1>3, <2>1, ReadStays
  <1>4. CASE \/ SetBegin(s) \/ Incr(s) \/ InsertUnion(s) \/ AddToSet(s) \/ CountMember(s)
             \/ Push(s) \/ Pull(s) \/ Downlines(s) \/ UncountMember(s)
    BY <1>4, WriteStays
  <1>. QED  BY <1>2, <1>3, <1>4, MemberCalls


\* A message that arrives has its whole handler before it.
LEMMA NewWay ==
    ASSUME NEW i \in DOMAIN Starts, NEW c \in Starts[i].calls
    PROVE  LET k == NewRequest(c)
           IN /\ k.op \in MemberOps => /\ Left(k.op, k.todo) /\ Stage(k) = 1
                                       /\ k.union \in Nat /\ k.id = 0 /\ Now(k) # "incr"
              /\ k.op = "CreateUnion" => k.union = 0
              /\ k.op \in HallOps \ MemberOps => k.todo \in Seq(OtherCalls)
  <1>. DEFINE k == NewRequest(c)
  <1>1. /\ c \in [op : HallOps \cup GameOps, uid : Users, other : Users, union : Nat, n : Nat]
        /\ c.op = "CreateUnion" => c.union = 0
    BY ClubsAssumption
  <1>2. /\ k.op = c.op /\ k.union = c.union /\ k.id = 0 /\ k.todo = StepsOf(c.op)
    BY DEF NewRequest
  <1>. HIDE DEF k
  <1>3. k.op \in HallOps => k.todo = HallSteps[k.op]
    BY <1>2 DEF StepsOf
  <1>4. ASSUME k.op \in MemberOps
        PROVE  Left(k.op, k.todo) /\ Stage(k) = 1 /\ Now(k) # "incr"
    <2>. DEFINE L == HallSteps[k.op]
    <2>1. IsSeq(L) /\ Len(L) \in {8, 7, 5}
      BY <1>4, CallsInOrder DEF MemberOps
    <2>2. k.todo = L
      BY <1>3, <1>4, OpsByName DEF MemberOps
    <2>. HIDE DEF L
    <2>3. Place(k.op, L) = 1
      BY <2>1 DEF Place, L
    <2>4. Left(k.op, L)
      <3>1. \A j \in 2 .. Len(L) : Place(k.op, L) + j - 1 = j
        BY <2>1, <2>3
      <3>2. Len(L) \in 1 .. Len(HallSteps[k.op])
        <4>. DEFINE n == Len(L)
        <4>2. n \in {8, 7, 5}
          BY <2>1
        <4>. HIDE DEF n
        <4>3. n \in 1 .. n
          BY <4>2
        <4>1. Len(L) \in 1 .. Len(L)
          BY <4>3 DEF n
        <4>. QED  BY <4>1 DEF L
      <3>3. /\ \A j \in 2 .. Len(L) : L[j] = HallSteps[k.op][Place(k.op, L) + j - 1]
            /\ L[1] = HallSteps[k.op][Place(k.op, L)]
        BY <2>3, <3>1 DEF L
      <3>. QED  BY <2>1, <3>2, <3>3 DEF Left
    <2>5. Stage(k) = 1
      BY <2>2, <2>3 DEF Stage
    <2>6. Now(k) # "incr"
      <3>1. Head(L) = "incr" => Place(k.op, L) \in {4, 6, 7}
        BY <1>4, <2>4, WhereCalls
      <3>. QED  BY <2>2, <2>3, <3>1 DEF Now
    <2>. QED  BY <2>2, <2>4, <2>5, <2>6
  <1>5. ASSUME k.op \in HallOps \ MemberOps
        PROVE  k.todo \in Seq(OtherCalls)
    <2>1. k.op \in {"SafeBoxOperation", "ModifyScore", "GiveScore", "AddPartner"}
      BY <1>5, OpsByName DEF MemberOps
    <2>2. k.todo = HallSteps[k.op]
      BY <1>3, <1>5
    <2>3. HallSteps[k.op] \in {SafeBoxOperation, ModifyScore, GiveScore, AddPartner}
      BY <2>1 DEF HallSteps
    <2>4. /\ SafeBoxOperation \in Seq(OtherCalls) /\ ModifyScore \in Seq(OtherCalls)
          /\ GiveScore \in Seq(OtherCalls) /\ AddPartner \in Seq(OtherCalls)
      BY DEF SafeBoxOperation, ModifyScore, GiveScore, AddPartner, OtherCalls
    <2>. QED  BY <2>2, <2>3, <2>4
  <1>. QED  BY <1>1, <1>2, <1>4, <1>5 DEF k, MemberOps

\* A message that arrives changes nothing else.
LEMMA ArriveIs ==
    ASSUME Shaped, NEW s \in Slots, Arrive(s), start \in DOMAIN Starts
    PROVE  /\ s \notin Busy /\ OthersWait(s) /\ db' = db /\ hist' = hist /\ failed' = failed
           /\ \E c \in Starts[start].calls : reqs'[s] = NewRequest(c)
  <1>1. PICK c \in Starts[start].calls : reqs' = [reqs EXCEPT ![s] = NewRequest(c)]
    BY DEF Arrive
  <1>. DEFINE k == NewRequest(c)
  <1>2. reqs' = [reqs EXCEPT ![s] = k]
    BY <1>1
  <1>3. k = NewRequest(c)
    OBVIOUS
  <1>. HIDE DEF k
  <1>4. OthersWait(s) /\ reqs'[s] = k
    BY <1>2 DEF Shaped, OthersWait
  <1>. QED  BY <1>3, <1>4 DEF Arrive, Busy

\* A message arrives.
LEMMA ArriveWays ==
    ASSUME Shaped, WaysInv, NEW s \in Slots, Arrive(s), start \in DOMAIN Starts
    PROVE  WaysInv'
  <1>1. /\ s \notin Busy /\ OthersWait(s) /\ db' = db
        /\ \E c \in Starts[start].calls : reqs'[s] = NewRequest(c)
    BY ArriveIs
  <1>2. DocWays'
    BY <1>1, ReadWays DEF WaysInv
  <1>3. PICK c \in Starts[start].calls : reqs'[s] = NewRequest(c)
    BY <1>1
  <1>. DEFINE k == NewRequest(c)
              Fit(t) ==
                 /\ t.op \in MemberOps =>
                       /\ Left(t.op, t.todo) /\ t.union \in Nat /\ t.id \in Nat
                       /\ Now(t) = "incr" => db'.counters[Key(t)] # Absent
                 /\ t.op = "CreateUnion" => (t.union = 0 <=> Stage(t) <= 4)
                 /\ t.op \in HallOps \ MemberOps => t.todo \in Seq(OtherCalls)
  <1>4. /\ k.op \in MemberOps => /\ Left(k.op, k.todo) /\ Stage(k) = 1
                                 /\ k.union \in Nat /\ k.id = 0 /\ Now(k) # "incr"
        /\ k.op = "CreateUnion" => k.union = 0
        /\ k.op \in HallOps \ MemberOps => k.todo \in Seq(OtherCalls)
    BY NewWay
  <1>5. reqs'[s] = k
    BY <1>3
  <1>6. Fit(reqs'[s]) => ClubWay(reqs[s])'
    BY DEF ClubWay
  <1>. HIDE DEF k
  <1>7. Fit(k)
    BY <1>4 DEF MemberOps
  <1>. HIDE DEF Fit
  <1>8. ClubWay(reqs[s])'
    BY <1>5, <1>6, <1>7
  <1>9. ASSUME NEW p \in Busy', p # s
        PROVE  ClubWay(reqs[p])'
    <2>1. p \in Busy /\ reqs'[p] = reqs[p]
      BY <1>1, <1>9 DEF OthersWait, Busy
    <2>. QED  BY <1>1, <2>1 DEF WaysInv, ClubWay, Key
  <1>. QED  BY <1>2, <1>8, <1>9 DEF WaysInv

\* The documents at the start.
LEMMA WaysAtStart ==
    ASSUME Init
    PROVE  WaysInv
  <1>1. db \in Docs /\ Busy = {}
    BY StartsShaped, ClubsAssumption DEF Init
  <1>2. ASSUME NEW u \in Users
        PROVE  Rows(Info(u))
    <2>1. Info(u) \in Seq(UnionInfo)
      BY <1>1 DEF Docs, User, Info
    <2>2. \A e \in UnionInfo : DOMAIN e = EntryFields /\ e.union \in Nat /\ e.invite \in Nat
      BY DEF UnionInfo, EntryFields
    <2>3. \A i \in DOMAIN Info(u) : Info(u)[i] \in UnionInfo
      BY <2>1
    <2>. QED  BY <2>1, <2>2, <2>3 DEF Rows, IsSeq
  <1>3. db.unions \in Seq(Union) /\ db.counters \in [Counters -> Nat \cup {Absent}]
    BY <1>1 DEF Docs
  <1>4. ASSUME NEW i \in DOMAIN db.unions
        PROVE  db.unions[i].id \in Nat /\ db.unions[i].curMember \in Int
    <2>1. db.unions[i] \in Union
      BY <1>3
    <2>. QED  BY <2>1 DEF Union
  <1>. QED  BY <1>1, <1>2, <1>3, <1>4 DEF WaysInv, DocWays, CountersAre

\* Requests for members keep to their handlers.
THEOREM HandlersKeepOrder == Spec => []WaysInv
  <1>1. Init => WaysInv /\ start \in DOMAIN Starts
    BY WaysAtStart DEF Init
  <1>2. OwnInv /\ MemInv /\ start \in DOMAIN Starts /\ WaysInv /\ [Next]_vars
          => WaysInv' /\ (start \in DOMAIN Starts)'
    <2>. SUFFICES ASSUME OwnInv, MemInv, start \in DOMAIN Starts, WaysInv, [Next]_vars
                  PROVE  WaysInv' /\ start' = start
      OBVIOUS
    <2>1. start' = start
      BY EveryStep
    <2>2. Shaped
      BY DEF OwnInv
    <2>3. ASSUME NEW s \in Slots, Arrive(s)
          PROVE  WaysInv'
      BY <2>2, <2>3, ArriveWays
    <2>4. Aside /\ OthersOk => WaysInv'
      BY AsideWays
    <2>5. ASSUME NEW s \in Busy, Member(s), SharedStep(s) \/ HallStep(s)
          PROVE  WaysInv'
      BY <2>5, MemberKeepsWays
    <2>. QED  BY <2>1, <2>3, <2>4, <2>5, EveryMember
  <1>. QED  BY <1>1, <1>2, LocksHaveOneOwner, MemoryStaysShaped, PTL DEF Spec


-----------------------------------------------------------------------------
(* Who has drawn a number. *)

\* Nobody has one who had none.
CreatesKept ==
    \A p \in Slots : Creates(p)' =>
        /\ Creates(p) /\ reqs'[p].union = reqs[p].union
        /\ Stage(reqs'[p]) = 5 => Stage(reqs[p]) = 5
InvitesKept ==
    \A p \in Slots : Invites(p)' => Invites(p) /\ reqs'[p].id = reqs[p].id

\* A request that does not draw a number is at no stage to do so.
LEMMA NotDrawing ==
    ASSUME NEW s, Member(s), Now(reqs[s]) # "incr"
    PROVE  LET r == reqs[s]
           IN /\ r.op = "CreateUnion" => Stage(r) # 4 /\ Stage(r) # 7
              /\ r.op \in Joins => Stage(r) # 6
  <1>. DEFINE op == reqs[s].op
              n == Stage(reqs[s])
              x == Now(reqs[s])
  <1>1. Left(op, reqs[s].todo) /\ op \in MemberOps
    BY MemberIs
  <1>. HIDE DEF op
  <1>2. n = Place(op, reqs[s].todo) /\ x = Head(reqs[s].todo)
    BY DEF Stage, Now, op
  <1>3. x # "incr"
    OBVIOUS
  <1>. HIDE DEF n, x
  <1>4. \/ x = "findUser"
           /\ \/ op = "CreateUnion" /\ n = 1
              \/ op = "JoinUnion" /\ n = 3
              \/ op \in {"InviteJoinUnion", "ExitUnion"} /\ n = 2
        \/ x = "findOwned" /\ op = "CreateUnion" /\ n = 2
        \/ x \in {"exists", "set"} /\ \/ op = "CreateUnion" /\ n \in {3, 6}
                                      \/ op \in Joins /\ n = 5
        \/ x = "incr" /\ \/ op = "CreateUnion" /\ n \in {4, 7}
                         \/ op \in Joins /\ n = 6
        \/ x = "insertUnion" /\ op = "CreateUnion" /\ n = 5
        \/ x = "addToSet" /\ op = "CreateUnion" /\ n = 8
        \/ x = "findInviter" /\ op = "JoinUnion" /\ n = 1
        \/ x = "findUnion" /\ \/ op = "JoinUnion" /\ n = 2
                              \/ op \in {"InviteJoinUnion", "ExitUnion"} /\ n = 1
        \/ x = "findOther" /\ op = "InviteJoinUnion" /\ n = 3
        \/ x = "countMember" /\ op \in Joins /\ n = 4
        \/ x = "push" /\ op \in Joins /\ n = 7
        \/ x = "pull" /\ op = "ExitUnion" /\ n = 3
        \/ x = "moveDownlines" /\ op = "ExitUnion" /\ n = 4
        \/ x = "uncountMember" /\ op = "ExitUnion" /\ n = 5
    BY <1>1, <1>2, WhereCalls
  <1>5. (op = "CreateUnion" => n # 4 /\ n # 7) /\ (op \in Joins => n # 6)
    BY <1>3, <1>4 DEF Joins
  <1>. QED  BY <1>5 DEF op, n

\* What the others have drawn stays.
LEMMA OthersDrew ==
    ASSUME NEW s, OthersWait(s), NEW p \in Slots \ {s}
    PROVE  /\ reqs'[p] = reqs[p]
           /\ Creates(p)' <=> Creates(p)
           /\ Invites(p)' <=> Invites(p)
  <1>1. reqs'[p] = reqs[p] /\ (p \in Busy' <=> p \in Busy)
    BY DEF OthersWait, Busy
  <1>. QED  BY <1>1 DEF Creates, Invites

\* A request that goes on, sets a counter or ends.
LEMMA OnReach ==
    ASSUME NEW s, Member(s), NEW x, NEW sp, NEW id, NEW n \in Nat, Stands(s, x, sp, id, n)
    PROVE  LET r == reqs[s]
           IN /\ reqs'[s].union = x /\ reqs'[s].id = id /\ Stage(reqs'[s]) = n
              /\ Creates(s)' <=> r.op = "CreateUnion" /\ n >= 5
              /\ Creates(s) <=> r.op = "CreateUnion" /\ Stage(r) >= 5
              /\ Invites(s)' <=> \/ r.op = "CreateUnion" /\ n = 8
                                 \/ r.op \in Joins /\ n = 7
              /\ Invites(s) <=> \/ r.op = "CreateUnion" /\ Stage(r) = 8
                                \/ r.op \in Joins /\ Stage(r) = 7
  <1>1. s \in Slots /\ s \in Busy
    BY MemberIs
  <1>2. /\ s \in Busy' /\ reqs'[s].op = reqs[s].op /\ reqs'[s].union = x /\ reqs'[s].id = id
        /\ Stage(reqs'[s]) = n
    BY <1>1 DEF Stands, Busy
  <1>3. Creates(s)' <=> reqs[s].op = "CreateUnion" /\ n >= 5
    BY <1>2 DEF Creates
  <1>4. Invites(s)' <=> \/ reqs[s].op = "CreateUnion" /\ n = 8
                        \/ reqs[s].op \in Joins /\ n = 7
    BY <1>2 DEF Invites
  <1>5. Creates(s) <=> reqs[s].op = "CreateUnion" /\ Stage(reqs[s]) >= 5
    BY <1>1 DEF Creates
  <1>6. Invites(s) <=> \/ reqs[s].op = "CreateUnion" /\ Stage(reqs[s]) = 8
                       \/ reqs[s].op \in Joins /\ Stage(reqs[s]) = 7
    BY <1>1 DEF Invites
  <1>. QED  BY <1>2, <1>3, <1>4, <1>5, <1>6

\* A request that draws no number.
LEMMA NoDraw ==
    ASSUME NEW s, Member(s),
           \/ Quits(s) \/ Sets(s)
           \/ /\ Now(reqs[s]) # "incr"
              /\ \E x, sp : /\ Reaches(s, x, sp, reqs[s].id)
                            /\ reqs[s].op = "CreateUnion" => x = reqs[s].union
    PROVE  CreatesKept /\ InvitesKept
  <1>. DEFINE r == reqs[s]
  <1>1. s \in Slots /\ Stage(r) \in Nat
    BY MemberIs
  <1>2. OthersWait(s)
    BY DEF Quits, Sets, Reaches, Stands
  <1>3. Now(r) # "incr" => /\ r.op = "CreateUnion" => Stage(r) # 4 /\ Stage(r) # 7
                           /\ r.op \in Joins => Stage(r) # 6
    BY NotDrawing
  <1>4. /\ Creates(s)' => /\ Creates(s) /\ reqs'[s].union = r.union
                          /\ Stage(reqs'[s]) = 5 => Stage(r) = 5
        /\ Invites(s)' => Invites(s) /\ reqs'[s].id = r.id
    <2>1. CASE Quits(s)
      <3>1. s \notin Busy'
        BY <2>1 DEF Quits, Busy
      <3>. QED  BY <3>1 DEF Creates, Invites
    <2>2. CASE Sets(s)
      <3>1. Stands(s, r.union, r.spreader, r.id, Stage(r))
        BY <2>2 DEF Sets
      <3>. HIDE DEF r
      <3>2. /\ reqs'[s].union = r.union /\ reqs'[s].id = r.id /\ Stage(reqs'[s]) = Stage(r)
            /\ Creates(s)' <=> r.op = "CreateUnion" /\ Stage(r) >= 5
            /\ Creates(s) <=> r.op = "CreateUnion" /\ Stage(r) >= 5
            /\ Invites(s)' <=> \/ r.op = "CreateUnion" /\ Stage(r) = 8
                               \/ r.op \in Joins /\ Stage(r) = 7
            /\ Invites(s) <=> \/ r.op = "CreateUnion" /\ Stage(r) = 8
                              \/ r.op \in Joins /\ Stage(r) = 7
        BY <1>1, <3>1, OnReach DEF r
      <3>. QED  BY <3>2
    <2>3. ASSUME NEW x, NEW sp, Reaches(s, x, sp, r.id), r.op = "CreateUnion" => x = r.union,
                 Now(r) # "incr"
          PROVE  /\ Creates(s)' => /\ Creates(s) /\ reqs'[s].union = r.union
                                   /\ Stage(reqs'[s]) = 5 => Stage(r) = 5
                 /\ Invites(s)' => Invites(s) /\ reqs'[s].id = r.id
      <3>. DEFINE n == Stage(r) + 1
      <3>1. Stands(s, x, sp, r.id, n) /\ n \in Nat
        BY <1>1, <2>3 DEF Reaches
      <3>. HIDE DEF r, n
      <3>2. /\ reqs'[s].union = x /\ reqs'[s].id = r.id /\ Stage(reqs'[s]) = n
            /\ Creates(s)' <=> r.op = "CreateUnion" /\ n >= 5
            /\ Creates(s) <=> r.op = "CreateUnion" /\ Stage(r) >= 5
            /\ Invites(s)' <=> \/ r.op = "CreateUnion" /\ n = 8
                               \/ r.op \in Joins /\ n = 7
            /\ Invites(s) <=> \/ r.op = "CreateUnion" /\ Stage(r) = 8
                              \/ r.op \in Joins /\ Stage(r) = 7
        BY <3>1, OnReach DEF r
      <3>3. r.op = "CreateUnion" => r.op \notin Joins
        BY DEF Joins
      <3>. QED  BY <1>1, <1>3, <2>3, <3>2, <3>3 DEF n
    <2>. QED  BY <2>1, <2>2, <2>3
  <1>. QED  BY <1>2, <1>4, OthersDrew DEF CreatesKept, InvitesKept

\* A step that is nobody's membership.
LEMMA AsideDraws ==
    ASSUME Aside
    PROVE  CreatesKept /\ InvitesKept
  <1>1. ASSUME NEW p \in Slots, Creates(p)' \/ Invites(p)'
        PROVE  reqs'[p] = reqs[p] /\ p \in Busy
    <2>1. Involved(p)'
      BY <1>1 DEF Creates, Invites, Involved, MemberOps, Joins
    <2>. QED  BY <2>1 DEF Aside, Involved
  <1>. QED  BY <1>1 DEF CreatesKept, InvitesKept, Creates, Invites

\* A message arrives.
LEMMA ArriveDraws ==
    ASSUME Shaped, NEW s \in Slots, Arrive(s), start \in DOMAIN Starts
    PROVE  CreatesKept /\ InvitesKept
  <1>1. OthersWait(s) /\ \E c \in Starts[start].calls : reqs'[s] = NewRequest(c)
    BY ArriveIs
  <1>2. PICK c \in Starts[start].calls : reqs'[s] = NewRequest(c)
    BY <1>1
  <1>. DEFINE k == NewRequest(c)
  <1>3. k.op \in MemberOps => Stage(k) = 1
    BY NewWay
  <1>4. reqs'[s] = k
    BY <1>2
  <1>. HIDE DEF k
  <1>5. ~Creates(s)' /\ ~Invites(s)'
    BY <1>3, <1>4 DEF Creates, Invites, MemberOps, Joins
  <1>. QED  BY <1>1, <1>5, OthersDrew DEF CreatesKept, InvitesKept

-----------------------------------------------------------------------------
(* Numbers that nobody draws. *)

\* The last numbers drawn are numbers.
LEMMA TopIs ==
    ASSUME WaysInv, WaysInv'
    PROVE  /\ Top("union") \in Nat /\ Top("union")' \in Nat
           /\ Top("invite") \in Nat /\ Top("invite")' \in Nat
  <1>1. CountersAre(db.counters) /\ CountersAre(db'.counters)
    BY DEF WaysInv, DocWays
  <1>2. /\ \A k \in Counters : Top(k) \in Nat
        /\ \A k \in Counters : IF db'.counters[k] = Absent THEN Begin(k) \in Nat
                                ELSE db'.counters[k] \in Nat
    BY <1>1, KeyIs DEF CountersAre, Top
  <1>3. "union" \in Counters /\ "invite" \in Counters
    BY DEF Counters
  <1>. QED  BY <1>2, <1>3 DEF Top

\* The same unions, and the last number is not less.
LEMMA UnionsKeep ==
    ASSUME WaysInv, WaysInv', UnionsNumbered, CreatesKept, Top("union") <= Top("union")',
           DOMAIN db'.unions = DOMAIN db.unions,
           \A i \in DOMAIN db.unions : db'.unions[i].id = db.unions[i].id
    PROVE  UnionsNumbered'
  <1>1. Top("union") \in Nat /\ Top("union")' \in Nat
    BY TopIs
  <1>2. \A i \in DOMAIN db.unions : db.unions[i].id \in Nat
    BY DEF WaysInv, DocWays
  <1>3. \A p \in Slots : Creates(p) => reqs[p].union \in Nat
    BY DEF WaysInv, ClubWay, Creates, MemberOps
  <1>4. \A i \in DOMAIN db'.unions : db'.unions[i].id <= Top("union")'
    BY <1>1, <1>2 DEF UnionsNumbered
  <1>5. \A p \in Slots : Creates(p)' =>
           /\ reqs'[p].union <= Top("union")'
           /\ Stage(reqs'[p]) = 5 => \A i \in DOMAIN db'.unions : db'.unions[i].id # reqs'[p].union
    BY <1>1, <1>3 DEF UnionsNumbered, CreatesKept
  <1>6. \A i, j \in DOMAIN db'.unions : db'.unions[i].id = db'.unions[j].id => i = j
    BY DEF UnionsNumbered
  <1>7. \A p, t \in Slots : Creates(p)' /\ Creates(t)' /\ reqs'[p].union = reqs'[t].union => p = t
    BY DEF UnionsNumbered, CreatesKept
  <1>. QED  BY <1>4, <1>5, <1>6, <1>7 DEF UnionsNumbered

\* The ids of a list come from another, each once.
Inherits(q, p) ==
    /\ \A i \in DOMAIN p : \E j \in DOMAIN q : p[i].invite = q[j].invite
    /\ \A i, j \in DOMAIN p : p[i].invite = p[j].invite => i = j

\* No other entries, and the last number is not less.
LEMMA EntriesKeep ==
    ASSUME WaysInv, WaysInv', EntriesNumbered, InvitesKept, Top("invite") <= Top("invite")',
           \A u \in Users : Inherits(Info(u), Info(u)')
    PROVE  EntriesNumbered'
  <1>1. Top("invite") \in Nat /\ Top("invite")' \in Nat
    BY TopIs
  <1>2. \A u \in Users : \A i \in DOMAIN Info(u) : Info(u)[i].invite \in Nat
    BY DEF WaysInv, DocWays, Rows
  <1>3. \A p \in Slots : Invites(p) => reqs[p].id \in Nat
    BY DEF WaysInv, ClubWay, Invites, MemberOps, Joins
  <1>4. ASSUME NEW u \in Users, NEW i \in DOMAIN Info(u)'
        PROVE  \E j \in DOMAIN Info(u) : Info(u)'[i].invite = Info(u)[j].invite
    BY DEF Inherits
  <1>5. \A u \in Users : \A i \in DOMAIN Info(u)' : Info(u)'[i].invite <= Top("invite")'
    BY <1>1, <1>2, <1>4 DEF EntriesNumbered
  <1>6. ASSUME NEW u \in Users, NEW v \in Users, NEW i \in DOMAIN Info(u)', NEW j \in DOMAIN Info(v)',
               Info(u)'[i].invite = Info(v)'[j].invite
        PROVE  u = v /\ i = j
    <2>1. u = v
      BY <1>4, <1>6 DEF EntriesNumbered
    <2>. QED  BY <1>6, <2>1 DEF Inherits
  <1>7. ASSUME NEW p \in Slots, Invites(p)'
        PROVE  /\ reqs'[p].id <= Top("invite")'
               /\ \A u \in Users : \A i \in DOMAIN Info(u)' : Info(u)'[i].invite # reqs'[p].id
    <2>1. Invites(p) /\ reqs'[p].id = reqs[p].id
      BY <1>7 DEF InvitesKept
    <2>. QED  BY <1>1, <1>3, <1>4, <2>1 DEF EntriesNumbered
  <1>8. \A p, t \in Slots : Invites(p)' /\ Invites(t)' /\ reqs'[p].id = reqs'[t].id => p = t
    BY DEF EntriesNumbered, InvitesKept
  <1>. QED  BY <1>5, <1>6, <1>7, <1>8 DEF EntriesNumbered


\* A list that stays, changes in other fields, loses entries, or gets another
\* spreader in one.
LEMMA ListsInherit ==
    ASSUME NEW q, NEW p, \A i, j \in DOMAIN q : q[i].invite = q[j].invite => i = j
    PROVE  /\ p = q => Inherits(q, p)
           /\ AlikeRows(q, p) => Inherits(q, p)
           /\ \A x : Sifts(q, p, x) => Inherits(q, p)
           /\ \A x, from, to : Lowers(q, p, x, from, to) => Inherits(q, p)
  <1>1. ASSUME DOMAIN p = DOMAIN q, \A i \in DOMAIN q : p[i].invite = q[i].invite
        PROVE  Inherits(q, p)
    BY <1>1 DEF Inherits
  <1>2. ASSUME NEW x, Sifts(q, p, x)
        PROVE  Inherits(q, p)
    <2>1. PICK f : /\ \A k \in DOMAIN p :
                         f[k] \in DOMAIN q /\ q[f[k]].union # x /\ p[k] = q[f[k]]
                   /\ \A k, l \in DOMAIN p : f[k] = f[l] => k = l
      BY <1>2 DEF Sifts
    <2>. QED  BY <2>1 DEF Inherits
  <1>3. p = q => Inherits(q, p)
    BY <1>1
  <1>4. AlikeRows(q, p) => Inherits(q, p)
    BY <1>1 DEF AlikeRows
  <1>5. ASSUME NEW x, NEW from, NEW to, Lowers(q, p, x, from, to)
        PROVE  Inherits(q, p)
    BY <1>1, <1>5 DEF Lowers
  <1>. QED  BY <1>2, <1>3, <1>4, <1>5

\* The ids of a user's entries differ.
LEMMA OwnDiffer ==
    ASSUME EntriesNumbered, NEW u \in Users
    PROVE  \A i, j \in DOMAIN Info(u) : Info(u)[i].invite = Info(u)[j].invite => i = j
  BY DEF EntriesNumbered

\* Counters that stay.
SameCounters == db'.counters = db.counters
SameIds ==
    /\ DOMAIN db'.unions = DOMAIN db.unions
    /\ \A i \in DOMAIN db.unions : db'.unions[i].id = db.unions[i].id

\* No number is drawn and none is used.
LEMMA NumbersStay ==
    ASSUME WaysInv, WaysInv', UnionsNumbered, EntriesNumbered, CreatesKept, InvitesKept,
           Top("union") <= Top("union")', Top("invite") <= Top("invite")', SameIds,
           \A u \in Users : Inherits(Info(u), Info(u)')
    PROVE  UnionsNumbered' /\ EntriesNumbered'
  BY UnionsKeep, EntriesKeep DEF SameIds

\* Counters that stay have the same last number.
LEMMA TopStays ==
    ASSUME WaysInv, WaysInv', SameCounters
    PROVE  /\ Top("union") <= Top("union")' /\ Top("invite") <= Top("invite")'
           /\ Top("union")' = Top("union") /\ Top("invite")' = Top("invite")
  <1>1. /\ Top("union") \in Nat /\ Top("invite") \in Nat
    BY TopIs
  <1>2. Top("union")' = Top("union") /\ Top("invite")' = Top("invite")
    BY DEF Top, SameCounters
  <1>. QED  BY <1>1, <1>2

\* A step that is nobody's membership.
LEMMA AsideNumbers ==
    ASSUME WaysInv, WaysInv', UnionsNumbered, EntriesNumbered, Aside
    PROVE  UnionsNumbered' /\ EntriesNumbered'
  <1>1. CreatesKept /\ InvitesKept
    BY AsideDraws
  <1>2. SameCounters /\ SameIds /\ AlikeLists(db')
    BY DEF Aside, AlikeDocs, AlikeUnions, SameCounters, SameIds
  <1>3. ASSUME NEW u \in Users
        PROVE  Inherits(Info(u), Info(u)')
    <2>1. AlikeRows(Info(u), Info(u)')
      BY <1>2 DEF AlikeLists, WaysInv, DocWays, Info
    <2>. QED  BY <2>1, OwnDiffer, ListsInherit
  <1>. QED  BY <1>1, <1>2, <1>3, TopStays, NumbersStay

\* A step that leaves the documents alone.
LEMMA ReadNumbers ==
    ASSUME WaysInv, WaysInv', UnionsNumbered, EntriesNumbered, CreatesKept, InvitesKept,
           db' = db
    PROVE  UnionsNumbered' /\ EntriesNumbered'
  <1>1. SameCounters /\ SameIds
    BY DEF SameCounters, SameIds
  <1>2. ASSUME NEW u \in Users
        PROVE  Inherits(Info(u), Info(u)')
    <2>1. Info(u)' = Info(u)
      BY DEF Info
    <2>. QED  BY <2>1, OwnDiffer, ListsInherit
  <1>. QED  BY <1>1, <1>2, TopStays, NumbersStay

\* What a request for a member reads.
LEMMA MemberReadNumbers ==
    ASSUME NEW s, Member(s), WaysInv, WaysInv', UnionsNumbered, EntriesNumbered,
           \/ FindUser(s) \/ FindOwned(s) \/ FindInviter(s) \/ FindUnion(s) \/ FindOther(s)
           \/ Exists(s) \/ HallFault(s)
    PROVE  UnionsNumbered' /\ EntriesNumbered'
  <1>. DEFINE r == reqs[s]
              Fine == \/ Quits(s) \/ Sets(s)
                      \/ /\ Now(r) # "incr"
                         /\ \E x, sp : /\ Reaches(s, x, sp, r.id)
                                       /\ r.op = "CreateUnion" => x = r.union
  <1>1. \A u \in Users : Rows(Info(u))
    BY DEF WaysInv, DocWays
  <1>2. ASSUME NEW sp, Reaches(s, r.union, sp, r.id), Now(r) # "incr"
        PROVE  Fine
    BY <1>2
  <1>3. ASSUME NEW x, NEW sp, Reaches(s, x, sp, r.id), Now(r) # "incr", r.op # "CreateUnion"
        PROVE  Fine
    BY <1>3
  <1>4. Quits(s) \/ Sets(s) => Fine
    OBVIOUS
  <1>. HIDE DEF Fine
  <1>5. FindUser(s) => Fine /\ db' = db
    BY <1>2, <1>4, DoesFindUser DEF OnlyReads
  <1>6. FindOwned(s) => Fine /\ db' = db
    BY <1>2, <1>4, DoesFindOwned DEF OnlyReads
  <1>7. FindUnion(s) => Fine /\ db' = db
    BY <1>2, <1>4, DoesFindUnion DEF OnlyReads
  <1>8. FindOther(s) => Fine /\ db' = db
    BY <1>2, <1>4, DoesFindOther DEF OnlyReads
  <1>9. Exists(s) => Fine /\ db' = db
    BY <1>2, <1>4, DoesExists DEF OnlyReads
  <1>10. HallFault(s) => Fine /\ db' = db
    BY <1>4, DoesHallFault
  <1>11. FindInviter(s) => Fine /\ db' = db
    <2>. HAVE FindInviter(s)
    <2>1. /\ Now(r) = "findInviter" /\ db' = db
          /\ \/ Quits(s)
             \/ \E u \in Users : \E i \in DOMAIN Info(u) :
                   Reaches(s, Info(u)[i].union, u, r.id)
      BY <1>1, DoesFindInviter DEF OnlyReads
    <2>2. r.op # "CreateUnion"
      BY <2>1, MembersCall
    <2>. QED  BY <1>3, <1>4, <2>1, <2>2
  <1>12. Fine /\ db' = db
    BY <1>5, <1>6, <1>7, <1>8, <1>9, <1>10, <1>11
  <1>13. CreatesKept /\ InvitesKept
    BY <1>12, NoDraw DEF Fine
  <1>. QED  BY <1>12, <1>13, ReadNumbers

\* A counter that begins does not go back, but when it is set again.
LEMMA BeginNumbers ==
    ASSUME NEW s, Member(s), WaysInv, WaysInv', UnionsNumbered, EntriesNumbered, SetBegin(s),
           \A k \in Counters : ~(db.counters[k] # Absent /\ db'.counters[k] = Begin(k))
    PROVE  UnionsNumbered' /\ EntriesNumbered'
  <1>. DEFINE r == reqs[s]
  <1>1. CountersAre(db.counters)
    BY DEF WaysInv, DocWays
  <1>2. /\ Now(r) = "set" /\ CounterSet(Key(r), Begin(Key(r)))
        /\ Reaches(s, r.union, r.spreader, r.id)
    BY <1>1, DoesSetBegin
  <1>3. CreatesKept /\ InvitesKept
    BY <1>2, NoDraw
  <1>. HIDE DEF r
  <1>4. SameIds /\ db'.users = db.users
    BY <1>2 DEF SameIds, CounterSet
  <1>5. ASSUME NEW u \in Users
        PROVE  Inherits(Info(u), Info(u)')
    <2>1. Info(u)' = Info(u)
      BY <1>4 DEF Info
    <2>. QED  BY <2>1, OwnDiffer, ListsInherit
  <1>6. ASSUME NEW k \in Counters
        PROVE  Top(k)' = Top(k)
    <2>1. CASE k = Key(r)
      BY <1>2, <2>1, KeyIs DEF Top, CounterSet
    <2>2. CASE k # Key(r)
      BY <1>2, <2>2 DEF Top, CounterSet
    <2>. QED  BY <2>1, <2>2
  <1>7. Top("union")' = Top("union") /\ Top("invite")' = Top("invite")
    BY <1>6 DEF Counters
  <1>8. Top("union") <= Top("union")' /\ Top("invite") <= Top("invite")'
    BY <1>7, TopIs
  <1>. QED  BY <1>3, <1>4, <1>5, <1>8, NumbersStay


\* A count that changes.
LEMMA CountNumbers ==
    ASSUME NEW s, Member(s), WaysInv, WaysInv', UnionsNumbered, EntriesNumbered,
           CountMember(s) \/ UncountMember(s)
    PROVE  UnionsNumbered' /\ EntriesNumbered'
  <1>. DEFINE r == reqs[s]
  <1>1. /\ \E x, n : Counted(x, n)
        /\ Now(r) \in {"countMember", "uncountMember"}
        /\ Quits(s) \/ Reaches(s, r.union, r.spreader, r.id)
    BY DoesCount
  <1>2. CreatesKept /\ InvitesKept
    BY <1>1, NoDraw
  <1>. HIDE DEF r
  <1>3. SameCounters /\ SameIds /\ db'.users = db.users
    BY <1>1 DEF SameCounters, SameIds, Counted
  <1>4. ASSUME NEW u \in Users
        PROVE  Inherits(Info(u), Info(u)')
    <2>1. Info(u)' = Info(u)
      BY <1>3 DEF Info
    <2>. QED  BY <2>1, OwnDiffer, ListsInherit
  <1>. QED  BY <1>2, <1>3, <1>4, TopStays, NumbersStay

\* Entries that are gone, and those that get another spreader.
LEMMA ExitNumbers ==
    ASSUME NEW s, Member(s), WaysInv, WaysInv', UnionsNumbered, EntriesNumbered,
           Pull(s) \/ Downlines(s)
    PROVE  UnionsNumbered' /\ EntriesNumbered'
  <1>. DEFINE r == reqs[s]
  <1>0. \A u \in Users : Rows(Info(u))
    BY DEF WaysInv, DocWays
  <1>1. /\ Now(r) \in {"pull", "moveDownlines"} /\ Reaches(s, r.union, r.spreader, r.id)
        /\ db'.unions = db.unions /\ SameCounters
        /\ \A u \in Users : \/ Info(u)' = Info(u) \/ Sifts(Info(u), Info(u)', r.union)
                            \/ Lowers(Info(u), Info(u)', r.union, r.uid, r.spreader)
    <2>1. CASE Pull(s)
      <3>1. /\ Now(r) = "pull" /\ ListSet(r.uid, OtherEntries(Info(r.uid), r.union))
            /\ Reaches(s, r.union, r.spreader, r.id)
        BY <2>1, DoesPull
      <3>2. r.uid \in Users
        BY MemberIs
      <3>. HIDE DEF r
      <3>3. Sifts(Info(r.uid), OtherEntries(Info(r.uid), r.union), r.union)
        BY <1>0, <3>2, OthersSift
      <3>4. \A u \in Users : Info(u)' = IF u = r.uid THEN OtherEntries(Info(r.uid), r.union)
                                        ELSE Info(u)
        BY <3>1 DEF ListSet, Info
      <3>. QED  BY <3>1, <3>3, <3>4 DEF ListSet, SameCounters
    <2>2. CASE Downlines(s)
      BY <1>0, <2>2, DoesDownlines DEF SameCounters, Info
    <2>. QED  BY <2>1, <2>2
  <1>2. CreatesKept /\ InvitesKept
    BY <1>1, NoDraw
  <1>. HIDE DEF r
  <1>3. SameIds
    BY <1>1 DEF SameIds
  <1>4. ASSUME NEW u \in Users
        PROVE  Inherits(Info(u), Info(u)')
    <2>1. \A i, j \in DOMAIN Info(u) : Info(u)[i].invite = Info(u)[j].invite => i = j
      BY OwnDiffer
    <2>. QED  BY <1>1, <2>1, ListsInherit
  <1>. QED  BY <1>1, <1>2, <1>3, <1>4, TopStays, NumbersStay

\* The entry a request adds has the id it drew.
LEMMA PushNumbers ==
    ASSUME NEW s, Member(s), WaysInv, WaysInv', UnionsNumbered, EntriesNumbered,
           AddToSet(s) \/ Push(s)
    PROVE  UnionsNumbered' /\ EntriesNumbered'
  <1>0. PICK w \in Users : w = AddedTo(reqs[s])
    BY PushAdds
  <1>. DEFINE r == reqs[s]
              e == Added(r)
              q == Info(w)
              p == Append(q, e)
              m == Len(q)
  <1>1. /\ \/ r.op = "CreateUnion" /\ Stage(r) = 8
           \/ r.op \in Joins /\ Stage(r) = 7
        /\ w \in Users /\ ListSet(w, p) /\ Quits(s)
    BY <1>0, PushAdds
  <1>2. s \in Slots /\ s \in Busy /\ r.union \in Nat /\ r.id \in Nat
    BY MemberIs
  <1>3. Invites(s)
    BY <1>1, <1>2 DEF Invites
  <1>4. CreatesKept /\ InvitesKept
    BY <1>1, NoDraw
  <1>5. DOMAIN e = EntryFields /\ e.union = r.union /\ e.invite = r.id
    BY AddedIs
  <1>. HIDE DEF r, e
  <1>6. Rows(q)
    BY <1>1 DEF WaysInv, DocWays
  <1>. HIDE DEF q
  <1>7. /\ m \in Nat /\ DOMAIN q = 1 .. m /\ DOMAIN p = 1 .. m + 1
        /\ \A i \in DOMAIN q : p[i] = q[i]
        /\ p[m + 1] = e
    BY <1>2, <1>5, <1>6, PushRows
  <1>. HIDE DEF m, p
  <1>8. SameCounters /\ SameIds
    BY <1>1 DEF ListSet, SameCounters, SameIds
  <1>9. UnionsNumbered'
    BY <1>4, <1>8, TopStays, UnionsKeep DEF SameIds
  <1>10. Info(w)' = p /\ \A u \in Users \ {w} : Info(u)' = Info(u)
    BY <1>1 DEF ListSet, Info
  <1>11. /\ Top("invite")' = Top("invite") /\ r.id <= Top("invite")
         /\ \A u \in Users : \A i \in DOMAIN Info(u) : Info(u)[i].invite # r.id
    BY <1>2, <1>3, <1>8, TopStays DEF EntriesNumbered, r
  <1>12. ASSUME NEW u \in Users, NEW i \in DOMAIN Info(u)'
         PROVE  \/ i \in DOMAIN Info(u) /\ Info(u)'[i] = Info(u)[i]
                \/ u = w /\ i = m + 1 /\ Info(u)'[i].invite = r.id
    <2>1. CASE u = w
      <3>1. i \in 1 .. m \/ i = m + 1
        BY <1>7, <1>10, <2>1
      <3>. QED  BY <1>5, <1>7, <1>10, <2>1, <3>1 DEF q
    <2>2. CASE u # w
      BY <1>10, <1>12, <2>2
    <2>. QED  BY <2>1, <2>2
  <1>13. \A u \in Users : \A i \in DOMAIN Info(u)' : Info(u)'[i].invite <= Top("invite")'
    BY <1>11, <1>12 DEF EntriesNumbered
  <1>14. ASSUME NEW u \in Users, NEW v \in Users, NEW i \in DOMAIN Info(u)', NEW j \in DOMAIN Info(v)',
                Info(u)'[i].invite = Info(v)'[j].invite
         PROVE  u = v /\ i = j
    <2>1. \/ i \in DOMAIN Info(u) /\ Info(u)'[i] = Info(u)[i]
          \/ u = w /\ i = m + 1 /\ Info(u)'[i].invite = r.id
      BY <1>12
    <2>2. \/ j \in DOMAIN Info(v) /\ Info(v)'[j] = Info(v)[j]
          \/ v = w /\ j = m + 1 /\ Info(v)'[j].invite = r.id
      BY <1>12
    <2>. QED  BY <1>11, <1>14, <2>1, <2>2 DEF EntriesNumbered
  <1>15. ASSUME NEW t \in Slots, Invites(t)'
         PROVE  /\ reqs'[t].id <= Top("invite")'
                /\ \A u \in Users : \A i \in DOMAIN Info(u)' : Info(u)'[i].invite # reqs'[t].id
    <2>1. Invites(t) /\ reqs'[t].id = reqs[t].id
      BY <1>15, <1>4 DEF InvitesKept
    <2>2. t # s
      <3>1. s \notin Busy'
        BY <1>1 DEF Quits, Busy
      <3>. QED  BY <1>15, <3>1 DEF Invites
    <2>3. reqs[t].id # r.id
      BY <1>2, <1>3, <2>1, <2>2 DEF EntriesNumbered, r
    <2>4. /\ reqs[t].id <= Top("invite")
          /\ \A u \in Users : \A i \in DOMAIN Info(u) : Info(u)[i].invite # reqs[t].id
      BY <2>1 DEF EntriesNumbered
    <2>. QED  BY <1>11, <1>12, <2>1, <2>3, <2>4
  <1>16. \A t, v \in Slots : Invites(t)' /\ Invites(v)' /\ reqs'[t].id = reqs'[v].id => t = v
    BY <1>4 DEF EntriesNumbered, InvitesKept
  <1>17. EntriesNumbered'
    BY <1>13, <1>14, <1>15, <1>16 DEF EntriesNumbered
  <1>. QED  BY <1>9, <1>17

\* The union a request inserts has the id it drew.
LEMMA InsertNumbers ==
    ASSUME NEW s, Member(s), WaysInv, WaysInv', UnionsNumbered, EntriesNumbered, InsertUnion(s)
    PROVE  UnionsNumbered' /\ EntriesNumbered'
  <1>. DEFINE r == reqs[s]
              m == Len(db.unions)
  <1>1. /\ Now(r) = "insertUnion" /\ db'.users = db.users /\ SameCounters
        /\ db'.unions = Append(db.unions, NewUnion(r.union, r.uid))
        /\ Reaches(s, r.union, r.spreader, r.id)
        /\ r.op = "CreateUnion" /\ Stage(r) = 5
    BY DoesInsert, MembersCall DEF SameCounters
  <1>2. s \in Slots /\ s \in Busy /\ r.union \in Nat /\ DocsShaped /\ DocWays
    BY MemberIs, MemberDocs DEF WaysInv
  <1>3. Creates(s)
    BY <1>1, <1>2 DEF Creates
  <1>4. CreatesKept /\ InvitesKept
    BY <1>1, NoDraw
  <1>. HIDE DEF r
  <1>5. /\ m \in Nat /\ DOMAIN db.unions = 1 .. m /\ DOMAIN db'.unions = 1 .. m + 1
        /\ \A i \in DOMAIN db.unions : db'.unions[i] = db.unions[i]
        /\ db'.unions[m + 1].id = r.union
    BY <1>1, <1>2, InsertWays DEF SameCounters
  <1>. HIDE DEF m
  <1>6. ASSUME NEW u \in Users
        PROVE  Inherits(Info(u), Info(u)')
    <2>1. Info(u)' = Info(u)
      BY <1>1 DEF Info
    <2>. QED  BY <2>1, OwnDiffer, ListsInherit
  <1>7. EntriesNumbered'
    BY <1>1, <1>4, <1>6, TopStays, EntriesKeep
  <1>8. /\ Top("union")' = Top("union") /\ r.union <= Top("union")
        /\ \A i \in DOMAIN db.unions : db.unions[i].id # r.union
    BY <1>1, <1>2, <1>3, TopStays DEF UnionsNumbered, r
  <1>9. ASSUME NEW i \in DOMAIN db'.unions
        PROVE  \/ i \in DOMAIN db.unions /\ db'.unions[i] = db.unions[i]
               \/ i = m + 1 /\ db'.unions[i].id = r.union
    <2>1. i \in 1 .. m \/ i = m + 1
      BY <1>5, <1>9
    <2>. QED  BY <1>5, <2>1
  <1>10. \A i \in DOMAIN db'.unions : db'.unions[i].id <= Top("union")'
    BY <1>8, <1>9 DEF UnionsNumbered
  <1>11. ASSUME NEW i \in DOMAIN db'.unions, NEW j \in DOMAIN db'.unions,
                db'.unions[i].id = db'.unions[j].id
         PROVE  i = j
    BY <1>8, <1>9, <1>11 DEF UnionsNumbered
  <1>12. ASSUME NEW t \in Slots, Creates(t)'
         PROVE  /\ reqs'[t].union <= Top("union")'
                /\ Stage(reqs'[t]) = 5 =>
                      \A i \in DOMAIN db'.unions : db'.unions[i].id # reqs'[t].union
    <2>1. /\ Creates(t) /\ reqs'[t].union = reqs[t].union
          /\ Stage(reqs'[t]) = 5 => Stage(reqs[t]) = 5
      BY <1>4, <1>12 DEF CreatesKept
    <2>2. t = s => Stage(reqs'[t]) # 5
      BY <1>1 DEF Reaches, Stands, r
    <2>3. t # s => reqs[t].union # r.union
      BY <1>2, <1>3, <2>1 DEF UnionsNumbered, r
    <2>. QED  BY <1>8, <1>9, <2>1, <2>2, <2>3 DEF UnionsNumbered
  <1>13. \A t, v \in Slots : Creates(t)' /\ Creates(v)' /\ reqs'[t].union = reqs'[v].union => t = v
    BY <1>4 DEF UnionsNumbered, CreatesKept
  <1>14. UnionsNumbered'
    BY <1>10, <1>11, <1>12, <1>13 DEF UnionsNumbered
  <1>. QED  BY <1>7, <1>14


\* The number a request draws is new.
LEMMA IncrNumbers ==
    ASSUME NEW s, Member(s), WaysInv, WaysInv', UnionsNumbered, EntriesNumbered, Incr(s)
    PROVE  UnionsNumbered' /\ EntriesNumbered'
  <1>. DEFINE r == reqs[s]
              k == Key(r)
              id == db.counters[k] + 1
              n == Stage(r)
  <1>0. CountersAre(db.counters)
    BY DEF WaysInv, DocWays
  <1>1. /\ Now(r) = "incr" /\ CounterSet(k, id)
        /\ k = "union" => Reaches(s, id, r.spreader, r.id)
        /\ k = "invite" => Reaches(s, r.union, r.spreader, id)
    BY <1>0, DoesIncr
  <1>2. /\ s \in Slots /\ s \in Busy /\ r.union \in Nat /\ n \in Nat
        /\ r.op = "CreateUnion" => (r.union = 0 <=> n <= 4)
        /\ db.counters[k] # Absent
    BY <1>1, MemberIs DEF Member, ClubWay
  <1>3. \/ r.op = "CreateUnion" /\ n \in {4, 7}
        \/ r.op \in Joins /\ n = 6
    BY <1>1, MembersCall
  <1>4. /\ k \in Counters /\ (k = "union" \/ k = "invite")
        /\ k = "union" <=> r.op = "CreateUnion" /\ r.union = 0
        /\ "union" # "invite"
    BY KeyIs
  <1>5. r.op \in Joins => r.op # "CreateUnion"
    BY DEF Joins
  <1>6. /\ k = "union" => r.op = "CreateUnion" /\ n = 4
        /\ k = "invite" => \/ r.op = "CreateUnion" /\ n = 7
                           \/ r.op \in Joins /\ n = 6
    BY <1>2, <1>3, <1>4, <1>5
  <1>7. /\ Top("union") \in Nat /\ Top("invite") \in Nat
    BY TopIs
  <1>. HIDE DEF r, k, id, n
  <1>8. db'.users = db.users /\ SameIds
    BY <1>1 DEF CounterSet, SameIds
  <1>9. ASSUME NEW u \in Users
        PROVE  Inherits(Info(u), Info(u)')
    <2>1. Info(u)' = Info(u)
      BY <1>8 DEF Info
    <2>. QED  BY <2>1, OwnDiffer, ListsInherit
  <1>10. OthersWait(s)
    BY <1>1, <1>4 DEF Reaches, Stands
  <1>11. id \in Nat /\ id = db.counters[k] + 1 /\ db.counters[k] \in Nat /\ id # Absent
    BY <1>0, <1>2, <1>4 DEF CountersAre, id, Absent
  <1>12. CASE k = "union"
    <2>1. /\ Top("union")' = id /\ Top("union") = id - 1 /\ Top("invite")' = Top("invite")
      BY <1>1, <1>2, <1>4, <1>11, <1>12 DEF Top, CounterSet, Counters
    <2>2. Reaches(s, id, r.spreader, r.id)
      BY <1>1, <1>12
    <2>3. Stands(s, id, r.spreader, r.id, 5)
      BY <1>6, <1>12, <2>2 DEF Reaches, r, n
    <2>4. /\ reqs'[s].union = id /\ Creates(s)' /\ ~Invites(s)'
      <3>1. Joins \cap {"CreateUnion"} = {}
        BY DEF Joins
      <3>2. /\ reqs'[s].union = id
            /\ Creates(s)' <=> r.op = "CreateUnion" /\ 5 >= 5
            /\ Invites(s)' <=> \/ r.op = "CreateUnion" /\ 5 = 8
                               \/ r.op \in Joins /\ 5 = 7
        <4>. DEFINE f == 5
        <4>1. f \in Nat /\ Stands(s, id, r.spreader, r.id, f)
          BY <2>3
        <4>. HIDE DEF f
        <4>2. /\ reqs'[s].union = id
              /\ Creates(s)' <=> r.op = "CreateUnion" /\ f >= 5
              /\ Invites(s)' <=> \/ r.op = "CreateUnion" /\ f = 8
                                 \/ r.op \in Joins /\ f = 7
          BY <4>1, OnReach DEF r
        <4>. QED  BY <4>2 DEF f
      <3>. QED  BY <1>6, <1>12, <3>1, <3>2
    <2>5. InvitesKept
      BY <1>10, <2>4, OthersDrew DEF InvitesKept
    <2>6. EntriesNumbered'
      BY <1>7, <1>9, <2>1, <2>5, EntriesKeep
    <2>7. \A i \in DOMAIN db.unions : db.unions[i].id \in Nat
      BY DEF WaysInv, DocWays
    <2>8. \A t \in Slots : Creates(t) => reqs[t].union \in Nat
      BY DEF WaysInv, ClubWay, Creates, MemberOps
    <2>9. \A i \in DOMAIN db'.unions : db'.unions[i].id <= id /\ db'.unions[i].id # id
      BY <1>8, <1>11, <2>1, <2>7 DEF UnionsNumbered, SameIds
    <2>10. \A i, j \in DOMAIN db'.unions : db'.unions[i].id = db'.unions[j].id => i = j
      BY <1>8 DEF UnionsNumbered, SameIds
    <2>11. ASSUME NEW t \in Slots \ {s}, Creates(t)'
           PROVE  /\ Creates(t) /\ reqs'[t] = reqs[t]
                  /\ reqs[t].union <= id /\ reqs[t].union # id
      <3>1. Creates(t) /\ reqs'[t] = reqs[t]
        BY <1>10, <2>11, OthersDrew
      <3>. QED  BY <1>11, <2>1, <2>8, <3>1 DEF UnionsNumbered
    <2>12. ASSUME NEW t \in Slots, Creates(t)'
           PROVE  /\ reqs'[t].union <= id
                  /\ Stage(reqs'[t]) = 5 =>
                        \A i \in DOMAIN db'.unions : db'.unions[i].id # reqs'[t].union
      <3>1. CASE t = s
        BY <1>11, <2>4, <2>9, <3>1
      <3>2. CASE t # s
        <4>1. Creates(t) /\ reqs'[t] = reqs[t] /\ reqs[t].union <= id
          BY <2>11, <2>12, <3>2
        <4>. QED  BY <1>8, <4>1 DEF UnionsNumbered, SameIds
      <3>. QED  BY <3>1, <3>2
    <2>13. ASSUME NEW t \in Slots, NEW v \in Slots, Creates(t)', Creates(v)',
                  reqs'[t].union = reqs'[v].union
           PROVE  t = v
      <3>1. t # s => reqs'[t].union # id /\ Creates(t) /\ reqs'[t] = reqs[t]
        BY <2>11, <2>13
      <3>2. v # s => reqs'[v].union # id /\ Creates(v) /\ reqs'[v] = reqs[v]
        BY <2>11, <2>13
      <3>. QED  BY <2>4, <2>13, <3>1, <3>2 DEF UnionsNumbered
    <2>14. UnionsNumbered'
      BY <2>1, <2>9, <2>10, <2>12, <2>13 DEF UnionsNumbered
    <2>. QED  BY <2>6, <2>14
  <1>13. CASE k = "invite"
    <2>1. /\ Top("invite")' = id /\ Top("invite") = id - 1 /\ Top("union")' = Top("union")
      BY <1>1, <1>2, <1>4, <1>11, <1>13 DEF Top, CounterSet, Counters
    <2>. DEFINE f == n + 1
    <2>2. Stands(s, r.union, r.spreader, id, f)
      BY <1>1, <1>13 DEF Reaches, r, n
    <2>3. f \in Nat
      BY <1>2
    <2>. HIDE DEF f
    <2>4. /\ reqs'[s].union = r.union /\ reqs'[s].id = id /\ Stage(reqs'[s]) = f
          /\ Creates(s)' <=> r.op = "CreateUnion" /\ f >= 5
          /\ Creates(s) <=> r.op = "CreateUnion" /\ n >= 5
      BY <2>2, <2>3, OnReach DEF r, n
    <2>5. Creates(s)' => /\ Creates(s) /\ reqs'[s].union = reqs[s].union
                         /\ Stage(reqs'[s]) = 5 => Stage(reqs[s]) = 5
      BY <1>5, <1>6, <1>13, <2>4 DEF f, r
    <2>6. CreatesKept
      BY <1>10, <2>5, OthersDrew DEF CreatesKept
    <2>7. UnionsNumbered'
      BY <1>7, <1>8, <2>1, <2>6, UnionsKeep DEF SameIds
    <2>8. \A u \in Users : Info(u)' = Info(u)
      BY <1>8 DEF Info
    <2>9. \A u \in Users : \A i \in DOMAIN Info(u) : Info(u)[i].invite \in Nat
      BY DEF WaysInv, DocWays, Rows
    <2>10. \A t \in Slots : Invites(t) => reqs[t].id \in Nat
      BY DEF WaysInv, ClubWay, Invites, MemberOps, Joins
    <2>11. \A u \in Users : \A i \in DOMAIN Info(u)' :
              Info(u)'[i].invite <= id /\ Info(u)'[i].invite # id
      BY <1>11, <2>1, <2>8, <2>9 DEF EntriesNumbered
    <2>12. \A u, v \in Users : \A i \in DOMAIN Info(u)', j \in DOMAIN Info(v)' :
              Info(u)'[i].invite = Info(v)'[j].invite => u = v /\ i = j
      BY <2>8 DEF EntriesNumbered
    <2>13. ASSUME NEW t \in Slots \ {s}, Invites(t)'
           PROVE  /\ Invites(t) /\ reqs'[t] = reqs[t]
                  /\ reqs[t].id <= id /\ reqs[t].id # id
      <3>1. Invites(t) /\ reqs'[t] = reqs[t]
        BY <1>10, <2>13, OthersDrew
      <3>. QED  BY <1>11, <2>1, <2>10, <3>1 DEF EntriesNumbered
    <2>14. ASSUME NEW t \in Slots, Invites(t)'
           PROVE  /\ reqs'[t].id <= id
                  /\ \A u \in Users : \A i \in DOMAIN Info(u)' : Info(u)'[i].invite # reqs'[t].id
      <3>1. CASE t = s
        BY <1>11, <2>4, <2>11, <3>1
      <3>2. CASE t # s
        <4>1. Invites(t) /\ reqs'[t] = reqs[t] /\ reqs[t].id <= id
          BY <2>13, <2>14, <3>2
        <4>. QED  BY <2>8, <4>1 DEF EntriesNumbered
      <3>. QED  BY <3>1, <3>2
    <2>15. ASSUME NEW t \in Slots, NEW v \in Slots, Invites(t)', Invites(v)',
                  reqs'[t].id = reqs'[v].id
           PROVE  t = v
      <3>1. t # s => reqs'[t].id # id /\ Invites(t) /\ reqs'[t] = reqs[t]
        BY <2>13, <2>15
      <3>2. v # s => reqs'[v].id # id /\ Invites(v) /\ reqs'[v] = reqs[v]
        BY <2>13, <2>15
      <3>. QED  BY <2>4, <2>15, <3>1, <3>2 DEF EntriesNumbered
    <2>16. EntriesNumbered'
      BY <2>1, <2>11, <2>12, <2>14, <2>15 DEF EntriesNumbered
    <2>. QED  BY <2>7, <2>16
  <1>. QED  BY <1>4, <1>12, <1>13

\* A step of a request for a member.
LEMMA MemberNumbers ==
    ASSUME NEW s, Member(s), SharedStep(s) \/ HallStep(s), WaysInv, WaysInv',
           UnionsNumbered, EntriesNumbered,
           \A k \in Counters : ~(db.counters[k] # Absent /\ db'.counters[k] = Begin(k))
    PROVE  UnionsNumbered' /\ EntriesNumbered'
  BY MemberCalls, MemberReadNumbers, BeginNumbers, CountNumbers, ExitNumbers, PushNumbers,
     InsertNumbers, IncrNumbers

-----------------------------------------------------------------------------
(* Ids differ. *)

\* The documents to start from have numbers that the counters gave away.
StartsNumbered ==
    \A i \in DOMAIN Starts :
        LET d == Starts[i].docs
            Drawn(k) == IF d.counters[k] = Absent THEN Begin(k) ELSE d.counters[k]
        IN /\ \A j \in DOMAIN d.unions : d.unions[j].id <= Drawn("union")
           /\ \A j, k \in DOMAIN d.unions : d.unions[j].id = d.unions[k].id => j = k
           /\ \A u \in Users : \A j \in DOMAIN d.users[u].info :
                 d.users[u].info[j].invite <= Drawn("invite")
           /\ \A u, v \in Users : \A j \in DOMAIN d.users[u].info, k \in DOMAIN d.users[v].info :
                 d.users[u].info[j].invite = d.users[v].info[k].invite => u = v /\ j = k

\* Numbers are given away once, unless a counter was set back.
THEOREM NumbersStayApart ==
    ASSUME StartsNumbered
    PROVE  Spec => []Numbered
  <1>1. Init => Numbered /\ start \in DOMAIN Starts
    <2>. SUFFICES ASSUME Init
                  PROVE  Numbered /\ start \in DOMAIN Starts
      OBVIOUS
    <2>1. Busy = {} /\ db = Starts[start].docs /\ start \in DOMAIN Starts
      BY DEF Init, Busy
    <2>2. \A s : ~Creates(s) /\ ~Invites(s)
      BY <2>1 DEF Creates, Invites
    <2>3. UnionsNumbered /\ EntriesNumbered
      BY <2>1, <2>2 DEF UnionsNumbered, EntriesNumbered, StartsNumbered, Top, Info
    <2>. QED  BY <2>1, <2>3 DEF Numbered
  <1>2. OwnInv /\ MemInv /\ WaysInv /\ WaysInv' /\ start \in DOMAIN Starts /\ Numbered
           /\ [Next]_vars => Numbered' /\ (start \in DOMAIN Starts)'
    <2>. SUFFICES ASSUME OwnInv, MemInv, WaysInv, WaysInv', start \in DOMAIN Starts,
                         Numbered, [Next]_vars
                  PROVE  Numbered' /\ start' = start
      OBVIOUS
    <2>1. start' = start /\ Shaped
      BY EveryStep DEF OwnInv
    <2>2. SUFFICES ASSUME ~hist'.reset
                   PROVE  UnionsNumbered' /\ EntriesNumbered'
      BY <2>1 DEF Numbered
    <2>3. ASSUME NEW s \in Busy, hist' = Noted(s)
          PROVE  /\ ~hist.reset
                 /\ \A k \in Counters : ~(db.counters[k] # Absent /\ db'.counters[k] = Begin(k))
      BY <2>2, <2>3 DEF Noted
    <2>4. ~hist.reset
      BY <2>2, <2>3, EveryMember
    <2>5. UnionsNumbered /\ EntriesNumbered
      BY <2>4 DEF Numbered
    <2>6. ASSUME NEW s \in Slots, Arrive(s)
          PROVE  UnionsNumbered' /\ EntriesNumbered'
      <3>1. db' = db
        BY <2>6 DEF Arrive
      <3>. QED  BY <2>1, <2>5, <2>6, <3>1, ArriveDraws, ReadNumbers
    <2>7. Aside => UnionsNumbered' /\ EntriesNumbered'
      BY <2>5, AsideNumbers
    <2>8. ASSUME NEW s \in Busy, hist' = Noted(s), Member(s), SharedStep(s) \/ HallStep(s)
          PROVE  UnionsNumbered' /\ EntriesNumbered'
      BY <2>3, <2>5, <2>8, MemberNumbers
    <2>. QED  BY <2>6, <2>7, <2>8, EveryMember
  <1>. QED  BY <1>1, <1>2, LocksHaveOneOwner, MemoryStaysShaped, HandlersKeepOrder, PTL DEF Spec

\* Union ids and invite ids differ, unless a counter was set back.
THEOREM UnionAndInviteIdsDiffer ==
    ASSUME StartsNumbered
    PROVE  Spec => []IdsDiffer
  <1>1. Numbered => IdsDiffer
    <2>. SUFFICES ASSUME UnionsNumbered, EntriesNumbered
                  PROVE  /\ IsInjective([i \in DOMAIN db.unions |-> db.unions[i].id])
                         /\ \A u, v \in Users :
                               \A i \in DOMAIN db.users[u].info, j \in DOMAIN db.users[v].info :
                                  db.users[u].info[i].invite = db.users[v].info[j].invite
                                     => u = v /\ i = j
      BY DEF Numbered, IdsDiffer
    <2>1. IsInjective([i \in DOMAIN db.unions |-> db.unions[i].id])
      BY DEF UnionsNumbered, IsInjective
    <2>. QED  BY <2>1 DEF EntriesNumbered, Info
  <1>. QED  BY <1>1, NumbersStayApart, PTL

-----------------------------------------------------------------------------
(* Who is a member. *)

\* The list has an entry of the union, one with this spreader, one at most of
\* each union.
HasRow(q, x) == \E i \in DOMAIN q : q[i].union = x
RowBelow(q, x, w) == \E i \in DOMAIN q : q[i].union = x /\ q[i].spreader = w
Singles(q) == \A i, j \in DOMAIN q : q[i].union = q[j].union => i = j

Has(u, x) == HasRow(Info(u), x)
Below(u, x, w) == RowBelow(Info(u), x, w)
OneEntryEach == \A u \in Users : Singles(Info(u))

\* A union of this id, its owner, and its owner and number of members.
IsUnion(x) == \E k \in DOMAIN db.unions : db.unions[k].id = x
Owns(o, x) == \E k \in DOMAIN db.unions : db.unions[k].id = x /\ db.unions[k].owner = o
UnionIs(x, o, n) ==
    \E k \in DOMAIN db.unions :
        db.unions[k].id = x /\ db.unions[k].owner = o /\ db.unions[k].curMember = n

\* What a call does to the members: nothing, one more, one less, those below
\* one come below another.
MembersStay ==
    \A u \in Users : \A x : /\ Has(u, x)' <=> Has(u, x)
                            /\ \A w : Below(u, x, w)' <=> Below(u, x, w)
MemberJoins(v, y, t) ==
    \A u \in Users : \A x :
        /\ Has(u, x)' <=> Has(u, x) \/ (u = v /\ x = y)
        /\ \A w : Below(u, x, w)' <=> Below(u, x, w) \/ (u = v /\ x = y /\ w = t)
MemberLeaves(v, y) ==
    \A u \in Users : \A x :
        /\ Has(u, x)' <=> Has(u, x) /\ ~(u = v /\ x = y)
        /\ \A w : Below(u, x, w)' <=> Below(u, x, w) /\ ~(u = v /\ x = y)
MembersMove(y, from, to) ==
    \A u \in Users : \A x :
        /\ Has(u, x)' <=> Has(u, x)
        /\ \A w : Below(u, x, w)' <=> IF x = y /\ Below(u, y, from) THEN w = to
                                      ELSE Below(u, x, w)

\* And to the unions: nothing, one more, another number of members.
UnionsStay ==
    \A x : /\ IsUnion(x)' <=> IsUnion(x)
           /\ \A o : Owns(o, x)' <=> Owns(o, x)
           /\ \A o, n : UnionIs(x, o, n)' <=> UnionIs(x, o, n)
UnionMade(y, v) ==
    \A x : /\ IsUnion(x)' <=> IsUnion(x) \/ x = y
           /\ \A o : Owns(o, x)' <=> Owns(o, x) \/ (x = y /\ o = v)
           /\ \A o, n : UnionIs(x, o, n)' <=> UnionIs(x, o, n) \/ (x = y /\ o = v /\ n = 1)
UnionCounts(y, m) ==
    \A x : /\ IsUnion(x)' <=> IsUnion(x)
           /\ \A o : Owns(o, x)' <=> Owns(o, x)
           /\ \A o, n : UnionIs(x, o, n)' =>
                 \E k \in Int : UnionIs(x, o, k) /\ n = IF x = y THEN k + m ELSE k

\* A list that is like another has the same members.
LEMMA RowsOfAlike ==
    ASSUME NEW q, NEW p, AlikeRows(q, p)
    PROVE  /\ \A x : HasRow(p, x) <=> HasRow(q, x)
           /\ \A x, w : RowBelow(p, x, w) <=> RowBelow(q, x, w)
           /\ Singles(q) => Singles(p)
  BY DEF AlikeRows, HasRow, RowBelow, Singles

\* An entry of another union is appended.
LEMMA RowsOfPush ==
    ASSUME NEW q, Rows(q), NEW e, DOMAIN e = EntryFields, e.union \in Nat, e.invite \in Nat
    PROVE  LET p == Append(q, e)
           IN /\ \A x : HasRow(p, x) <=> HasRow(q, x) \/ x = e.union
              /\ \A x, w : RowBelow(p, x, w)
                              <=> RowBelow(q, x, w) \/ (x = e.union /\ w = e.spreader)
              /\ Singles(q) /\ ~HasRow(q, e.union) => Singles(p)
  <1>. DEFINE p == Append(q, e)
              n == Len(q)
  <1>1. /\ n \in Nat /\ DOMAIN q = 1 .. n /\ DOMAIN p = 1 .. n + 1
        /\ \A i \in DOMAIN q : p[i] = q[i]
        /\ p[n + 1] = e
    BY PushRows
  <1>. HIDE DEF p, n
  <1>2. DOMAIN p = DOMAIN q \cup {n + 1} /\ n + 1 \notin DOMAIN q
    BY <1>1
  <1>3. \A x : HasRow(p, x) <=> HasRow(q, x) \/ x = e.union
    BY <1>1, <1>2 DEF HasRow
  <1>4. \A x, w : RowBelow(p, x, w) <=> RowBelow(q, x, w) \/ (x = e.union /\ w = e.spreader)
    BY <1>1, <1>2 DEF RowBelow
  <1>5. ASSUME Singles(q), ~HasRow(q, e.union)
        PROVE  Singles(p)
    BY <1>1, <1>2, <1>5 DEF Singles, HasRow
  <1>. QED  BY <1>3, <1>4, <1>5 DEF p

\* The entries of a union are left out.
LEMMA RowsOfSift ==
    ASSUME NEW q, NEW p, NEW y, Sifts(q, p, y)
    PROVE  /\ \A x : HasRow(p, x) <=> HasRow(q, x) /\ x # y
           /\ \A x, w : RowBelow(p, x, w) <=> RowBelow(q, x, w) /\ x # y
           /\ Singles(q) => Singles(p)
  <1>1. PICK f : /\ \A k \in DOMAIN p :
                       f[k] \in DOMAIN q /\ q[f[k]].union # y /\ p[k] = q[f[k]]
                 /\ \A k, l \in DOMAIN p : f[k] = f[l] => k = l
                 /\ \A i \in DOMAIN q : q[i].union # y => \E k \in DOMAIN p : f[k] = i
    BY DEF Sifts
  <1>2. \A x : HasRow(p, x) <=> HasRow(q, x) /\ x # y
    BY <1>1 DEF HasRow
  <1>3. \A x, w : RowBelow(p, x, w) <=> RowBelow(q, x, w) /\ x # y
    BY <1>1 DEF RowBelow
  <1>4. Singles(q) => Singles(p)
    BY <1>1 DEF Singles
  <1>. QED  BY <1>2, <1>3, <1>4

\* The entry of a union comes below another user.
LEMMA RowsOfLower ==
    ASSUME NEW q, NEW p, NEW y, NEW from, NEW to, Lowers(q, p, y, from, to), Singles(q)
    PROVE  /\ \A x : HasRow(p, x) <=> HasRow(q, x)
           /\ \A x, w : RowBelow(p, x, w) <=> IF x = y /\ RowBelow(q, y, from) THEN w = to
                                              ELSE RowBelow(q, x, w)
           /\ Singles(p)
  <1>1. /\ DOMAIN p = DOMAIN q
        /\ \A i \in DOMAIN q : p[i].union = q[i].union
    BY DEF Lowers
  <1>2. \A x : HasRow(p, x) <=> HasRow(q, x)
    BY <1>1 DEF HasRow
  <1>3. Singles(p)
    BY <1>1 DEF Singles
  <1>4. ASSUME NEW x, NEW w
        PROVE  RowBelow(p, x, w) <=> IF x = y /\ RowBelow(q, y, from) THEN w = to
                                     ELSE RowBelow(q, x, w)
    <2>1. CASE /\ \A i \in DOMAIN q : p[i].spreader = q[i].spreader
               /\ \A i \in DOMAIN q : ~(q[i].union = y /\ q[i].spreader = from)
      BY <1>1, <2>1 DEF RowBelow
    <2>2. ASSUME NEW k \in DOMAIN q,
                 q[k].union = y, q[k].spreader = from, p[k].spreader = to,
                 \A i \in DOMAIN q \ {k} : p[i].spreader = q[i].spreader
          PROVE  RowBelow(p, x, w) <=> IF x = y /\ RowBelow(q, y, from) THEN w = to
                                       ELSE RowBelow(q, x, w)
      <3>1. RowBelow(q, y, from)
        BY <2>2 DEF RowBelow
      <3>2. \A i \in DOMAIN q : q[i].union = y <=> i = k
        BY <2>2 DEF Singles
      <3>3. x = y => (RowBelow(p, x, w) <=> w = to)
        BY <1>1, <2>2, <3>2 DEF RowBelow
      <3>4. x # y => (RowBelow(p, x, w) <=> RowBelow(q, x, w))
        BY <1>1, <2>2, <3>2 DEF RowBelow
      <3>. QED  BY <3>1, <3>3, <3>4
    <2>. QED  BY <2>1, <2>2 DEF Lowers
  <1>. QED  BY <1>2, <1>3, <1>4

\* The unions of documents whose ids, owners and numbers of members stay.
LEMMA AlikeUnionsStay ==
    ASSUME AlikeUnions(db')
    PROVE  UnionsStay
  <1>1. DOMAIN db'.unions = DOMAIN db.unions
    BY DEF AlikeUnions
  <1>2. ASSUME NEW i \in DOMAIN db.unions
        PROVE  /\ db'.unions[i].id = db.unions[i].id
               /\ db'.unions[i].owner = db.unions[i].owner
               /\ db'.unions[i].curMember = db.unions[i].curMember
    BY DEF AlikeUnions
  <1>3. \A x : IsUnion(x)' <=> IsUnion(x)
    BY <1>1, <1>2 DEF IsUnion
  <1>4. \A x, o : Owns(o, x)' <=> Owns(o, x)
    BY <1>1, <1>2 DEF Owns
  <1>5. \A x, o, n : UnionIs(x, o, n)' <=> UnionIs(x, o, n)
    BY <1>1, <1>2 DEF UnionIs
  <1>. QED  BY <1>3, <1>4, <1>5 DEF UnionsStay

\* And of those that nothing writes.
LEMMA SameUnionsStay ==
    ASSUME db'.unions = db.unions
    PROVE  UnionsStay
  BY AlikeUnionsStay DEF AlikeUnions

\* Documents that are like the last ones have the same members.
LEMMA AlikeMembersStay ==
    ASSUME DocWays, AlikeLists(db')
    PROVE  MembersStay /\ (OneEntryEach => OneEntryEach')
  <1>1. ASSUME NEW u \in Users
        PROVE  /\ \A x : Has(u, x)' <=> Has(u, x)
               /\ \A x, w : Below(u, x, w)' <=> Below(u, x, w)
               /\ Singles(Info(u)) => Singles(Info(u)')
    <2>. DEFINE q == Info(u)
                p == Info(u)'
    <2>1. AlikeRows(q, p)
      BY DEF DocWays, AlikeLists, Info
    <2>. HIDE DEF q, p
    <2>2. /\ \A x : HasRow(p, x) <=> HasRow(q, x)
          /\ \A x, w : RowBelow(p, x, w) <=> RowBelow(q, x, w)
          /\ Singles(q) => Singles(p)
      BY <2>1, RowsOfAlike
    <2>. QED  BY <2>2 DEF p, q, Has, Below, HasRow, RowBelow
  <1>. QED  BY <1>1 DEF MembersStay, OneEntryEach, Singles

\* And those of which nobody's list is written.
LEMMA SameMembersStay ==
    ASSUME db'.users = db.users
    PROVE  MembersStay /\ (OneEntryEach => OneEntryEach')
  <1>1. \A u : Info(u)' = Info(u)
    BY DEF Info
  <1>2. \A u, x : Has(u, x)' <=> Has(u, x)
    BY <1>1 DEF Has, HasRow
  <1>3. \A u, x, w : Below(u, x, w)' <=> Below(u, x, w)
    BY <1>1 DEF Below, RowBelow
  <1>4. OneEntryEach => OneEntryEach'
    BY <1>1 DEF OneEntryEach, Singles
  <1>. QED  BY <1>2, <1>3, <1>4 DEF MembersStay

\* The lists of the others stay when one user's is replaced.
LEMMA OthersLists ==
    ASSUME NEW v \in Users, NEW q, ListSet(v, q)
    PROVE  /\ Info(v)' = q
           /\ \A x : Has(v, x)' <=> HasRow(q, x)
           /\ \A x, w : Below(v, x, w)' <=> RowBelow(q, x, w)
           /\ \A u \in Users \ {v} :
                 /\ \A x : Has(u, x)' <=> Has(u, x)
                 /\ \A x, w : Below(u, x, w)' <=> Below(u, x, w)
           /\ OneEntryEach /\ Singles(q) => OneEntryEach'
           /\ UnionsStay
  <1>1. Info(v)' = q
    BY DEF ListSet, Info
  <1>2. \A u \in Users \ {v} : Info(u)' = Info(u)
    BY DEF ListSet, Info
  <1>3. UnionsStay
    BY SameUnionsStay DEF ListSet
  <1>4. ASSUME NEW u \in Users \ {v}
        PROVE  /\ \A x : Has(u, x)' <=> Has(u, x)
               /\ \A x, w : Below(u, x, w)' <=> Below(u, x, w)
    BY <1>2 DEF Has, Below, HasRow, RowBelow
  <1>5. /\ \A x : Has(v, x)' <=> HasRow(q, x)
        /\ \A x, w : Below(v, x, w)' <=> RowBelow(q, x, w)
    BY <1>1 DEF Has, Below, HasRow, RowBelow
  <1>6. ASSUME OneEntryEach, Singles(q)
        PROVE  OneEntryEach'
    <2>1. ASSUME NEW u \in Users
          PROVE  Singles(Info(u))'
      <3>1. CASE u = v
        BY <1>1, <1>6, <3>1 DEF Singles
      <3>2. CASE u # v
        BY <1>2, <1>6, <3>2 DEF Singles, OneEntryEach
      <3>. QED  BY <3>1, <3>2
    <2>. QED  BY <2>1 DEF OneEntryEach
  <1>. QED  BY <1>1, <1>3, <1>4, <1>5, <1>6

\* An entry is pushed.
LEMMA PushJoins ==
    ASSUME DocWays, NEW v \in Users, NEW e, DOMAIN e = EntryFields, e.union \in Nat,
           e.invite \in Nat, ListSet(v, Append(Info(v), e)), OneEntryEach, ~Has(v, e.union)
    PROVE  MemberJoins(v, e.union, e.spreader) /\ OneEntryEach' /\ UnionsStay
  <1>. DEFINE q == Info(v)
              p == Append(q, e)
  <1>1. Rows(q) /\ Singles(q) /\ ~HasRow(q, e.union)
    BY DEF DocWays, OneEntryEach, Has
  <1>2. /\ \A x : HasRow(p, x) <=> HasRow(q, x) \/ x = e.union
        /\ \A x, w : RowBelow(p, x, w) <=> RowBelow(q, x, w) \/ (x = e.union /\ w = e.spreader)
        /\ Singles(p)
    BY <1>1, RowsOfPush
  <1>3. ListSet(v, p)
    OBVIOUS
  <1>. HIDE DEF p
  <1>4. /\ \A x : Has(v, x)' <=> HasRow(p, x)
        /\ \A x, w : Below(v, x, w)' <=> RowBelow(p, x, w)
        /\ \A u \in Users \ {v} :
              /\ \A x : Has(u, x)' <=> Has(u, x)
              /\ \A x, w : Below(u, x, w)' <=> Below(u, x, w)
        /\ OneEntryEach' /\ UnionsStay
    BY <1>2, <1>3, OthersLists
  <1>5. MemberJoins(v, e.union, e.spreader)
    BY <1>2, <1>4 DEF MemberJoins, Has, Below
  <1>. QED  BY <1>4, <1>5

\* The entries of a union are pulled.
LEMMA PullLeaves ==
    ASSUME DocWays, NEW v \in Users, NEW y, ListSet(v, OtherEntries(Info(v), y)), OneEntryEach
    PROVE  MemberLeaves(v, y) /\ OneEntryEach' /\ UnionsStay
  <1>. DEFINE q == Info(v)
              p == OtherEntries(q, y)
  <1>1. Rows(q) /\ Singles(q)
    BY DEF DocWays, OneEntryEach
  <1>2. Sifts(q, p, y)
    BY <1>1, OthersSift
  <1>3. ListSet(v, p)
    OBVIOUS
  <1>. HIDE DEF p
  <1>4. /\ \A x : HasRow(p, x) <=> HasRow(q, x) /\ x # y
        /\ \A x, w : RowBelow(p, x, w) <=> RowBelow(q, x, w) /\ x # y
        /\ Singles(p)
    BY <1>1, <1>2, RowsOfSift
  <1>5. /\ \A x : Has(v, x)' <=> HasRow(p, x)
        /\ \A x, w : Below(v, x, w)' <=> RowBelow(p, x, w)
        /\ \A u \in Users \ {v} :
              /\ \A x : Has(u, x)' <=> Has(u, x)
              /\ \A x, w : Below(u, x, w)' <=> Below(u, x, w)
        /\ OneEntryEach' /\ UnionsStay
    BY <1>3, <1>4, OthersLists
  <1>6. MemberLeaves(v, y)
    BY <1>4, <1>5 DEF MemberLeaves, Has, Below
  <1>. QED  BY <1>5, <1>6

\* Those below one who left move.
LEMMA LowersMove ==
    ASSUME DocWays, db'.unions = db.unions, NEW y, NEW from, NEW to, OneEntryEach,
           \A u \in Users : Lowers(Info(u), db'.users[u].info, y, from, to)
    PROVE  MembersMove(y, from, to) /\ OneEntryEach' /\ UnionsStay
  <1>1. ASSUME NEW u \in Users
        PROVE  /\ \A x : Has(u, x)' <=> Has(u, x)
               /\ \A x, w : Below(u, x, w)' <=> IF x = y /\ Below(u, y, from) THEN w = to
                                                ELSE Below(u, x, w)
               /\ Singles(Info(u))'
    <2>. DEFINE q == Info(u)
                p == Info(u)'
    <2>1. Lowers(q, p, y, from, to) /\ Singles(q)
      BY DEF Info, OneEntryEach
    <2>. HIDE DEF q, p
    <2>2. /\ \A x : HasRow(p, x) <=> HasRow(q, x)
          /\ \A x, w : RowBelow(p, x, w) <=> IF x = y /\ RowBelow(q, y, from) THEN w = to
                                             ELSE RowBelow(q, x, w)
          /\ Singles(p)
      BY <2>1, RowsOfLower
    <2>3. \A x : (Has(u, x) <=> HasRow(q, x)) /\ (Has(u, x)' <=> HasRow(p, x))
      BY DEF p, q, Has, HasRow
    <2>4. \A x, w : (Below(u, x, w) <=> RowBelow(q, x, w)) /\ (Below(u, x, w)' <=> RowBelow(p, x, w))
      BY DEF p, q, Below, RowBelow
    <2>5. Singles(Info(u))'
      BY <2>2 DEF p, Singles
    <2>. QED  BY <2>2, <2>3, <2>4, <2>5
  <1>. QED  BY <1>1, SameUnionsStay DEF MembersMove, OneEntryEach

\* A union is inserted.
LEMMA InsertMakes ==
    ASSUME DocWays, DocsShaped, db'.users = db.users, db'.counters = db.counters,
           NEW x \in Nat, NEW u, db'.unions = Append(db.unions, NewUnion(x, u))
    PROVE  UnionMade(x, u)
  <1>1. /\ Len(db.unions) \in Nat /\ DOMAIN db.unions = 1 .. Len(db.unions)
        /\ DOMAIN db'.unions = 1 .. Len(db.unions) + 1
        /\ \A i \in DOMAIN db.unions : db'.unions[i] = db.unions[i]
        /\ LET d == db'.unions[Len(db.unions) + 1]
           IN d.id = x /\ d.owner = u /\ d.curMember = 1
    BY InsertWays
  <1>. DEFINE n == Len(db.unions) + 1
  <1>2. /\ DOMAIN db'.unions = DOMAIN db.unions \cup {n} /\ n \notin DOMAIN db.unions
        /\ db'.unions[n].id = x /\ db'.unions[n].owner = u /\ db'.unions[n].curMember = 1
    BY <1>1
  <1>. HIDE DEF n
  <1>3. \A y : IsUnion(y)' <=> IsUnion(y) \/ y = x
    BY <1>1, <1>2 DEF IsUnion
  <1>4. \A y, o : Owns(o, y)' <=> Owns(o, y) \/ (y = x /\ o = u)
    BY <1>1, <1>2 DEF Owns
  <1>5. \A y, o, m : UnionIs(y, o, m)' <=> UnionIs(y, o, m) \/ (y = x /\ o = u /\ m = 1)
    BY <1>1, <1>2 DEF UnionIs
  <1>. QED  BY <1>3, <1>4, <1>5 DEF UnionMade

\* A member is counted, or no longer.
LEMMA CountsUnion ==
    ASSUME DocWays, DocsShaped, UnionsNumbered, NEW y, NEW m \in Int, Counted(y, m)
    PROVE  UnionCounts(y, m)
  <1>. DEFINE k == UnionAt(y)
  <1>1. /\ DOMAIN db'.unions = DOMAIN db.unions
        /\ \A i \in DOMAIN db.unions :
              /\ db'.unions[i].id = db.unions[i].id /\ db'.unions[i].owner = db.unions[i].owner
              /\ db'.unions[i].curMember =
                    IF i = k THEN db.unions[i].curMember + m ELSE db.unions[i].curMember
    BY DEF Counted
  <1>2. \A i \in DOMAIN db.unions : i = k <=> db.unions[i].id = y
    <2>1. k = DocAt(db.unions, y) /\ IsSeq(db.unions)
      BY UnionAtIs DEF ByPlace, DocsShaped
    <2>. HIDE DEF k
    <2>2. \/ k = 0 /\ \A i \in DOMAIN db.unions : db.unions[i].id # y
          \/ k \in DOMAIN db.unions /\ k # 0 /\ db.unions[k].id = y
      BY <2>1, DocAtIs
    <2>3. 0 \notin DOMAIN db.unions
      BY DEF DocsShaped, IsSeq
    <2>. QED  BY <2>2, <2>3 DEF UnionsNumbered
  <1>. HIDE DEF k
  <1>3. \A x : IsUnion(x)' <=> IsUnion(x)
    BY <1>1 DEF IsUnion
  <1>4. \A x, o : Owns(o, x)' <=> Owns(o, x)
    BY <1>1 DEF Owns
  <1>5. ASSUME NEW x, NEW o, NEW n, UnionIs(x, o, n)'
        PROVE  \E j \in Int : UnionIs(x, o, j) /\ n = IF x = y THEN j + m ELSE j
    <2>1. PICK i \in DOMAIN db'.unions :
             db'.unions[i].id = x /\ db'.unions[i].owner = o /\ db'.unions[i].curMember = n
      BY <1>5 DEF UnionIs
    <2>2. i \in DOMAIN db.unions /\ db.unions[i].id = x /\ db.unions[i].owner = o
      BY <1>1, <2>1
    <2>. DEFINE j == db.unions[i].curMember
    <2>3. j \in Int /\ UnionIs(x, o, j)
      BY <2>2 DEF DocWays, UnionIs
    <2>4. n = IF x = y THEN j + m ELSE j
      BY <1>1, <1>2, <2>1, <2>2
    <2>. QED  BY <2>3, <2>4
  <1>. QED  BY <1>3, <1>4, <1>5 DEF UnionCounts

-----------------------------------------------------------------------------
(* Who is about to be a member, or was one. *)

MemberChanges == Joins \cup {"ExitUnion"}
Moving(p) == p \in Busy /\ reqs[p].op \in MemberChanges

\* Whom the request makes a member or no longer one, and below whom.
Subject(r) == IF r.op = "InviteJoinUnion" THEN r.other ELSE r.uid
Sponsor(r) == IF r.op = "InviteJoinUnion" THEN r.uid ELSE r.spreader

\* No two requests are about one user.
Apart ==
    \A p, q \in Slots : p # q /\ Moving(p) /\ Moving(q) =>
        Subject(reqs[p]) # Subject(reqs[q]) /\ Subject(reqs[p]) # Sponsor(reqs[q])
Free == failed = {} /\ ~MemberClash /\ ~hist.reset /\ Apart

\* It is counted and has no entry.
Awaits(r) ==
    \/ r.op \in Joins /\ Stage(r) >= 5
    \/ r.op = "CreateUnion" /\ Stage(r) >= 6
    \/ r.op = "ExitUnion" /\ Stage(r) >= 4
MembersOf(x) == {u \in Users : Has(u, x)}
PendingOf(x) == {p \in Slots : p \in Busy /\ reqs[p].union = x /\ Awaits(reqs[p])}

\* How many have an entry, and how many are counted without one.
Tally(x) == Cardinality(MembersOf(x)) + Cardinality(PendingOf(x))

\* What it has read is still so.
Fits(r) ==
    /\ \/ r.op = "JoinUnion" /\ Stage(r) >= 2
       \/ r.op \in {"InviteJoinUnion", "ExitUnion"} /\ Stage(r) >= 3
       => Sponsor(r) \in Users /\ Has(Sponsor(r), r.union)
    /\ r.op \in MemberChanges /\ Stage(r) >= 4 => ~Has(Subject(r), r.union)
    /\ r.op = "ExitUnion" /\ Stage(r) >= 2 => IsUnion(r.union) /\ ~Owns(r.uid, r.union)
    /\ r.op = "ExitUnion" /\ Stage(r) = 3 => Has(r.uid, r.union)
    /\ r.op = "CreateUnion" /\ Stage(r) >= 6 =>
          Owns(r.uid, r.union) /\ \A u \in Users : ~Has(u, r.union)

\* Numbers that grow downwards in the union x of o.  Below one who left there
\* are users until they move.
Exits(p, x) == p \in Busy /\ reqs[p].op = "ExitUnion" /\ reqs[p].union = x
LeftBy(p, x, w) == Exits(p, x) /\ reqs[p].uid = w /\ Stage(reqs[p]) = 4
Ranks(f, x, o) ==
    /\ f \in [Users -> Nat]
    /\ \A u \in Users \ {o} : \A w : Below(u, x, w) =>
          w \in Users /\ f[w] < f[u] /\ (Has(w, x) \/ \E p \in Slots : LeftBy(p, x, w))
    /\ \A p \in Slots : Exits(p, x) /\ Stage(reqs[p]) >= 3 =>
          reqs[p].spreader \in Users /\ f[reqs[p].spreader] < f[reqs[p].uid]

MembersHaveUnions == \A u \in Users : \A x : Has(u, x) => IsUnion(x)
MembersCounted == \A x, o, n : UnionIs(x, o, n) => Tally(x) = n
MembersRanked == \A x, o : Owns(o, x) => \E f : Ranks(f, x, o)
AllFit == \A p \in Slots : Involved(p) => Fits(reqs[p])

Joined ==
    /\ OneEntryEach /\ MembersHaveUnions /\ MembersCounted /\ MembersRanked /\ AllFit
JoinInv == Free => Joined

-----------------------------------------------------------------------------
(* Requests that meet. *)

\* The users a request for a member is about are the ones it is noted for.
LEMMA MoveClash ==
    ASSUME Shaped, NEW p, NEW q, Moving(p), Moving(q)
    PROVE  /\ <<"member", Subject(reqs[p])>> \in Alone(reqs[p])
           /\ <<"member", Sponsor(reqs[p])>> \in Shared(reqs[p])
           /\ Subject(reqs[p]) = Subject(reqs[q]) =>
                 <<"member", Subject(reqs[p])>> \in Clashes(reqs[p], reqs[q])
           /\ Subject(reqs[p]) = Sponsor(reqs[q]) =>
                 <<"member", Subject(reqs[p])>> \in Clashes(reqs[p], reqs[q])
  <1>1. \A r : r.op \in MemberChanges => /\ <<"member", Subject(r)>> \in Alone(r)
                                 /\ <<"member", Sponsor(r)>> \in Shared(r)
    <2>. SUFFICES ASSUME NEW r, r.op \in MemberChanges
                  PROVE  <<"member", Subject(r)>> \in Alone(r) /\ <<"member", Sponsor(r)>> \in Shared(r)
      OBVIOUS
    <2>1. CASE r.op = "JoinUnion"
      <3>1. Alone(r) = {<<"member", r.uid>>}
        BY <2>1, OpsByName DEF Alone
      <3>2. Shared(r) = {<<"member", r.spreader>>}
        BY <2>1, OpsByName DEF Shared
      <3>. QED  BY <2>1, <3>1, <3>2 DEF Subject, Sponsor
    <2>2. CASE r.op = "ExitUnion"
      <3>1. Alone(r) = {<<"member", r.uid>>}
        BY <2>2, OpsByName DEF Alone
      <3>2. Shared(r) = {<<"member", r.spreader>>}
        BY <2>2, OpsByName DEF Shared
      <3>. QED  BY <2>2, <3>1, <3>2 DEF Subject, Sponsor
    <2>3. CASE r.op = "InviteJoinUnion"
      <3>1. Alone(r) = {<<"member", r.other>>}
        BY <2>3, OpsByName DEF Alone
      <3>2. Shared(r) = {<<"member", r.uid>>}
        BY <2>3, OpsByName DEF Shared
      <3>. QED  BY <2>3, <3>1, <3>2 DEF Subject, Sponsor
    <2>. QED  BY <2>1, <2>2, <2>3 DEF MemberChanges, Joins
  <1>2. /\ <<"member", Subject(reqs[p])>> \in Alone(reqs[p])
        /\ <<"member", Sponsor(reqs[p])>> \in Shared(reqs[p])
        /\ <<"member", Subject(reqs[q])>> \in Alone(reqs[q])
        /\ <<"member", Sponsor(reqs[q])>> \in Shared(reqs[q])
    BY <1>1 DEF Moving
  <1>. QED  BY <1>2 DEF Clashes

\* When no clash is noted, the request at work met none.
LEMMA NoneMet ==
    ASSUME Shaped, NEW s \in Busy, hist' = Noted(s), ~MemberClash'
    PROVE  /\ \A p \in Slots \ {s} : Moving(p) /\ Moving(s) =>
                 /\ Subject(reqs[p]) # Subject(reqs[s])
                 /\ Subject(reqs[p]) # Sponsor(reqs[s])
                 /\ Subject(reqs[s]) # Sponsor(reqs[p])
           /\ ~MemberClash
           /\ ~hist'.reset => ~hist.reset
  <1>1. /\ hist.clashed \subseteq hist'.clashed
        /\ \A p \in Busy \ {s} : /\ Clashes(reqs[p], reqs[s]) \subseteq hist'.clashed
                                 /\ Clashes(reqs[s], reqs[p]) \subseteq hist'.clashed
        /\ ~hist'.reset => ~hist.reset
    <2>. DEFINE C == UNION {Clashes(reqs[p], reqs[s]) \cup Clashes(reqs[s], reqs[p])
                              : p \in Busy \ {s}}
    <2>1. hist'.clashed = hist.clashed \cup C /\ (~hist'.reset => ~hist.reset)
      BY DEF Noted
    <2>2. \A p \in Busy \ {s} : /\ Clashes(reqs[p], reqs[s]) \subseteq C
                               /\ Clashes(reqs[s], reqs[p]) \subseteq C
      OBVIOUS
    <2>. HIDE DEF C
    <2>. QED  BY <2>1, <2>2
  <1>2. \A t \in hist'.clashed : t[1] # "member"
    BY DEF MemberClash
  <1>3. \A u : <<"member", u>> \notin hist'.clashed
    BY <1>2
  <1>4. ~MemberClash
    BY <1>1, <1>2 DEF MemberClash
  <1>5. ASSUME NEW p \in Slots \ {s}, Moving(p), Moving(s)
        PROVE  /\ Subject(reqs[p]) # Subject(reqs[s])
               /\ Subject(reqs[p]) # Sponsor(reqs[s])
               /\ Subject(reqs[s]) # Sponsor(reqs[p])
    <2>1. p \in Busy \ {s}
      BY <1>5 DEF Moving
    <2>. QED  BY <1>1, <1>3, <1>5, <2>1, MoveClash
  <1>. QED  BY <1>1, <1>4, <1>5

\* A request for a member goes on alone.
LEMMA MemberAlone ==
    ASSUME NEW s, Member(s), WaysInv, SharedStep(s) \/ HallStep(s)
    PROVE  OthersWait(s)
  <1>1. CountersAre(db.counters) /\ \A u \in Users : Rows(Info(u))
    BY DEF WaysInv, DocWays
  <1>2. Quits(s) => OthersWait(s)
    BY DEF Quits
  <1>3. \A x, sp, id, n : Stands(s, x, sp, id, n) => OthersWait(s)
    BY DEF Stands
  <1>4. /\ Sets(s) => OthersWait(s)
        /\ \A x, sp, id : Reaches(s, x, sp, id) => OthersWait(s)
    BY <1>3 DEF Sets, Reaches
  <1>5. CASE FindUser(s) \/ FindOwned(s) \/ FindInviter(s) \/ FindUnion(s) \/ FindOther(s)
    BY <1>1, <1>2, <1>4, <1>5, DoesFindUser, DoesFindOwned, DoesFindInviter, DoesFindUnion,
       DoesFindOther
  <1>6. CASE Exists(s) \/ HallFault(s)
    BY <1>2, <1>4, <1>6, DoesExists, DoesHallFault
  <1>7. CASE SetBegin(s)
    BY <1>1, <1>4, <1>7, DoesSetBegin
  <1>8. CASE Incr(s)
    <2>1. Key(reqs[s]) = "union" \/ Key(reqs[s]) = "invite"
      BY KeyIs
    <2>. QED  BY <1>1, <1>4, <1>8, <2>1, DoesIncr
  <1>9. CASE InsertUnion(s)
    BY <1>4, <1>9, DoesInsert
  <1>10. CASE AddToSet(s) \/ Push(s)
    BY <1>2, <1>10, DoesPush
  <1>11. CASE CountMember(s) \/ UncountMember(s)
    BY <1>2, <1>4, <1>11, DoesCount
  <1>12. CASE Pull(s) \/ Downlines(s)
    BY <1>1, <1>4, <1>12, DoesPull, DoesDownlines
  <1>. QED  BY <1>5, <1>6, <1>7, <1>8, <1>9, <1>10, <1>11, <1>12, MemberCalls

\* What is free of all this was so before.
LEMMA FreeBefore ==
    ASSUME OwnInv, MemInv, WaysInv, start \in DOMAIN Starts, [Next]_vars, Free'
    PROVE  Free
  <1>0. Shaped
    BY DEF OwnInv
  <1>1. \A s \in Busy : hist' = Noted(s) => ~MemberClash /\ ~hist.reset
    BY <1>0, NoneMet DEF Free
  <1>2. hist' = hist => ~MemberClash /\ ~hist.reset
    BY DEF Free, MemberClash
  <1>3. ~MemberClash /\ ~hist.reset
    BY <1>1, <1>2, EveryMember
  <1>4. failed = {}
    BY ExcusesGrow DEF Free
  <1>5. CASE \E s \in Slots : Arrive(s)
    <2>1. PICK s \in Slots : Arrive(s)
      BY <1>5
    <2>2. s \notin Busy /\ OthersWait(s)
      BY <1>0, <2>1, ArriveIs
    <2>3. \A p \in Slots : Moving(p) => p # s /\ Moving(p)' /\ reqs'[p] = reqs[p]
      BY <2>2 DEF Moving, OthersWait, Busy
    <2>4. Apart
      BY <2>3 DEF Free, Apart, Subject, Sponsor
    <2>. QED  BY <1>3, <1>4, <2>4 DEF Free
  <1>6. CASE Aside
    <2>1. \A p \in Slots : Moving(p) => Moving(p)' /\ reqs'[p] = reqs[p]
      BY <1>6 DEF Aside, Free, Moving, Involved, MemberChanges, Joins, MemberOps
    <2>2. Apart
      BY <2>1 DEF Free, Apart, Subject, Sponsor
    <2>. QED  BY <1>3, <1>4, <2>2 DEF Free
  <1>7. ASSUME NEW s \in Busy, hist' = Noted(s), Member(s), SharedStep(s) \/ HallStep(s)
        PROVE  Free
    <2>1. \A p \in Slots \ {s} : Moving(p) /\ Moving(s) =>
             /\ Subject(reqs[p]) # Subject(reqs[s])
             /\ Subject(reqs[p]) # Sponsor(reqs[s])
             /\ Subject(reqs[s]) # Sponsor(reqs[p])
      BY <1>0, <1>7, NoneMet DEF Free
    <2>2. \A p \in Slots \ {s} : reqs'[p] = reqs[p] /\ (Moving(p)' <=> Moving(p))
      BY <1>7, MemberAlone DEF OthersWait, Moving, Busy
    <2>3. \A p, q \in Slots \ {s} : p # q /\ Moving(p) /\ Moving(q) =>
             Subject(reqs[p]) # Subject(reqs[q]) /\ Subject(reqs[p]) # Sponsor(reqs[q])
      BY <2>2 DEF Free, Apart, Subject, Sponsor
    <2>4. Apart
      BY <2>1, <2>3 DEF Apart
    <2>. QED  BY <1>3, <1>4, <2>4 DEF Free
  <1>. QED  BY <1>5, <1>6, <1>7, EveryMember

-----------------------------------------------------------------------------
(* What a step leaves of what others rely on. *)

\* Stages are numbers.
LEMMA StageIs ==
    ASSUME WaysInv, NEW p, Involved(p)
    PROVE  /\ Stage(reqs[p]) \in Nat
           /\ reqs[p].op \in {"CreateUnion", "JoinUnion", "InviteJoinUnion", "ExitUnion"}
           /\ Moving(p) <=> reqs[p].op # "CreateUnion"
           /\ reqs[p].op = "InviteJoinUnion" \/ Subject(reqs[p]) = reqs[p].uid
  <1>1. Left(reqs[p].op, reqs[p].todo) /\ reqs[p].op \in MemberOps
    BY DEF Involved, WaysInv, ClubWay
  <1>2. Stage(reqs[p]) \in Nat
    BY <1>1, LeftGoes DEF Stage
  <1>. QED  BY <1>1, <1>2 DEF Involved, Moving, MemberOps, MemberChanges, Joins, Subject

\* The request is about to add or remove an entry.
Alters(r) ==
    \/ r.op = "ExitUnion" /\ Stage(r) = 3
    \/ r.op \in Joins /\ Stage(r) = 7
    \/ r.op = "CreateUnion" /\ Stage(r) = 8

\* A step of it adds unions at most, and entries of its subject only.
Restrained(s) ==
    /\ \A x : /\ IsUnion(x) => IsUnion(x)'
              /\ \A o : /\ Owns(o, x) => Owns(o, x)'
                        /\ Owns(o, x)' => Owns(o, x) \/ ~IsUnion(x)
    /\ \A u \in Users : \A x :
          \/ Has(u, x)' <=> Has(u, x)
          \/ Alters(reqs[s]) /\ u = Subject(reqs[s]) /\ x = reqs[s].union

\* What others have read is still so, and who has an entry has a union.
LEMMA OthersFit ==
    ASSUME Shaped, WaysInv, UnionsNumbered, Apart, Joined, NEW s \in Slots, Involved(s), OthersWait(s),
           Restrained(s)
    PROVE  /\ \A p \in Slots \ {s} : Involved(p)' => Fits(reqs[p])'
           /\ MembersHaveUnions'
  <1>. DEFINE r == reqs[s]
              v == Subject(r)
              y == r.union
  <1>1. /\ \A p \in Slots : Involved(p) => Fits(reqs[p])
        /\ \A u \in Users : \A x : Has(u, x) => IsUnion(x)
    BY DEF Joined, AllFit, MembersHaveUnions
  <1>2. /\ Stage(r) \in Nat
        /\ r.op \in {"CreateUnion", "JoinUnion", "InviteJoinUnion", "ExitUnion"}
        /\ Moving(s) <=> r.op # "CreateUnion"
    BY StageIs
  <1>3. Alters(r) /\ r.op # "CreateUnion" => Sponsor(r) \in Users /\ Has(Sponsor(r), y)
    BY <1>1, <1>2 DEF Alters, Fits, Joins
  <1>4. Alters(r) /\ r.op = "CreateUnion" =>
           Owns(r.uid, y) /\ Creates(s) /\ \A u \in Users : ~Has(u, y)
    BY <1>1, <1>2 DEF Alters, Fits, Joins, Creates, Involved
  <1>5. Alters(r) => IsUnion(y)
    BY <1>1, <1>3, <1>4 DEF Owns, IsUnion
  <1>6. /\ \A x : /\ IsUnion(x) => IsUnion(x)'
                  /\ \A o : /\ Owns(o, x) => Owns(o, x)'
                            /\ Owns(o, x)' => Owns(o, x) \/ ~IsUnion(x)
        /\ \A u \in Users : \A x :
              (Has(u, x)' <=> Has(u, x)) \/ (Alters(r) /\ u = v /\ x = y)
    BY DEF Restrained
  <1>7. MembersHaveUnions'
    <2>1. ASSUME NEW u \in Users, NEW x, Has(u, x)'
          PROVE  IsUnion(x)'
      BY <1>1, <1>5, <1>6, <2>1
    <2>. QED  BY <2>1 DEF MembersHaveUnions
  <1>8. ASSUME NEW p \in Slots \ {s}, Involved(p), NEW k, k = reqs[p]
        PROVE  Fits(k)'
    <2>. DEFINE n == Stage(k)
                z == k.union
                Vouched == \/ k.op = "JoinUnion" /\ n >= 2
                           \/ k.op \in {"InviteJoinUnion", "ExitUnion"} /\ n >= 3
    <2>2. /\ n \in Nat
          /\ k.op \in {"CreateUnion", "JoinUnion", "InviteJoinUnion", "ExitUnion"}
          /\ Moving(p) <=> k.op # "CreateUnion"
          /\ k.op = "InviteJoinUnion" \/ Subject(k) = k.uid
      BY <1>8, StageIs
    <2>3. Fits(k)
      BY <1>1, <1>8
    <2>4. k.op # "CreateUnion" /\ r.op # "CreateUnion" => Subject(k) # v /\ Sponsor(k) # v
      BY <1>2, <1>8, <2>2 DEF Apart
    <2>5. k.op = "CreateUnion" /\ r.op = "CreateUnion" /\ n >= 6 /\ Alters(r) => z # y
      BY <1>4, <1>8, <2>2 DEF Creates, Involved, UnionsNumbered
    <2>6. k.uid \in Users /\ Subject(k) \in Users
      <3>1. Formed(k)
        BY <1>8 DEF Involved, Shaped
      <3>. QED  BY <3>1 DEF Formed, Subject
    <2>. HIDE DEF r, v, y
    <2>7. ASSUME k.op = "CreateUnion", n >= 6
          PROVE  Owns(k.uid, z)' /\ \A u \in Users : ~Has(u, z)'
      <3>1. Owns(k.uid, z) /\ \A u \in Users : ~Has(u, z)
        BY <2>3, <2>7 DEF Fits
      <3>2. ~(Alters(r) /\ z = y)
        BY <1>2, <1>3, <2>5, <2>7, <3>1
      <3>. QED  BY <1>6, <3>1, <3>2
    <2>8. ASSUME k.op # "CreateUnion", ~(r.op = "CreateUnion" /\ z = y /\ Alters(r))
          PROVE  /\ Has(Subject(k), z)' <=> Has(Subject(k), z)
                 /\ Sponsor(k) \in Users => (Has(Sponsor(k), z)' <=> Has(Sponsor(k), z))
      <3>1. ASSUME NEW u \in Users, u # v
            PROVE  Has(u, z)' <=> Has(u, z)
        BY <1>6, <3>1
      <3>2. ASSUME NEW u \in Users, r.op = "CreateUnion"
            PROVE  Has(u, z)' <=> Has(u, z)
        BY <1>6, <2>8, <3>2
      <3>3. ASSUME NEW u \in Users, u = Subject(k) \/ u = Sponsor(k)
            PROVE  Has(u, z)' <=> Has(u, z)
        BY <2>4, <2>8, <3>1, <3>2, <3>3
      <3>. QED  BY <2>6, <3>3
    <2>9. ASSUME r.op = "CreateUnion", z = y, Alters(r)
          PROVE  ~Vouched
      BY <1>4, <2>3, <2>9 DEF Fits
    <2>10. /\ Vouched => Sponsor(k) \in Users /\ Has(Sponsor(k), z)'
           /\ k.op \in MemberChanges /\ n >= 4 => ~Has(Subject(k), z)'
           /\ k.op = "ExitUnion" /\ n = 3 => Has(k.uid, z)'
      <3>1. CASE r.op = "CreateUnion" /\ z = y /\ Alters(r)
        BY <2>2, <2>9, <3>1 DEF MemberChanges, Joins
      <3>2. CASE ~(r.op = "CreateUnion" /\ z = y /\ Alters(r)) /\ k.op # "CreateUnion"
        <4>1. /\ Has(Subject(k), z)' <=> Has(Subject(k), z)
              /\ Sponsor(k) \in Users => (Has(Sponsor(k), z)' <=> Has(Sponsor(k), z))
          BY <2>8, <3>2
        <4>2. k.op = "ExitUnion" => Subject(k) = k.uid
          BY <2>2
        <4>. QED  BY <2>3, <4>1, <4>2 DEF Fits
      <3>3. CASE k.op = "CreateUnion"
        BY <3>3 DEF MemberChanges, Joins
      <3>. QED  BY <3>1, <3>2, <3>3
    <2>11. k.op = "ExitUnion" /\ n >= 2 => IsUnion(z)' /\ ~Owns(k.uid, z)'
      BY <1>6, <2>3 DEF Fits
    <2>. QED  BY <2>7, <2>10, <2>11 DEF Fits
  <1>9. ASSUME NEW p \in Slots \ {s}, Involved(p)'
        PROVE  Fits(reqs[p])'
    <2>1. reqs'[p] = reqs[p] /\ Involved(p)
      BY <1>9 DEF OthersWait, Involved, Busy
    <2>2. PICK k : k = reqs[p]
      OBVIOUS
    <2>3. Fits(k)' /\ k = reqs'[p]
      BY <1>8, <2>1, <2>2
    <2>. QED  BY <2>3 DEF Fits, Stage, Subject, Sponsor, Has, IsUnion, Owns
  <1>. QED  BY <1>7, <1>9

-----------------------------------------------------------------------------
(* Members are counted. *)

\* One element more or less.
LEMMA OneElement ==
    ASSUME NEW S, IsFiniteSet(S), NEW T, NEW a
    PROVE  /\ Cardinality(S) \in Nat
           /\ T = S \cup {a} /\ a \notin S => Cardinality(T) = Cardinality(S) + 1
           /\ T = S \ {a} /\ a \in S => Cardinality(T) = Cardinality(S) - 1
  <1>1. Cardinality(S) \in Nat
    BY FS_CardinalityType
  <1>2. a \notin S => Cardinality(S \cup {a}) = Cardinality(S) + 1
    BY FS_AddElement
  <1>3. a \in S => Cardinality(S \ {a}) = Cardinality(S) - 1
    BY FS_RemoveElement
  <1>. QED  BY <1>1, <1>2, <1>3

\* Members and requests can be counted.
LEMMA RollsAreFinite ==
    ASSUME NEW x
    PROVE  /\ IsFiniteSet(MembersOf(x)) /\ IsFiniteSet(MembersOf(x)')
           /\ IsFiniteSet(PendingOf(x)) /\ IsFiniteSet(PendingOf(x)')
  <1>1. MembersOf(x) \subseteq Users /\ MembersOf(x)' \subseteq Users
    BY DEF MembersOf
  <1>2. PendingOf(x) \subseteq Slots /\ PendingOf(x)' \subseteq Slots
    BY DEF PendingOf
  <1>. QED  BY <1>1, <1>2, FS_Subset, DocsAssumption

\* The tally when one member is more or less, and one request.
LEMMA TallyGoes ==
    ASSUME NEW x, NEW v \in Users, NEW s \in Slots, OthersWait(s),
           \A u \in Users : u # v => (Has(u, x)' <=> Has(u, x))
    PROVE  LET p == s \in PendingOf(x)
               q == (s \in PendingOf(x))'
               m == IF Has(v, x) THEN 1 ELSE 0
               n == IF Has(v, x)' THEN 1 ELSE 0
               i == IF p THEN 1 ELSE 0
               j == IF q THEN 1 ELSE 0
           IN /\ Tally(x) \in Nat /\ Tally(x)' \in Nat
              /\ Tally(x)' = Tally(x) + (n - m) + (j - i)
  <1>. DEFINE M == MembersOf(x)
              N == MembersOf(x)'
              P == PendingOf(x)
              Q == PendingOf(x)'
              a == IF Has(v, x) THEN 1 ELSE 0
              b == IF Has(v, x)' THEN 1 ELSE 0
              c == IF s \in P THEN 1 ELSE 0
              e == IF s \in Q THEN 1 ELSE 0
  <1>1. IsFiniteSet(M) /\ IsFiniteSet(N) /\ IsFiniteSet(P) /\ IsFiniteSet(Q)
    BY RollsAreFinite
  <1>2. N \ {v} = M \ {v} /\ (v \in M <=> Has(v, x)) /\ (v \in N <=> Has(v, x)')
    BY DEF MembersOf
  <1>3. Q \ {s} = P \ {s}
    <2>1. \A p \in Slots \ {s} : reqs'[p] = reqs[p]
      BY DEF OthersWait
    <2>2. ASSUME NEW p \in Slots \ {s}
          PROVE  p \in Q <=> p \in P
      <3>1. reqs'[p] = reqs[p]
        BY <2>1
      <3>. QED  BY <3>1 DEF PendingOf, Busy, Awaits, Stage
    <2>3. Q \subseteq Slots /\ P \subseteq Slots
      BY DEF PendingOf
    <2>. QED  BY <2>2, <2>3
  <1>4. Tally(x) = Cardinality(M) + Cardinality(P) /\ Tally(x)' = Cardinality(N) + Cardinality(Q)
    BY DEF Tally
  <1>5. (s \in PendingOf(x))' <=> s \in Q
    OBVIOUS
  <1>. HIDE DEF M, N, P, Q
  <1>6. /\ Cardinality(M) \in Nat /\ Cardinality(N) \in Nat
        /\ Cardinality(P) \in Nat /\ Cardinality(Q) \in Nat
    BY <1>1, FS_CardinalityType
  <1>7. Cardinality(N) = Cardinality(M) + (b - a)
    <2>1. CASE v \in M /\ v \in N
      <3>1. N = M
        BY <1>2, <2>1
      <3>. QED  BY <1>2, <1>6, <2>1, <3>1
    <2>2. CASE v \in M /\ v \notin N
      <3>1. N = M \ {v}
        BY <1>2, <2>2
      <3>2. Cardinality(N) = Cardinality(M) - 1
        BY <1>1, <2>2, <3>1, OneElement
      <3>. QED  BY <1>2, <1>6, <2>2, <3>2
    <2>3. CASE v \notin M /\ v \in N
      <3>1. N = M \cup {v}
        BY <1>2, <2>3
      <3>2. Cardinality(N) = Cardinality(M) + 1
        BY <1>1, <2>3, <3>1, OneElement
      <3>. QED  BY <1>2, <1>6, <2>3, <3>2
    <2>4. CASE v \notin M /\ v \notin N
      <3>1. N = M
        BY <1>2, <2>4
      <3>. QED  BY <1>2, <1>6, <2>4, <3>1
    <2>. QED  BY <2>1, <2>2, <2>3, <2>4
  <1>8. Cardinality(Q) = Cardinality(P) + (e - c)
    <2>1. CASE s \in P <=> s \in Q
      <3>1. Q = P
        BY <1>3, <2>1
      <3>. QED  BY <1>6, <2>1, <3>1
    <2>2. CASE s \in P /\ s \notin Q
      <3>1. Q = P \ {s}
        BY <1>3, <2>2
      <3>2. Cardinality(Q) = Cardinality(P) - 1
        BY <1>1, <2>2, <3>1, OneElement
      <3>. QED  BY <1>6, <2>2, <3>2
    <2>3. CASE s \notin P /\ s \in Q
      <3>1. Q = P \cup {s}
        BY <1>3, <2>3
      <3>2. Cardinality(Q) = Cardinality(P) + 1
        BY <1>1, <2>3, <3>1, OneElement
      <3>. QED  BY <1>6, <2>3, <3>2
    <2>. QED  BY <2>1, <2>2, <2>3
  <1>9. Tally(x) \in Nat /\ Tally(x)' \in Nat
    BY <1>4, <1>6
  <1>10. a \in {0, 1} /\ b \in {0, 1} /\ c \in {0, 1} /\ e \in {0, 1}
    OBVIOUS
  <1>. HIDE DEF a, b, c, e
  <1>11. Tally(x)' = Tally(x) + (b - a) + (e - c)
    BY <1>4, <1>6, <1>7, <1>8, <1>10
  <1>. QED  BY <1>5, <1>9, <1>11 DEF a, b, c, e, P, Q

-----------------------------------------------------------------------------
(* Steps that leave the members alone. *)

UnionsOwned ==
    \A x : (IsUnion(x)' <=> IsUnion(x)) /\ \A o : Owns(o, x)' <=> Owns(o, x)

\* A request that goes on or comes does as it should, and knows whom it is
\* below if it leaves.
FitsOn(p) == Involved(p)' => (Involved(p) /\ reqs'[p] = reqs[p]) \/ Fits(reqs[p])'
RanksOn(p) ==
    /\ \A x, w : LeftBy(p, x, w) => LeftBy(p, x, w)'
    /\ \A x : Exits(p, x)' /\ Stage(reqs'[p]) >= 3 =>
          \/ /\ Exits(p, x) /\ Stage(reqs[p]) >= 3
             /\ reqs'[p].uid = reqs[p].uid /\ reqs'[p].spreader = reqs[p].spreader
          \/ /\ reqs'[p].uid \in Users /\ Below(reqs'[p].uid, x, reqs'[p].spreader)
             /\ ~Owns(reqs'[p].uid, x)

\* The ranks of a union stay.
LEMMA RanksStay ==
    ASSUME MembersStay, \A p \in Slots : RanksOn(p), NEW f, NEW x, NEW o, Ranks(f, x, o),
           Owns(o, x)
    PROVE  Ranks(f, x, o)'
  <1>1. /\ \A u \in Users \ {o} : \A w : Below(u, x, w) =>
              w \in Users /\ f[w] < f[u] /\ (Has(w, x) \/ \E p \in Slots : LeftBy(p, x, w))
        /\ \A p \in Slots : Exits(p, x) /\ Stage(reqs[p]) >= 3 =>
              reqs[p].spreader \in Users /\ f[reqs[p].spreader] < f[reqs[p].uid]
        /\ f \in [Users -> Nat]
    BY DEF Ranks
  <1>2. ASSUME NEW u \in Users \ {o}, NEW w, Below(u, x, w)'
        PROVE  /\ w \in Users /\ f[w] < f[u]
               /\ Has(w, x)' \/ \E p \in Slots : LeftBy(p, x, w)'
    <2>1. Below(u, x, w)
      BY <1>2 DEF MembersStay
    <2>2. w \in Users /\ f[w] < f[u] /\ (Has(w, x) \/ \E p \in Slots : LeftBy(p, x, w))
      BY <1>1, <2>1
    <2>. QED  BY <2>2 DEF MembersStay, RanksOn
  <1>3. ASSUME NEW p \in Slots, Exits(p, x)', Stage(reqs'[p]) >= 3
        PROVE  reqs'[p].spreader \in Users /\ f[reqs'[p].spreader] < f[reqs'[p].uid]
    <2>1. CASE /\ Exits(p, x) /\ Stage(reqs[p]) >= 3
               /\ reqs'[p].uid = reqs[p].uid /\ reqs'[p].spreader = reqs[p].spreader
      BY <1>1, <2>1
    <2>2. CASE /\ reqs'[p].uid \in Users /\ Below(reqs'[p].uid, x, reqs'[p].spreader)
               /\ ~Owns(reqs'[p].uid, x)
      <3>1. reqs'[p].uid \in Users \ {o}
        BY <2>2
      <3>. QED  BY <1>1, <2>2, <3>1
    <2>. QED  BY <1>3, <2>1, <2>2 DEF RanksOn
  <1>4. \A p \in Slots : Stage(reqs[p])' = Stage(reqs'[p])
    BY DEF Stage, Place
  <1>. QED  BY <1>1, <1>2, <1>3, <1>4 DEF Ranks

\* Where no member comes or goes.
LEMMA QuietRest ==
    ASSUME Shaped, Joined, MembersStay, UnionsOwned, \A p \in Slots : FitsOn(p) /\ RanksOn(p)
    PROVE  MembersHaveUnions' /\ MembersRanked' /\ AllFit'
  <1>1. MembersHaveUnions'
    BY DEF Joined, MembersHaveUnions, MembersStay, UnionsOwned
  <1>2. MembersRanked'
    <2>1. ASSUME NEW x, NEW o, Owns(o, x)'
          PROVE  \E f : Ranks(f, x, o)'
      <3>1. Owns(o, x)
        BY <2>1 DEF UnionsOwned
      <3>2. PICK f : Ranks(f, x, o)
        BY <3>1 DEF Joined, MembersRanked
      <3>3. Ranks(f, x, o)'
        BY <3>1, <3>2, RanksStay
      <3>. QED  BY <3>3
    <2>. QED  BY <2>1 DEF MembersRanked
  <1>3. ASSUME NEW p \in Slots, Involved(p)'
        PROVE  Fits(reqs[p])'
    <2>1. CASE Fits(reqs[p])'
      BY <2>1
    <2>2. CASE Involved(p) /\ reqs'[p] = reqs[p]
      <3>1. PICK k : k = reqs[p] /\ k = reqs'[p]
        BY <2>2
      <3>2. Fits(k)
        BY <2>2, <3>1 DEF Joined, AllFit
      <3>3. /\ \A x : (IsUnion(x)' <=> IsUnion(x)) /\ \A o : Owns(o, x)' <=> Owns(o, x)
            /\ \A u \in Users : \A x : Has(u, x)' <=> Has(u, x)
        BY DEF MembersStay, UnionsOwned
      <3>4. Subject(k) \in Users /\ k.uid \in Users
        <4>1. Formed(k)
          BY <2>2, <3>1 DEF Involved, Shaped
        <4>. QED  BY <4>1 DEF Formed, Subject
      <3>5. Fits(k)'
        BY <3>2, <3>3, <3>4 DEF Fits
      <3>. QED  BY <3>1, <3>5 DEF Fits, Stage, Subject, Sponsor, Has, IsUnion, Owns
    <2>. QED  BY <1>3, <2>1, <2>2 DEF FitsOn
  <1>. QED  BY <1>1, <1>2, <1>3 DEF AllFit

\* And no one is counted.
LEMMA QuietJoined ==
    ASSUME Shaped, Joined, MembersStay, UnionsStay, OneEntryEach',
           \A p \in Slots : FitsOn(p) /\ RanksOn(p),
           \A x : IsUnion(x) => PendingOf(x)' = PendingOf(x)
    PROVE  Joined'
  <1>1. UnionsOwned
    BY DEF UnionsOwned, UnionsStay
  <1>2. MembersHaveUnions' /\ MembersRanked' /\ AllFit'
    BY <1>1, QuietRest
  <1>3. ASSUME NEW x, NEW o, NEW n, UnionIs(x, o, n)'
        PROVE  Tally(x)' = n
    <2>0. UnionIs(x, o, n)
      BY <1>3 DEF UnionsStay
    <2>1. UnionIs(x, o, n) /\ IsUnion(x)
      BY <2>0 DEF UnionIs, IsUnion
    <2>2. MembersOf(x)' = MembersOf(x)
      BY DEF MembersOf, MembersStay
    <2>3. PendingOf(x)' = PendingOf(x)
      BY <2>1
    <2>4. Tally(x)' = Tally(x)
      BY <2>2, <2>3 DEF Tally
    <2>. QED  BY <2>1, <2>4 DEF Joined, MembersCounted
  <1>4. MembersCounted'
    BY <1>3 DEF MembersCounted
  <1>. QED  BY <1>2, <1>4 DEF Joined

\* What fits at this stage, about this union and this spreader; who may leave;
\* and who is counted there.
Suits(r, x, sp, n) ==
    /\ \/ r.op = "JoinUnion" /\ n >= 2
       \/ r.op \in {"InviteJoinUnion", "ExitUnion"} /\ n >= 3
       => LET w == IF r.op = "InviteJoinUnion" THEN r.uid ELSE sp
          IN w \in Users /\ Has(w, x)
    /\ r.op \in MemberChanges /\ n >= 4 => ~Has(Subject(r), x)
    /\ r.op = "ExitUnion" /\ n >= 2 => IsUnion(x) /\ ~Owns(r.uid, x)
    /\ r.op = "ExitUnion" /\ n = 3 => Has(r.uid, x)
    /\ r.op = "CreateUnion" /\ n >= 6 => Owns(r.uid, x) /\ \A u \in Users : ~Has(u, x)
MayLeave(r, x, sp, n) ==
    r.op = "ExitUnion" /\ n >= 3 =>
        \/ Stage(r) >= 3 /\ x = r.union /\ sp = r.spreader
        \/ Below(r.uid, x, sp) /\ ~Owns(r.uid, x)
AwaitsAt(op, n) ==
    \/ op \in Joins /\ n >= 5
    \/ op = "CreateUnion" /\ n >= 6
    \/ op = "ExitUnion" /\ n >= 4

\* What the request that goes on is.
LEMMA GoneOn ==
    ASSUME NEW s, Member(s), NEW x, NEW sp, NEW id, NEW n \in Nat, Stands(s, x, sp, id, n)
    PROVE  LET r == reqs[s]
               k == reqs'[s]
           IN /\ Involved(s) /\ Involved(s)' /\ s \in Busy'
              /\ k.op = r.op /\ k.uid = r.uid /\ k.other = r.other
              /\ k.union = x /\ k.spreader = sp /\ Stage(k) = n /\ Stage(reqs[s])' = n
              /\ Awaits(r) <=> AwaitsAt(r.op, Stage(r))
              /\ \A z : (s \in PendingOf(z))' <=> z = x /\ AwaitsAt(r.op, n)
              /\ \A z : s \in PendingOf(z) <=> z = r.union /\ AwaitsAt(r.op, Stage(r))
              /\ \A z : Exits(s, z)' <=> r.op = "ExitUnion" /\ z = x
              /\ \A z : Exits(s, z) <=> r.op = "ExitUnion" /\ z = r.union
  <1>. DEFINE r == reqs[s]
              k == reqs'[s]
  <1>1. /\ s \in Slots /\ s \in Busy /\ r.op \in MemberOps /\ s \in Busy'
        /\ k.op = r.op /\ k.uid = r.uid /\ k.other = r.other
        /\ k.union = x /\ k.spreader = sp /\ Stage(k) = n
    BY MemberIs DEF Stands, Busy
  <1>2. Stage(reqs[s])' = n
    BY <1>1 DEF Stage, Place
  <1>3. \A t : Awaits(t) <=> AwaitsAt(t.op, Stage(t))
    BY DEF Awaits, AwaitsAt
  <1>4. Awaits(reqs[s])' <=> Awaits(k)
    BY DEF Awaits, Stage, Place
  <1>5. \A z : (s \in PendingOf(z))' <=> z = x /\ AwaitsAt(r.op, n)
    BY <1>1, <1>3, <1>4 DEF PendingOf
  <1>6. \A z : s \in PendingOf(z) <=> z = r.union /\ AwaitsAt(r.op, Stage(r))
    BY <1>1, <1>3 DEF PendingOf
  <1>7. \A z : Exits(s, z)' <=> r.op = "ExitUnion" /\ z = x
    BY <1>1 DEF Exits
  <1>8. \A z : Exits(s, z) <=> r.op = "ExitUnion" /\ z = r.union
    BY <1>1 DEF Exits
  <1>. QED  BY <1>1, <1>2, <1>3, <1>5, <1>6, <1>7, <1>8 DEF Involved

\* And that of one that ends.
LEMMA GoneOff ==
    ASSUME NEW s, Member(s), Quits(s)
    PROVE  LET r == reqs[s]
           IN /\ Involved(s) /\ ~Involved(s)' /\ s \notin Busy'
              /\ \A z : ~(s \in PendingOf(z))' /\ ~Exits(s, z)'
              /\ \A z : s \in PendingOf(z) <=> z = r.union /\ AwaitsAt(r.op, Stage(r))
  <1>1. s \in Slots /\ s \in Busy /\ reqs[s].op \in MemberOps /\ s \notin Busy'
    BY MemberIs DEF Quits, Busy
  <1>2. \A t : Awaits(t) <=> AwaitsAt(t.op, Stage(t))
    BY DEF Awaits, AwaitsAt
  <1>. QED  BY <1>1, <1>2 DEF Involved, PendingOf, Exits

\* What fits before a step that leaves the members alone fits after it.
LEMMA SuitsNext ==
    ASSUME NEW s, Member(s), NEW x, NEW sp, NEW id, NEW n \in Nat, Stands(s, x, sp, id, n),
           MembersStay, UnionsOwned, Suits(reqs[s], x, sp, n)
    PROVE  Fits(reqs[s])'
  <1>1. PICK r : r = reqs[s]
    OBVIOUS
  <1>2. PICK k : k = reqs'[s]
    OBVIOUS
  <1>3. /\ k.op = r.op /\ k.uid = r.uid /\ k.other = r.other
        /\ k.union = x /\ k.spreader = sp /\ Stage(k) = n
    BY <1>1, <1>2, GoneOn
  <1>4. Suits(r, x, sp, n)
    BY <1>1
  <1>5. /\ \A z : (IsUnion(z)' <=> IsUnion(z)) /\ \A o : Owns(o, z)' <=> Owns(o, z)
        /\ \A u \in Users : \A z : Has(u, z)' <=> Has(u, z)
    BY DEF MembersStay, UnionsOwned
  <1>6. r.uid \in Users /\ r.other \in Users
    BY <1>1, MemberIs
  <1>7. Subject(k) = Subject(r) /\ Subject(r) \in Users
    BY <1>3, <1>6 DEF Subject
  <1>8. Sponsor(k) = IF r.op = "InviteJoinUnion" THEN r.uid ELSE sp
    BY <1>3 DEF Sponsor
  <1>9. Fits(k)'
    BY <1>3, <1>4, <1>5, <1>6, <1>7, <1>8 DEF Fits, Suits
  <1>. QED  BY <1>2, <1>9 DEF Fits, Stage, Subject, Sponsor, Has, IsUnion, Owns

\* Others wait while a request goes on or ends.
LEMMA OthersGo ==
    ASSUME NEW s, OthersWait(s), NEW p \in Slots \ {s}
    PROVE  /\ FitsOn(p) /\ RanksOn(p) /\ (Involved(p)' <=> Involved(p))
           /\ \A x : (p \in PendingOf(x))' <=> p \in PendingOf(x)
  <1>1. reqs'[p] = reqs[p] /\ (p \in Busy' <=> p \in Busy)
    BY DEF OthersWait, Busy
  <1>2. FitsOn(p) /\ (Involved(p)' <=> Involved(p))
    BY <1>1 DEF FitsOn, Involved
  <1>3. RanksOn(p)
    BY <1>1 DEF RanksOn, Exits, LeftBy, Stage, Place
  <1>4. \A x : (p \in PendingOf(x))' <=> p \in PendingOf(x)
    BY <1>1 DEF PendingOf, Awaits, Stage, Place
  <1>. QED  BY <1>2, <1>3, <1>4

\* A request that goes on or ends, and counts for nothing.
LEMMA RequestGoes ==
    ASSUME NEW s, Member(s), MembersStay, UnionsOwned,
           \/ Quits(s)
           \/ \E x, sp, id : \E n \in Nat :
                 /\ Stands(s, x, sp, id, n) /\ Suits(reqs[s], x, sp, n)
                 /\ MayLeave(reqs[s], x, sp, n),
           ~(reqs[s].op = "ExitUnion" /\ Stage(reqs[s]) = 4)
    PROVE  OthersWait(s) /\ \A p \in Slots : FitsOn(p) /\ RanksOn(p)
  <1>0. s \in Slots /\ reqs[s].uid \in Users
    BY MemberIs
  <1>1. OthersWait(s)
    BY DEF Quits, Stands
  <1>2. \A x, w : ~LeftBy(s, x, w)
    BY DEF LeftBy, Exits
  <1>3. CASE Quits(s)
    <2>1. ~Involved(s)' /\ \A z : ~Exits(s, z)'
      BY <1>3, GoneOff
    <2>2. FitsOn(s) /\ RanksOn(s)
      BY <1>2, <2>1 DEF FitsOn, RanksOn
    <2>. QED  BY <1>1, <2>2, OthersGo
  <1>4. ASSUME NEW x, NEW sp, NEW id, NEW n \in Nat, Stands(s, x, sp, id, n),
               Suits(reqs[s], x, sp, n), MayLeave(reqs[s], x, sp, n)
        PROVE  FitsOn(s) /\ RanksOn(s)
    <2>1. FitsOn(s)
      BY <1>4, SuitsNext DEF FitsOn
    <2>2. /\ reqs'[s].uid = reqs[s].uid /\ reqs'[s].spreader = sp /\ Stage(reqs'[s]) = n
          /\ \A z : Exits(s, z)' <=> reqs[s].op = "ExitUnion" /\ z = x
          /\ \A z : Exits(s, z) <=> reqs[s].op = "ExitUnion" /\ z = reqs[s].union
      BY <1>4, GoneOn
    <2>3. RanksOn(s)
      BY <1>0, <1>2, <1>4, <2>2 DEF RanksOn, MayLeave
    <2>. QED  BY <2>1, <2>3
  <1>. QED  BY <1>1, <1>3, <1>4, OthersGo

\* A call that leaves members and unions alone keeps them in order.
LEMMA GoesQuiet ==
    ASSUME Shaped, Joined, NEW s, Member(s), MembersStay, UnionsStay, OneEntryEach',
           \/ Quits(s) /\ ~AwaitsAt(reqs[s].op, Stage(reqs[s]))
           \/ \E x, sp, id : \E n \in Nat :
                 /\ Stands(s, x, sp, id, n) /\ Suits(reqs[s], x, sp, n)
                 /\ MayLeave(reqs[s], x, sp, n)
                 /\ AwaitsAt(reqs[s].op, n) <=> AwaitsAt(reqs[s].op, Stage(reqs[s]))
                 /\ AwaitsAt(reqs[s].op, n) => x = reqs[s].union,
           ~(reqs[s].op = "ExitUnion" /\ Stage(reqs[s]) = 4)
    PROVE  Joined'
  <1>1. UnionsOwned
    BY DEF UnionsOwned, UnionsStay
  <1>2. OthersWait(s) /\ \A p \in Slots : FitsOn(p) /\ RanksOn(p)
    BY <1>1, RequestGoes
  <1>3. \A z : (s \in PendingOf(z))' <=> s \in PendingOf(z)
    <2>1. CASE Quits(s) /\ ~AwaitsAt(reqs[s].op, Stage(reqs[s]))
      BY <2>1, GoneOff
    <2>2. ASSUME NEW x, NEW sp, NEW id, NEW n \in Nat, Stands(s, x, sp, id, n),
                 AwaitsAt(reqs[s].op, n) <=> AwaitsAt(reqs[s].op, Stage(reqs[s])),
                 AwaitsAt(reqs[s].op, n) => x = reqs[s].union
          PROVE  \A z : (s \in PendingOf(z))' <=> s \in PendingOf(z)
      BY <2>2, GoneOn
    <2>. QED  BY <2>1, <2>2
  <1>4. ASSUME NEW z
        PROVE  PendingOf(z)' = PendingOf(z)
    <2>1. \A p \in Slots : (p \in PendingOf(z))' <=> p \in PendingOf(z)
      BY <1>2, <1>3, OthersGo
    <2>2. PendingOf(z)' \subseteq Slots /\ PendingOf(z) \subseteq Slots
      BY DEF PendingOf
    <2>. QED  BY <2>1, <2>2
  <1>. QED  BY <1>2, <1>4, QuietJoined

-----------------------------------------------------------------------------
(* What requests read. *)

\* It goes on or ends, and leaves everybody's membership as it is.
GoesWell(s) ==
    \/ Quits(s) /\ ~AwaitsAt(reqs[s].op, Stage(reqs[s]))
    \/ \E x, sp, id : \E n \in Nat :
          /\ Stands(s, x, sp, id, n) /\ Suits(reqs[s], x, sp, n)
          /\ MayLeave(reqs[s], x, sp, n)
          /\ AwaitsAt(reqs[s].op, n) <=> AwaitsAt(reqs[s].op, Stage(reqs[s]))
          /\ AwaitsAt(reqs[s].op, n) => x = reqs[s].union

\* A call that leaves lists and unions alone keeps members in order.
LEMMA SameQuiet ==
    ASSUME Shaped, Joined, NEW s, Member(s), db'.users = db.users, db'.unions = db.unions,
           GoesWell(s), ~(reqs[s].op = "ExitUnion" /\ Stage(reqs[s]) = 4)
    PROVE  Joined'
  <1>1. MembersStay /\ OneEntryEach'
    BY SameMembersStay DEF Joined
  <1>2. UnionsStay
    BY SameUnionsStay
  <1>. QED  BY <1>1, <1>2, GoesQuiet DEF GoesWell

\* What the request has read is still so.
LEMMA ItFits ==
    ASSUME Joined, NEW s, Member(s)
    PROVE  Involved(s) /\ Fits(reqs[s])
  <1>1. s \in Slots /\ s \in Busy /\ reqs[s].op \in MemberOps
    BY MemberIs
  <1>. QED  BY <1>1 DEF Joined, AllFit, Involved

\* The entry of a union that a handler finds.
LEMMA EntryFound ==
    ASSUME DocWays, NEW u \in Users, NEW x
    PROVE  /\ InUnion(u, x) <=> Has(u, x)
           /\ InUnion(u, x) => Below(u, x, InfoOf(u, x).spreader)
  <1>. DEFINE q == Info(u)
              k == EntryIn(q, x)
  <1>1. /\ InUnion(u, x) <=> k # 0
        /\ InfoOf(u, x) = q[k]
    BY DEF InUnion, InfoOf, EntryOf, EntryIn, Info
  <1>2. IsSeq(q)
    BY DEF DocWays, Rows
  <1>3. \/ k = 0 /\ \A i \in DOMAIN q : q[i].union # x
        \/ k \in DOMAIN q /\ q[k].union = x
    BY <1>2, EntryInIs DEF IsSeq
  <1>4. 0 \notin DOMAIN q
    BY <1>2 DEF IsSeq
  <1>. HIDE DEF q, k
  <1>. QED  BY <1>1, <1>3, <1>4 DEF Has, Below, HasRow, RowBelow, q

\* The union that a handler finds.
LEMMA UnionFound ==
    ASSUME DocsShaped, UnionsNumbered, NEW x
    PROVE  /\ UnionAt(x) # 0 <=> IsUnion(x)
           /\ IsUnion(x) => \A o : Owns(o, x) <=> o = UnionOf(x).owner
  <1>. DEFINE q == db.unions
              k == DocAt(q, x)
  <1>1. UnionAt(x) = k /\ UnionOf(x) = q[k]
    BY UnionAtIs DEF ByPlace
  <1>2. IsSeq(q)
    BY DEF DocsShaped
  <1>3. \/ k = 0 /\ \A i \in DOMAIN q : q[i].id # x
        \/ k \in DOMAIN q /\ k # 0 /\ q[k].id = x
    BY <1>2, DocAtIs
  <1>4. \A i, j \in DOMAIN q : q[i].id = q[j].id => i = j
    BY DEF UnionsNumbered
  <1>. HIDE DEF q, k
  <1>. QED  BY <1>1, <1>3, <1>4 DEF IsUnion, Owns, q

\* Two owners of one union are one.
LEMMA OneOwner ==
    ASSUME UnionsNumbered, NEW x, NEW o, NEW v, Owns(o, x), Owns(v, x)
    PROVE  o = v
  BY DEF UnionsNumbered, Owns

\* Asking for a number, and drawing one.
LEMMA DrawJoined ==
    ASSUME Shaped, WaysInv, Joined, NEW s, Member(s), Exists(s) \/ SetBegin(s) \/ Incr(s)
    PROVE  Joined'
  <1>. DEFINE r == reqs[s]
              n == Stage(r)
  <1>0. CountersAre(db.counters)
    BY DEF WaysInv, DocWays
  <1>1. /\ \/ r.op = "CreateUnion" /\ n \in {3, 4, 6, 7}
           \/ r.op \in Joins /\ n \in {5, 6}
        /\ n \in Nat /\ Fits(r)
        /\ r.op = "CreateUnion" => (r.union = 0 <=> n <= 4)
    <2>1. Now(r) \in {"exists", "set", "incr"}
      BY <1>0, DoesExists, DoesSetBegin, DoesIncr
    <2>. QED  BY <2>1, MembersCall, ItFits, MemberIs DEF Member, ClubWay
  <1>2. /\ db'.users = db.users /\ db'.unions = db.unions
        /\ \/ Stands(s, r.union, r.spreader, r.id, n)
           \/ Stands(s, r.union, r.spreader, r.id, n + 1)
           \/ \E id : Stands(s, r.union, r.spreader, id, n + 1)
           \/ \E x : Stands(s, x, r.spreader, r.id, n + 1) /\ r.op = "CreateUnion" /\ n = 4
    <2>1. CASE Exists(s)
      BY <2>1, DoesExists DEF OnlyReads, Sets, Reaches
    <2>2. CASE SetBegin(s)
      BY <1>0, <2>2, DoesSetBegin DEF CounterSet, Reaches
    <2>3. CASE Incr(s)
      <3>1. Key(r) = "union" => r.op = "CreateUnion" /\ n = 4
        <4>1. Now(r) = "incr"
          BY <1>0, <2>3, DoesIncr
        <4>2. r.op = "CreateUnion" => n \in {4, 7}
          BY <4>1, MembersCall DEF Joins
        <4>. QED  BY <1>1, <4>2, KeyIs
      <3>2. Key(r) = "union" \/ Key(r) = "invite"
        BY KeyIs
      <3>. QED  BY <1>0, <2>3, <3>1, <3>2, DoesIncr DEF CounterSet, Reaches
    <2>. QED  BY <2>1, <2>2, <2>3
  <1>. HIDE DEF r, n
  <1>3. ASSUME NEW m \in {n, n + 1}, NEW x, NEW sp, x = r.union \/ (r.op = "CreateUnion" /\ n = 4),
               sp = r.spreader
        PROVE  /\ Suits(r, x, sp, m) /\ MayLeave(r, x, sp, m) /\ m \in Nat
               /\ AwaitsAt(r.op, m) <=> AwaitsAt(r.op, n)
               /\ AwaitsAt(r.op, m) => x = r.union
    <2>1. CASE r.op = "CreateUnion"
      BY <1>1, <1>3, <2>1 DEF Suits, MayLeave, AwaitsAt, Fits, Joins, MemberChanges, n
    <2>2. CASE r.op \in Joins
      <3>1. /\ Sponsor(r) \in Users /\ Has(Sponsor(r), r.union)
            /\ r.op \in MemberChanges /\ n >= 5 => ~Has(Subject(r), r.union)
        BY <1>1, <2>2 DEF Fits, Joins, MemberChanges, n
      <3>2. x = r.union /\ m \in Nat /\ m >= 5 /\ n >= 5
        BY <1>1, <1>3, <2>2 DEF Joins
      <3>3. Suits(r, x, sp, m)
        BY <1>3, <2>2, <3>1, <3>2 DEF Suits, Sponsor, Joins
      <3>. QED  BY <2>2, <3>2, <3>3 DEF MayLeave, AwaitsAt, Joins
    <2>. QED  BY <1>1, <2>1, <2>2
  <1>4. PICK x, sp, id : \E m \in {n, n + 1} :
           /\ Stands(s, x, sp, id, m) /\ sp = r.spreader
           /\ x = r.union \/ (r.op = "CreateUnion" /\ n = 4)
    BY <1>2
  <1>5. GoesWell(s)
    <2>1. PICK m \in {n, n + 1} :
             /\ Stands(s, x, sp, id, m) /\ sp = r.spreader
             /\ x = r.union \/ (r.op = "CreateUnion" /\ n = 4)
      BY <1>4
    <2>2. /\ Suits(r, x, sp, m) /\ MayLeave(r, x, sp, m) /\ m \in Nat
          /\ AwaitsAt(r.op, m) <=> AwaitsAt(r.op, n)
          /\ AwaitsAt(r.op, m) => x = r.union
      BY <1>3, <2>1
    <2>. QED  BY <2>1, <2>2 DEF GoesWell, r, n
  <1>6. r.op # "ExitUnion"
    BY <1>1 DEF Joins
  <1>. QED  BY <1>2, <1>5, <1>6, SameQuiet DEF r

\* Finding a user's entry.
LEMMA FindUserJoined ==
    ASSUME Shaped, WaysInv, UnionsNumbered, Joined, Apart', NEW s, Member(s), FindUser(s)
    PROVE  Joined'
  <1>. DEFINE r == reqs[s]
              n == Stage(r)
              u == r.uid
              y == r.union
              sp == InfoOf(u, y).spreader
  <1>1. /\ OnlyReads /\ Now(r) = "findUser"
        /\ \/ Quits(s)
           \/ r.op = "CreateUnion" /\ Reaches(s, y, r.spreader, r.id)
           \/ r.op = "JoinUnion" /\ ~InUnion(u, y) /\ Reaches(s, y, r.spreader, r.id)
           \/ /\ r.op \in {"InviteJoinUnion", "ExitUnion"} /\ InUnion(u, y)
              /\ Reaches(s, y, sp, r.id)
    BY DoesFindUser
  <1>2. /\ \/ r.op = "CreateUnion" /\ n = 1
           \/ r.op = "JoinUnion" /\ n = 3
           \/ r.op \in {"InviteJoinUnion", "ExitUnion"} /\ n = 2
        /\ Fits(r) /\ s \in Slots /\ s \in Busy /\ u \in Users
    BY <1>1, MembersCall, ItFits, MemberIs
  <1>3. DocWays /\ (InUnion(u, y) <=> Has(u, y)) /\ (InUnion(u, y) => Below(u, y, sp))
    <2>1. DocWays
      BY DEF WaysInv
    <2>. QED  BY <1>2, <2>1, EntryFound
  <1>. HIDE DEF r, n, u, y, sp
  <1>4. GoesWell(s)
    <2>1. CASE Quits(s)
      BY <1>2, <2>1 DEF GoesWell, AwaitsAt, r, n, Joins
    <2>2. CASE r.op = "CreateUnion" /\ Reaches(s, y, r.spreader, r.id)
      <3>1. Stands(s, y, r.spreader, r.id, 2)
        BY <1>2, <2>2 DEF Reaches, r, n
      <3>2. Suits(r, y, r.spreader, 2) /\ MayLeave(r, y, r.spreader, 2)
        BY <2>2 DEF Suits, MayLeave, MemberChanges, Joins
      <3>. QED  BY <1>2, <2>2, <3>1, <3>2 DEF GoesWell, AwaitsAt, r, n, Joins
    <2>3. CASE r.op = "JoinUnion" /\ ~InUnion(u, y) /\ Reaches(s, y, r.spreader, r.id)
      <3>1. Stands(s, y, r.spreader, r.id, 4)
        BY <1>2, <2>3 DEF Reaches, r, n
      <3>2. Sponsor(r) \in Users /\ Has(Sponsor(r), y)
        BY <1>2, <2>3 DEF Fits, n, y
      <3>3. ~Has(Subject(r), y)
        BY <1>3, <2>3 DEF Subject, u
      <3>4. Suits(r, y, r.spreader, 4) /\ MayLeave(r, y, r.spreader, 4)
        BY <2>3, <3>2, <3>3 DEF Suits, MayLeave, MemberChanges, Joins, Sponsor
      <3>. QED  BY <1>2, <2>3, <3>1, <3>4 DEF GoesWell, AwaitsAt, r, n, Joins
    <2>4. CASE r.op = "InviteJoinUnion" /\ InUnion(u, y) /\ Reaches(s, y, sp, r.id)
      <3>1. Stands(s, y, sp, r.id, 3)
        BY <1>2, <2>4 DEF Reaches, r, n
      <3>2. Suits(r, y, sp, 3) /\ MayLeave(r, y, sp, 3)
        BY <1>2, <1>3, <2>4 DEF Suits, MayLeave, MemberChanges, Joins, u
      <3>. QED  BY <1>2, <2>4, <3>1, <3>2 DEF GoesWell, AwaitsAt, r, n, Joins
    <2>5. CASE r.op = "ExitUnion" /\ InUnion(u, y) /\ Reaches(s, y, sp, r.id)
      <3>1. Stands(s, y, sp, r.id, 3)
        BY <1>2, <2>5 DEF Reaches, r, n
      <3>2. IsUnion(y) /\ ~Owns(u, y)
        BY <1>2, <2>5 DEF Fits, n, y, u
      <3>3. PICK o, f : Owns(o, y) /\ Ranks(f, y, o) /\ u # o
        <4>1. PICK o : Owns(o, y)
          BY <3>2 DEF IsUnion, Owns
        <4>. QED  BY <3>2, <4>1 DEF Joined, MembersRanked
      <3>4. sp \in Users /\ (Has(sp, y) \/ \E p \in Slots : LeftBy(p, y, sp))
        BY <1>2, <1>3, <2>5, <3>3 DEF Ranks
      <3>5. ASSUME NEW p \in Slots, LeftBy(p, y, sp)
            PROVE  FALSE
        <4>1. /\ p \in Busy /\ reqs[p].op = "ExitUnion" /\ reqs[p].uid = sp /\ p # s
          BY <1>2, <2>5, <3>5 DEF LeftBy, Exits, r, n
        <4>2. OthersWait(s) /\ s \in Busy' /\ reqs'[s].op = "ExitUnion" /\ reqs'[s].spreader = sp
          <5>1. s \in Busy'
            BY <3>1, GoneOn
          <5>. QED  BY <2>5, <3>1, <5>1 DEF Stands, r
        <4>3. p \in Busy' /\ reqs'[p] = reqs[p]
          BY <4>1, <4>2 DEF OthersWait, Busy
        <4>4. Subject(reqs[p])' # Sponsor(reqs[s])'
          BY <1>2, <3>5, <4>1, <4>2, <4>3 DEF Apart, Moving, MemberChanges
        <4>. QED  BY <4>1, <4>2, <4>3, <4>4 DEF Subject, Sponsor
      <3>6. Has(sp, y)
        BY <3>4, <3>5
      <3>7. Suits(r, y, sp, 3) /\ MayLeave(r, y, sp, 3)
        BY <1>3, <2>5, <3>2, <3>4, <3>6 DEF Suits, MayLeave, MemberChanges, Joins, u
      <3>. QED  BY <1>2, <2>5, <3>1, <3>7 DEF GoesWell, AwaitsAt, r, n, Joins
    <2>. QED  BY <1>1, <2>1, <2>2, <2>3, <2>4, <2>5
  <1>5. ~(r.op = "ExitUnion" /\ n = 4)
    BY <1>2
  <1>. QED  BY <1>1, <1>4, <1>5, SameQuiet DEF r, n, OnlyReads

\* Finding the union.
LEMMA FindUnionJoined ==
    ASSUME Shaped, WaysInv, UnionsNumbered, Joined, NEW s, Member(s), FindUnion(s)
    PROVE  Joined'
  <1>. DEFINE r == reqs[s]
              n == Stage(r)
              y == r.union
  <1>1. /\ OnlyReads /\ Now(r) = "findUnion"
        /\ \/ Quits(s)
           \/ /\ UnionAt(y) # 0 /\ Reaches(s, y, r.spreader, r.id)
              /\ r.op = "ExitUnion" => UnionOf(y).owner # r.uid
    BY DoesFindUnion
  <1>2. /\ \/ r.op = "JoinUnion" /\ n = 2
           \/ r.op \in {"InviteJoinUnion", "ExitUnion"} /\ n = 1
        /\ Fits(r)
    BY <1>1, MembersCall, ItFits
  <1>3. UnionAt(y) # 0 => IsUnion(y) /\ \A o : Owns(o, y) <=> o = UnionOf(y).owner
    BY UnionFound, MemberDocs
  <1>. HIDE DEF r, n, y
  <1>4. GoesWell(s)
    <2>1. CASE Quits(s)
      BY <1>2, <2>1 DEF GoesWell, AwaitsAt, r, n, Joins
    <2>2. CASE r.op = "JoinUnion" /\ Reaches(s, y, r.spreader, r.id)
      <3>1. Stands(s, y, r.spreader, r.id, 3)
        BY <1>2, <2>2 DEF Reaches, r, n
      <3>2. Sponsor(r) \in Users /\ Has(Sponsor(r), y)
        BY <1>2, <2>2 DEF Fits, n, y
      <3>3. Suits(r, y, r.spreader, 3) /\ MayLeave(r, y, r.spreader, 3)
        BY <2>2, <3>2 DEF Suits, MayLeave, MemberChanges, Joins, Sponsor
      <3>. QED  BY <1>2, <2>2, <3>1, <3>3 DEF GoesWell, AwaitsAt, r, n, Joins
    <2>3. CASE /\ r.op \in {"InviteJoinUnion", "ExitUnion"} /\ UnionAt(y) # 0
               /\ Reaches(s, y, r.spreader, r.id)
               /\ r.op = "ExitUnion" => UnionOf(y).owner # r.uid
      <3>1. Stands(s, y, r.spreader, r.id, 2)
        BY <1>2, <2>3 DEF Reaches, r, n
      <3>2. Suits(r, y, r.spreader, 2) /\ MayLeave(r, y, r.spreader, 2)
        BY <1>3, <2>3 DEF Suits, MayLeave, MemberChanges, Joins
      <3>. QED  BY <1>2, <2>3, <3>1, <3>2 DEF GoesWell, AwaitsAt, r, n, Joins
    <2>. QED  BY <1>1, <1>2, <2>1, <2>2, <2>3
  <1>5. ~(r.op = "ExitUnion" /\ n = 4)
    BY <1>2
  <1>. QED  BY <1>1, <1>4, <1>5, SameQuiet DEF r, n, OnlyReads

\* Finding an inviter, another user, or a union the user has.
LEMMA FindsJoined ==
    ASSUME Shaped, WaysInv, Joined, NEW s, Member(s),
           FindInviter(s) \/ FindOther(s) \/ FindOwned(s)
    PROVE  Joined'
  <1>. DEFINE r == reqs[s]
              n == Stage(r)
              y == r.union
  <1>0. DocWays /\ \A u \in Users : Rows(Info(u))
    BY DEF WaysInv, DocWays
  <1>1. /\ OnlyReads
        /\ \/ Quits(s) /\ \/ r.op = "JoinUnion" /\ n = 1
                          \/ r.op = "InviteJoinUnion" /\ n = 3
                          \/ r.op = "CreateUnion" /\ n = 2
           \/ /\ r.op = "JoinUnion" /\ n = 1
              /\ \E u \in Users : \E i \in DOMAIN Info(u) :
                    Reaches(s, Info(u)[i].union, u, r.id)
           \/ /\ r.op = "InviteJoinUnion" /\ n = 3
              /\ ~InUnion(r.other, y) /\ Reaches(s, y, r.spreader, r.id)
           \/ /\ r.op = "CreateUnion" /\ n = 2 /\ Reaches(s, y, r.spreader, r.id)
    <2>1. FindInviter(s) => /\ OnlyReads /\ r.op = "JoinUnion" /\ n = 1
                            /\ \/ Quits(s)
                               \/ \E u \in Users : \E i \in DOMAIN Info(u) :
                                     Reaches(s, Info(u)[i].union, u, r.id)
      BY <1>0, DoesFindInviter, MembersCall
    <2>2. FindOther(s) => /\ OnlyReads /\ r.op = "InviteJoinUnion" /\ n = 3
                          /\ \/ Quits(s)
                             \/ ~InUnion(r.other, y) /\ Reaches(s, y, r.spreader, r.id)
      BY DoesFindOther, MembersCall
    <2>3. FindOwned(s) => /\ OnlyReads /\ r.op = "CreateUnion" /\ n = 2
                          /\ Quits(s) \/ Reaches(s, y, r.spreader, r.id)
      BY DoesFindOwned, MembersCall
    <2>. QED  BY <2>1, <2>2, <2>3
  <1>2. Fits(r) /\ r.other \in Users
    BY ItFits, MemberIs
  <1>. HIDE DEF r, n, y
  <1>3. GoesWell(s)
    <2>1. CASE Quits(s) /\ \/ r.op = "JoinUnion" /\ n = 1
                           \/ r.op = "InviteJoinUnion" /\ n = 3
                           \/ r.op = "CreateUnion" /\ n = 2
      BY <2>1 DEF GoesWell, AwaitsAt, r, n, Joins
    <2>2. ASSUME r.op = "JoinUnion", n = 1, NEW u \in Users, NEW i \in DOMAIN Info(u),
                 Reaches(s, Info(u)[i].union, u, r.id)
          PROVE  GoesWell(s)
      <3>. DEFINE x == Info(u)[i].union
      <3>1. Has(u, x)
        BY DEF Has, HasRow
      <3>2. Stands(s, x, u, r.id, 2)
        BY <2>2 DEF Reaches, r, n
      <3>. HIDE DEF x
      <3>3. Suits(r, x, u, 2) /\ MayLeave(r, x, u, 2)
        BY <2>2, <3>1 DEF Suits, MayLeave, MemberChanges, Joins
      <3>. QED  BY <2>2, <3>2, <3>3 DEF GoesWell, AwaitsAt, r, n, Joins
    <2>3. CASE /\ r.op = "InviteJoinUnion" /\ n = 3 /\ ~InUnion(r.other, y)
               /\ Reaches(s, y, r.spreader, r.id)
      <3>1. Stands(s, y, r.spreader, r.id, 4)
        BY <2>3 DEF Reaches, r, n
      <3>2. ~Has(Subject(r), y)
        BY <1>0, <1>2, <2>3, EntryFound DEF Subject
      <3>3. r.uid \in Users /\ Has(r.uid, y)
        BY <1>2, <2>3 DEF Fits, n, y, Sponsor
      <3>4. Suits(r, y, r.spreader, 4) /\ MayLeave(r, y, r.spreader, 4)
        BY <2>3, <3>2, <3>3 DEF Suits, MayLeave, MemberChanges, Joins
      <3>. QED  BY <2>3, <3>1, <3>4 DEF GoesWell, AwaitsAt, r, n, Joins
    <2>4. CASE r.op = "CreateUnion" /\ n = 2 /\ Reaches(s, y, r.spreader, r.id)
      <3>1. Stands(s, y, r.spreader, r.id, 3)
        BY <2>4 DEF Reaches, r, n
      <3>2. Suits(r, y, r.spreader, 3) /\ MayLeave(r, y, r.spreader, 3)
        BY <2>4 DEF Suits, MayLeave, MemberChanges, Joins
      <3>. QED  BY <2>4, <3>1, <3>2 DEF GoesWell, AwaitsAt, r, n, Joins
    <2>. QED  BY <1>1, <2>1, <2>2, <2>3, <2>4
  <1>4. ~(r.op = "ExitUnion" /\ n = 4)
    BY <1>1
  <1>. QED  BY <1>1, <1>3, <1>4, SameQuiet DEF r, n, OnlyReads

\* Steps that are nobody's membership.
LEMMA AsideJoined ==
    ASSUME Shaped, WaysInv, Joined, Aside, failed' = {}
    PROVE  Joined'
  <1>1. MembersStay /\ OneEntryEach' /\ UnionsStay
    BY AlikeMembersStay, AlikeUnionsStay DEF WaysInv, Aside, AlikeDocs, Joined
  <1>2. \A p \in Slots : /\ Involved(p)' <=> Involved(p)
                         /\ Involved(p) => reqs'[p] = reqs[p]
    BY DEF Aside
  <1>3. ASSUME NEW p \in Slots
        PROVE  /\ FitsOn(p) /\ RanksOn(p)
               /\ \A x : (p \in PendingOf(x))' <=> p \in PendingOf(x)
    <2>1. CASE Involved(p)
      <3>1. reqs'[p] = reqs[p] /\ p \in Busy /\ p \in Busy'
        BY <1>2, <2>1 DEF Involved
      <3>2. FitsOn(p)
        BY <2>1, <3>1 DEF FitsOn
      <3>3. RanksOn(p)
        BY <3>1 DEF RanksOn, Exits, LeftBy, Stage, Place
      <3>4. \A x : (p \in PendingOf(x))' <=> p \in PendingOf(x)
        BY <3>1 DEF PendingOf, Awaits, Stage, Place
      <3>. QED  BY <3>2, <3>3, <3>4
    <2>2. CASE ~Involved(p)
      <3>1. ~Involved(p)'
        BY <1>2, <2>2
      <3>2. \A x : ~Exits(p, x) /\ ~Exits(p, x)'
        BY <2>2, <3>1 DEF Exits, Involved, MemberOps
      <3>3. \A x : p \notin PendingOf(x) /\ ~(p \in PendingOf(x))'
        BY <2>2, <3>1 DEF PendingOf, Awaits, Involved, MemberOps, Joins
      <3>. QED  BY <3>1, <3>2, <3>3 DEF FitsOn, RanksOn, LeftBy
    <2>. QED  BY <2>1, <2>2
  <1>4. ASSUME NEW x
        PROVE  PendingOf(x)' = PendingOf(x)
    <2>1. PendingOf(x)' \subseteq Slots /\ PendingOf(x) \subseteq Slots
      BY DEF PendingOf
    <2>. QED  BY <1>3, <2>1
  <1>. QED  BY <1>1, <1>3, <1>4, QuietJoined

\* A message arrives.
LEMMA ArriveJoined ==
    ASSUME Shaped, WaysInv, Joined, NEW s \in Slots, Arrive(s), start \in DOMAIN Starts
    PROVE  Joined'
  <1>1. /\ s \notin Busy /\ OthersWait(s) /\ db' = db
        /\ \E c \in Starts[start].calls : reqs'[s] = NewRequest(c)
    BY ArriveIs
  <1>2. MembersStay /\ OneEntryEach' /\ UnionsStay
    BY <1>1, SameMembersStay, SameUnionsStay DEF Joined
  <1>3. PICK k : k = reqs'[s] /\ (k.op \in MemberOps => Stage(k) = 1)
    <2>1. PICK c \in Starts[start].calls : reqs'[s] = NewRequest(c)
      BY <1>1
    <2>2. NewRequest(c).op \in MemberOps => Stage(NewRequest(c)) = 1
      BY NewWay
    <2>. QED  BY <2>1, <2>2
  <1>4. Stage(reqs[s])' = Stage(k)
    BY <1>3 DEF Stage, Place
  <1>5. FitsOn(s)
    <2>. SUFFICES ASSUME Involved(s)'
                  PROVE  Fits(reqs[s])'
      BY DEF FitsOn
    <2>1. Stage(reqs[s])' = 1
      BY <1>3, <1>4 DEF Involved
    <2>. QED  BY <2>1 DEF Fits
  <1>6. RanksOn(s)
    <2>1. \A x : ~Exits(s, x)
      BY <1>1 DEF Exits
    <2>2. ASSUME NEW x, Exits(s, x)'
          PROVE  Stage(reqs'[s]) = 1
      BY <1>3, <2>2 DEF Exits, MemberOps
    <2>. QED  BY <2>1, <2>2 DEF RanksOn, LeftBy
  <1>7. ASSUME NEW x
        PROVE  PendingOf(x)' = PendingOf(x)
    <2>1. s \notin PendingOf(x)
      BY <1>1 DEF PendingOf
    <2>2. ~(s \in PendingOf(x))'
      <3>1. Awaits(reqs[s])' => Stage(reqs[s])' = 1
        BY <1>3, <1>4 DEF Awaits, MemberOps, Joins
      <3>2. ~Awaits(reqs[s])'
        BY <3>1 DEF Awaits
      <3>. QED  BY <3>2 DEF PendingOf
    <2>3. \A p \in Slots : (p \in PendingOf(x))' <=> p \in PendingOf(x)
      BY <1>1, <2>1, <2>2, OthersGo
    <2>4. PendingOf(x)' \subseteq Slots /\ PendingOf(x) \subseteq Slots
      BY DEF PendingOf
    <2>. QED  BY <2>3, <2>4
  <1>8. \A p \in Slots : FitsOn(p) /\ RanksOn(p)
    BY <1>1, <1>5, <1>6, OthersGo
  <1>. QED  BY <1>2, <1>7, <1>8, QuietJoined

-----------------------------------------------------------------------------
(* What requests write. *)

\* A member is counted before he is one, and no longer after he was one.
LEMMA CountJoined ==
    ASSUME Shaped, WaysInv, UnionsNumbered, Joined, NEW s, Member(s),
           CountMember(s) \/ UncountMember(s)
    PROVE  Joined'
  <1>. DEFINE r == reqs[s]
              n == Stage(r)
              y == r.union
              m == IF r.op = "ExitUnion" THEN -1 ELSE 1
  <1>1. /\ Counted(y, m) /\ m \in Int
        /\ \/ r.op \in Joins /\ n = 4 /\ m = 1 /\ Stands(s, y, r.spreader, r.id, 5)
           \/ r.op = "ExitUnion" /\ n = 5 /\ m = -1 /\ Quits(s)
    <2>1. CountMember(s) => /\ r.op \in Joins /\ n = 4 /\ Counted(y, 1)
                            /\ Stands(s, y, r.spreader, r.id, 5)
      BY DoesCount, MembersCall DEF Reaches
    <2>2. UncountMember(s) => r.op = "ExitUnion" /\ n = 5 /\ Counted(y, -1) /\ Quits(s)
      BY DoesCount, MembersCall
    <2>. QED  BY <2>1, <2>2 DEF Joins
  <1>2. DocWays /\ DocsShaped
    BY MemberDocs DEF WaysInv
  <1>3. MembersStay /\ OneEntryEach'
    BY <1>1, SameMembersStay DEF Counted, Joined
  <1>4. UnionCounts(y, m)
    BY <1>1, <1>2, CountsUnion
  <1>5. UnionsOwned
    BY <1>4 DEF UnionCounts, UnionsOwned
  <1>6. s \in Slots /\ r.uid \in Users /\ Fits(r)
    BY MemberIs, ItFits
  <1>. HIDE DEF r, n, y, m
  <1>7. OthersWait(s) /\ \A p \in Slots : FitsOn(p) /\ RanksOn(p)
    <2>1. ~(r.op = "ExitUnion" /\ n = 4)
      BY <1>1 DEF Joins
    <2>2. CASE Quits(s)
      BY <1>3, <1>5, <2>1, <2>2, RequestGoes DEF r, n
    <2>3. CASE r.op \in Joins /\ n = 4 /\ Stands(s, y, r.spreader, r.id, 5)
      <3>1. /\ Sponsor(r) \in Users /\ Has(Sponsor(r), y)
            /\ ~Has(Subject(r), y)
        BY <1>6, <2>3 DEF Fits, Joins, MemberChanges, n, y
      <3>2. Suits(r, y, r.spreader, 5) /\ MayLeave(r, y, r.spreader, 5)
        BY <2>3, <3>1 DEF Suits, MayLeave, Sponsor, Joins
      <3>. QED  BY <1>3, <1>5, <2>1, <2>3, <3>2, RequestGoes DEF r, n
    <2>. QED  BY <1>1, <2>2, <2>3
  <1>8. MembersHaveUnions' /\ MembersRanked' /\ AllFit'
    BY <1>3, <1>5, <1>7, QuietRest
  <1>9. ASSUME NEW x
        PROVE  /\ Tally(x) \in Nat /\ Tally(x)' = IF x = y THEN Tally(x) + m ELSE Tally(x)
    <2>1. \A u \in Users : Has(u, x)' <=> Has(u, x)
      BY <1>3 DEF MembersStay
    <2>2. /\ Tally(x) \in Nat
          /\ Tally(x)' = Tally(x) + (IF (s \in PendingOf(x))' THEN 1 ELSE 0)
                                  - (IF s \in PendingOf(x) THEN 1 ELSE 0)
      <3>0. PICK v \in Users : v = r.uid
        BY <1>6
      <3>. DEFINE a == IF Has(v, x) THEN 1 ELSE 0
                  b == IF Has(v, x)' THEN 1 ELSE 0
                  i == IF s \in PendingOf(x) THEN 1 ELSE 0
                  j == IF (s \in PendingOf(x))' THEN 1 ELSE 0
      <3>1. Tally(x) \in Nat /\ Tally(x)' = Tally(x) + (b - a) + (j - i)
        BY <1>6, <1>7, <2>1, TallyGoes
      <3>2. a = b /\ a \in {0, 1} /\ i \in {0, 1} /\ j \in {0, 1}
        BY <2>1
      <3>. HIDE DEF a, b, i, j
      <3>3. Tally(x)' = Tally(x) + j - i
        BY <3>1, <3>2
      <3>. QED  BY <3>1, <3>3 DEF i, j
    <2>3. /\ s \in PendingOf(x) <=> x = y /\ m = -1
          /\ (s \in PendingOf(x))' <=> x = y /\ m = 1
      <3>1. CASE r.op \in Joins /\ n = 4 /\ m = 1 /\ Stands(s, y, r.spreader, r.id, 5)
        BY <3>1, GoneOn DEF AwaitsAt, Joins, r, n, y
      <3>2. CASE r.op = "ExitUnion" /\ n = 5 /\ m = -1 /\ Quits(s)
        BY <3>2, GoneOff DEF AwaitsAt, Joins, r, n, y
      <3>. QED  BY <1>1, <3>1, <3>2
    <2>4. m = 1 \/ m = -1
      BY <1>1
    <2>. QED  BY <2>2, <2>3, <2>4
  <1>10. MembersCounted'
    <2>1. ASSUME NEW x, NEW o, NEW c, UnionIs(x, o, c)'
          PROVE  Tally(x)' = c
      <3>1. PICK k \in Int : UnionIs(x, o, k) /\ c = IF x = y THEN k + m ELSE k
        BY <1>4, <2>1 DEF UnionCounts
      <3>2. Tally(x) = k
        BY <3>1 DEF Joined, MembersCounted
      <3>. QED  BY <1>9, <3>1, <3>2
    <2>. QED  BY <2>1 DEF MembersCounted
  <1>. QED  BY <1>3, <1>8, <1>10 DEF Joined

\* What fits after the step of the request.
LEMMA SuitsThen ==
    ASSUME NEW s, Member(s), NEW x, NEW sp, NEW id, NEW n \in Nat, Stands(s, x, sp, id, n),
           NEW r, r = reqs[s], Suits(r, x, sp, n)'
    PROVE  Fits(reqs[s])'
  <1>1. PICK k : k = reqs'[s]
    OBVIOUS
  <1>2. /\ k.op = r.op /\ k.uid = r.uid /\ k.other = r.other
        /\ k.union = x /\ k.spreader = sp /\ Stage(k) = n
    BY <1>1, GoneOn
  <1>3. Subject(k) = Subject(r)
    BY <1>2 DEF Subject
  <1>4. Sponsor(k) = IF r.op = "InviteJoinUnion" THEN r.uid ELSE sp
    BY <1>2 DEF Sponsor
  <1>5. Fits(k)'
    BY <1>2, <1>3, <1>4 DEF Fits, Suits
  <1>. QED  BY <1>1, <1>5 DEF Fits, Stage, Subject, Sponsor, Has, IsUnion, Owns

\* A union comes to be, with its owner counted.
LEMMA InsertJoined ==
    ASSUME Shaped, WaysInv, UnionsNumbered, Apart, Joined, NEW s, Member(s), InsertUnion(s)
    PROVE  Joined'
  <1>1. PICK r : r = reqs[s]
    OBVIOUS
  <1>. DEFINE v == r.uid
              y == r.union
  <1>2. /\ r.op = "CreateUnion" /\ Stage(r) = 5 /\ db'.users = db.users
        /\ db'.counters = db.counters /\ db'.unions = Append(db.unions, NewUnion(y, v))
        /\ Stands(s, y, r.spreader, r.id, 6)
    BY <1>1, DoesInsert, MembersCall DEF Reaches
  <1>3. s \in Slots /\ s \in Busy /\ v \in Users /\ y \in Nat /\ Involved(s) /\ OthersWait(s)
    BY <1>1, <1>2, MemberIs, ItFits DEF Stands
  <1>4. UnionMade(y, v)
    BY <1>2, <1>3, InsertMakes, MemberDocs DEF WaysInv
  <1>5. MembersStay /\ OneEntryEach'
    BY <1>2, SameMembersStay DEF Joined
  <1>6. ~IsUnion(y)
    BY <1>1, <1>2, <1>3 DEF UnionsNumbered, Creates, IsUnion
  <1>. HIDE DEF v, y
  <1>7. \A u \in Users : ~Has(u, y) /\ ~Has(u, y)' /\ \A w : ~Below(u, y, w)'
    <2>1. \A u \in Users : \A w : ~Has(u, y) /\ ~Below(u, y, w)
      BY <1>6 DEF Joined, MembersHaveUnions, Has, Below, HasRow, RowBelow
    <2>. QED  BY <1>5, <2>1 DEF MembersStay
  <1>8. ASSUME NEW p \in Slots, Involved(p), p # s
        PROVE  p \notin PendingOf(y) /\ ~(Exits(p, y) /\ Stage(reqs[p]) >= 2)
    <2>1. PICK k : k = reqs[p]
      OBVIOUS
    <2>2. /\ Fits(k) /\ Stage(k) \in Nat
          /\ k.op \in {"CreateUnion", "JoinUnion", "InviteJoinUnion", "ExitUnion"}
      BY <1>8, <2>1, StageIs DEF Joined, AllFit
    <2>3. ASSUME k.union = y
          PROVE  ~Awaits(k) /\ ~(k.op = "ExitUnion" /\ Stage(k) >= 2)
      <3>1. \A u \in Users : ~Has(u, y)
        BY <1>7
      <3>2. \A o : ~Owns(o, y)
        BY <1>6 DEF Owns, IsUnion
      <3>. QED  BY <1>6, <2>2, <2>3, <3>1, <3>2 DEF Fits, Awaits, Joins
    <2>. QED  BY <2>1, <2>3 DEF PendingOf, Exits
  <1>9. Restrained(s)
    BY <1>4, <1>5, <1>6 DEF Restrained, UnionMade, MembersStay
  <1>10. /\ \A p \in Slots \ {s} : Involved(p)' => Fits(reqs[p])'
         /\ MembersHaveUnions'
    BY <1>3, <1>9, OthersFit
  <1>11. Fits(reqs[s])'
    <2>1. Owns(v, y)' /\ \A u \in Users : ~Has(u, y)'
      BY <1>4, <1>7 DEF UnionMade
    <2>2. Suits(r, y, r.spreader, 6)'
      BY <1>2, <2>1 DEF Suits, Joins, MemberChanges, v
    <2>. QED  BY <1>1, <1>2, <2>2, SuitsThen
  <1>12. AllFit'
    BY <1>10, <1>11 DEF AllFit
  <1>13. ASSUME NEW x
         PROVE  /\ (s \in PendingOf(x))' <=> x = y
                /\ s \notin PendingOf(x)
                /\ ~Exits(s, x) /\ ~Exits(s, x)'
    BY <1>1, <1>2, GoneOn DEF AwaitsAt, Joins, y
  <1>14. ASSUME NEW x
         PROVE  Tally(x) \in Nat /\ Tally(x)' = IF x = y THEN Tally(x) + 1 ELSE Tally(x)
    <2>1. \A u \in Users : Has(u, x)' <=> Has(u, x)
      BY <1>5 DEF MembersStay
    <2>. DEFINE a == IF Has(v, x) THEN 1 ELSE 0
                b == IF Has(v, x)' THEN 1 ELSE 0
                i == IF s \in PendingOf(x) THEN 1 ELSE 0
                j == IF (s \in PendingOf(x))' THEN 1 ELSE 0
    <2>2. Tally(x) \in Nat /\ Tally(x)' = Tally(x) + (b - a) + (j - i)
      BY <1>3, <2>1, TallyGoes
    <2>3. a = b /\ a \in {0, 1} /\ i = 0 /\ j = IF x = y THEN 1 ELSE 0
      BY <1>3, <1>13, <2>1
    <2>. HIDE DEF a, b, i, j
    <2>. QED  BY <2>2, <2>3
  <1>15. Tally(y) = 0
    <2>1. MembersOf(y) = {}
      BY <1>7 DEF MembersOf
    <2>2. PendingOf(y) = {}
      <3>1. \A p \in Slots : p \notin PendingOf(y)
        BY <1>8, <1>13 DEF PendingOf, Awaits, Involved, MemberOps, Joins
      <3>. QED  BY <3>1 DEF PendingOf
    <2>. QED  BY <2>1, <2>2, FS_EmptySet DEF Tally
  <1>16. MembersCounted'
    <2>1. ASSUME NEW x, NEW o, NEW c, UnionIs(x, o, c)'
          PROVE  Tally(x)' = c
      <3>1. UnionIs(x, o, c) \/ (x = y /\ c = 1)
        <4>1. UnionIs(x, o, c)' <=> UnionIs(x, o, c) \/ (x = y /\ o = v /\ c = 1)
          BY <1>4 DEF UnionMade
        <4>. QED  BY <2>1, <4>1
      <3>2. CASE UnionIs(x, o, c)
        <4>1. x # y
          BY <1>6, <3>2 DEF UnionIs, IsUnion
        <4>. QED  BY <1>14, <3>2, <4>1 DEF Joined, MembersCounted
      <3>. QED  BY <1>14, <1>15, <3>1, <3>2
    <2>. QED  BY <2>1 DEF MembersCounted
  <1>17. MembersRanked'
    <2>1. ASSUME NEW x, NEW o, Owns(o, x)'
          PROVE  \E f : Ranks(f, x, o)'
      <3>1. CASE Owns(o, x)
        <4>1. PICK f : Ranks(f, x, o)
          BY <3>1 DEF Joined, MembersRanked
        <4>2. \A p \in Slots : RanksOn(p)
          BY <1>3, <1>13, OthersGo DEF RanksOn, LeftBy
        <4>3. Ranks(f, x, o)'
          BY <1>5, <3>1, <4>1, <4>2, RanksStay
        <4>. QED  BY <4>3
      <3>2. CASE x = y
        <4>. DEFINE f == [u \in Users |-> 0]
        <4>1. f \in [Users -> Nat]
          OBVIOUS
        <4>2. \A p \in Slots : ~(Exits(p, x) /\ Stage(reqs[p]) >= 3)'
          <5>1. ASSUME NEW p \in Slots, p # s, Exits(p, x)', Stage(reqs'[p]) >= 3
                PROVE  FALSE
            <6>1. reqs'[p] = reqs[p] /\ Exits(p, x) /\ Involved(p)
              BY <1>3, <5>1 DEF OthersWait, Exits, Involved, Busy, MemberOps
            <6>2. Stage(reqs[p]) \in Nat /\ Stage(reqs[p]) >= 3
              BY <5>1, <6>1, StageIs
            <6>. QED  BY <1>8, <3>2, <5>1, <6>1, <6>2
          <5>2. \A p \in Slots : Stage(reqs[p])' = Stage(reqs'[p])
            BY DEF Stage, Place
          <5>. QED  BY <1>13, <5>1, <5>2
        <4>. HIDE DEF f
        <4>3. Ranks(f, x, o)'
          BY <1>7, <3>2, <4>1, <4>2 DEF Ranks
        <4>. QED  BY <4>3
      <3>3. Owns(o, x) \/ x = y
        BY <1>4, <2>1 DEF UnionMade
      <3>. QED  BY <3>1, <3>2, <3>3
    <2>. QED  BY <2>1 DEF MembersRanked
  <1>. QED  BY <1>5, <1>10, <1>12, <1>16, <1>17 DEF Joined

\* A member who was counted gets his entry.
LEMMA EntryJoined ==
    ASSUME Shaped, WaysInv, UnionsNumbered, Apart, Joined, NEW s, Member(s),
           AddToSet(s) \/ Push(s)
    PROVE  Joined'
  <1>1. PICK r : r = reqs[s]
    OBVIOUS
  <1>2. PICK v, y, t : /\ v \in Users /\ v = Subject(r) /\ y = r.union
                       /\ t = IF r.op = "CreateUnion" THEN NoUser ELSE Sponsor(r)
    BY <1>1, MemberIs DEF Subject
  <1>3. /\ \/ r.op = "CreateUnion" /\ Stage(r) = 8
           \/ r.op \in Joins /\ Stage(r) = 7
        /\ Quits(s) /\ AddedTo(r) = v
        /\ ListSet(v, Append(Info(v), Added(r)))
        /\ Added(r).union = y /\ Added(r).spreader = t
    <2>1. /\ \/ r.op = "CreateUnion" /\ Stage(r) = 8
             \/ r.op \in Joins /\ Stage(r) = 7
          /\ Quits(s) /\ ListSet(AddedTo(r), Append(Info(AddedTo(r)), Added(r)))
      BY <1>1, PushAdds
    <2>2. AddedTo(r) = v
      BY <1>2 DEF AddedTo, Subject
    <2>3. Added(r).union = y
      BY <1>2, AddedIs
    <2>4. Added(r).spreader = t
      BY <1>2, <2>1 DEF Added, Entry, Sponsor, Joins
    <2>. QED  BY <2>1, <2>2, <2>3, <2>4
  <1>4. s \in Slots /\ s \in Busy /\ Involved(s) /\ OthersWait(s) /\ Fits(r)
    BY <1>1, <1>3, MemberIs, ItFits DEF Quits
  <1>5. /\ r.op = "CreateUnion" => Owns(v, y) /\ \A u \in Users : ~Has(u, y)
        /\ r.op \in Joins => t \in Users /\ Has(t, y)
        /\ ~Has(v, y)
    BY <1>2, <1>3, <1>4 DEF Fits, Joins, MemberChanges, Subject
  <1>6. MemberJoins(v, y, t) /\ OneEntryEach' /\ UnionsStay
    <2>1. PICK e : e = Added(r)
      OBVIOUS
    <2>2. DOMAIN e = EntryFields /\ e.union = y /\ e.invite = r.id /\ e.spreader = t
      BY <1>3, <2>1, AddedIs
    <2>3. r.union \in Nat /\ r.id \in Nat
      BY <1>1, MemberIs
    <2>4. DocWays /\ OneEntryEach /\ ListSet(v, Append(Info(v), e))
      BY <1>3, <2>1 DEF WaysInv, Joined
    <2>. QED  BY <1>2, <1>5, <2>2, <2>3, <2>4, PushJoins
  <1>7. /\ \A u \in Users : \A x : /\ Has(u, x)' <=> Has(u, x) \/ (u = v /\ x = y)
                                   /\ \A w : Below(u, x, w)'
                                                <=> Below(u, x, w) \/ (u = v /\ x = y /\ w = t)
        /\ \A x : /\ IsUnion(x)' <=> IsUnion(x)
                  /\ \A o : Owns(o, x)' <=> Owns(o, x)
                  /\ \A o, n : UnionIs(x, o, n)' <=> UnionIs(x, o, n)
    BY <1>6 DEF MemberJoins, UnionsStay
  <1>8. Alters(r)
    BY <1>3 DEF Alters
  <1>9. Restrained(s)
    BY <1>1, <1>2, <1>7, <1>8 DEF Restrained
  <1>10. /\ \A p \in Slots \ {s} : Involved(p)' => Fits(reqs[p])'
         /\ MembersHaveUnions'
    BY <1>4, <1>9, OthersFit
  <1>11. AllFit'
    BY <1>3, <1>10, GoneOff DEF AllFit
  <1>12. ASSUME NEW x
         PROVE  /\ ~(s \in PendingOf(x))' /\ ~Exits(s, x)' /\ ~Exits(s, x)
                /\ s \in PendingOf(x) <=> x = y
    <2>1. AwaitsAt(r.op, Stage(r)) /\ r.op # "ExitUnion"
      BY <1>3 DEF AwaitsAt, Joins
    <2>2. /\ ~(s \in PendingOf(x))' /\ ~Exits(s, x)'
          /\ s \in PendingOf(x) <=> x = r.union /\ AwaitsAt(r.op, Stage(r))
      BY <1>1, <1>3, GoneOff
    <2>. QED  BY <1>1, <1>2, <2>1, <2>2 DEF Exits
  <1>13. MembersCounted'
    <2>1. ASSUME NEW x
          PROVE  Tally(x)' = Tally(x)
      <3>. DEFINE a == IF Has(v, x) THEN 1 ELSE 0
                  b == IF Has(v, x)' THEN 1 ELSE 0
                  i == IF s \in PendingOf(x) THEN 1 ELSE 0
                  j == IF (s \in PendingOf(x))' THEN 1 ELSE 0
      <3>1. Tally(x) \in Nat /\ Tally(x)' = Tally(x) + (b - a) + (j - i)
        BY <1>2, <1>4, <1>7, TallyGoes
      <3>2. (x = y /\ a = 0 /\ b = 1 /\ i = 1 /\ j = 0) \/ (a = b /\ a \in Nat /\ i = 0 /\ j = 0)
        BY <1>2, <1>5, <1>7, <1>12
      <3>. HIDE DEF a, b, i, j
      <3>. QED  BY <3>1, <3>2
    <2>2. ASSUME NEW x, NEW o, NEW c, UnionIs(x, o, c)'
          PROVE  Tally(x)' = c
      BY <1>7, <2>1, <2>2 DEF Joined, MembersCounted
    <2>. QED  BY <2>2 DEF MembersCounted
  <1>14. ASSUME NEW p \in Slots, p # s
         PROVE  /\ \A x : Exits(p, x)' <=> Exits(p, x)
                /\ \A x, w : LeftBy(p, x, w)' <=> LeftBy(p, x, w)
                /\ Stage(reqs[p])' = Stage(reqs[p]) /\ reqs'[p] = reqs[p]
    <2>1. reqs'[p] = reqs[p] /\ (p \in Busy' <=> p \in Busy)
      BY <1>4, <1>14 DEF OthersWait, Busy
    <2>. QED  BY <2>1 DEF Exits, LeftBy, Stage, Place
  <1>15. ASSUME NEW p \in Slots, p # s, NEW x, Exits(p, x), r.op \in Joins
         PROVE  reqs[p].uid # v /\ reqs[p].spreader # v
    <2>1. Moving(p) /\ Moving(s)
      BY <1>1, <1>4, <1>15 DEF Exits, Moving, MemberChanges
    <2>2. Subject(reqs[p]) # Subject(reqs[s]) /\ Subject(reqs[s]) # Sponsor(reqs[p])
      BY <1>4, <1>15, <2>1 DEF Apart
    <2>. QED  BY <1>1, <1>2, <1>15, <2>2 DEF Exits, Subject, Sponsor
  <1>16. MembersRanked'
    <2>1. ASSUME NEW x, NEW o, Owns(o, x)'
          PROVE  \E f : Ranks(f, x, o)'
      <3>1. PICK g : Ranks(g, x, o)
        BY <1>7, <2>1 DEF Joined, MembersRanked
      <3>2. CASE x # y \/ r.op = "CreateUnion"
        <4>1. ASSUME NEW u \in Users \ {o}, NEW w, Below(u, x, w)'
              PROVE  Below(u, x, w)
          <5>1. CASE x # y
            BY <1>7, <4>1, <5>1
          <5>2. CASE r.op = "CreateUnion" /\ x = y
            <6>1. o = v
              BY <1>5, <1>7, <2>1, <5>2, OneOwner
            <6>. QED  BY <1>7, <4>1, <5>2, <6>1
          <5>. QED  BY <3>2, <5>1, <5>2
        <4>2. ASSUME NEW w \in Users, Has(w, x) \/ \E p \in Slots : LeftBy(p, x, w)
              PROVE  Has(w, x)' \/ \E p \in Slots : LeftBy(p, x, w)'
          BY <1>7, <1>12, <1>14, <4>2 DEF LeftBy
        <4>3. ASSUME NEW p \in Slots, Exits(p, x)', Stage(reqs[p])' >= 3
              PROVE  /\ Exits(p, x) /\ Stage(reqs[p]) >= 3
                     /\ reqs'[p] = reqs[p]
          BY <1>12, <1>14, <4>3
        <4>4. Ranks(g, x, o)'
          BY <3>1, <4>1, <4>2, <4>3 DEF Ranks
        <4>. QED  BY <4>4
      <3>3. CASE x = y /\ r.op \in Joins
        <4>0. /\ g \in [Users -> Nat]
              /\ \A u \in Users \ {o} : \A w : Below(u, x, w) =>
                    w \in Users /\ g[w] < g[u] /\ (Has(w, x) \/ \E p \in Slots : LeftBy(p, x, w))
              /\ \A p \in Slots : Exits(p, x) /\ Stage(reqs[p]) >= 3 =>
                    reqs[p].spreader \in Users /\ g[reqs[p].spreader] < g[reqs[p].uid]
          BY <3>1 DEF Ranks
        <4>. DEFINE f == [g EXCEPT ![v] = g[t] + 1]
        <4>1. t \in Users /\ Has(t, x) /\ t # v /\ \A w : ~Below(v, x, w)
          BY <1>5, <3>3 DEF Has, Below, HasRow, RowBelow
        <4>2. /\ f \in [Users -> Nat] /\ f[v] = g[t] + 1
              /\ \A u \in Users : u # v => f[u] = g[u]
          BY <1>2, <4>0, <4>1
        <4>. HIDE DEF f
        <4>3. ASSUME NEW u \in Users \ {o}, NEW w, Below(u, x, w)'
              PROVE  /\ w \in Users /\ f[w] < f[u]
                     /\ Has(w, x)' \/ \E p \in Slots : LeftBy(p, x, w)'
          <5>1. CASE u = v
            <6>1. w = t
              BY <1>7, <4>1, <4>3, <5>1
            <6>2. f[w] = g[t] /\ g[t] \in Nat /\ g[t] < g[t] + 1
              BY <4>0, <4>1, <4>2, <6>1
            <6>. QED  BY <1>7, <4>1, <4>2, <5>1, <6>1, <6>2
          <5>2. CASE u # v
            <6>1. Below(u, x, w)
              BY <1>7, <4>3, <5>2
            <6>2. w \in Users /\ g[w] < g[u] /\ (Has(w, x) \/ \E p \in Slots : LeftBy(p, x, w))
              BY <4>0, <6>1
            <6>3. ASSUME NEW p \in Slots, LeftBy(p, x, w)
                  PROVE  w # v /\ LeftBy(p, x, w)'
              <7>1. p # s /\ Exits(p, x) /\ reqs[p].uid = w
                BY <1>12, <6>3 DEF LeftBy
              <7>. QED  BY <1>14, <1>15, <3>3, <6>3, <7>1
            <6>4. w # v
              BY <1>5, <3>3, <6>2, <6>3
            <6>. QED  BY <1>7, <4>2, <5>2, <6>2, <6>3, <6>4
          <5>. QED  BY <5>1, <5>2
        <4>4. ASSUME NEW p \in Slots, Exits(p, x)', Stage(reqs[p])' >= 3
              PROVE  reqs'[p].spreader \in Users /\ f[reqs'[p].spreader] < f[reqs'[p].uid]
          <5>1. p # s
            BY <1>12, <4>4
          <5>2. Exits(p, x) /\ Stage(reqs[p]) >= 3 /\ reqs'[p] = reqs[p]
            BY <1>14, <4>4, <5>1
          <5>3. reqs[p].uid # v /\ reqs[p].spreader # v
            BY <1>15, <3>3, <5>1, <5>2
          <5>4. reqs[p].spreader \in Users /\ g[reqs[p].spreader] < g[reqs[p].uid]
            BY <4>0, <5>2
          <5>5. reqs[p].uid \in Users
            BY <5>2 DEF Exits, Shaped, Formed
          <5>. QED  BY <4>2, <5>2, <5>3, <5>4, <5>5
        <4>5. Ranks(f, x, o)'
          BY <4>2, <4>3, <4>4 DEF Ranks
        <4>. QED  BY <4>5
      <3>. QED  BY <1>3, <3>2, <3>3
    <2>. QED  BY <2>1 DEF MembersRanked
  <1>. QED  BY <1>6, <1>10, <1>11, <1>13, <1>16 DEF Joined

\* One who leaves has no entry, and is counted until those below him moved.
LEMMA PullJoined ==
    ASSUME Shaped, WaysInv, UnionsNumbered, Apart, Joined, NEW s, Member(s), Pull(s)
    PROVE  Joined'
  <1>1. PICK r : r = reqs[s]
    OBVIOUS
  <1>2. PICK v, y, t : v \in Users /\ v = r.uid /\ y = r.union /\ t = r.spreader
    BY <1>1, MemberIs
  <1>3. /\ r.op = "ExitUnion" /\ Stage(r) = 3
        /\ ListSet(v, OtherEntries(Info(v), y))
        /\ Stands(s, y, t, r.id, 4)
    BY <1>1, <1>2, DoesPull, MembersCall DEF Reaches
  <1>4. s \in Slots /\ s \in Busy /\ Involved(s) /\ OthersWait(s) /\ Fits(r)
    BY <1>1, <1>3, MemberIs, ItFits DEF Stands
  <1>5. MemberLeaves(v, y) /\ OneEntryEach' /\ UnionsStay
    BY <1>2, <1>3, PullLeaves DEF WaysInv, Joined
  <1>6. /\ \A u \in Users : \A x : /\ Has(u, x)' <=> Has(u, x) /\ ~(u = v /\ x = y)
                                   /\ \A w : Below(u, x, w)'
                                                <=> Below(u, x, w) /\ ~(u = v /\ x = y)
        /\ \A x : /\ IsUnion(x)' <=> IsUnion(x)
                  /\ \A o : Owns(o, x)' <=> Owns(o, x)
                  /\ \A o, n : UnionIs(x, o, n)' <=> UnionIs(x, o, n)
    BY <1>5 DEF MemberLeaves, UnionsStay
  <1>7. /\ t \in Users /\ Has(t, y) /\ Has(v, y) /\ IsUnion(y) /\ ~Owns(v, y)
    BY <1>2, <1>3, <1>4 DEF Fits, Sponsor
  <1>8. Restrained(s)
    <2>1. Alters(r) /\ v = Subject(r)
      BY <1>2, <1>3 DEF Alters, Subject
    <2>. QED  BY <1>1, <1>2, <1>6, <2>1 DEF Restrained
  <1>9. /\ \A p \in Slots \ {s} : Involved(p)' => Fits(reqs[p])'
        /\ MembersHaveUnions'
    BY <1>4, <1>8, OthersFit
  <1>10. /\ Exits(s, y) /\ Exits(s, y)' /\ Stage(reqs'[s]) = 4 /\ Stage(reqs[s])' = 4
         /\ reqs'[s].uid = v /\ reqs'[s].spreader = t
         /\ \A x : /\ (s \in PendingOf(x))' <=> x = y
                   /\ s \notin PendingOf(x)
                   /\ Exits(s, x)' <=> x = y
                   /\ Exits(s, x) <=> x = y
    BY <1>1, <1>2, <1>3, GoneOn DEF AwaitsAt, Joins
  <1>11. t # v
    <2>1. PICK o : Owns(o, y)
      BY <1>7 DEF IsUnion, Owns
    <2>2. PICK f : Ranks(f, y, o)
      BY <2>1 DEF Joined, MembersRanked
    <2>3. f \in [Users -> Nat] /\ f[t] < f[v]
      BY <1>1, <1>2, <1>3, <1>4, <1>10, <2>2 DEF Ranks
    <2>. QED  BY <1>2, <2>3
  <1>12. AllFit'
    <2>1. /\ Has(t, y)' /\ ~Has(v, y)' /\ IsUnion(y)' /\ ~Owns(v, y)'
      BY <1>2, <1>6, <1>7, <1>11
    <2>2. Suits(r, y, t, 4)'
      BY <1>2, <1>3, <1>7, <2>1 DEF Suits, Subject, Joins, MemberChanges
    <2>3. Fits(reqs[s])'
      BY <1>1, <1>3, <2>2, SuitsThen
    <2>. QED  BY <1>9, <2>3 DEF AllFit
  <1>13. MembersCounted'
    <2>1. ASSUME NEW x
          PROVE  Tally(x)' = Tally(x)
      <3>. DEFINE a == IF Has(v, x) THEN 1 ELSE 0
                  b == IF Has(v, x)' THEN 1 ELSE 0
                  i == IF s \in PendingOf(x) THEN 1 ELSE 0
                  j == IF (s \in PendingOf(x))' THEN 1 ELSE 0
      <3>1. Tally(x) \in Nat /\ Tally(x)' = Tally(x) + (b - a) + (j - i)
        BY <1>2, <1>4, <1>6, TallyGoes
      <3>2. (x = y /\ a = 1 /\ b = 0 /\ i = 0 /\ j = 1) \/ (a = b /\ a \in Nat /\ i = 0 /\ j = 0)
        BY <1>2, <1>6, <1>7, <1>10
      <3>. HIDE DEF a, b, i, j
      <3>. QED  BY <3>1, <3>2
    <2>2. ASSUME NEW x, NEW o, NEW c, UnionIs(x, o, c)'
          PROVE  Tally(x)' = c
      BY <1>6, <2>1, <2>2 DEF Joined, MembersCounted
    <2>. QED  BY <2>2 DEF MembersCounted
  <1>14. ASSUME NEW p \in Slots, p # s
         PROVE  /\ \A x : Exits(p, x)' <=> Exits(p, x)
                /\ \A x, w : LeftBy(p, x, w)' <=> LeftBy(p, x, w)
                /\ Stage(reqs[p])' = Stage(reqs[p]) /\ reqs'[p] = reqs[p]
    <2>1. reqs'[p] = reqs[p] /\ (p \in Busy' <=> p \in Busy)
      BY <1>4, <1>14 DEF OthersWait, Busy
    <2>. QED  BY <2>1 DEF Exits, LeftBy, Stage, Place
  <1>15. LeftBy(s, y, v)' /\ \A x, w : ~LeftBy(s, x, w)
    BY <1>1, <1>3, <1>10 DEF LeftBy
  <1>16. MembersRanked'
    <2>1. ASSUME NEW x, NEW o, Owns(o, x)'
          PROVE  \E f : Ranks(f, x, o)'
      <3>1. PICK f : Ranks(f, x, o)
        BY <1>6, <2>1 DEF Joined, MembersRanked
      <3>2. \A u \in Users \ {o} : \A w : Below(u, x, w)' => Below(u, x, w)
        BY <1>6
      <3>3. ASSUME NEW w \in Users, Has(w, x) \/ \E p \in Slots : LeftBy(p, x, w)
            PROVE  Has(w, x)' \/ \E p \in Slots : LeftBy(p, x, w)'
        BY <1>4, <1>6, <1>14, <1>15, <3>3
      <3>4. ASSUME NEW p \in Slots, Exits(p, x)', Stage(reqs[p])' >= 3
            PROVE  /\ Exits(p, x) /\ Stage(reqs[p]) >= 3
                   /\ reqs'[p].uid = reqs[p].uid /\ reqs'[p].spreader = reqs[p].spreader
        <4>1. CASE p = s
          BY <1>1, <1>2, <1>3, <1>10, <3>4, <4>1
        <4>2. CASE p # s
          BY <1>14, <3>4, <4>2
        <4>. QED  BY <4>1, <4>2
      <3>5. Ranks(f, x, o)'
        BY <3>1, <3>2, <3>3, <3>4 DEF Ranks
      <3>. QED  BY <3>5
    <2>. QED  BY <2>1 DEF MembersRanked
  <1>. QED  BY <1>5, <1>9, <1>12, <1>13, <1>16 DEF Joined

\* Those below one who left come below the one he was below.
LEMMA DownlinesJoined ==
    ASSUME Shaped, WaysInv, UnionsNumbered, Apart, Joined, NEW s, Member(s), Downlines(s)
    PROVE  Joined'
  <1>1. PICK r : r = reqs[s]
    OBVIOUS
  <1>2. PICK v, y, t : v \in Users /\ v = r.uid /\ y = r.union /\ t = r.spreader
    BY <1>1, MemberIs
  <1>0. DocWays /\ \A u \in Users : Rows(Info(u))
    BY DEF WaysInv, DocWays
  <1>3. /\ r.op = "ExitUnion" /\ Stage(r) = 4 /\ db'.unions = db.unions
        /\ \A u \in Users : Lowers(Info(u), db'.users[u].info, y, v, t)
        /\ Stands(s, y, t, r.id, 5)
    BY <1>0, <1>1, <1>2, DoesDownlines, MembersCall DEF Reaches
  <1>4. s \in Slots /\ s \in Busy /\ Involved(s) /\ OthersWait(s) /\ Fits(r)
    BY <1>1, <1>3, MemberIs, ItFits DEF Stands
  <1>5. MembersMove(y, v, t) /\ OneEntryEach' /\ UnionsStay
    BY <1>0, <1>3, LowersMove DEF Joined
  <1>6. /\ \A u \in Users : \A x : /\ Has(u, x)' <=> Has(u, x)
                                   /\ \A w : Below(u, x, w)'
                                                <=> IF x = y /\ Below(u, y, v) THEN w = t
                                                    ELSE Below(u, x, w)
        /\ \A x : /\ IsUnion(x)' <=> IsUnion(x)
                  /\ \A o : Owns(o, x)' <=> Owns(o, x)
                  /\ \A o, n : UnionIs(x, o, n)' <=> UnionIs(x, o, n)
    BY <1>5 DEF MembersMove, UnionsStay
  <1>7. /\ t \in Users /\ Has(t, y) /\ ~Has(v, y) /\ IsUnion(y) /\ ~Owns(v, y)
    BY <1>2, <1>3, <1>4 DEF Fits, Sponsor, Subject, MemberChanges
  <1>8. Restrained(s)
    BY <1>6 DEF Restrained
  <1>9. /\ \A p \in Slots \ {s} : Involved(p)' => Fits(reqs[p])'
        /\ MembersHaveUnions'
    BY <1>4, <1>8, OthersFit
  <1>10. /\ Exits(s, y) /\ Exits(s, y)' /\ Stage(reqs'[s]) = 5 /\ Stage(reqs[s])' = 5
         /\ reqs'[s].uid = v /\ reqs'[s].spreader = t
         /\ \A x : /\ (s \in PendingOf(x))' <=> x = y
                   /\ s \in PendingOf(x) <=> x = y
                   /\ Exits(s, x)' <=> x = y
                   /\ Exits(s, x) <=> x = y
    BY <1>1, <1>2, <1>3, GoneOn DEF AwaitsAt, Joins
  <1>11. AllFit'
    <2>1. /\ Has(t, y)' /\ ~Has(v, y)' /\ IsUnion(y)' /\ ~Owns(v, y)'
      BY <1>2, <1>6, <1>7
    <2>2. Suits(r, y, t, 5)'
      BY <1>2, <1>3, <1>7, <2>1 DEF Suits, Subject, Joins, MemberChanges
    <2>3. Fits(reqs[s])'
      BY <1>1, <1>3, <2>2, SuitsThen
    <2>. QED  BY <1>9, <2>3 DEF AllFit
  <1>12. MembersCounted'
    <2>1. ASSUME NEW x
          PROVE  Tally(x)' = Tally(x)
      <3>. DEFINE a == IF Has(v, x) THEN 1 ELSE 0
                  b == IF Has(v, x)' THEN 1 ELSE 0
                  i == IF s \in PendingOf(x) THEN 1 ELSE 0
                  j == IF (s \in PendingOf(x))' THEN 1 ELSE 0
      <3>1. Tally(x) \in Nat /\ Tally(x)' = Tally(x) + (b - a) + (j - i)
        BY <1>2, <1>4, <1>6, TallyGoes
      <3>2. a = b /\ i = j /\ a \in Nat /\ i \in Nat
        BY <1>2, <1>6, <1>10
      <3>. HIDE DEF a, b, i, j
      <3>. QED  BY <3>1, <3>2
    <2>2. ASSUME NEW x, NEW o, NEW c, UnionIs(x, o, c)'
          PROVE  Tally(x)' = c
      BY <1>6, <2>1, <2>2 DEF Joined, MembersCounted
    <2>. QED  BY <2>2 DEF MembersCounted
  <1>13. ASSUME NEW p \in Slots, p # s
         PROVE  /\ \A x : Exits(p, x)' <=> Exits(p, x)
                /\ \A x, w : LeftBy(p, x, w)' <=> LeftBy(p, x, w)
                /\ Stage(reqs[p])' = Stage(reqs[p]) /\ reqs'[p] = reqs[p]
    <2>1. reqs'[p] = reqs[p] /\ (p \in Busy' <=> p \in Busy)
      BY <1>4, <1>13 DEF OthersWait, Busy
    <2>. QED  BY <2>1 DEF Exits, LeftBy, Stage, Place
  <1>14. \A x, w : LeftBy(s, x, w) => x = y /\ w = v
    BY <1>1, <1>2 DEF LeftBy, Exits
  <1>15. MembersRanked'
    <2>1. ASSUME NEW x, NEW o, Owns(o, x)'
          PROVE  \E f : Ranks(f, x, o)'
      <3>1. PICK f : Ranks(f, x, o)
        BY <1>6, <2>1 DEF Joined, MembersRanked
      <3>2. /\ f \in [Users -> Nat]
            /\ \A u \in Users \ {o} : \A w : Below(u, x, w) =>
                  w \in Users /\ f[w] < f[u] /\ (Has(w, x) \/ \E p \in Slots : LeftBy(p, x, w))
            /\ \A p \in Slots : Exits(p, x) /\ Stage(reqs[p]) >= 3 =>
                  reqs[p].spreader \in Users /\ f[reqs[p].spreader] < f[reqs[p].uid]
        BY <3>1 DEF Ranks
      <3>3. ASSUME NEW u \in Users \ {o}, NEW w, Below(u, x, w)'
            PROVE  /\ w \in Users /\ f[w] < f[u]
                   /\ Has(w, x)' \/ \E p \in Slots : LeftBy(p, x, w)'
        <4>1. CASE x = y /\ Below(u, y, v)
          <5>1. w = t
            BY <1>6, <3>3, <4>1
          <5>2. f[v] < f[u]
            BY <3>2, <4>1
          <5>3. f[t] < f[v]
            BY <1>1, <1>2, <1>3, <1>4, <1>10, <3>2, <4>1
          <5>4. f[t] \in Nat /\ f[v] \in Nat /\ f[u] \in Nat
            BY <1>2, <1>7, <3>2
          <5>. QED  BY <1>6, <1>7, <4>1, <5>1, <5>2, <5>3, <5>4
        <4>2. CASE ~(x = y /\ Below(u, y, v))
          <5>1. Below(u, x, w)
            BY <1>6, <3>3, <4>2
          <5>2. w \in Users /\ f[w] < f[u] /\ (Has(w, x) \/ \E p \in Slots : LeftBy(p, x, w))
            BY <3>2, <5>1
          <5>3. ~(x = y /\ w = v)
            BY <4>2, <5>1
          <5>. QED  BY <1>6, <1>13, <1>14, <5>2, <5>3
        <4>. QED  BY <4>1, <4>2
      <3>4. ASSUME NEW p \in Slots, Exits(p, x)', Stage(reqs[p])' >= 3
            PROVE  /\ Exits(p, x) /\ Stage(reqs[p]) >= 3
                   /\ reqs'[p].uid = reqs[p].uid /\ reqs'[p].spreader = reqs[p].spreader
        <4>1. CASE p = s
          BY <1>1, <1>2, <1>3, <1>10, <3>4, <4>1
        <4>2. CASE p # s
          BY <1>13, <3>4, <4>2
        <4>. QED  BY <4>1, <4>2
      <3>5. Ranks(f, x, o)'
        BY <3>2, <3>3, <3>4 DEF Ranks
      <3>. QED  BY <3>5
    <2>. QED  BY <2>1 DEF MembersRanked
  <1>. QED  BY <1>5, <1>9, <1>11, <1>12, <1>15 DEF Joined


-----------------------------------------------------------------------------
(* Members stay joined. *)

\* A user has one entry at most of each union, and has it of a union there is;
\* a union counts those who have its entry; and each of them but the owner is
\* below another, in no circle.
DocsJoined(d) ==
    /\ \A u \in Users :
          /\ Singles(d.users[u].info)
          /\ \A j \in DOMAIN d.users[u].info :
                \E k \in DOMAIN d.unions : d.unions[k].id = d.users[u].info[j].union
    /\ \A k \in DOMAIN d.unions :
          LET x == d.unions[k].id
          IN /\ Cardinality({u \in Users : HasRow(d.users[u].info, x)}) = d.unions[k].curMember
             /\ \E f \in [Users -> Nat] :
                   \A u \in Users \ {d.unions[k].owner} : \A j \in DOMAIN d.users[u].info :
                      d.users[u].info[j].union = x =>
                         LET w == d.users[u].info[j].spreader
                         IN w \in Users /\ f[w] < f[u] /\ HasRow(d.users[w].info, x)

\* The documents to start from are joined.
StartsJoined == \A i \in DOMAIN Starts : DocsJoined(Starts[i].docs)

\* At the start nothing is under way.
LEMMA JoinedAtStart ==
    ASSUME StartsJoined, Init
    PROVE  Joined
  <1>1. Busy = {} /\ start \in DOMAIN Starts
    BY DEF Init, Busy
  <1>2. PICK d : d = Starts[start].docs /\ db = d
    BY DEF Init
  <1>3. DocsJoined(d)
    BY <1>1, <1>2 DEF StartsJoined
  <1>4. OneEntryEach
    <2>1. \A u \in Users : Singles(d.users[u].info)
      BY <1>3 DEF DocsJoined
    <2>2. \A u \in Users : Info(u) = d.users[u].info
      BY <1>2 DEF Info
    <2>3. \A u \in Users : Singles(Info(u))
      <3>. TAKE u \in Users
      <3>1. Singles(d.users[u].info) /\ Info(u) = d.users[u].info
        BY <2>1, <2>2
      <3>. QED  BY <3>1
    <2>. QED  BY <2>3 DEF OneEntryEach
  <1>5. MembersHaveUnions
    <2>. SUFFICES ASSUME NEW u \in Users, NEW x, Has(u, x)
                  PROVE  IsUnion(x)
      BY DEF MembersHaveUnions
    <2>1. PICK j \in DOMAIN d.users[u].info : d.users[u].info[j].union = x
      BY <1>2 DEF Has, HasRow, Info
    <2>2. \E k \in DOMAIN d.unions : d.unions[k].id = x
      BY <1>3, <2>1 DEF DocsJoined
    <2>. QED  BY <1>2, <2>2 DEF IsUnion
  <1>6. MembersCounted
    <2>. SUFFICES ASSUME NEW x, NEW o, NEW n, UnionIs(x, o, n)
                  PROVE  Tally(x) = n
      BY DEF MembersCounted
    <2>1. PICK k \in DOMAIN d.unions : d.unions[k].id = x /\ d.unions[k].curMember = n
      BY <1>2 DEF UnionIs
    <2>2. MembersOf(x) = {u \in Users : HasRow(d.users[u].info, d.unions[k].id)}
      BY <1>2, <2>1 DEF MembersOf, Has, Info
    <2>3. PendingOf(x) = {}
      BY <1>1 DEF PendingOf
    <2>4. Cardinality(MembersOf(x)) = n
      BY <1>3, <2>1, <2>2 DEF DocsJoined
    <2>5. Cardinality(MembersOf(x)) \in Nat
      BY RollsAreFinite, FS_CardinalityType
    <2>. QED  BY <2>3, <2>4, <2>5, FS_EmptySet DEF Tally
  <1>7. MembersRanked
    <2>. SUFFICES ASSUME NEW x, NEW o, Owns(o, x)
                  PROVE  \E f : Ranks(f, x, o)
      BY DEF MembersRanked
    <2>1. PICK k \in DOMAIN d.unions : d.unions[k].id = x /\ d.unions[k].owner = o
      BY <1>2 DEF Owns
    <2>2. PICK f \in [Users -> Nat] :
             \A u \in Users \ {o} : \A j \in DOMAIN d.users[u].info :
                d.users[u].info[j].union = x =>
                   /\ d.users[u].info[j].spreader \in Users
                   /\ f[d.users[u].info[j].spreader] < f[u]
                   /\ HasRow(d.users[d.users[u].info[j].spreader].info, x)
      BY <1>3, <2>1 DEF DocsJoined
    <2>3. \A u \in Users \ {o} : \A w : Below(u, x, w) =>
             w \in Users /\ f[w] < f[u] /\ Has(w, x)
      BY <1>2, <2>2 DEF Below, RowBelow, Has, Info
    <2>4. \A p : ~Exits(p, x)
      BY <1>1 DEF Exits
    <2>. QED  BY <2>2, <2>3, <2>4 DEF Ranks
  <1>8. AllFit
    BY <1>1 DEF AllFit, Involved
  <1>. QED  BY <1>4, <1>5, <1>6, <1>7, <1>8 DEF Joined

\* A step of a handler keeps members joined.
LEMMA MemberJoined ==
    ASSUME Shaped, WaysInv, UnionsNumbered, Apart, Apart', Joined, failed' = {},
           NEW s, Member(s), SharedStep(s) \/ HallStep(s)
    PROVE  Joined'
  <1>1. CASE FindUser(s)
    BY <1>1, FindUserJoined
  <1>2. CASE FindUnion(s)
    BY <1>2, FindUnionJoined
  <1>3. CASE FindInviter(s) \/ FindOther(s) \/ FindOwned(s)
    BY <1>3, FindsJoined
  <1>4. CASE Exists(s) \/ SetBegin(s) \/ Incr(s)
    BY <1>4, DrawJoined
  <1>5. CASE InsertUnion(s)
    BY <1>5, InsertJoined
  <1>6. CASE AddToSet(s) \/ Push(s)
    BY <1>6, EntryJoined
  <1>7. CASE CountMember(s) \/ UncountMember(s)
    BY <1>7, CountJoined
  <1>8. CASE Pull(s)
    BY <1>8, PullJoined
  <1>9. CASE Downlines(s)
    BY <1>9, DownlinesJoined
  <1>10. CASE HallFault(s)
    BY <1>10, DoesHallFault
  <1>. QED
    BY <1>1, <1>2, <1>3, <1>4, <1>5, <1>6, <1>7, <1>8, <1>9, <1>10, MemberCalls

\* As long as nothing failed, no two requests for one member met and no
\* counter was set back, a union counts its members and those under way, and
\* members are joined in no circle.
THEOREM MembersStayJoined ==
    ASSUME StartsNumbered, StartsJoined
    PROVE  Spec => []JoinInv
  <1>1. Init => JoinInv /\ start \in DOMAIN Starts
    BY JoinedAtStart DEF JoinInv, Init
  <1>2. OwnInv /\ MemInv /\ WaysInv /\ Numbered /\ start \in DOMAIN Starts /\ JoinInv
           /\ [Next]_vars => JoinInv' /\ (start \in DOMAIN Starts)'
    <2>. SUFFICES ASSUME OwnInv, MemInv, WaysInv, Numbered, start \in DOMAIN Starts,
                         JoinInv, [Next]_vars
                  PROVE  JoinInv' /\ start' = start
      OBVIOUS
    <2>1. start' = start /\ Shaped
      BY EveryStep DEF OwnInv
    <2>2. SUFFICES ASSUME Free'
                   PROVE  Joined'
      BY <2>1 DEF JoinInv
    <2>3. Free /\ failed' = {} /\ Apart'
      BY <2>2, FreeBefore DEF Free
    <2>4. Joined /\ Apart /\ UnionsNumbered
      BY <2>3 DEF JoinInv, Free, Numbered
    <2>5. ASSUME NEW s \in Slots, Arrive(s)
          PROVE  Joined'
      BY <2>1, <2>4, <2>5, ArriveJoined
    <2>6. Aside => Joined'
      BY <2>1, <2>3, <2>4, AsideJoined
    <2>7. ASSUME NEW s \in Busy, Member(s), SharedStep(s) \/ HallStep(s)
          PROVE  Joined'
      BY <2>1, <2>3, <2>4, <2>7, MemberJoined
    <2>. QED  BY <2>5, <2>6, <2>7, EveryMember
  <1>. QED
    BY <1>1, <1>2, LocksHaveOneOwner, MemoryStaysShaped, HandlersKeepOrder, NumbersStayApart,
       PTL DEF Spec

\* Each member has one entry of a union.
LEMMA EntriesAreMembers ==
    ASSUME OneEntryEach, NEW x
    PROVE  Cardinality(Entries(x)) = Cardinality(MembersOf(x))
  <1>. DEFINE M == MembersOf(x)
              g == [u \in M |-> <<u, CHOOSE i \in DOMAIN Info(u) : Info(u)[i].union = x>>]
  <1>1. \A u : EntriesOf(u, x) = {i \in DOMAIN Info(u) : Info(u)[i].union = x}
    BY DEF EntriesOf, Info
  <1>2. \A u \in M : \E i : EntriesOf(u, x) = {i}
    <2>. TAKE u \in M
    <2>1. u \in Users /\ Has(u, x)
      BY DEF MembersOf
    <2>2. PICK i \in DOMAIN Info(u) : Info(u)[i].union = x
      BY <2>1 DEF Has, HasRow
    <2>3. \A j \in DOMAIN Info(u) : Info(u)[j].union = x => j = i
      BY <2>1, <2>2 DEF OneEntryEach, Singles
    <2>4. EntriesOf(u, x) = {i}
      BY <1>1, <2>2, <2>3
    <2>. QED  BY <2>4
  <1>3. \A u \in M : g[u] = <<u, g[u][2]>> /\ EntriesOf(u, x) = {g[u][2]}
    <2>. TAKE u \in M
    <2>1. PICK i : EntriesOf(u, x) = {i}
      BY <1>2
    <2>2. (CHOOSE j \in DOMAIN Info(u) : Info(u)[j].union = x) \in EntriesOf(u, x)
      BY <1>1, <2>1
    <2>. QED  BY <2>1, <2>2
  <1>4. \A u \in Users : u \notin M => EntriesOf(u, x) = {}
    BY <1>1 DEF MembersOf, Has, HasRow
  <1>5. \A e : e \in Entries(x) <=> \E u \in M : e = g[u]
    <2>1. \A e : e \in Entries(x) <=> \E u \in Users : \E i \in EntriesOf(u, x) : e = <<u, i>>
      BY DEF Entries
    <2>2. M \subseteq Users
      BY DEF MembersOf
    <2>3. DOMAIN g = M
      OBVIOUS
    <2>. HIDE DEF g, M
    <2>. QED  BY <1>3, <1>4, <2>1, <2>2
  <1>6. DOMAIN g = M
    OBVIOUS
  <1>7. g = [u \in M |-> g[u]]
    OBVIOUS
  <1>. HIDE DEF g, M
  <1>8. \A u, v \in M : g[u] = g[v] => u = v
    BY <1>3
  <1>9. g \in [M -> Entries(x)]
    BY <1>5, <1>7
  <1>10. ExistsBijection(M, Entries(x))
    <2>1. g \in Bijection(M, Entries(x))
      BY <1>5, <1>8, <1>9 DEF Bijection, Injection, Surjection, IsInjective
    <2>. QED  BY <2>1 DEF ExistsBijection
  <1>11. IsFiniteSet(M)
    BY RollsAreFinite DEF M
  <1>. QED  BY <1>10, <1>11, FS_Bijection DEF M

\* When every request has ended well, and nobody's membership was changed by
\* two at the same time, a union counts its members, has each once, and each
\* but the owner is below a member.
THEOREM UnionsKeepMembers ==
    ASSUME StartsNumbered, StartsJoined
    PROVE  Spec => []MembershipKept
  <1>1. WaysInv /\ JoinInv => MembershipKept
    <2>. SUFFICES ASSUME WaysInv, JoinInv, Busy = {}, failed = {}, ~MemberClash, ~hist.reset,
                         NEW k \in DOMAIN db.unions
                  PROVE  LET d == db.unions[k]
                         IN /\ Cardinality(Entries(d.id)) = d.curMember
                            /\ \A u \in Users : InUnion(u, d.id) /\ u # d.owner =>
                                  InUnion(InfoOf(u, d.id).spreader, d.id)
      BY DEF MembershipKept, ToSet
    <2>. DEFINE x == db.unions[k].id
                o == db.unions[k].owner
                n == db.unions[k].curMember
    <2>1. Joined /\ DocWays
      BY DEF JoinInv, Free, Apart, Moving, WaysInv
    <2>2. UnionIs(x, o, n) /\ Owns(o, x)
      BY DEF UnionIs, Owns
    <2>. HIDE DEF x, o, n
    <2>3. Cardinality(Entries(x)) = n
      <3>1. PendingOf(x) = {}
        BY DEF PendingOf
      <3>2. Cardinality(MembersOf(x)) \in Nat
        BY RollsAreFinite, FS_CardinalityType
      <3>3. Tally(x) = n
        BY <2>1, <2>2 DEF Joined, MembersCounted
      <3>4. Cardinality(MembersOf(x)) = n
        BY <3>1, <3>2, <3>3, FS_EmptySet DEF Tally
      <3>. QED  BY <2>1, <3>4, EntriesAreMembers DEF Joined
    <2>4. ASSUME NEW u \in Users, InUnion(u, x), u # o
          PROVE  InUnion(InfoOf(u, x).spreader, x)
      <3>1. PICK w : w = InfoOf(u, x).spreader
        OBVIOUS
      <3>2. Below(u, x, w)
        BY <2>1, <2>4, <3>1, EntryFound
      <3>3. PICK f : Ranks(f, x, o)
        BY <2>1, <2>2 DEF Joined, MembersRanked
      <3>4. \A p : ~LeftBy(p, x, w)
        BY DEF LeftBy, Exits
      <3>5. w \in Users /\ Has(w, x)
        BY <2>4, <3>2, <3>3, <3>4 DEF Ranks
      <3>. QED  BY <2>1, <3>1, <3>5, EntryFound
    <2>. QED  BY <2>3, <2>4 DEF x, o, n
  <1>. QED  BY <1>1, HandlersKeepOrder, MembersStayJoined, PTL

-----------------------------------------------------------------------------
(* Types: requests. *)

Table == [Slots -> Requests \cup {Idle}]
Courses == Seq(Calls)

\* A request k in the place of r, at the same calls.
SameCourse(k, r) == k \in Requests /\ k.todo = r.todo

\* A request that stores a room has one.
StoresRoom(r) == Now(r) \in StoreCalls => r.n \in RoomIds

\* Then, to a request of its type.
LEMMA ThenTyped ==
    ASSUME reqs \in Table, NEW s \in Slots, NEW k \in Requests, NEW q \in Courses,
           Then(s, k, q)
    PROVE  reqs' \in Table
  <1>1. [k EXCEPT !.todo = q] \in Requests
    BY DEF Requests, Request, Courses
  <1>2. reqs' = [reqs EXCEPT ![s] = IF q = <<>> THEN Idle ELSE [k EXCEPT !.todo = q]]
    BY DEF Then
  <1>. DEFINE e == IF q = <<>> THEN Idle ELSE [k EXCEPT !.todo = q]
  <1>3. e \in Requests \cup {Idle}
    BY <1>1
  <1>. HIDE DEF e
  <1>. QED  BY <1>2, <1>3 DEF Table, e

\* Courses, and what is left of one.
LEMMA CoursesAre ==
    ASSUME NEW q \in Courses, q # <<>>
    PROVE  /\ Tail(q) \in Courses /\ <<>> \in Courses
           /\ <<"set">> \o Tail(q) \in Courses
           /\ <<"init", "keepUnion">> \o Tail(q) \in Courses
           /\ <<"unLockSelf">> \in Courses /\ <<"unLockSelf", "unLockOther">> \in Courses
           /\ <<"unLockSelf", "credit", "record">> \in Courses
           /\ <<"unLockSelf", "credit", "record", "recordOther">> \in Courses
           /\ <<"credit", "panic">> \in Courses
  <1>. DEFINE C == {"unLockSelf", "unLockOther", "credit", "record", "recordOther", "panic", "set",
                    "init", "keepUnion"}
  <1>0. /\ <<"unLockSelf">> \in Seq(C) /\ <<"unLockSelf", "unLockOther">> \in Seq(C)
        /\ <<"unLockSelf", "credit", "record">> \in Seq(C)
        /\ <<"unLockSelf", "credit", "record", "recordOther">> \in Seq(C)
        /\ <<"credit", "panic">> \in Seq(C)
        /\ <<"set">> \in Seq(C) /\ <<"init", "keepUnion">> \in Seq(C)
    OBVIOUS
  <1>a. C \subseteq Calls
    <2>1. /\ GiveScore[5] = "credit" /\ GiveScore[6] = "record" /\ GiveScore[7] = "recordOther"
          /\ {5, 6, 7} \subseteq DOMAIN GiveScore
      BY DEF GiveScore
    <2>2. {"credit", "record", "recordOther"} \subseteq ToSet(GiveScore)
      BY <2>1 DEF ToSet
    <2>3. "GiveScore" \in HallOps /\ StepsOf("GiveScore") = GiveScore
      BY OpsByName DEF StepsOf, HallSteps
    <2>4. ToSet(GiveScore) \subseteq Calls
      BY <2>3 DEF Calls
    <2>5. {"set", "init", "keepUnion", "unLockSelf", "unLockOther", "panic"} \subseteq Calls
      BY DEF Calls
    <2>. QED  BY <2>2, <2>4, <2>5
  <1>. DEFINE S == Calls
  <1>. HIDE DEF S, C
  <1>1. \A p \in Seq(C) : p \in Seq(S)
    BY <1>a DEF S
  <1>2. ASSUME q \in Seq(S), NEW p \in Seq(S)
        PROVE  Tail(q) \in Seq(S) /\ <<>> \in Seq(S) /\ p \o Tail(q) \in Seq(S)
    BY <1>2
  <1>. QED  BY <1>0, <1>1, <1>2 DEF Courses, S

\* The ways on keep requests of their type.
LEMMA WaysTyped ==
    ASSUME Shaped, reqs \in Table, NEW s \in Busy
    PROVE  /\ reqs[s] \in Requests /\ s \in Slots /\ reqs[s].todo \in Courses \ {<<>>}
           /\ Refuse(s) => reqs' \in Table
           /\ \A k : SameCourse(k, reqs[s]) =>
                 /\ GoOn(s, k) => reqs' \in Table
                 /\ \A q \in Courses : Then(s, k, q) => reqs' \in Table
  <1>1. s \in Slots /\ reqs[s] # Idle /\ reqs[s].todo # <<>>
    BY DEF Busy, Shaped, Formed
  <1>2. reqs[s] \in Requests
    BY <1>1 DEF Table
  <1>3. reqs[s].todo \in Courses
    BY <1>2 DEF Requests, Request, Courses
  <1>4. Tail(reqs[s].todo) \in Courses /\ <<>> \in Courses
    BY <1>1, <1>3, CoursesAre
  <1>6. \A k \in Requests : \A q \in Courses : Then(s, k, q) => reqs' \in Table
    BY <1>1, ThenTyped
  <1>7. ASSUME NEW k, SameCourse(k, reqs[s]), GoOn(s, k)
        PROVE  reqs' \in Table
    BY <1>4, <1>6, <1>7 DEF GoOn, SameCourse
  <1>8. Refuse(s) => reqs' \in Table
    BY <1>2, <1>4, <1>6 DEF Refuse
  <1>. QED  BY <1>1, <1>2, <1>3, <1>6, <1>7, <1>8 DEF SameCourse

\* What a request may remember.
LEMMA RecallsTyped ==
    ASSUME NEW r \in Requests
    PROVE  /\ SameCourse(r, r)
           /\ \A b \in BOOLEAN : /\ SameCourse([r EXCEPT !.owner = b], r)
                                 /\ SameCourse([r EXCEPT !.holds = b], r)
           /\ \A v \in Users \cup {NoUser} : SameCourse([r EXCEPT !.spreader = v], r)
           /\ \A v \in Users \cup {NoUser} : \A x \in Nat :
                 SameCourse([r EXCEPT !.spreader = v, !.union = x], r)
           /\ \A x \in Nat : /\ SameCourse([r EXCEPT !.union = x], r)
                             /\ SameCourse([r EXCEPT !.id = x], r)
                             /\ SameCourse([r EXCEPT !.n = x], r)
                             /\ SameCourse([r EXCEPT !.handle = x], r)
           /\ \A X \in SUBSET Nat : SameCourse([r EXCEPT !.unions = X], r)
  <1>1. \A b \in BOOLEAN : SameCourse([r EXCEPT !.owner = b], r)
    BY DEF Requests, Request, SameCourse
  <1>2. \A b \in BOOLEAN : SameCourse([r EXCEPT !.holds = b], r)
    BY DEF Requests, Request, SameCourse
  <1>3. \A v \in Users \cup {NoUser} : SameCourse([r EXCEPT !.spreader = v], r)
    BY DEF Requests, Request, SameCourse
  <1>4. \A x \in Nat : SameCourse([r EXCEPT !.union = x], r)
    BY DEF Requests, Request, SameCourse
  <1>5. \A v \in Users \cup {NoUser} : \A x \in Nat :
           SameCourse([r EXCEPT !.spreader = v, !.union = x], r)
    BY DEF Requests, Request, SameCourse
  <1>6. \A x \in Nat : SameCourse([r EXCEPT !.id = x], r)
    BY DEF Requests, Request, SameCourse
  <1>7. \A x \in Nat : SameCourse([r EXCEPT !.n = x], r)
    BY DEF Requests, Request, SameCourse
  <1>8. \A x \in Nat : SameCourse([r EXCEPT !.handle = x], r)
    BY DEF Requests, Request, SameCourse
  <1>9. \A X \in SUBSET Nat : SameCourse([r EXCEPT !.unions = X], r)
    BY DEF Requests, Request, SameCourse
  <1>10. SameCourse(r, r)
    BY DEF SameCourse
  <1>. QED  BY <1>1, <1>2, <1>3, <1>4, <1>5, <1>6, <1>7, <1>8, <1>9, <1>10

\* The searches of FindInviter and of MoveDownlines.
InviteIn(q, x) == SelectInSeq(q, LAMBDA e : e.invite = x)
LowIn(q, x, v) == SelectInSeq(q, LAMBDA e : e.union = x /\ e.spreader = v)

\* The entry that a search finds, of a list of them.
LEMMA EntryTyped ==
    ASSUME NEW q \in Seq(UnionInfo), NEW x
    PROVE  /\ EntryIn(q, x) # 0 => EntryIn(q, x) \in DOMAIN q /\ q[EntryIn(q, x)] \in UnionInfo
           /\ InviteIn(q, x) # 0 => InviteIn(q, x) \in DOMAIN q /\ q[InviteIn(q, x)] \in UnionInfo
           /\ \A v : LowIn(q, x, v) # 0 => LowIn(q, x, v) \in DOMAIN q /\ q[LowIn(q, x, v)] \in UnionInfo
  <1>1. DOMAIN q = 1 .. Len(q) /\ Len(q) \in Nat /\ \A i \in DOMAIN q : q[i] \in UnionInfo
    OBVIOUS
  <1>2. EntryIn(q, x) # 0 => EntryIn(q, x) \in DOMAIN q
    BY EntryInIs
  <1>3. ASSUME NEW I, I \subseteq 1 .. Len(q), I # {}
        PROVE  Min(I) \in I
    <2>1. I \in SUBSET Nat
      BY <1>1, <1>3
    <2>. QED  BY <1>3, <2>1, LeastExists DEF Min
  <1>4. ASSUME NEW k, k \in DOMAIN q
        PROVE  q[k] \in UnionInfo
    BY <1>1, <1>4
  <1>5. EntryIn(q, x) # 0 => q[EntryIn(q, x)] \in UnionInfo
    BY <1>2, <1>4
  <1>6. InviteIn(q, x) # 0 => InviteIn(q, x) \in DOMAIN q /\ q[InviteIn(q, x)] \in UnionInfo
    <2>. DEFINE I == {i \in 1 .. Len(q) : q[i].invite = x}
                k == InviteIn(q, x)
    <2>1. k = IF I # {} THEN Min(I) ELSE 0
      BY DEF SelectInSeq, InviteIn, LowIn
    <2>2. I # {} => Min(I) \in DOMAIN q
      BY <1>1, <1>3
    <2>. HIDE DEF I, k
    <2>3. k # 0 => k \in DOMAIN q /\ q[k] \in UnionInfo
      BY <1>4, <2>1, <2>2
    <2>. QED  BY <2>3 DEF k
  <1>7. ASSUME NEW v
        PROVE  LowIn(q, x, v) # 0 => LowIn(q, x, v) \in DOMAIN q /\ q[LowIn(q, x, v)] \in UnionInfo
    <2>. DEFINE I == {i \in 1 .. Len(q) : q[i].union = x /\ q[i].spreader = v}
                k == LowIn(q, x, v)
    <2>1. k = IF I # {} THEN Min(I) ELSE 0
      BY DEF SelectInSeq, InviteIn, LowIn
    <2>2. I # {} => Min(I) \in DOMAIN q
      BY <1>1, <1>3
    <2>. HIDE DEF I, k
    <2>3. k # 0 => k \in DOMAIN q /\ q[k] \in UnionInfo
      BY <1>4, <2>1, <2>2
    <2>. QED  BY <2>3 DEF k
  <1>. QED  BY <1>2, <1>5, <1>6, <1>7

\* What the documents are made of.
LEMMA DocsAre ==
    ASSUME db \in Docs
    PROVE  /\ db.users \in [Users -> User] /\ db.unions \in Seq(Union)
           /\ db.counters \in [Counters -> Nat \cup {Absent}] /\ db.changes \in [Users -> Int]
           /\ db.servers \in SUBSET RoomIds
           /\ \A u \in Users :
                 /\ db.users[u] \in User /\ db.users[u].lock \in BOOLEAN
                 /\ db.users[u].room \in RoomIds \cup {NoRoom} /\ Info(u) \in Seq(UnionInfo)
           /\ \A us \in [Users -> User] : [db EXCEPT !.users = us] \in Docs
           /\ \A un \in Seq(Union) : [db EXCEPT !.unions = un] \in Docs
           /\ \A co \in [Counters -> Nat \cup {Absent}] : [db EXCEPT !.counters = co] \in Docs
           /\ \A ch \in [Users -> Int] : [db EXCEPT !.changes = ch] \in Docs
           /\ \A se \in SUBSET RoomIds : [db EXCEPT !.servers = se] \in Docs
  <1>1. /\ db.users \in [Users -> User] /\ db.unions \in Seq(Union)
        /\ db.counters \in [Counters -> Nat \cup {Absent}] /\ db.changes \in [Users -> Int]
        /\ db.servers \in SUBSET RoomIds
    BY DEF Docs
  <1>2. \A u \in Users :
           /\ db.users[u] \in User /\ db.users[u].lock \in BOOLEAN
           /\ db.users[u].room \in RoomIds \cup {NoRoom} /\ Info(u) \in Seq(UnionInfo)
    BY <1>1 DEF User, Info
  <1>3. \A us \in [Users -> User] : [db EXCEPT !.users = us] \in Docs
    BY DEF Docs
  <1>4. \A un \in Seq(Union) : [db EXCEPT !.unions = un] \in Docs
    BY DEF Docs
  <1>5. \A co \in [Counters -> Nat \cup {Absent}] : [db EXCEPT !.counters = co] \in Docs
    BY DEF Docs
  <1>6. \A ch \in [Users -> Int] : [db EXCEPT !.changes = ch] \in Docs
    BY DEF Docs
  <1>7. \A se \in SUBSET RoomIds : [db EXCEPT !.servers = se] \in Docs
    BY DEF Docs
  <1>. QED  BY <1>1, <1>2, <1>3, <1>4, <1>5, <1>6, <1>7

\* An entry that a handler looks up is of its type.
LEMMA FoundTyped ==
    ASSUME db \in Docs, NEW u \in Users, NEW x
    PROVE  /\ InUnion(u, x) => /\ EntryOf(u, x) \in DOMAIN Info(u)
                               /\ Info(u)[EntryOf(u, x)] = InfoOf(u, x)
                               /\ InfoOf(u, x) \in UnionInfo
           /\ EntryOf(u, x) \in DOMAIN Info(u) => InUnion(u, x)
  <1>1. Info(u) \in Seq(UnionInfo)
    BY DocsAre
  <1>2. EntryOf(u, x) = EntryIn(Info(u), x)
    BY DEF EntryOf, EntryIn, Info
  <1>3. /\ EntryIn(Info(u), x) # 0 => /\ EntryIn(Info(u), x) \in DOMAIN Info(u)
                                      /\ Info(u)[EntryIn(Info(u), x)] \in UnionInfo
    BY <1>1, EntryTyped
  <1>4. 0 \notin DOMAIN Info(u)
    BY <1>1
  <1>. QED  BY <1>2, <1>3, <1>4 DEF InUnion, InfoOf, Info

\* The hall keeps requests of their type.
LEMMA HallTyped ==
    ASSUME NEW s, Works(s), db \in Docs, reqs \in Table, SharedStep(s) \/ HallStep(s), ~Panic(s)
    PROVE  reqs' \in Table
  <1>. DEFINE r == reqs[s]
              Fine == reqs' \in Table
              Kin(k) == SameCourse(k, r)
  <1>a. s \in Busy /\ Shaped /\ r.uid \in Users
    BY HallWays DEF Works
  <1>0. /\ r \in Requests /\ r.todo \in Courses /\ r.todo # <<>>
        /\ Refuse(s) => Fine
        /\ \A k : Kin(k) => /\ GoOn(s, k) => Fine
                            /\ \A q \in Courses : Then(s, k, q) => Fine
    BY <1>a, WaysTyped
  <1>b. /\ <<"set">> \o Tail(r.todo) \in Courses
        /\ <<"unLockSelf">> \in Courses /\ <<"unLockSelf", "unLockOther">> \in Courses
        /\ <<"unLockSelf", "credit", "record">> \in Courses
        /\ <<"unLockSelf", "credit", "record", "recordOther">> \in Courses
        /\ <<"credit", "panic">> \in Courses
    BY <1>0, CoursesAre
  <1>c. /\ Kin(r)
        /\ \A b \in BOOLEAN : Kin([r EXCEPT !.owner = b]) /\ Kin([r EXCEPT !.holds = b])
        /\ \A v \in Users \cup {NoUser} : Kin([r EXCEPT !.spreader = v])
        /\ \A v \in Users \cup {NoUser} : \A x \in Nat :
              Kin([r EXCEPT !.spreader = v, !.union = x])
        /\ \A x \in Nat : Kin([r EXCEPT !.union = x]) /\ Kin([r EXCEPT !.id = x])
    BY <1>0, RecallsTyped
  <1>. HIDE DEF r, Fine, Kin
  <1>1. CASE UnLockSelf(s) \/ UnLockOther(s) \/ SetBegin(s) \/ InsertUnion(s) \/ AddToSet(s)
             \/ CountMember(s) \/ Push(s) \/ Pull(s) \/ Downlines(s) \/ UncountMember(s)
             \/ Record(s) \/ RecordOther(s)
    <2>1. GoOn(s, r) \/ GoOn(s, [r EXCEPT !.holds = FALSE])
      BY <1>1 DEF UnLockSelf, UnLockOther, SetBegin, InsertUnion, AddToSet, CountMember, Push,
                  Pull, Downlines, UncountMember, Record, RecordOther, r
    <2>. QED  BY <1>0, <1>c, <2>1 DEF Fine
  <1>2. CASE Exists(s) \/ Incr(s)
    <2>0. db.counters \in [Counters -> Nat \cup {Absent}]
      BY DocsAre
    <2>1. \A k \in Counters : db.counters[k] + 1 \in Nat
      BY <2>0 DEF Absent
    <2>2. \/ Then(s, r, <<"set">> \o Tail(r.todo)) \/ GoOn(s, r)
          \/ \E x \in Nat : GoOn(s, [r EXCEPT !.union = x]) \/ GoOn(s, [r EXCEPT !.id = x])
      BY <1>2, <2>1, KeyIs DEF Exists, Incr, r
    <2>. QED  BY <1>0, <1>b, <1>c, <2>2 DEF Fine
  <1>3. CASE FindUnion(s) \/ FindOwned(s)
    <2>1. \/ Refuse(s) \/ GoOn(s, r)
          \/ \E x \in BOOLEAN : GoOn(s, [r EXCEPT !.owner = x])
      BY <1>3 DEF FindUnion, FindOwned, r
    <2>. QED  BY <1>0, <1>c, <2>1 DEF Fine
  <1>4. CASE FindInviter(s)
    <2>. DEFINE Of(u) == InviteIn(Info(u), r.n)
    <2>1. \/ Refuse(s)
          \/ \E u \in Users : /\ Of(u) # 0
                              /\ GoOn(s, [r EXCEPT !.spreader = u,
                                                   !.union = Info(u)[Of(u)].union])
      BY <1>4 DEF FindInviter, InviteIn, Info, r
    <2>2. ASSUME NEW u \in Users, Of(u) # 0
          PROVE  Info(u)[Of(u)] \in UnionInfo
      <3>1. Info(u) \in Seq(UnionInfo)
        BY DocsAre
      <3>. QED  BY <2>2, <3>1, EntryTyped
    <2>. HIDE DEF Of
    <2>3. \A u \in Users : Of(u) # 0 => Info(u)[Of(u)].union \in Nat
      BY <2>2 DEF UnionInfo
    <2>. QED  BY <1>0, <1>c, <2>1, <2>3 DEF Fine
  <1>5. CASE FindUser(s)
    <2>1. \/ Refuse(s) \/ GoOn(s, r) \/ Then(s, r, <<"unLockSelf">>)
          \/ /\ InUnion(r.uid, r.union)
             /\ GoOn(s, [r EXCEPT !.spreader = InfoOf(r.uid, r.union).spreader])
      BY <1>5 DEF FindUser, r
    <2>2. InUnion(r.uid, r.union) => InfoOf(r.uid, r.union).spreader \in Users \cup {NoUser}
      BY <1>a, FoundTyped DEF UnionInfo, r
    <2>. QED  BY <1>0, <1>b, <1>c, <2>1, <2>2 DEF Fine
  <1>6. CASE FindOther(s)
    <2>1. \/ Refuse(s) \/ GoOn(s, r) \/ Then(s, r, <<"unLockSelf">>)
          \/ Then(s, r, <<"unLockSelf", "unLockOther">>)
          \/ Then(s, r, <<"unLockSelf", "credit", "record">>)
          \/ Then(s, r, <<"unLockSelf", "credit", "record", "recordOther">>)
      BY <1>6 DEF FindOther, r
    <2>. QED  BY <1>0, <1>b, <1>c, <2>1 DEF Fine
  <1>7. CASE SetPartner(s) \/ UpdateSafe(s) \/ Credit(s)
    <2>1. Refuse(s) \/ GoOn(s, r)
      BY <1>7 DEF SetPartner, UpdateSafe, Credit, Fail, r
    <2>. QED  BY <1>0, <1>c, <2>1 DEF Fine
  <1>8. CASE Lock(s)
    <2>. DEFINE k == [r EXCEPT !.holds = TRUE]
    <2>1. Refuse(s) \/ GoOn(s, k) \/ Then(s, k, <<"unLockSelf">>)
      BY <1>8 DEF Lock, r
    <2>2. Kin(k)
      BY <1>c
    <2>. HIDE DEF k
    <2>. QED  BY <1>0, <1>b, <2>1, <2>2 DEF Fine
  <1>9. CASE Debit(s)
    <2>1. \/ Refuse(s) \/ GoOn(s, r) \/ GoOn(s, [r EXCEPT !.holds = FALSE])
          \/ Then(s, r, <<"credit", "panic">>)
      BY <1>9 DEF Debit, Fail, r
    <2>. QED  BY <1>0, <1>b, <1>c, <2>1 DEF Fine
  <1>10. CASE HallFault(s)
    <2>1. \/ Refuse(s) \/ GoOn(s, r) \/ GoOn(s, [r EXCEPT !.holds = FALSE])
          \/ Then(s, r, <<"credit", "panic">>) \/ Then(s, r, <<"set">> \o Tail(r.todo))
      BY <1>10 DEF HallFault, r
    <2>. QED  BY <1>0, <1>b, <1>c, <2>1 DEF Fine
  <1>. QED
    BY <1>1, <1>2, <1>3, <1>4, <1>5, <1>6, <1>7, <1>8, <1>9, <1>10 DEF SharedStep, HallStep, Fine

-----------------------------------------------------------------------------
(* Types: documents. *)

\* A list of elements of a set is a list over it.
LEMMA ListTyped ==
    ASSUME NEW S, NEW q, IsSeq(q), \A i \in DOMAIN q : q[i] \in S
    PROVE  q \in Seq(S)
  <1>1. PICK T : q \in Seq(T)
    BY DEF IsSeq
  <1>2. q = [i \in 1 .. Len(q) |-> q[i]] /\ Len(q) \in Nat /\ DOMAIN q = 1 .. Len(q)
    BY <1>1
  <1>. QED  BY <1>2

\* Documents in which one user's is another.
LEMMA UserTyped ==
    ASSUME NEW d \in Docs, NEW u \in Users
    PROVE  /\ \A w \in User : [d EXCEPT !.users[u] = w] \in Docs
           /\ \A b \in BOOLEAN : Locking(d, u, b) \in Docs
           /\ \A i \in RoomIds \cup {NoRoom} : [d EXCEPT !.users[u].room = i] \in Docs
           /\ \A q \in Seq(UnionInfo) : [d EXCEPT !.users[u].info = q] \in Docs
  <1>1. d.users \in [Users -> User] /\ d.users[u] \in User
    BY DEF Docs
  <1>2. ASSUME NEW w \in User
        PROVE  [d EXCEPT !.users[u] = w] \in Docs
    <2>. DEFINE us == [d.users EXCEPT ![u] = w]
    <2>1. us \in [Users -> User]
      BY <1>1
    <2>2. [d EXCEPT !.users[u] = w] = [d EXCEPT !.users = us]
      OBVIOUS
    <2>. HIDE DEF us
    <2>3. [d EXCEPT !.users = us] \in Docs
      BY <2>1 DEF Docs
    <2>. QED  BY <2>2, <2>3
  <1>3. ASSUME NEW b \in BOOLEAN
        PROVE  Locking(d, u, b) \in Docs
    <2>1. [d.users[u] EXCEPT !.lock = b] \in User
      BY <1>1 DEF User
    <2>2. Locking(d, u, b) = [d EXCEPT !.users[u] = [d.users[u] EXCEPT !.lock = b]]
      BY DEF Locking
    <2>. QED  BY <1>2, <2>1, <2>2
  <1>4. ASSUME NEW i \in RoomIds \cup {NoRoom}
        PROVE  [d EXCEPT !.users[u].room = i] \in Docs
    <2>1. [d.users[u] EXCEPT !.room = i] \in User
      BY <1>1 DEF User
    <2>2. [d EXCEPT !.users[u].room = i] = [d EXCEPT !.users[u] = [d.users[u] EXCEPT !.room = i]]
      OBVIOUS
    <2>. QED  BY <1>2, <2>1, <2>2
  <1>5. ASSUME NEW q \in Seq(UnionInfo)
        PROVE  [d EXCEPT !.users[u].info = q] \in Docs
    <2>1. [d.users[u] EXCEPT !.info = q] \in User
      BY <1>1 DEF User
    <2>2. [d EXCEPT !.users[u].info = q] = [d EXCEPT !.users[u] = [d.users[u] EXCEPT !.info = q]]
      OBVIOUS
    <2>. QED  BY <1>2, <2>1, <2>2
  <1>. QED  BY <1>2, <1>3, <1>4, <1>5

\* A user's list in which an entry is another, or that has one more.
LEMMA EntriesTyped ==
    ASSUME db \in Docs, NEW u \in Users
    PROVE  /\ \A x : \A n \in Int : InUnion(u, x) => IncScore(db, u, x, n) \in Docs
           /\ \A x : InUnion(u, x) =>
                 [db EXCEPT !.users[u].info[EntryOf(u, x)].partner = TRUE] \in Docs
           /\ \A e \in UnionInfo : PushEntry(db, u, e) \in Docs
           /\ \A x : PullEntries(db, u, x) \in Docs
  <1>1. Info(u) \in Seq(UnionInfo)
    BY DocsAre
  <1>2. \A q \in Seq(UnionInfo) : [db EXCEPT !.users[u].info = q] \in Docs
    BY UserTyped
  <1>3. ASSUME NEW x, NEW n \in Int, InUnion(u, x)
        PROVE  IncScore(db, u, x, n) \in Docs
    <2>. DEFINE k == EntryOf(u, x)
                e == [Info(u)[k] EXCEPT !.score = @ + n]
    <2>1. k \in DOMAIN Info(u) /\ Info(u)[k] \in UnionInfo
      BY <1>3, FoundTyped
    <2>. HIDE DEF k
    <2>2. e \in UnionInfo
      BY <2>1 DEF UnionInfo
    <2>3. IncScore(db, u, x, n) = [db EXCEPT !.users[u].info = [Info(u) EXCEPT ![k] = e]]
      BY DEF IncScore, Info, k
    <2>. HIDE DEF e
    <2>4. [Info(u) EXCEPT ![k] = e] \in Seq(UnionInfo)
      BY <1>1, <2>1, <2>2
    <2>. QED  BY <1>2, <2>3, <2>4
  <1>4. ASSUME NEW x, InUnion(u, x)
        PROVE  [db EXCEPT !.users[u].info[EntryOf(u, x)].partner = TRUE] \in Docs
    <2>. DEFINE k == EntryOf(u, x)
                e == [Info(u)[k] EXCEPT !.partner = TRUE]
    <2>1. k \in DOMAIN Info(u) /\ Info(u)[k] \in UnionInfo
      BY <1>4, FoundTyped
    <2>. HIDE DEF k
    <2>2. e \in UnionInfo
      BY <2>1 DEF UnionInfo
    <2>3. [db EXCEPT !.users[u].info[k].partner = TRUE]
             = [db EXCEPT !.users[u].info = [Info(u) EXCEPT ![k] = e]]
      BY DEF Info
    <2>. HIDE DEF e
    <2>4. [Info(u) EXCEPT ![k] = e] \in Seq(UnionInfo)
      BY <1>1, <2>1, <2>2
    <2>. QED  BY <1>2, <2>3, <2>4 DEF k
  <1>5. ASSUME NEW e \in UnionInfo
        PROVE  PushEntry(db, u, e) \in Docs
    <2>1. Append(Info(u), e) \in Seq(UnionInfo)
      BY <1>1
    <2>2. PushEntry(db, u, e) = [db EXCEPT !.users[u].info = Append(Info(u), e)]
      BY DEF PushEntry, Info
    <2>. QED  BY <1>2, <2>1, <2>2
  <1>6. ASSUME NEW x
        PROVE  PullEntries(db, u, x) \in Docs
    <2>. DEFINE q == Info(u)
                p == OtherEntries(q, x)
    <2>0. /\ IsSeq(q) /\ \A i \in DOMAIN q : q[i] \in UnionInfo
      BY <1>1 DEF IsSeq
    <2>1. Rows(q)
      BY <2>0 DEF Rows, UnionInfo, EntryFields
    <2>2. Sifts(q, p, x)
      BY <2>1, OthersSift
    <2>3. PullEntries(db, u, x) = [db EXCEPT !.users[u].info = p]
      BY DEF PullEntries, Info
    <2>. HIDE DEF p, q
    <2>4. IsSeq(p) /\ \A i \in DOMAIN p : p[i] \in UnionInfo
      BY <2>0, <2>2 DEF Sifts, Rows
    <2>5. p \in Seq(UnionInfo)
      BY <2>4, ListTyped
    <2>. QED  BY <1>2, <2>3, <2>5
  <1>. QED  BY <1>3, <1>4, <1>5, <1>6

\* Users below one who left.
LEMMA DownlinesTyped ==
    ASSUME db \in Docs, NEW x, NEW from, NEW to \in Users \cup {NoUser}
    PROVE  MoveDownlines(db, x, from, to) \in Docs
  <1>. DEFINE Low(u) == LowIn(Info(u), x, from)
              us == [u \in Users |->
                        IF Low(u) = 0 THEN db.users[u]
                        ELSE [db.users[u] EXCEPT !.info[Low(u)].spreader = to]]
  <1>1. MoveDownlines(db, x, from, to) = [db EXCEPT !.users = us]
    BY DEF MoveDownlines, Info, LowIn
  <1>2. ASSUME NEW u \in Users
        PROVE  us[u] \in User
    <2>. DEFINE q == Info(u)
                k == Low(u)
                e == [q[k] EXCEPT !.spreader = to]
    <2>1. db.users[u] \in User /\ q \in Seq(UnionInfo)
      BY DocsAre
    <2>2. k # 0 => k \in DOMAIN q /\ q[k] \in UnionInfo
      BY <2>1, EntryTyped
    <2>3. us[u] = IF k = 0 THEN db.users[u]
                  ELSE [db.users[u] EXCEPT !.info = [q EXCEPT ![k] = e]]
      BY DEF Info
    <2>. HIDE DEF q, k, us
    <2>4. k # 0 => e \in UnionInfo
      BY <2>2 DEF UnionInfo
    <2>. HIDE DEF e
    <2>5. k # 0 => [q EXCEPT ![k] = e] \in Seq(UnionInfo)
      BY <2>1, <2>2, <2>4
    <2>6. \A p \in Seq(UnionInfo) : [db.users[u] EXCEPT !.info = p] \in User
      BY <2>1 DEF User
    <2>. QED  BY <2>1, <2>3, <2>5, <2>6
  <1>3. us \in [Users -> User]
    BY <1>2
  <1>. HIDE DEF us
  <1>. QED  BY <1>1, <1>3, DocsAre

\* Documents in which a union's is another.
LEMMA UnionTyped ==
    ASSUME db \in Docs
    PROVE  /\ \A k \in DOMAIN db.unions : \A e \in Union : [db EXCEPT !.unions[k] = e] \in Docs
           /\ \A k \in DOMAIN db.unions : db.unions[k] \in Union
           /\ \A x : UnionAt(x) # 0 => /\ UnionAt(x) \in DOMAIN db.unions
                                      /\ UnionOf(x) \in Union
           /\ \A x : \A n \in Int : IncMember(db, x, n) \in Docs
           /\ \A x \in Nat : \A u \in Users :
                 [db EXCEPT !.unions = Append(@, NewUnion(x, u))] \in Docs
  <1>0. db.unions \in Seq(Union)
    BY DocsAre
  <1>1. \A k \in DOMAIN db.unions : db.unions[k] \in Union
    BY <1>0
  <1>2. \A un \in Seq(Union) : [db EXCEPT !.unions = un] \in Docs
    BY DocsAre
  <1>3. ASSUME NEW k \in DOMAIN db.unions, NEW e \in Union
        PROVE  [db EXCEPT !.unions[k] = e] \in Docs
    <2>1. [db.unions EXCEPT ![k] = e] \in Seq(Union)
      BY <1>0
    <2>2. [db EXCEPT !.unions[k] = e] = [db EXCEPT !.unions = [db.unions EXCEPT ![k] = e]]
      OBVIOUS
    <2>. QED  BY <1>2, <2>1, <2>2
  <1>4. ASSUME NEW x, UnionAt(x) # 0
        PROVE  UnionAt(x) \in DOMAIN db.unions /\ UnionOf(x) \in Union
    <2>1. IsSeq(db.unions)
      BY <1>0 DEF IsSeq
    <2>2. DocAt(db.unions, x) # 0 => DocAt(db.unions, x) \in DOMAIN db.unions
      BY <2>1, DocAtIs
    <2>3. UnionAt(x) \in DOMAIN db.unions /\ UnionOf(x) = db.unions[UnionAt(x)]
      BY <1>4, <2>2, UnionAtIs DEF ByPlace
    <2>. QED  BY <1>1, <2>3
  <1>5. ASSUME NEW x, NEW n \in Int
        PROVE  IncMember(db, x, n) \in Docs
    <2>. DEFINE k == UnionAt(x)
                e == [db.unions[k] EXCEPT !.curMember = @ + n]
    <2>1. CASE k = 0
      BY <2>1 DEF IncMember
    <2>2. CASE k # 0
      <3>1. k \in DOMAIN db.unions /\ db.unions[k] \in Union
        BY <1>1, <1>4, <2>2
      <3>2. IncMember(db, x, n) = [db EXCEPT !.unions[k] = e]
        BY <2>2 DEF IncMember
      <3>. HIDE DEF k
      <3>3. e \in Union
        BY <3>1 DEF Union
      <3>. HIDE DEF e
      <3>. QED  BY <1>3, <3>1, <3>2, <3>3
    <2>. QED  BY <2>1, <2>2
  <1>6. ASSUME NEW x \in Nat, NEW u \in Users
        PROVE  [db EXCEPT !.unions = Append(@, NewUnion(x, u))] \in Docs
    <2>1. <<>> \in Seq(Users)
      OBVIOUS
    <2>2. NoSettings \in Settings
      BY DEF NoSettings, Settings
    <2>3. NewUnion(x, u) \in Union
      BY <2>1, <2>2 DEF NewUnion, Union
    <2>4. Append(db.unions, NewUnion(x, u)) \in Seq(Union)
      BY <1>0, <2>3
    <2>. QED  BY <1>2, <2>4
  <1>. QED  BY <1>1, <1>3, <1>4, <1>5, <1>6

\* A counter or the records of changes.
LEMMA NumbersTyped ==
    ASSUME db \in Docs
    PROVE  /\ \A k \in Counters : \A n \in Nat : [db EXCEPT !.counters[k] = n] \in Docs
           /\ \A u \in Users : \A n \in Int : [db EXCEPT !.changes[u] = @ + n] \in Docs
           /\ \A u \in Users : \A n \in Int : [db EXCEPT !.changes[u] = @ - n] \in Docs
           /\ \A u, v \in Users : \A n \in Int :
                 [db EXCEPT !.changes[u] = @ - n, !.changes[v] = @ - n] \in Docs
  <1>1. db.counters \in [Counters -> Nat \cup {Absent}] /\ db.changes \in [Users -> Int]
    BY DocsAre
  <1>2. ASSUME NEW k \in Counters, NEW n \in Nat
        PROVE  [db EXCEPT !.counters[k] = n] \in Docs
    <2>1. [db.counters EXCEPT ![k] = n] \in [Counters -> Nat \cup {Absent}]
      BY <1>1
    <2>2. [db EXCEPT !.counters[k] = n] = [db EXCEPT !.counters = [db.counters EXCEPT ![k] = n]]
      OBVIOUS
    <2>. QED  BY <2>1, <2>2, DocsAre
  <1>3. ASSUME NEW u \in Users, NEW n \in Int
        PROVE  [db EXCEPT !.changes[u] = @ + n] \in Docs
    <2>. DEFINE ch == [db.changes EXCEPT ![u] = @ + n]
    <2>1. ch \in [Users -> Int]
      BY <1>1
    <2>2. [db EXCEPT !.changes[u] = @ + n] = [db EXCEPT !.changes = ch]
      OBVIOUS
    <2>. HIDE DEF ch
    <2>. QED  BY <2>1, <2>2, DocsAre
  <1>4. ASSUME NEW u \in Users, NEW v \in Users, NEW n \in Int
        PROVE  [db EXCEPT !.changes[u] = @ - n, !.changes[v] = @ - n] \in Docs
    <2>. DEFINE ch == [db.changes EXCEPT ![u] = @ - n, ![v] = @ - n]
    <2>1. ch \in [Users -> Int]
      BY <1>1
    <2>2. [db EXCEPT !.changes[u] = @ - n, !.changes[v] = @ - n] = [db EXCEPT !.changes = ch]
      BY DEF Docs
    <2>. HIDE DEF ch
    <2>. QED  BY <2>1, <2>2, DocsAre
  <1>5. ASSUME NEW u \in Users, NEW n \in Int
        PROVE  [db EXCEPT !.changes[u] = @ - n] \in Docs
    <2>. DEFINE ch == [db.changes EXCEPT ![u] = @ - n]
    <2>1. ch \in [Users -> Int]
      BY <1>1
    <2>2. [db EXCEPT !.changes[u] = @ - n] = [db EXCEPT !.changes = ch]
      OBVIOUS
    <2>. HIDE DEF ch
    <2>. QED  BY <2>1, <2>2, DocsAre
  <1>. QED  BY <1>2, <1>3, <1>4, <1>5

\* The hall keeps documents of their type.
LEMMA HallDocsTyped ==
    ASSUME NEW s, Works(s), db \in Docs, reqs \in Table, SharedStep(s) \/ HallStep(s)
    PROVE  db' \in Docs
  <1>. DEFINE r == reqs[s]
              Fine == db' \in Docs
  <1>1. r \in Requests
    BY WaysTyped DEF Works
  <1>2. /\ r.uid \in Users /\ r.other \in Users /\ r.union \in Nat /\ r.n \in Nat
        /\ r.id \in Nat /\ r.spreader \in Users \cup {NoUser} /\ -r.n \in Int /\ r.n \in Int
    <2>1. /\ r.uid \in Users /\ r.other \in Users /\ r.union \in Nat /\ r.n \in Nat
          /\ r.id \in Nat /\ r.spreader \in Users \cup {NoUser}
      BY <1>1 DEF Requests, Request
    <2>. QED  BY <2>1
  <1>. HIDE DEF r, Fine
  <1>3. db' = db => Fine
    BY DEF Fine
  <1>4. CASE UnLockSelf(s) \/ UnLockOther(s) \/ Lock(s)
    <2>0. [r EXCEPT !.holds = TRUE].uid = r.uid
      BY <1>1 DEF Requests, Request
    <2>1. \/ db' = db \/ db' = Locking(db, r.uid, FALSE) \/ db' = Locking(db, r.other, FALSE)
          \/ db' = Locking(db, r.uid, TRUE)
      BY <1>4, <2>0 DEF UnLockSelf, UnLockOther, Lock, r
    <2>. QED  BY <1>2, <1>3, <2>1, UserTyped DEF Fine
  <1>5. CASE SetBegin(s) \/ Incr(s)
    <2>0. db.counters \in [Counters -> Nat \cup {Absent}]
      BY DocsAre
    <2>1. \A k \in Counters : db.counters[k] + 1 \in Nat /\ Begin(k) \in Nat
      BY <2>0, DocsAssumption DEF Absent, Begin
    <2>2. \E k \in Counters : \E n \in Nat : db' = [db EXCEPT !.counters[k] = n]
      BY <1>5, <2>1, KeyIs DEF SetBegin, Incr
    <2>. QED  BY <2>2, NumbersTyped DEF Fine
  <1>6. CASE InsertUnion(s)
    BY <1>2, <1>6, UnionTyped DEF InsertUnion, Fine, r
  <1>7. CASE AddToSet(s) \/ Push(s)
    <2>1. \A sp \in Users \cup {NoUser} : \A b \in BOOLEAN : Entry(r, sp, b) \in UnionInfo
      BY <1>2 DEF Entry, UnionInfo
    <2>2. \E u \in Users : \E e \in UnionInfo : db' = PushEntry(db, u, e)
      BY <1>2, <1>7, <2>1 DEF AddToSet, Push, r
    <2>. QED  BY <2>2, EntriesTyped DEF Fine
  <1>8. CASE CountMember(s) \/ UncountMember(s)
    <2>1. db' = IncMember(db, r.union, 1) \/ db' = IncMember(db, r.union, -1)
      BY <1>8 DEF CountMember, UncountMember, r
    <2>2. 1 \in Int /\ -1 \in Int
      OBVIOUS
    <2>. QED  BY <2>1, <2>2, UnionTyped DEF Fine
  <1>9. CASE Pull(s)
    BY <1>2, <1>9, EntriesTyped DEF Pull, Fine, r
  <1>10. CASE Downlines(s)
    BY <1>2, <1>10, DownlinesTyped DEF Downlines, Fine, r
  <1>11. CASE SetPartner(s)
    <2>1. \/ db' = db
          \/ /\ InUnion(r.other, r.union)
             /\ db' = [db EXCEPT !.users[r.other].info[EntryOf(r.other, r.union)].partner = TRUE]
      BY <1>11 DEF SetPartner, r
    <2>. QED  BY <1>2, <1>3, <2>1, EntriesTyped DEF Fine
  <1>12. CASE Debit(s)
    <2>. DEFINE paid == IncScore(db, r.uid, r.union, -r.n)
    <2>1. db' = db \/ (InUnion(r.uid, r.union) /\ db' \in {paid, Locking(paid, r.uid, FALSE)})
      BY <1>12 DEF Debit, r
    <2>2. InUnion(r.uid, r.union) => paid \in Docs
      BY <1>2, EntriesTyped
    <2>. HIDE DEF paid
    <2>. QED  BY <1>2, <1>3, <2>1, <2>2, UserTyped DEF Fine
  <1>13. CASE Credit(s)
    <2>. DEFINE given == IncScore(db, r.other, r.union, r.n)
    <2>1. \/ db' = db
          \/ InUnion(r.other, r.union) /\ db' \in {given, Locking(given, r.other, FALSE)}
      BY <1>13 DEF Credit, r
    <2>2. InUnion(r.other, r.union) => given \in Docs
      BY <1>2, EntriesTyped
    <2>. HIDE DEF given
    <2>. QED  BY <1>2, <1>3, <2>1, <2>2, UserTyped DEF Fine
  <1>14. CASE Record(s) \/ RecordOther(s)
    <2>. DEFINE a == [db EXCEPT !.changes[r.uid] = @ - r.n, !.changes[r.other] = @ - r.n]
                b == [db EXCEPT !.changes[r.uid] = @ - r.n]
                c == [db EXCEPT !.changes[r.other] = @ + r.n]
    <2>1. a \in Docs /\ b \in Docs /\ c \in Docs
      BY <1>2, NumbersTyped
    <2>2. Record(s) => db' = IF r.op = "ModifyScore" THEN a ELSE b
      BY Zenon DEF Record, r
    <2>3. RecordOther(s) => db' = c
      BY Zenon DEF RecordOther, r
    <2>. HIDE DEF a, b, c
    <2>. QED  BY <1>14, <2>1, <2>2, <2>3 DEF Fine
  <1>15. CASE Exists(s) \/ FindUnion(s) \/ FindInviter(s) \/ FindUser(s) \/ FindOther(s)
              \/ FindOwned(s) \/ UpdateSafe(s) \/ Panic(s) \/ HallFault(s)
    BY <1>3, <1>15 DEF Exists, FindUnion, FindInviter, FindUser, FindOther, FindOwned, UpdateSafe,
                       Panic, HallFault
  <1>. QED
    BY <1>4, <1>5, <1>6, <1>7, <1>8, <1>9, <1>10, <1>11, <1>12, <1>13, <1>14, <1>15
       DEF SharedStep, HallStep, Fine

-----------------------------------------------------------------------------
(* Types: the memory. *)

RoomMaps == UNION {[ids -> SUBSET Users] : ids \in SUBSET RoomIds}
MemoryTyped == \A h \in DOMAIN game.values : game.values[h] \in UnionValue

\* The maps of rooms, and how they change.
LEMMA RoomMapsAre ==
    ASSUME NEW m \in RoomMaps
    PROVE  /\ DOMAIN m \in SUBSET RoomIds /\ \A i \in DOMAIN m : m[i] \in SUBSET Users
           /\ \A i \in RoomIds : \A U \in SUBSET Users : With(m, i, U) \in RoomMaps
           /\ \A i \in DOMAIN m : \A U \in SUBSET Users : [m EXCEPT ![i] = U] \in RoomMaps
           /\ \A i : Restrict(m, DOMAIN m \ {i}) \in RoomMaps
  <1>1. PICK ids \in SUBSET RoomIds : m \in [ids -> SUBSET Users]
    BY DEF RoomMaps
  <1>2. DOMAIN m = ids /\ \A i \in DOMAIN m : m[i] \in SUBSET Users
    BY <1>1
  <1>3. \A D \in SUBSET RoomIds : \A g \in [D -> SUBSET Users] : g \in RoomMaps
    BY DEF RoomMaps
  <1>4. ASSUME NEW i \in RoomIds, NEW U \in SUBSET Users
        PROVE  With(m, i, U) \in RoomMaps
    <2>1. ids \cup {i} \in SUBSET RoomIds
      BY <1>1
    <2>2. With(m, i, U) \in [ids \cup {i} -> SUBSET Users]
      BY <1>2 DEF With
    <2>. QED  BY <1>3, <2>1, <2>2
  <1>5. ASSUME NEW i \in DOMAIN m, NEW U \in SUBSET Users
        PROVE  [m EXCEPT ![i] = U] \in RoomMaps
    <2>1. [m EXCEPT ![i] = U] \in [ids -> SUBSET Users]
      BY <1>1
    <2>. QED  BY <1>1, <1>3, <2>1
  <1>6. ASSUME NEW i
        PROVE  Restrict(m, DOMAIN m \ {i}) \in RoomMaps
    <2>1. ids \ {i} \in SUBSET RoomIds
      BY <1>1
    <2>2. Restrict(m, DOMAIN m \ {i}) \in [ids \ {i} -> SUBSET Users]
      BY <1>2 DEF Restrict
    <2>. QED  BY <1>3, <2>1, <2>2
  <1>. QED  BY <1>1, <1>2, <1>4, <1>5, <1>6

\* What a value of the memory is.
LEMMA ValueIs ==
    ASSUME NEW v \in UnionValue
    PROVE  /\ v.id \in Nat /\ v.data \in BOOLEAN /\ v.owner \in Users \cup {NoUser}
           /\ v.set \in Settings /\ v.list \in BOOLEAN /\ v.uids \in Seq(Users)
           /\ v.rooms \in RoomMaps
           /\ \A m \in RoomMaps : [v EXCEPT !.rooms = m] \in UnionValue
           /\ \A q \in Seq(Users) : [v EXCEPT !.uids = q] \in UnionValue
           /\ \A q \in Seq(Users) : \A b \in BOOLEAN : [v EXCEPT !.list = b, !.uids = q] \in UnionValue
           /\ \A t \in Settings : [v EXCEPT !.set = t] \in UnionValue
  <1>1. v \in [id: Nat, data: BOOLEAN, owner: Users \cup {NoUser}, set: Settings,
               list: BOOLEAN, uids: Seq(Users), rooms: RoomMaps]
    BY DEF UnionValue, RoomMaps
  <1>2. UnionValue = [id: Nat, data: BOOLEAN, owner: Users \cup {NoUser}, set: Settings,
                      list: BOOLEAN, uids: Seq(Users), rooms: RoomMaps]
    BY DEF UnionValue, RoomMaps
  <1>3. /\ v.id \in Nat /\ v.data \in BOOLEAN /\ v.owner \in Users \cup {NoUser}
        /\ v.set \in Settings /\ v.list \in BOOLEAN /\ v.uids \in Seq(Users)
        /\ v.rooms \in RoomMaps
    BY <1>1
  <1>4. \A m \in RoomMaps : [v EXCEPT !.rooms = m] \in UnionValue
    BY <1>1, <1>2
  <1>5. \A q \in Seq(Users) : [v EXCEPT !.uids = q] \in UnionValue
    BY <1>1, <1>2
  <1>6. \A q \in Seq(Users) : \A b \in BOOLEAN : [v EXCEPT !.list = b, !.uids = q] \in UnionValue
    BY <1>1, <1>2
  <1>7. \A t \in Settings : [v EXCEPT !.set = t] \in UnionValue
    BY <1>1, <1>2
  <1>. QED  BY <1>3, <1>4, <1>5, <1>6, <1>7

\* Memory in which one value is another, or has other rooms.
LEMMA ValueTyped ==
    ASSUME MemoryShaped, MemoryTyped, NEW h \in DOMAIN game.values
    PROVE  /\ \A w \in UnionValue : game' = [game EXCEPT !.values[h] = w] => MemoryTyped'
           /\ \A m \in RoomMaps : game' = WithRooms(game, h, m) => MemoryTyped'
  <1>1. ASSUME NEW w \in UnionValue, game' = [game EXCEPT !.values[h] = w]
        PROVE  MemoryTyped'
    <2>1. ValueSet(h, w)
      BY <1>1, SetsValue
    <2>. QED  BY <2>1 DEF ValueSet, MemoryTyped
  <1>2. ASSUME NEW m \in RoomMaps, game' = WithRooms(game, h, m)
        PROVE  MemoryTyped'
    <2>1. game.values[h] \in UnionValue
      BY DEF MemoryTyped
    <2>2. [game.values[h] EXCEPT !.rooms = m] \in UnionValue
      BY <2>1, ValueIs
    <2>3. game' = [game EXCEPT !.values[h] = [game.values[h] EXCEPT !.rooms = m]]
      BY <1>2 DEF WithRooms
    <2>. QED  BY <1>1, <2>2, <2>3
  <1>. QED  BY <1>1, <1>2

\* A value that is loaded.
LEMMA LoadTyped ==
    ASSUME db \in Docs, MemoryShaped, MemoryTyped, NEW x \in Nat,
           NEW v \in {LoadedValue(x), NilValue(x)},
           game'.values = Append(game.values, v)
    PROVE  MemoryTyped'
  <1>1. <<>> \in RoomMaps /\ <<>> \in Seq(Users)
    <2>1. <<>> \in [{} -> SUBSET Users] /\ {} \in SUBSET RoomIds
      OBVIOUS
    <2>2. \A D \in SUBSET RoomIds : \A g \in [D -> SUBSET Users] : g \in RoomMaps
      BY DEF RoomMaps
    <2>3. <<>> \in Seq(Users)
      OBVIOUS
    <2>4. <<>> \in RoomMaps
      BY <2>1, <2>2
    <2>. QED  BY <2>3, <2>4
  <1>2. UnionValue = [id: Nat, data: BOOLEAN, owner: Users \cup {NoUser}, set: Settings,
                      list: BOOLEAN, uids: Seq(Users), rooms: RoomMaps]
    BY DEF UnionValue, RoomMaps
  <1>3. NilValue(x) \in UnionValue
    BY <1>1, <1>2 DEF NilValue, Settings
  <1>4. LoadedValue(x) \in UnionValue
    <2>1. CASE x = PlainUnion \/ UnionAt(x) = 0
      BY <1>3, <2>1 DEF LoadedValue
    <2>2. CASE ~(x = PlainUnion \/ UnionAt(x) = 0)
      <3>1. UnionOf(x) \in Union
        BY <2>2, UnionTyped
      <3>2. LoadedValue(x) = [id |-> x, data |-> TRUE, owner |-> UnionOf(x).owner,
                              set |-> UnionOf(x).set, list |-> UnionOf(x).list,
                              uids |-> UnionOf(x).uids, rooms |-> <<>>]
        BY <2>2 DEF LoadedValue
      <3>. QED  BY <1>1, <1>2, <3>1, <3>2 DEF Union
    <2>. QED  BY <2>1, <2>2
  <1>5. /\ DOMAIN game'.values = DOMAIN game.values \cup {Len(game.values) + 1}
        /\ game'.values[Len(game.values) + 1] = v
        /\ \A i \in DOMAIN game.values : game'.values[i] = game.values[i]
    BY Appending DEF MemoryShaped
  <1>. QED  BY <1>3, <1>4, <1>5 DEF MemoryTyped

\* What a request of the game server has.
LEMMA PlayerTyped ==
    ASSUME NEW s, Plays(s), reqs \in Table, db \in Docs, MemoryTyped
    PROVE  LET r == reqs[s]
           IN /\ s \in Busy /\ r \in Requests /\ r.uid \in Users /\ r.union \in Nat /\ r.n \in Nat
              /\ r.id \in Nat /\ r.sess \in RoomIds \cup {NoRoom} /\ r.handle \in Nat
              /\ r.unions \in SUBSET Nat /\ MemoryShaped /\ DocsShaped
              /\ Now(r) \in HandleCalls => r.handle \in DOMAIN game.values /\ Value(s) \in UnionValue
  <1>1. s \in Busy /\ Shaped /\ MemoryShaped /\ DocsShaped
    BY DEF Plays, MemInv
  <1>2. reqs[s] \in Requests
    BY <1>1, WaysTyped
  <1>3. Now(reqs[s]) \in HandleCalls =>
           reqs[s].handle \in DOMAIN game.values /\ Value(s) \in UnionValue
    BY HandleIs DEF MemoryTyped
  <1>. QED  BY <1>1, <1>2, <1>3 DEF Requests, Request

\* The way on of a setting.
LEMMA SettingTyped ==
    ASSUME NEW r, r.op \in SettingOps, r.id \in Nat
    PROVE  /\ \A v \in UnionValue : SetInMemory(v, r) \in UnionValue
           /\ \A v \in UnionValue :
                 [v EXCEPT !.set[SettingOf[r.op]] =
                     IF r.op = "AddRoomRuleList" THEN r.id ELSE Wanted(r)] \in UnionValue
           /\ \A d \in Union : SetInDoc(d, r) \in Union
  <1>1. /\ Wanted(r) \in BOOLEAN /\ <<>> \in Seq(Users)
        /\ SettingOf[r.op] \in SetNames
        /\ SettingOf[r.op] = "rules" <=> r.op = "AddRoomRuleList"
    BY OpsByName DEF Wanted, SettingOf, SetNames
  <1>2. ASSUME NEW t \in Settings, NEW x, x \in IF r.op = "AddRoomRuleList" THEN Nat ELSE BOOLEAN
        PROVE  [t EXCEPT ![SettingOf[r.op]] = x] \in Settings
    BY <1>1, <1>2 DEF Settings, SetNames
  <1>3. ASSUME NEW v \in UnionValue
        PROVE  SetInMemory(v, r) \in UnionValue
    <2>1. v.set \in Settings
      BY ValueIs
    <2>2. [v.set EXCEPT !.lottery = Wanted(r)] \in Settings
      BY <1>1, <2>1 DEF Settings
    <2>3. [v EXCEPT !.set.lottery = Wanted(r)] = [v EXCEPT !.set = [v.set EXCEPT !.lottery = Wanted(r)]]
      OBVIOUS
    <2>4. [v EXCEPT !.set.lottery = Wanted(r)] \in UnionValue
      BY <2>2, <2>3, ValueIs
    <2>5. [v EXCEPT !.list = Wanted(r), !.uids = <<>>] \in UnionValue
      BY <1>1, ValueIs
    <2>. QED  BY <2>4, <2>5 DEF SetInMemory
  <1>4. ASSUME NEW v \in UnionValue
        PROVE  [v EXCEPT !.set[SettingOf[r.op]] =
                   IF r.op = "AddRoomRuleList" THEN r.id ELSE Wanted(r)] \in UnionValue
    <2>. DEFINE x == IF r.op = "AddRoomRuleList" THEN r.id ELSE Wanted(r)
                t == [v.set EXCEPT ![SettingOf[r.op]] = x]
    <2>1. v.set \in Settings
      BY ValueIs
    <2>2. x \in IF r.op = "AddRoomRuleList" THEN Nat ELSE BOOLEAN
      BY <1>1
    <2>3. [v EXCEPT !.set[SettingOf[r.op]] = x] = [v EXCEPT !.set = t]
      OBVIOUS
    <2>. HIDE DEF x
    <2>4. t \in Settings
      BY <1>2, <2>1, <2>2
    <2>. HIDE DEF t
    <2>5. [v EXCEPT !.set = t] \in UnionValue
      BY <2>4, ValueIs
    <2>. QED  BY <2>3, <2>5 DEF x
  <1>5. ASSUME NEW d \in Union
        PROVE  SetInDoc(d, r) \in Union
    <2>1. d.set \in Settings /\ d.set.rules + 1 \in Nat
      BY DEF Union, Settings
    <2>2. \A t \in Settings : [d EXCEPT !.set = t] \in Union
      BY DEF Union
    <2>3. \A e \in Union : \A b \in BOOLEAN : [e EXCEPT !.list = b, !.uids = <<>>] \in Union
      BY <1>1 DEF Union
    <2>4. [d EXCEPT !.set.rules = @ + 1] \in Union
      <3>1. [d.set EXCEPT !.rules = @ + 1] \in Settings
        BY <2>1 DEF Settings
      <3>. QED  BY <2>2, <3>1
    <2>5. [d EXCEPT !.set.hongBao = Wanted(r), !.list = Wanted(r), !.uids = <<>>] \in Union
      <3>1. [d.set EXCEPT !.hongBao = Wanted(r)] \in Settings
        BY <1>1, <2>1 DEF Settings
      <3>2. [d EXCEPT !.set.hongBao = Wanted(r)] \in Union
        BY <2>2, <3>1
      <3>. QED  BY <1>1, <2>3, <3>2
    <2>6. r.op # "AddRoomRuleList" => [d EXCEPT !.set[SettingOf[r.op]] = Wanted(r)] \in Union
      <3>1. r.op # "AddRoomRuleList" => [d.set EXCEPT ![SettingOf[r.op]] = Wanted(r)] \in Settings
        BY <1>1, <1>2, <2>1
      <3>. QED  BY <2>2, <3>1
    <2>. QED  BY <2>4, <2>5, <2>6 DEF SetInDoc
  <1>. QED  BY <1>3, <1>4, <1>5

-----------------------------------------------------------------------------
(* Types: the game server. *)

\* The handles and the rooms that a request finds in memory.
LEMMA MemoryFinds ==
    ASSUME MemoryShaped, MemoryTyped
    PROVE  /\ \A x \in DOMAIN game.unionList : game.unionList[x] \in Nat
           /\ Len(game.values) + 1 \in Nat
           /\ \A h \in DOMAIN game.values : game.values[h].rooms \in RoomMaps
           /\ \A h \in DOMAIN game.values : \A i \in DOMAIN game.values[h].rooms :
                 i \in RoomIds /\ i \in Nat /\ game.values[h].rooms[i] \in SUBSET Users
           /\ \A i : \A h \in Holding(i) : h \in DOMAIN game.values /\ i \in DOMAIN game.values[h].rooms
  <1>1. /\ DOMAIN game.values = 1 .. Len(game.values) /\ Len(game.values) \in Nat
    BY Appending DEF MemoryShaped
  <1>2. \A x \in DOMAIN game.unionList : game.unionList[x] \in DOMAIN game.values
    BY DEF MemoryShaped
  <1>3. \A h \in DOMAIN game.values : game.values[h].rooms \in RoomMaps
    BY ValueIs DEF MemoryTyped
  <1>4. \A h \in DOMAIN game.values : \A i \in DOMAIN game.values[h].rooms :
           i \in RoomIds /\ i \in Nat /\ game.values[h].rooms[i] \in SUBSET Users
    BY <1>3, RoomMapsAre, DocsAssumption
  <1>5. \A i : \A h \in Holding(i) : h \in DOMAIN game.values /\ i \in DOMAIN game.values[h].rooms
    BY <1>2 DEF Holding, Known
  <1>. QED  BY <1>1, <1>2, <1>3, <1>4, <1>5

\* The game server keeps requests of their type.
LEMMA GameTyped ==
    ASSUME NEW s, Plays(s), db \in Docs, reqs \in Table, MemoryTyped, GameStep(s), ~GamePanics
    PROVE  reqs' \in Table
  <1>. DEFINE r == reqs[s]
              Fine == reqs' \in Table
              Kin(k) == SameCourse(k, r)
  <1>a. /\ s \in Busy /\ Shaped /\ r.uid \in Users /\ r.handle \in Nat /\ r.union \in Nat
        /\ MemoryShaped /\ r.sess \in RoomIds \cup {NoRoom}
    BY PlayerTyped DEF Plays
  <1>0. /\ r \in Requests /\ r.todo \in Courses /\ r.todo # <<>>
        /\ Refuse(s) => Fine
        /\ \A k : Kin(k) => /\ GoOn(s, k) => Fine
                            /\ \A q \in Courses : Then(s, k, q) => Fine
    BY <1>a, WaysTyped
  <1>b. <<"init", "keepUnion">> \o Tail(r.todo) \in Courses /\ Tail(r.todo) \in Courses
    BY <1>0, CoursesAre
  <1>c. /\ Kin(r)
        /\ \A x \in Nat : /\ Kin([r EXCEPT !.id = x]) /\ Kin([r EXCEPT !.n = x])
                          /\ Kin([r EXCEPT !.handle = x])
        /\ \A X \in SUBSET Nat : Kin([r EXCEPT !.unions = X])
    BY <1>0, RecallsTyped
  <1>. HIDE DEF r, Fine, Kin
  <1>1. CASE GetUnion(s)
    <2>1. \/ r.union \in DOMAIN game.unionList
             /\ GoOn(s, [r EXCEPT !.handle = game.unionList[r.union]])
          \/ Then(s, r, <<"init", "keepUnion">> \o Tail(r.todo))
      BY <1>1 DEF GetUnion, r
    <2>. QED  BY <1>0, <1>a, <1>b, <1>c, <2>1, MemoryFinds DEF Fine
  <1>2. CASE InitUnion(s)
    <2>1. GoOn(s, [r EXCEPT !.handle = Len(game.values) + 1])
      BY <1>2 DEF InitUnion, NewValue, r
    <2>. QED  BY <1>0, <1>a, <1>c, <2>1, MemoryFinds DEF Fine
  <1>3. CASE FindUserData(s)
    <2>1. GoOn(s, [r EXCEPT !.unions = UnionsOf(r.uid)])
      BY <1>3 DEF FindUserData, r
    <2>2. UnionsOf(r.uid) \in SUBSET Nat
      <3>1. Info(r.uid) \in Seq(UnionInfo)
        BY <1>a, DocsAre
      <3>2. \A e \in ToSet(Info(r.uid)) : e \in UnionInfo
        BY <3>1 DEF ToSet
      <3>. QED  BY <3>2 DEF UnionsOf, Info, UnionInfo
    <2>. QED  BY <1>0, <1>c, <2>1, <2>2 DEF Fine
  <1>4. CASE CreateRoom(s)
    <2>1. Refuse(s) \/ \E id \in RoomIds : GoOn(s, [r EXCEPT !.n = id])
      BY <1>4 DEF CreateRoom, FreeRoomIds, r
    <2>. QED  BY <1>0, <1>c, <2>1, DocsAssumption DEF Fine
  <1>5. CASE Rejoin(s)
    <2>1. \/ GoOn(s, r)
          \/ IsUserInRoom(r.uid, r.sess) /\ GoOn(s, [r EXCEPT !.n = r.sess])
      BY <1>5 DEF Rejoin, r
    <2>2. IsUserInRoom(r.uid, r.sess) => r.sess \in Nat
      BY <1>a, MemoryFinds DEF IsUserInRoom
    <2>. QED  BY <1>0, <1>c, <2>1, <2>2 DEF Fine
  <1>6. CASE JoinRoom(s) \/ QuickJoin(s)
    <2>1. \/ Refuse(s)
          \/ \E h \in DOMAIN game.values : \E id \in DOMAIN game.values[h].rooms :
                Enters(s, h, id, Tail(r.todo))
      <3>1. CASE JoinRoom(s)
        BY <1>a, <3>1, MemoryFinds DEF JoinRoom, r
      <3>2. CASE QuickJoin(s)
        <4>1. \/ Refuse(s)
              \/ \E id \in DOMAIN Value(s).rooms : Enters(s, r.handle, id, Tail(r.todo))
          BY <3>2 DEF QuickJoin, r
        <4>2. Now(reqs[s]) = "quickJoin"
          BY <3>2, PlayerIs DEF QuickJoin
        <4>3. r.handle \in DOMAIN game.values /\ Value(s) = game.values[r.handle]
          BY <4>2, HandleIs DEF HandleCalls, r
        <4>. QED  BY <4>1, <4>3
      <3>. QED  BY <1>6, <3>1, <3>2
    <2>2. Now(reqs[s]) \in {"joinRoom", "quickJoin"}
      BY <1>6, PlayerIs DEF JoinRoom, QuickJoin
    <2>3. Tail(Tail(r.todo)) \in Courses
      <3>1. Path(r.op, r.todo) /\ r.op \in GameOps /\ NextCall(r.op, Head(r.todo)) # "end"
        BY <2>2, PlayerIs DEF Now, NextCall, Plays, r
      <3>2. Tail(r.todo) # <<>>
        BY <3>1, PathOn
      <3>. QED  BY <1>b, <3>2, CoursesAre
    <2>4. ASSUME NEW h \in DOMAIN game.values, NEW id \in DOMAIN game.values[h].rooms,
                 Enters(s, h, id, Tail(r.todo))
          PROVE  Fine
      <3>1. \/ Refuse(s) \/ Then(s, [r EXCEPT !.n = id], Tail(Tail(r.todo)))
            \/ Then(s, [r EXCEPT !.n = id], Tail(r.todo))
        BY <2>4 DEF Enters, r
      <3>2. id \in Nat
        BY <1>a, MemoryFinds
      <3>. QED  BY <1>0, <1>b, <1>c, <2>3, <3>1, <3>2
    <2>. QED  BY <1>0, <2>1, <2>4 DEF Fine
  <1>7. CASE \/ KeepUnion(s) \/ InRoom(s) \/ Proxy(s) \/ StoreRoom(s) \/ StoreServer(s)
             \/ Leave(s) \/ Dismiss(s) \/ CheckHongBao(s) \/ KeepUid(s) \/ CreditHongBao(s)
             \/ RecordHongBao(s) \/ StoreUid(s) \/ Setting(s) \/ CacheSetting(s)
    <2>1. Refuse(s) \/ GoOn(s, r)
      BY <1>7 DEF KeepUnion, InRoom, Proxy, StoreRoom, StoreServer, Leave, Dismiss, CheckHongBao,
                  KeepUid, CreditHongBao, RecordHongBao, StoreUid, Setting, CacheSetting, r
    <2>. QED  BY <1>0, <1>c, <2>1 DEF Fine
  <1>8. CASE StoreSetting(s)
    <2>. DEFINE d == SetInDoc(UnionOf(r.union), r)
    <2>1. GoOn(s, [r EXCEPT !.id = d.set.rules]) /\ Now(reqs[s]) = "storeSetting"
      BY <1>8, PlayerIs DEF StoreSetting, r
    <2>2. r.op \in SettingOps
      BY <2>1, PlayerIs, WhoCalls DEF Plays, r
    <2>3. UnionOf(r.union) \in Union
      BY <2>1, HandleIs, UnionTyped DEF HandleCalls, r
    <2>4. r.id \in Nat
      BY PlayerTyped DEF r
    <2>5. d \in Union
      BY <2>2, <2>3, <2>4, SettingTyped
    <2>. HIDE DEF d
    <2>6. d.set.rules \in Nat
      BY <2>5 DEF Union, Settings
    <2>. QED  BY <1>0, <1>c, <2>1, <2>6 DEF Fine
  <1>9. CASE GameFault(s)
    <2>1. Refuse(s) \/ GoOn(s, r) \/ GoOn(s, [r EXCEPT !.handle = Len(game.values) + 1])
      BY <1>9 DEF GameFault, NewValue, r
    <2>. QED  BY <1>0, <1>a, <1>c, <2>1, MemoryFinds DEF Fine
  <1>10. PanicGame(s) => GamePanics
    BY DEF PanicGame
  <1>. QED
    BY <1>1, <1>2, <1>3, <1>4, <1>5, <1>6, <1>7, <1>8, <1>9, <1>10 DEF GameStep, Fine

\* The game server keeps documents of their type.
LEMMA GameDocsTyped ==
    ASSUME NEW s, Plays(s), db \in Docs, reqs \in Table, MemoryTyped, StoresRoom(reqs[s]),
           GameStep(s)
    PROVE  db' \in Docs
  <1>. DEFINE r == reqs[s]
              Fine == db' \in Docs
  <1>1. /\ r.uid \in Users /\ r.union \in Nat /\ r.id \in Nat /\ r.n \in Nat
    BY PlayerTyped
  <1>2. db' = db => Fine
    OBVIOUS
  <1>3. 1 \in Int
    OBVIOUS
  <1>. HIDE DEF r, Fine
  <1>4. CASE StoreRoom(s) \/ StoreServer(s)
    <2>1. r.n \in RoomIds
      BY <1>4, DoesStore DEF StoresRoom, r
    <2>2. \/ db' = [db EXCEPT !.users[r.uid].room = r.n]
          \/ db' = [db EXCEPT !.servers = @ \cup {r.n}]
      BY <1>4 DEF StoreRoom, StoreServer, r
    <2>3. db.servers \cup {r.n} \in SUBSET RoomIds
      BY <2>1, DocsAre
    <2>4. [db EXCEPT !.servers = db.servers \cup {r.n}] \in Docs
      BY <2>3, DocsAre
    <2>5. [db EXCEPT !.users[r.uid].room = r.n] \in Docs
      BY <1>1, <2>1, UserTyped
    <2>. QED  BY <2>2, <2>4, <2>5 DEF Fine
  <1>5. CASE Leave(s)
    <2>1. db' = db \/ db' = [db EXCEPT !.users[r.uid].room = NoRoom]
      BY <1>5 DEF Leave, r
    <2>. QED  BY <1>1, <1>2, <2>1, UserTyped DEF Fine
  <1>6. CASE Dismiss(s)
    <2>. DEFINE In(u) == u \in Value(s).rooms[r.n]
                us == [u \in Users |-> IF In(u) THEN [db.users[u] EXCEPT !.room = NoRoom]
                                       ELSE db.users[u]]
    <2>1. db' = db \/ db' = [db EXCEPT !.users = us]
      BY <1>6 DEF Dismiss, r
    <2>2. \A u \in Users : db.users[u] \in User
      BY DocsAre
    <2>3. \A w \in User : [w EXCEPT !.room = NoRoom] \in User
      BY DEF User
    <2>. HIDE DEF In
    <2>4. us \in [Users -> User]
      BY <2>2, <2>3
    <2>. HIDE DEF us
    <2>. QED  BY <1>2, <2>1, <2>4, DocsAre DEF Fine
  <1>7. CASE CreditHongBao(s) \/ RecordHongBao(s)
    <2>1. \/ db' = db
          \/ InUnion(r.uid, r.union) /\ db' = IncScore(db, r.uid, r.union, 1)
          \/ db' = [db EXCEPT !.changes[r.uid] = @ + 1]
      BY <1>7 DEF CreditHongBao, RecordHongBao, GamePanics, r
    <2>. QED  BY <1>1, <1>2, <1>3, <2>1, EntriesTyped, NumbersTyped DEF Fine
  <1>8. CASE StoreUid(s)
    <2>. DEFINE d == UnionOf(r.union)
                e == [d EXCEPT !.list = Value(s).list, !.uids = Append(@, r.uid)]
    <2>1. Now(reqs[s]) = "storeUid" /\ db' = [db EXCEPT !.unions[UnionAt(r.union)] = e]
      BY <1>8, DoesStoreUid DEF StoreUid, r
    <2>2. /\ UnionAt(r.union) \in DOMAIN db.unions /\ d = db.unions[UnionAt(r.union)]
      BY <2>1, HandleIs DEF HandleCalls, r
    <2>3. d \in Union /\ Value(s).list \in BOOLEAN
      <3>1. Value(s) \in UnionValue
        BY <2>1, PlayerTyped DEF HandleCalls
      <3>. QED  BY <2>2, <3>1, UnionTyped, ValueIs
    <2>. HIDE DEF d
    <2>4. Append(d.uids, r.uid) \in Seq(Users)
      BY <1>1, <2>3 DEF Union
    <2>5. e \in Union
      BY <2>3, <2>4 DEF Union
    <2>. HIDE DEF e
    <2>. QED  BY <2>1, <2>2, <2>5, UnionTyped DEF Fine
  <1>9. CASE StoreSetting(s)
    <2>. DEFINE d == SetInDoc(UnionOf(r.union), r)
    <2>1. db' = [db EXCEPT !.unions[UnionAt(r.union)] = d] /\ Now(reqs[s]) = "storeSetting"
      BY <1>9, PlayerIs DEF StoreSetting, r
    <2>2. r.op \in SettingOps
      BY <2>1, PlayerIs, WhoCalls DEF Plays, r
    <2>3. UnionAt(r.union) \in DOMAIN db.unions /\ UnionOf(r.union) \in Union
      BY <2>1, HandleIs, UnionTyped DEF HandleCalls, r
    <2>4. d \in Union
      BY <1>1, <2>2, <2>3, SettingTyped
    <2>. HIDE DEF d
    <2>. QED  BY <2>1, <2>3, <2>4, UnionTyped DEF Fine
  <1>10. InMemory \/ GamePanics => db' = db
    BY DEF InMemory, GamePanics
  <1>11. CASE \/ GetUnion(s) \/ InitUnion(s) \/ KeepUnion(s) \/ FindUserData(s) \/ InRoom(s)
              \/ CreateRoom(s) \/ Proxy(s) \/ Rejoin(s) \/ JoinRoom(s) \/ PanicGame(s)
              \/ CheckHongBao(s) \/ KeepUid(s) \/ Setting(s) \/ CacheSetting(s)
    BY <1>2, <1>10, <1>11 DEF GetUnion, InitUnion, KeepUnion, FindUserData, InRoom,
       CreateRoom, Proxy, Rejoin, JoinRoom, PanicGame, CheckHongBao, KeepUid, Setting,
       CacheSetting
  <1>12. CASE QuickJoin(s)
    BY <1>2, <1>10, <1>12, Zenon DEF QuickJoin
  <1>13. CASE GameFault(s)
    BY <1>2, <1>10, <1>13 DEF GameFault
  <1>. QED
    BY <1>4, <1>5, <1>6, <1>7, <1>8, <1>9, <1>11, <1>12, <1>13 DEF GameStep, Fine

\* A value of its type comes in the place of another.
LEMMA ValueSetTyped ==
    ASSUME MemoryShaped, MemoryTyped, NEW h \in DOMAIN game.values
    PROVE  \A w \in UnionValue : ValueSet(h, w) => MemoryTyped'
  BY DEF ValueSet, MemoryTyped

\* The game server keeps values of their type.
LEMMA GameMemoryTyped ==
    ASSUME NEW s, Plays(s), db \in Docs, reqs \in Table, MemoryTyped, GameStep(s), ~GamePanics
    PROVE  MemoryTyped'
  <1>. DEFINE r == reqs[s]
              Fine == MemoryTyped'
  <1>1. /\ r.uid \in Users /\ r.union \in Nat /\ r.id \in Nat /\ r.n \in Nat
        /\ MemoryShaped
        /\ Now(r) \in HandleCalls =>
              r.handle \in DOMAIN game.values /\ Value(s) \in UnionValue
    BY PlayerTyped
  <1>2. game' = game => Fine
    BY DEF MemoryTyped
  <1>3. \A h \in DOMAIN game.values :
           /\ \A w \in UnionValue : game' = [game EXCEPT !.values[h] = w] => Fine
           /\ \A m \in RoomMaps : game' = WithRooms(game, h, m) => Fine
    BY <1>1, ValueTyped
  <1>. HIDE DEF r, Fine
  <1>4. CASE InitUnion(s) \/ (GameFault(s) /\ Now(reqs[s]) = "init")
    <2>1. Loads(s, LoadedValue(r.union)) \/ Loads(s, NilValue(r.union))
      BY <1>4, DoesInit DEF r
    <2>. QED  BY <1>1, <2>1, LoadTyped DEF Loads, Fine
  <1>5. CASE KeepUnion(s)
    <2>1. game'.values = game.values
      BY <1>5, DoesKeep
    <2>. QED  BY <2>1 DEF MemoryTyped, Fine
  <1>6. CASE CreateRoom(s)
    <2>1. \E id \in RoomIds : \E U \in {{r.uid}, {}} :
             game' = WithRooms(game, r.handle, With(Value(s).rooms, id, U))
      BY <1>6 DEF CreateRoom, FreeRoomIds, r
    <2>2. r.handle \in DOMAIN game.values /\ Value(s).rooms \in RoomMaps
      <3>1. Now(r) \in HandleCalls
        BY <1>6, DoesCreate DEF HandleCalls, r
      <3>. QED  BY <1>1, <3>1, ValueIs
    <2>. QED  BY <1>1, <1>3, <2>1, <2>2, RoomMapsAre DEF Fine
  <1>7. ASSUME NEW h \in DOMAIN game.values, NEW id \in DOMAIN game.values[h].rooms,
               Enters(s, h, id, Tail(r.todo))
        PROVE  Fine
    <2>. DEFINE m == game.values[h].rooms
                U == m[id] \cup {r.uid}
    <2>1. game' = game \/ game' = WithRooms(game, h, [m EXCEPT ![id] = U])
      BY <1>7 DEF Enters, r
    <2>2. m \in RoomMaps /\ U \in SUBSET Users
      BY <1>1, MemoryFinds
    <2>. HIDE DEF m, U
    <2>3. [m EXCEPT ![id] = U] \in RoomMaps
      BY <2>2, RoomMapsAre DEF m
    <2>. QED  BY <1>2, <1>3, <2>1, <2>3
  <1>8. CASE JoinRoom(s)
    <2>1. game' = game \/ \E h \in Holding(r.n) : Enters(s, h, r.n, Tail(r.todo))
      BY <1>8 DEF JoinRoom, r
    <2>. QED  BY <1>1, <1>2, <1>7, <2>1, MemoryFinds DEF Fine
  <1>9. CASE QuickJoin(s)
    <2>1. game' = game \/ \E id \in DOMAIN Value(s).rooms : Enters(s, r.handle, id, Tail(r.todo))
      BY <1>9 DEF QuickJoin, r
    <2>2. r.handle \in DOMAIN game.values /\ Value(s) = game.values[r.handle]
      <3>1. Now(r) \in HandleCalls
        BY <1>9, DoesEnter, PlayerIs DEF QuickJoin, HandleCalls, r
      <3>. QED  BY <1>1, <3>1 DEF Value, r
    <2>. QED  BY <1>2, <1>7, <2>1, <2>2 DEF Fine
  <1>10. CASE Leave(s)
    <2>1. \/ game' = game
          \/ \E h \in Holding(r.sess) : \E m :
                /\ m \in {Restrict(game.values[h].rooms, DOMAIN game.values[h].rooms \ {r.sess}),
                          [game.values[h].rooms EXCEPT
                              ![r.sess] = game.values[h].rooms[r.sess] \ {r.uid}]}
                /\ game' = WithRooms(game, h, m)
      BY <1>10 DEF Leave, r
    <2>2. ASSUME NEW h \in Holding(r.sess)
          PROVE  /\ h \in DOMAIN game.values
                 /\ Restrict(game.values[h].rooms, DOMAIN game.values[h].rooms \ {r.sess})
                       \in RoomMaps
                 /\ [game.values[h].rooms EXCEPT
                        ![r.sess] = game.values[h].rooms[r.sess] \ {r.uid}] \in RoomMaps
      <3>. DEFINE m == game.values[h].rooms
                  U == m[r.sess] \ {r.uid}
      <3>1. /\ h \in DOMAIN game.values /\ r.sess \in DOMAIN m /\ m \in RoomMaps
            /\ U \in SUBSET Users
        BY <1>1, MemoryFinds
      <3>. HIDE DEF m, U
      <3>2. Restrict(m, DOMAIN m \ {r.sess}) \in RoomMaps /\ [m EXCEPT ![r.sess] = U] \in RoomMaps
        BY <3>1, RoomMapsAre
      <3>. QED  BY <3>1, <3>2 DEF m, U
    <2>. QED  BY <1>2, <1>3, <2>1, <2>2 DEF Fine
  <1>11. CASE Dismiss(s)
    <2>1. \/ game' = game
          \/ game' = WithRooms(game, r.handle,
                               Restrict(Value(s).rooms, DOMAIN Value(s).rooms \ {r.n}))
      BY <1>11 DEF Dismiss, r
    <2>2. r.handle \in DOMAIN game.values /\ Value(s).rooms \in RoomMaps
      <3>1. Now(r) \in HandleCalls
        BY <1>11, DoesDismiss DEF HandleCalls, r
      <3>. QED  BY <1>1, <3>1, ValueIs
    <2>. QED  BY <1>2, <1>3, <2>1, <2>2, RoomMapsAre DEF Fine
  <1>12. CASE KeepUid(s)
    <2>. DEFINE v == Value(s)
                w == [v EXCEPT !.uids = Append(v.uids, r.uid)]
    <2>1. /\ r.handle \in DOMAIN game.values /\ v \in UnionValue /\ v = game.values[r.handle]
      <3>1. Now(r) \in HandleCalls
        BY <1>12, DoesKeepUid DEF HandleCalls, r
      <3>. QED  BY <1>1, <3>1 DEF Value, r
    <2>2. game' = [game EXCEPT !.values[r.handle].uids = Append(@, r.uid)]
      BY <1>12 DEF KeepUid, r
    <2>. HIDE DEF v
    <2>3. game' = [game EXCEPT !.values[r.handle] = w]
      BY <2>1, <2>2
    <2>4. Append(v.uids, r.uid) \in Seq(Users)
      <3>1. v.uids \in Seq(Users)
        BY <2>1, ValueIs
      <3>. QED  BY <1>1, <3>1
    <2>5. w \in UnionValue
      BY <2>1, <2>4, ValueIs
    <2>. HIDE DEF w
    <2>. QED  BY <1>3, <2>1, <2>3, <2>5 DEF Fine
  <1>13. CASE Setting(s)
    <2>. DEFINE w == SetInMemory(Value(s), r)
    <2>1. game' = game \/ game' = [game EXCEPT !.values[r.handle] = w]
      BY <1>13 DEF Setting, r
    <2>2. Now(r) = "setting"
      BY <1>13, DoesSetting DEF r
    <2>3. r.handle \in DOMAIN game.values /\ Value(s) \in UnionValue
      BY <1>1, <2>2 DEF HandleCalls
    <2>4. r.op \in SettingOps
      BY <2>2, PlayerIs, WhoCalls DEF Plays, r
    <2>5. w \in UnionValue
      BY <1>1, <2>3, <2>4, SettingTyped
    <2>. HIDE DEF w
    <2>. QED  BY <1>2, <1>3, <2>1, <2>3, <2>5 DEF Fine
  <1>14. CASE CacheSetting(s)
    <2>. DEFINE v == Value(s)
                x == IF r.op = "AddRoomRuleList" THEN r.id ELSE Wanted(r)
                w == [v EXCEPT !.set[SettingOf[r.op]] = x]
    <2>1. game' = [game EXCEPT !.values[r.handle].set[SettingOf[r.op]] = x]
      BY <1>14 DEF CacheSetting, r
    <2>2. Now(r) = "cacheSetting"
      BY <1>14, DoesCache DEF r
    <2>3. r.handle \in DOMAIN game.values /\ v \in UnionValue /\ v = game.values[r.handle]
      BY <1>1, <2>2 DEF HandleCalls, Value, r
    <2>4. r.op \in SettingOps
      BY <2>2, PlayerIs, WhoCalls DEF Plays, r
    <2>5. w \in UnionValue
      BY <1>1, <2>3, <2>4, SettingTyped
    <2>. HIDE DEF v, x
    <2>6. game' = [game EXCEPT !.values[r.handle] = w]
      BY <2>1, <2>3
    <2>. HIDE DEF w
    <2>. QED  BY <1>3, <2>3, <2>5, <2>6 DEF Fine
  <1>15. CASE \/ GetUnion(s) \/ FindUserData(s) \/ InRoom(s) \/ Proxy(s) \/ Rejoin(s)
              \/ StoreRoom(s) \/ StoreServer(s) \/ CheckHongBao(s) \/ CreditHongBao(s)
              \/ RecordHongBao(s) \/ StoreUid(s) \/ StoreSetting(s)
    <2>1. InDocs => game' = game
      BY DEF InDocs
    <2>. QED
      BY <1>2, <1>15, <2>1 DEF GetUnion, FindUserData, InRoom, Proxy, Rejoin, StoreRoom,
         StoreServer, CheckHongBao, CreditHongBao, RecordHongBao, StoreUid, StoreSetting, Fine
  <1>16. CASE GameFault(s) /\ Now(reqs[s]) # "init"
    BY <1>2, <1>16, DoesFault DEF Fine
  <1>17. PanicGame(s) => GamePanics
    BY DEF PanicGame
  <1>. QED
    BY <1>4, <1>5, <1>6, <1>8, <1>9, <1>10, <1>11, <1>12, <1>13, <1>14, <1>15, <1>16, <1>17
       DEF GameStep, Fine

-----------------------------------------------------------------------------
(* Types: the rest. *)

Sessions == [Users -> RoomIds \cup {NoRoom}]
Stocked == \A p \in Busy : StoresRoom(reqs[p])

\* The session keeps a room number or none.
LEMMA GameSessionTyped ==
    ASSUME NEW s, Plays(s), StoresRoom(reqs[s]), session \in Sessions, GameStep(s)
    PROVE  session' \in Sessions
  <1>. DEFINE r == reqs[s]
              Fine == session' \in Sessions
  <1>1. r.uid \in Users
    BY PlayerIs
  <1>2. session' = session => Fine
    OBVIOUS
  <1>3. Now(r) \in StoreCalls /\ session' = [session EXCEPT ![r.uid] = r.n] => Fine
    BY <1>1 DEF StoresRoom, Sessions
  <1>. HIDE DEF r, Fine
  <1>4. InMemory \/ InDocs \/ GamePanics => Fine
    BY <1>2 DEF InMemory, InDocs, GamePanics
  <1>5. CASE \/ GetUnion(s) \/ InitUnion(s) \/ KeepUnion(s) \/ FindUserData(s) \/ InRoom(s)
             \/ CreateRoom(s) \/ Proxy(s) \/ Rejoin(s) \/ JoinRoom(s) \/ StoreRoom(s)
             \/ PanicGame(s) \/ CheckHongBao(s) \/ KeepUid(s) \/ RecordHongBao(s)
             \/ StoreUid(s) \/ Setting(s) \/ StoreSetting(s) \/ CacheSetting(s)
    <2>. HIDE DEF InMemory, InDocs, GamePanics
    <2>. QED
      BY <1>4, <1>5 DEF GetUnion, InitUnion, KeepUnion, FindUserData, InRoom, CreateRoom, Proxy,
         Rejoin, JoinRoom, StoreRoom, PanicGame, CheckHongBao, KeepUid, RecordHongBao, StoreUid,
         Setting, StoreSetting, CacheSetting, Fine
  <1>6. CASE QuickJoin(s) \/ CreditHongBao(s)
    BY <1>4, <1>6, Zenon DEF QuickJoin, CreditHongBao, Fine
  <1>7. CASE StoreServer(s)
    <2>1. Now(r) \in StoreCalls /\ session' = [session EXCEPT ![r.uid] = r.n]
      BY <1>7, PlayerIs DEF StoreServer, StoreCalls, r
    <2>. QED  BY <1>3, <2>1 DEF Fine
  <1>8. CASE Leave(s) \/ Dismiss(s)
    BY <1>2, <1>8 DEF Leave, Dismiss, Fine
  <1>9. CASE GameFault(s)
    <2>1. \/ session' = session
          \/ At(s, "storeServer") /\ session' = [session EXCEPT ![r.uid] = r.n]
      BY <1>9 DEF GameFault, GamePanics, r
    <2>2. At(s, "storeServer") => Now(r) \in StoreCalls
      BY PlayerIs DEF StoreCalls, r
    <2>. QED  BY <1>2, <1>3, <2>1, <2>2 DEF Fine
  <1>. QED  BY <1>5, <1>6, <1>7, <1>8, <1>9 DEF GameStep, Fine

\* Who fails is a user, and the calls that fail are counted.
LEMMA FailuresTyped ==
    ASSUME Shaped, NEW s \in Busy, failed \subseteq Users, faults \in 0 .. MaxFaults,
           SharedStep(s) \/ HallStep(s) \/ GameStep(s)
    PROVE  failed' \subseteq Users /\ faults' \in 0 .. MaxFaults
  <1>. DEFINE Fine == failed' \subseteq Users /\ faults' \in 0 .. MaxFaults
  <1>0. MaxFaults \in Nat /\ \A p \in Slots : reqs[p] # Idle => reqs[p].uid \in Users
    BY DocsAssumption DEF Shaped, Formed, Busy
  <1>a. s \in Slots /\ reqs[s].uid \in Users
    BY <1>0 DEF Busy
  <1>1. Calm => Fine
    BY DEF Calm
  <1>2. Fail(s) => Fine
    BY <1>a DEF Fail
  <1>3. InMemory \/ InDocs => Calm
    BY DEF InMemory, InDocs
  <1>4. GamePanics => Fine
    BY <1>0 DEF GamePanics
  <1>. HIDE DEF Calm, Fine
  <1>5. CASE SharedStep(s)
    BY <1>1, <1>5 DEF SharedStep, UnLockSelf, UnLockOther, Exists, SetBegin, Incr, Fine
  <1>6. CASE HallStep(s)
    <2>1. Panic(s) => Fine
      BY <1>0 DEF Panic, HallPanics, Fine
    <2>2. HallFault(s) => Fine
      <3>1. HallFault(s) => /\ faults < MaxFaults /\ faults' = faults + 1
                            /\ failed' = failed \cup {reqs[s].uid}
        BY DEF HallFault
      <3>. QED  BY <1>0, <1>a, <3>1 DEF Fine
    <2>3. FindUnion(s) \/ FindInviter(s) \/ FindUser(s) \/ FindOther(s) \/ FindOwned(s)
          \/ InsertUnion(s) \/ AddToSet(s) \/ CountMember(s) \/ Push(s) \/ Pull(s)
          \/ Downlines(s) \/ UncountMember(s) \/ Lock(s) \/ Record(s)
          \/ RecordOther(s) => Calm
      BY DEF FindUnion, FindInviter, FindUser, FindOther, FindOwned, InsertUnion, AddToSet,
             CountMember, Push, Pull, Downlines, UncountMember, Lock, Record, RecordOther
    <2>4. UpdateSafe(s) => Fail(s)
      BY DEF UpdateSafe
    <2>5. SetPartner(s) => Fail(s) \/ Calm
      BY DEF SetPartner
    <2>6. Debit(s) => Fail(s) \/ Calm
      BY Zenon DEF Debit
    <2>7. Credit(s) => Fail(s) \/ Calm
      BY Zenon DEF Credit
    <2>8. Fine
      BY <1>1, <1>2, <1>6, <2>1, <2>2, <2>3, <2>4, <2>5, <2>6, <2>7 DEF HallStep
    <2>. QED  BY <2>8 DEF Fine
  <1>7. CASE GameStep(s)
    <2>1. GetUnion(s) \/ InitUnion(s) \/ KeepUnion(s) \/ InRoom(s) \/ CreateRoom(s) \/ Rejoin(s)
          \/ JoinRoom(s) \/ CheckHongBao(s) \/ KeepUid(s) \/ Setting(s) \/ CacheSetting(s)
          => InMemory
      BY DEF GetUnion, InitUnion, KeepUnion, InRoom, CreateRoom, Rejoin, JoinRoom,
             CheckHongBao, KeepUid, Setting, CacheSetting
    <2>2. FindUserData(s) \/ Proxy(s) \/ StoreRoom(s) \/ RecordHongBao(s) \/ StoreUid(s)
          \/ StoreSetting(s) => InDocs
      BY DEF FindUserData, Proxy, StoreRoom, RecordHongBao, StoreUid, StoreSetting
    <2>3. StoreServer(s) \/ Leave(s) \/ Dismiss(s) => Calm
      BY DEF StoreServer, Leave, Dismiss
    <2>4. QuickJoin(s) => GamePanics \/ InMemory
      BY Zenon DEF QuickJoin
    <2>5. CreditHongBao(s) => GamePanics \/ InDocs
      BY Zenon DEF CreditHongBao
    <2>6. PanicGame(s) => GamePanics
      BY DEF PanicGame
    <2>7. GameFault(s) => Fine
      <3>1. GameFault(s) => \/ GamePanics
                            \/ /\ faults < MaxFaults /\ faults' = faults + 1
                               /\ failed' = failed \cup {reqs[s].uid}
        BY Zenon DEF GameFault
      <3>2. faults < MaxFaults /\ faults' = faults + 1 /\ failed' = failed \cup {reqs[s].uid}
            => Fine
        BY <1>0, <1>a DEF Fine
      <3>. QED  BY <1>4, <3>1, <3>2
    <2>8. Fine
      BY <1>1, <1>3, <1>4, <1>7, <2>1, <2>2, <2>3, <2>4, <2>5, <2>6, <2>7 DEF GameStep
    <2>. QED  BY <2>8 DEF Fine
  <1>. QED  BY <1>5, <1>6, <1>7

\* A panic drops requests.
LEMMA PanicTyped ==
    ASSUME HallPanics \/ GamePanics, reqs \in Table, Stocked
    PROVE  reqs' \in Table /\ Stocked'
  <1>1. PICK L : reqs' = [p \in Slots |-> IF p \in L THEN Idle ELSE reqs[p]]
    <2>1. CASE HallPanics
      BY <2>1 DEF HallPanics
    <2>2. CASE GamePanics
      BY <2>2 DEF GamePanics
    <2>. QED  BY <2>1, <2>2
  <1>2. \A p \in Slots : reqs'[p] = IF p \in L THEN Idle ELSE reqs[p]
    BY <1>1
  <1>3. reqs' \in Table
    BY <1>1 DEF Table
  <1>4. Stocked'
    BY <1>2 DEF Stocked, Busy, StoresRoom, Now
  <1>. QED  BY <1>3, <1>4

\* One request goes on, and has a room if it stores one.
LEMMA OneStocked ==
    ASSUME Stocked, NEW s, OthersWait(s),
           \/ reqs'[s] = Idle
           \/ Now(reqs'[s]) \notin StoreCalls
           \/ reqs'[s].n \in RoomIds
    PROVE  Stocked'
  BY DEF Stocked, OthersWait, Busy, StoresRoom, Now

\* The hall stores no room.
LEMMA HallStocked ==
    ASSUME NEW s, Works(s), Stocked, SharedStep(s) \/ HallStep(s), ~Panic(s)
    PROVE  Stocked'
  <1>1. Quits(s) \/ HallTurns(s)
    BY HallGoes
  <1>2. HallCalls \cap StoreCalls = {}
    BY DEF HallCalls, StoreCalls
  <1>. QED  BY <1>1, <1>2, OneStocked DEF Quits, HallTurns

\* A request of the game server stores the room it made or came to.
LEMMA GameStocked ==
    ASSUME NEW s, Plays(s), Stocked, MemoryTyped, GameStep(s), ~GamePanics
    PROVE  Stocked'
  <1>. DEFINE r == reqs[s]
              Fine == Stocked'
  <1>1. s \in Busy /\ MemoryShaped /\ StoresRoom(r)
    BY DEF Plays, MemInv, Stocked
  <1>2. Quits(s) => Fine
    BY OneStocked DEF Quits
  <1>3. \A x : Moves(s, x) /\ (x \notin StoreCalls \/ reqs'[s].n \in RoomIds) => Fine
    BY OneStocked DEF Moves
  <1>4. \A x : Passes(s, x) /\ x \notin StoreCalls => Fine
    BY <1>3 DEF Passes
  <1>. HIDE DEF r, Fine
  <1>5. Proceeds(s) /\ (NextOf(s) \notin StoreCalls \/ Now(r) \in StoreCalls) => Fine
    <2>1. Proceeds(s) /\ NextOf(s) \in StoreCalls /\ Now(r) \in StoreCalls => Fine
      BY <1>1, <1>3 DEF Proceeds, Passes, StoresRoom, StoreCalls, r
    <2>. QED  BY <1>2, <1>4, <2>1 DEF Proceeds
  <1>a. \A op : AfterUnion(op) \notin StoreCalls
    BY DEF AfterUnion, StoreCalls
  <1>6. CASE GetUnion(s)
    <2>1. Passes(s, "init") \/ Moves(s, AfterUnion(r.op))
      BY <1>6, DoesGetUnion DEF r
    <2>. QED  BY <1>3, <1>4, <1>a, <2>1 DEF StoreCalls, Fine
  <1>7. CASE InitUnion(s) \/ (GameFault(s) /\ Now(reqs[s]) = "init")
    <2>1. Moves(s, "keepUnion")
      BY <1>7, DoesInit DEF Loads
    <2>. QED  BY <1>3, <2>1 DEF StoreCalls, Fine
  <1>8. CASE KeepUnion(s)
    BY <1>4, <1>8, <1>a, DoesKeep DEF Fine
  <1>9. CASE FindUserData(s) \/ InRoom(s) \/ Proxy(s) \/ CheckHongBao(s)
    <2>1. NextOf(s) \notin StoreCalls
      BY <1>9, DoesRead DEF NextOf, NextCall, StoreCalls
    <2>. QED  BY <1>2, <1>4, <1>9, <2>1, DoesRead DEF Fine
  <1>10. CASE Rejoin(s)
    <2>1. Moves(s, "findUser")
      BY <1>10, DoesRejoin
    <2>. QED  BY <1>3, <2>1 DEF StoreCalls, Fine
  <1>11. CASE CreateRoom(s)
    <2>1. \/ Quits(s)
          \/ \E id \in RoomIds : Moves(s, "storeRoom") /\ reqs'[s].n = id
      BY <1>11, DoesCreate
    <2>. QED  BY <1>2, <1>3, <2>1 DEF Fine
  <1>12. CASE JoinRoom(s) \/ QuickJoin(s)
    <2>1. Quits(s) \/ \E h, id : Comes(s, h, id)
      BY <1>12, DoesEnter
    <2>2. ASSUME NEW h, NEW id, Comes(s, h, id)
          PROVE  Fine
      <3>1. id \in RoomIds /\ reqs'[s].n = id
        BY <1>1, <2>2, MemoryFinds DEF Comes
      <3>. QED  BY <1>3, <2>2, <3>1 DEF Comes
    <2>. QED  BY <1>2, <2>1, <2>2 DEF Fine
  <1>13. CASE StoreRoom(s) \/ StoreServer(s)
    BY <1>5, <1>13, DoesStore DEF Fine, r
  <1>14. CASE Leave(s) \/ Dismiss(s) \/ StoreUid(s) \/ CacheSetting(s)
    BY <1>2, <1>14, DoesLeave, DoesDismiss, DoesStoreUid, DoesCache DEF Fine
  <1>15. CASE CreditHongBao(s) \/ RecordHongBao(s)
    <2>1. NextOf(s) \notin StoreCalls
      BY <1>15, DoesCredit DEF NextOf, NextCall, StoreCalls
    <2>. QED  BY <1>4, <1>15, <2>1, DoesCredit DEF Fine
  <1>16. CASE KeepUid(s)
    BY <1>4, <1>16, DoesKeepUid DEF StoreCalls, Fine
  <1>17. CASE Setting(s)
    BY <1>2, <1>4, <1>17, DoesSetting DEF StoreCalls, Fine
  <1>18. CASE StoreSetting(s)
    <2>1. Quits(s) \/ Moves(s, "cacheSetting")
      BY <1>18, DoesStoreSetting
    <2>. QED  BY <1>2, <1>3, <2>1 DEF StoreCalls, Fine
  <1>19. CASE GameFault(s) /\ Now(reqs[s]) # "init"
    <2>1. Quits(s) \/ (GoOn(s, r) /\ At(s, "storeSetting"))
      <3>1. Refuse(s) \/ (GoOn(s, r) /\ At(s, "storeSetting"))
        BY <1>19, PlayerIs DEF GameFault, AtOp, r
      <3>. QED  BY <3>1, PlayerGoes
    <2>2. GoOn(s, r) => Proceeds(s)
      BY PlayerGoes DEF r
    <2>3. At(s, "storeSetting") => NextOf(s) \notin StoreCalls
      BY PlayerIs DEF NextOf, NextCall, StoreCalls
    <2>. QED  BY <1>2, <1>5, <2>1, <2>2, <2>3 DEF Fine
  <1>20. PanicGame(s) => GamePanics
    BY DEF PanicGame
  <1>. QED
    BY <1>6, <1>7, <1>8, <1>9, <1>10, <1>11, <1>12, <1>13, <1>14, <1>15, <1>16, <1>17, <1>18,
       <1>19, <1>20 DEF GameStep, Fine

\* A message that arrives.
LEMMA ArriveTyped ==
    ASSUME Shaped, reqs \in Table, session \in Sessions, Stocked, start \in DOMAIN Starts,
           NEW s \in Slots, Arrive(s)
    PROVE  reqs' \in Table /\ Stocked'
  <1>0. OthersWait(s)
    BY ArriveIs
  <1>1. PICK c \in Starts[start].calls : reqs' = [reqs EXCEPT ![s] = NewRequest(c)]
    BY DEF Arrive
  <1>. DEFINE k == NewRequest(c)
              q == StepsOf(c.op)
  <1>2. c \in [op : HallOps \cup GameOps, uid : Users, other : Users, union : Nat, n : Nat]
    BY ClubsAssumption
  <1>3. c.op \in HallOps \cup GameOps
    BY <1>2
  <1>4. q \in Seq(Calls)
    <2>1. IsSeq(q)
      <3>1. OnPath(k) /\ k.op = c.op /\ k.todo = q /\ k.op \in Ops
        BY NewOnPath
      <3>. HIDE DEF k, q
      <3>. QED  BY <3>1 DEF OnPath, Path, IsSeq
    <2>2. \A i \in DOMAIN q : q[i] \in Calls
      <3>1. ToSet(q) \subseteq Calls
        BY <1>3 DEF Calls
      <3>. HIDE DEF q
      <3>. QED  BY <3>1 DEF ToSet
    <2>. HIDE DEF q
    <2>. QED  BY <2>1, <2>2, ListTyped
  <1>5. k \in Requests
    <2>1. session[c.uid] \in RoomIds \cup {NoRoom}
      BY <1>2 DEF Sessions
    <2>. HIDE DEF q
    <2>2. k = [op |-> c.op, uid |-> c.uid, other |-> c.other, union |-> c.union, n |-> c.n,
               todo |-> q, holds |-> FALSE, owner |-> FALSE, unions |-> {},
               spreader |-> NoUser, id |-> 0, sess |-> session[c.uid], handle |-> 0]
      BY DEF NewRequest, q
    <2>. HIDE DEF k
    <2>. QED  BY <1>2, <1>4, <2>1, <2>2 DEF Requests, Request
  <1>6. Now(k) \notin StoreCalls
    BY NewOnPath DEF Ops, HallCalls, StoreCalls
  <1>. HIDE DEF k
  <1>7. reqs' = [reqs EXCEPT ![s] = k]
    BY <1>1 DEF k
  <1>8. reqs'[s] = k /\ reqs' \in Table
    BY <1>5, <1>7 DEF Table
  <1>. QED  BY <1>0, <1>6, <1>8, OneStocked

-----------------------------------------------------------------------------

\* Everything has its type, and a request that stores a room has one.
TypesInv ==
    /\ db \in Docs /\ reqs \in Table /\ Stocked
    /\ failed \subseteq Users /\ faults \in 0 .. MaxFaults
    /\ MemoryTyped /\ session \in Sessions

\* At the start.
LEMMA TypesAtStart ==
    ASSUME Init
    PROVE  TypesInv /\ start \in DOMAIN Starts
  <1>1. db \in Docs /\ start \in DOMAIN Starts /\ Busy = {}
    BY StartsShaped, ClubsAssumption DEF Init
  <1>2. reqs \in Table /\ session \in Sessions
    BY DEF Init, Table, Sessions
  <1>3. failed \subseteq Users /\ faults \in 0 .. MaxFaults
    BY DocsAssumption DEF Init
  <1>4. MemoryTyped
    BY DEF Init, NewUnionManager, MemoryTyped
  <1>. QED  BY <1>1, <1>2, <1>3, <1>4 DEF TypesInv, Stocked

\* Every step.
LEMMA TypesStay ==
    ASSUME OwnInv, MemInv, start \in DOMAIN Starts, TypesInv, [Next]_vars
    PROVE  TypesInv'
  <1>0. Shaped
    BY DEF OwnInv
  <1>1. ASSUME NEW s \in Slots, Arrive(s)
        PROVE  TypesInv'
    <2>1. reqs' \in Table /\ Stocked'
      BY <1>0, <1>1, ArriveTyped DEF TypesInv
    <2>2. db' = db /\ failed' = failed /\ faults' = faults /\ game' = game /\ session' = session
      BY <1>1 DEF Arrive
    <2>. QED  BY <2>1, <2>2 DEF TypesInv, MemoryTyped
  <1>2. CASE UNCHANGED vars
    BY <1>2 DEF vars, TypesInv, MemoryTyped, Stocked, Busy, StoresRoom, Now
  <1>3. ASSUME NEW s \in Busy, Works(s), SharedStep(s) \/ HallStep(s), game' = game,
               session' = session
        PROVE  TypesInv'
    <2>1. db' \in Docs
      BY <1>3, HallDocsTyped DEF TypesInv
    <2>2. failed' \subseteq Users /\ faults' \in 0 .. MaxFaults
      BY <1>0, <1>3, FailuresTyped DEF TypesInv
    <2>3. reqs' \in Table /\ Stocked'
      <3>1. CASE Panic(s)
        BY <3>1, PanicTyped DEF Panic, TypesInv
      <3>2. CASE ~Panic(s)
        BY <1>3, <3>2, HallTyped, HallStocked DEF TypesInv
      <3>. QED  BY <3>1, <3>2
    <2>. QED  BY <1>3, <2>1, <2>2, <2>3 DEF TypesInv, MemoryTyped
  <1>4. ASSUME NEW s \in Busy, Plays(s), GameStep(s), ~GamePanics
        PROVE  TypesInv'
    <2>0. StoresRoom(reqs[s])
      BY DEF TypesInv, Stocked
    <2>1. db' \in Docs /\ session' \in Sessions
      BY <1>4, <2>0, GameDocsTyped, GameSessionTyped DEF TypesInv
    <2>2. failed' \subseteq Users /\ faults' \in 0 .. MaxFaults
      BY <1>0, <1>4, FailuresTyped DEF TypesInv
    <2>3. reqs' \in Table /\ Stocked' /\ MemoryTyped'
      BY <1>4, GameTyped, GameStocked, GameMemoryTyped DEF TypesInv
    <2>. QED  BY <2>1, <2>2, <2>3 DEF TypesInv
  <1>5. ASSUME GamePanics
        PROVE  TypesInv'
    <2>1. reqs' \in Table /\ Stocked'
      BY <1>5, PanicTyped DEF TypesInv
    <2>2. db' = db /\ faults' = faults /\ session' = session /\ MemoryTyped'
      BY <1>5 DEF GamePanics, NewUnionManager, MemoryTyped
    <2>3. failed' \subseteq Users
      BY <1>0, <1>5 DEF GamePanics, TypesInv, Shaped, Formed, Busy
    <2>. QED  BY <2>1, <2>2, <2>3 DEF TypesInv
  <1>. QED  BY <1>1, <1>2, <1>3, <1>4, <1>5, EveryStep

\* Documents, requests and the memory of the game server are of their types in
\* every state of every behaviour; a request that stores a room has one.
THEOREM ClubsTypesHold == Spec => []TypeOK
  <1>1. Init => TypesInv /\ start \in DOMAIN Starts
    BY TypesAtStart
  <1>2. OwnInv /\ MemInv /\ TypesInv /\ start \in DOMAIN Starts /\ [Next]_vars
           => (TypesInv /\ start \in DOMAIN Starts)'
    BY TypesStay, EveryStep
  <1>3. MemInv /\ TypesInv => TypeOK
    <2>. SUFFICES ASSUME MemInv, TypesInv
                  PROVE  TypeOK
      OBVIOUS
    <2>1. \A v \in ToSet(game.values) : v \in UnionValue
      BY DEF TypesInv, MemoryTyped, ToSet
    <2>2. \A x \in DOMAIN game.unionList : game.unionList[x] \in DOMAIN game.values
      BY DEF MemInv, MemoryShaped
    <2>. QED  BY <2>1, <2>2 DEF TypeOK, TypesInv, Table, Sessions
  <1>. QED  BY <1>1, <1>2, <1>3, LocksHaveOneOwner, MemoryStaysShaped, PTL DEF Spec
=============================================================================
