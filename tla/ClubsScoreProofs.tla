-------------------------- MODULE ClubsScoreProofs --------------------------
(***************************************************************************)
(* What is proved of the scores of members, for any users, documents,      *)
(* requests and number of requests at a time.                              *)
(*                                                                         *)
(* A request that pays reads the payer's score, and takes it in a later    *)
(* call.  The invariant says that in between the score stays high enough:  *)
(* other calls only let it grow, and another request of the payer that     *)
(* takes from it would need his lock, or clashes with a GiveScore.         *)
(***************************************************************************)
EXTENDS ClubsProofs

\* The requests that take a score away.
Payers == {"ModifyScore", "GiveScore"}

GiveCourse == {
    <<"findUnion", "findUser", "findOther", "debit", "credit", "record", "recordOther">>,
    <<"findUser", "findOther", "debit", "credit", "record", "recordOther">>,
    <<"findOther", "debit", "credit", "record", "recordOther">>,
    <<"debit", "credit", "record", "recordOther">>,
    <<"unLockSelf", "credit", "record", "recordOther">>,
    <<"credit", "record", "recordOther">>, <<"record", "recordOther">>, <<"recordOther">>,
    <<"unLockSelf">>, <<"credit", "panic">>, <<"panic">>}

\* The calls of the other requests that take no lock.
PlainCalls(op) ==
    FreeCalls \ (IF op \in {"InviteJoinUnion", "AddPartner"} THEN {"debit", "credit"}
                 ELSE {"debit", "credit", "findOther"})

OnWay(r) ==
    /\ r.op = "GiveScore" => r.todo \in GiveCourse
    /\ r.op \in Payers => r.n \in Nat
    /\ r.op \notin Payers \cup Lockers => r.todo \in Seq(PlainCalls(r.op))

EntryFields == {"union", "invite", "spreader", "score", "partner"}

\* A list of unionInfo.
IsList(q) ==
    /\ \E S : q \in Seq(S)
    /\ \A i \in DOMAIN q : DOMAIN q[i] = EntryFields /\ q[i].score \in Int

\* EntryOf and InUnion of a list.
EntryIn(q, x) == SelectInSeq(q, LAMBDA e : e.union = x)
Covers(q, x, n) == EntryIn(q, x) # 0 /\ q[EntryIn(q, x)].score >= n

\* Nobody but an owner owes anything.
Paid(q) ==
    IsList(q) /\ \A i \in DOMAIN q : q[i].score >= 0 \/ q[i].spreader = NoUser

\* No score of q is less in p.
Grows(q, p) ==
    /\ IsList(p) /\ DOMAIN q \subseteq DOMAIN p
    /\ \A i \in DOMAIN q :
          /\ p[i].union = q[i].union /\ p[i].score >= q[i].score
          /\ q[i].spreader = NoUser => p[i].spreader = NoUser
    /\ \A i \in DOMAIN p : i \in DOMAIN q \/ p[i].score >= 0

Info(u) == db.users[u].info
Excused(u) == <<"score", u>> \in hist.clashed \/ u \in hist.released \cup hist.left

\* What a request that is about to pay relies on.
Backs(q, r) ==
    /\ Head(r.todo) = "findOther" /\ ~r.owner => Covers(q, r.union, r.n)
    /\ Head(r.todo) = "debit" => Covers(q, r.union, r.n)

\* A user owes nothing and backs his requests.
Solvent(u) ==
    \/ Excused(u)
    \/ /\ Paid(Info(u))
       /\ \A s \in Busy : reqs[s].uid = u /\ reqs[s].op \in Payers => Backs(Info(u), reqs[s])

Funded == \A u \in Users : Solvent(u)

PayInv == (\A s \in Busy : OnWay(reqs[s])) /\ Funded

-----------------------------------------------------------------------------
(* The first entry of a union in a list. *)

\* SelectInSeq finds the first.
LEMMA EntryInIs ==
    ASSUME NEW q, \E S : q \in Seq(S), NEW x
    PROVE  \/ EntryIn(q, x) = 0 /\ \A i \in DOMAIN q : q[i].union # x
           \/ /\ EntryIn(q, x) \in DOMAIN q
              /\ q[EntryIn(q, x)].union = x
              /\ \A i \in DOMAIN q : q[i].union = x => EntryIn(q, x) <= i
  <1>. DEFINE I == {i \in 1 .. Len(q) : q[i].union = x}
  <1>1. EntryIn(q, x) = IF I # {} THEN Min(I) ELSE 0
    BY DEF EntryIn, SelectInSeq
  <1>2. DOMAIN q = 1 .. Len(q) /\ Len(q) \in Nat
    OBVIOUS
  <1>3. I # {} => Min(I) \in I /\ \A k \in I : Min(I) <= k
    <2>1. I \in SUBSET Nat
      BY <1>2
    <2>. HIDE DEF I
    <2>. QED  BY <2>1, LeastExists DEF Min
  <1>. QED  BY <1>1, <1>2, <1>3

\* The entry stays the first of its union, and its score what it was or more.
LEMMA GrowingCovers ==
    ASSUME NEW q, IsList(q), NEW p, Grows(q, p), NEW x, NEW n \in Nat, Covers(q, x, n)
    PROVE  Covers(p, x, n)
  <1>. DEFINE k == EntryIn(q, x)
              m == EntryIn(p, x)
  <1>0. /\ DOMAIN q = 1 .. Len(q) /\ Len(q) \in Nat
        /\ DOMAIN p = 1 .. Len(p) /\ Len(p) \in Nat
        /\ (\E S : q \in Seq(S)) /\ (\E S : p \in Seq(S)) /\ IsList(p)
        /\ \A i \in DOMAIN q : q[i].score \in Int
        /\ \A i \in DOMAIN p : p[i].score \in Int
    BY DEF IsList, Grows
  <1>1. k \in DOMAIN q /\ q[k].union = x /\ q[k].score >= n
        /\ \A i \in DOMAIN q : q[i].union = x => k <= i
    <2>1. k # 0 /\ q[k].score >= n
      BY DEF Covers
    <2>. HIDE DEF k
    <2>. QED  BY <1>0, <2>1, EntryInIs DEF k
  <1>2. k \in DOMAIN p /\ p[k].union = x
    BY <1>1 DEF Grows
  <1>3. m \in DOMAIN p /\ p[m].union = x /\ m <= k
    <2>. HIDE DEF m, k
    <2>. QED  BY <1>0, <1>2, EntryInIs DEF m
  <1>4. m \in DOMAIN q
    BY <1>0, <1>1, <1>3
  <1>5. m = k
    <2>1. q[m].union = x
      BY <1>3, <1>4 DEF Grows
    <2>. QED  BY <1>0, <1>1, <1>3, <1>4, <2>1
  <1>6. p[m].score >= n
    <2>1. p[k].score >= q[k].score /\ p[k].score \in Int /\ q[k].score \in Int
      BY <1>0, <1>1, <1>2 DEF Grows
    <2>. QED  BY <1>1, <1>5, <2>1
  <1>7. m # 0
    BY <1>0, <1>3
  <1>. QED  BY <1>6, <1>7 DEF Covers

\* Who owes nothing goes on to owe nothing.
LEMMA GrowingPays ==
    ASSUME NEW q, Paid(q), NEW p, Grows(q, p)
    PROVE  Paid(p)
  <1>1. /\ \A i \in DOMAIN q : q[i].score \in Int
        /\ \A i \in DOMAIN p : p[i].score \in Int
        /\ IsList(p)
    BY DEF Paid, IsList, Grows
  <1>2. ASSUME NEW i \in DOMAIN p
        PROVE  p[i].score >= 0 \/ p[i].spreader = NoUser
    BY <1>1 DEF Paid, Grows
  <1>. QED  BY <1>1, <1>2 DEF Paid

\* A list is as good as itself.
LEMMA StayingGrows ==
    ASSUME NEW q, IsList(q)
    PROVE  Grows(q, q)
  BY DEF IsList, Grows

-----------------------------------------------------------------------------
(* What the calls make of the lists. *)

\* The lists of these users in d are theirs, or grew.
Grown(d, U) == \A u \in U : IsList(Info(u)) => Grows(Info(u), d.users[u].info)

\* One user's document is replaced.
LEMMA OneDocument ==
    ASSUME HasLocks(db), NEW u \in Users, NEW w
    PROVE  LET d == [db EXCEPT !.users = [db.users EXCEPT ![u] = w]]
           IN d.users[u] = w /\ \A v \in Users \ {u} : d.users[v] = db.users[v]
  <1>. DEFINE us == [db.users EXCEPT ![u] = w]
              d == [db EXCEPT !.users = us]
  <1>1. us[u] = w /\ \A v \in Users \ {u} : us[v] = db.users[v]
    BY DEF HasLocks
  <1>. HIDE DEF us
  <1>2. d.users = us
    BY DEF HasLocks
  <1>. HIDE DEF d
  <1>3. d.users[u] = w /\ \A v \in Users \ {u} : d.users[v] = db.users[v]
    BY <1>1, <1>2
  <1>. QED  BY <1>3 DEF d, us

\* One user's list is replaced.
LEMMA OneList ==
    ASSUME HasLocks(db), NEW u \in Users, NEW list
    PROVE  LET d == [db EXCEPT !.users[u].info = list]
           IN d.users[u].info = list /\ \A v \in Users \ {u} : d.users[v].info = Info(v)
  <1>. DEFINE w == [db.users[u] EXCEPT !.info = list]
              d == [db EXCEPT !.users[u].info = list]
  <1>1. w.info = list
    BY DEF HasLocks, UserFields
  <1>2. d = [db EXCEPT !.users = [db.users EXCEPT ![u] = w]]
    OBVIOUS
  <1>. HIDE DEF w, d
  <1>3. d.users[u] = w /\ \A v \in Users \ {u} : d.users[v] = db.users[v]
    BY <1>2, OneDocument
  <1>4. d.users[u].info = list /\ \A v \in Users \ {u} : d.users[v].info = Info(v)
    BY <1>1, <1>3 DEF Info
  <1>. QED  BY <1>4 DEF d

\* A lock is not in a list.
LEMMA LockingLists ==
    ASSUME NEW d, HasLocks(d), NEW u \in Users, NEW b
    PROVE  \A v \in Users : Locking(d, u, b).users[v].info = d.users[v].info
  <1>. DEFINE w == [d.users[u] EXCEPT !.lock = b]
              us == [d.users EXCEPT ![u] = w]
              e == [d EXCEPT !.users = us]
  <1>0. Locking(d, u, b) = e
    BY DEF Locking
  <1>1. w.info = d.users[u].info
    BY DEF HasLocks, UserFields
  <1>. HIDE DEF w
  <1>2. us[u] = w /\ \A v \in Users \ {u} : us[v] = d.users[v]
    BY DEF HasLocks
  <1>. HIDE DEF us
  <1>3. e.users = us
    BY DEF HasLocks
  <1>. HIDE DEF e
  <1>. QED  BY <1>0, <1>1, <1>2, <1>3

\* Nor is a room.
LEMMA RoomLists ==
    ASSUME HasLocks(db), NEW u \in Users, NEW x
    PROVE  \A v \in Users : [db EXCEPT !.users[u].room = x].users[v].info = Info(v)
  <1>. DEFINE w == [db.users[u] EXCEPT !.room = x]
              d == [db EXCEPT !.users[u].room = x]
  <1>1. w.info = Info(u)
    BY DEF HasLocks, UserFields, Info
  <1>2. d = [db EXCEPT !.users = [db.users EXCEPT ![u] = w]]
    OBVIOUS
  <1>. HIDE DEF w, d
  <1>3. d.users[u] = w /\ \A v \in Users \ {u} : d.users[v] = db.users[v]
    BY <1>2, OneDocument
  <1>4. \A v \in Users : d.users[v].info = Info(v)
    BY <1>1, <1>3 DEF Info
  <1>. QED  BY <1>4 DEF d

\* What an update of one entry leaves.
LEMMA OneEntry ==
    ASSUME NEW q, IsList(q), NEW k \in DOMAIN q, NEW e, DOMAIN e = EntryFields,
           e.score \in Int
    PROVE  LET p == [q EXCEPT ![k] = e]
           IN /\ IsList(p) /\ DOMAIN p = DOMAIN q /\ p[k] = e
              /\ \A i \in DOMAIN q : i # k => p[i] = q[i]
  <1>. DEFINE p == [q EXCEPT ![k] = e]
  <1>1. PICK S : q \in Seq(S)
    BY DEF IsList
  <1>2. p \in Seq(S \cup {e}) /\ DOMAIN p = DOMAIN q /\ p[k] = e
        /\ \A i \in DOMAIN q : i # k => p[i] = q[i]
    BY <1>1
  <1>. HIDE DEF p
  <1>3. IsList(p)
    BY <1>2 DEF IsList
  <1>. QED  BY <1>2, <1>3 DEF p

\* A score that is changed.
LEMMA ScoreChanges ==
    ASSUME HasLocks(db), NEW u \in Users, NEW x, NEW n \in Int, IsList(Info(u)),
           EntryIn(Info(u), x) # 0
    PROVE  LET q == Info(u)
               k == EntryIn(q, x)
               p == IncScore(db, u, x, n).users[u].info
           IN /\ k \in DOMAIN q /\ IsList(p) /\ DOMAIN p = DOMAIN q
              /\ \A i \in DOMAIN q : i # k => p[i] = q[i]
              /\ p[k].score = q[k].score + n /\ p[k].union = q[k].union
              /\ p[k].spreader = q[k].spreader
  <1>. DEFINE q == Info(u)
              k == EntryIn(q, x)
              e == [q[k] EXCEPT !.score = @ + n]
              p == [q EXCEPT ![k] = e]
              d == IncScore(db, u, x, n)
  <1>1. k \in DOMAIN q
    <2>1. \E S : q \in Seq(S)
      BY DEF IsList
    <2>. HIDE DEF q
    <2>. QED  BY <2>1, EntryInIs DEF q
  <1>2. /\ DOMAIN e = EntryFields /\ e.score = q[k].score + n /\ e.score \in Int
        /\ e.union = q[k].union /\ e.spreader = q[k].spreader
    <2>1. DOMAIN q[k] = EntryFields /\ q[k].score \in Int
      BY <1>1 DEF IsList
    <2>. HIDE DEF q, k
    <2>. QED  BY <2>1 DEF EntryFields
  <1>3. d.users[u].info = p
    <2>1. d = [db EXCEPT !.users[u].info = p]
      BY DEF IncScore, EntryOf, EntryIn, Info
    <2>. HIDE DEF d, p
    <2>. QED  BY <2>1, OneList
  <1>4. /\ IsList(p) /\ DOMAIN p = DOMAIN q /\ p[k] = e
        /\ \A i \in DOMAIN q : i # k => p[i] = q[i]
    <2>. HIDE DEF q, k, e
    <2>. QED  BY <1>1, <1>2, OneEntry DEF q
  <1>. HIDE DEF p, e, d
  <1>5. d.users[u].info = p /\ p[k].score = q[k].score + n /\ p[k].union = q[k].union
        /\ p[k].spreader = q[k].spreader
    BY <1>2, <1>3, <1>4
  <1>. QED  BY <1>1, <1>4, <1>5 DEF d

\* The lists of the other users stay.
LEMMA OtherScores ==
    ASSUME HasLocks(db), NEW u \in Users, NEW x, NEW n
    PROVE  \A v \in Users \ {u} : IncScore(db, u, x, n).users[v].info = Info(v)
  <1>. DEFINE p == [Info(u) EXCEPT ![EntryOf(u, x)].score = @ + n]
  <1>1. IncScore(db, u, x, n) = [db EXCEPT !.users[u].info = p]
    BY DEF IncScore, Info
  <1>. HIDE DEF p
  <1>. QED  BY <1>1, OneList

\* A score that is raised, or an entry whose other fields change, lets the
\* list grow.
LEMMA RaisedGrows ==
    ASSUME HasLocks(db), NEW u \in Users, NEW x, NEW n \in Nat, InUnion(u, x)
    PROVE  Grown(IncScore(db, u, x, n), Users)
  <1>. DEFINE d == IncScore(db, u, x, n)
              q == Info(u)
              k == EntryIn(q, x)
              p == d.users[u].info
  <1>1. k # 0
    BY DEF InUnion, EntryOf, EntryIn, Info
  <1>2. \A v \in Users \ {u} : d.users[v].info = Info(v)
    BY OtherScores
  <1>3. ASSUME IsList(q)
        PROVE  Grows(q, p)
    <2>1. /\ k \in DOMAIN q /\ IsList(p) /\ DOMAIN p = DOMAIN q
          /\ \A i \in DOMAIN q : i # k => p[i] = q[i]
          /\ p[k].score = q[k].score + n /\ p[k].union = q[k].union
          /\ p[k].spreader = q[k].spreader
      BY <1>1, <1>3, ScoreChanges
    <2>2. \A i \in DOMAIN q : q[i].score \in Int
      BY <1>3 DEF IsList
    <2>. HIDE DEF p, q, k
    <2>. QED  BY <2>1, <2>2 DEF Grows
  <1>. HIDE DEF d
  <1>4. ASSUME NEW v \in Users, IsList(Info(v))
        PROVE  Grows(Info(v), d.users[v].info)
    BY <1>2, <1>3, <1>4, StayingGrows
  <1>5. Grown(d, Users)
    BY <1>4 DEF Grown
  <1>. QED  BY <1>5 DEF d

\* To make a member a partner changes no score.
LEMMA PartnerGrows ==
    ASSUME HasLocks(db), NEW u \in Users, NEW x, InUnion(u, x)
    PROVE  Grown([db EXCEPT !.users[u].info[EntryOf(u, x)].partner = TRUE], Users)
  <1>. DEFINE q == Info(u)
              k == EntryIn(q, x)
              e == [q[k] EXCEPT !.partner = TRUE]
              p == [q EXCEPT ![k] = e]
              d == [db EXCEPT !.users[u].info = p]
  <1>1. d = [db EXCEPT !.users[u].info[EntryOf(u, x)].partner = TRUE]
    BY DEF EntryOf, EntryIn, Info
  <1>2. d.users[u].info = p /\ \A v \in Users \ {u} : d.users[v].info = Info(v)
    <2>. HIDE DEF p
    <2>. QED  BY OneList
  <1>3. ASSUME IsList(q)
        PROVE  Grows(q, p)
    <2>1. k \in DOMAIN q
      <3>1. k # 0 /\ \E S : q \in Seq(S)
        BY <1>3 DEF InUnion, EntryOf, EntryIn, Info, IsList
      <3>. HIDE DEF q
      <3>. QED  BY <3>1, EntryInIs DEF q
    <2>2. DOMAIN q[k] = EntryFields /\ \A i \in DOMAIN q : q[i].score \in Int
      BY <1>3, <2>1 DEF IsList
    <2>3. /\ DOMAIN e = EntryFields /\ e.score = q[k].score
          /\ e.union = q[k].union /\ e.spreader = q[k].spreader
      <3>. HIDE DEF q, k
      <3>. QED  BY <2>2 DEF EntryFields
    <2>. HIDE DEF e
    <2>4. /\ IsList(p) /\ DOMAIN p = DOMAIN q /\ p[k] = e
          /\ \A i \in DOMAIN q : i # k => p[i] = q[i]
      <3>. HIDE DEF q, k
      <3>. QED  BY <1>3, <2>1, <2>2, <2>3, OneEntry DEF q
    <2>. HIDE DEF p, q, k
    <2>. QED  BY <2>1, <2>2, <2>3, <2>4 DEF Grows
  <1>. HIDE DEF d, p
  <1>4. ASSUME NEW v \in Users, IsList(Info(v))
        PROVE  Grows(Info(v), d.users[v].info)
    BY <1>2, <1>3, <1>4, StayingGrows
  <1>5. Grown(d, Users)
    BY <1>4 DEF Grown
  <1>. QED  BY <1>1, <1>5

\* An entry without a debt is added.
LEMMA PushGrows ==
    ASSUME HasLocks(db), NEW u \in Users, NEW e, DOMAIN e = EntryFields, e.score = 0
    PROVE  Grown(PushEntry(db, u, e), Users)
  <1>. DEFINE q == Info(u)
              p == Append(q, e)
              d == [db EXCEPT !.users[u].info = p]
  <1>1. PushEntry(db, u, e) = d
    BY DEF PushEntry, Info
  <1>2. d.users[u].info = p /\ \A v \in Users \ {u} : d.users[v].info = Info(v)
    <2>. HIDE DEF p
    <2>. QED  BY OneList
  <1>3. ASSUME IsList(q)
        PROVE  Grows(q, p)
    <2>1. PICK S : q \in Seq(S)
      BY <1>3 DEF IsList
    <2>. HIDE DEF q
    <2>2. /\ p \in Seq(S \cup {e}) /\ DOMAIN q = 1 .. Len(q) /\ Len(q) \in Nat
          /\ DOMAIN p = 1 .. Len(q) + 1
          /\ \A i \in DOMAIN q : p[i] = q[i]
          /\ p[Len(q) + 1] = e
      BY <2>1
    <2>. HIDE DEF p
    <2>3. \A i \in DOMAIN p : i \in DOMAIN q \/ p[i] = e
      BY <2>2
    <2>4. IsList(p)
      BY <1>3, <2>2, <2>3 DEF IsList
    <2>. QED  BY <1>3, <2>2, <2>3, <2>4 DEF Grows, IsList
  <1>. HIDE DEF d, p
  <1>4. ASSUME NEW v \in Users, IsList(Info(v))
        PROVE  Grows(Info(v), d.users[v].info)
    BY <1>2, <1>3, <1>4, StayingGrows
  <1>5. Grown(d, Users)
    BY <1>4 DEF Grown
  <1>. QED  BY <1>1, <1>5

\* The users below one who leaves get another spreader; an owner's stays.
LEMMA DownlinesGrow ==
    ASSUME HasLocks(db), NEW x, NEW from \in Users, NEW to
    PROVE  Grown(MoveDownlines(db, x, from, to), Users)
  <1>. DEFINE Low(u) == SelectInSeq(Info(u), LAMBDA e : e.union = x /\ e.spreader = from)
              us == [u \in Users |->
                        IF Low(u) = 0 THEN db.users[u]
                        ELSE [db.users[u] EXCEPT !.info[Low(u)].spreader = to]]
              d == MoveDownlines(db, x, from, to)
  <1>1. d = [db EXCEPT !.users = us]
    BY DEF MoveDownlines, Info
  <1>. HIDE DEF us
  <1>2. d.users = us
    BY <1>1 DEF HasLocks
  <1>. HIDE DEF d
  <1>3. ASSUME NEW u \in Users, IsList(Info(u))
        PROVE  Grows(Info(u), d.users[u].info)
    <2>. DEFINE q == Info(u)
                k == Low(u)
                e == [q[k] EXCEPT !.spreader = to]
                p == [q EXCEPT ![k] = e]
    <2>1. k = 0 \/ (k \in DOMAIN q /\ q[k].spreader = from)
      <3>. DEFINE I == {i \in 1 .. Len(q) : q[i].union = x /\ q[i].spreader = from}
      <3>1. k = IF I # {} THEN Min(I) ELSE 0
        BY DEF SelectInSeq
      <3>2. DOMAIN q = 1 .. Len(q) /\ Len(q) \in Nat
        BY <1>3 DEF IsList
      <3>3. I # {} => Min(I) \in I
        <4>1. I \in SUBSET Nat
          BY <3>2
        <4>. HIDE DEF I
        <4>. QED  BY <4>1, LeastExists DEF Min
      <3>. QED  BY <3>1, <3>2, <3>3
    <2>. HIDE DEF Low
    <2>2. CASE k = 0
      <3>1. us[u] = db.users[u]
        BY <2>2 DEF us
      <3>. QED  BY <1>2, <1>3, <3>1, StayingGrows DEF Info
    <2>3. CASE k # 0
      <3>1. us[u] = [db.users[u] EXCEPT !.info = p]
        BY <2>3 DEF us, Info
      <3>2. [db.users[u] EXCEPT !.info = p].info = p
        <4>. HIDE DEF p
        <4>. QED  BY DEF HasLocks, UserFields
      <3>3. d.users[u].info = p
        BY <1>2, <3>1, <3>2
      <3>4. k \in DOMAIN q /\ q[k].spreader # NoUser
        BY <2>1, <2>3, DocsAssumption
      <3>5. DOMAIN q[k] = EntryFields /\ \A i \in DOMAIN q : q[i].score \in Int
        BY <1>3, <3>4 DEF IsList
      <3>6. DOMAIN e = EntryFields /\ e.score = q[k].score /\ e.union = q[k].union
        <4>. HIDE DEF q, k
        <4>. QED  BY <3>5 DEF EntryFields
      <3>. HIDE DEF e
      <3>7. /\ IsList(p) /\ DOMAIN p = DOMAIN q /\ p[k] = e
            /\ \A i \in DOMAIN q : i # k => p[i] = q[i]
        <4>. HIDE DEF q, k
        <4>. QED  BY <1>3, <3>4, <3>5, <3>6, OneEntry DEF q
      <3>8. Grows(q, p)
        <4>. HIDE DEF p, q, k
        <4>. QED  BY <3>4, <3>5, <3>6, <3>7 DEF Grows
      <3>. HIDE DEF p
      <3>. QED  BY <3>3, <3>8
    <2>. QED  BY <2>2, <2>3
  <1>4. Grown(d, Users)
    BY <1>3 DEF Grown
  <1>. QED  BY <1>4 DEF d

\* What is taken from a score that covers it leaves no debt.
LEMMA DebitPays ==
    ASSUME HasLocks(db), NEW u \in Users, NEW x, NEW n \in Nat, Paid(Info(u)),
           Covers(Info(u), x, n)
    PROVE  Paid(IncScore(db, u, x, -n).users[u].info)
  <1>. DEFINE q == Info(u)
              k == EntryIn(q, x)
              p == IncScore(db, u, x, -n).users[u].info
  <1>1. IsList(q) /\ k # 0 /\ q[k].score >= n /\ -n \in Int
    BY DEF Paid, Covers
  <1>2. /\ k \in DOMAIN q /\ IsList(p) /\ DOMAIN p = DOMAIN q
        /\ \A i \in DOMAIN q : i # k => p[i] = q[i]
        /\ p[k].score = q[k].score + (-n)
    <2>. HIDE DEF p
    <2>. QED  BY <1>1, ScoreChanges DEF p
  <1>3. q[k].score \in Int
    BY <1>1, <1>2 DEF IsList
  <1>4. p[k].score >= 0
    <2>. HIDE DEF p, q, k
    <2>. QED  BY <1>1, <1>2, <1>3
  <1>. HIDE DEF p
  <1>5. Paid(p)
    BY <1>2, <1>4 DEF Paid
  <1>. QED  BY <1>5 DEF p

-----------------------------------------------------------------------------
(* What the steps make of the lists. *)

\* Documents with the same lists.
LEMMA SameLists ==
    ASSUME NEW d, \A u \in Users : d.users[u].info = Info(u)
    PROVE  Grown(d, Users)
  BY StayingGrows DEF Grown

\* The steps of the hall, but those that take from a score or from a list.
LEMMA HallGrows ==
    ASSUME HasLocks(db), NEW s \in Busy, Formed(reqs[s]), reqs[s].n \in Nat \/ ~At(s, "credit"),
           SharedStep(s) \/ HallStep(s), ~Debit(s), ~Pull(s)
    PROVE  Grown(db', Users)
  <1>. DEFINE r == reqs[s]
  <1>0. r.uid \in Users /\ r.other \in Users
    BY DEF Formed
  <1>a. \A d : (\A u \in Users : d.users[u].info = Info(u)) /\ db' = d => Grown(db', Users)
    BY SameLists
  <1>b. db' = db => Grown(db', Users)
    BY <1>a DEF Info
  <1>c. DOMAIN db' = DOMAIN db /\ db'.users = db.users => Grown(db', Users)
    BY <1>a DEF Info
  <1>d. \A u \in Users, b \in BOOLEAN : db' = Locking(db, u, b) => Grown(db', Users)
    <2>. HIDE DEF Locking
    <2>. QED  BY <1>a, LockingLists DEF Info
  <1>1. ASSUME UnLockSelf(s) \/ UnLockOther(s) \/ Lock(s)
        PROVE  Grown(db', Users)
    <2>1. db' = db \/ (\E u \in Users, b \in BOOLEAN : db' = Locking(db, u, b))
      <3>1. UnLockSelf(s) \/ UnLockOther(s) => \E u \in Users : db' = Locking(db, u, FALSE)
        BY <1>0 DEF UnLockSelf, UnLockOther
      <3>2. Lock(s) => db' = db \/ \E u : u = [r EXCEPT !.holds = TRUE].uid /\ db' = Locking(db, u, TRUE)
        BY Zenon DEF Lock, r
      <3>3. [r EXCEPT !.holds = TRUE].uid = r.uid
        BY DEF Formed, Fields
      <3>. QED  BY <1>0, <1>1, <3>1, <3>2, <3>3
    <2>. QED  BY <1>b, <1>d, <2>1
  <1>2. ASSUME Exists(s) \/ SetBegin(s) \/ Incr(s) \/ FindUnion(s) \/ FindInviter(s)
               \/ FindUser(s) \/ FindOther(s) \/ FindOwned(s) \/ UpdateSafe(s) \/ HallFault(s)
               \/ Panic(s)
        PROVE  Grown(db', Users)
    <2>1. db' = db \/ \E k, x : db' = [db EXCEPT !.counters[k] = x]
      BY <1>2 DEF Exists, SetBegin, Incr, FindUnion, FindInviter, FindUser, FindOther,
                  FindOwned, UpdateSafe, HallFault, Panic
    <2>2. \A k, x : LET d == [db EXCEPT !.counters[k] = x]
                    IN DOMAIN d = DOMAIN db /\ d.users = db.users
      OBVIOUS
    <2>. QED  BY <1>b, <1>c, <2>1, <2>2
  <1>3. ASSUME InsertUnion(s) \/ CountMember(s) \/ UncountMember(s)
        PROVE  Grown(db', Users)
    <2>1. db' = db \/ \E x : db' = [db EXCEPT !.unions = x]
      <3>1. InsertUnion(s) => \E x : db' = [db EXCEPT !.unions = x]
        BY DEF InsertUnion
      <3>2. \A x, n : IncMember(db, x, n) = db \/ \E y : IncMember(db, x, n) = [db EXCEPT !.unions = y]
        BY DEF IncMember
      <3>3. CountMember(s) => db' = IncMember(db, reqs[s].union, 1)
        BY DEF CountMember
      <3>4. UncountMember(s) => db' = IncMember(db, reqs[s].union, -1)
        BY DEF UncountMember
      <3>. QED  BY <1>3, <3>1, <3>2, <3>3, <3>4
    <2>2. \A x : LET d == [db EXCEPT !.unions = x]
                 IN DOMAIN d = DOMAIN db /\ d.users = db.users
      BY DEF HasLocks
    <2>. QED  BY <1>b, <1>c, <2>1, <2>2
  <1>4. ASSUME Record(s) \/ RecordOther(s)
        PROVE  Grown(db', Users)
    <2>1. DOMAIN db' = DOMAIN db /\ db'.users = db.users
      BY <1>4, RecordsOnly
    <2>. QED  BY <1>c, <2>1
  <1>5. ASSUME AddToSet(s) \/ Push(s)
        PROVE  Grown(db', Users)
    <2>1. \A a, b : DOMAIN Entry(r, a, b) = EntryFields /\ Entry(r, a, b).score = 0
      BY DEF Entry, EntryFields
    <2>2. \E u \in Users : \E a, b : db' = PushEntry(db, u, Entry(r, a, b))
      BY <1>0, <1>5, Zenon DEF AddToSet, Push, r
    <2>3. ASSUME NEW u \in Users, NEW a, NEW b
          PROVE  Grown(PushEntry(db, u, Entry(r, a, b)), Users)
      <3>. HIDE DEF r
      <3>. QED  BY <2>1, PushGrows
    <2>. HIDE DEF r
    <2>. QED  BY <2>2, <2>3
  <1>6. ASSUME Downlines(s)
        PROVE  Grown(db', Users)
    <2>1. db' = MoveDownlines(db, r.union, r.uid, r.spreader)
      BY <1>6 DEF Downlines, r
    <2>. HIDE DEF r
    <2>. QED  BY <1>0, <2>1, DownlinesGrow
  <1>7. ASSUME SetPartner(s)
        PROVE  Grown(db', Users)
    <2>1. \/ db' = db
          \/ /\ InUnion(r.other, r.union)
             /\ db' = [db EXCEPT !.users[r.other].info[EntryOf(r.other, r.union)].partner = TRUE]
      BY <1>7 DEF SetPartner, r
    <2>. HIDE DEF r
    <2>. QED  BY <1>0, <1>b, <2>1, PartnerGrows
  <1>8. ASSUME Credit(s)
        PROVE  Grown(db', Users)
    <2>. DEFINE e == IncScore(db, r.other, r.union, r.n)
    <2>1. \/ db' = db
          \/ InUnion(r.other, r.union) /\ (db' = e \/ db' = Locking(e, r.other, FALSE))
      BY <1>8 DEF Credit, r
    <2>2. r.n \in Nat
      BY <1>8 DEF Credit
    <2>3. InUnion(r.other, r.union) => Grown(e, Users)
      <3>. HIDE DEF r
      <3>. QED  BY <1>0, <2>2, RaisedGrows
    <2>4. Grown(e, Users) => Grown(Locking(e, r.other, FALSE), Users)
      <3>1. HasLocks(e)
        <4>. HIDE DEF r
        <4>. QED  BY <1>0, UpdatesKeepLocks DEF SameLocks
      <3>2. \A v \in Users : Locking(e, r.other, FALSE).users[v].info = e.users[v].info
        <4>. HIDE DEF e, r, Locking
        <4>. QED  BY <1>0, <3>1, LockingLists
      <3>. HIDE DEF e, Locking
      <3>. QED  BY <3>2 DEF Grown
    <2>. HIDE DEF e
    <2>. QED  BY <1>b, <2>1, <2>3, <2>4
  <1>. QED
    BY <1>1, <1>2, <1>3, <1>4, <1>5, <1>6, <1>7, <1>8 DEF SharedStep, HallStep

\* The steps of the game server.
LEMMA GameGrows ==
    ASSUME HasLocks(db), NEW s \in Busy, Formed(reqs[s]), GameStep(s)
    PROVE  Grown(db', Users)
  <1>. DEFINE r == reqs[s]
  <1>0. r.uid \in Users
    BY DEF Formed
  <1>a. \A d : (\A u \in Users : d.users[u].info = Info(u)) /\ db' = d => Grown(db', Users)
    BY SameLists
  <1>b. db' = db => Grown(db', Users)
    BY <1>a DEF Info
  <1>c. DOMAIN db' = DOMAIN db /\ db'.users = db.users => Grown(db', Users)
    BY <1>a DEF Info
  <1>1. GamePanics => db' = db
    BY DEF GamePanics
  <1>2. ASSUME GetUnion(s) \/ InitUnion(s) \/ KeepUnion(s) \/ FindUserData(s) \/ InRoom(s)
               \/ CreateRoom(s) \/ Proxy(s) \/ Rejoin(s) \/ JoinRoom(s) \/ QuickJoin(s)
               \/ PanicGame(s) \/ CheckHongBao(s) \/ KeepUid(s) \/ Setting(s)
               \/ CacheSetting(s) \/ GameFault(s)
        PROVE  Grown(db', Users)
    <2>1. InMemory => db' = db
      BY DEF InMemory
    <2>2. GetUnion(s) \/ InitUnion(s) \/ KeepUnion(s) \/ InRoom(s) \/ CreateRoom(s) \/ Rejoin(s)
          \/ JoinRoom(s) \/ CheckHongBao(s) \/ KeepUid(s) \/ Setting(s) \/ CacheSetting(s)
          => InMemory
      BY DEF GetUnion, InitUnion, KeepUnion, InRoom, CreateRoom, Rejoin, JoinRoom,
             CheckHongBao, KeepUid, Setting, CacheSetting
    <2>3. QuickJoin(s) => GamePanics \/ InMemory
      BY Zenon DEF QuickJoin
    <2>4. FindUserData(s) \/ Proxy(s) => db' = db
      BY DEF FindUserData, Proxy
    <2>5. PanicGame(s) => GamePanics
      BY DEF PanicGame
    <2>6. GameFault(s) => GamePanics \/ db' = db
      BY DEF GameFault
    <2>. QED  BY <1>1, <1>2, <1>b, <2>1, <2>2, <2>3, <2>4, <2>5, <2>6
  <1>3. ASSUME StoreRoom(s) \/ Leave(s)
        PROVE  Grown(db', Users)
    <2>1. db' = db \/ \E x : db' = [db EXCEPT !.users[r.uid].room = x]
      BY <1>3 DEF StoreRoom, Leave, r
    <2>. HIDE DEF r
    <2>2. ASSUME NEW x, db' = [db EXCEPT !.users[r.uid].room = x]
          PROVE  Grown(db', Users)
      <3>. DEFINE d == [db EXCEPT !.users[r.uid].room = x]
      <3>1. \A u \in Users : d.users[u].info = Info(u)
        BY <1>0, RoomLists
      <3>2. db' = d
        BY <2>2
      <3>. HIDE DEF d
      <3>. QED  BY <1>a, <3>1, <3>2
    <2>. QED  BY <1>b, <2>1, <2>2
  <1>4. ASSUME Dismiss(s)
        PROVE  Grown(db', Users)
    <2>1. \/ db' = db
          \/ \E R : db' = [db EXCEPT !.users = [u \in Users |->
                          IF u \in R THEN [@[u] EXCEPT !.room = NoRoom] ELSE @[u]]]
      BY <1>4 DEF Dismiss
    <2>2. ASSUME NEW R, db' = [db EXCEPT !.users = [u \in Users |->
                          IF u \in R THEN [@[u] EXCEPT !.room = NoRoom] ELSE @[u]]]
          PROVE  Grown(db', Users)
      <3>. DEFINE us == [u \in Users |->
                       IF u \in R THEN [db.users[u] EXCEPT !.room = NoRoom] ELSE db.users[u]]
      <3>1. \A u \in Users : us[u].info = db.users[u].info
        BY DEF HasLocks, UserFields
      <3>2. db' = [db EXCEPT !.users = us]
        BY <2>2
      <3>. HIDE DEF us
      <3>3. db'.users = us
        BY <3>2 DEF HasLocks
      <3>4. \A u \in Users : db'.users[u].info = Info(u)
        BY <3>1, <3>3 DEF Info
      <3>. QED  BY <3>4, SameLists
    <2>. QED  BY <1>b, <2>1, <2>2
  <1>5. ASSUME StoreServer(s) \/ RecordHongBao(s) \/ StoreUid(s) \/ StoreSetting(s)
        PROVE  Grown(db', Users)
    <2>1. StoreServer(s) => db' = [db EXCEPT !.servers = @ \cup {r.n}]
      BY DEF StoreServer, r
    <2>2. RecordHongBao(s) => db' = [db EXCEPT !.changes[r.uid] = @ + 1]
      BY DEF RecordHongBao, r
    <2>3. StoreUid(s) => \E at, d : db' = [db EXCEPT !.unions[at] = d]
      BY Zenon DEF StoreUid
    <2>4. StoreSetting(s) => \E at, d : db' = [db EXCEPT !.unions[at] = d]
      BY Zenon DEF StoreSetting
    <2>5. DOMAIN db' = DOMAIN db /\ db'.users = db.users
      BY <1>5, <2>1, <2>2, <2>3, <2>4 DEF HasLocks
    <2>. QED  BY <1>c, <2>5
  <1>6. ASSUME CreditHongBao(s)
        PROVE  Grown(db', Users)
    <2>1. GamePanics \/ (InUnion(r.uid, r.union) /\ db' = IncScore(db, r.uid, r.union, 1))
      BY <1>6 DEF CreditHongBao, r
    <2>. HIDE DEF r
    <2>. QED  BY <1>0, <1>1, <1>b, <2>1, RaisedGrows
  <1>. QED  BY <1>2, <1>3, <1>4, <1>5, <1>6 DEF GameStep

-----------------------------------------------------------------------------
(* The ways of requests that do not pay. *)

Onward(s) == reqs'[s] = Idle \/ reqs'[s].todo \in Seq(PlainCalls(reqs[s].op))

\* After a call that is not the last comes another.
LEMMA NotTheLast ==
    ASSUME NEW S, NEW q \in Seq(S), Len(q) # 1, q # <<>>
    PROVE  Tail(q) # <<>>
  <1>. DEFINE t == Tail(q)
  <1>1. t \in Seq(S) /\ Len(t) = Len(q) - 1 /\ Len(q) \in Nat /\ Len(q) # 0
    OBVIOUS
  <1>. HIDE DEF t
  <1>2. Len(t) # 0
    BY <1>1
  <1>3. t = <<>> => Len(t) = 0
    OBVIOUS
  <1>4. t # <<>>
    BY <1>2, <1>3
  <1>. QED  BY <1>4 DEF t

\* Their calls lead to calls of theirs.
LEMMA PlainWays ==
    ASSUME Shaped, NEW s \in Busy, reqs[s].op \notin Payers \cup Lockers,
           OnCourse(reqs[s]), OnWay(reqs[s])
    PROVE  /\ Refuse(s) => Onward(s)
           /\ \A k : Alike(k, reqs[s]) =>
                 /\ GoOn(s, k) => Onward(s)
                 /\ \A t \in Seq(PlainCalls(reqs[s].op)) : Then(s, k, t) => Onward(s)
           /\ Alike(reqs[s], reqs[s]) /\ ~reqs[s].holds
           /\ <<"set">> \o Tail(reqs[s].todo) \in Seq(PlainCalls(reqs[s].op))
           /\ <<"init", "keepUnion">> \o Tail(reqs[s].todo) \in Seq(PlainCalls(reqs[s].op))
           /\ Tail(reqs[s].todo) \in Seq(PlainCalls(reqs[s].op))
           /\ Head(reqs[s].todo) \in {"joinRoom", "quickJoin"} =>
                 Tail(Tail(reqs[s].todo)) \in Seq(PlainCalls(reqs[s].op))
           /\ Head(reqs[s].todo) \in PlainCalls(reqs[s].op)
  <1>. DEFINE r == reqs[s]
              C == PlainCalls(r.op)
  <1>1. /\ Formed(r) /\ DOMAIN reqs = Slots /\ s \in Slots /\ r.todo \in Seq(C) /\ ~r.holds
        /\ r.todo \in FreeSteps /\ r.todo # <<>>
    BY DEF Shaped, Busy, OnCourse, OnWay, Formed
  <1>2. Alike(r, r)
    BY <1>1 DEF Alike, Formed
  <1>3. "set" \in C /\ "init" \in C /\ "keepUnion" \in C
    BY DEF PlainCalls, FreeCalls
  <1>. HIDE DEF r, C
  <1>4. Tail(r.todo) \in Seq(C) /\ Head(r.todo) \in C
    BY <1>1
  <1>5. ASSUME NEW k, Alike(k, r), NEW t \in Seq(C), Then(s, k, t)
        PROVE  Onward(s)
    <2>1. reqs'[s] = IF t = <<>> THEN Idle ELSE [k EXCEPT !.todo = t]
      BY <1>1, <1>5 DEF Then
    <2>2. [k EXCEPT !.todo = t].todo = t
      BY <1>5 DEF Alike, Fields
    <2>. QED  BY <2>1, <2>2 DEF Onward, C, r
  <1>6. ASSUME NEW k, Alike(k, r), GoOn(s, k)
        PROVE  Onward(s)
    BY <1>4, <1>5, <1>6 DEF GoOn, Alike
  <1>7. ASSUME Refuse(s)
        PROVE  Onward(s)
    <2>1. Then(s, r, <<>>) /\ <<>> \in Seq(C)
      BY <1>7 DEF Refuse, r
    <2>. QED  BY <1>2, <1>5, <2>1
  <1>8. /\ <<"set">> \o Tail(r.todo) \in Seq(C)
        /\ <<"init", "keepUnion">> \o Tail(r.todo) \in Seq(C)
    BY <1>3, <1>4
  <1>9. ASSUME Head(r.todo) \in {"joinRoom", "quickJoin"}
        PROVE  Tail(Tail(r.todo)) \in Seq(C)
    <2>1. Tail(r.todo) # <<>>
      <3>1. r.todo[Len(r.todo)] \notin {"joinRoom", "quickJoin"}
        BY <1>1 DEF FreeSteps
      <3>2. r.todo[1] \in {"joinRoom", "quickJoin"}
        BY <1>1, <1>9
      <3>3. Len(r.todo) # 1 /\ Len(r.todo) \in Nat /\ Len(r.todo) # 0
        BY <1>1, <3>1, <3>2
      <3>. QED  BY <1>1, <3>3, NotTheLast
    <2>. QED  BY <1>4, <2>1
  <1>. QED  BY <1>1, <1>2, <1>4, <1>5, <1>6, <1>7, <1>8, <1>9 DEF C, r

\* Calls of the hall.
LEMMA HallOnward ==
    ASSUME Shaped, NEW s \in Busy, reqs[s].op \notin Payers \cup Lockers,
           OnCourse(reqs[s]), OnWay(reqs[s]), SharedStep(s) \/ HallStep(s), ~Panic(s)
    PROVE  Onward(s)
  <1>. DEFINE r == reqs[s]
              C == PlainCalls(r.op)
  <1>0. /\ Refuse(s) => Onward(s)
        /\ \A k : Alike(k, r) =>
              /\ GoOn(s, k) => Onward(s)
              /\ \A t \in Seq(C) : Then(s, k, t) => Onward(s)
        /\ Alike(r, r) /\ ~r.holds
        /\ <<"set">> \o Tail(r.todo) \in Seq(C)
        /\ Head(r.todo) \in C
    BY PlainWays
  <1>a. /\ GoOn(s, r) => Onward(s)
        /\ \A t \in Seq(C) : Then(s, r, t) => Onward(s)
    BY <1>0
  <1>b. DOMAIN r = Fields /\ r # Idle /\ r.todo # <<>> /\ r.op \notin Payers \cup Lockers
    BY DEF Shaped, Busy, Formed
  <1>c. \A x : At(s, x) => Head(r.todo) = x
    BY <1>b DEF At, Steps
  <1>d. /\ \A x : /\ Alike([r EXCEPT !.owner = x], r)
                  /\ Alike([r EXCEPT !.spreader = x], r)
                  /\ Alike([r EXCEPT !.union = x], r)
                  /\ Alike([r EXCEPT !.id = x], r)
        /\ \A x, y : Alike([r EXCEPT !.spreader = x, !.union = y], r)
        /\ Alike([r EXCEPT !.holds = FALSE], r)
    BY <1>0, <1>b, Remembers
  <1>e. /\ "debit" \notin C /\ "credit" \notin C /\ "lock" \notin C /\ "update" \notin C
        /\ "findOther" \in C => r.op \in {"InviteJoinUnion", "AddPartner"}
    BY DEF PlainCalls, FreeCalls
  <1>f. r.op # "GiveScore" /\ r.op # "ModifyScore"
    BY <1>b DEF Payers
  <1>. HIDE DEF r, C
  <1>1. CASE UnLockSelf(s) \/ UnLockOther(s)
    BY <1>0, <1>1, <1>a, <1>d DEF UnLockSelf, UnLockOther, r
  <1>2. CASE Exists(s) \/ SetBegin(s) \/ Incr(s)
    <2>1. \/ Then(s, r, <<"set">> \o Tail(r.todo))
          \/ GoOn(s, r)
          \/ \E x : GoOn(s, [r EXCEPT !.union = x])
          \/ \E x : GoOn(s, [r EXCEPT !.id = x])
      BY <1>2 DEF Exists, SetBegin, Incr, r
    <2>. QED  BY <1>0, <1>a, <1>d, <2>1
  <1>3. CASE FindUnion(s) \/ FindInviter(s) \/ FindUser(s) \/ FindOwned(s)
    <2>1. \/ Refuse(s) \/ GoOn(s, r)
          \/ \E x : GoOn(s, [r EXCEPT !.owner = x])
          \/ \E x : GoOn(s, [r EXCEPT !.spreader = x])
          \/ \E x, y : GoOn(s, [r EXCEPT !.spreader = x, !.union = y])
      BY <1>3, <1>f DEF FindUnion, FindInviter, FindUser, FindOwned, r
    <2>. QED  BY <1>0, <1>a, <1>d, <2>1
  <1>4. CASE FindOther(s)
    <2>1. r.op \in {"InviteJoinUnion", "AddPartner"}
      BY <1>0, <1>4, <1>c, <1>e DEF FindOther
    <2>2. MemberVerdict(r) \in {"refuse", "go"}
      BY <2>1 DEF MemberVerdict
    <2>3. Refuse(s) \/ GoOn(s, r)
      BY <1>4, <2>2 DEF FindOther, r
    <2>. QED  BY <1>0, <1>a, <2>3
  <1>5. CASE InsertUnion(s) \/ CountMember(s) \/ UncountMember(s) \/ Record(s)
             \/ RecordOther(s)
             \/ AddToSet(s) \/ Push(s) \/ Pull(s) \/ Downlines(s)
    <2>1. GoOn(s, r)
      BY <1>5 DEF InsertUnion, CountMember, UncountMember, Record, RecordOther, AddToSet,
                  Push, Pull, Downlines, r
    <2>. QED  BY <1>a, <2>1
  <1>6. CASE SetPartner(s)
    BY <1>0, <1>6, <1>a DEF SetPartner, Fail, r
  <1>7. ~Debit(s) /\ ~Credit(s) /\ ~Lock(s) /\ ~UpdateSafe(s)
    BY <1>0, <1>c, <1>e DEF Debit, Credit, Lock, UpdateSafe
  <1>8. CASE HallFault(s)
    <2>1. \A x : ~AtOp(s, {"GiveScore"}, x)
      BY <1>f DEF AtOp, r
    <2>2. \/ Refuse(s) \/ GoOn(s, r)
          \/ Then(s, r, <<"set">> \o Tail(r.todo))
          \/ GoOn(s, [r EXCEPT !.holds = FALSE])
      BY <1>8, <2>1 DEF HallFault, r
    <2>. QED  BY <1>0, <1>a, <1>d, <2>2
  <1>. QED
    BY <1>1, <1>2, <1>3, <1>4, <1>5, <1>6, <1>7, <1>8 DEF SharedStep, HallStep

\* Calls of the game server.
LEMMA GameOnward ==
    ASSUME Shaped, NEW s \in Busy, reqs[s].op \notin Payers \cup Lockers,
           OnCourse(reqs[s]), OnWay(reqs[s]), GameStep(s), ~GamePanics
    PROVE  Onward(s)
  <1>. DEFINE r == reqs[s]
              C == PlainCalls(r.op)
  <1>0. /\ Refuse(s) => Onward(s)
        /\ \A k : Alike(k, r) =>
              /\ GoOn(s, k) => Onward(s)
              /\ \A t \in Seq(C) : Then(s, k, t) => Onward(s)
        /\ Alike(r, r) /\ ~r.holds
        /\ <<"init", "keepUnion">> \o Tail(r.todo) \in Seq(C)
        /\ Tail(r.todo) \in Seq(C)
        /\ Head(r.todo) \in {"joinRoom", "quickJoin"} => Tail(Tail(r.todo)) \in Seq(C)
    BY PlainWays
  <1>a. /\ GoOn(s, r) => Onward(s)
        /\ \A t \in Seq(C) : Then(s, r, t) => Onward(s)
    BY <1>0
  <1>b. DOMAIN r = Fields /\ r # Idle /\ r.todo # <<>>
    BY DEF Shaped, Busy, Formed
  <1>c. \A x : At(s, x) => Head(r.todo) = x
    BY <1>b DEF At, Steps
  <1>d. \A x : /\ Alike([r EXCEPT !.id = x], r) /\ Alike([r EXCEPT !.n = x], r)
              /\ Alike([r EXCEPT !.handle = x], r) /\ Alike([r EXCEPT !.unions = x], r)
    BY <1>0, <1>b, Remembers
  <1>. HIDE DEF r, C
  <1>1. CASE GetUnion(s) \/ InitUnion(s) \/ KeepUnion(s) \/ InRoom(s) \/ CheckHongBao(s)
             \/ FindUserData(s) \/ CreateRoom(s) \/ Proxy(s) \/ Rejoin(s)
    <2>1. \/ Refuse(s) \/ GoOn(s, r) \/ \E x : GoOn(s, [r EXCEPT !.handle = x])
          \/ Then(s, r, <<"init", "keepUnion">> \o Tail(r.todo))
          \/ \E x : GoOn(s, [r EXCEPT !.unions = x])
          \/ \E x : GoOn(s, [r EXCEPT !.n = x])
      BY <1>1 DEF GetUnion, InitUnion, NewValue, KeepUnion, InRoom, CheckHongBao,
                  FindUserData, CreateRoom, Proxy, Rejoin, r
    <2>. QED  BY <1>0, <1>a, <1>d, <2>1
  <1>2. ASSUME NEW h, NEW id, Enters(s, h, id, Tail(r.todo)),
               Head(r.todo) \in {"joinRoom", "quickJoin"}
        PROVE  Onward(s)
    <2>1. \/ Refuse(s) \/ Then(s, [r EXCEPT !.n = id], Tail(r.todo))
          \/ Then(s, [r EXCEPT !.n = id], Tail(Tail(r.todo)))
      BY <1>2 DEF Enters, r
    <2>. QED  BY <1>0, <1>2, <1>d, <2>1
  <1>3. CASE JoinRoom(s)
    <2>1. Head(r.todo) = "joinRoom"
      BY <1>3, <1>c DEF JoinRoom
    <2>2. Refuse(s) \/ \E h, id : Enters(s, h, id, Tail(r.todo))
      BY <1>3 DEF JoinRoom, r
    <2>. QED  BY <1>0, <1>2, <2>1, <2>2
  <1>4. CASE QuickJoin(s)
    <2>1. Head(r.todo) = "quickJoin"
      BY <1>4, <1>c DEF QuickJoin
    <2>2. Refuse(s) \/ \E h, id : Enters(s, h, id, Tail(r.todo))
      BY <1>4 DEF QuickJoin, r
    <2>. QED  BY <1>0, <1>2, <2>1, <2>2
  <1>5. CASE StoreRoom(s) \/ StoreServer(s) \/ Leave(s) \/ Dismiss(s)
             \/ KeepUid(s) \/ Setting(s) \/ CacheSetting(s) \/ CreditHongBao(s)
             \/ RecordHongBao(s) \/ StoreUid(s) \/ StoreSetting(s) \/ GameFault(s)
    <2>1. \/ Refuse(s) \/ GoOn(s, r) \/ \E x : GoOn(s, [r EXCEPT !.id = x])
          \/ \E x : GoOn(s, [r EXCEPT !.handle = x])
      BY <1>5 DEF StoreRoom, StoreServer, Leave, Dismiss, KeepUid, Setting, CacheSetting,
                  CreditHongBao, RecordHongBao, StoreUid, StoreSetting, GameFault, NewValue, r
    <2>. QED  BY <1>0, <1>a, <1>d, <2>1
  <1>6. ~PanicGame(s)
    BY DEF PanicGame
  <1>. QED  BY <1>1, <1>3, <1>4, <1>5, <1>6 DEF GameStep

-----------------------------------------------------------------------------
(* The ways of requests that pay. *)

\* What is first and what is left of a GiveScore.
LEMMA GiveCalls ==
    /\ Head(<<"findUnion", "findUser", "findOther", "debit", "credit", "record", "recordOther">>)
         = "findUnion"
    /\ Tail(<<"findUnion", "findUser", "findOther", "debit", "credit", "record", "recordOther">>)
         = <<"findUser", "findOther", "debit", "credit", "record", "recordOther">>
    /\ Head(<<"findUser", "findOther", "debit", "credit", "record", "recordOther">>) = "findUser"
    /\ Tail(<<"findUser", "findOther", "debit", "credit", "record", "recordOther">>)
         = <<"findOther", "debit", "credit", "record", "recordOther">>
    /\ Head(<<"findOther", "debit", "credit", "record", "recordOther">>) = "findOther"
    /\ Tail(<<"findOther", "debit", "credit", "record", "recordOther">>)
         = <<"debit", "credit", "record", "recordOther">>
    /\ Head(<<"debit", "credit", "record", "recordOther">>) = "debit"
    /\ Tail(<<"debit", "credit", "record", "recordOther">>)
         = <<"credit", "record", "recordOther">>
    /\ Head(<<"unLockSelf", "credit", "record", "recordOther">>) = "unLockSelf"
    /\ Tail(<<"unLockSelf", "credit", "record", "recordOther">>)
         = <<"credit", "record", "recordOther">>
    /\ Head(<<"credit", "record", "recordOther">>) = "credit"
    /\ Tail(<<"credit", "record", "recordOther">>) = <<"record", "recordOther">>
    /\ Head(<<"record", "recordOther">>) = "record"
    /\ Tail(<<"record", "recordOther">>) = <<"recordOther">>
    /\ Head(<<"recordOther">>) = "recordOther"
    /\ Tail(<<"recordOther">>) = <<>>
    /\ Head(<<"credit", "panic">>) = "credit"
    /\ Tail(<<"credit", "panic">>) = <<"panic">>
    /\ Head(<<"panic">>) = "panic"
    /\ Tail(<<"panic">>) = <<>>
  OBVIOUS

\* A course that begins with none of the calls that are relied on.
Quiet(t) == t # <<>> => Head(t) \notin {"findOther", "debit"}

\* Where such a request stands.
LEMMA PayerStands ==
    ASSUME NEW r, r.op \in Payers, r.holds \in BOOLEAN, OnCourse(r), OnWay(r)
    PROVE  LET h == Head(r.todo)
               t == Tail(r.todo)
           IN /\ h \in {"findUnion", "findUser", "lock", "findOther", "debit", "credit",
                        "record", "recordOther", "unLockSelf", "unLockOther", "panic"}
              /\ h = "findUser" => r.op = "GiveScore"
              /\ h \in {"lock", "unLockOther"} => r.op = "ModifyScore"
              /\ h \in {"findUser", "lock"} => Head(t) = "findOther"
              /\ h = "findOther" => Head(t) = "debit"
              /\ h \notin {"findUser", "lock", "findOther"} => Quiet(t)
              /\ r.op = "GiveScore" => t \in GiveCourse \cup {<<>>}
  <1>. DEFINE h == Head(r.todo)
              t == Tail(r.todo)
  <1>1. CASE r.op = "GiveScore"
    <2>1. r.todo \in GiveCourse
      BY <1>1 DEF OnWay
    <2>2. /\ h \in {"findUnion", "findUser", "findOther", "debit", "credit",
                    "record", "recordOther", "unLockSelf", "panic"}
          /\ h = "findUnion" =>
                t = <<"findUser", "findOther", "debit", "credit", "record", "recordOther">>
          /\ h = "findUser" => t = <<"findOther", "debit", "credit", "record", "recordOther">>
          /\ h = "findOther" => t = <<"debit", "credit", "record", "recordOther">>
          /\ h = "debit" => t = <<"credit", "record", "recordOther">>
          /\ h = "unLockSelf" => t \in {<<>>, <<"credit", "record", "recordOther">>}
          /\ h = "credit" => t \in {<<"record", "recordOther">>, <<"panic">>}
          /\ h = "record" => t = <<"recordOther">>
          /\ h \in {"recordOther", "panic"} => t = <<>>
      BY <2>1, GiveCalls, LockerCalls DEF GiveCourse
    <2>. HIDE DEF h, t
    <2>3. t \in GiveCourse \cup {<<>>}
      BY <2>2 DEF GiveCourse
    <2>4. /\ h \in {"findUser", "lock"} => Head(t) = "findOther"
          /\ h = "findOther" => Head(t) = "debit"
          /\ h \notin {"findUser", "lock", "findOther"} => Quiet(t)
      BY <2>2, GiveCalls, LockerCalls DEF Quiet
    <2>. QED  BY <1>1, <2>2, <2>3, <2>4 DEF h, t
  <1>2. CASE r.op = "ModifyScore"
    <2>1. /\ h \in {"findUnion", "lock", "findOther", "debit", "credit", "record",
                    "unLockSelf", "unLockOther", "update"}
          /\ h = "findUnion" => t = <<"lock", "findOther", "debit", "credit", "record">>
          /\ h = "lock" => t = <<"findOther", "debit", "credit", "record">>
          /\ h = "findOther" => t = <<"debit", "credit", "record">>
          /\ h = "debit" => t = <<"credit", "record">>
          /\ h = "credit" => t = <<"record">>
          /\ h \in {"record", "unLockOther"} => t = <<>>
          /\ h = "unLockSelf" => t \in {<<>>, <<"unLockOther">>, <<"credit", "record">>}
          /\ h # "update"
      BY <1>2, LockerStands DEF Lockers
    <2>. HIDE DEF h, t
    <2>2. /\ h \in {"findUser", "lock"} => Head(t) = "findOther"
          /\ h = "findOther" => Head(t) = "debit"
          /\ h \notin {"findUser", "lock", "findOther"} => Quiet(t)
      BY <2>1, GiveCalls, LockerCalls DEF Quiet
    <2>. QED  BY <1>2, <2>1, <2>2 DEF h, t
  <1>. QED  BY <1>1, <1>2 DEF Payers

\* The same payment.
Pays(k, r) ==
    /\ DOMAIN k = Fields
    /\ k.op = r.op /\ k.uid = r.uid /\ k.union = r.union /\ k.n = r.n /\ k.todo = r.todo

\* The request ends, or goes on with a payment that is backed if its was.
Continues(s) ==
    \/ reqs'[s] = Idle
    \/ /\ reqs'[s].uid = reqs[s].uid /\ reqs'[s].op = reqs[s].op
       /\ OnWay(reqs'[s])
       /\ IsList(Info(reqs[s].uid)) /\ Backs(Info(reqs[s].uid), reqs[s]) =>
             Backs(Info(reqs[s].uid), reqs'[s])
       /\ Debit(s) => Head(reqs'[s].todo) \notin {"findOther", "debit"}

\* A request that goes on with such a call.
LEMMA PayerGoes ==
    ASSUME Shaped, NEW s \in Busy, reqs[s].op \in Payers, OnWay(reqs[s]),
           NEW k, Pays(k, reqs[s]), NEW t, Then(s, k, t),
           reqs[s].op = "GiveScore" => t \in GiveCourse \cup {<<>>},
           \/ Quiet(t)
           \/ /\ ~Debit(s) /\ Head(t) = "findOther"
              /\ IsList(Info(k.uid)) /\ ~k.owner => Covers(Info(k.uid), k.union, k.n)
           \/ /\ ~Debit(s) /\ Head(t) = "debit"
              /\ Backs(Info(k.uid), reqs[s]) => Covers(Info(k.uid), k.union, k.n)
    PROVE  Continues(s)
  <1>. DEFINE r == reqs[s]
              j == [k EXCEPT !.todo = t]
  <1>1. DOMAIN reqs = Slots /\ s \in Slots
    BY DEF Shaped, Busy
  <1>2. reqs'[s] = IF t = <<>> THEN Idle ELSE j
    BY <1>1 DEF Then
  <1>3. /\ j.todo = t /\ j.op = r.op /\ j.uid = r.uid /\ j.union = r.union /\ j.n = r.n
        /\ j.owner = k.owner /\ k.op = r.op /\ k.uid = r.uid /\ k.union = r.union /\ k.n = r.n
    BY DEF Pays, Fields
  <1>. HIDE DEF j, r
  <1>4. CASE t = <<>>
    BY <1>2, <1>4 DEF Continues
  <1>5. CASE t # <<>>
    <2>1. reqs'[s] = j
      BY <1>2, <1>5
    <2>2. OnWay(j)
      BY <1>3, <1>5 DEF OnWay, r
    <2>3. IsList(Info(r.uid)) /\ Backs(Info(r.uid), r) => Backs(Info(r.uid), j)
      BY <1>3, <1>5 DEF Backs, Quiet, r
    <2>4. Debit(s) => Head(j.todo) \notin {"findOther", "debit"}
      BY <1>3, <1>5 DEF Quiet
    <2>. QED  BY <1>3, <2>1, <2>2, <2>3, <2>4 DEF Continues, r
  <1>. QED  BY <1>4, <1>5
\* Who does not lack the score has it.
LEMMA NotLacking ==
    ASSUME NEW r, r.n \in Nat, IsList(Info(r.uid)), InUnion(r.uid, r.union), ~r.owner,
           ~LacksScore(r)
    PROVE  Covers(Info(r.uid), r.union, r.n)
  <1>. DEFINE q == Info(r.uid)
              k == EntryIn(q, r.union)
  <1>1. EntryOf(r.uid, r.union) = k
    BY DEF EntryOf, EntryIn, Info
  <1>2. k # 0 /\ ~(q[k].score < r.n)
    BY <1>1 DEF InUnion, InfoOf, LacksScore, Info
  <1>3. q[k].score \in Int
    <2>1. \E S : q \in Seq(S)
      BY DEF IsList
    <2>2. k \in DOMAIN q
      <3>. HIDE DEF q
      <3>. QED  BY <1>2, <2>1, EntryInIs
    <2>. QED  BY <2>2 DEF IsList
  <1>. HIDE DEF q, k
  <1>4. q[k].score >= r.n
    BY <1>2, <1>3
  <1>. QED  BY <1>2, <1>4 DEF Covers, k, q

\* Calls of a request that pays.
LEMMA PayerSteps ==
    ASSUME Shaped, NEW s \in Busy, reqs[s].op \in Payers, OnCourse(reqs[s]), OnWay(reqs[s]),
           SharedStep(s) \/ HallStep(s), ~Panic(s)
    PROVE  Continues(s)
  <1>. DEFINE r == reqs[s]
              h == Head(r.todo)
              t == Tail(r.todo)
  <1>0. /\ Formed(r) /\ r # Idle /\ r.op \in Payers /\ r.holds \in BOOLEAN
        /\ DOMAIN r = Fields /\ r.todo # <<>> /\ r.n \in Nat
    BY DEF Shaped, Busy, Formed, OnWay
  <1>1. /\ h \in {"findUnion", "findUser", "lock", "findOther", "debit", "credit",
                  "record", "recordOther", "unLockSelf", "unLockOther", "panic"}
        /\ h = "findUser" => r.op = "GiveScore"
        /\ h \in {"lock", "unLockOther"} => r.op = "ModifyScore"
        /\ h \in {"findUser", "lock"} => Head(t) = "findOther"
        /\ h = "findOther" => Head(t) = "debit"
        /\ h \notin {"findUser", "lock", "findOther"} => Quiet(t)
        /\ r.op = "GiveScore" => t \in GiveCourse \cup {<<>>}
    BY <1>0, PayerStands
  <1>2. /\ Pays(r, r)
        /\ \A x : Pays([r EXCEPT !.owner = x], r)
        /\ \A x : /\ Pays([r EXCEPT !.holds = x], r)
                  /\ [r EXCEPT !.holds = x].owner = r.owner
                  /\ [r EXCEPT !.holds = x].uid = r.uid
                  /\ [r EXCEPT !.holds = x].union = r.union
                  /\ [r EXCEPT !.holds = x].n = r.n
    BY <1>0 DEF Pays, Fields
  <1>3. \A x : At(s, x) => h = x
    BY <1>0 DEF At, Steps
  <1>a. /\ Quiet(<<>>) /\ Quiet(<<"unLockSelf">>) /\ Quiet(<<"unLockSelf", "unLockOther">>)
        /\ Quiet(<<"unLockSelf", "credit", "record">>) /\ Quiet(<<"credit", "panic">>)
        /\ Quiet(<<"unLockSelf", "credit", "record", "recordOther">>)
    BY LockerCalls, GiveCalls DEF Quiet
  <1>b. /\ <<"unLockSelf">> \in GiveCourse /\ <<"credit", "panic">> \in GiveCourse
        /\ <<"unLockSelf", "credit", "record", "recordOther">> \in GiveCourse
    BY DEF GiveCourse
  <1>c. ASSUME NEW k, Pays(k, r), NEW q, Then(s, k, q), Quiet(q),
               r.op = "GiveScore" => q \in GiveCourse \cup {<<>>}
        PROVE  Continues(s)
    BY <1>0, <1>c, PayerGoes
  <1>d. Refuse(s) => Continues(s)
    BY <1>2, <1>a, <1>c DEF Refuse
  <1>e. ASSUME NEW k, Pays(k, r), GoOn(s, k), h \notin {"findUser", "lock", "findOther"}
        PROVE  Continues(s)
    <2>1. Then(s, k, t)
      BY <1>e DEF GoOn, Pays
    <2>. QED  BY <1>1, <1>c, <1>e, <2>1
  <1>f. ASSUME NEW k, Pays(k, r), Then(s, k, t), h \in {"findUser", "lock"},
               IsList(Info(k.uid)) /\ ~k.owner => Covers(Info(k.uid), k.union, k.n)
        PROVE  Continues(s)
    <2>1. ~Debit(s) /\ Head(t) = "findOther"
      BY <1>1, <1>3, <1>f DEF Debit
    <2>. HIDE DEF t, h
    <2>. QED  BY <1>0, <1>1, <1>f, <2>1, PayerGoes
  <1>. HIDE DEF h, t
  <1>g. ASSUME NEW q \in {<<"unLockSelf">>, <<"credit", "panic">>,
                          <<"unLockSelf", "credit", "record", "recordOther">>}, Then(s, r, q)
        PROVE  Continues(s)
    BY <1>2, <1>a, <1>b, <1>c, <1>g
  <1>4. CASE UnLockSelf(s) \/ UnLockOther(s)
    <2>1. h \in {"unLockSelf", "unLockOther"}
      BY <1>3, <1>4 DEF UnLockSelf, UnLockOther
    <2>2. GoOn(s, [r EXCEPT !.holds = FALSE]) \/ GoOn(s, r)
      BY <1>4 DEF UnLockSelf, UnLockOther
    <2>. QED  BY <1>2, <1>e, <2>1, <2>2
  <1>5. CASE FindUnion(s)
    <2>1. h = "findUnion"
      BY <1>3, <1>5 DEF FindUnion, AtOp
    <2>2. Refuse(s) \/ \E x : GoOn(s, [r EXCEPT !.owner = x])
      BY <1>5 DEF FindUnion
    <2>3. ASSUME NEW x, GoOn(s, [r EXCEPT !.owner = x])
          PROVE  Continues(s)
      BY <1>2, <1>e, <2>1, <2>3
    <2>. QED  BY <1>d, <2>2, <2>3
  <1>6. CASE FindUser(s)
    <2>1. h = "findUser" /\ r.op = "GiveScore"
      BY <1>1, <1>3, <1>6 DEF FindUser, AtOp
    <2>2. Refuse(s) \/ Then(s, r, <<"unLockSelf">>) \/ (~LacksScore(r) /\ GoOn(s, r))
      BY <1>6, <2>1 DEF FindUser
    <2>3. ASSUME ~LacksScore(r), GoOn(s, r)
          PROVE  Continues(s)
      <3>1. InUnion(r.uid, r.union) /\ Then(s, r, t)
        BY <2>3 DEF LacksScore, GoOn, t
      <3>2. IsList(Info(r.uid)) /\ ~r.owner => Covers(Info(r.uid), r.union, r.n)
        <4>. HIDE DEF r
        <4>. QED  BY <1>0, <2>3, <3>1, NotLacking
      <3>. QED  BY <1>2, <1>f, <2>1, <3>1, <3>2
    <2>. QED  BY <1>d, <1>g, <2>2, <2>3
  <1>7. CASE Lock(s)
    <2>. DEFINE k == [r EXCEPT !.holds = TRUE]
    <2>1. h = "lock"
      BY <1>3, <1>7 DEF Lock
    <2>2. \/ Refuse(s) \/ Then(s, k, <<"unLockSelf">>)
          \/ ~LacksScore(k) /\ GoOn(s, k)
      BY <1>7, Zenon DEF Lock
    <2>3. Pays(k, r)
      BY <1>2
    <2>. HIDE DEF k
    <2>4. ASSUME Then(s, k, <<"unLockSelf">>)
          PROVE  Continues(s)
      BY <1>a, <1>b, <1>c, <2>3, <2>4
    <2>5. ASSUME ~LacksScore(k), GoOn(s, k)
          PROVE  Continues(s)
      <3>1. InUnion(k.uid, k.union) /\ Then(s, k, t) /\ k.n \in Nat
        BY <1>0, <2>3, <2>5 DEF LacksScore, GoOn, t, Pays
      <3>2. IsList(Info(k.uid)) /\ ~k.owner => Covers(Info(k.uid), k.union, k.n)
        BY <2>5, <3>1, NotLacking
      <3>. QED  BY <1>f, <2>1, <2>3, <3>1, <3>2
    <2>. QED  BY <1>d, <2>2, <2>4, <2>5
  <1>8. CASE FindOther(s)
    <2>1. h = "findOther"
      BY <1>3, <1>8 DEF FindOther
    <2>2. r.op = "GiveScore" => MemberVerdict(r) \in {"refuse", "unLock", "pay"}
      BY DEF MemberVerdict
    <2>3. r.op = "ModifyScore" => MemberVerdict(r) \in {"pay", "unLockBoth"}
      BY DEF MemberVerdict
    <2>4. \/ Refuse(s) \/ Then(s, r, <<"unLockSelf">>)
          \/ r.op = "ModifyScore" /\ Then(s, r, <<"unLockSelf", "unLockOther">>)
          \/ r.op = "ModifyScore" /\ Then(s, r, <<"unLockSelf", "credit", "record">>)
          \/ Then(s, r, <<"unLockSelf", "credit", "record", "recordOther">>)
          \/ ~r.owner /\ GoOn(s, r)
      BY <1>0, <1>8, <2>2, <2>3 DEF FindOther, Payers
    <2>5. ASSUME ~r.owner, GoOn(s, r)
          PROVE  Continues(s)
      <3>1. Then(s, r, t) /\ ~Debit(s) /\ Head(t) = "debit"
        BY <1>1, <1>3, <2>1, <2>5 DEF GoOn, t, Debit
      <3>2. Backs(Info(r.uid), r) => Covers(Info(r.uid), r.union, r.n)
        BY <2>1, <2>5 DEF Backs, h
      <3>. QED  BY <1>0, <1>1, <1>2, <3>1, <3>2, PayerGoes
    <2>6. ASSUME r.op = "ModifyScore", Then(s, r, <<"unLockSelf", "unLockOther">>)
          PROVE  Continues(s)
      BY <1>2, <1>a, <1>c, <2>6
    <2>7. ASSUME r.op = "ModifyScore", Then(s, r, <<"unLockSelf", "credit", "record">>)
          PROVE  Continues(s)
      BY <1>2, <1>a, <1>c, <2>7
    <2>. QED  BY <1>d, <1>g, <2>4, <2>5, <2>6, <2>7
  <1>9. CASE Debit(s)
    <2>1. h = "debit"
      BY <1>3, <1>9 DEF Debit
    <2>2. \/ Refuse(s) \/ GoOn(s, r) \/ GoOn(s, [r EXCEPT !.holds = FALSE])
          \/ Then(s, r, <<"credit", "panic">>)
      BY <1>9, Zenon DEF Debit, Fail
    <2>. QED  BY <1>2, <1>d, <1>e, <1>g, <2>1, <2>2
  <1>10. CASE Credit(s) \/ Record(s) \/ RecordOther(s)
    <2>1. h \in {"credit", "record", "recordOther"}
      BY <1>3, <1>10 DEF Credit, Record, RecordOther
    <2>2. Refuse(s) \/ GoOn(s, r)
      BY <1>10 DEF Credit, Record, RecordOther, Fail
    <2>. QED  BY <1>2, <1>d, <1>e, <2>1, <2>2
  <1>11. CASE HallFault(s)
    <2>1. ~At(s, "exists")
      BY <1>1, <1>3
    <2>2. \/ Refuse(s) \/ Then(s, r, <<"credit", "panic">>)
          \/ At(s, "unLockSelf") /\ GoOn(s, [r EXCEPT !.holds = FALSE])
          \/ (At(s, "unLockOther") \/ At(s, "record") \/ At(s, "recordOther")) /\ GoOn(s, r)
      BY <1>11, <2>1 DEF HallFault, AtOp
    <2>3. At(s, "unLockSelf") \/ At(s, "unLockOther") \/ At(s, "record")
          \/ At(s, "recordOther") =>
             h \notin {"findUser", "lock", "findOther"}
      BY <1>3
    <2>. QED  BY <1>2, <1>d, <1>e, <1>g, <2>2, <2>3
  <1>12. /\ ~Exists(s) /\ ~SetBegin(s) /\ ~Incr(s) /\ ~FindInviter(s) /\ ~FindOwned(s)
         /\ ~InsertUnion(s) /\ ~AddToSet(s) /\ ~CountMember(s) /\ ~Push(s) /\ ~Pull(s)
         /\ ~Downlines(s) /\ ~UncountMember(s) /\ ~SetPartner(s) /\ ~UpdateSafe(s)
    BY <1>1, <1>3
    DEF Exists, SetBegin, Incr, FindInviter, FindOwned, InsertUnion, AddToSet, CountMember,
        Push, Pull, Downlines, UncountMember, SetPartner, UpdateSafe
  <1>. QED
    BY <1>4, <1>5, <1>6, <1>7, <1>8, <1>9, <1>10, <1>11, <1>12 DEF SharedStep, HallStep
-----------------------------------------------------------------------------
(* Every step. *)

Relying == {"findOther", "debit"}

\* What becomes of a request.
Follows(p) ==
    \/ reqs'[p] = Idle \/ reqs'[p] = reqs[p]
    \/ /\ OnWay(reqs'[p])
       /\ reqs'[p].op \in Payers =>
            \/ Head(reqs'[p].todo) \notin Relying
            \/ /\ p \in Busy /\ reqs'[p].uid = reqs[p].uid /\ reqs[p].op \in Payers
               /\ IsList(Info(reqs[p].uid)) /\ Backs(Info(reqs[p].uid), reqs[p]) =>
                     Backs(Info(reqs[p].uid), reqs'[p])

\* A request that pays makes no call of the game server.
LEMMA PayerNoGame ==
    ASSUME Shaped, NEW s \in Busy, reqs[s].op \in Payers, OnCourse(reqs[s]), OnWay(reqs[s])
    PROVE  ~GameStep(s)
  <1>. DEFINE r == reqs[s]
  <1>1. CASE r.op = "ModifyScore"
    BY <1>1, LockerNoGame DEF Lockers
  <1>2. CASE r.op = "GiveScore"
    <2>0. Formed(r) /\ r # Idle /\ r.op \in Payers /\ r.holds \in BOOLEAN
      BY DEF Shaped, Busy, Formed
    <2>1. Head(r.todo) \in {"findUnion", "findUser", "lock", "findOther", "debit", "credit",
                            "record", "recordOther", "unLockSelf", "unLockOther", "panic"}
      BY <2>0, PayerStands
    <2>2. \A x : At(s, x) => Head(r.todo) = x
      BY <2>0 DEF At, Steps, Formed
    <2>3. r.op \notin GameOps
      BY <1>2, OpsByName
    <2>4. \A x \in {"getUnion", "init", "keepUnion", "inRoom", "createRoom", "proxy",
                    "rejoin", "joinRoom", "quickJoin", "storeRoom", "storeServer", "panicGame",
                    "leave", "dismiss", "checkHongBao", "keepUid", "creditHongBao",
                    "recordHongBao", "storeUid", "setting", "storeSetting", "cacheSetting"} :
             ~At(s, x)
      BY <2>1, <2>2
    <2>. QED
      BY <2>3, <2>4
      DEF GameStep, GetUnion, InitUnion, KeepUnion, FindUserData, InRoom, CreateRoom, Proxy,
          Rejoin, JoinRoom, QuickJoin, StoreRoom, StoreServer, PanicGame, Leave, Dismiss,
          CheckHongBao, KeepUid, CreditHongBao, RecordHongBao, StoreUid, Setting,
          StoreSetting, CacheSetting, GameFault, AtOp
  <1>. QED  BY <1>1, <1>2 DEF Payers

\* What a step makes of the requests.
LEMMA RequestsFollow ==
    ASSUME OwnInv, NEW s \in Busy, OnWay(reqs[s]), SharedStep(s) \/ HallStep(s) \/ GameStep(s)
    PROVE  /\ DOMAIN reqs' = Slots /\ \A p \in Slots : Follows(p)
           /\ Debit(s) => \/ reqs'[s] = Idle
                          \/ Head(reqs'[s].todo) \notin Relying
                          \/ reqs'[s].op \notin Payers
  <1>. DEFINE r == reqs[s]
  <1>0. Shaped /\ OnCourse(r) /\ s \in Slots /\ Formed(r)
    BY DEF OwnInv, Shaped, Busy
  <1>1. Lost \/ Runs(s)
    BY <1>0, StepIs
  <1>2. ASSUME Lost
        PROVE  DOMAIN reqs' = Slots /\ \A p \in Slots : reqs'[p] = Idle \/ reqs'[p] = reqs[p]
    BY <1>2 DEF Lost
  <1>3. ASSUME Panic(s) \/ GamePanics
        PROVE  DOMAIN reqs' = Slots /\ \A p \in Slots : reqs'[p] = Idle \/ reqs'[p] = reqs[p]
    BY <1>3 DEF Panic, HallPanics, GamePanics
  <1>4. DOMAIN reqs' = Slots
    BY <1>1, <1>2 DEF Runs
  <1>5. CASE r.op \in Payers
    <2>1. SharedStep(s) \/ HallStep(s)
      BY <1>0, <1>5, PayerNoGame
    <2>2. CASE Panic(s)
      <3>1. r.op \in HallOps
        BY <1>5, OpsByName DEF Payers
      <3>2. reqs'[s] = Idle
        BY <1>0, <2>2, <3>1 DEF Panic, HallPanics, Busy
      <3>. QED  BY <1>3, <2>2, <3>2 DEF Follows
    <2>3. CASE ~Panic(s)
      <3>1. Continues(s)
        BY <1>0, <1>5, <2>1, <2>3, PayerSteps
      <3>2. Follows(s)
        BY <1>5, <3>1 DEF Follows, Continues
      <3>3. \A p \in Slots : Follows(p)
        BY <1>1, <1>2, <3>2 DEF Runs, Follows
      <3>. QED  BY <1>4, <3>1, <3>3 DEF Continues, Relying
    <2>. QED  BY <2>2, <2>3
  <1>6. CASE r.op \notin Payers
    <2>1. reqs'[s] = Idle \/ reqs'[s] = r \/ (Runs(s) /\ reqs'[s].op = r.op)
      BY <1>0, <1>1, <1>2 DEF Runs
    <2>2. CASE Panic(s) \/ GamePanics
      <3>1. \A p \in Slots : Follows(p)
        BY <1>3, <2>2 DEF Follows
      <3>. QED  BY <1>4, <1>6, <2>1, <3>1
    <2>3. CASE ~Panic(s) /\ ~GamePanics
      <3>1. r.op \in Lockers => Follows(s)
        BY <1>6, <2>1 DEF Follows, OnWay, Payers, Lockers
      <3>2. ASSUME r.op \notin Lockers
            PROVE  Follows(s)
        <4>1. Onward(s)
          BY <1>0, <1>6, <2>3, <3>2, HallOnward, GameOnward
        <4>. QED  BY <1>6, <2>1, <4>1 DEF Follows, OnWay, Onward, Payers
      <3>3. \A p \in Slots : Follows(p)
        BY <1>1, <1>2, <3>1, <3>2 DEF Runs, Follows
      <3>. QED  BY <1>4, <1>6, <2>1, <3>3
    <2>. QED  BY <2>2, <2>3
  <1>. QED  BY <1>5, <1>6

\* They stay on their way.
LEMMA WaysStay ==
    ASSUME PayInv, \A p \in Slots : Follows(p)
    PROVE  \A p \in Busy' : OnWay(reqs'[p])
  BY DEF PayInv, Follows, Busy

\* A user whose list grows stays solvent.
LEMMA SolventStays ==
    ASSUME PayInv, \A p \in Slots : Follows(p), NEW v \in Users, Excused(v) => Excused(v)',
           IsList(Info(v)) => Grows(Info(v), db'.users[v].info)
    PROVE  Solvent(v)'
  <1>. DEFINE q == Info(v)
              d == db'.users[v].info
  <1>1. CASE Excused(v)
    BY <1>1 DEF Solvent
  <1>2. CASE ~Excused(v)
    <2>1. Paid(q) /\ IsList(q)
      BY <1>2 DEF PayInv, Funded, Solvent, Paid
    <2>2. Grows(q, d) /\ Info(v)' = d
      BY <2>1 DEF Info
    <2>3. Paid(d)
      <3>. HIDE DEF q, d
      <3>. QED  BY <2>1, <2>2, GrowingPays
    <2>4. ASSUME NEW r, r.n \in Nat, Backs(q, r)
          PROVE  Backs(d, r)
      <3>1. Covers(q, r.union, r.n) => Covers(d, r.union, r.n)
        <4>. HIDE DEF q, d
        <4>. QED  BY <2>1, <2>2, <2>4, GrowingCovers
      <3>. QED  BY <2>4, <3>1 DEF Backs
    <2>5. ASSUME NEW p \in Busy', reqs'[p].uid = v, reqs'[p].op \in Payers
          PROVE  Backs(d, reqs'[p])
      <3>1. p \in Slots /\ reqs'[p] # Idle
        BY DEF Busy
      <3>2. OnWay(reqs'[p]) /\ reqs'[p].n \in Nat
        BY <2>5, WaysStay DEF OnWay
      <3>3. CASE reqs'[p] = reqs[p]
        <4>1. Backs(q, reqs[p])
          BY <1>2, <2>5, <3>1, <3>3 DEF PayInv, Funded, Solvent, Busy
        <4>. QED  BY <2>4, <3>2, <3>3, <4>1
      <3>4. CASE Head(reqs'[p].todo) \notin Relying
        BY <3>4 DEF Backs, Relying
      <3>5. CASE reqs'[p] # reqs[p] /\ Head(reqs'[p].todo) \in Relying
        <4>1. /\ p \in Busy /\ reqs[p].uid = v /\ reqs[p].op \in Payers
              /\ Backs(q, reqs[p]) => Backs(q, reqs'[p])
          BY <2>1, <2>5, <3>1, <3>5 DEF Follows
        <4>2. Backs(q, reqs[p])
          BY <1>2, <4>1 DEF PayInv, Funded, Solvent
        <4>. QED  BY <2>4, <3>2, <4>1, <4>2
      <3>. QED  BY <3>3, <3>4, <3>5
    <2>. QED  BY <2>2, <2>3, <2>5 DEF Solvent
  <1>. QED  BY <1>1, <1>2

\* An excuse is not forgotten; a clash, and a user who leaves, is noted.
LEMMA ExcusesStay ==
    ASSUME NEW s \in Busy, hist' = Noted(s)
    PROVE  /\ \A v \in Users : Excused(v) => Excused(v)'
           /\ \A v \in Users : At(s, "pull") /\ v = reqs[s].uid => Excused(v)'
           /\ \A p \in Busy \ {s} :
                 Clashes(reqs[p], reqs[s]) \cup Clashes(reqs[s], reqs[p]) \subseteq hist'.clashed
           /\ hist.released \subseteq hist'.released
  <1>1. /\ hist'.clashed = hist.clashed \cup
              UNION {Clashes(reqs[p], reqs[s]) \cup Clashes(reqs[s], reqs[p]) : p \in Busy \ {s}}
        /\ hist'.released = hist.released \cup ReleasedBy(s)
        /\ hist'.left = hist.left \cup (IF At(s, "pull") THEN {reqs[s].uid} ELSE {})
    BY DEF Noted
  <1>2. \A v \in Users : Excused(v) => Excused(v)'
    BY <1>1 DEF Excused
  <1>3. \A v \in Users : At(s, "pull") /\ v = reqs[s].uid => Excused(v)'
    BY <1>1 DEF Excused
  <1>. HIDE DEF Clashes
  <1>4. ASSUME NEW p \in Busy \ {s}
        PROVE  Clashes(reqs[p], reqs[s]) \cup Clashes(reqs[s], reqs[p]) \subseteq hist'.clashed
    BY <1>1, Zenon
  <1>. QED  BY <1>1, <1>2, <1>3, <1>4

\* No other request of a user relies on the score that one of his takes from,
\* unless he is excused.
LEMMA NobodyElseRelies ==
    ASSUME OwnInv, PayInv, NEW s \in Busy, reqs[s].op \in Payers, Debit(s), hist' = Noted(s),
           NEW p \in Busy \ {s}, NEW u \in Users, reqs[s].uid = u, reqs[p].uid = u,
           reqs[p].op \in Payers, ~Excused(u)'
    PROVE  Head(reqs[p].todo) \notin Relying
  <1>1. Clashes(reqs[p], reqs[s]) \cup Clashes(reqs[s], reqs[p]) \subseteq hist'.clashed
    BY ExcusesStay
  <1>2. <<"score", u>> \notin hist'.clashed /\ u \notin hist'.released
    BY DEF Excused
  <1>3. \A r : r.op = "GiveScore" => <<"score", r.uid>> \in Alone(r)
    BY OpsByName DEF Alone
  <1>4. \A r : r.op = "ModifyScore" => <<"score", r.uid>> \in Shared(r)
    BY DEF Shared
  <1>5. reqs[s].op = "ModifyScore" /\ reqs[p].op = "ModifyScore"
    <2>1. \A r : r.op \in Payers => <<"score", r.uid>> \in Alone(r) \cup Shared(r)
      BY <1>3, <1>4 DEF Payers
    <2>2. reqs[s].op = "GiveScore" => <<"score", u>> \in Clashes(reqs[s], reqs[p])
      BY <1>3, <2>1 DEF Clashes
    <2>3. reqs[p].op = "GiveScore" => <<"score", u>> \in Clashes(reqs[p], reqs[s])
      BY <1>3, <2>1 DEF Clashes
    <2>. QED  BY <1>1, <1>2, <2>2, <2>3 DEF Payers
  <1>6. /\ Formed(reqs[s]) /\ Formed(reqs[p]) /\ OnCourse(reqs[s]) /\ OnCourse(reqs[p])
        /\ s \in Slots /\ p \in Slots /\ reqs[s] # Idle /\ u \in Users
    BY DEF OwnInv, Shaped, Busy, Formed
  <1>7. ASSUME NEW x \in Busy, reqs[x].op = "ModifyScore", reqs[x].uid = u,
               Head(reqs[x].todo) \in Relying
        PROVE  Holds(x, u)
    <2>1. /\ reqs[x].op \in Lockers /\ reqs[x].holds \in BOOLEAN /\ OnCourse(reqs[x])
      BY <1>7 DEF OwnInv, Shaped, Formed, Lockers
    <2>2. reqs[x].holds
      BY <1>7, <2>1, LockerStands DEF Relying
    <2>. QED  BY <1>7, <2>2 DEF Holds
  <1>8. Head(reqs[s].todo) \in Relying
    BY <1>6 DEF Debit, At, Steps, Relying
  <1>9. Holds(s, u)
    BY <1>5, <1>7, <1>8
  <1>10. u \in Users \ hist.released
    BY <1>2, <1>6, ExcusesStay
  <1>11. ~Holds(p, u)
    BY <1>6, <1>9, <1>10 DEF OwnInv, Sole
  <1>. QED  BY <1>5, <1>7, <1>11
\* Only a request that pays takes from a score.
LEMMA PayersDebit ==
    ASSUME OwnInv, NEW s \in Busy, OnWay(reqs[s]), Debit(s)
    PROVE  reqs[s].op \in Payers /\ Head(reqs[s].todo) = "debit"
  <1>. DEFINE r == reqs[s]
  <1>1. Formed(r) /\ r # Idle /\ r.holds \in BOOLEAN /\ OnCourse(r) /\ Shaped
    BY DEF OwnInv, Shaped, Busy, Formed
  <1>2. Head(r.todo) = "debit"
    BY <1>1 DEF Debit, At, Steps
  <1>3. r.op \in Lockers => r.op \in Payers
    BY <1>1, <1>2, LockerStands DEF Payers
  <1>4. r.op \in Payers \cup Lockers
    <2>1. "debit" \notin PlainCalls(r.op)
      BY DEF PlainCalls
    <2>2. r.op \notin Payers \cup Lockers => Head(r.todo) \in PlainCalls(r.op)
      BY <1>1, PlainWays
    <2>. QED  BY <1>2, <2>1, <2>2
  <1>. QED  BY <1>2, <1>3, <1>4

\* A debit takes what the score covers.
LEMMA DebitIsSolvent ==
    ASSUME OwnInv, PayInv, NEW s \in Busy, Debit(s), hist' = Noted(s),
           SharedStep(s) \/ HallStep(s)
    PROVE  Funded'
  <1>. DEFINE r == reqs[s]
              d == IncScore(db, r.uid, r.union, -r.n)
  <1>0. /\ OnWay(r) /\ r.uid \in Users /\ HasLocks(db) /\ s \in Slots
        /\ r.op \in Payers /\ Head(r.todo) = "debit" /\ r.n \in Nat
    <2>1. OnWay(r) /\ r.uid \in Users /\ HasLocks(db) /\ s \in Slots
      BY DEF PayInv, OwnInv, Shaped, Busy, Formed
    <2>2. r.op \in Payers /\ Head(r.todo) = "debit"
      BY <2>1, PayersDebit
    <2>. QED  BY <2>1, <2>2 DEF OnWay
  <1>1. /\ \A p \in Slots : Follows(p)
        /\ DOMAIN reqs' = Slots
        /\ \/ reqs'[s] = Idle \/ Head(reqs'[s].todo) \notin Relying
           \/ reqs'[s].op \notin Payers
    BY <1>0, RequestsFollow
  <1>2. \A v \in Users : Excused(v) => Excused(v)'
    BY ExcusesStay
  <1>3. CASE db' = db
    <2>1. \A v \in Users : IsList(Info(v)) => Grows(Info(v), db'.users[v].info)
      BY <1>3, StayingGrows DEF Info
    <2>. QED  BY <1>1, <1>2, <2>1, SolventStays DEF Funded
  <1>4. CASE db' # db
    <2>1. db' = d \/ db' = Locking(d, r.uid, FALSE)
      BY <1>4 DEF Debit
    <2>2. \A v \in Users : db'.users[v].info = d.users[v].info
      <3>1. HasLocks(d)
        <4>. HIDE DEF r
        <4>. QED  BY <1>0, UpdatesKeepLocks DEF SameLocks
      <3>2. \A v \in Users : Locking(d, r.uid, FALSE).users[v].info = d.users[v].info
        <4>. HIDE DEF d, r, Locking
        <4>. QED  BY <1>0, <3>1, LockingLists
      <3>. HIDE DEF d, r, Locking
      <3>. QED  BY <2>1, <3>2
    <2>3. \A v \in Users \ {r.uid} : d.users[v].info = Info(v)
      <3>. HIDE DEF r
      <3>. QED  BY <1>0, OtherScores
    <2>4. ASSUME NEW v \in Users \ {r.uid}
          PROVE  Solvent(v)'
      <3>1. IsList(Info(v)) => Grows(Info(v), db'.users[v].info)
        BY <2>2, <2>3, StayingGrows
      <3>. QED  BY <1>1, <1>2, <3>1, SolventStays
    <2>5. ASSUME NEW u \in Users, u = r.uid
          PROVE  Solvent(u)'
      <3>1. CASE Excused(u)'
        BY <3>1 DEF Solvent
      <3>2. CASE ~Excused(u)'
        <4>1. Paid(Info(u)) /\ Backs(Info(u), r)
          BY <1>0, <1>2, <2>5, <3>2 DEF PayInv, Funded, Solvent
        <4>2. Covers(Info(u), r.union, r.n)
          BY <1>0, <4>1 DEF Backs
        <4>3. Paid(d.users[u].info)
          <5>. HIDE DEF r
          <5>. QED  BY <1>0, <2>5, <4>1, <4>2, DebitPays
        <4>4. Paid(Info(u))'
          BY <2>2, <4>3 DEF Info
        <4>5. ASSUME NEW p \in Busy', reqs'[p].uid = u, reqs'[p].op \in Payers
              PROVE  Head(reqs'[p].todo) \notin Relying
          <5>1. p \in Slots /\ reqs'[p] # Idle
            BY DEF Busy
          <5>2. CASE p = s
            BY <1>1, <4>5, <5>1, <5>2
          <5>3. CASE p # s /\ reqs'[p] = reqs[p]
            <6>1. p \in Busy \ {s}
              BY <5>1, <5>3 DEF Busy
            <6>. QED  BY <1>0, <2>5, <3>2, <4>5, <5>3, <6>1, NobodyElseRelies
          <5>4. CASE p # s /\ reqs'[p] # reqs[p]
            <6>1. Lost \/ Runs(s)
              BY <1>0, StepIs DEF OwnInv
            <6>. QED  BY <5>1, <5>4, <6>1 DEF Lost, Runs
          <5>. QED  BY <5>2, <5>3, <5>4
        <4>. QED  BY <4>4, <4>5 DEF Solvent, Backs, Relying
      <3>. QED  BY <3>1, <3>2
    <2>. QED  BY <2>4, <2>5 DEF Funded
  <1>. QED  BY <1>3, <1>4

\* A user who leaves is excused, and the lists of the others stay.
LEMMA PullIsSolvent ==
    ASSUME OwnInv, PayInv, NEW s \in Busy, Pull(s), hist' = Noted(s),
           SharedStep(s) \/ HallStep(s)
    PROVE  Funded'
  <1>. DEFINE r == reqs[s]
              e == OtherEntries(Info(r.uid), r.union)
  <1>0. OnWay(r) /\ r.uid \in Users /\ HasLocks(db)
    BY DEF PayInv, OwnInv, Shaped, Busy, Formed
  <1>1. \A p \in Slots : Follows(p)
    BY <1>0, RequestsFollow
  <1>2. /\ \A v \in Users : Excused(v) => Excused(v)'
        /\ \A v \in Users : At(s, "pull") /\ v = r.uid => Excused(v)'
    BY ExcusesStay
  <1>3. db' = [db EXCEPT !.users[r.uid].info = e]
    BY DEF Pull, PullEntries, Info
  <1>4. \A v \in Users \ {r.uid} : db'.users[v].info = Info(v)
    <2>. HIDE DEF e, r
    <2>. QED  BY <1>0, <1>3, OneList
  <1>5. ASSUME NEW v \in Users \ {r.uid}
        PROVE  Solvent(v)'
    <2>1. IsList(Info(v)) => Grows(Info(v), db'.users[v].info)
      BY <1>4, StayingGrows
    <2>. QED  BY <1>1, <1>2, <2>1, SolventStays
  <1>6. ASSUME NEW v \in Users, v = r.uid
        PROVE  Solvent(v)'
    BY <1>2, <1>6 DEF Pull, Solvent
  <1>. QED  BY <1>5, <1>6 DEF Funded

\* Every call keeps the users solvent.
LEMMA CallsKeepPay ==
    ASSUME OwnInv, PayInv, NEW s \in Busy, hist' = Noted(s),
           SharedStep(s) \/ HallStep(s) \/ GameStep(s)
    PROVE  PayInv'
  <1>. DEFINE r == reqs[s]
  <1>0. OnWay(r) /\ HasLocks(db) /\ Formed(r) /\ r # Idle /\ Shaped /\ OnCourse(r)
    BY DEF PayInv, OwnInv, Shaped, Busy
  <1>1. \A p \in Slots : Follows(p)
    BY <1>0, RequestsFollow
  <1>2. \A v \in Users : Excused(v) => Excused(v)'
    BY ExcusesStay
  <1>3. (\A p \in Busy : OnWay(reqs[p]))'
    BY <1>1, WaysStay
  <1>4. CASE (SharedStep(s) \/ HallStep(s)) /\ (Debit(s) \/ Pull(s))
    BY <1>3, <1>4, DebitIsSolvent, PullIsSolvent DEF PayInv
  <1>5. CASE GameStep(s) \/ (~Debit(s) /\ ~Pull(s))
    <2>1. r.n \in Nat \/ ~At(s, "credit")
      <3>1. At(s, "credit") => Head(r.todo) = "credit"
        BY <1>0 DEF At, Steps
      <3>2. Head(r.todo) = "credit" => r.op \in Payers
        <4>1. "credit" \notin PlainCalls(r.op)
          BY DEF PlainCalls
        <4>2. r.op \notin Payers \cup Lockers => Head(r.todo) \in PlainCalls(r.op)
          BY <1>0, PlainWays
        <4>3. r.op \in Lockers /\ Head(r.todo) = "credit" => r.op \in Payers
          BY <1>0, LockerStands DEF Formed, Payers
        <4>. QED  BY <4>1, <4>2, <4>3
      <3>. QED  BY <1>0, <3>1, <3>2 DEF OnWay
    <2>2. Grown(db', Users)
      BY <1>0, <1>5, <2>1, HallGrows, GameGrows
    <2>3. \A v \in Users : Solvent(v)'
      BY <1>1, <1>2, <2>2, SolventStays DEF Grown
    <2>. QED  BY <1>3, <2>3 DEF PayInv, Funded
  <1>. QED  BY <1>4, <1>5

-----------------------------------------------------------------------------
(* Requests that arrive. *)

\* The calls of the requests that take no lock and pay nothing.
LEMMA PlainFromStart ==
    ASSUME NEW op \in Ops \ (Payers \cup Lockers)
    PROVE  StepsOf(op) \in Seq(PlainCalls(op))
  <1>. DEFINE C == PlainCalls(op)
  <1>1. \/ op \in {"CreateUnion", "JoinUnion", "InviteJoinUnion", "ExitUnion", "AddPartner"}
           /\ op \in HallOps
        \/ op \in GameOps /\ op \notin HallOps
    <2>1. CASE op \in HallOps
      BY <2>1, OpsByName DEF Payers, Lockers
    <2>2. CASE op \in GameOps
      BY <2>2, OpsByName
    <2>. QED  BY <2>1, <2>2 DEF Ops
  <1>2. \A x \in {"findUser", "findOwned", "exists", "incr", "insertUnion", "addToSet",
                  "findInviter", "findUnion", "countMember", "push", "pull",
                  "moveDownlines", "uncountMember", "record", "recordOther",
                  "setPartner", "inRoom", "getUnion", "createRoom", "storeRoom",
                  "storeServer", "proxy", "rejoin", "joinRoom", "quickJoin", "panicGame",
                  "leave", "dismiss", "checkHongBao", "keepUid", "creditHongBao",
                  "recordHongBao", "storeUid", "setting", "storeSetting", "cacheSetting"} :
           x \in C
    BY DEF PlainCalls, FreeCalls
  <1>3. op \in {"InviteJoinUnion", "AddPartner"} => "findOther" \in C
    BY DEF PlainCalls, FreeCalls
  <1>. HIDE DEF C
  <1>4. NextId \in Seq(C)
    BY <1>2 DEF NextId
  <1>5. CASE op = "CreateUnion"
    <2>1. CreateUnion \in Seq(C)
      <3>1. <<"findUser", "findOwned">> \in Seq(C) /\ <<"insertUnion">> \in Seq(C)
            /\ <<"addToSet">> \in Seq(C)
        BY <1>2
      <3>. QED  BY <1>4, <3>1 DEF CreateUnion
    <2>. QED  BY <1>1, <1>5, <2>1, OpsByName DEF StepsOf, HallSteps, C
  <1>6. CASE op = "JoinUnion"
    <2>1. JoinUnion \in Seq(C)
      <3>1. <<"findInviter", "findUnion", "findUser", "countMember">> \in Seq(C)
            /\ <<"push">> \in Seq(C)
        BY <1>2
      <3>. QED  BY <1>4, <3>1 DEF JoinUnion
    <2>. QED  BY <1>1, <1>6, <2>1, OpsByName DEF StepsOf, HallSteps, C
  <1>7. CASE op = "InviteJoinUnion"
    <2>1. InviteJoinUnion \in Seq(C)
      <3>1. <<"findUnion", "findUser", "findOther", "countMember">> \in Seq(C)
            /\ <<"push">> \in Seq(C)
        BY <1>2, <1>3, <1>7
      <3>. QED  BY <1>4, <3>1 DEF InviteJoinUnion
    <2>. QED  BY <1>1, <1>7, <2>1, OpsByName DEF StepsOf, HallSteps, C
  <1>8. CASE op \in {"ExitUnion", "AddPartner"}
    <2>1. ExitUnion \in Seq(C) /\ (op = "AddPartner" => AddPartner \in Seq(C))
      BY <1>2, <1>3 DEF ExitUnion, AddPartner
    <2>. QED  BY <1>1, <1>8, <2>1, OpsByName DEF StepsOf, HallSteps, C
  <1>9. CASE op \in GameOps /\ op \notin HallOps
    <2>1. /\ CreateRoomSteps \in Seq(C) /\ JoinRoomSteps \in Seq(C)
          /\ QuickJoinSteps \in Seq(C) /\ GetHongBaoSteps \in Seq(C)
      BY <1>2 DEF CreateRoomSteps, JoinRoomSteps, QuickJoinSteps, GetHongBaoSteps
    <2>2. /\ StoreThenCache \in Seq(C) /\ CacheThenStore \in Seq(C)
          /\ <<"leave">> \in Seq(C) /\ <<"getUnion", "dismiss">> \in Seq(C)
      BY <1>2 DEF StoreThenCache, CacheThenStore
    <2>3. StepsOf(op) \in {CreateRoomSteps, JoinRoomSteps, QuickJoinSteps, GetHongBaoSteps,
                           StoreThenCache, CacheThenStore, <<"leave">>,
                           <<"getUnion", "dismiss">>}
      BY <1>9, OpsByName DEF StepsOf, GameSteps
    <2>. QED  BY <2>1, <2>2, <2>3 DEF C
  <1>. QED  BY <1>1, <1>5, <1>6, <1>7, <1>8, <1>9

\* A request begins on its way, and has read nothing that it relies on.
LEMMA NewOnWay ==
    ASSUME NEW i \in DOMAIN Starts, NEW c \in Starts[i].calls
    PROVE  /\ OnWay(NewRequest(c))
           /\ NewRequest(c).op \in Payers => Head(NewRequest(c).todo) \notin Relying
  <1>. DEFINE k == NewRequest(c)
  <1>1. c \in [op : HallOps \cup GameOps, uid : Users, other : Users, union : Nat, n : Nat]
    BY ClubsAssumption
  <1>2. c.op \in Ops /\ c.n \in Nat
    BY <1>1 DEF Ops
  <1>3. k.op = c.op /\ k.n = c.n /\ k.todo = StepsOf(c.op)
    BY DEF NewRequest
  <1>. HIDE DEF k
  <1>4. c.op \notin Payers \cup Lockers => StepsOf(c.op) \in Seq(PlainCalls(c.op))
    BY <1>2, PlainFromStart
  <1>5. c.op = "GiveScore" => StepsOf(c.op) = GiveScore
    BY OpsByName DEF StepsOf, HallSteps
  <1>6. c.op = "ModifyScore" => StepsOf(c.op) = ModifyScore
    BY OpsByName DEF StepsOf, HallSteps
  <1>7. /\ GiveScore \in GiveCourse /\ Head(GiveScore) \notin Relying
        /\ Head(ModifyScore) \notin Relying
    BY LockerCalls, GiveCalls DEF GiveScore, ModifyScore, GiveCourse, Relying
  <1>8. OnWay(k)
    BY <1>2, <1>3, <1>4, <1>5, <1>7 DEF OnWay
  <1>9. k.op \in Payers => Head(k.todo) \notin Relying
    BY <1>3, <1>5, <1>6, <1>7 DEF Payers
  <1>. QED  BY <1>8, <1>9 DEF k

\* A message that arrives changes no list.
LEMMA ArrivalKeepsPay ==
    ASSUME OwnInv, PayInv, NEW s \in Slots, Arrive(s), start \in DOMAIN Starts
    PROVE  PayInv'
  <1>1. PICK c \in Starts[start].calls : reqs' = [reqs EXCEPT ![s] = NewRequest(c)]
    BY DEF Arrive
  <1>. DEFINE k == NewRequest(c)
  <1>2. OnWay(k) /\ (k.op \in Payers => Head(k.todo) \notin Relying)
    BY NewOnWay
  <1>3. reqs' = [reqs EXCEPT ![s] = k] /\ db' = db /\ hist' = hist
    BY <1>1 DEF Arrive
  <1>. HIDE DEF k
  <1>4. DOMAIN reqs = Slots
    BY DEF OwnInv, Shaped
  <1>5. \A p \in Slots : Follows(p)
    BY <1>2, <1>3, <1>4 DEF Follows
  <1>6. (\A p \in Busy : OnWay(reqs[p]))'
    BY <1>5, WaysStay
  <1>7. \A v \in Users : Excused(v) => Excused(v)'
    BY <1>3 DEF Excused
  <1>8. \A v \in Users : IsList(Info(v)) => Grows(Info(v), db'.users[v].info)
    BY <1>3, StayingGrows DEF Info
  <1>9. \A v \in Users : Solvent(v)'
    BY <1>5, <1>7, <1>8, SolventStays
  <1>. QED  BY <1>6, <1>9 DEF PayInv, Funded

-----------------------------------------------------------------------------
(* Theorems. *)

\* Nobody but an owner is in debt at the start.
StartsPaid ==
    \A i \in DOMAIN Starts : \A u \in Users : \A e \in ToSet(Starts[i].docs.users[u].info) :
        e.score >= 0 \/ e.spreader = NoUser

\* The invariant of scores holds at the start.
LEMMA PaidAtStart ==
    ASSUME StartsPaid, Init
    PROVE  PayInv
  <1>1. Busy = {}
    BY DEF Init, Busy
  <1>2. ASSUME NEW u \in Users
        PROVE  Paid(Info(u))
    <2>. DEFINE q == Info(u)
    <2>1. db \in Docs /\ start \in DOMAIN Starts /\ db = Starts[start].docs
      BY ClubsAssumption DEF Init
    <2>2. q \in Seq(UnionInfo)
      BY <2>1 DEF Docs, User, Info
    <2>3. \A e \in ToSet(q) : e.score >= 0 \/ e.spreader = NoUser
      BY <2>1 DEF StartsPaid, Info
    <2>. HIDE DEF q
    <2>4. \A i \in DOMAIN q : q[i] \in UnionInfo /\ q[i] \in ToSet(q)
      BY <2>2 DEF ToSet
    <2>5. IsList(q)
      BY <2>2, <2>4 DEF IsList, UnionInfo, EntryFields
    <2>. QED  BY <2>3, <2>4, <2>5 DEF Paid, q
  <1>. QED  BY <1>1, <1>2 DEF PayInv, Funded, Solvent

\* What a request that pays has read of the payer's score stays covered until
\* it is taken (ModifyScore, GiveScore): other calls only let scores grow, and
\* no two requests take from one user unless they clash or his lock was lost.
THEOREM PaymentsStayBacked ==
    ASSUME StartsPaid
    PROVE  Spec => []PayInv
  <1>1. Init => PayInv /\ start \in DOMAIN Starts
    BY PaidAtStart DEF Init
  <1>2. OwnInv /\ (PayInv /\ start \in DOMAIN Starts) /\ [Next]_vars
          => (PayInv /\ start \in DOMAIN Starts)'
    <2>. SUFFICES ASSUME OwnInv, PayInv, start \in DOMAIN Starts, [Next]_vars
                  PROVE  (PayInv /\ start \in DOMAIN Starts)'
      OBVIOUS
    <2>1. ASSUME NEW s \in Slots, Arrive(s)
          PROVE  (PayInv /\ start \in DOMAIN Starts)'
      <3>1. start' = start
        BY <2>1 DEF Arrive
      <3>. QED  BY <2>1, <3>1, ArrivalKeepsPay
    <2>2. ASSUME NEW s \in Slots, HallHandles(s) \/ GameHandles(s)
          PROVE  (PayInv /\ start \in DOMAIN Starts)'
      <3>1. /\ s \in Busy /\ start' = start /\ hist' = Noted(s)
            /\ SharedStep(s) \/ HallStep(s) \/ GameStep(s)
        BY <2>2 DEF HallHandles, GameHandles, Busy
      <3>. QED  BY <3>1, CallsKeepPay
    <2>3. CASE UNCHANGED vars
      <3>1. \A p \in Slots : Follows(p)
        BY <2>3 DEF vars, Follows
      <3>2. \A v \in Users : Excused(v) => Excused(v)'
        BY <2>3 DEF vars, Excused
      <3>3. \A v \in Users : IsList(Info(v)) => Grows(Info(v), db'.users[v].info)
        BY <2>3, StayingGrows DEF vars, Info
      <3>4. (\A p \in Busy : OnWay(reqs[p]))'
        BY <3>1, WaysStay
      <3>5. \A v \in Users : Solvent(v)'
        BY <3>1, <3>2, <3>3, SolventStays
      <3>. QED  BY <2>3, <3>4, <3>5 DEF vars, PayInv, Funded
    <2>4. Rest => UNCHANGED vars
      BY DEF Rest
    <2>. QED  BY <2>1, <2>2, <2>3, <2>4 DEF Next
  <1>. QED  BY <1>1, <1>2, LocksHaveOneOwner, PTL DEF Spec

\* Nobody but an owner gives away more than he has, unless his GiveScore,
\* which takes no lock, meets another request, his lock was taken away, or he
\* left and came back in between.
THEOREM NobodyOverdraws ==
    ASSUME StartsPaid
    PROVE  Spec => []NoOverdraft
  <1>1. PayInv => NoOverdraft
    <2>. SUFFICES ASSUME PayInv, NEW u \in Users, NEW e \in ToSet(db.users[u].info),
                         ~Excused(u)
                  PROVE  ~(e.score < 0) \/ e.spreader = NoUser
      BY DEF NoOverdraft, Excused
    <2>. DEFINE q == Info(u)
    <2>1. Paid(q)
      BY DEF PayInv, Funded, Solvent
    <2>2. PICK i \in DOMAIN q : q[i] = e
      BY DEF ToSet, Info
    <2>. HIDE DEF q
    <2>3. e.score \in Int /\ (e.score >= 0 \/ e.spreader = NoUser)
      BY <2>1, <2>2 DEF Paid, IsList
    <2>. QED  BY <2>3
  <1>2. Spec => []PayInv
    BY PaymentsStayBacked
  <1>. QED  BY <1>1, <1>2, PTL
=============================================================================
