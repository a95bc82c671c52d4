------------------------------ MODULE UserDocs ------------------------------
(***************************************************************************)
(* What the servers keep in the databases about users and their unions     *)
(* (clubs), and the requests that work on it: core/dao/user.go, union.go   *)
(* and redis.go.                                                           *)
(*                                                                         *)
(* A call of the database is atomic, what happens between two calls of one *)
(* handler is not.  A request therefore carries the steps that are left of *)
(* its handler (todo), each at most one call, and what the handler         *)
(* remembers of the documents it read.                                     *)
(***************************************************************************)
EXTENDS Integers, FiniteSets, Sequences, SequencesExt

CONSTANTS
    Users,
    NoUser,          \* the spreader of an owner
    RoomIds,         \* bound: the numbers a room may get
    NoRoom,          \* the empty roomID
    UnionIdBegin,    \* 10000000 in the code
    InviteIdBegin,   \* 10000000 in the code
    Slots,           \* bound: requests that are handled at the same time
    MaxFaults        \* bound: calls of the databases that fail

ASSUME DocsAssumption ==
    /\ NoUser \notin Users /\ IsFiniteSet(Users)
    /\ NoRoom \notin RoomIds /\ RoomIds \subseteq Nat
    /\ UnionIdBegin \in Nat \ {0} /\ InviteIdBegin \in Nat
    /\ Slots \subseteq Nat /\ IsFiniteSet(Slots)
    /\ MaxFaults \in Nat

VARIABLES
    db,       \* the documents and counters
    reqs,     \* the requests in the servers, by slot
    failed,   \* users with a request that ended by an error or a panic
    faults    \* calls that failed

-----------------------------------------------------------------------------
(* Documents. *)

Absent == -1                                  \* a key that Redis does not have
Counters == {"union", "invite"}
Begin(key) == IF key = "union" THEN UnionIdBegin ELSE InviteIdBegin

UnionInfo == [union: Nat, invite: Nat, spreader: Users \cup {NoUser},
              score: Int, partner: BOOLEAN]
User == [lock: BOOLEAN, room: RoomIds \cup {NoRoom}, info: Seq(UnionInfo)]

\* What a union's owner can set: the version of the list of room rules, the
\* status of hongBaoInfo (red envelopes); notice stands for the notice, the
\* name and the notice switch.
Settings == [opening: BOOLEAN, notice: BOOLEAN, lottery: BOOLEAN,
             rules: Nat, hongBao: BOOLEAN]
Union == [id: Nat, owner: Users, curMember: Int, forbidInvite: BOOLEAN,
          forbidGive: BOOLEAN, set: Settings,
          list: BOOLEAN,       \* hongBaoScoreList has scores
          uids: Seq(Users)]    \* hongBaoUidList

Docs == [users: [Users -> User], unions: Seq(Union),
         counters: [Counters -> Nat \cup {Absent}],
         changes: [Users -> Int],    \* the sum of a user's score change records
         servers: SUBSET RoomIds]    \* the rooms whose server Redis knows

\* The positional operator of an update and the handlers' loops take the
\* first entry of the union.
EntryOf(u, x) == SelectInSeq(db.users[u].info, LAMBDA e : e.union = x)
InUnion(u, x) == EntryOf(u, x) # 0
UnionsOf(u) == {e.union : e \in ToSet(db.users[u].info)}
InfoOf(u, x) == db.users[u].info[EntryOf(u, x)]

UnionAt(x) == SelectInSeq(db.unions, LAMBDA d : d.id = x)
UnionOf(x) == db.unions[UnionAt(x)]

Locking(d, u, locked) == [d EXCEPT !.users[u].lock = locked]
IncScore(d, u, x, n) == [d EXCEPT !.users[u].info[EntryOf(u, x)].score = @ + n]
PushEntry(d, u, entry) == [d EXCEPT !.users[u].info = Append(@, entry)]
\* The entries of other unions, in their order.
OtherEntries(q, x) ==
    LET kept == {i \in DOMAIN q : q[i].union # x}
        Place(k) == CHOOSE i \in kept : Cardinality({j \in kept : j <= i}) = k
    IN [k \in 1 .. Cardinality(kept) |-> q[Place(k)]]
PullEntries(d, u, x) == [d EXCEPT !.users[u].info = OtherEntries(@, x)]
IncMember(d, x, n) ==
    IF UnionAt(x) = 0 THEN d ELSE [d EXCEPT !.unions[UnionAt(x)].curMember = @ + n]

\* One entry of each user that has one of the union with this spreader.
MoveDownlines(d, x, from, to) ==
    LET Low(u) == SelectInSeq(d.users[u].info,
                              LAMBDA e : e.union = x /\ e.spreader = from)
    IN [d EXCEPT !.users = [u \in Users |->
            IF Low(u) = 0 THEN @[u] ELSE [@[u] EXCEPT !.info[Low(u)].spreader = to]]]

-----------------------------------------------------------------------------
(* Requests. *)

Request(ops, steps) == [
    op: ops, uid: Users,
    other: Users,                    \* MemberUid, GiveUid, Uid of the request
    union: Nat,                      \* UnionID, or the union of an invite id
    n: Nat,                          \* Count, InviteID, RoomID or the value to set
    todo: Seq(steps),                \* the steps that are left
    holds: BOOLEAN,                  \* it set the user's syncLock, and did not give it up
    owner: BOOLEAN,                  \* the union it read belongs to the user
    unions: SUBSET Nat,              \* the unions of the user it read
    spreader: Users \cup {NoUser},   \* the spreader it read
    id: Nat,                         \* the id it drew, or the list it got back
    sess: RoomIds \cup {NoRoom},     \* roomId of the session, at the start
    handle: Nat]                     \* the Union value it works on

Idle == [op |-> "none"]

Steps(s) == IF reqs[s] = Idle THEN <<>> ELSE reqs[s].todo
At(s, step) == Steps(s) # <<>> /\ Head(Steps(s)) = step
AtOp(s, ops, step) == At(s, step) /\ reqs[s].op \in ops

\* The handler goes on with these steps, and returns when there are none.
Then(s, r, steps) ==
    reqs' = [reqs EXCEPT ![s] = IF steps = <<>> THEN Idle
                                ELSE [r EXCEPT !.todo = steps]]
GoOn(s, r) == Then(s, r, Tail(r.todo))
Refuse(s) == Then(s, reqs[s], <<>>)
Calm == UNCHANGED <<failed, faults>>

\* It ends by an error that is not one of the database.
Fail(s) == Refuse(s) /\ failed' = failed \cup {reqs[s].uid} /\ UNCHANGED faults

-----------------------------------------------------------------------------
(* The steps that several handlers have. *)

\* UnLockUserData: an error of it is only logged.
UnLockSelf(s) ==
    /\ At(s, "unLockSelf")
    /\ db' = Locking(db, reqs[s].uid, FALSE)
    /\ GoOn(s, [reqs[s] EXCEPT !.holds = FALSE])
    /\ Calm

UnLockOther(s) ==
    /\ At(s, "unLockOther")
    /\ db' = Locking(db, reqs[s].other, FALSE)
    /\ GoOn(s, reqs[s])
    /\ Calm

\* incrId asks whether the key exists, sets it if not, and increments it.
Key(r) == IF r.op = "CreateUnion" /\ r.union = 0 THEN "union" ELSE "invite"
NextId == <<"exists", "incr">>

Exists(s) ==
    /\ At(s, "exists")
    /\ IF db.counters[Key(reqs[s])] = Absent
       THEN Then(s, reqs[s], <<"set">> \o Tail(reqs[s].todo))
       ELSE GoOn(s, reqs[s])
    /\ UNCHANGED db /\ Calm

SetBegin(s) ==
    /\ At(s, "set")
    /\ db' = [db EXCEPT !.counters[Key(reqs[s])] = Begin(Key(reqs[s]))]
    /\ GoOn(s, reqs[s])
    /\ Calm

\* Mutant: two commands that read and write the counter.
IncrStale(s) ==
    /\ At(s, "incr")
    /\ LET key == Key(reqs[s])
       IN \/ /\ reqs[s].handle = 0
             /\ reqs' = [reqs EXCEPT ![s].handle = db.counters[key] + 1]
             /\ UNCHANGED db
          \/ /\ reqs[s].handle > 0
             /\ db' = [db EXCEPT !.counters[key] = reqs[s].handle]
             /\ GoOn(s, [reqs[s] EXCEPT !.id = reqs[s].handle, !.handle = 0,
                                        !.union = IF key = "union" THEN reqs[s].handle ELSE @])
    /\ Calm

Incr(s) ==
    /\ At(s, "incr")
    /\ LET key == Key(reqs[s])
           id == db.counters[key] + 1
       IN /\ db' = [db EXCEPT !.counters[key] = id]
          /\ GoOn(s, IF key = "union" THEN [reqs[s] EXCEPT !.union = id]
                     ELSE [reqs[s] EXCEPT !.id = id])
    /\ Calm

SharedStep(s) == UnLockSelf(s) \/ UnLockOther(s) \/ Exists(s) \/ SetBegin(s) \/ Incr(s)
=============================================================================
