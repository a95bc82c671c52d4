-------------------------------- MODULE Clubs --------------------------------
(***************************************************************************)
(* The hall and a game server at work on the same documents: requests of   *)
(* several users, and of one user through several messages, interleave     *)
(* call by call; calls of the databases fail; servers panic and restart.   *)
(* framework/node/app.go handles every message in a goroutine of its own,  *)
(* without a recover.                                                      *)
(***************************************************************************)
EXTENDS Hall, GameUnions

CONSTANTS
    Starts,     \* bound: documents to start from, each with the requests that come
    MaxAsked    \* bound: requests of a behaviour

ASSUME ClubsAssumption ==
    /\ MaxUnionCount \in Nat
    /\ RoomSize \in Nat \ {0}
    /\ MaxAsked \in Nat
    /\ \A i \in DOMAIN Starts :
          /\ Starts[i].docs \in Docs
          /\ \A c \in Starts[i].calls :
                /\ c \in [op : HallOps \cup GameOps, uid : Users, other : Users, union : Nat, n : Nat]
                /\ c.op = "CreateUnion" => c.union = 0

VARIABLES
    start,    \* which of Starts it is
    asked,    \* how many came
    hist      \* what happened, for the properties

vars == <<db, reqs, failed, faults, game, session, start, asked, hist>>

-----------------------------------------------------------------------------
(* What requests do that are handled at the same time.  Alone(r) are the   *)
(* things a handler reads and changes later as if nobody else did, and     *)
(* Shared(r) the ones it relies on or changes under a lock.                *)

Alone(r) ==
    CASE r.op \in {"JoinUnion", "ExitUnion"} -> {<<"member", r.uid>>}
      [] r.op = "InviteJoinUnion" -> {<<"member", r.other>>}
      [] r.op = "GiveScore" -> {<<"score", r.uid>>}
      [] r.op \in {"CreateRoom", "JoinRoom", "QuickJoin", "LeaveRoom"} -> {<<"room", r.uid>>}
      [] r.op = "GetHongBao" -> {<<"hongBao", r.uid>>}
      [] r.op = "HongBaoSetting" -> {<<"hongBao", u>> : u \in Users} \cup {<<"set", "hongBao">>}
      [] r.op \in SettingOps \ {"HongBaoSetting"} -> {<<"set", SettingOf[r.op]>>}
      [] OTHER -> {}
Shared(r) ==
    CASE r.op \in {"JoinUnion", "ExitUnion"} -> {<<"member", r.spreader>>}
      [] r.op = "InviteJoinUnion" -> {<<"member", r.uid>>}
      [] r.op = "ModifyScore" -> {<<"score", r.uid>>}
      [] OTHER -> {}

Clashes(r, q) == Alone(r) \cap (Alone(q) \cup Shared(q))
Busy == {s \in Slots : reqs[s] # Idle}

\* Users whose lock this step takes away without being its holder.
ReleasedBy(s) ==
    {u \in Users : db.users[u].lock /\ ~db'.users[u].lock
                   /\ ~(reqs[s].uid = u /\ reqs[s].holds)}
Noted(s) == [
    clashed |-> hist.clashed \cup
        UNION {Clashes(reqs[p], reqs[s]) \cup Clashes(reqs[s], reqs[p]) : p \in Busy \ {s}},
    released |-> hist.released \cup ReleasedBy(s),
    left |-> hist.left \cup (IF At(s, "pull") THEN {reqs[s].uid} ELSE {}),
    raised |-> IF AtOp(s, {"ModifyScore"}, "credit")
               THEN [hist.raised EXCEPT ![reqs[s].other] = @ + reqs[s].n] ELSE hist.raised,
    reset |-> hist.reset \/ \E k \in Counters :
                 db.counters[k] # Absent /\ db'.counters[k] = Begin(k)]

-----------------------------------------------------------------------------

Init ==
    /\ start \in DOMAIN Starts /\ db = Starts[start].docs
    /\ reqs = [s \in Slots |-> Idle]
    /\ failed = {} /\ faults = 0
    /\ game = NewUnionManager
    /\ session = [u \in Users |-> NoRoom]
    /\ asked = 0
    /\ hist = [clashed |-> {}, released |-> {}, left |-> {},
               raised |-> [u \in Users |-> 0], reset |-> FALSE]

StepsOf(op) == IF op \in HallOps THEN HallSteps[op] ELSE GameSteps[op]
\* The steps of the handlers, and the ones they turn to on the way.
Calls == {"set", "init", "keepUnion", "unLockSelf", "unLockOther", "panic"}
         \cup UNION {ToSet(StepsOf(op)) : op \in HallOps \cup GameOps}
Requests == Request(HallOps \cup GameOps, Calls)

NewRequest(c) ==
    [op |-> c.op, uid |-> c.uid, other |-> c.other, union |-> c.union, n |-> c.n,
     todo |-> StepsOf(c.op), holds |-> FALSE, owner |-> FALSE,
     unions |-> {}, spreader |-> NoUser, id |-> 0, sess |-> session[c.uid], handle |-> 0]

\* A message of a user reaches its server.
Arrive(s) ==
    /\ reqs[s] = Idle /\ \A q \in Slots : q < s => reqs[q] # Idle
    /\ asked < MaxAsked
    /\ \E c \in Starts[start].calls : reqs' = [reqs EXCEPT ![s] = NewRequest(c)]
    /\ asked' = asked + 1
    /\ UNCHANGED <<db, failed, faults, game, session, start, hist>>

HallHandles(s) ==
    /\ reqs[s] # Idle
    /\ SharedStep(s) \/ HallStep(s)
    /\ hist' = Noted(s)
    /\ UNCHANGED <<game, session, start, asked>>

GameHandles(s) ==
    /\ reqs[s] # Idle
    /\ GameStep(s)
    /\ hist' = Noted(s)
    /\ UNCHANGED <<start, asked>>

\* Nothing is asked any more.
Rest == Busy = {} /\ asked = MaxAsked /\ UNCHANGED vars

Next == \/ \E s \in Slots : Arrive(s) \/ HallHandles(s) \/ GameHandles(s)
        \/ Rest

Spec == Init /\ [][Next]_vars

-----------------------------------------------------------------------------
(* Properties. *)

\* Documents, requests and the memory of the game server are of their types.
TypeOK ==
    /\ db \in Docs
    /\ reqs \in [Slots -> Requests \cup {Idle}]
    /\ failed \subseteq Users /\ faults \in 0 .. MaxFaults
    /\ \A v \in ToSet(game.values) : v \in UnionValue
    /\ \A x \in DOMAIN game.unionList : game.unionList[x] \in DOMAIN game.values
    /\ session \in [Users -> RoomIds \cup {NoRoom}]

Holders(u) == {s \in Busy : reqs[s].uid = u /\ reqs[s].holds}

\* A user's syncLock is set only while a request of the user holds it; a
\* request that ends by an error may leave it set for ever.
LockHasHolder ==
    \A u \in Users : db.users[u].lock => Holders(u) # {} \/ u \in failed

\* Two requests hold a user's syncLock only after a third one, which did not
\* hold it, took it away (ModifyScore of the member, a refused GiveScore).
OneHolder ==
    \A u \in Users : Cardinality(Holders(u)) > 1 => u \in hist.released

\* Nobody but an owner gives away more than he has, unless his GiveScore,
\* which takes no lock, meets another request, his lock was taken away, or he
\* left and came back in between.
NoOverdraft ==
    \A u \in Users : \A e \in ToSet(db.users[u].info) :
        e.score < 0 => \/ e.spreader = NoUser
                       \/ <<"score", u>> \in hist.clashed
                       \/ u \in hist.released \cup hist.left

\* When every request has ended well, the score of a member who is no owner
\* is the one he began with and the changes on record; only what ModifyScore
\* gave him is on record as taken from him (union.go:848).
BooksBalance ==
    Busy = {} /\ failed = {} =>
        \A u \in Users : \A x \in UnionsOf(u) :
            \/ u \in hist.left \/ InfoOf(u, x).spreader = NoUser
            \/ InfoOf(u, x).score = db.changes[u] + 2 * hist.raised[u] +
                  FoldLeft(LAMBDA n, e : IF e.union = x THEN n + e.score ELSE n, 0,
                           Starts[start].docs.users[u].info)

MemberClash == \E t \in hist.clashed : t[1] = "member"
EntriesOf(u, x) == {i \in DOMAIN db.users[u].info : db.users[u].info[i].union = x}
Entries(x) == UNION {{u} \X EntriesOf(u, x) : u \in Users}

\* When every request has ended well, and nobody's membership was changed by
\* two at the same time, a union counts its members, has each once, and each
\* but the owner is below a member.
MembershipKept ==
    Busy = {} /\ failed = {} /\ ~MemberClash /\ ~hist.reset =>
        \A d \in ToSet(db.unions) :
            /\ Cardinality(Entries(d.id)) = d.curMember
            /\ \A u \in Users : InUnion(u, d.id) /\ u # d.owner =>
                  InUnion(InfoOf(u, d.id).spreader, d.id)

\* Union ids and invite ids differ, unless a counter was set back.
IdsDiffer ==
    ~hist.reset =>
        /\ IsInjective([i \in DOMAIN db.unions |-> db.unions[i].id])
        /\ \A u, v \in Users : \A i \in DOMAIN db.users[u].info, j \in DOMAIN db.users[v].info :
              db.users[u].info[i].invite = db.users[v].info[j].invite => u = v /\ i = j

Doubled(x) == Cardinality({h \in DOMAIN game.values : game.values[h].id = x}) > 1
RoomsIn(h, u) == {id \in DOMAIN game.values[h].rooms : u \in game.values[h].rooms[id]}
RoomsOf(u) == UNION {{h} \X RoomsIn(h, u) : h \in DOMAIN game.values}

\* A user is in one room at most, unless two of his messages about rooms met,
\* one failed, or a union was loaded twice.
OneRoomEach ==
    \A u \in Users : Cardinality(RoomsOf(u)) > 1 =>
        \/ <<"room", u>> \in hist.clashed \/ u \in failed
        \/ \E v \in ToSet(game.values) : Doubled(v.id)

\* A user takes one share of a red envelope, unless his message met another
\* of his or one of the owner, one failed, or the union was loaded twice.
TakesOnce ==
    \A d \in ToSet(db.unions), u \in Users :
        Cardinality({i \in DOMAIN d.uids : d.uids[i] = u}) > 1 =>
            <<"hongBao", u>> \in hist.clashed \/ failed # {} \/ Doubled(d.id)

\* At rest, the union that answers from memory has the settings of its
\* document: changes of different settings never lose one another.
SettingsKept ==
    Busy = {} /\ failed = {} =>
        \A x \in DOMAIN game.unionList :
            LET v == game.values[game.unionList[x]]
            IN v.data /\ ~Doubled(x) =>
                  \A name \in DOMAIN v.set :
                      v.set[name] = UnionOf(x).set[name] \/ <<"set", name>> \in hist.clashed
=============================================================================
