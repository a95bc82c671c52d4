-------------------------------- MODULE Hall --------------------------------
(***************************************************************************)
(* The handlers of the hall that change a union or the scores of its       *)
(* members: hall/handler/union.go.                                         *)
(*                                                                         *)
(* Left out: the queries; OperationInviteJoinUnion (nothing writes the     *)
(* invitations it looks for); UpdateUnionRebate (it refuses every request  *)
(* that names a member); UpdateUnionNotice and UpdateForbidGameStatus (the *)
(* database refuses an update without operators); ModifyScore with a       *)
(* negative Count, which takes score back from the member; the records of  *)
(* gifts and of modified scores, which only queries read.                  *)
(***************************************************************************)
EXTENDS UserDocs

CONSTANT MaxUnionCount   \* userMaxUnionCount of the game configuration

\* The calls of each handler, in their order.
CreateUnion == <<"findUser", "findOwned">> \o NextId
               \o <<"insertUnion">> \o NextId \o <<"addToSet">>
JoinUnion == <<"findInviter", "findUnion", "findUser", "countMember">>
             \o NextId \o <<"push">>
InviteJoinUnion == <<"findUnion", "findUser", "findOther", "countMember">>
                   \o NextId \o <<"push">>
ExitUnion == <<"findUnion", "findUser", "pull", "moveDownlines", "uncountMember">>
SafeBoxOperation == <<"lock", "update">>
ModifyScore == <<"findUnion", "lock", "findOther", "debit", "credit", "record">>
GiveScore == <<"findUnion", "findUser", "findOther", "debit", "credit", "record",
               "recordOther">>
AddPartner == <<"findUnion", "findUser", "findOther", "setPartner">>

HallSteps == [CreateUnion |-> CreateUnion, JoinUnion |-> JoinUnion,
              InviteJoinUnion |-> InviteJoinUnion, ExitUnion |-> ExitUnion,
              SafeBoxOperation |-> SafeBoxOperation, ModifyScore |-> ModifyScore,
              GiveScore |-> GiveScore, AddPartner |-> AddPartner]
HallOps == DOMAIN HallSteps

\* Every request of the hall is lost when a handler panics.
HallPanics ==
    LET lost == {s \in Slots : reqs[s] # Idle /\ reqs[s].op \in HallOps}
    IN /\ reqs' = [s \in Slots |-> IF s \in lost THEN Idle ELSE reqs[s]]
       /\ failed' = failed \cup {reqs[s].uid : s \in lost}

-----------------------------------------------------------------------------
(* Reading. *)

\* A union that does not exist, or that forbids it, refuses.
UnionRefuses(r, d) ==
    \/ r.op \in {"JoinUnion", "InviteJoinUnion"} /\ d.forbidInvite /\ d.owner # r.uid
    \/ r.op \in {"ModifyScore", "GiveScore"} /\ d.forbidGive /\ d.owner # r.uid
    \/ r.op = "ExitUnion" /\ d.owner = r.uid

FindUnion(s) ==
    /\ AtOp(s, HallOps, "findUnion")
    /\ LET r == reqs[s]
       IN IF UnionAt(r.union) = 0 \/ UnionRefuses(r, UnionOf(r.union)) THEN Refuse(s)
          ELSE GoOn(s, [r EXCEPT !.owner = UnionOf(r.union).owner = r.uid])
    /\ UNCHANGED db /\ Calm

\* JoinUnion: of users with the same invite id the database finds any.
FindInviter(s) ==
    /\ At(s, "findInviter")
    /\ LET r == reqs[s]
           Of(u) == SelectInSeq(db.users[u].info, LAMBDA e : e.invite = r.n)
           inviters == {u \in Users : Of(u) # 0}
       IN \/ inviters = {} /\ Refuse(s)
          \/ \E u \in inviters :
                GoOn(s, [r EXCEPT !.spreader = u,
                                  !.union = db.users[u].info[Of(u)].union])
    /\ UNCHANGED db /\ Calm

\* A user who may not go on with what he has; owners need no score.
\* Mutant: the score is not looked at.
LacksScoreNever(r) == ~InUnion(r.uid, r.union)

LacksScore(r) ==
    InUnion(r.uid, r.union) => InfoOf(r.uid, r.union).score < r.n /\ ~r.owner

FindUser(s) ==
    /\ AtOp(s, HallOps, "findUser")
    /\ LET r == reqs[s]
           refused ==
              CASE r.op = "CreateUnion" -> Len(db.users[r.uid].info) > MaxUnionCount
                [] r.op = "JoinUnion" -> InUnion(r.uid, r.union)
                [] r.op = "GiveScore" -> db.users[r.uid].room # NoRoom
                [] OTHER -> ~InUnion(r.uid, r.union)
       IN \/ refused /\ Refuse(s)
          \/ ~refused /\ r.op = "GiveScore" /\ LacksScore(r) /\ Then(s, r, <<"unLockSelf">>)
          \/ ~refused /\ r.op = "GiveScore" /\ ~LacksScore(r) /\ GoOn(s, r)
          \/ ~refused /\ r.op \in {"CreateUnion", "JoinUnion"} /\ GoOn(s, r)
          \/ /\ ~refused /\ r.op \notin {"CreateUnion", "JoinUnion", "GiveScore"}
             /\ GoOn(s, [r EXCEPT !.spreader = InfoOf(r.uid, r.union).spreader])
    /\ UNCHANGED db /\ Calm

\* The member of ModifyScore, GiveScore, AddPartner and InviteJoinUnion.
IsDownline(r) ==
    InUnion(r.other, r.union) /\ InfoOf(r.other, r.union).spreader = r.uid

MemberVerdict(r) ==
    CASE r.op = "InviteJoinUnion" -> IF InUnion(r.other, r.union) THEN "refuse" ELSE "go"
      [] r.op = "AddPartner" ->
            IF ~IsDownline(r) \/ InfoOf(r.other, r.union).partner THEN "refuse" ELSE "go"
      [] r.op = "GiveScore" ->
            IF db.users[r.other].room # NoRoom THEN "refuse"
            ELSE IF ~InUnion(r.other, r.union) THEN "unLock" ELSE "pay"
      [] OTHER ->   \* ModifyScore
            IF IsDownline(r) /\ InfoOf(r.other, r.union).score >= -r.n THEN "pay"
            ELSE "unLockBoth"

\* An owner pays nothing: his lock is taken away and the debit is left out.
\* Mutant: the member's score changes before the refusals.
FindOtherCredits(s) ==
    /\ At(s, "findOther")
    /\ InUnion(reqs[s].other, reqs[s].union)
    /\ db' = IncScore(db, reqs[s].other, reqs[s].union, reqs[s].n)
    /\ IF MemberVerdict(reqs[s]) = "pay" THEN GoOn(s, reqs[s]) ELSE Refuse(s)
    /\ Calm

FindOther(s) ==
    /\ At(s, "findOther")
    /\ LET r == reqs[s]
           verdict == MemberVerdict(r)
       IN \/ verdict = "refuse" /\ Refuse(s)
          \/ verdict = "unLock" /\ Then(s, r, <<"unLockSelf">>)
          \/ verdict = "unLockBoth" /\ Then(s, r, <<"unLockSelf", "unLockOther">>)
          \/ /\ verdict = "pay" /\ r.owner /\ r.op = "ModifyScore"
             /\ Then(s, r, <<"unLockSelf", "credit", "record">>)
          \/ /\ verdict = "pay" /\ r.owner /\ r.op = "GiveScore"
             /\ Then(s, r, <<"unLockSelf", "credit", "record", "recordOther">>)
          \/ verdict = "pay" /\ ~r.owner /\ GoOn(s, r)
          \/ verdict = "go" /\ GoOn(s, r)
    /\ UNCHANGED db /\ Calm

-----------------------------------------------------------------------------
(* Membership. *)

FindOwned(s) ==
    /\ At(s, "findOwned")
    /\ IF \E d \in ToSet(db.unions) : d.owner = reqs[s].uid
       THEN Refuse(s) ELSE GoOn(s, reqs[s])
    /\ UNCHANGED db /\ Calm

NoSettings == [opening |-> FALSE, notice |-> FALSE, lottery |-> FALSE, rules |-> 0,
               hongBao |-> FALSE]
NewUnion(x, u) == [id |-> x, owner |-> u, curMember |-> 1, forbidInvite |-> FALSE,
                   forbidGive |-> FALSE, set |-> NoSettings, list |-> FALSE,
                   uids |-> <<>>]
Entry(r, spreader, partner) ==
    [union |-> r.union, invite |-> r.id, spreader |-> spreader, score |-> 0,
     partner |-> partner]

InsertUnion(s) ==
    /\ At(s, "insertUnion")
    /\ db' = [db EXCEPT !.unions = Append(@, NewUnion(reqs[s].union, reqs[s].uid))]
    /\ GoOn(s, reqs[s]) /\ Calm

AddToSet(s) ==
    /\ At(s, "addToSet")
    /\ db' = PushEntry(db, reqs[s].uid, Entry(reqs[s], NoUser, TRUE))
    /\ GoOn(s, reqs[s]) /\ Calm

CountMember(s) ==
    /\ At(s, "countMember")
    /\ db' = IncMember(db, reqs[s].union, 1)
    /\ GoOn(s, reqs[s]) /\ Calm

\* JoinUnion adds the user below the inviter, InviteJoinUnion the other
\* below the user.
Push(s) ==
    /\ At(s, "push")
    /\ LET r == reqs[s]
       IN db' = IF r.op = "JoinUnion" THEN PushEntry(db, r.uid, Entry(r, r.spreader, FALSE))
                ELSE PushEntry(db, r.other, Entry(r, r.uid, FALSE))
    /\ GoOn(s, reqs[s]) /\ Calm

Pull(s) ==
    /\ At(s, "pull")
    /\ db' = PullEntries(db, reqs[s].uid, reqs[s].union)
    /\ GoOn(s, reqs[s]) /\ Calm

\* Mutant: users below the one who leaves stay below him.
DownlinesStay(s) ==
    /\ At(s, "moveDownlines")
    /\ GoOn(s, reqs[s]) /\ UNCHANGED db /\ Calm

Downlines(s) ==
    /\ At(s, "moveDownlines")
    /\ db' = MoveDownlines(db, reqs[s].union, reqs[s].uid, reqs[s].spreader)
    /\ GoOn(s, reqs[s]) /\ Calm

UncountMember(s) ==
    /\ At(s, "uncountMember")
    /\ db' = IncMember(db, reqs[s].union, -1)
    /\ GoOn(s, reqs[s]) /\ Calm

\* An update that matches no document is an error of the driver.
SetPartner(s) ==
    /\ At(s, "setPartner")
    /\ LET r == reqs[s]
       IN \/ ~InUnion(r.other, r.union) /\ Fail(s) /\ UNCHANGED db
          \/ /\ InUnion(r.other, r.union)
             /\ db' = [db EXCEPT !.users[r.other].info[EntryOf(r.other, r.union)].partner = TRUE]
             /\ GoOn(s, r) /\ Calm

-----------------------------------------------------------------------------
(* Scores. *)

\* Mutant: a refusal after the lock was taken does not give it back.
LockKeeps(s) ==
    /\ At(s, "lock")
    /\ LET r == [reqs[s] EXCEPT !.holds = TRUE]
           unfit == db.users[r.uid].room # NoRoom \/ LacksScore(r)
       IN \/ db.users[r.uid].lock /\ Refuse(s) /\ UNCHANGED db
          \/ /\ ~db.users[r.uid].lock
             /\ db' = Locking(db, r.uid, TRUE)
             /\ IF unfit THEN Refuse(s) ELSE GoOn(s, r)
    /\ Calm

\* Mutant: the update that sets the lock does not ask for a free one.
LockAlways(s) ==
    /\ At(s, "lock")
    /\ LET r == [reqs[s] EXCEPT !.holds = TRUE]
           unfit == db.users[r.uid].room # NoRoom \/ LacksScore(r)
       IN /\ db' = Locking(db, r.uid, TRUE)
          /\ IF unfit THEN Then(s, r, <<"unLockSelf">>) ELSE GoOn(s, r)
    /\ Calm

\* GetUnlockUserDataAndLock, and what the handlers ask of the user it returns.
Lock(s) ==
    /\ At(s, "lock")
    /\ LET r == [reqs[s] EXCEPT !.holds = TRUE]
           unfit == db.users[r.uid].room # NoRoom \/ LacksScore(r)
       IN \/ db.users[r.uid].lock /\ Refuse(s) /\ UNCHANGED db
          \/ /\ ~db.users[r.uid].lock
             /\ db' = Locking(db, r.uid, TRUE)
             /\ IF unfit THEN Then(s, r, <<"unLockSelf">>) ELSE GoOn(s, r)
    /\ Calm

\* SafeBoxOperation updates without an operator, which is always refused.
UpdateSafe(s) ==
    /\ At(s, "update")
    /\ Fail(s) /\ UNCHANGED db

\* ModifyScore takes the lock away with the score.  GiveScore goes on when
\* its update fails, without the user it would have returned.
Debit(s) ==
    /\ At(s, "debit")
    /\ LET r == reqs[s]
           paid == IncScore(db, r.uid, r.union, -r.n)
       IN \/ /\ InUnion(r.uid, r.union)
             /\ db' = IF r.op = "ModifyScore" THEN Locking(paid, r.uid, FALSE) ELSE paid
             /\ GoOn(s, IF r.op = "ModifyScore" THEN [r EXCEPT !.holds = FALSE] ELSE r)
             /\ Calm
          \/ /\ ~InUnion(r.uid, r.union) /\ r.op = "ModifyScore"
             /\ Fail(s) /\ UNCHANGED db
          \/ /\ ~InUnion(r.uid, r.union) /\ r.op = "GiveScore"
             /\ Then(s, r, <<"credit", "panic">>) /\ UNCHANGED db /\ Calm

\* ModifyScore takes the member's lock away with it, whoever holds it.
Credit(s) ==
    /\ At(s, "credit")
    /\ LET r == reqs[s]
           given == IncScore(db, r.other, r.union, r.n)
       IN \/ ~InUnion(r.other, r.union) /\ Fail(s) /\ UNCHANGED db
          \/ /\ InUnion(r.other, r.union)
             /\ db' = IF r.op = "ModifyScore" THEN Locking(given, r.other, FALSE) ELSE given
             /\ GoOn(s, r) /\ Calm

\* The records of the changes: ModifyScore inserts both at once, and that of
\* the member has the sign of the payer's; GiveScore inserts one by one.
Record(s) ==
    /\ At(s, "record")
    /\ LET r == reqs[s]
       IN db' = IF r.op = "ModifyScore"
                THEN [db EXCEPT !.changes[r.uid] = @ - r.n, !.changes[r.other] = @ - r.n]
                ELSE [db EXCEPT !.changes[r.uid] = @ - r.n]
    /\ GoOn(s, reqs[s]) /\ Calm

RecordOther(s) ==
    /\ At(s, "recordOther")
    /\ db' = [db EXCEPT !.changes[reqs[s].other] = @ + reqs[s].n]
    /\ GoOn(s, reqs[s]) /\ Calm

\* The name of the user that the failed debit did not return.
Panic(s) ==
    /\ At(s, "panic")
    /\ HallPanics /\ UNCHANGED <<db, faults>>

-----------------------------------------------------------------------------
(* The database fails: most handlers return, with the lock they hold. *)

HallFault(s) ==
    /\ reqs[s] # Idle /\ reqs[s].op \in HallOps
    /\ ~At(s, "panic") /\ ~At(s, "update")
    /\ faults < MaxFaults
    /\ faults' = faults + 1
    /\ failed' = failed \cup {reqs[s].uid}
    /\ LET r == reqs[s]
       IN \/ At(s, "exists") /\ Then(s, r, <<"set">> \o Tail(r.todo))
          \/ At(s, "unLockSelf") /\ GoOn(s, [r EXCEPT !.holds = FALSE])
          \/ At(s, "unLockOther") /\ GoOn(s, r)
          \/ AtOp(s, {"GiveScore"}, "debit") /\ Then(s, r, <<"credit", "panic">>)
          \/ (AtOp(s, {"GiveScore"}, "record") \/ At(s, "recordOther")) /\ GoOn(s, r)
          \/ /\ ~At(s, "exists") /\ ~At(s, "unLockSelf") /\ ~At(s, "unLockOther")
             /\ ~AtOp(s, {"GiveScore"}, "debit") /\ ~AtOp(s, {"GiveScore"}, "record")
             /\ ~At(s, "recordOther")
             /\ Refuse(s)
    /\ UNCHANGED db

HallStep(s) ==
    \/ FindUnion(s) \/ FindInviter(s) \/ FindUser(s) \/ FindOther(s)
    \/ FindOwned(s) \/ InsertUnion(s) \/ AddToSet(s) \/ CountMember(s) \/ Push(s)
    \/ Pull(s) \/ Downlines(s) \/ UncountMember(s) \/ SetPartner(s)
    \/ Lock(s) \/ UpdateSafe(s) \/ Debit(s) \/ Credit(s) \/ Record(s) \/ RecordOther(s)
    \/ Panic(s)
    \/ HallFault(s)
=============================================================================
