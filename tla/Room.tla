-------------------------------- MODULE Room --------------------------------
(***************************************************************************)
(* The life of one game room: game/component/room/room.go.                 *)
(*                                                                         *)
(* Clients enter, get ready, change seats, vote to dissolve the room and   *)
(* leave; timers kick users who do not get ready, start a game that enough *)
(* users wait for and end a vote nobody finished; the game frame starts    *)
(* and concludes games; the room is dismissed and taken out of its union.  *)
(* A handler of the code is one step.  Handlers of the Go struct call one  *)
(* another, so each is an operator from a room to a room and the actions   *)
(* at the end of the module apply them to the variable.                    *)
(***************************************************************************)
EXTENDS Integers, FiniteSets

CONSTANTS
    Users,            \* the players who may come to the room
    Poor,             \* the users whose score is below rule.ScoreLowLimit when they enter
    NoUser,           \* no user, for a start scheduler that is not running
    MaxPlayerCount,   \* rule.MaxPlayerCount, which NewRoom copies to chairCount
    MinPlayerCount,   \* rule.MinPlayerCount
    MaxBureau,        \* rule.Bureau: games (bureaus) a room plays
    CanWatch,         \* rule.CanWatch: users may enter as watchers
    CanEnterStarted,  \* rule.CanEnter: users may enter after the first game began
    SchedulerMin,     \* ready users the start scheduler asks for: 4 in the code
    WatchLimit,       \* users a room with watchers holds: 20 in the code
    ToChairs,         \* bound: the chairs that clients ask to move to
    MaxTimers,        \* bound: kick goroutines and timers of one user at a time
    MaxAnswerTasks,   \* bound: vote countdowns ever running at a time
    MaxFaults         \* bound: database updates that fail

ASSUME RoomAssumption ==
    /\ NoUser \notin Users
    /\ Poor \subseteq Users
    /\ IsFiniteSet(Users)
    /\ MaxPlayerCount \in Nat \ {0}
    /\ MinPlayerCount \in Nat \ {0}
    /\ MaxBureau \in Nat \ {0}
    /\ CanWatch \in BOOLEAN
    /\ CanEnterStarted \in BOOLEAN
    /\ SchedulerMin \in Nat
    /\ WatchLimit \in Nat
    /\ ToChairs \subseteq 0 .. (MaxPlayerCount + 1)
    /\ MaxTimers \in Nat
    /\ MaxAnswerTasks \in Nat
    /\ MaxFaults \in Nat

VARIABLE room  \* the Room struct, its timers and tasks, and what it writes elsewhere

vars == <<room>>

-----------------------------------------------------------------------------
(* State.  Chairs below MaxPlayerCount play, the ones from it on watch.  A   *)
(* client can name any chair; the two watching chairs stand for all of them. *)

Seats == 0 .. (MaxPlayerCount - 1)
Chairs == 0 .. (MaxPlayerCount + 1)
WatchChairs == {MaxPlayerCount, MaxPlayerCount + 1}

Status == {"Ready", "Playing", "Dismiss"}
RoomUser == [chair: Chairs, status: SUBSET Status, low: BOOLEAN]
Reasons == {"None", "BureauFinished", "UserDismiss", "UnionOwnerDismiss"}

UserMaps == UNION {[S -> RoomUser] : S \in SUBSET Users}
Timers == [Users -> Nat]
Flags == [Users -> BOOLEAN]
Creators == {"User", "Union"}
Panics == {"no", "nilUser", "nilMap"}

RoomType == [
    creator: Creators,             \* RoomCreator.CreatorType
    users: UserMaps,
    currentUserCount: Int,
    roomDismissed: BOOLEAN,
    registered: BOOLEAN,           \* in the union's RoomList: clients reach it
    gameStarted: BOOLEAN,
    hasStartedOneBureau: BOOLEAN,
    hasFinishedOneBureau: BOOLEAN,
    curBureau: Nat,
    dismissing: BOOLEAN,           \* askDismiss is a non-empty array
    agreed: SUBSET Seats,          \* the chairs of askDismiss that are not nil
    tickArmed: BOOLEAN,            \* dismissTick has still to reach 0
    answerTasks: Nat,              \* countdown tasks that run
    answerSet: BOOLEAN,            \* answerExitSchedule # nil
    stopSent: BOOLEAN,             \* a token is in the channel stopAnswerSchedules
    startTask: Users \cup {NoUser},\* startSchedulerID, by whose session it acts
    spawned: Timers,               \* go addKickScheduleEvent, not yet run
    live: Timers,                  \* kick timers holding the user's present record
    stale: Timers,                 \* kick timers holding an old, unready record
    db: Flags,                    \* the user's roomID in the database is this room
    sess: Flags,                  \* the user's session at the connector names the room
    crashed: Panics,               \* the panic that ended the process
    faults: Nat]

NewRoom(c) == [
    creator |-> c, users |-> [u \in {} |-> {}], currentUserCount |-> 0,
    roomDismissed |-> FALSE, registered |-> TRUE, gameStarted |-> FALSE,
    hasStartedOneBureau |-> FALSE, hasFinishedOneBureau |-> FALSE, curBureau |-> 0,
    dismissing |-> FALSE, agreed |-> {}, tickArmed |-> FALSE, answerTasks |-> 0,
    answerSet |-> FALSE, stopSent |-> FALSE, startTask |-> NoUser,
    spawned |-> [u \in Users |-> 0], live |-> [u \in Users |-> 0],
    stale |-> [u \in Users |-> 0], db |-> [u \in Users |-> FALSE],
    sess |-> [u \in Users |-> FALSE], crashed |-> "no", faults |-> 0]

Members(r) == DOMAIN r.users
Has(r, u, bit) == bit \in r.users[u].status
Seated(r) == {u \in Members(r) : r.users[u].chair < MaxPlayerCount}
ReadySeated(r) == {u \in Seated(r) : Has(r, u, "Ready")}
Occupied(r) == {r.users[u].chair : u \in Members(r)}
\* Those who take part in a vote: they have been ready once and have a seat.
Voters(r) == {u \in Seated(r) : Has(r, u, "Dismiss")}

(* What a step cannot know: whether the union is open, whether the rent is   *)
(* paid, and which users' database updates succeed (the code stops a loop of *)
(* updates at the first failure, over a map in an arbitrary order).          *)
Env(r) == [
    opening: IF r.creator = "Union" THEN BOOLEAN ELSE {TRUE},
    rentPaid: IF r.creator = "User" THEN BOOLEAN ELSE {TRUE},
    reach: IF r.faults < MaxFaults THEN SUBSET Users ELSE {Users}]

Faulted(r, e) == [r EXCEPT !.faults = IF e.reach = Users THEN @ ELSE @ + 1]

-----------------------------------------------------------------------------
(* What the room decides by. *)

HasEmptyChair(r) == Cardinality(Members(r)) < MaxPlayerCount

CanEnter(r) ==
    /\ r.hasStartedOneBureau => CanEnterStarted
    /\ HasEmptyChair(r) \/ (CanWatch /\ r.currentUserCount < WatchLimit)

\* The first chair of its kind, or the one after it: the code looks no further.
GetEmptyChairID(r, isWatch) ==
    LET first == IF isWatch \/ r.hasStartedOneBureau THEN MaxPlayerCount ELSE 0
    IN  IF first \in Occupied(r) THEN first + 1 ELSE first

\* Mutant: a dismissed room may start.
StartEvenDismissed(r) ==
    /\ ~r.gameStarted
    /\ \/ /\ Seated(r) = ReadySeated(r)
          /\ Cardinality(Seated(r)) >= MinPlayerCount
       \/ Cardinality(ReadySeated(r)) = MaxPlayerCount

EfficacyStartRoom(r) ==
    /\ ~r.roomDismissed /\ ~r.gameStarted
    /\ \/ /\ Seated(r) = ReadySeated(r)
          /\ Cardinality(Seated(r)) >= MinPlayerCount
       \/ Cardinality(ReadySeated(r)) = MaxPlayerCount

IsShouldSchedulerStart(r) ==
    /\ ~r.gameStarted /\ ~r.hasStartedOneBureau /\ ~r.roomDismissed
    /\ Cardinality(ReadySeated(r)) >= SchedulerMin
    /\ Cardinality(ReadySeated(r)) >= MinPlayerCount

EfficacyDismissRoom(r) == ~r.roomDismissed /\ r.currentUserCount = 0

-----------------------------------------------------------------------------
(* The functions of the struct that handlers share. *)

\* Mutant: a kick that forgets the database.
KickLeavesRoomId(r, u, e) ==
    LET unready == u \in Members(r) /\ ~Has(r, u, "Ready")
    IN  [r EXCEPT
            !.users = [v \in Members(r) \ {u} |-> r.users[v]],
            !.currentUserCount = @ - 1,
            !.live[u] = 0,
            !.stale[u] = IF unready THEN @ + r.live[u] ELSE @,
            !.sess[u] = @ /\ u \notin e.reach]

(* kickUser with userLeaveRoomNotify.  It also deletes the user's entry of   *)
(* kickSchedules, which nothing else reads: the time.AfterFunc it held still *)
(* fires, with the record of the user who left.  An unready record will      *)
(* count as unready then; the timer of a ready one will do nothing.          *)
KickUser(r, u, e) ==
    LET unready == u \in Members(r) /\ ~Has(r, u, "Ready")
    IN  [r EXCEPT
            !.users = [v \in Members(r) \ {u} |-> r.users[v]],
            !.currentUserCount = @ - 1,
            !.live[u] = 0,
            !.stale[u] = IF unready THEN @ + r.live[u] ELSE @,
            !.db[u] = @ /\ u \notin e.reach,
            !.sess[u] = @ /\ u \notin e.reach]

\* Mutants: the token stops a task without a test that there is one; the
\* pointer to the stopped task stays.
StopWithoutTask(r) == [r EXCEPT !.stopSent = FALSE, !.answerSet = FALSE,
                                !.answerTasks = @ - 1]
StopKeepsPointer(r) == [r EXCEPT !.stopSent = FALSE,
                                 !.answerTasks = IF r.answerSet THEN @ - 1 ELSE @]

(* The goroutine of stopSchedule reads a token and stops the task that the   *)
(* pointer names at that time.                                               *)
TakeStop(r) == [r EXCEPT !.stopSent = FALSE, !.answerSet = FALSE,
                         !.answerTasks = IF r.answerSet THEN @ - 1 ELSE @]

\* The channel holds one token: who sends another waits until the first is read.
SendStop(r) == [(IF r.stopSent THEN TakeStop(r) ELSE r) EXCEPT !.stopSent = TRUE]

SendStopAnswer(r) == IF r.answerSet THEN SendStop(r) ELSE r

CancelAllScheduler(r) == [SendStopAnswer(r) EXCEPT !.startTask = NoUser]

(* recordAllDrawResult in a union's room with a finished game: it assigns to *)
(* the nil map allPlayedUserArr if a present user has paid, and otherwise    *)
(* getBinWinUidArr indexes the empty list of those who won.                  *)
RecordPanics(r) == r.hasFinishedOneBureau /\ r.creator = "Union"

(* The rooms the code takes out of the union, and notifies. *)
DestroyRoom(r, e) ==
    [r EXCEPT !.registered = FALSE,
              !.db = [u \in Users |-> @[u] /\ ~(u \in Members(r) /\ u \in e.reach)]]

ResetRoom(r) ==
    [r EXCEPT !.roomDismissed = FALSE, !.gameStarted = FALSE,
              !.hasFinishedOneBureau = FALSE, !.hasStartedOneBureau = FALSE,
              !.curBureau = 0,
              !.spawned = [u \in Users |-> IF u \in Members(r) THEN @[u] + 1 ELSE @[u]]]

DismissRoom(r, reason, e) ==
    LET s == CancelAllScheduler([r EXCEPT !.roomDismissed = TRUE])
        destroyed == \/ r.currentUserCount = 0
                     \/ reason = "UnionOwnerDismiss"
                     \/ r.creator = "User"
                     \/ reason = "UserDismiss" /\ ~r.hasFinishedOneBureau
    IN  IF r.roomDismissed THEN r
        ELSE IF RecordPanics(r) THEN [s EXCEPT !.crashed = "nilMap"]
        ELSE IF destroyed THEN DestroyRoom(s, e)
        ELSE ResetRoom(s)

(* A room whose rent is not paid is dismissed, and the game starts all the   *)
(* same: the code does not return there.                                     *)
StartGame(r, e) ==
    LET s == [r EXCEPT !.startTask = NoUser]
        t == IF e.rentPaid THEN s ELSE DismissRoom(s, "UnionOwnerDismiss", e)
        play == [u \in Members(r) |->
                    IF u \in Seated(r)
                    THEN [r.users[u] EXCEPT !.status = (@ \ {"Ready"}) \cup {"Playing"}]
                    ELSE r.users[u]]
    IN  IF r.gameStarted THEN r
        ELSE IF r.curBureau = 0 /\ r.creator = "Union" /\ ~e.opening
             THEN DismissRoom(s, "UnionOwnerDismiss", e)
        ELSE [t EXCEPT !.hasStartedOneBureau = TRUE, !.gameStarted = TRUE,
                       !.users = play, !.curBureau = @ + 1]

StartOrDismiss(r, e) ==
    LET s == IF EfficacyStartRoom(r) THEN StartGame(r, e) ELSE r
    IN  IF EfficacyDismissRoom(s) THEN DismissRoom(s, "None", e) ELSE s

\* Mutant: playing is tested by equality, as userChangeSeat does.
LeaveComparesStatus(r, u, e) ==
    IF u \notin Members(r) \/ (r.gameStarted /\ r.users[u].status = {"Playing"}) THEN r
    ELSE StartOrDismiss(KickUser(r, u, e), e)

(* userLeaveRoomRequest and userLeaveRoom.  While a game runs the frame lets *)
(* no player go (IsUserEnableLeave), so a player's request is refused and    *)
(* the branch that marks a player Offline is never taken.                    *)
UserLeaveRoomRequest(r, u, e) ==
    IF u \notin Members(r) \/ (r.gameStarted /\ Has(r, u, "Playing")) THEN r
    ELSE StartOrDismiss(KickUser(r, u, e), e)

\* Mutant: the reset of a ready user tests the bit, and sets no kick timer.
ChangeSeatResetsReady(r, u, to) ==
    LET s == IF ~r.gameStarted /\ Has(r, u, "Ready")
             THEN [r EXCEPT !.users[u].status = {}] ELSE r
    IN  IF u \notin Members(r) THEN r
        ELSE IF r.users[u].status = {"Playing"} THEN r
        ELSE IF to \in Occupied(r) \/ (to \in Seats /\ r.users[u].low) THEN s
        ELSE [s EXCEPT !.users[u].chair = to]

UserChangeSeat(r, u, to) ==
    LET s == IF ~r.gameStarted /\ r.users[u].status = {"Ready"}
             THEN [r EXCEPT !.users[u].status = {}] ELSE r
    IN  IF u \notin Members(r) THEN r
        ELSE IF r.users[u].status = {"Playing"} THEN r
        ELSE IF to \in Occupied(r) \/ (to \in Seats /\ r.users[u].low) THEN s
        ELSE [s EXCEPT !.users[u].chair = to]

(* A vote of user u, who has a seat and has been ready: askForDismiss past   *)
(* its first test.  The array is indexed by chair, so what it remembers is   *)
(* that somebody on this chair agreed.                                       *)
Vote(r, u, exist, e) ==
    LET chair == r.users[u].chair
        o == IF r.dismissing \/ exist # "yes" THEN r
             ELSE [r EXCEPT !.dismissing = TRUE, !.agreed = {}, !.tickArmed = TRUE,
                            !.answerTasks = @ + 1, !.answerSet = TRUE]
        s == [o EXCEPT !.agreed = @ \cup {chair}]
    IN  IF ~o.dismissing \/ chair \in o.agreed \/ exist = "nil" THEN o
        ELSE IF exist = "no"
             THEN [SendStopAnswer(o) EXCEPT !.dismissing = FALSE, !.agreed = {}]
        ELSE IF \A v \in Voters(r) : r.users[v].chair \in s.agreed
             THEN DismissRoom(SendStopAnswer(s), "UserDismiss", e)
        ELSE s

\* A user who is not in the room is a nil pointer the code reads the status of.
AskForDismiss(r, u, exist, e) ==
    IF u \notin Members(r) THEN [r EXCEPT !.crashed = "nilUser"]
    ELSE IF u \notin Voters(r) THEN UserLeaveRoomRequest(r, u, e)
    ELSE Vote(r, u, exist, e)

(* The countdown reaches 0: the task asks for its own stop and agrees for    *)
(* every voter in turn.  A voter whose chair has agreed is passed over, so   *)
(* when all have nothing more happens; otherwise the last one dismisses.     *)
AgreeForAll(r, e) ==
    LET t == SendStop([r EXCEPT !.tickArmed = FALSE])
        chairs == {t.users[u].chair : u \in Voters(t)}
        late == IF r.dismissing THEN chairs \ r.agreed ELSE chairs
        o == IF r.dismissing THEN t
             ELSE [t EXCEPT !.dismissing = TRUE, !.agreed = {}, !.tickArmed = TRUE,
                            !.answerTasks = @ + 1, !.answerSet = TRUE]
    IN  IF late = {} THEN t
        ELSE DismissRoom(SendStopAnswer([o EXCEPT !.agreed = @ \cup chairs]),
                         "UserDismiss", e)

UserReady(r, u, e) ==
    LET s == [r EXCEPT !.users[u].status = @ \cup {"Ready", "Dismiss"}]
        schedule == /\ ~s.hasStartedOneBureau
                    /\ s.startTask = NoUser
                    /\ IsShouldSchedulerStart(s)
    IN  IF r.gameStarted \/ u \notin Members(r) THEN r
        ELSE IF r.hasStartedOneBureau /\ r.users[u].low THEN KickUser(r, u, e)
        ELSE IF Has(r, u, "Ready") THEN r
        ELSE IF EfficacyStartRoom(s) THEN StartGame(s, e)
        ELSE IF schedule THEN [s EXCEPT !.startTask = u]
        ELSE s

\* Mutant: every entry counts.
EntryAlwaysCounts(r, u, stored, e) ==
    LET new == [chair |-> GetEmptyChairID(r, FALSE), status |-> {}, low |-> u \in Poor]
        s == [r EXCEPT !.users = [v \in Members(r) \cup {u} |->
                                     IF v \in Members(r) THEN r.users[v] ELSE new],
                       !.currentUserCount = @ + 1,
                       !.db[u] = @ \/ u \in e.reach]
    IN  IF r.roomDismissed \/ (u \notin Members(r) /\ ~CanEnter(r)) THEN r
        ELSE [s EXCEPT !.sess[u] = TRUE,
                       !.spawned[u] = IF stored THEN @ + 1 ELSE @]

(* JoinRoom.  A new user whose database update fails stays in the room, but  *)
(* without a session that names it and without a kick timer; the same when   *)
(* Redis does not store the room's server.                                   *)
UserEntryRoom(r, u, stored, e) ==
    LET new == [chair |-> GetEmptyChairID(r, FALSE), status |-> {}, low |-> u \in Poor]
        s == IF u \in Members(r) THEN [r EXCEPT !.users[u].low = u \in Poor]
             ELSE [r EXCEPT !.users = [v \in Members(r) \cup {u} |->
                                          IF v = u THEN new ELSE r.users[v]],
                            !.currentUserCount = @ + 1,
                            !.db[u] = @ \/ u \in e.reach]
        failed == u \notin Members(r) /\ u \notin e.reach
    IN  IF r.roomDismissed \/ (u \notin Members(r) /\ ~CanEnter(r)) THEN r
        ELSE IF failed THEN s
        ELSE [s EXCEPT !.sess[u] = TRUE,
                       !.spawned[u] = IF stored THEN @ + 1 ELSE @]

\* Mutants: one bureau too many; the playing bit stays.
ConcludePastLast(r, poor, bad, e) ==
    LET clear(u) == [r.users[u] EXCEPT !.status = @ \ {"Playing", "Ready"}]
        s == [r EXCEPT !.gameStarted = FALSE, !.hasFinishedOneBureau = TRUE,
                       !.users = [u \in Members(r) |-> clear(u)]]
    IN  IF r.curBureau > MaxBureau THEN DismissRoom(s, "BureauFinished", e) ELSE s
ConcludeKeepsPlaying(r, poor, bad, e) ==
    LET clear(u) == [r.users[u] EXCEPT !.status = @ \ {"Ready"}]
        s == [r EXCEPT !.gameStarted = FALSE, !.hasFinishedOneBureau = TRUE,
                       !.users = [u \in Members(r) |-> clear(u)]]
    IN  IF r.curBureau >= MaxBureau THEN DismissRoom(s, "BureauFinished", e) ELSE s

(* The end of a game.  In a union's room a seated user below                 *)
(* ScoreDismissLimit ends the process: clearUserArr is a nil map until       *)
(* resetRoom makes one; so does a first bureau nobody won, paid by the       *)
(* winner of each bureau.  Bad says that one of these is the case.           *)
ConcludeGame(r, poor, bad, e) ==
    LET clear(u) == [r.users[u] EXCEPT !.status = @ \ {"Playing", "Ready"},
                        !.low = IF Has(r, u, "Playing") THEN u \in poor ELSE @]
        s == [r EXCEPT !.gameStarted = FALSE, !.hasFinishedOneBureau = TRUE,
                       !.users = [u \in Members(r) |-> clear(u)]]
    IN  IF r.curBureau >= MaxBureau THEN DismissRoom(s, "BureauFinished", e)
        ELSE IF r.creator = "Union" /\ bad THEN [s EXCEPT !.crashed = "nilMap"]
        ELSE s

(* The start scheduler after its ten ticks.  For each seated user who is not *)
(* ready the code moves the user whose session it holds - the one who was    *)
(* ready last - to the next watching chair.  There are two of those, so what *)
(* matters is whether it did so never, an odd or an even number of times.    *)
MovedToWatch(r, u) ==
    LET Move(s) == UserChangeSeat(s, u, GetEmptyChairID(s, TRUE))
        times == Cardinality(Seated(r)) - Cardinality(ReadySeated(r))
    IN  IF times = 0 THEN r ELSE IF times % 2 = 1 THEN Move(r) ELSE Move(Move(r))

-----------------------------------------------------------------------------
(* The steps.  A client's message reaches the room while the room is in its  *)
(* union's list and the session at the client's connector names the room.    *)

Up == room.crashed = "no"
CanSend(u) == Up /\ room.registered /\ room.sess[u]

Enter(u) ==
    /\ Up /\ room.registered
    /\ room.spawned[u] + room.live[u] + room.stale[u] < MaxTimers
    /\ \E e \in Env(room), stored \in BOOLEAN :
          /\ ~stored => e.reach # Users
          /\ room' = UserEntryRoom(Faulted(room, e), u, stored, e)

Ready(u) ==
    /\ CanSend(u)
    /\ \E e \in Env(room) : room' = UserReady(Faulted(room, e), u, e)

Leave(u) ==
    /\ CanSend(u)
    /\ \E e \in Env(room) : room' = UserLeaveRoomRequest(Faulted(room, e), u, e)

AskDismiss(u) ==
    /\ CanSend(u)
    /\ \E exist \in {"yes", "no", "nil"}, e \in Env(room) :
          /\ exist = "yes" /\ ~room.dismissing => room.answerTasks < MaxAnswerTasks
          /\ room' = AskForDismiss(Faulted(room, e), u, exist, e)

\* getRoomSceneInfoPush: in a running vote it also asks with a nil answer.
SceneInfo(u) ==
    /\ CanSend(u)
    /\ room.dismissing
    /\ \E e \in Env(room) : room' = AskForDismiss(Faulted(room, e), u, "nil", e)

ChangeSeat(u) ==
    /\ CanSend(u)
    /\ \E to \in ToChairs : room' = UserChangeSeat(room, u, to)

KickGoroutine(u) ==
    /\ Up /\ room.spawned[u] > 0
    /\ room' = [room EXCEPT !.spawned[u] = @ - 1,
                            !.live[u] = IF u \in Members(room) /\ ~room.hasStartedOneBureau
                                        THEN @ + 1 ELSE @]

LiveTimer(u) ==
    /\ Up /\ room.live[u] > 0
    /\ \E e \in Env(room) :
          LET r == [Faulted(room, e) EXCEPT !.live[u] = @ - 1]
          IN  room' = IF r.hasStartedOneBureau \/ Has(r, u, "Ready") THEN r
                      ELSE StartOrDismiss(KickUser(r, u, e), e)

StaleTimer(u) ==
    /\ Up /\ room.stale[u] > 0
    /\ \E e \in Env(room) :
          LET r == [Faulted(room, e) EXCEPT !.stale[u] = @ - 1]
          IN  room' = IF r.hasStartedOneBureau THEN r
                      ELSE StartOrDismiss(KickUser(r, u, e), e)

StartTick ==
    /\ Up /\ room.startTask # NoUser
    /\ ~room.dismissing
    /\ IsShouldSchedulerStart(room)
    /\ \E e \in Env(room) :
          room' = StartGame(MovedToWatch(Faulted(room, e), room.startTask), e)

AnswerTimeout ==
    /\ Up /\ room.answerTasks > 0 /\ room.tickArmed
    /\ \E e \in Env(room) : room' = AgreeForAll(Faulted(room, e), e)

StopAnswer ==
    /\ Up /\ room.stopSent
    /\ room' = TakeStop(room)

GameEnds ==
    /\ Up /\ room.gameStarted
    /\ \E e \in Env(room), poor \in SUBSET Members(room), bad \in BOOLEAN :
          room' = ConcludeGame(Faulted(room, e), poor, bad, e)

OwnerDismiss ==
    /\ Up /\ room.registered /\ room.creator = "Union"
    /\ \E e \in Env(room) :
          room' = DismissRoom(Faulted(room, e), "UnionOwnerDismiss", e)

Init == \E c \in Creators : room = NewRoom(c)

UserStep(u) ==
    \/ Enter(u) \/ Ready(u) \/ Leave(u) \/ AskDismiss(u)
    \/ SceneInfo(u) \/ ChangeSeat(u)

TimerStep(u) ==
    KickGoroutine(u) \/ LiveTimer(u) \/ StaleTimer(u)

Next ==
    \/ \E u \in Users : UserStep(u) \/ TimerStep(u)
    \/ StartTick \/ AnswerTimeout \/ StopAnswer \/ GameEnds \/ OwnerDismiss

Spec == Init /\ [][Next]_vars

\* A timer that was set fires and a goroutine that was started runs.
Fairness ==
    /\ \A u \in Users : WF_vars(KickGoroutine(u)) /\ WF_vars(LiveTimer(u))
    /\ WF_vars(AnswerTimeout)

FairSpec == Spec /\ Fairness

-----------------------------------------------------------------------------
(* Properties. *)

\* The room and everything it touches has the type the struct gives it.
TypeOK == room \in RoomType

(* The counter the room is dismissed by is never above the number of users   *)
(* in the map: every entry that counts adds a record, and no kick removes    *)
(* two.  (It may well be below, see CountMatchesUsers.)                      *)
CountBoundedByUsers == room.currentUserCount <= Cardinality(Members(room))

(* While no update has failed, a user is in a room that clients can reach    *)
(* if and only if the database names the room as the user's.                 *)
DbMatchesMembership ==
    (room.faults = 0 /\ room.registered) =>
        {u \in Users : room.db[u]} = Members(room)

(* Before the first game, every user who is not ready is on the way to a     *)
(* kick: a goroutine that will set the timer, or the timer.                  *)
UnreadyIsTimed ==
    (room.faults = 0 /\ room.registered /\ ~room.hasStartedOneBureau) =>
        \A u \in Members(room) :
            Has(room, u, "Ready") \/ room.spawned[u] + room.live[u] > 0

(* A room that goes on plays at most the bureaus its rule names, and the     *)
(* game that is the last one is never followed by another.                   *)
BureausBounded ==
    /\ room.curBureau <= MaxBureau
    /\ room.curBureau = MaxBureau => room.gameStarted \/ room.roomDismissed \/ ~Up

\* Users play exactly while a game runs.
PlayingOnlyInGame ==
    ~room.gameStarted => \A u \in Members(room) : ~Has(room, u, "Playing")

\* Nobody who plays is taken out of the room before the game ends.
PlayersStay ==
    [][room.gameStarted =>
         \A u \in Members(room) : Has(room, u, "Playing") => u \in Members(room)']_vars

(* Once a room is dismissed nothing revives it: no timer, no scheduler and   *)
(* no late message starts a game in it or makes it an open room again.       *)
DismissedForEver ==
    [][room.roomDismissed => /\ room.roomDismissed'
                             /\ room.gameStarted' => room.gameStarted]_vars

(* While the room points to a vote's countdown, that countdown runs: a stop  *)
(* token never leaves the pointer at a task it has stopped.                  *)
CountdownRuns == room.answerSet => room.answerTasks > 0

(* A user who does not get ready before the first game does not stay.        *)
NewcomerSettles ==
    \A u \in Users :
        (u \in Members(room) /\ room.faults = 0)
            ~> \/ u \notin Members(room) \/ Has(room, u, "Ready")
               \/ room.hasStartedOneBureau \/ ~room.registered \/ ~Up
               \/ room.faults > 0

(* What the comments promise and the code does not do.                       *)

(* kickUser says "stop the timers of this user".  If it did, the counter the *)
(* room is dismissed by would be the number of users.                        *)
CountMatchesUsers ==
    room.registered => room.currentUserCount = Cardinality(Members(room))

(* userReady says "users who are not ready become watchers" of the scheduled *)
(* start: those who then play are users who were ready.                      *)
ScheduledPlayersWereReady ==
    [][StartTick => \A u \in Members(room) :
                        Has(room, u, "Playing")' => Has(room, u, "Ready")]_vars

(* DismissRoom says "get and store the data of the games": recording them    *)
(* does not end the process.                                                 *)
RecordingReturns == room.crashed # "nilMap"
=============================================================================
