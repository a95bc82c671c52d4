----------------------------- MODULE RoomProofs -----------------------------
(***************************************************************************)
(* What is proved of a room, for every number of users, chairs and bureaus *)
(* and every bound on faults, timers and votes.                            *)
(*                                                                         *)
(* Each handler is an operator from a room to a room, so the induction is  *)
(* carried by predicates on rooms: Good (types and counters) and Sound     *)
(* (Good, and what is true of its games).  One lemma per operator says     *)
(* that it takes a sound room to a sound room that Follows it, and the     *)
(* lemmas about steps put the operators together as the actions do.        *)
(*                                                                         *)
(* The second half is about the records a room keeps elsewhere: the room's *)
(* name in the database entries of its users, and the kick timers of those *)
(* who are not ready.  Kept holds of a room whose records are in order.  A *)
(* step in which an update fails may put them out of order and counts the  *)
(* failure, so the invariant is that a room without failures is Kept.  One *)
(* lemma per operator says that it tends the records: it counts no failure *)
(* itself and keeps them if it reaches all users.                          *)
(***************************************************************************)
EXTENDS Room, FiniteSetTheorems, TLAPS

\* What Env(r) offers, for any room.
EnvType == [opening: BOOLEAN, rentPaid: BOOLEAN, reach: SUBSET Users]

\* CountdownRuns and CountBoundedByUsers, of a room, and with its type.
Counted(r) == r.answerSet => r.answerTasks > 0
Crowd(r) == r.currentUserCount <= Cardinality(Members(r))
Good(r) == r \in RoomType /\ Counted(r) /\ Crowd(r)

-----------------------------------------------------------------------------
(* The map of users. *)

\* The users of a room are some of Users, each with a record.
LEMMA UsersIsFunction ==
    ASSUME NEW r \in RoomType
    PROVE  /\ Members(r) \subseteq Users
           /\ r.users \in [Members(r) -> RoomUser]
  <1>1. PICK S \in SUBSET Users : r.users \in [S -> RoomUser]
    BY DEF RoomType, UserMaps
  <1>2. Members(r) = S
    BY <1>1 DEF Members
  <1>. QED  BY <1>1, <1>2

\* Any map from some of Users to records may be the users of a room.
LEMMA FunctionIsUsers ==
    ASSUME NEW S \in SUBSET Users, NEW f \in [S -> RoomUser]
    PROVE  f \in UserMaps /\ DOMAIN f = S
  BY DEF UserMaps

\* A room has finitely many users.
LEMMA MembersFinite ==
    ASSUME NEW r \in RoomType
    PROVE  /\ IsFiniteSet(Members(r))
           /\ Cardinality(Members(r)) \in Nat
  <1>1. IsFiniteSet(Members(r))
    BY UsersIsFunction, RoomAssumption, FS_Subset
  <1>. QED  BY <1>1, FS_CardinalityType

\* What a step cannot know has the type of EnvType.
LEMMA EnvIsTyped ==
    ASSUME NEW r, NEW e \in Env(r)
    PROVE  e \in EnvType
  BY DEF Env, EnvType

\* A step that leaves users and counters alone keeps a room good if it keeps it typed.
LEMMA SameCrowd ==
    ASSUME NEW r, Good(r), NEW s \in RoomType,
           s.users = r.users, s.currentUserCount = r.currentUserCount,
           Counted(s)
    PROVE  Good(s)
  BY DEF Good, Crowd, Members

-----------------------------------------------------------------------------
(* Stopping timers. *)

\* Counting a failed update keeps a room good.
LEMMA FaultedGood ==
    ASSUME NEW r, Good(r), NEW e \in EnvType
    PROVE  Good(Faulted(r, e))
  <1>. DEFINE f == IF e.reach = Users THEN r.faults ELSE r.faults + 1
  <1>1. r \in RoomType /\ Counted(r)
    BY DEF Good
  <1>2. f \in Nat
    BY <1>1 DEF RoomType
  <1>3. Faulted(r, e) = [r EXCEPT !.faults = f]
    BY DEF Faulted
  <1>. HIDE DEF f
  <1>4. [r EXCEPT !.faults = f] \in RoomType
    BY <1>1, <1>2 DEF RoomType
  <1>. QED  BY <1>1, <1>3, <1>4, SameCrowd DEF Counted, RoomType

\* Reading a stop token keeps a room good: only a task that runs is stopped.
LEMMA TakeStopGood ==
    ASSUME NEW r, Good(r)
    PROVE  Good(TakeStop(r))
  <1>. DEFINE n == IF r.answerSet THEN r.answerTasks - 1 ELSE r.answerTasks
              s == [r EXCEPT !.stopSent = FALSE, !.answerSet = FALSE, !.answerTasks = n]
  <1>1. r \in RoomType /\ Counted(r)
    BY DEF Good
  <1>2. n \in Nat
    BY <1>1 DEF RoomType, Counted
  <1>3. TakeStop(r) = s
    BY DEF TakeStop
  <1>. HIDE DEF n
  <1>4. s \in RoomType
    BY <1>1, <1>2 DEF RoomType
  <1>5. Counted(s) /\ s.users = r.users /\ s.currentUserCount = r.currentUserCount
    BY <1>1 DEF Counted, RoomType
  <1>. QED  BY <1>3, <1>4, <1>5, SameCrowd

\* What the operations on the stop tokens leave alone.
SameRoom(r, s) ==
    /\ s.creator = r.creator
    /\ s.users = r.users
    /\ s.currentUserCount = r.currentUserCount
    /\ s.roomDismissed = r.roomDismissed
    /\ s.gameStarted = r.gameStarted
    /\ s.hasStartedOneBureau = r.hasStartedOneBureau
    /\ s.hasFinishedOneBureau = r.hasFinishedOneBureau
    /\ s.curBureau = r.curBureau
    /\ s.crashed = r.crashed

\* Reading a stop token concerns neither users nor games.
LEMMA TakeStopKeeps ==
    ASSUME NEW r \in RoomType
    PROVE  SameRoom(r, TakeStop(r))
  BY DEF TakeStop, SameRoom, RoomType

\* Sending a stop token, which may wait for an older one to be read.
LEMMA SendStopGood ==
    ASSUME NEW r, Good(r)
    PROVE  Good(SendStop(r)) /\ SameRoom(r, SendStop(r))
  <1>. DEFINE t == IF r.stopSent THEN TakeStop(r) ELSE r
              s == [t EXCEPT !.stopSent = TRUE]
  <1>1. Good(t) /\ SameRoom(r, t)
    BY TakeStopGood, TakeStopKeeps DEF Good, SameRoom
  <1>2. SendStop(r) = s
    BY DEF SendStop
  <1>. HIDE DEF t
  <1>3. t \in RoomType /\ Counted(t)
    BY <1>1 DEF Good
  <1>4. s \in RoomType /\ Counted(s) /\ SameRoom(t, s)
    BY <1>3 DEF RoomType, Counted, SameRoom
  <1>5. Good(s)
    BY <1>1, <1>4, SameCrowd DEF SameRoom
  <1>. QED  BY <1>1, <1>2, <1>4, <1>5 DEF SameRoom

\* Sending it only if a countdown is set.
LEMMA SendStopAnswerGood ==
    ASSUME NEW r, Good(r)
    PROVE  Good(SendStopAnswer(r)) /\ SameRoom(r, SendStopAnswer(r))
  BY SendStopGood DEF SendStopAnswer, SameRoom

\* cancelAllScheduler.
LEMMA CancelGood ==
    ASSUME NEW r, Good(r)
    PROVE  Good(CancelAllScheduler(r)) /\ SameRoom(r, CancelAllScheduler(r))
  <1>. DEFINE t == SendStopAnswer(r)
              s == [t EXCEPT !.startTask = NoUser]
  <1>1. Good(t) /\ SameRoom(r, t)
    BY SendStopAnswerGood
  <1>2. CancelAllScheduler(r) = s
    BY DEF CancelAllScheduler
  <1>. HIDE DEF t
  <1>3. t \in RoomType /\ Counted(t)
    BY <1>1 DEF Good
  <1>4. s \in RoomType /\ Counted(s) /\ SameRoom(t, s)
    BY <1>3 DEF RoomType, Counted, SameRoom
  <1>5. Good(s)
    BY <1>1, <1>4, SameCrowd DEF SameRoom
  <1>. QED  BY <1>1, <1>2, <1>4, <1>5 DEF SameRoom

-----------------------------------------------------------------------------
(* Dismissing a room. *)

\* The room leaves its union; its users' database entries are cleared.
LEMMA DestroyRoomGood ==
    ASSUME NEW r, Good(r), NEW e \in EnvType
    PROVE  Good(DestroyRoom(r, e)) /\ SameRoom(r, DestroyRoom(r, e))
  <1>. DEFINE d == [u \in Users |-> r.db[u] /\ ~(u \in Members(r) /\ u \in e.reach)]
              s == [r EXCEPT !.registered = FALSE, !.db = d]
  <1>1. r \in RoomType /\ Counted(r)
    BY DEF Good
  <1>2. d \in Flags
    BY <1>1 DEF RoomType, Flags
  <1>3. DestroyRoom(r, e) = s
    BY DEF DestroyRoom
  <1>. HIDE DEF d
  <1>4. s \in RoomType /\ Counted(s) /\ SameRoom(r, s)
    BY <1>1, <1>2 DEF RoomType, Counted, SameRoom
  <1>5. Good(s)
    BY <1>4, SameCrowd DEF SameRoom
  <1>. QED  BY <1>3, <1>4, <1>5

\* resetRoom.
LEMMA ResetRoomGood ==
    ASSUME NEW r, Good(r)
    PROVE  Good(ResetRoom(r)) /\ ResetRoom(r).users = r.users
  <1>. DEFINE p == [u \in Users |-> IF u \in Members(r) THEN r.spawned[u] + 1
                                    ELSE r.spawned[u]]
              s == [r EXCEPT !.roomDismissed = FALSE, !.gameStarted = FALSE,
                             !.hasFinishedOneBureau = FALSE,
                             !.hasStartedOneBureau = FALSE,
                             !.curBureau = 0, !.spawned = p]
  <1>1. r \in RoomType /\ Counted(r)
    BY DEF Good
  <1>2. p \in Timers
    BY <1>1 DEF RoomType, Timers
  <1>3. ResetRoom(r) = s
    BY DEF ResetRoom
  <1>. HIDE DEF p
  <1>4. s \in RoomType
    BY <1>1, <1>2 DEF RoomType
  <1>5. Counted(s) /\ s.users = r.users /\ s.currentUserCount = r.currentUserCount
    BY <1>1 DEF RoomType, Counted
  <1>. QED  BY <1>3, <1>4, <1>5, SameCrowd

(* The reasons DismissRoom is called with: "None" for an empty room, and     *)
(* "BureauFinished" after a game.                                            *)
Called(r, reason) ==
    /\ reason = "None" => r.currentUserCount = 0
    /\ reason = "BureauFinished" => r.hasFinishedOneBureau

\* What is left of a room that is dismissed.
Dismissed(r, s) ==
    /\ s.users = r.users
    /\ s.currentUserCount = r.currentUserCount
    /\ s.roomDismissed
    /\ s.gameStarted = r.gameStarted
    /\ s.hasStartedOneBureau = r.hasStartedOneBureau
    /\ s.curBureau = r.curBureau
    /\ r.crashed # "no" => s.crashed # "no"

(* DismissRoom, under the reasons its callers give, never comes to the       *)
(* branch that resets the room for another round.                            *)
LEMMA DismissRoomGood ==
    ASSUME NEW r, Good(r), NEW reason \in Reasons, Called(r, reason),
           NEW e \in EnvType
    PROVE  Good(DismissRoom(r, reason, e)) /\ Dismissed(r, DismissRoom(r, reason, e))
  <1>. DEFINE m == [r EXCEPT !.roomDismissed = TRUE]
              s == CancelAllScheduler(m)
              d == DismissRoom(r, reason, e)
  <1>0. r \in RoomType /\ Counted(r)
    BY DEF Good
  <1>1. Good(m)
    <2>1. m \in RoomType /\ Counted(m)
      BY <1>0 DEF RoomType, Counted
    <2>. QED  BY <1>0, <2>1, SameCrowd DEF RoomType
  <1>2. Good(s) /\ SameRoom(m, s)
    BY <1>1, CancelGood
  <1>3. Dismissed(r, s)
    BY <1>0, <1>2 DEF SameRoom, Dismissed, RoomType
  <1>. HIDE DEF s
  <1>4. CASE r.roomDismissed
    BY <1>0, <1>4 DEF DismissRoom, Dismissed
  <1>5. CASE ~r.roomDismissed /\ RecordPanics(r)
    <2>. DEFINE c == [s EXCEPT !.crashed = "nilMap"]
    <2>1. d = c
      BY <1>5 DEF DismissRoom, s
    <2>2. s \in RoomType /\ Counted(s)
      BY <1>2 DEF Good
    <2>3. c \in RoomType /\ Counted(c) /\ c.crashed = "nilMap"
      BY <2>2 DEF RoomType, Counted, Panics
    <2>4. c.users = s.users /\ c.currentUserCount = s.currentUserCount
          /\ c.roomDismissed = s.roomDismissed /\ c.gameStarted = s.gameStarted
          /\ c.curBureau = s.curBureau
          /\ c.hasStartedOneBureau = s.hasStartedOneBureau
      BY <2>2 DEF RoomType
    <2>5. Good(c) /\ Dismissed(r, c)
      BY <1>2, <1>3, <2>3, <2>4, SameCrowd DEF Dismissed
    <2>. QED  BY <2>1, <2>5
  <1>6. CASE ~r.roomDismissed /\ ~RecordPanics(r)
    <2>1. \/ r.currentUserCount = 0
          \/ reason = "UnionOwnerDismiss"
          \/ r.creator = "User"
          \/ reason = "UserDismiss" /\ ~r.hasFinishedOneBureau
      BY <1>0, <1>6 DEF RecordPanics, Called, Reasons, RoomType, Creators
    <2>2. d = DestroyRoom(s, e)
      BY <1>6, <2>1 DEF DismissRoom, s
    <2>3. Good(d) /\ SameRoom(s, d)
      BY <1>2, <2>2, DestroyRoomGood
    <2>. QED  BY <1>3, <2>3 DEF SameRoom, Dismissed
  <1>. QED  BY <1>4, <1>5, <1>6

-----------------------------------------------------------------------------
(* What a step may do to the games of a room. *)

\* BureausBounded and PlayingOnlyInGame, of a room; Calm also says that a room
\* with a game has begun, which is what the kick timers test.
Bounded(r) ==
    /\ r.curBureau <= MaxBureau
    /\ r.curBureau = MaxBureau => r.gameStarted \/ r.roomDismissed \/ r.crashed # "no"
Calm(r) ==
    /\ ~r.gameStarted => \A u \in Members(r) : ~Has(r, u, "Playing")
    /\ r.gameStarted => r.hasStartedOneBureau
Sound(r) == Good(r) /\ Bounded(r) /\ Calm(r)

\* s keeps the players of r's game, and does not revive r.
Follows(r, s) ==
    /\ r.gameStarted =>
         /\ s.gameStarted
         /\ \A u \in Members(r) :
               Has(r, u, "Playing") => u \in Members(s) /\ Has(s, u, "Playing")
    /\ r.roomDismissed => s.roomDismissed /\ (s.gameStarted => r.gameStarted)

\* A room follows itself.
LEMMA FollowsItself ==
    ASSUME NEW r
    PROVE  Follows(r, r)
  BY DEF Follows

\* One room follows another over a third.
LEMMA FollowsTransitive ==
    ASSUME NEW r, NEW s, NEW t, Follows(r, s), Follows(s, t)
    PROVE  Follows(r, t)
  BY DEF Follows

\* A good room with the same users and games is sound.
LEMMA SameRoomSound ==
    ASSUME NEW r, Sound(r), NEW s, Good(s), SameRoom(r, s)
    PROVE  Sound(s) /\ Follows(r, s)
  BY DEF Sound, SameRoom, Bounded, Calm, Has, Members, Follows

\* Counting a failed update keeps a room sound.
LEMMA FaultedSound ==
    ASSUME NEW r, Sound(r), NEW e \in EnvType
    PROVE  /\ Sound(Faulted(r, e))
           /\ Follows(r, Faulted(r, e))
           /\ SameRoom(r, Faulted(r, e))
  <1>1. Good(Faulted(r, e))
    BY FaultedGood DEF Sound
  <1>2. SameRoom(r, Faulted(r, e))
    BY DEF Faulted, SameRoom, Sound, Good, RoomType
  <1>. QED  BY <1>1, <1>2, SameRoomSound

\* DismissRoom, called with one of its callers' reasons, keeps a room sound.
LEMMA DismissRoomSound ==
    ASSUME NEW r, Sound(r), NEW reason \in Reasons, Called(r, reason),
           NEW e \in EnvType
    PROVE  /\ Sound(DismissRoom(r, reason, e))
           /\ Follows(r, DismissRoom(r, reason, e))
           /\ Dismissed(r, DismissRoom(r, reason, e))
  <1>. DEFINE d == DismissRoom(r, reason, e)
  <1>1. Good(d) /\ Dismissed(r, d)
    BY DismissRoomGood DEF Sound
  <1>. HIDE DEF d
  <1>. QED
    BY <1>1 DEF Sound, Dismissed, Bounded, Calm, Has, Members, Follows, d

-----------------------------------------------------------------------------
(* Leaving. *)

\* Removing an element makes a finite set at most one smaller.
LEMMA RemoveOne ==
    ASSUME NEW S, NEW x, IsFiniteSet(S)
    PROVE  Cardinality(S \ {x}) >= Cardinality(S) - 1
  <1>0. Cardinality(S) \in Nat
    BY FS_CardinalityType
  <1>1. CASE x \in S
    <2>1. Cardinality(S \ {x}) = Cardinality(S) - 1
      BY <1>1, FS_RemoveElement
    <2>. QED  BY <1>0, <2>1
  <1>2. CASE x \notin S
    <2>1. S \ {x} = S
      BY <1>2
    <2>2. Cardinality(S \ {x}) = Cardinality(S)
      BY <2>1, Zenon
    <2>. QED  BY <1>0, <2>2
  <1>. QED  BY <1>1, <1>2

\* kickUser removes one user at most and takes one from the counter.
LEMMA KickUserGood ==
    ASSUME NEW r, Good(r), NEW u \in Users, NEW e \in EnvType
    PROVE  LET s == KickUser(r, u, e)
           IN  /\ Good(s)
               /\ s.users = [v \in Members(r) \ {u} |-> r.users[v]]
               /\ Members(s) = Members(r) \ {u}
               /\ s.creator = r.creator
               /\ s.roomDismissed = r.roomDismissed
               /\ s.gameStarted = r.gameStarted
               /\ s.hasStartedOneBureau = r.hasStartedOneBureau
               /\ s.hasFinishedOneBureau = r.hasFinishedOneBureau
               /\ s.curBureau = r.curBureau
               /\ s.crashed = r.crashed
  <1>. DEFINE us == [v \in Members(r) \ {u} |-> r.users[v]]
              b  == u \in Members(r) /\ ~Has(r, u, "Ready")
              n  == r.currentUserCount - 1
              l  == [r.live EXCEPT ![u] = 0]
              st == [r.stale EXCEPT ![u] = IF b THEN @ + r.live[u] ELSE @]
              d  == [r.db EXCEPT ![u] = @ /\ u \notin e.reach]
              se == [r.sess EXCEPT ![u] = @ /\ u \notin e.reach]
              s  == [r EXCEPT !.users = us, !.currentUserCount = n, !.live = l,
                              !.stale = st, !.db = d, !.sess = se]
  <1>0. r \in RoomType /\ Counted(r) /\ Crowd(r)
    BY DEF Good
  <1>1. us \in [Members(r) \ {u} -> RoomUser] /\ Members(r) \ {u} \in SUBSET Users
    BY <1>0, UsersIsFunction
  <1>2. us \in UserMaps /\ DOMAIN us = Members(r) \ {u}
    BY <1>1, FunctionIsUsers
  <1>3. n \in Int
    BY <1>0 DEF RoomType
  <1>4. l \in Timers
    BY <1>0 DEF RoomType, Timers
  <1>5. st \in Timers
    BY <1>0 DEF RoomType, Timers
  <1>6. d \in Flags
    BY <1>0 DEF RoomType, Flags
  <1>7. se \in Flags
    BY <1>0 DEF RoomType, Flags
  <1>8. KickUser(r, u, e) = s
    BY DEF KickUser
  <1>9. Cardinality(Members(r) \ {u}) >= Cardinality(Members(r)) - 1
    BY <1>0, MembersFinite, RemoveOne
  <1>. HIDE DEF us, b, l, st, d, se
  <1>10. s \in RoomType
    BY <1>0, <1>2, <1>3, <1>4, <1>5, <1>6, <1>7 DEF RoomType
  <1>11. s.users = us /\ s.currentUserCount = r.currentUserCount - 1
         /\ s.creator = r.creator /\ s.roomDismissed = r.roomDismissed
         /\ s.gameStarted = r.gameStarted /\ s.curBureau = r.curBureau
         /\ s.hasStartedOneBureau = r.hasStartedOneBureau
         /\ s.hasFinishedOneBureau = r.hasFinishedOneBureau
         /\ s.crashed = r.crashed /\ s.answerSet = r.answerSet
         /\ s.answerTasks = r.answerTasks
    BY <1>0 DEF RoomType
  <1>12. Members(s) = Members(r) \ {u}
    BY <1>2, <1>11 DEF Members
  <1>. HIDE DEF s
  <1>13. Counted(s)
    BY <1>0, <1>11 DEF Counted
  <1>14. Crowd(s)
    <2>1. r.currentUserCount \in Int /\ Cardinality(Members(r)) \in Nat
      BY <1>0, MembersFinite DEF RoomType
    <2>2. Cardinality(Members(r) \ {u}) \in Nat
      BY <1>0, MembersFinite, FS_Subset, FS_CardinalityType
    <2>. QED  BY <1>0, <1>9, <1>11, <1>12, <2>1, <2>2 DEF Crowd
  <1>. QED  BY <1>8, <1>10, <1>11, <1>12, <1>13, <1>14 DEF Good, us

\* kickUser is safe for the game unless the user plays in it.
LEMMA KickUserSound ==
    ASSUME NEW r, Sound(r), NEW u \in Users, NEW e \in EnvType
    PROVE  LET s == KickUser(r, u, e)
           IN  /\ Sound(s)
               /\ ~(u \in Members(r) /\ r.gameStarted /\ Has(r, u, "Playing"))
                     => Follows(r, s)
               /\ s.crashed = r.crashed
  <1>. DEFINE s == KickUser(r, u, e)
  <1>1. /\ Good(s)
        /\ s.users = [v \in Members(r) \ {u} |-> r.users[v]]
        /\ Members(s) = Members(r) \ {u}
        /\ s.roomDismissed = r.roomDismissed
        /\ s.gameStarted = r.gameStarted
        /\ s.hasStartedOneBureau = r.hasStartedOneBureau
        /\ s.curBureau = r.curBureau
        /\ s.crashed = r.crashed
    BY KickUserGood DEF Sound
  <1>. HIDE DEF s
  <1>2. \A v \in Members(s) : s.users[v] = r.users[v]
    BY <1>1
  <1>3. Bounded(s) /\ Calm(s)
    BY <1>1, <1>2 DEF Sound, Bounded, Calm, Has
  <1>4. ~(u \in Members(r) /\ r.gameStarted /\ Has(r, u, "Playing")) => Follows(r, s)
    BY <1>1, <1>2 DEF Follows, Has
  <1>. QED  BY <1>1, <1>3, <1>4 DEF Sound, s

-----------------------------------------------------------------------------
(* Starting a game. *)

\* The rooms startGame may be called for.
Open(r) == ~r.gameStarted /\ ~r.roomDismissed /\ r.crashed = "no"

\* A new map of users, over the same members, keeps a room good.
LEMMA NewUsersGood ==
    ASSUME NEW r, Good(r), NEW us \in [Members(r) -> RoomUser]
    PROVE  LET s == [r EXCEPT !.users = us]
           IN  Good(s) /\ Members(s) = Members(r) /\ s.users = us
  <1>. DEFINE s == [r EXCEPT !.users = us]
  <1>0. r \in RoomType /\ Counted(r) /\ Crowd(r)
    BY DEF Good
  <1>1. us \in UserMaps /\ DOMAIN us = Members(r)
    BY <1>0, UsersIsFunction, FunctionIsUsers
  <1>2. s \in RoomType
    BY <1>0, <1>1 DEF RoomType
  <1>3. s.users = us /\ s.currentUserCount = r.currentUserCount
        /\ s.answerSet = r.answerSet /\ s.answerTasks = r.answerTasks
    BY <1>0 DEF RoomType
  <1>4. Members(s) = Members(r)
    BY <1>1, <1>3 DEF Members
  <1>. HIDE DEF s
  <1>5. Cardinality(Members(s)) = Cardinality(Members(r))
    BY <1>4, Zenon
  <1>6. Crowd(s) /\ Counted(s)
    BY <1>0, <1>3, <1>5 DEF Crowd, Counted
  <1>. QED  BY <1>2, <1>3, <1>4, <1>6 DEF Good, s

\* startGame, called for an open room or, to no effect, while a game runs.
LEMMA StartGameSound ==
    ASSUME NEW r, Sound(r), r.gameStarted \/ Open(r), NEW e \in EnvType
    PROVE  Sound(StartGame(r, e)) /\ Follows(r, StartGame(r, e))
  <1>. DEFINE s == [r EXCEPT !.startTask = NoUser]
              t == IF e.rentPaid THEN s ELSE DismissRoom(s, "UnionOwnerDismiss", e)
              play == [u \in Members(r) |->
                          IF u \in Seated(r)
                          THEN [r.users[u] EXCEPT !.status = (@ \ {"Ready"}) \cup {"Playing"}]
                          ELSE r.users[u]]
              c == t.curBureau + 1
              g == [t EXCEPT !.hasStartedOneBureau = TRUE, !.gameStarted = TRUE,
                             !.users = play, !.curBureau = @ + 1]
  <1>0. r \in RoomType /\ Counted(r) /\ Good(r)
    BY DEF Sound, Good
  <1>1. Sound(s) /\ SameRoom(r, s) /\ Follows(r, s)
    <2>1. s \in RoomType /\ Counted(s) /\ SameRoom(r, s)
      BY <1>0 DEF RoomType, Counted, SameRoom
    <2>2. Good(s)
      BY <1>0, <2>1, SameCrowd DEF SameRoom
    <2>. QED  BY <2>1, <2>2, SameRoomSound
  <1>. HIDE DEF s
  <1>2. CASE r.gameStarted
    BY <1>2, FollowsItself DEF StartGame
  <1>3. ASSUME NEW d, d = DismissRoom(s, "UnionOwnerDismiss", e)
        PROVE  Sound(d) /\ Follows(r, d) /\ Dismissed(s, d)
    <2>1. Called(s, "UnionOwnerDismiss") /\ "UnionOwnerDismiss" \in Reasons
      BY DEF Called, Reasons
    <2>2. Sound(d) /\ Follows(s, d) /\ Dismissed(s, d)
      BY <1>1, <1>3, <2>1, DismissRoomSound
    <2>. QED  BY <1>1, <2>2, FollowsTransitive
  <1>4. CASE ~r.gameStarted /\ r.curBureau = 0 /\ r.creator = "Union" /\ ~e.opening
    <2>1. StartGame(r, e) = DismissRoom(s, "UnionOwnerDismiss", e)
      BY <1>4 DEF StartGame, s
    <2>. QED  BY <1>3, <2>1
  <1>5. CASE ~r.gameStarted /\ ~(r.curBureau = 0 /\ r.creator = "Union" /\ ~e.opening)
    <2>1. Good(t) /\ t.users = r.users /\ t.curBureau = r.curBureau
      BY <1>1, <1>3 DEF Sound, SameRoom, Dismissed
    <2>2. play \in [Members(r) -> RoomUser]
      <3>1. r.users \in [Members(r) -> RoomUser]
        BY <1>0, UsersIsFunction
      <3>. QED  BY <3>1 DEF RoomUser, Status
    <2>3. StartGame(r, e) = g
      BY <1>5 DEF StartGame, s
    <2>. HIDE DEF t, play
    <2>4. t \in RoomType /\ Members(t) = Members(r)
      BY <2>1 DEF Good, Members
    <2>. DEFINE h == [t EXCEPT !.users = play]
    <2>5. Good(h) /\ Members(h) = Members(r) /\ h.users = play
      BY <2>1, <2>2, <2>4, NewUsersGood
    <2>6. g = [h EXCEPT !.hasStartedOneBureau = TRUE, !.gameStarted = TRUE,
                        !.curBureau = t.curBureau + 1]
      BY <2>4 DEF RoomType
    <2>7. g.users = play /\ g.gameStarted /\ g.hasStartedOneBureau /\ g.curBureau = r.curBureau + 1
          /\ g.currentUserCount = h.currentUserCount
          /\ g.answerSet = h.answerSet /\ g.answerTasks = h.answerTasks
      BY <2>1, <2>4 DEF RoomType
    <2>8. c \in Nat
      BY <2>4 DEF RoomType
    <2>. HIDE DEF h
    <2>9. g \in RoomType
      <3>1. h \in RoomType
        BY <2>5 DEF Good
      <3>2. [h EXCEPT !.hasStartedOneBureau = TRUE, !.gameStarted = TRUE,
                      !.curBureau = c] \in RoomType
        <4>. HIDE DEF c
        <4>. QED  BY <2>8, <3>1 DEF RoomType
      <3>. QED  BY <2>6, <3>2
    <2>. HIDE DEF g
    <2>10. Good(g)
      BY <2>5, <2>7, <2>9, SameCrowd DEF Good, Counted
    <2>11. Bounded(g)
      <3>1. r.curBureau \in Nat /\ MaxBureau \in Nat
        BY <1>0, RoomAssumption DEF RoomType
      <3>2. r.curBureau < MaxBureau
        BY <1>5, <3>1 DEF Sound, Bounded, Open
      <3>. QED  BY <2>7, <3>1, <3>2 DEF Bounded
    <2>12. Calm(g) /\ Follows(r, g)
      BY <1>5, <2>7 DEF Calm, Follows, Open
    <2>. QED  BY <2>3, <2>10, <2>11, <2>12 DEF Sound
  <1>. QED  BY <1>2, <1>4, <1>5

\* What follows a user's leaving: a game may start, an empty room is dismissed.
LEMMA StartOrDismissSound ==
    ASSUME NEW r, Sound(r), r.crashed = "no", NEW e \in EnvType
    PROVE  Sound(StartOrDismiss(r, e)) /\ Follows(r, StartOrDismiss(r, e))
  <1>. DEFINE s == IF EfficacyStartRoom(r) THEN StartGame(r, e) ELSE r
  <1>1. Sound(s) /\ Follows(r, s)
    <2>1. EfficacyStartRoom(r) => Open(r)
      BY DEF EfficacyStartRoom, Open
    <2>. QED  BY <2>1, StartGameSound, FollowsItself
  <1>2. StartOrDismiss(r, e) = IF EfficacyDismissRoom(s) THEN DismissRoom(s, "None", e)
                               ELSE s
    BY DEF StartOrDismiss
  <1>. HIDE DEF s
  <1>3. CASE EfficacyDismissRoom(s)
    <2>1. Called(s, "None") /\ "None" \in Reasons
      BY <1>3 DEF EfficacyDismissRoom, Called, Reasons
    <2>2. Sound(DismissRoom(s, "None", e)) /\ Follows(s, DismissRoom(s, "None", e))
      BY <1>1, <2>1, DismissRoomSound
    <2>. QED  BY <1>1, <1>2, <1>3, <2>2, FollowsTransitive
  <1>4. CASE ~EfficacyDismissRoom(s)
    BY <1>1, <1>2, <1>4
  <1>. QED  BY <1>3, <1>4

\* A request to leave, refused to the players of a game.
LEMMA LeaveSound ==
    ASSUME NEW r, Sound(r), r.crashed = "no", NEW u \in Users, NEW e \in EnvType
    PROVE  /\ Sound(UserLeaveRoomRequest(r, u, e))
           /\ Follows(r, UserLeaveRoomRequest(r, u, e))
  <1>1. CASE u \notin Members(r) \/ (r.gameStarted /\ Has(r, u, "Playing"))
    BY <1>1, FollowsItself DEF UserLeaveRoomRequest
  <1>2. CASE ~(u \notin Members(r) \/ (r.gameStarted /\ Has(r, u, "Playing")))
    <2>. DEFINE k == KickUser(r, u, e)
    <2>1. Sound(k) /\ Follows(r, k) /\ k.crashed = "no"
      BY <1>2, KickUserSound
    <2>2. UserLeaveRoomRequest(r, u, e) = StartOrDismiss(k, e)
      BY <1>2 DEF UserLeaveRoomRequest
    <2>. HIDE DEF k
    <2>. QED  BY <2>1, <2>2, StartOrDismissSound, FollowsTransitive
  <1>. QED  BY <1>1, <1>2

-----------------------------------------------------------------------------
(* Changing seats. *)

\* New records for the same users, which leave the playing bit alone.
LEMMA NewUsersSound ==
    ASSUME NEW r, Sound(r), NEW us \in [Members(r) -> RoomUser],
           \A v \in Members(r) : "Playing" \in us[v].status <=> Has(r, v, "Playing")
    PROVE  LET s == [r EXCEPT !.users = us]
           IN  Sound(s) /\ Follows(r, s) /\ Members(s) = Members(r) /\ s.users = us
               /\ s.crashed = r.crashed /\ s.gameStarted = r.gameStarted
               /\ s.roomDismissed = r.roomDismissed
  <1>. DEFINE s == [r EXCEPT !.users = us]
  <1>1. Good(s) /\ Members(s) = Members(r) /\ s.users = us
    BY NewUsersGood DEF Sound
  <1>2. s.roomDismissed = r.roomDismissed /\ s.gameStarted = r.gameStarted
        /\ s.curBureau = r.curBureau /\ s.crashed = r.crashed
        /\ s.hasStartedOneBureau = r.hasStartedOneBureau
    BY DEF Sound, Good, RoomType
  <1>. HIDE DEF s
  <1>3. Bounded(s) /\ Calm(s) /\ Follows(r, s)
    BY <1>1, <1>2 DEF Sound, Bounded, Calm, Follows, Has
  <1>. QED  BY <1>1, <1>2, <1>3 DEF Sound, s

\* getEmptyChairID names one of the room's chairs.
LEMMA EmptyChairType ==
    ASSUME NEW r, NEW w \in BOOLEAN
    PROVE  GetEmptyChairID(r, w) \in Chairs
  <1>1. MaxPlayerCount \in Nat /\ MaxPlayerCount > 0
    BY RoomAssumption
  <1>2. 0 \in Chairs /\ 1 \in Chairs /\ MaxPlayerCount \in Chairs
        /\ (MaxPlayerCount + 1) \in Chairs
    BY <1>1 DEF Chairs
  <1>. QED  BY <1>2 DEF GetEmptyChairID

\* userChangeSeat changes one user's chair, and nothing of a game.
LEMMA ChangeSeatSound ==
    ASSUME NEW r, Sound(r), NEW u \in Users, NEW to \in Chairs
    PROVE  LET s == UserChangeSeat(r, u, to)
           IN  Sound(s) /\ Follows(r, s) /\ s.crashed = r.crashed
               /\ s.gameStarted = r.gameStarted /\ s.roomDismissed = r.roomDismissed
  <1>. DEFINE reset == ~r.gameStarted /\ r.users[u].status = {"Ready"}
              us == [r.users EXCEPT ![u].status = {}]
              s == IF reset THEN [r EXCEPT !.users[u].status = {}] ELSE r
              m == [s EXCEPT !.users[u].chair = to]
  <1>1. CASE u \notin Members(r)
    BY <1>1, FollowsItself DEF UserChangeSeat
  <1>2. CASE u \in Members(r)
    <2>0. r \in RoomType /\ Good(r) /\ r.users \in [Members(r) -> RoomUser]
      BY UsersIsFunction DEF Sound, Good
    <2>1. us \in [Members(r) -> RoomUser]
      BY <1>2, <2>0 DEF RoomUser
    <2>2. ASSUME reset PROVE s = [r EXCEPT !.users = us]
      BY <2>2, <2>0
    <2>3. ASSUME reset
          PROVE  \A v \in Members(r) : "Playing" \in us[v].status <=> Has(r, v, "Playing")
      BY <2>3, <1>2, <2>0 DEF Has, RoomUser
    <2>4. Sound(s) /\ Follows(r, s) /\ Members(s) = Members(r) /\ s.crashed = r.crashed
          /\ s.gameStarted = r.gameStarted /\ s.roomDismissed = r.roomDismissed
      <3>1. CASE reset
        <4>. DEFINE n == [r EXCEPT !.users = us]
        <4>1. \A v \in Members(r) : "Playing" \in us[v].status <=> Has(r, v, "Playing")
          BY <2>3, <3>1
        <4>. HIDE DEF us
        <4>2. Sound(n) /\ Follows(r, n) /\ Members(n) = Members(r)
              /\ n.crashed = r.crashed /\ n.gameStarted = r.gameStarted
              /\ n.roomDismissed = r.roomDismissed
          BY <2>1, <4>1, NewUsersSound
        <4>. HIDE DEF n, s, reset
        <4>3. s = n
          BY <2>2, <3>1 DEF n
        <4>. QED  BY <4>2, <4>3
      <3>2. CASE ~reset
        BY <3>2, FollowsItself
      <3>. QED  BY <3>1, <3>2
    <2>. HIDE DEF s, us, reset
    <2>. DEFINE ms == [s.users EXCEPT ![u].chair = to]
    <2>5. s \in RoomType /\ s.users \in [Members(s) -> RoomUser]
      BY <2>4, UsersIsFunction DEF Sound, Good
    <2>6. ms \in [Members(s) -> RoomUser]
          /\ \A v \in Members(s) : "Playing" \in ms[v].status <=> Has(s, v, "Playing")
      BY <1>2, <2>4, <2>5 DEF RoomUser, Has
    <2>7. m = [s EXCEPT !.users = ms]
      BY <2>5
    <2>8. Sound(m) /\ Follows(s, m) /\ m.crashed = s.crashed
          /\ m.gameStarted = s.gameStarted /\ m.roomDismissed = s.roomDismissed
      <3>. HIDE DEF ms
      <3>. QED  BY <2>4, <2>6, <2>7, NewUsersSound
    <2>. HIDE DEF m
    <2>9. Follows(r, m)
      BY <2>4, <2>8, FollowsTransitive
    <2>10. UserChangeSeat(r, u, to) \in {r, s, m}
      BY <1>2 DEF UserChangeSeat, s, m, reset
    <2>. QED  BY <2>4, <2>8, <2>9, <2>10, FollowsItself
  <1>. QED  BY <1>1, <1>2

\* The scheduler's moves to watching chairs.
LEMMA MovedToWatchSound ==
    ASSUME NEW r, Sound(r), NEW u \in Users
    PROVE  LET s == MovedToWatch(r, u)
           IN  Sound(s) /\ Follows(r, s) /\ s.crashed = r.crashed
               /\ s.gameStarted = r.gameStarted /\ s.roomDismissed = r.roomDismissed
  <1>. DEFINE M(s) == UserChangeSeat(s, u, GetEmptyChairID(s, TRUE))
  <1>1. ASSUME NEW s, Sound(s)
        PROVE  /\ Sound(M(s)) /\ Follows(s, M(s)) /\ M(s).crashed = s.crashed
               /\ M(s).gameStarted = s.gameStarted /\ M(s).roomDismissed = s.roomDismissed
    BY <1>1, EmptyChairType, ChangeSeatSound
  <1>2. MovedToWatch(r, u) \in {r, M(r), M(M(r))}
    BY DEF MovedToWatch
  <1>. HIDE DEF M
  <1>3. Sound(M(r)) /\ Sound(M(M(r))) /\ Follows(r, M(r)) /\ Follows(r, M(M(r)))
    BY <1>1, FollowsTransitive
  <1>4. M(M(r)).crashed = r.crashed /\ M(M(r)).gameStarted = r.gameStarted
        /\ M(M(r)).roomDismissed = r.roomDismissed
    BY <1>1
  <1>. QED  BY <1>1, <1>2, <1>3, <1>4, FollowsItself

-----------------------------------------------------------------------------
(* Votes. *)

\* What a vote changes before it comes to an end.
Voting(r, s) == Good(s) /\ SameRoom(r, s)

\* A vote begins, with a countdown task of its own.
LEMMA OpenVoteGood ==
    ASSUME NEW r, Good(r)
    PROVE  Voting(r, [r EXCEPT !.dismissing = TRUE, !.agreed = {}, !.tickArmed = TRUE,
                               !.answerTasks = @ + 1, !.answerSet = TRUE])
  <1>. DEFINE n == r.answerTasks + 1
              s == [r EXCEPT !.dismissing = TRUE, !.agreed = {}, !.tickArmed = TRUE,
                             !.answerTasks = n, !.answerSet = TRUE]
  <1>0. r \in RoomType
    BY DEF Good
  <1>1. n \in Nat /\ n > 0
    BY <1>0 DEF RoomType
  <1>2. s \in RoomType /\ Counted(s) /\ SameRoom(r, s)
    <2>. HIDE DEF n
    <2>. QED  BY <1>0, <1>1 DEF RoomType, Counted, SameRoom
  <1>3. Good(s)
    BY <1>2, SameCrowd DEF SameRoom
  <1>. QED  BY <1>2, <1>3 DEF Voting

\* Some chairs agree.
LEMMA AgreeGood ==
    ASSUME NEW r, Good(r), NEW chairs \in SUBSET Seats
    PROVE  Voting(r, [r EXCEPT !.agreed = @ \cup chairs])
  <1>. DEFINE a == r.agreed \cup chairs
              s == [r EXCEPT !.agreed = a]
  <1>0. r \in RoomType /\ Counted(r)
    BY DEF Good
  <1>1. a \in SUBSET Seats
    BY <1>0 DEF RoomType
  <1>2. s \in RoomType /\ Counted(s) /\ SameRoom(r, s)
    <2>. HIDE DEF a
    <2>. QED  BY <1>0, <1>1 DEF RoomType, Counted, SameRoom
  <1>3. Good(s)
    BY <1>2, SameCrowd DEF SameRoom
  <1>. QED  BY <1>2, <1>3 DEF Voting

\* A vote is rejected.
LEMMA CloseVoteGood ==
    ASSUME NEW r, Good(r)
    PROVE  Voting(r, [r EXCEPT !.dismissing = FALSE, !.agreed = {}])
  <1>. DEFINE s == [r EXCEPT !.dismissing = FALSE, !.agreed = {}]
  <1>0. r \in RoomType /\ Counted(r)
    BY DEF Good
  <1>1. s \in RoomType /\ Counted(s) /\ SameRoom(r, s)
    BY <1>0 DEF RoomType, Counted, SameRoom
  <1>2. Good(s)
    BY <1>1, SameCrowd DEF SameRoom
  <1>. QED  BY <1>1, <1>2 DEF Voting

\* What a vote changes before its end keeps a room sound.
LEMMA VotingSound ==
    ASSUME NEW r, Sound(r), NEW s, Voting(r, s)
    PROVE  Sound(s) /\ Follows(r, s)
  BY SameRoomSound DEF Voting

\* Voters have seats, so the array of answers has a place for each.
LEMMA VoterSeats ==
    ASSUME NEW r, Good(r)
    PROVE  {r.users[u].chair : u \in Voters(r)} \subseteq Seats
  <1>1. r.users \in [Members(r) -> RoomUser] /\ MaxPlayerCount \in Nat
    BY UsersIsFunction, RoomAssumption DEF Good
  <1>2. ASSUME NEW u \in Voters(r)
        PROVE  r.users[u].chair \in Seats
    <2>1. u \in Members(r) /\ r.users[u].chair < MaxPlayerCount
      BY DEF Voters, Seated
    <2>2. r.users[u].chair \in Chairs
      BY <1>1, <2>1 DEF RoomUser
    <2>. QED  BY <1>1, <2>1, <2>2 DEF Chairs, Seats
  <1>. QED  BY <1>2

\* askForDismiss for a voter.
LEMMA VoteSound ==
    ASSUME NEW r, Sound(r), NEW u \in Voters(r), NEW exist, NEW e \in EnvType
    PROVE  Sound(Vote(r, u, exist, e)) /\ Follows(r, Vote(r, u, exist, e))
  <1>. DEFINE chair == r.users[u].chair
              opened == [r EXCEPT !.dismissing = TRUE, !.agreed = {}, !.tickArmed = TRUE,
                                  !.answerTasks = @ + 1, !.answerSet = TRUE]
              o == IF r.dismissing \/ exist # "yes" THEN r ELSE opened
              s == [o EXCEPT !.agreed = @ \cup {chair}]
              n == SendStopAnswer(o)
              no == [n EXCEPT !.dismissing = FALSE, !.agreed = {}]
              y == SendStopAnswer(s)
              yes == DismissRoom(y, "UserDismiss", e)
  <1>0. Good(r) /\ {chair} \in SUBSET Seats
    BY VoterSeats DEF Sound
  <1>1. Sound(o) /\ Follows(r, o)
    <2>1. Sound(opened) /\ Follows(r, opened)
      BY <1>0, OpenVoteGood, VotingSound
    <2>. HIDE DEF opened
    <2>. QED  BY <2>1, FollowsItself
  <1>2. Vote(r, u, exist, e) \in {o, no, yes, s}
    BY DEF Vote
  <1>. HIDE DEF o, chair
  <1>3. Sound(s) /\ Follows(r, s)
    <2>1. Sound(s) /\ Follows(o, s)
      BY <1>0, <1>1, AgreeGood, VotingSound DEF Sound
    <2>. HIDE DEF s
    <2>. QED  BY <1>1, <2>1, FollowsTransitive
  <1>. HIDE DEF s
  <1>4. Sound(no) /\ Follows(r, no)
    <2>1. Sound(n) /\ Follows(o, n)
      BY <1>1, SendStopAnswerGood, SameRoomSound DEF Sound
    <2>. HIDE DEF n
    <2>2. Sound(no) /\ Follows(n, no)
      BY <2>1, CloseVoteGood, VotingSound DEF Sound
    <2>. HIDE DEF no
    <2>. QED  BY <1>1, <2>1, <2>2, FollowsTransitive
  <1>5. Sound(yes) /\ Follows(r, yes)
    <2>1. Sound(y) /\ Follows(s, y)
      BY <1>3, SendStopAnswerGood, SameRoomSound DEF Sound
    <2>. HIDE DEF y
    <2>2. Called(y, "UserDismiss") /\ "UserDismiss" \in Reasons
      BY DEF Called, Reasons
    <2>3. Sound(yes) /\ Follows(y, yes)
      BY <2>1, <2>2, DismissRoomSound
    <2>. HIDE DEF yes
    <2>. QED  BY <1>3, <2>1, <2>3, FollowsTransitive
  <1>. HIDE DEF no, yes
  <1>. QED  BY <1>1, <1>2, <1>3, <1>4, <1>5

\* askForDismiss for anybody.
LEMMA AskForDismissSound ==
    ASSUME NEW r, Sound(r), r.crashed = "no", NEW u \in Users, NEW exist,
           NEW e \in EnvType
    PROVE  /\ Sound(AskForDismiss(r, u, exist, e))
           /\ Follows(r, AskForDismiss(r, u, exist, e))
  <1>1. CASE u \notin Members(r)
    <2>. DEFINE s == [r EXCEPT !.crashed = "nilUser"]
    <2>0. r \in RoomType /\ Counted(r) /\ Good(r)
      BY DEF Sound, Good
    <2>1. s \in RoomType /\ Counted(s) /\ s.users = r.users /\ s.crashed = "nilUser"
          /\ s.currentUserCount = r.currentUserCount /\ s.gameStarted = r.gameStarted
          /\ s.roomDismissed = r.roomDismissed /\ s.curBureau = r.curBureau
          /\ s.hasStartedOneBureau = r.hasStartedOneBureau
      BY <2>0 DEF RoomType, Counted, Panics
    <2>2. AskForDismiss(r, u, exist, e) = s
      BY <1>1 DEF AskForDismiss
    <2>. HIDE DEF s
    <2>3. Good(s)
      BY <2>0, <2>1, SameCrowd
    <2>4. Bounded(s) /\ Calm(s) /\ Follows(r, s)
      BY <2>1 DEF Sound, Bounded, Calm, Follows, Has, Members
    <2>. QED  BY <2>2, <2>3, <2>4 DEF Sound
  <1>2. CASE u \in Members(r) /\ u \notin Voters(r)
    BY <1>2, LeaveSound DEF AskForDismiss
  <1>3. CASE u \in Members(r) /\ u \in Voters(r)
    BY <1>3, VoteSound DEF AskForDismiss
  <1>. QED  BY <1>1, <1>2, <1>3

\* The countdown's last tick.
LEMMA AgreeForAllSound ==
    ASSUME NEW r, Sound(r), NEW e \in EnvType
    PROVE  Sound(AgreeForAll(r, e)) /\ Follows(r, AgreeForAll(r, e))
  <1>. DEFINE q == [r EXCEPT !.tickArmed = FALSE]
              t == SendStop(q)
              chairs == {t.users[u].chair : u \in Voters(t)}
              opened == [t EXCEPT !.dismissing = TRUE, !.agreed = {}, !.tickArmed = TRUE,
                                  !.answerTasks = @ + 1, !.answerSet = TRUE]
              o == IF r.dismissing THEN t ELSE opened
              s == [o EXCEPT !.agreed = @ \cup chairs]
              y == SendStopAnswer(s)
              yes == DismissRoom(y, "UserDismiss", e)
  <1>1. Sound(q) /\ Follows(r, q)
    <2>0. r \in RoomType /\ Counted(r) /\ Good(r)
      BY DEF Sound, Good
    <2>1. q \in RoomType /\ Counted(q) /\ SameRoom(r, q)
      BY <2>0 DEF RoomType, Counted, SameRoom
    <2>2. Good(q)
      BY <2>0, <2>1, SameCrowd DEF SameRoom
    <2>. HIDE DEF q
    <2>. QED  BY <2>1, <2>2, SameRoomSound
  <1>2. AgreeForAll(r, e) \in {t, yes}
    BY DEF AgreeForAll
  <1>. HIDE DEF q
  <1>3. Sound(t) /\ Follows(r, t)
    <2>1. Sound(t) /\ Follows(q, t)
      BY <1>1, SendStopGood, SameRoomSound DEF Sound
    <2>. HIDE DEF t
    <2>. QED  BY <1>1, <2>1, FollowsTransitive
  <1>. HIDE DEF t
  <1>4. chairs \in SUBSET Seats
    BY <1>3, VoterSeats DEF Sound
  <1>. HIDE DEF chairs
  <1>5. Sound(o) /\ Follows(t, o)
    <2>1. Sound(opened) /\ Follows(t, opened)
      BY <1>3, OpenVoteGood, VotingSound DEF Sound
    <2>. HIDE DEF opened
    <2>. QED  BY <1>3, <2>1, FollowsItself
  <1>. HIDE DEF o
  <1>6. Sound(s) /\ Follows(o, s)
    BY <1>4, <1>5, AgreeGood, VotingSound DEF Sound
  <1>. HIDE DEF s
  <1>7. Sound(y) /\ Follows(s, y)
    BY <1>6, SendStopAnswerGood, SameRoomSound DEF Sound
  <1>. HIDE DEF y
  <1>8. Sound(yes) /\ Follows(y, yes)
    <2>1. Called(y, "UserDismiss") /\ "UserDismiss" \in Reasons
      BY DEF Called, Reasons
    <2>. QED  BY <1>7, <2>1, DismissRoomSound
  <1>. HIDE DEF yes
  <1>9. Follows(r, yes)
    BY <1>3, <1>5, <1>6, <1>7, <1>8, FollowsTransitive
  <1>. QED  BY <1>2, <1>3, <1>8, <1>9

-----------------------------------------------------------------------------
(* Getting ready and entering. *)

\* userReady.
LEMMA UserReadySound ==
    ASSUME NEW r, Sound(r), r.crashed = "no", NEW u \in Users, NEW e \in EnvType
    PROVE  Sound(UserReady(r, u, e)) /\ Follows(r, UserReady(r, u, e))
  <1>. DEFINE us == [r.users EXCEPT ![u].status = @ \cup {"Ready", "Dismiss"}]
              s == [r EXCEPT !.users[u].status = @ \cup {"Ready", "Dismiss"}]
              w == [s EXCEPT !.startTask = u]
  <1>0. r \in RoomType /\ Good(r) /\ r.users \in [Members(r) -> RoomUser]
    BY UsersIsFunction DEF Sound, Good
  <1>1. CASE r.gameStarted \/ u \notin Members(r)
    BY <1>1, FollowsItself DEF UserReady
  <1>2. CASE ~(r.gameStarted \/ u \notin Members(r))
    <2>1. us \in [Members(r) -> RoomUser]
          /\ \A v \in Members(r) : "Playing" \in us[v].status <=> Has(r, v, "Playing")
      BY <1>0, <1>2 DEF RoomUser, Status, Has
    <2>2. s = [r EXCEPT !.users = us]
      BY <1>0
    <2>3. Sound(s) /\ Follows(r, s) /\ s.crashed = "no"
      <3>. DEFINE n == [r EXCEPT !.users = us]
      <3>. HIDE DEF us
      <3>1. Sound(n) /\ Follows(r, n) /\ n.crashed = r.crashed
        BY <2>1, NewUsersSound
      <3>. HIDE DEF n, s
      <3>2. s = n
        BY <2>2 DEF n
      <3>. QED  BY <3>1, <3>2
    <2>4. UserReady(r, u, e) \in {r, s, w} \/ UserReady(r, u, e) = KickUser(r, u, e)
          \/ (EfficacyStartRoom(s) /\ UserReady(r, u, e) = StartGame(s, e))
      BY <1>2 DEF UserReady
    <2>. HIDE DEF us, s
    <2>5. Sound(w) /\ Follows(r, w)
      <3>1. s \in RoomType /\ Counted(s)
        BY <2>3 DEF Sound, Good
      <3>2. w \in RoomType /\ Counted(w) /\ SameRoom(s, w)
        BY <3>1 DEF RoomType, Counted, SameRoom
      <3>. HIDE DEF w
      <3>3. Good(w)
        BY <2>3, <3>2, SameCrowd DEF SameRoom, Sound
      <3>4. Sound(w) /\ Follows(s, w)
        BY <2>3, <3>2, <3>3, SameRoomSound
      <3>. QED  BY <2>3, <3>4, FollowsTransitive
    <2>6. Sound(KickUser(r, u, e)) /\ Follows(r, KickUser(r, u, e))
      BY <1>2, KickUserSound
    <2>7. ASSUME EfficacyStartRoom(s)
          PROVE  Sound(StartGame(s, e)) /\ Follows(r, StartGame(s, e))
      <3>1. Open(s)
        BY <2>3, <2>7 DEF EfficacyStartRoom, Open
      <3>2. Sound(StartGame(s, e)) /\ Follows(s, StartGame(s, e))
        BY <2>3, <3>1, StartGameSound
      <3>. QED  BY <2>3, <3>2, FollowsTransitive
    <2>. HIDE DEF w
    <2>. QED  BY <2>3, <2>4, <2>5, <2>6, <2>7, FollowsItself
  <1>. QED  BY <1>1, <1>2

\* Adding an element makes a finite set one larger.
LEMMA AddOne ==
    ASSUME NEW S, NEW x, IsFiniteSet(S), x \notin S
    PROVE  Cardinality(S \cup {x}) = Cardinality(S) + 1
  BY FS_AddElement

\* UserEntryRoom adds one user and one to the counter, or neither.
LEMMA UserEntryRoomSound ==
    ASSUME NEW r, Sound(r), NEW u \in Users, NEW stored \in BOOLEAN, NEW e \in EnvType
    PROVE  /\ Sound(UserEntryRoom(r, u, stored, e))
           /\ Follows(r, UserEntryRoom(r, u, stored, e))
  <1>. DEFINE p == u \in Poor
              new == [chair |-> GetEmptyChairID(r, FALSE), status |-> {}, low |-> p]
              lows == [r.users EXCEPT ![u].low = p]
              back == [r EXCEPT !.users[u].low = p]
              us == [v \in Members(r) \cup {u} |-> IF v = u THEN new ELSE r.users[v]]
              n == r.currentUserCount + 1
              db == [r.db EXCEPT ![u] = @ \/ u \in e.reach]
              come == [r EXCEPT !.users = us, !.currentUserCount = n, !.db = db]
              Settle(s) == [s EXCEPT !.sess[u] = TRUE,
                                     !.spawned[u] = IF stored THEN @ + 1 ELSE @]
  <1>0. r \in RoomType /\ Good(r) /\ Counted(r) /\ Crowd(r)
        /\ r.users \in [Members(r) -> RoomUser] /\ Members(r) \subseteq Users
    BY UsersIsFunction DEF Sound, Good
  <1>1. ASSUME NEW s, Sound(s), Follows(r, s)
        PROVE  Sound(Settle(s)) /\ Follows(r, Settle(s))
    <2>. DEFINE se == [s.sess EXCEPT ![u] = TRUE]
                sp == [s.spawned EXCEPT ![u] = IF stored THEN @ + 1 ELSE @]
                z == [s EXCEPT !.sess = se, !.spawned = sp]
    <2>0. s \in RoomType /\ Counted(s) /\ Good(s)
      BY <1>1 DEF Sound, Good
    <2>1. se \in Flags /\ sp \in Timers
      BY <2>0 DEF RoomType, Flags, Timers
    <2>2. Settle(s) = z
      BY <2>0
    <2>. HIDE DEF se, sp
    <2>3. z \in RoomType /\ Counted(z) /\ SameRoom(s, z)
      BY <2>0, <2>1 DEF RoomType, Counted, SameRoom
    <2>. HIDE DEF z
    <2>4. Good(z)
      BY <2>0, <2>3, SameCrowd DEF SameRoom
    <2>5. Sound(z) /\ Follows(s, z)
      BY <1>1, <2>3, <2>4, SameRoomSound
    <2>6. Follows(r, z)
      BY <1>1, <2>5, FollowsTransitive
    <2>. HIDE DEF Settle
    <2>. QED  BY <2>2, <2>5, <2>6
  <1>2. UserEntryRoom(r, u, stored, e) = r
        \/ (u \in Members(r) /\ UserEntryRoom(r, u, stored, e) = Settle(back))
        \/ (u \notin Members(r) /\ UserEntryRoom(r, u, stored, e) \in {come, Settle(come)})
    <2>1. CASE u \in Members(r)
      BY <2>1, Zenon DEF UserEntryRoom
    <2>2. CASE u \notin Members(r)
      BY <2>2, Zenon DEF UserEntryRoom
    <2>. QED  BY <2>1, <2>2
  <1>. HIDE DEF Settle
  <1>p. p \in BOOLEAN
    OBVIOUS
  <1>. HIDE DEF p
  <1>3. ASSUME u \in Members(r)
        PROVE  Sound(Settle(back)) /\ Follows(r, Settle(back))
    <2>1. lows \in [Members(r) -> RoomUser]
          /\ \A v \in Members(r) : "Playing" \in lows[v].status <=> Has(r, v, "Playing")
      BY <1>p, <1>0, <1>3 DEF RoomUser, Has
    <2>2. back = [r EXCEPT !.users = lows]
      BY <1>0
    <2>. DEFINE b == [r EXCEPT !.users = lows]
    <2>. HIDE DEF lows
    <2>3. Sound(b) /\ Follows(r, b)
      BY <2>1, NewUsersSound
    <2>. HIDE DEF b, back
    <2>4. back = b
      BY <2>2 DEF b
    <2>. QED  BY <1>1, <2>3, <2>4
  <1>4. ASSUME u \notin Members(r)
        PROVE  Sound(come) /\ Follows(r, come)
    <2>1. new \in RoomUser
      <3>1. GetEmptyChairID(r, FALSE) \in Chairs
        BY EmptyChairType
      <3>. QED  BY <1>p, <3>1 DEF RoomUser
    <2>2. us \in [Members(r) \cup {u} -> RoomUser]
      <3>. HIDE DEF new
      <3>. QED  BY <1>0, <2>1
    <2>3. us \in UserMaps /\ DOMAIN us = Members(r) \cup {u}
      <3>. HIDE DEF us
      <3>1. Members(r) \cup {u} \in SUBSET Users
        BY <1>0
      <3>. QED  BY <2>2, <3>1, FunctionIsUsers
    <2>4. n \in Int /\ db \in Flags
      BY <1>0 DEF RoomType, Flags
    <2>5. \A v \in Members(r) : us[v] = r.users[v]
      BY <1>4
    <2>6. us[u].status = {}
      OBVIOUS
    <2>. HIDE DEF us, db
    <2>7. come \in RoomType
      <3>. HIDE DEF n
      <3>. QED  BY <1>0, <2>3, <2>4 DEF RoomType
    <2>8. come.users = us /\ come.currentUserCount = r.currentUserCount + 1
          /\ come.answerSet = r.answerSet /\ come.answerTasks = r.answerTasks
          /\ come.gameStarted = r.gameStarted /\ come.roomDismissed = r.roomDismissed
          /\ come.hasStartedOneBureau = r.hasStartedOneBureau
          /\ come.curBureau = r.curBureau /\ come.crashed = r.crashed
      BY <1>0 DEF RoomType
    <2>. HIDE DEF come
    <2>9. Members(come) = Members(r) \cup {u}
      BY <2>3, <2>8 DEF Members
    <2>10. Cardinality(Members(come)) = Cardinality(Members(r)) + 1
      <3>1. Cardinality(Members(r) \cup {u}) = Cardinality(Members(r)) + 1
        BY <1>0, <1>4, MembersFinite, AddOne
      <3>2. Cardinality(Members(come)) = Cardinality(Members(r) \cup {u})
        BY <2>9, Zenon
      <3>. QED  BY <3>1, <3>2
    <2>11. Good(come)
      <3>1. Crowd(come)
        <4>1. r.currentUserCount \in Int /\ Cardinality(Members(r)) \in Nat
          BY <1>0, MembersFinite DEF RoomType
        <4>. QED  BY <1>0, <2>8, <2>10, <4>1 DEF Crowd
      <3>. QED  BY <1>0, <2>7, <2>8, <3>1 DEF Good, Counted
    <2>12. Bounded(come) /\ Calm(come) /\ Follows(r, come)
      BY <2>5, <2>6, <2>8, <2>9 DEF Sound, Bounded, Calm, Follows, Has
    <2>. QED  BY <2>11, <2>12 DEF Sound
  <1>5. ASSUME u \notin Members(r)
        PROVE  Sound(Settle(come)) /\ Follows(r, Settle(come))
    <2>. HIDE DEF come
    <2>. QED  BY <1>1, <1>4, <1>5
  <1>. HIDE DEF back, come
  <1>. QED  BY <1>2, <1>3, <1>4, <1>5, FollowsItself

-----------------------------------------------------------------------------
(* The end of a game. *)

\* ConcludeGame ends the game and nobody's stay.
LEMMA ConcludeGameSound ==
    ASSUME NEW r, Sound(r), NEW poor \in SUBSET Users, NEW bad \in BOOLEAN,
           NEW e \in EnvType
    PROVE  LET c == ConcludeGame(r, poor, bad, e)
           IN  Sound(c) /\ Members(c) = Members(r)
               /\ (r.roomDismissed => c.roomDismissed /\ ~c.gameStarted)
  <1>. DEFINE low(u) == IF Has(r, u, "Playing") THEN u \in poor ELSE r.users[u].low
              clear(u) == [r.users[u] EXCEPT !.status = @ \ {"Playing", "Ready"},
                                             !.low = low(u)]
              us == [u \in Members(r) |-> clear(u)]
              s == [r EXCEPT !.gameStarted = FALSE, !.hasFinishedOneBureau = TRUE,
                             !.users = us]
              x == [s EXCEPT !.crashed = "nilMap"]
              d == DismissRoom(s, "BureauFinished", e)
  <1>0. r \in RoomType /\ Good(r) /\ r.users \in [Members(r) -> RoomUser]
    BY UsersIsFunction DEF Sound, Good
  <1>1. us \in [Members(r) -> RoomUser] /\ \A u \in Members(r) : "Playing" \notin us[u].status
    <2>1. ASSUME NEW u \in Members(r)
          PROVE  clear(u) \in RoomUser /\ "Playing" \notin clear(u).status
      <3>1. r.users[u] \in RoomUser
        BY <1>0
      <3>2. low(u) \in BOOLEAN
        <4>1. r.users[u].low \in BOOLEAN /\ (u \in poor) \in BOOLEAN
          BY <3>1 DEF RoomUser
        <4>. QED  BY <4>1, Zenon
      <3>. HIDE DEF low
      <3>. QED  BY <3>1, <3>2 DEF RoomUser
    <2>. HIDE DEF clear
    <2>. QED  BY <2>1
  <1>2. \/ r.curBureau >= MaxBureau /\ ConcludeGame(r, poor, bad, e) = d
        \/ ~(r.curBureau >= MaxBureau) /\ ConcludeGame(r, poor, bad, e) \in {x, s}
    BY Zenon DEF ConcludeGame
  <1>. HIDE DEF us
  <1>3. Good(s) /\ Members(s) = Members(r) /\ s.users = us
    <2>. DEFINE h == [r EXCEPT !.users = us]
    <2>1. Good(h) /\ Members(h) = Members(r) /\ h.users = us
      BY <1>0, <1>1, NewUsersGood
    <2>2. s = [h EXCEPT !.gameStarted = FALSE, !.hasFinishedOneBureau = TRUE]
      BY <1>0 DEF RoomType
    <2>. HIDE DEF h
    <2>3. h \in RoomType /\ Counted(h)
      BY <2>1 DEF Good
    <2>4. s \in RoomType /\ Counted(s) /\ s.users = h.users
          /\ s.currentUserCount = h.currentUserCount
      BY <2>2, <2>3 DEF RoomType, Counted
    <2>. HIDE DEF s
    <2>. QED  BY <2>1, <2>4, SameCrowd DEF Members
  <1>4. /\ ~s.gameStarted /\ s.hasFinishedOneBureau
        /\ s.curBureau = r.curBureau /\ s.roomDismissed = r.roomDismissed
        /\ s.crashed = r.crashed
    BY <1>0 DEF RoomType
  <1>. HIDE DEF s
  <1>5. Calm(s)
    BY <1>1, <1>3, <1>4 DEF Calm, Has
  <1>6. r.curBureau \in Nat /\ MaxBureau \in Nat /\ r.curBureau <= MaxBureau
    BY <1>0, RoomAssumption DEF RoomType, Sound, Bounded
  <1>7. CASE r.curBureau >= MaxBureau
    <2>1. Called(s, "BureauFinished") /\ "BureauFinished" \in Reasons
      BY <1>4 DEF Called, Reasons
    <2>2. Good(d) /\ Dismissed(s, d)
      BY <1>3, <2>1, DismissRoomGood
    <2>. HIDE DEF d
    <2>3. Bounded(d) /\ Calm(d)
      BY <1>4, <1>5, <1>6, <2>2 DEF Dismissed, Bounded, Calm, Has, Members
    <2>4. Members(d) = Members(r) /\ d.roomDismissed /\ ~d.gameStarted
      BY <1>3, <1>4, <2>2 DEF Dismissed, Members
    <2>. QED  BY <1>2, <1>7, <2>2, <2>3, <2>4 DEF Sound
  <1>8. CASE ~(r.curBureau >= MaxBureau)
    <2>1. r.curBureau < MaxBureau
      BY <1>6, <1>8
    <2>2. Sound(s)
      BY <1>3, <1>4, <1>5, <1>6, <2>1 DEF Sound, Bounded
    <2>3. Sound(x) /\ Members(x) = Members(s) /\ x.roomDismissed = s.roomDismissed
          /\ x.gameStarted = s.gameStarted
      <3>1. s \in RoomType /\ Counted(s)
        BY <1>3 DEF Good
      <3>2. x \in RoomType /\ Counted(x) /\ x.users = s.users
            /\ x.currentUserCount = s.currentUserCount
            /\ x.roomDismissed = s.roomDismissed /\ x.gameStarted = s.gameStarted
            /\ x.curBureau = s.curBureau
            /\ x.hasStartedOneBureau = s.hasStartedOneBureau
        BY <3>1 DEF RoomType, Counted, Panics
      <3>. HIDE DEF x
      <3>3. Good(x)
        BY <1>3, <3>2, SameCrowd
      <3>4. Bounded(x) /\ Calm(x)
        BY <1>4, <1>5, <1>6, <2>1, <3>2 DEF Bounded, Calm, Has, Members
      <3>. QED  BY <3>2, <3>3, <3>4 DEF Sound, Members
    <2>. HIDE DEF x
    <2>. QED  BY <1>2, <1>3, <1>4, <1>8, <2>2, <2>3
  <1>. QED  BY <1>7, <1>8

-----------------------------------------------------------------------------
(* The steps. *)

\* Changing the timers of users keeps a room sound.
LEMMA TimersSound ==
    ASSUME NEW r, Sound(r), NEW sp \in Timers, NEW li \in Timers, NEW st \in Timers
    PROVE  LET s == [r EXCEPT !.spawned = sp, !.live = li, !.stale = st]
           IN  Sound(s) /\ Follows(r, s) /\ SameRoom(r, s)
  <1>. DEFINE s == [r EXCEPT !.spawned = sp, !.live = li, !.stale = st]
  <1>0. r \in RoomType /\ Counted(r) /\ Good(r)
    BY DEF Sound, Good
  <1>1. s \in RoomType /\ Counted(s) /\ SameRoom(r, s)
    BY <1>0 DEF RoomType, Counted, SameRoom
  <1>. HIDE DEF s
  <1>2. Good(s)
    BY <1>0, <1>1, SameCrowd DEF SameRoom
  <1>. QED  BY <1>1, <1>2, SameRoomSound DEF s

\* A new room is sound.
LEMMA InitSound ==
    Init => Sound(room)
  <1>. SUFFICES ASSUME NEW c \in Creators, room = NewRoom(c)
                PROVE  Sound(room)
    BY DEF Init
  <1>. DEFINE none == [u \in {} |-> {}]
              zero == [u \in Users |-> 0]
              false == [u \in Users |-> FALSE]
  <1>1. none \in UserMaps /\ DOMAIN none = {}
    <2>1. none \in [{} -> RoomUser] /\ {} \in SUBSET Users
      OBVIOUS
    <2>. HIDE DEF none
    <2>. QED  BY <2>1, FunctionIsUsers
  <1>2. zero \in Timers /\ false \in Flags
    BY DEF Timers, Flags
  <1>3. room.users = none /\ room.currentUserCount = 0 /\ ~room.answerSet
        /\ ~room.gameStarted /\ room.curBureau = 0
    BY DEF NewRoom
  <1>4. room \in RoomType
    <2>1. room = NewRoom(c) /\ NewRoom(c).users = none
      BY DEF NewRoom
    <2>. QED  BY <1>1, <1>2 DEF NewRoom, RoomType, Panics
  <1>5. Members(room) = {}
    BY <1>1, <1>3 DEF Members
  <1>6. Crowd(room)
    <2>1. Cardinality(Members(room)) = 0
      BY <1>5, FS_EmptySet
    <2>. QED  BY <1>3, <2>1 DEF Crowd
  <1>7. Bounded(room) /\ Calm(room)
    BY <1>3, <1>5, RoomAssumption DEF Bounded, Calm
  <1>. QED  BY <1>3, <1>4, <1>6, <1>7 DEF Sound, Good, Counted

\* The steps of users.
LEMMA UserStepSound ==
    ASSUME Sound(room), NEW u \in Users, UserStep(u)
    PROVE  Sound(room') /\ Follows(room, room')
  <1>. USE EnvIsTyped
  <1>1. ASSUME NEW e \in EnvType
        PROVE  LET f == Faulted(room, e)
               IN  Sound(f) /\ Follows(room, f) /\ f.crashed = room.crashed
    BY FaultedSound DEF SameRoom
  <1>2. CASE Enter(u)
    <2>1. PICK e \in EnvType, stored \in BOOLEAN :
             room' = UserEntryRoom(Faulted(room, e), u, stored, e)
      BY <1>2 DEF Enter
    <2>. QED  BY <1>1, <2>1, UserEntryRoomSound, FollowsTransitive
  <1>3. CASE Ready(u)
    <2>1. PICK e \in EnvType : room' = UserReady(Faulted(room, e), u, e)
      BY <1>3 DEF Ready
    <2>2. room.crashed = "no"
      BY <1>3 DEF Ready, CanSend, Up
    <2>. QED  BY <1>1, <2>1, <2>2, UserReadySound, FollowsTransitive
  <1>4. CASE Leave(u)
    <2>1. PICK e \in EnvType : room' = UserLeaveRoomRequest(Faulted(room, e), u, e)
      BY <1>4 DEF Leave
    <2>2. room.crashed = "no"
      BY <1>4 DEF Leave, CanSend, Up
    <2>. QED  BY <1>1, <2>1, <2>2, LeaveSound, FollowsTransitive
  <1>5. CASE AskDismiss(u)
    <2>1. PICK e \in EnvType, exist \in {"yes", "no", "nil"} :
             room' = AskForDismiss(Faulted(room, e), u, exist, e)
      BY <1>5 DEF AskDismiss
    <2>2. room.crashed = "no"
      BY <1>5 DEF AskDismiss, CanSend, Up
    <2>. QED  BY <1>1, <2>1, <2>2, AskForDismissSound, FollowsTransitive
  <1>6. CASE SceneInfo(u)
    <2>1. PICK e \in EnvType : room' = AskForDismiss(Faulted(room, e), u, "nil", e)
      BY <1>6 DEF SceneInfo
    <2>2. room.crashed = "no"
      BY <1>6 DEF SceneInfo, CanSend, Up
    <2>. QED  BY <1>1, <2>1, <2>2, AskForDismissSound, FollowsTransitive
  <1>7. CASE ChangeSeat(u)
    <2>1. PICK to \in Chairs : room' = UserChangeSeat(room, u, to)
      BY <1>7, RoomAssumption DEF ChangeSeat, Chairs
    <2>. QED  BY <2>1, ChangeSeatSound
  <1>. QED  BY <1>2, <1>3, <1>4, <1>5, <1>6, <1>7 DEF UserStep

\* The steps of a user's kick timers.  Only a room that has not begun is touched.
LEMMA TimerStepSound ==
    ASSUME Sound(room), NEW u \in Users, TimerStep(u)
    PROVE  Sound(room') /\ Follows(room, room')
  <1>1. room.spawned \in Timers /\ room.live \in Timers /\ room.stale \in Timers
        /\ room \in RoomType
    BY DEF Sound, Good, RoomType
  <1>2. CASE KickGoroutine(u)
    <2>. DEFINE sp == [room.spawned EXCEPT ![u] = @ - 1]
                li == [room.live EXCEPT ![u] =
                          IF u \in Members(room) /\ ~room.hasStartedOneBureau
                          THEN @ + 1 ELSE @]
                s == [room EXCEPT !.spawned = sp, !.live = li, !.stale = room.stale]
    <2>1. room' = s
      BY <1>1, <1>2 DEF KickGoroutine, RoomType
    <2>2. sp \in Timers /\ li \in Timers
      BY <1>1, <1>2 DEF KickGoroutine, Timers
    <2>. HIDE DEF sp, li
    <2>3. Sound(s) /\ Follows(room, s)
      BY <1>1, <2>2, TimersSound
    <2>. HIDE DEF s
    <2>. QED  BY <2>1, <2>3
  <1>3. ASSUME NEW e \in EnvType, NEW r, Sound(r), Follows(room, r), r.crashed = "no",
               ~r.hasStartedOneBureau
        PROVE  LET s == StartOrDismiss(KickUser(r, u, e), e)
               IN  Sound(s) /\ Follows(room, s)
    <2>. DEFINE k == KickUser(r, u, e)
    <2>1. Sound(k) /\ Follows(r, k) /\ k.crashed = "no"
      BY <1>3, KickUserSound DEF Sound, Calm
    <2>. HIDE DEF k
    <2>2. Sound(StartOrDismiss(k, e)) /\ Follows(k, StartOrDismiss(k, e))
      BY <2>1, StartOrDismissSound
    <2>3. Follows(room, StartOrDismiss(k, e))
      BY <1>3, <2>1, <2>2, FollowsTransitive
    <2>. QED  BY <2>2, <2>3 DEF k
  <1>4. CASE LiveTimer(u)
    <2>1. PICK e \in Env(room) :
             LET r == [Faulted(room, e) EXCEPT !.live[u] = @ - 1]
             IN  room' = IF r.hasStartedOneBureau \/ Has(r, u, "Ready") THEN r
                         ELSE StartOrDismiss(KickUser(r, u, e), e)
      BY <1>4, Zenon DEF LiveTimer
    <2>. DEFINE f == Faulted(room, e)
                r == [f EXCEPT !.live[u] = @ - 1]
    <2>2. e \in EnvType /\ room.crashed = "no" /\ room.live[u] > 0
      BY <1>4, EnvIsTyped DEF LiveTimer, Up
    <2>3. Sound(f) /\ Follows(room, f) /\ SameRoom(room, f) /\ f.live = room.live
      BY <1>1, <2>2, FaultedSound DEF Faulted, RoomType
    <2>4. \/ room' = r
          \/ ~r.hasStartedOneBureau /\ room' = StartOrDismiss(KickUser(r, u, e), e)
      BY <2>1, Zenon
    <2>. HIDE DEF f
    <2>. DEFINE li == [f.live EXCEPT ![u] = @ - 1]
                s == [f EXCEPT !.spawned = f.spawned, !.live = li, !.stale = f.stale]
    <2>5. f.spawned \in Timers /\ f.live \in Timers /\ f.stale \in Timers /\ f \in RoomType
      BY <2>3 DEF Sound, Good, RoomType
    <2>6. li \in Timers
      BY <2>2, <2>3, <2>5 DEF Timers
    <2>7. r = s
      BY <2>5 DEF RoomType
    <2>. HIDE DEF li
    <2>8. Sound(s) /\ Follows(f, s) /\ SameRoom(f, s)
      BY <2>3, <2>5, <2>6, TimersSound
    <2>. HIDE DEF s, r
    <2>9. Sound(r) /\ Follows(room, r) /\ r.crashed = "no"
      BY <2>2, <2>3, <2>7, <2>8, FollowsTransitive DEF SameRoom
    <2>. QED  BY <1>3, <2>2, <2>4, <2>9
  <1>5. CASE StaleTimer(u)
    <2>1. PICK e \in Env(room) :
             LET r == [Faulted(room, e) EXCEPT !.stale[u] = @ - 1]
             IN  room' = IF r.hasStartedOneBureau THEN r
                         ELSE StartOrDismiss(KickUser(r, u, e), e)
      BY <1>5, Zenon DEF StaleTimer
    <2>. DEFINE f == Faulted(room, e)
                r == [f EXCEPT !.stale[u] = @ - 1]
    <2>2. e \in EnvType /\ room.crashed = "no" /\ room.stale[u] > 0
      BY <1>5, EnvIsTyped DEF StaleTimer, Up
    <2>3. Sound(f) /\ Follows(room, f) /\ SameRoom(room, f) /\ f.stale = room.stale
      BY <1>1, <2>2, FaultedSound DEF Faulted, RoomType
    <2>4. \/ room' = r
          \/ ~r.hasStartedOneBureau /\ room' = StartOrDismiss(KickUser(r, u, e), e)
      BY <2>1, Zenon
    <2>. HIDE DEF f
    <2>. DEFINE st == [f.stale EXCEPT ![u] = @ - 1]
                s == [f EXCEPT !.spawned = f.spawned, !.live = f.live, !.stale = st]
    <2>5. f.spawned \in Timers /\ f.live \in Timers /\ f.stale \in Timers /\ f \in RoomType
      BY <2>3 DEF Sound, Good, RoomType
    <2>6. st \in Timers
      BY <2>2, <2>3, <2>5 DEF Timers
    <2>7. r = s
      BY <2>5 DEF RoomType
    <2>. HIDE DEF st
    <2>8. Sound(s) /\ Follows(f, s) /\ SameRoom(f, s)
      BY <2>3, <2>5, <2>6, TimersSound
    <2>. HIDE DEF s, r
    <2>9. Sound(r) /\ Follows(room, r) /\ r.crashed = "no"
      BY <2>2, <2>3, <2>7, <2>8, FollowsTransitive DEF SameRoom
    <2>. QED  BY <1>3, <2>2, <2>4, <2>9
  <1>. QED  BY <1>2, <1>4, <1>5 DEF TimerStep

\* The steps of the room's own timers and of the union's owner.
RoomStep == StartTick \/ AnswerTimeout \/ StopAnswer \/ OwnerDismiss

LEMMA RoomStepSound ==
    ASSUME Sound(room), RoomStep
    PROVE  Sound(room') /\ Follows(room, room')
  <1>1. ASSUME NEW e \in EnvType
        PROVE  LET f == Faulted(room, e)
               IN  Sound(f) /\ Follows(room, f) /\ SameRoom(room, f)
    BY FaultedSound
  <1>2. CASE StartTick
    <2>1. PICK e \in EnvType :
             room' = StartGame(MovedToWatch(Faulted(room, e), room.startTask), e)
      BY <1>2, EnvIsTyped DEF StartTick
    <2>. DEFINE f == Faulted(room, e)
                m == MovedToWatch(f, room.startTask)
    <2>2. room.startTask \in Users /\ Open(room)
      BY <1>2 DEF StartTick, Up, IsShouldSchedulerStart, Open, Sound, Good, RoomType
    <2>3. Sound(f) /\ Follows(room, f) /\ SameRoom(room, f)
      BY <1>1
    <2>. HIDE DEF f
    <2>4. Sound(m) /\ Follows(f, m) /\ m.crashed = f.crashed
          /\ m.gameStarted = f.gameStarted /\ m.roomDismissed = f.roomDismissed
      BY <2>2, <2>3, MovedToWatchSound
    <2>. HIDE DEF m
    <2>5. Open(m)
      BY <2>2, <2>3, <2>4 DEF Open, SameRoom
    <2>6. Sound(StartGame(m, e)) /\ Follows(m, StartGame(m, e))
      BY <2>4, <2>5, StartGameSound
    <2>7. room' = StartGame(m, e)
      BY <2>1 DEF m, f
    <2>. QED  BY <2>3, <2>4, <2>6, <2>7, FollowsTransitive
  <1>3. CASE AnswerTimeout
    <2>1. PICK e \in EnvType : room' = AgreeForAll(Faulted(room, e), e)
      BY <1>3, EnvIsTyped DEF AnswerTimeout
    <2>. QED  BY <1>1, <2>1, AgreeForAllSound, FollowsTransitive
  <1>4. CASE StopAnswer
    <2>1. room' = TakeStop(room)
      BY <1>4 DEF StopAnswer
    <2>2. Good(TakeStop(room)) /\ SameRoom(room, TakeStop(room))
      BY TakeStopGood, TakeStopKeeps DEF Sound, Good
    <2>. QED  BY <2>1, <2>2, SameRoomSound
  <1>5. CASE OwnerDismiss
    <2>1. PICK e \in EnvType :
             room' = DismissRoom(Faulted(room, e), "UnionOwnerDismiss", e)
      BY <1>5, EnvIsTyped DEF OwnerDismiss
    <2>. DEFINE f == Faulted(room, e)
    <2>2. Called(f, "UnionOwnerDismiss") /\ "UnionOwnerDismiss" \in Reasons
      BY DEF Called, Reasons
    <2>. QED  BY <1>1, <2>1, <2>2, DismissRoomSound, FollowsTransitive
  <1>. QED  BY <1>2, <1>3, <1>4, <1>5 DEF RoomStep

\* The end of a game, told by the game frame.
LEMMA GameEndsSound ==
    ASSUME Sound(room), GameEnds
    PROVE  /\ Sound(room')
           /\ Members(room') = Members(room)
           /\ room.roomDismissed => room'.roomDismissed /\ ~room'.gameStarted
  <1>1. Members(room) \subseteq Users
    BY UsersIsFunction DEF Sound, Good
  <1>2. PICK e \in EnvType, poor \in SUBSET Users, bad \in BOOLEAN :
           room' = ConcludeGame(Faulted(room, e), poor, bad, e)
    BY <1>1, EnvIsTyped DEF GameEnds
  <1>. DEFINE f == Faulted(room, e)
  <1>3. Sound(f) /\ SameRoom(room, f)
    BY FaultedSound
  <1>. HIDE DEF f
  <1>4. LET c == ConcludeGame(f, poor, bad, e)
        IN  Sound(c) /\ Members(c) = Members(f)
            /\ (f.roomDismissed => c.roomDismissed /\ ~c.gameStarted)
    BY <1>3, ConcludeGameSound
  <1>5. room' = ConcludeGame(f, poor, bad, e)
    BY <1>2 DEF f
  <1>. QED  BY <1>3, <1>4, <1>5 DEF SameRoom, Members

-----------------------------------------------------------------------------
(* The theorems. *)

\* Every step takes a sound room to a sound room, and keeps its players.
LEMMA StepSound ==
    ASSUME Sound(room), [Next]_vars
    PROVE  /\ Sound(room')
           /\ room.gameStarted =>
                \A u \in Members(room) : Has(room, u, "Playing") => u \in Members(room')
           /\ room.roomDismissed => room'.roomDismissed /\ (room'.gameStarted => room.gameStarted)
  <1>1. CASE \E u \in Users : UserStep(u) \/ TimerStep(u)
    BY <1>1, UserStepSound, TimerStepSound DEF Follows
  <1>2. CASE RoomStep
    BY <1>2, RoomStepSound DEF Follows
  <1>3. CASE GameEnds
    BY <1>3, GameEndsSound
  <1>4. CASE UNCHANGED vars
    BY <1>4 DEF vars
  <1>. QED  BY <1>1, <1>2, <1>3, <1>4 DEF Next, RoomStep

\* The inductive invariant: a room is sound at all times.
THEOREM AlwaysSound == Spec => []Sound(room)
  <1>1. Init => Sound(room)
    BY InitSound
  <1>2. Sound(room) /\ [Next]_vars => Sound(room)'
    BY StepSound
  <1>. QED  BY <1>1, <1>2, PTL DEF Spec

(* The room keeps the type of the struct in every state: no counter of       *)
(* timers or of countdown tasks goes below zero, every chair is one that     *)
(* getEmptyChairID or a client's request can name.                           *)
THEOREM TypeCorrect == Spec => []TypeOK
  <1>1. Sound(room) => TypeOK
    BY DEF Sound, Good, TypeOK
  <1>. QED  BY <1>1, AlwaysSound, PTL

(* currentUserCount, by which the room is dismissed, is never more than the  *)
(* number of users: no counted user is missing from the map.                 *)
THEOREM CountIsBounded == Spec => []CountBoundedByUsers
  <1>1. Sound(room) => CountBoundedByUsers
    BY DEF Sound, Good, Crowd, CountBoundedByUsers
  <1>. QED  BY <1>1, AlwaysSound, PTL

(* answerExitSchedule, while it is not nil, is a task that runs, whatever    *)
(* the order of stop tokens, votes and the goroutine that reads the tokens.  *)
THEOREM CountdownIsRunning == Spec => []CountdownRuns
  <1>1. Sound(room) => CountdownRuns
    BY DEF Sound, Good, Counted, CountdownRuns
  <1>. QED  BY <1>1, AlwaysSound, PTL

(* A room plays at most the bureaus of its rule, and after the last one no   *)
(* game follows.                                                             *)
THEOREM BureausAreBounded == Spec => []BureausBounded
  <1>1. Sound(room) => BureausBounded
    BY DEF Sound, Bounded, BureausBounded, Up
  <1>. QED  BY <1>1, AlwaysSound, PTL

\* No user keeps the status Playing when ConcludeGame or DismissRoom is done.
THEOREM OnlyGamesHavePlayers == Spec => []PlayingOnlyInGame
  <1>1. Sound(room) => PlayingOnlyInGame
    BY DEF Sound, Calm, PlayingOnlyInGame
  <1>. QED  BY <1>1, AlwaysSound, PTL

(* No request, vote, kick timer or game end removes a player from a room     *)
(* whose game runs.                                                          *)
THEOREM PlayersRemain == Spec => PlayersStay
  <1>. DEFINE Stay == room.gameStarted =>
                         \A u \in Members(room) :
                            Has(room, u, "Playing") => u \in Members(room)'
  <1>1. Sound(room) /\ [Next]_vars => [Stay]_vars
    <2>1. Members(room') = Members(room)'
      BY DEF Members
    <2>. QED  BY <2>1, StepSound
  <1>. QED  BY <1>1, AlwaysSound, PTL DEF Spec, PlayersStay

(* A dismissed room stays dismissed and starts no game.  The proof shows on  *)
(* its way (DismissRoomGood) that DismissRoom never reaches its call of      *)
(* resetRoom.                                                                *)
THEOREM DismissalIsFinal == Spec => DismissedForEver
  <1>. DEFINE Final == room.roomDismissed => /\ room.roomDismissed'
                                             /\ room.gameStarted' => room.gameStarted
  <1>1. Sound(room) /\ [Next]_vars => [Final]_vars
    BY StepSound
  <1>. QED  BY <1>1, AlwaysSound, PTL DEF Spec, DismissedForEver

-----------------------------------------------------------------------------
(* The records a room keeps elsewhere. *)

(* DbMatchesMembership and UnreadyIsTimed, of a room.  An excepted user is   *)
(* one about to be kicked, whose timer has just fired.                       *)
Matched(r) == r.registered => \A u \in Users : r.db[u] <=> u \in Members(r)
TimedBut(r, x) ==
    r.registered /\ ~r.hasStartedOneBureau =>
        \A u \in Members(r) \ {x} : Has(r, u, "Ready") \/ r.spawned[u] + r.live[u] > 0

(* Whoever is ready has a vote.  So no status is Ready alone, and            *)
(* userChangeSeat, which resets the users of that status and sets no timer,  *)
(* resets nobody.                                                            *)
ReadyHaveVotes(r) == \A u \in Members(r) : Has(r, u, "Ready") => Has(r, u, "Dismiss")

KeptBut(r, x) == Matched(r) /\ TimedBut(r, x) /\ ReadyHaveVotes(r)
Kept(r) == KeptBut(r, NoUser)

\* s comes from r in a step that meets e.
Tended(r, s, e) ==
    /\ s.faults = r.faults
    /\ e.reach = Users /\ Kept(r) => Kept(s)

-----------------------------------------------------------------------------
(* Steps that touch no record. *)

\* r and s have the same users, entries and timers.
SameRecords(r, s) ==
    /\ s.users = r.users
    /\ s.db = r.db
    /\ s.spawned = r.spawned
    /\ s.live = r.live
    /\ s.registered = r.registered
    /\ s.hasStartedOneBureau = r.hasStartedOneBureau
    /\ s.faults = r.faults

\* An operator that touches no record tends them.
LEMMA SameRecordsTended ==
    ASSUME NEW r, NEW s, SameRecords(r, s), NEW e
    PROVE  Tended(r, s, e)
  BY DEF SameRecords, Tended, Kept, KeptBut, Matched, TimedBut, ReadyHaveVotes,
         Members, Has

\* An operator that does nothing tends the records.
LEMMA ItselfTended ==
    ASSUME NEW r, NEW e
    PROVE  Tended(r, r, e)
  BY DEF Tended

\* Two operators that tend the records do so one after the other.
LEMMA TendedTransitive ==
    ASSUME NEW r, NEW s, NEW t, NEW e, Tended(r, s, e), Tended(s, t, e)
    PROVE  Tended(r, t, e)
  BY DEF Tended

\* A room that has left its union need only have votes for whoever is ready.
LEMMA DroppedTended ==
    ASSUME NEW r, NEW s, NEW e, ~s.registered, s.users = r.users, s.faults = r.faults
    PROVE  Tended(r, s, e)
  BY DEF Tended, Kept, KeptBut, Matched, TimedBut, ReadyHaveVotes, Members, Has

\* The stop tokens concern no record.
LEMMA StopsTended ==
    ASSUME NEW r, Good(r)
    PROVE  /\ SameRecords(r, TakeStop(r))
           /\ SameRecords(r, SendStop(r))
           /\ SameRecords(r, SendStopAnswer(r))
           /\ SameRecords(r, CancelAllScheduler(r))
  <1>1. ASSUME NEW q, Good(q)
        PROVE  SameRecords(q, TakeStop(q))
    BY <1>1 DEF TakeStop, SameRecords, Good, RoomType
  <1>2. SameRecords(r, SendStop(r))
    <2>. DEFINE t == IF r.stopSent THEN TakeStop(r) ELSE r
    <2>1. Good(t) /\ SameRecords(r, t)
      BY <1>1, TakeStopGood DEF SameRecords
    <2>2. SendStop(r) = [t EXCEPT !.stopSent = TRUE]
      BY DEF SendStop
    <2>. HIDE DEF t
    <2>. QED  BY <2>1, <2>2 DEF SameRecords, Good, RoomType
  <1>3. SameRecords(r, SendStopAnswer(r))
    BY <1>2 DEF SendStopAnswer, SameRecords
  <1>4. SameRecords(r, CancelAllScheduler(r))
    <2>. DEFINE t == SendStopAnswer(r)
    <2>1. Good(t) /\ SameRecords(r, t)
      BY <1>3, SendStopAnswerGood
    <2>2. CancelAllScheduler(r) = [t EXCEPT !.startTask = NoUser]
      BY DEF CancelAllScheduler
    <2>. HIDE DEF t
    <2>. QED  BY <2>1, <2>2 DEF SameRecords, Good, RoomType
  <1>. QED  BY <1>1, <1>2, <1>3, <1>4

-----------------------------------------------------------------------------
(* Dismissing, leaving, starting. *)

(* DismissRoom, called with one of its callers' reasons: the room leaves its *)
(* union, or its process ends with the records as they were.                 *)
LEMMA DismissRoomTended ==
    ASSUME NEW r, Good(r), NEW reason \in Reasons, Called(r, reason), NEW e \in EnvType
    PROVE  Tended(r, DismissRoom(r, reason, e), e)
  <1>. DEFINE m == [r EXCEPT !.roomDismissed = TRUE]
              s == CancelAllScheduler(m)
              d == DismissRoom(r, reason, e)
  <1>0. r \in RoomType /\ Counted(r)
    BY DEF Good
  <1>1. Good(m) /\ SameRecords(r, m)
    <2>1. m \in RoomType /\ Counted(m)
      BY <1>0 DEF RoomType, Counted
    <2>2. SameRecords(r, m) /\ m.currentUserCount = r.currentUserCount
      BY <1>0 DEF SameRecords, RoomType
    <2>. QED  BY <2>1, <2>2, SameCrowd DEF SameRecords
  <1>2. s \in RoomType /\ SameRecords(r, s)
    <2>. HIDE DEF m
    <2>1. Good(s) /\ SameRecords(m, s)
      BY <1>1, StopsTended, CancelGood
    <2>. QED  BY <1>1, <2>1 DEF SameRecords, Good
  <1>. HIDE DEF s
  <1>3. CASE r.roomDismissed
    <2>1. d = r
      BY <1>3 DEF DismissRoom
    <2>2. Tended(r, r, e)
      BY ItselfTended
    <2>. QED  BY <2>1, <2>2, Zenon
  <1>4. CASE ~r.roomDismissed /\ RecordPanics(r)
    <2>1. d = [s EXCEPT !.crashed = "nilMap"]
      BY <1>4 DEF DismissRoom, s
    <2>2. SameRecords(r, d)
      BY <1>2, <2>1 DEF SameRecords, RoomType
    <2>. QED  BY <2>2, SameRecordsTended
  <1>5. CASE ~r.roomDismissed /\ ~RecordPanics(r)
    <2>1. \/ r.currentUserCount = 0
          \/ reason = "UnionOwnerDismiss"
          \/ r.creator = "User"
          \/ reason = "UserDismiss" /\ ~r.hasFinishedOneBureau
      BY <1>0, <1>5 DEF RecordPanics, Called, Reasons, RoomType, Creators
    <2>2. d = DestroyRoom(s, e)
      BY <1>5, <2>1 DEF DismissRoom, s
    <2>. DEFINE db == [u \in Users |-> s.db[u] /\ ~(u \in Members(s) /\ u \in e.reach)]
    <2>3. d = [s EXCEPT !.registered = FALSE, !.db = db]
      BY <2>2 DEF DestroyRoom
    <2>. HIDE DEF db
    <2>4. ~d.registered /\ d.users = r.users /\ d.faults = r.faults
      BY <1>2, <2>3 DEF SameRecords, RoomType
    <2>. HIDE DEF d
    <2>5. Tended(r, d, e)
      BY <2>4, DroppedTended
    <2>. QED  BY <2>5, Zenon DEF d
  <1>. QED  BY <1>3, <1>4, <1>5

(* A kick clears the user's entry together with the record, and with the     *)
(* record goes the need of a timer.                                          *)
LEMMA KickUserTended ==
    ASSUME NEW r, Good(r), NEW u \in Users, NEW e \in EnvType
    PROVE  /\ Tended(r, KickUser(r, u, e), e)
           /\ e.reach = Users /\ KeptBut(r, u) => Kept(KickUser(r, u, e))
  <1>. DEFINE us == [v \in Members(r) \ {u} |-> r.users[v]]
              b  == u \in Members(r) /\ ~Has(r, u, "Ready")
              n  == r.currentUserCount - 1
              l  == [r.live EXCEPT ![u] = 0]
              st == [r.stale EXCEPT ![u] = IF b THEN @ + r.live[u] ELSE @]
              d  == [r.db EXCEPT ![u] = @ /\ u \notin e.reach]
              se == [r.sess EXCEPT ![u] = @ /\ u \notin e.reach]
              s  == [r EXCEPT !.users = us, !.currentUserCount = n, !.live = l,
                              !.stale = st, !.db = d, !.sess = se]
  <1>0. r \in RoomType /\ r.live \in Timers /\ r.db \in Flags
    BY DEF Good, RoomType
  <1>1. KickUser(r, u, e) = s
    BY DEF KickUser
  <1>2. Members(s) = Members(r) \ {u}
    <2>1. Members(KickUser(r, u, e)) = Members(r) \ {u}
      BY KickUserGood
    <2>. HIDE DEF s
    <2>. QED  BY <1>1, <2>1
  <1>3. /\ \A v \in Members(r) \ {u} : us[v] = r.users[v] /\ l[v] = r.live[v]
        /\ \A v \in Users \ {u} : d[v] = r.db[v]
        /\ e.reach = Users => ~d[u]
    <2>1. \A v \in Members(r) \ {u} : us[v] = r.users[v]
      OBVIOUS
    <2>2. Members(r) \subseteq Users
      BY <1>0, UsersIsFunction
    <2>3. \A v \in Users \ {u} : l[v] = r.live[v]
      BY <1>0 DEF Timers
    <2>4. \A v \in Users \ {u} : d[v] = r.db[v]
      BY <1>0 DEF Flags
    <2>5. e.reach = Users => ~d[u]
      BY <1>0 DEF Flags
    <2>. HIDE DEF us, l, d
    <2>. QED  BY <2>1, <2>2, <2>3, <2>4, <2>5
  <1>. HIDE DEF us, b, n, l, st, d, se
  <1>4. /\ s.users = us /\ s.live = l /\ s.db = d
        /\ s.spawned = r.spawned /\ s.registered = r.registered
        /\ s.hasStartedOneBureau = r.hasStartedOneBureau
        /\ s.faults = r.faults
    BY <1>0 DEF RoomType
  <1>. HIDE DEF s
  <1>5. \A v \in Members(s) : s.users[v] = r.users[v] /\ s.live[v] = r.live[v]
                              /\ v # u /\ v \in Members(r)
    BY <1>2, <1>3, <1>4
  <1>6. ASSUME e.reach = Users, KeptBut(r, u)
        PROVE  Kept(s)
    <2>1. Matched(s)
      BY <1>2, <1>3, <1>4, <1>6 DEF KeptBut, Matched
    <2>2. TimedBut(s, NoUser)
      BY <1>4, <1>5, <1>6 DEF KeptBut, TimedBut, Has
    <2>3. ReadyHaveVotes(s)
      BY <1>5, <1>6 DEF KeptBut, ReadyHaveVotes, Has
    <2>. QED  BY <2>1, <2>2, <2>3 DEF Kept, KeptBut
  <1>7. Kept(r) => KeptBut(r, u)
    <2>1. NoUser \notin Members(r)
      BY <1>0, UsersIsFunction, RoomAssumption
    <2>. QED  BY <2>1 DEF Kept, KeptBut, TimedBut
  <1>. QED  BY <1>1, <1>4, <1>6, <1>7 DEF Tended

(* startGame, which may dismiss the room first, or in its place.  The game   *)
(* takes the ready bit of its players, who are timed no more.                *)
LEMMA StartGameTended ==
    ASSUME NEW r, Good(r), NEW e \in EnvType
    PROVE  Tended(r, StartGame(r, e), e)
  <1>. DEFINE s == [r EXCEPT !.startTask = NoUser]
              t == IF e.rentPaid THEN s ELSE DismissRoom(s, "UnionOwnerDismiss", e)
              play == [u \in Members(r) |->
                          IF u \in Seated(r)
                          THEN [r.users[u] EXCEPT !.status = (@ \ {"Ready"}) \cup {"Playing"}]
                          ELSE r.users[u]]
              g == [t EXCEPT !.hasStartedOneBureau = TRUE, !.gameStarted = TRUE,
                             !.users = play, !.curBureau = @ + 1]
  <1>0. r \in RoomType /\ Counted(r) /\ r.users \in [Members(r) -> RoomUser]
    BY UsersIsFunction DEF Good
  <1>1. Good(s) /\ SameRecords(r, s)
    <2>1. s \in RoomType /\ Counted(s) /\ SameRecords(r, s)
          /\ s.currentUserCount = r.currentUserCount
      BY <1>0 DEF RoomType, Counted, SameRecords
    <2>. QED  BY <2>1, SameCrowd DEF SameRecords
  <1>. HIDE DEF s
  <1>2. ASSUME NEW d, d = DismissRoom(s, "UnionOwnerDismiss", e)
        PROVE  Tended(r, d, e) /\ d \in RoomType /\ d.users = r.users
    <2>1. Called(s, "UnionOwnerDismiss") /\ "UnionOwnerDismiss" \in Reasons
      BY DEF Called, Reasons
    <2>2. Tended(s, d, e) /\ Good(d) /\ Dismissed(s, d)
      BY <1>1, <1>2, <2>1, DismissRoomTended, DismissRoomGood
    <2>3. Tended(r, s, e)
      BY <1>1, SameRecordsTended
    <2>. QED  BY <1>1, <2>2, <2>3, TendedTransitive DEF SameRecords, Dismissed, Good
  <1>3. Tended(r, t, e) /\ t \in RoomType /\ t.users = r.users
    BY <1>1, <1>2, SameRecordsTended DEF SameRecords, Good
  <1>4. StartGame(r, e) \in {r, g}
        \/ StartGame(r, e) = DismissRoom(s, "UnionOwnerDismiss", e)
    BY DEF StartGame, s
  <1>5. /\ DOMAIN play = Members(r)
        /\ \A u \in Members(r) : "Ready" \in play[u].status => "Ready" \in r.users[u].status
        /\ \A u \in Members(r) : "Dismiss" \in r.users[u].status => "Dismiss" \in play[u].status
    BY <1>0 DEF RoomUser
  <1>. HIDE DEF t, play
  <1>6. /\ g.users = play /\ g.db = t.db /\ g.registered = t.registered
        /\ g.hasStartedOneBureau /\ g.faults = t.faults
    BY <1>3 DEF RoomType
  <1>. HIDE DEF g
  <1>7. Tended(t, g, e)
    BY <1>3, <1>5, <1>6 DEF Tended, Kept, KeptBut, Matched, TimedBut, ReadyHaveVotes,
                            Members, Has
  <1>8. Tended(r, g, e)
    BY <1>3, <1>7, TendedTransitive
  <1>. QED  BY <1>2, <1>4, <1>8, ItselfTended

\* What follows a user's leaving.
LEMMA StartOrDismissTended ==
    ASSUME NEW r, Sound(r), r.crashed = "no", NEW e \in EnvType
    PROVE  Tended(r, StartOrDismiss(r, e), e)
  <1>. DEFINE s == IF EfficacyStartRoom(r) THEN StartGame(r, e) ELSE r
  <1>1. Sound(s) /\ Tended(r, s, e)
    <2>1. EfficacyStartRoom(r) => Open(r)
      BY DEF EfficacyStartRoom, Open
    <2>. QED  BY <2>1, StartGameSound, StartGameTended, ItselfTended DEF Sound
  <1>2. StartOrDismiss(r, e) = IF EfficacyDismissRoom(s) THEN DismissRoom(s, "None", e)
                               ELSE s
    BY DEF StartOrDismiss
  <1>. HIDE DEF s
  <1>3. CASE EfficacyDismissRoom(s)
    <2>1. Called(s, "None") /\ "None" \in Reasons
      BY <1>3 DEF EfficacyDismissRoom, Called, Reasons
    <2>2. Tended(s, DismissRoom(s, "None", e), e)
      BY <1>1, <2>1, DismissRoomTended DEF Sound
    <2>. QED  BY <1>1, <1>2, <1>3, <2>2, TendedTransitive
  <1>4. CASE ~EfficacyDismissRoom(s)
    BY <1>1, <1>2, <1>4
  <1>. QED  BY <1>3, <1>4

(* A kick and what follows it, for a user who need not be timed: the timer   *)
(* that kicks him has just fired.                                            *)
LEMMA KickTended ==
    ASSUME NEW r, Sound(r), r.crashed = "no", NEW u \in Users, NEW e \in EnvType
    PROVE  LET s == StartOrDismiss(KickUser(r, u, e), e)
           IN  /\ Tended(r, s, e)
               /\ e.reach = Users /\ KeptBut(r, u) => Kept(s)
  <1>. DEFINE k == KickUser(r, u, e)
  <1>1. Sound(k) /\ k.crashed = "no"
    BY KickUserSound
  <1>2. /\ Tended(r, k, e)
        /\ e.reach = Users /\ KeptBut(r, u) => Kept(k)
    BY KickUserTended DEF Sound
  <1>. HIDE DEF k
  <1>3. Tended(k, StartOrDismiss(k, e), e)
    BY <1>1, StartOrDismissTended
  <1>4. /\ Tended(r, StartOrDismiss(k, e), e)
        /\ e.reach = Users /\ KeptBut(r, u) => Kept(StartOrDismiss(k, e))
    BY <1>2, <1>3 DEF Tended
  <1>. QED  BY <1>4 DEF k

\* A request to leave.
LEMMA LeaveTended ==
    ASSUME NEW r, Sound(r), r.crashed = "no", NEW u \in Users, NEW e \in EnvType
    PROVE  Tended(r, UserLeaveRoomRequest(r, u, e), e)
  BY KickTended, ItselfTended DEF UserLeaveRoomRequest

-----------------------------------------------------------------------------
(* Seats and votes. *)

(* A map of new records with the same bits Ready and Dismiss, or with more   *)
(* users ready that have a vote.                                             *)
LEMMA NewUsersTended ==
    ASSUME NEW r \in RoomType, NEW us \in [Members(r) -> RoomUser], NEW e,
           \A v \in Members(r) :
              /\ Has(r, v, "Ready") => "Ready" \in us[v].status
              /\ Has(r, v, "Dismiss") => "Dismiss" \in us[v].status
              /\ "Ready" \in us[v].status => Has(r, v, "Ready") \/ "Dismiss" \in us[v].status
    PROVE  Tended(r, [r EXCEPT !.users = us], e)
  <1>. DEFINE s == [r EXCEPT !.users = us]
  <1>1. /\ s.users = us /\ s.db = r.db /\ s.spawned = r.spawned /\ s.live = r.live
        /\ s.registered = r.registered /\ s.hasStartedOneBureau = r.hasStartedOneBureau
        /\ s.faults = r.faults
    BY DEF RoomType
  <1>2. Members(s) = Members(r)
    BY <1>1 DEF Members
  <1>. HIDE DEF s
  <1>3. Tended(r, s, e)
    BY <1>1, <1>2 DEF Tended, Kept, KeptBut, Matched, TimedBut, ReadyHaveVotes, Has
  <1>. QED  BY <1>3 DEF s

(* userChangeSeat: where whoever is ready has a vote it resets nobody, and   *)
(* only a chair changes.                                                     *)
LEMMA ChangeSeatTended ==
    ASSUME NEW r \in RoomType, NEW u \in Users, NEW to \in Chairs, NEW e
    PROVE  Tended(r, UserChangeSeat(r, u, to), e)
  <1>. DEFINE us == [r.users EXCEPT ![u].chair = to]
              m == [r EXCEPT !.users = us]
              s == UserChangeSeat(r, u, to)
  <1>0. r.users \in [Members(r) -> RoomUser]
    BY UsersIsFunction
  <1>1. CASE u \notin Members(r)
    BY <1>1, ItselfTended DEF UserChangeSeat
  <1>2. CASE u \in Members(r) /\ r.users[u].status # {"Ready"}
    <2>1. s \in {r, [r EXCEPT !.users[u].chair = to]}
      BY <1>2 DEF UserChangeSeat
    <2>2. [r EXCEPT !.users[u].chair = to] = m
      OBVIOUS
    <2>3. us \in [Members(r) -> RoomUser]
          /\ \A v \in Members(r) : us[v].status = r.users[v].status
      BY <1>0, <1>2 DEF RoomUser
    <2>. HIDE DEF us, s
    <2>4. Tended(r, m, e)
      BY <2>3, NewUsersTended DEF Has
    <2>5. Tended(r, s, e)
      BY <2>1, <2>2, <2>4, ItselfTended
    <2>. QED  BY <2>5 DEF s
  <1>3. CASE u \in Members(r) /\ r.users[u].status = {"Ready"}
    <2>1. ~Kept(r)
      BY <1>3 DEF Kept, KeptBut, ReadyHaveVotes, Has
    <2>. DEFINE z == [r EXCEPT !.users[u].status = {}]
    <2>2. s \in {r, z, [r EXCEPT !.users[u].chair = to], [z EXCEPT !.users[u].chair = to]}
      BY <1>3 DEF UserChangeSeat
    <2>3. s.faults = r.faults
      BY <2>2 DEF RoomType
    <2>. QED  BY <2>1, <2>3 DEF Tended
  <1>. QED  BY <1>1, <1>2, <1>3

\* The scheduler's moves to watching chairs.
LEMMA MovedToWatchTended ==
    ASSUME NEW r, Sound(r), NEW u \in Users, NEW e
    PROVE  Tended(r, MovedToWatch(r, u), e)
  <1>. DEFINE M(s) == UserChangeSeat(s, u, GetEmptyChairID(s, TRUE))
  <1>1. ASSUME NEW s, Sound(s)
        PROVE  Sound(M(s)) /\ Tended(s, M(s), e)
    <2>1. GetEmptyChairID(s, TRUE) \in Chairs /\ s \in RoomType
      BY <1>1, EmptyChairType DEF Sound, Good
    <2>. QED  BY <1>1, <2>1, ChangeSeatSound, ChangeSeatTended
  <1>2. MovedToWatch(r, u) \in {r, M(r), M(M(r))}
    BY DEF MovedToWatch
  <1>. HIDE DEF M
  <1>3. Sound(M(r)) /\ Tended(r, M(r), e) /\ Tended(M(r), M(M(r)), e)
    BY <1>1
  <1>4. Tended(r, M(M(r)), e)
    BY <1>3, TendedTransitive
  <1>. QED  BY <1>2, <1>3, <1>4, ItselfTended

(* What votes change: in sequence, steps that keep a room good and touch no  *)
(* record.                                                                   *)
Votes(r, s) == Good(s) /\ SameRecords(r, s)

\* Opening, agreeing, closing and sending the stop token are such steps.
LEMMA VotesTended ==
    ASSUME NEW r, Good(r)
    PROVE  /\ Votes(r, r)
           /\ Votes(r, [r EXCEPT !.dismissing = TRUE, !.agreed = {}, !.tickArmed = TRUE,
                                 !.answerTasks = @ + 1, !.answerSet = TRUE])
           /\ Votes(r, [r EXCEPT !.dismissing = FALSE, !.agreed = {}])
           /\ Votes(r, SendStopAnswer(r))
           /\ Votes(r, SendStop(r))
           /\ \A chairs \in SUBSET Seats : Votes(r, [r EXCEPT !.agreed = @ \cup chairs])
  <1>1. r \in RoomType
    BY DEF Good
  <1>2. Votes(r, r)
    BY DEF Votes, SameRecords
  <1>3. Votes(r, [r EXCEPT !.dismissing = TRUE, !.agreed = {}, !.tickArmed = TRUE,
                           !.answerTasks = @ + 1, !.answerSet = TRUE])
    BY <1>1, OpenVoteGood DEF Votes, Voting, SameRecords, RoomType
  <1>4. Votes(r, [r EXCEPT !.dismissing = FALSE, !.agreed = {}])
    BY <1>1, CloseVoteGood DEF Votes, Voting, SameRecords, RoomType
  <1>5. Votes(r, SendStopAnswer(r)) /\ Votes(r, SendStop(r))
    BY SendStopAnswerGood, SendStopGood, StopsTended DEF Votes
  <1>6. ASSUME NEW chairs \in SUBSET Seats
        PROVE  Votes(r, [r EXCEPT !.agreed = @ \cup chairs])
    BY <1>1, AgreeGood DEF Votes, Voting, SameRecords, RoomType
  <1>. QED  BY <1>2, <1>3, <1>4, <1>5, <1>6

\* A vote that ends in a dismissal.
LEMMA AcceptedTended ==
    ASSUME NEW r, NEW s, Votes(r, s), NEW e \in EnvType
    PROVE  Tended(r, DismissRoom(SendStopAnswer(s), "UserDismiss", e), e)
  <1>. DEFINE y == SendStopAnswer(s)
  <1>1. Good(y) /\ SameRecords(s, y)
    BY VotesTended DEF Votes
  <1>2. SameRecords(r, y)
    BY <1>1 DEF Votes, SameRecords
  <1>3. Called(y, "UserDismiss") /\ "UserDismiss" \in Reasons
    BY DEF Called, Reasons
  <1>. HIDE DEF y
  <1>4. Tended(y, DismissRoom(y, "UserDismiss", e), e)
    BY <1>1, <1>3, DismissRoomTended
  <1>5. Tended(r, y, e)
    BY <1>2, SameRecordsTended
  <1>6. Tended(r, DismissRoom(y, "UserDismiss", e), e)
    BY <1>4, <1>5, TendedTransitive
  <1>. QED  BY <1>6 DEF y

\* Steps of a vote, one after the other.
LEMMA VotesTransitive ==
    ASSUME NEW r, NEW s, NEW t, Votes(r, s), Votes(s, t)
    PROVE  Votes(r, t)
  BY DEF Votes, SameRecords

\* askForDismiss for a voter.
LEMMA VoteTended ==
    ASSUME NEW r, Good(r), NEW u \in Voters(r), NEW exist, NEW e \in EnvType
    PROVE  Tended(r, Vote(r, u, exist, e), e)
  <1>. DEFINE chair == r.users[u].chair
              opened == [r EXCEPT !.dismissing = TRUE, !.agreed = {}, !.tickArmed = TRUE,
                                  !.answerTasks = @ + 1, !.answerSet = TRUE]
              o == IF r.dismissing \/ exist # "yes" THEN r ELSE opened
              s == [o EXCEPT !.agreed = @ \cup {chair}]
              n == SendStopAnswer(o)
              no == [n EXCEPT !.dismissing = FALSE, !.agreed = {}]
              yes == DismissRoom(SendStopAnswer(s), "UserDismiss", e)
  <1>0. {chair} \in SUBSET Seats
    BY VoterSeats
  <1>1. Votes(r, o)
    <2>1. Votes(r, opened)
      BY VotesTended
    <2>. HIDE DEF opened
    <2>. QED  BY <2>1, VotesTended
  <1>2. Vote(r, u, exist, e) \in {o, no, yes, s}
    BY DEF Vote
  <1>. HIDE DEF o, chair
  <1>3. Votes(r, s)
    BY <1>0, <1>1, VotesTended, VotesTransitive DEF Votes
  <1>. HIDE DEF s
  <1>4. Votes(r, no)
    <2>1. Votes(r, n)
      BY <1>1, VotesTended, VotesTransitive DEF Votes
    <2>. HIDE DEF n
    <2>2. Votes(n, no)
      BY <2>1, VotesTended DEF Votes
    <2>. HIDE DEF no
    <2>. QED  BY <2>1, <2>2, VotesTransitive
  <1>5. Tended(r, yes, e)
    BY <1>3, AcceptedTended
  <1>. HIDE DEF no, yes
  <1>. QED  BY <1>1, <1>2, <1>3, <1>4, <1>5, SameRecordsTended DEF Votes

\* askForDismiss for anybody.
LEMMA AskForDismissTended ==
    ASSUME NEW r, Sound(r), r.crashed = "no", NEW u \in Users, NEW exist,
           NEW e \in EnvType
    PROVE  Tended(r, AskForDismiss(r, u, exist, e), e)
  <1>1. CASE u \notin Members(r)
    <2>. DEFINE s == [r EXCEPT !.crashed = "nilUser"]
    <2>1. SameRecords(r, s)
      BY DEF SameRecords, Sound, Good, RoomType
    <2>2. AskForDismiss(r, u, exist, e) = s
      BY <1>1 DEF AskForDismiss
    <2>. HIDE DEF s
    <2>. QED  BY <2>1, <2>2, SameRecordsTended
  <1>2. CASE u \in Members(r) /\ u \notin Voters(r)
    BY <1>2, LeaveTended DEF AskForDismiss
  <1>3. CASE u \in Members(r) /\ u \in Voters(r)
    BY <1>3, VoteTended DEF AskForDismiss, Sound
  <1>. QED  BY <1>1, <1>2, <1>3

\* The countdown's last tick.
LEMMA AgreeForAllTended ==
    ASSUME NEW r, Good(r), NEW e \in EnvType
    PROVE  Tended(r, AgreeForAll(r, e), e)
  <1>. DEFINE q == [r EXCEPT !.tickArmed = FALSE]
              t == SendStop(q)
              chairs == {t.users[u].chair : u \in Voters(t)}
              opened == [t EXCEPT !.dismissing = TRUE, !.agreed = {}, !.tickArmed = TRUE,
                                  !.answerTasks = @ + 1, !.answerSet = TRUE]
              o == IF r.dismissing THEN t ELSE opened
              s == [o EXCEPT !.agreed = @ \cup chairs]
              yes == DismissRoom(SendStopAnswer(s), "UserDismiss", e)
  <1>1. Votes(r, q)
    <2>0. r \in RoomType /\ Counted(r)
      BY DEF Good
    <2>1. q \in RoomType /\ Counted(q) /\ SameRecords(r, q)
          /\ q.currentUserCount = r.currentUserCount
      BY <2>0 DEF RoomType, Counted, SameRecords
    <2>2. Good(q)
      BY <2>1, SameCrowd DEF SameRecords
    <2>. QED  BY <2>1, <2>2 DEF Votes
  <1>2. AgreeForAll(r, e) \in {t, yes}
    BY DEF AgreeForAll
  <1>. HIDE DEF q
  <1>3. Votes(r, t)
    BY <1>1, VotesTended, VotesTransitive DEF Votes
  <1>. HIDE DEF t
  <1>4. chairs \in SUBSET Seats
    BY <1>3, VoterSeats DEF Votes
  <1>. HIDE DEF chairs
  <1>5. Votes(r, o)
    <2>1. Votes(t, opened)
      BY <1>3, VotesTended DEF Votes
    <2>. HIDE DEF opened
    <2>. QED  BY <1>3, <2>1, VotesTransitive
  <1>. HIDE DEF o
  <1>6. Votes(r, s)
    BY <1>4, <1>5, VotesTended, VotesTransitive DEF Votes
  <1>. HIDE DEF s
  <1>7. Tended(r, yes, e)
    BY <1>6, AcceptedTended
  <1>. HIDE DEF yes
  <1>. QED  BY <1>2, <1>3, <1>7, SameRecordsTended DEF Votes

-----------------------------------------------------------------------------
(* Getting ready, entering, and the end of a game. *)

\* userReady gives whoever is ready a vote.
LEMMA UserReadyTended ==
    ASSUME NEW r, Sound(r), r.crashed = "no", NEW u \in Users, NEW e \in EnvType
    PROVE  Tended(r, UserReady(r, u, e), e)
  <1>. DEFINE us == [r.users EXCEPT ![u].status = @ \cup {"Ready", "Dismiss"}]
              n == [r EXCEPT !.users = us]
              s == [r EXCEPT !.users[u].status = @ \cup {"Ready", "Dismiss"}]
              w == [s EXCEPT !.startTask = u]
  <1>0. r \in RoomType /\ Good(r) /\ r.users \in [Members(r) -> RoomUser]
    BY UsersIsFunction DEF Sound, Good
  <1>1. CASE r.gameStarted \/ u \notin Members(r)
    BY <1>1, ItselfTended DEF UserReady
  <1>2. CASE ~(r.gameStarted \/ u \notin Members(r))
    <2>1. us \in [Members(r) -> RoomUser]
          /\ \A v \in Members(r) :
                us[v].status \in {r.users[v].status,
                                  r.users[v].status \cup {"Ready", "Dismiss"}}
      BY <1>0, <1>2 DEF RoomUser, Status
    <2>2. s = n
      BY <1>0
    <2>3. UserReady(r, u, e) \in {r, s, w, KickUser(r, u, e), StartGame(s, e)}
      BY <1>2 DEF UserReady
    <2>. HIDE DEF us
    <2>4. Good(n)
      BY <1>0, <2>1, NewUsersGood
    <2>5. Tended(r, n, e)
      BY <1>0, <2>1, NewUsersTended DEF Has
    <2>. HIDE DEF n, s
    <2>6. SameRecords(s, w)
      BY <2>2, <2>4 DEF SameRecords, Good, RoomType
    <2>. HIDE DEF w
    <2>7. Tended(s, w, e) /\ Tended(s, StartGame(s, e), e)
      BY <2>2, <2>4, <2>6, SameRecordsTended, StartGameTended
    <2>8. Tended(r, w, e) /\ Tended(r, StartGame(s, e), e)
      BY <2>2, <2>5, <2>7, TendedTransitive
    <2>. QED  BY <1>0, <2>2, <2>3, <2>5, <2>8, ItselfTended, KickUserTended
  <1>. QED  BY <1>1, <1>2

(* UserEntryRoom: where all updates succeed the new user's entry names the   *)
(* room and a goroutine will set the timer.                                  *)
LEMMA UserEntryRoomTended ==
    ASSUME NEW r \in RoomType, NEW u \in Users, NEW stored \in BOOLEAN,
           NEW e \in EnvType, ~stored => e.reach # Users
    PROVE  Tended(r, UserEntryRoom(r, u, stored, e), e)
  <1>. DEFINE p == u \in Poor
              new == [chair |-> GetEmptyChairID(r, FALSE), status |-> {}, low |-> p]
              lows == [r.users EXCEPT ![u].low = p]
              back == [r EXCEPT !.users = lows]
              us == [v \in Members(r) \cup {u} |-> IF v = u THEN new ELSE r.users[v]]
              n == r.currentUserCount + 1
              db == [r.db EXCEPT ![u] = @ \/ u \in e.reach]
              come == [r EXCEPT !.users = us, !.currentUserCount = n, !.db = db]
              se(q) == [q.sess EXCEPT ![u] = TRUE]
              sp(q) == [q.spawned EXCEPT ![u] = IF stored THEN @ + 1 ELSE @]
              Settle(q) == [q EXCEPT !.sess = se(q), !.spawned = sp(q)]
              s == UserEntryRoom(r, u, stored, e)
  <1>0. /\ r.users \in [Members(r) -> RoomUser] /\ Members(r) \subseteq Users
        /\ r.db \in Flags /\ r.spawned \in Timers /\ r.live \in Timers
    BY UsersIsFunction DEF RoomType
  <1>1. \/ s = r
        \/ u \in Members(r) /\ s = Settle(back)
        \/ u \notin Members(r) /\ u \notin e.reach /\ s = come
        \/ u \notin Members(r) /\ u \in e.reach /\ s = Settle(come)
    <2>1. CASE u \in Members(r)
      BY <2>1, Zenon DEF UserEntryRoom
    <2>2. CASE u \notin Members(r)
      BY <2>2, Zenon DEF UserEntryRoom
    <2>. QED  BY <2>1, <2>2
  <1>2. /\ DOMAIN us = Members(r) \cup {u}
        /\ us[u].status = {}
        /\ \A v \in Members(r) \ {u} : us[v] = r.users[v]
    OBVIOUS
  <1>3. /\ \A v \in Users \ {u} : db[v] = r.db[v]
        /\ db[u] <=> r.db[u] \/ u \in e.reach
    BY <1>0 DEF Flags
  <1>4. u \in Members(r) =>
           /\ lows \in [Members(r) -> RoomUser]
           /\ \A v \in Members(r) : lows[v].status = r.users[v].status
    <2>1. p \in BOOLEAN
      OBVIOUS
    <2>. HIDE DEF p
    <2>. QED  BY <1>0, <2>1 DEF RoomUser
  <1>. HIDE DEF us, db, lows, s
  <1>5. ASSUME NEW q, q \in {back, come}
        PROVE  /\ q.spawned = r.spawned /\ q.live = r.live /\ q.registered = r.registered
               /\ q.hasStartedOneBureau = r.hasStartedOneBureau /\ q.faults = r.faults
               /\ Settle(q).users = q.users /\ Settle(q).db = q.db
               /\ Settle(q).spawned = sp(q) /\ Settle(q).live = q.live
               /\ Settle(q).registered = q.registered /\ Settle(q).faults = q.faults
               /\ Settle(q).hasStartedOneBureau = q.hasStartedOneBureau
    <2>1. CASE q = back
      <3>. HIDE DEF se, sp
      <3>. QED  BY <2>1 DEF RoomType
    <2>2. CASE q = come
      <3>. HIDE DEF se, sp, n
      <3>. QED  BY <2>2 DEF RoomType
    <2>. QED  BY <1>5, <2>1, <2>2
  <1>6. /\ back.users = lows /\ back.db = r.db
        /\ come.users = us /\ come.db = db
    BY DEF RoomType
  <1>7. ASSUME NEW q, q.spawned = r.spawned
        PROVE  /\ \A v \in Users : sp(q)[v] >= r.spawned[v] /\ sp(q)[v] \in Nat
               /\ stored => sp(q)[u] > 0
    BY <1>0, <1>7 DEF Timers
  <1>. HIDE DEF back, come, Settle, sp
  <1>8. ASSUME u \in Members(r)
        PROVE  Tended(r, Settle(back), e)
    <2>. DEFINE z == Settle(back)
    <2>1. /\ z.users = lows /\ z.db = r.db /\ z.spawned = sp(back) /\ z.live = r.live
          /\ z.registered = r.registered /\ z.faults = r.faults
          /\ z.hasStartedOneBureau = r.hasStartedOneBureau
      BY <1>5, <1>6
    <2>2. /\ \A v \in Users : z.spawned[v] >= r.spawned[v] /\ z.spawned[v] \in Nat
      BY <1>5, <1>7, <2>1
    <2>3. Members(z) = Members(r) /\ \A v \in Members(r) : z.users[v].status = r.users[v].status
      BY <1>4, <1>8, <2>1 DEF Members
    <2>. HIDE DEF z
    <2>4. \A v \in Members(r) : r.spawned[v] + r.live[v] > 0 => z.spawned[v] + z.live[v] > 0
      BY <1>0, <2>1, <2>2 DEF Timers
    <2>5. Tended(r, z, e)
      BY <2>1, <2>3, <2>4 DEF Tended, Kept, KeptBut, Matched, TimedBut, ReadyHaveVotes, Has
    <2>. QED  BY <2>5 DEF z
  <1>9. ASSUME u \notin Members(r), u \notin e.reach
        PROVE  Tended(r, come, e)
    <2>1. e.reach # Users /\ come.faults = r.faults
      BY <1>5, <1>9
    <2>. QED  BY <2>1 DEF Tended
  <1>10. ASSUME u \notin Members(r), u \in e.reach
         PROVE  Tended(r, Settle(come), e)
    <2>. DEFINE z == Settle(come)
    <2>1. /\ z.users = us /\ z.db = db /\ z.spawned = sp(come) /\ z.live = r.live
          /\ z.registered = r.registered /\ z.faults = r.faults
          /\ z.hasStartedOneBureau = r.hasStartedOneBureau
      BY <1>5, <1>6
    <2>2. /\ \A v \in Users : z.spawned[v] >= r.spawned[v] /\ z.spawned[v] \in Nat
          /\ stored => z.spawned[u] > 0
      BY <1>5, <1>7, <2>1
    <2>3. /\ Members(z) = Members(r) \cup {u}
          /\ \A v \in Members(r) : z.users[v] = r.users[v]
          /\ z.users[u].status = {}
      BY <1>2, <1>10, <2>1 DEF Members
    <2>. HIDE DEF z
    <2>4. \A v \in Members(r) : r.spawned[v] + r.live[v] > 0 => z.spawned[v] + z.live[v] > 0
      BY <1>0, <2>1, <2>2 DEF Timers
    <2>5. stored => z.spawned[u] + z.live[u] > 0
      BY <1>0, <2>1, <2>2 DEF Timers
    <2>6. Matched(r) => Matched(z)
      BY <1>0, <1>3, <1>10, <2>1, <2>3 DEF Matched
    <2>7. stored /\ TimedBut(r, NoUser) => TimedBut(z, NoUser)
      BY <2>1, <2>3, <2>4, <2>5 DEF TimedBut, Has
    <2>8. ReadyHaveVotes(r) => ReadyHaveVotes(z)
      BY <2>3 DEF ReadyHaveVotes, Has
    <2>9. Tended(r, z, e)
      BY <2>1, <2>6, <2>7, <2>8 DEF Tended, Kept, KeptBut
    <2>. QED  BY <2>9 DEF z
  <1>11. Tended(r, s, e)
    BY <1>1, <1>8, <1>9, <1>10, ItselfTended
  <1>. QED  BY <1>11 DEF s

(* The end of a game.  It takes the ready bit of all, when the room has      *)
(* begun and nobody is timed any more.                                       *)
LEMMA ConcludeGameTended ==
    ASSUME NEW r, Sound(r), r.gameStarted, NEW poor \in SUBSET Users,
           NEW bad \in BOOLEAN, NEW e \in EnvType
    PROVE  Tended(r, ConcludeGame(r, poor, bad, e), e)
  <1>. DEFINE low(u) == IF Has(r, u, "Playing") THEN u \in poor ELSE r.users[u].low
              clear(u) == [r.users[u] EXCEPT !.status = @ \ {"Playing", "Ready"},
                                             !.low = low(u)]
              us == [u \in Members(r) |-> clear(u)]
              s == [r EXCEPT !.gameStarted = FALSE, !.hasFinishedOneBureau = TRUE,
                             !.users = us]
              x == [s EXCEPT !.crashed = "nilMap"]
              d == DismissRoom(s, "BureauFinished", e)
  <1>0. r \in RoomType /\ Good(r) /\ r.users \in [Members(r) -> RoomUser]
        /\ r.hasStartedOneBureau
    BY UsersIsFunction DEF Sound, Good, Calm
  <1>1. us \in [Members(r) -> RoomUser]
        /\ \A u \in Members(r) : "Ready" \notin us[u].status
    <2>1. ASSUME NEW u \in Members(r)
          PROVE  clear(u) \in RoomUser /\ "Ready" \notin clear(u).status
      <3>1. r.users[u] \in RoomUser
        BY <1>0
      <3>2. low(u) \in BOOLEAN
        <4>1. r.users[u].low \in BOOLEAN /\ (u \in poor) \in BOOLEAN
          BY <3>1 DEF RoomUser
        <4>. QED  BY <4>1, Zenon
      <3>. HIDE DEF low
      <3>. QED  BY <3>1, <3>2 DEF RoomUser
    <2>. HIDE DEF clear
    <2>. QED  BY <2>1
  <1>2. ConcludeGame(r, poor, bad, e) \in {d, x, s}
    BY Zenon DEF ConcludeGame
  <1>. HIDE DEF us
  <1>3. Good(s) /\ Members(s) = Members(r) /\ s.users = us
    <2>. DEFINE h == [r EXCEPT !.users = us]
    <2>1. Good(h) /\ Members(h) = Members(r) /\ h.users = us
      BY <1>0, <1>1, NewUsersGood
    <2>2. s = [h EXCEPT !.gameStarted = FALSE, !.hasFinishedOneBureau = TRUE]
      BY <1>0 DEF RoomType
    <2>. HIDE DEF h
    <2>3. h \in RoomType /\ Counted(h)
      BY <2>1 DEF Good
    <2>4. s \in RoomType /\ Counted(s) /\ s.users = h.users
          /\ s.currentUserCount = h.currentUserCount
      BY <2>2, <2>3 DEF RoomType, Counted
    <2>. HIDE DEF s
    <2>. QED  BY <2>1, <2>4, SameCrowd DEF Members
  <1>4. /\ s.hasFinishedOneBureau /\ s.hasStartedOneBureau
        /\ s.db = r.db /\ s.registered = r.registered /\ s.faults = r.faults
    BY <1>0 DEF RoomType
  <1>. HIDE DEF s
  <1>5. Tended(r, s, e)
    BY <1>1, <1>3, <1>4 DEF Tended, Kept, KeptBut, Matched, TimedBut, ReadyHaveVotes, Has
  <1>6. SameRecords(s, x)
    BY <1>3 DEF SameRecords, Good, RoomType
  <1>7. Tended(s, d, e)
    <2>1. Called(s, "BureauFinished") /\ "BureauFinished" \in Reasons
      BY <1>4 DEF Called, Reasons
    <2>. QED  BY <1>3, <2>1, DismissRoomTended
  <1>. HIDE DEF x, d
  <1>8. Tended(r, x, e) /\ Tended(r, d, e)
    BY <1>5, <1>6, <1>7, SameRecordsTended, TendedTransitive
  <1>. QED  BY <1>2, <1>5, <1>8

-----------------------------------------------------------------------------
(* The steps. *)

\* The inductive invariant: a room none of whose updates failed is kept.
KeptUnlessFaulted(r) == r.faults = 0 => Kept(r)

(* A step that counts whether its updates succeed, and then tends the        *)
(* records, preserves the invariant.                                         *)
LEMMA TendedStep ==
    ASSUME NEW r, Sound(r), KeptUnlessFaulted(r), NEW e \in EnvType, NEW s,
           Tended(Faulted(r, e), s, e)
    PROVE  KeptUnlessFaulted(s)
  <1>1. r \in RoomType /\ r.faults \in Nat
    BY DEF Sound, Good, RoomType
  <1>2. CASE e.reach = Users
    <2>. DEFINE f == Faulted(r, e)
    <2>1. SameRecords(r, f)
      BY <1>1, <1>2 DEF Faulted, SameRecords, RoomType
    <2>. HIDE DEF f
    <2>2. Tended(r, f, e)
      BY <2>1, SameRecordsTended
    <2>3. Tended(r, s, e)
      BY <2>2, TendedTransitive DEF f
    <2>. QED  BY <1>2, <2>3 DEF Tended, KeptUnlessFaulted
  <1>3. CASE e.reach # Users
    <2>1. Faulted(r, e).faults = r.faults + 1
      BY <1>1, <1>3 DEF Faulted, RoomType
    <2>. QED  BY <1>1, <2>1 DEF Tended, KeptUnlessFaulted
  <1>. QED  BY <1>2, <1>3

\* A step that updates no database and tends the records.
LEMMA QuietStep ==
    ASSUME NEW r, KeptUnlessFaulted(r), NEW s,
           \A e : Tended(r, s, e)
    PROVE  KeptUnlessFaulted(s)
  <1>1. Tended(r, s, [reach |-> Users])
    OBVIOUS
  <1>. QED  BY <1>1 DEF Tended, KeptUnlessFaulted

\* The steps of users.
LEMMA UserStepKeeps ==
    ASSUME Sound(room), KeptUnlessFaulted(room), NEW u \in Users, UserStep(u)
    PROVE  KeptUnlessFaulted(room')
  <1>. USE EnvIsTyped
  <1>1. ASSUME NEW e \in EnvType
        PROVE  LET f == Faulted(room, e)
               IN  Sound(f) /\ f \in RoomType /\ f.crashed = room.crashed
    BY FaultedSound DEF SameRoom, Sound, Good
  <1>2. CASE Enter(u)
    <2>1. PICK e \in EnvType, stored \in BOOLEAN :
             /\ ~stored => e.reach # Users
             /\ room' = UserEntryRoom(Faulted(room, e), u, stored, e)
      BY <1>2 DEF Enter
    <2>2. Tended(Faulted(room, e), room', e)
      BY <1>1, <2>1, UserEntryRoomTended
    <2>. QED  BY <2>2, TendedStep
  <1>3. CASE Ready(u)
    <2>1. PICK e \in EnvType : room' = UserReady(Faulted(room, e), u, e)
      BY <1>3 DEF Ready
    <2>2. room.crashed = "no"
      BY <1>3 DEF Ready, CanSend, Up
    <2>3. Tended(Faulted(room, e), room', e)
      BY <1>1, <2>1, <2>2, UserReadyTended
    <2>. QED  BY <2>3, TendedStep
  <1>4. CASE Leave(u)
    <2>1. PICK e \in EnvType : room' = UserLeaveRoomRequest(Faulted(room, e), u, e)
      BY <1>4 DEF Leave
    <2>2. room.crashed = "no"
      BY <1>4 DEF Leave, CanSend, Up
    <2>3. Tended(Faulted(room, e), room', e)
      BY <1>1, <2>1, <2>2, LeaveTended
    <2>. QED  BY <2>3, TendedStep
  <1>5. CASE AskDismiss(u) \/ SceneInfo(u)
    <2>1. PICK e \in EnvType, exist \in {"yes", "no", "nil"} :
             room' = AskForDismiss(Faulted(room, e), u, exist, e)
      BY <1>5 DEF AskDismiss, SceneInfo
    <2>2. room.crashed = "no"
      BY <1>5 DEF AskDismiss, SceneInfo, CanSend, Up
    <2>3. Tended(Faulted(room, e), room', e)
      BY <1>1, <2>1, <2>2, AskForDismissTended
    <2>. QED  BY <2>3, TendedStep
  <1>6. CASE ChangeSeat(u)
    <2>1. PICK to \in Chairs : room' = UserChangeSeat(room, u, to)
      BY <1>6, RoomAssumption DEF ChangeSeat, Chairs
    <2>2. \A e : Tended(room, room', e)
      BY <2>1, ChangeSeatTended DEF Sound, Good
    <2>. QED  BY <2>2, QuietStep
  <1>. QED  BY <1>2, <1>3, <1>4, <1>5, <1>6 DEF UserStep

\* A kick goroutine runs: it leaves the room or sets the user's timer.
LEMMA KickGoroutineKeeps ==
    ASSUME Sound(room), KeptUnlessFaulted(room), NEW u \in Users, KickGoroutine(u)
    PROVE  KeptUnlessFaulted(room')
  <1>. DEFINE sp == [room.spawned EXCEPT ![u] = @ - 1]
              li == [room.live EXCEPT ![u] =
                        IF u \in Members(room) /\ ~room.hasStartedOneBureau
                        THEN @ + 1 ELSE @]
              s == [room EXCEPT !.spawned = sp, !.live = li]
  <1>1. room \in RoomType /\ room.spawned \in Timers /\ room.live \in Timers
        /\ Members(room) \subseteq Users
    BY UsersIsFunction DEF Sound, Good, RoomType
  <1>2. room' = s
    BY DEF KickGoroutine
  <1>3. ~room.hasStartedOneBureau =>
           \A v \in Members(room) : sp[v] + li[v] = room.spawned[v] + room.live[v]
    BY <1>1 DEF Timers
  <1>. HIDE DEF sp, li
  <1>4. /\ s.users = room.users /\ s.db = room.db /\ s.spawned = sp /\ s.live = li
        /\ s.registered = room.registered /\ s.faults = room.faults
        /\ s.hasStartedOneBureau = room.hasStartedOneBureau
    BY <1>1 DEF RoomType
  <1>5. Members(s) = Members(room)
    BY <1>4 DEF Members
  <1>. HIDE DEF s
  <1>6. KeptUnlessFaulted(s)
    BY <1>3, <1>4, <1>5 DEF KeptUnlessFaulted, Kept, KeptBut, Matched, TimedBut,
                            ReadyHaveVotes, Has
  <1>. QED  BY <1>2, <1>6

\* Two counts of timers that differ for one user at most.
AlikeBut(a, b, u) == \A v \in Users \ {u} : a[v] = b[v]

(* A kick timer fires.  If the user is ready or the room has begun nothing   *)
(* is owed to him any more, and otherwise he is kicked.                      *)
LEMMA TimerFires ==
    ASSUME NEW f, Sound(f), f.crashed = "no", NEW u \in Users, NEW e \in EnvType,
           NEW li \in Timers, NEW st \in Timers, NEW s,
           AlikeBut(li, f.live, u),
           LET r == [f EXCEPT !.live = li, !.stale = st]
           IN  \/ /\ s = r
                  /\ \/ f.hasStartedOneBureau
                     \/ u \in Members(f) => Has(f, u, "Ready")
               \/ s = StartOrDismiss(KickUser(r, u, e), e)
    PROVE  Tended(f, s, e)
  <1>. DEFINE r == [f EXCEPT !.live = li, !.stale = st]
              q == [f EXCEPT !.spawned = f.spawned, !.live = li, !.stale = st]
  <1>1. f \in RoomType /\ f.spawned \in Timers /\ Members(f) \subseteq Users
    BY UsersIsFunction DEF Sound, Good, RoomType
  <1>2. r = q
    BY <1>1 DEF RoomType
  <1>3. Sound(q) /\ q.crashed = "no"
    <2>1. Sound(q) /\ SameRoom(f, q)
      BY <1>1, TimersSound
    <2>. HIDE DEF q
    <2>. QED  BY <2>1 DEF SameRoom
  <1>4. /\ r.users = f.users /\ r.db = f.db /\ r.spawned = f.spawned /\ r.live = li
        /\ r.registered = f.registered /\ r.faults = f.faults
        /\ r.hasStartedOneBureau = f.hasStartedOneBureau
    BY <1>1 DEF RoomType
  <1>. HIDE DEF q
  <1>5. \/ s = r /\ (f.hasStartedOneBureau \/ (u \in Members(f) => Has(f, u, "Ready")))
        \/ s = StartOrDismiss(KickUser(r, u, e), e)
    OBVIOUS
  <1>. HIDE DEF r
  <1>6. Members(r) = Members(f)
    BY <1>4 DEF Members
  <1>7. Kept(f) => KeptBut(r, u)
    <2>1. NoUser \notin Members(f)
      BY <1>1, RoomAssumption
    <2>. QED  BY <1>1, <1>4, <1>6, <2>1
              DEF Kept, KeptBut, Matched, TimedBut, ReadyHaveVotes, Has, AlikeBut
  <1>8. ASSUME f.hasStartedOneBureau \/ (u \in Members(f) => Has(f, u, "Ready"))
        PROVE  Kept(f) => Kept(r)
    BY <1>4, <1>6, <1>7, <1>8
       DEF Kept, KeptBut, Matched, TimedBut, ReadyHaveVotes, Has, AlikeBut
  <1>9. /\ Tended(r, StartOrDismiss(KickUser(r, u, e), e), e)
        /\ e.reach = Users /\ KeptBut(r, u) => Kept(StartOrDismiss(KickUser(r, u, e), e))
    BY <1>2, <1>3, KickTended
  <1>. QED  BY <1>4, <1>5, <1>7, <1>8, <1>9 DEF Tended

\* The two kinds of kick timers.
LEMMA TimerKeeps ==
    ASSUME Sound(room), KeptUnlessFaulted(room), NEW u \in Users,
           LiveTimer(u) \/ StaleTimer(u)
    PROVE  KeptUnlessFaulted(room')
  <1>1. room.live \in Timers /\ room.stale \in Timers /\ room \in RoomType
    BY DEF Sound, Good, RoomType
  <1>2. ASSUME NEW e \in EnvType
        PROVE  LET f == Faulted(room, e)
               IN  /\ Sound(f) /\ f \in RoomType /\ f.crashed = room.crashed
                   /\ f.live = room.live /\ f.stale = room.stale
                   /\ f.hasStartedOneBureau = room.hasStartedOneBureau
                   /\ f.users = room.users
    <2>. DEFINE f == Faulted(room, e)
    <2>1. Sound(f) /\ SameRoom(room, f) /\ f \in RoomType
      BY FaultedSound DEF Sound, Good
    <2>2. f.live = room.live /\ f.stale = room.stale
      BY <1>1 DEF Faulted, RoomType
    <2>. HIDE DEF f
    <2>. QED  BY <2>1, <2>2 DEF SameRoom, f
  <1>3. CASE LiveTimer(u)
    <2>1. PICK e \in Env(room) :
             LET r == [Faulted(room, e) EXCEPT !.live[u] = @ - 1]
             IN  room' = IF r.hasStartedOneBureau \/ Has(r, u, "Ready") THEN r
                         ELSE StartOrDismiss(KickUser(r, u, e), e)
      BY <1>3, Zenon DEF LiveTimer
    <2>. DEFINE f == Faulted(room, e)
                r == [f EXCEPT !.live[u] = @ - 1]
                li == [f.live EXCEPT ![u] = @ - 1]
                s == [f EXCEPT !.live = li, !.stale = f.stale]
    <2>2. e \in EnvType /\ room.crashed = "no" /\ room.live[u] > 0
      BY <1>3, EnvIsTyped DEF LiveTimer, Up
    <2>3. \/ room' = r /\ (r.hasStartedOneBureau \/ Has(r, u, "Ready"))
          \/ room' = StartOrDismiss(KickUser(r, u, e), e)
      BY <2>1, Zenon
    <2>4. /\ Sound(f) /\ f \in RoomType /\ f.crashed = "no"
          /\ f.live = room.live /\ f.stale = room.stale
      BY <1>2, <2>2
    <2>. HIDE DEF f
    <2>5. r = s /\ r.users = f.users /\ r.hasStartedOneBureau = f.hasStartedOneBureau
      BY <2>4 DEF RoomType
    <2>6. li \in Timers /\ f.stale \in Timers /\ AlikeBut(li, f.live, u)
      BY <1>1, <2>2, <2>4 DEF Timers, AlikeBut
    <2>. HIDE DEF r, li
    <2>7. \/ room' = s /\ (f.hasStartedOneBureau \/ (u \in Members(f) => Has(f, u, "Ready")))
          \/ room' = StartOrDismiss(KickUser(s, u, e), e)
      BY <2>3, <2>5 DEF Has, Members
    <2>8. Tended(f, room', e)
      BY <2>2, <2>4, <2>6, <2>7, TimerFires
    <2>. QED  BY <2>2, <2>8, TendedStep DEF f
  <1>4. CASE StaleTimer(u)
    <2>1. PICK e \in Env(room) :
             LET r == [Faulted(room, e) EXCEPT !.stale[u] = @ - 1]
             IN  room' = IF r.hasStartedOneBureau THEN r
                         ELSE StartOrDismiss(KickUser(r, u, e), e)
      BY <1>4, Zenon DEF StaleTimer
    <2>. DEFINE f == Faulted(room, e)
                r == [f EXCEPT !.stale[u] = @ - 1]
                st == [f.stale EXCEPT ![u] = @ - 1]
                s == [f EXCEPT !.live = f.live, !.stale = st]
    <2>2. e \in EnvType /\ room.crashed = "no" /\ room.stale[u] > 0
      BY <1>4, EnvIsTyped DEF StaleTimer, Up
    <2>3. \/ room' = r /\ r.hasStartedOneBureau
          \/ room' = StartOrDismiss(KickUser(r, u, e), e)
      BY <2>1, Zenon
    <2>4. /\ Sound(f) /\ f \in RoomType /\ f.crashed = "no"
          /\ f.live = room.live /\ f.stale = room.stale
      BY <1>2, <2>2
    <2>. HIDE DEF f
    <2>5. r = s /\ r.hasStartedOneBureau = f.hasStartedOneBureau
      BY <2>4 DEF RoomType
    <2>6. st \in Timers /\ f.live \in Timers /\ AlikeBut(f.live, f.live, u)
      BY <1>1, <2>2, <2>4 DEF Timers, AlikeBut
    <2>. HIDE DEF r, st
    <2>7. \/ room' = s /\ f.hasStartedOneBureau
          \/ room' = StartOrDismiss(KickUser(s, u, e), e)
      BY <2>3, <2>5
    <2>8. Tended(f, room', e)
      BY <2>2, <2>4, <2>6, <2>7, TimerFires
    <2>. QED  BY <2>2, <2>8, TendedStep DEF f
  <1>. QED  BY <1>3, <1>4

\* The steps of the room's own timers and of the union's owner.
LEMMA RoomStepKeeps ==
    ASSUME Sound(room), KeptUnlessFaulted(room), RoomStep
    PROVE  KeptUnlessFaulted(room')
  <1>1. ASSUME NEW e \in EnvType
        PROVE  LET f == Faulted(room, e)
               IN  Sound(f) /\ Good(f)
    BY FaultedSound DEF Sound
  <1>2. CASE StartTick
    <2>1. PICK e \in EnvType :
             room' = StartGame(MovedToWatch(Faulted(room, e), room.startTask), e)
      BY <1>2, EnvIsTyped DEF StartTick
    <2>. DEFINE f == Faulted(room, e)
                m == MovedToWatch(f, room.startTask)
    <2>2. room.startTask \in Users
      BY <1>2 DEF StartTick, Sound, Good, RoomType
    <2>3. Sound(f)
      BY <1>1
    <2>. HIDE DEF f
    <2>4. Sound(m) /\ Tended(f, m, e)
      BY <2>2, <2>3, MovedToWatchSound, MovedToWatchTended
    <2>. HIDE DEF m
    <2>5. Tended(m, StartGame(m, e), e)
      BY <2>4, StartGameTended DEF Sound
    <2>6. room' = StartGame(m, e)
      BY <2>1 DEF m, f
    <2>7. Tended(f, room', e)
      BY <2>4, <2>5, <2>6, TendedTransitive
    <2>. QED  BY <2>7, TendedStep DEF f
  <1>3. CASE AnswerTimeout
    <2>1. PICK e \in EnvType : room' = AgreeForAll(Faulted(room, e), e)
      BY <1>3, EnvIsTyped DEF AnswerTimeout
    <2>2. Tended(Faulted(room, e), room', e)
      BY <1>1, <2>1, AgreeForAllTended
    <2>. QED  BY <2>2, TendedStep
  <1>4. CASE StopAnswer
    <2>1. room' = TakeStop(room)
      BY <1>4 DEF StopAnswer
    <2>2. SameRecords(room, room')
      BY <2>1, StopsTended DEF Sound
    <2>3. \A e : Tended(room, room', e)
      BY <2>2, SameRecordsTended
    <2>. QED  BY <2>3, QuietStep
  <1>5. CASE OwnerDismiss
    <2>1. PICK e \in EnvType :
             room' = DismissRoom(Faulted(room, e), "UnionOwnerDismiss", e)
      BY <1>5, EnvIsTyped DEF OwnerDismiss
    <2>2. Called(Faulted(room, e), "UnionOwnerDismiss") /\ "UnionOwnerDismiss" \in Reasons
      BY DEF Called, Reasons
    <2>3. Tended(Faulted(room, e), room', e)
      BY <1>1, <2>1, <2>2, DismissRoomTended
    <2>. QED  BY <2>3, TendedStep
  <1>. QED  BY <1>2, <1>3, <1>4, <1>5 DEF RoomStep

\* The end of a game.
LEMMA GameEndsKeeps ==
    ASSUME Sound(room), KeptUnlessFaulted(room), GameEnds
    PROVE  KeptUnlessFaulted(room')
  <1>1. Members(room) \subseteq Users
    BY UsersIsFunction DEF Sound, Good
  <1>2. PICK e \in EnvType, poor \in SUBSET Users, bad \in BOOLEAN :
           room' = ConcludeGame(Faulted(room, e), poor, bad, e)
    BY <1>1, EnvIsTyped DEF GameEnds
  <1>3. Sound(Faulted(room, e)) /\ Faulted(room, e).gameStarted
    BY FaultedSound DEF SameRoom, GameEnds
  <1>4. Tended(Faulted(room, e), room', e)
    BY <1>2, <1>3, ConcludeGameTended
  <1>. QED  BY <1>4, TendedStep

\* A new room has no users and nobody's entry names it.
LEMMA InitKept ==
    Init => KeptUnlessFaulted(room)
  <1>. SUFFICES ASSUME NEW c \in Creators, room = NewRoom(c)
                PROVE  Kept(room)
    BY DEF Init, KeptUnlessFaulted
  <1>1. Members(room) = {} /\ \A u \in Users : ~room.db[u]
    BY DEF NewRoom, Members
  <1>. QED  BY <1>1 DEF Kept, KeptBut, Matched, TimedBut, ReadyHaveVotes

\* Every step preserves the invariant.
LEMMA StepKeeps ==
    ASSUME Sound(room), KeptUnlessFaulted(room), [Next]_vars
    PROVE  KeptUnlessFaulted(room')
  <1>1. CASE \E u \in Users : UserStep(u) \/ TimerStep(u)
    BY <1>1, UserStepKeeps, KickGoroutineKeeps, TimerKeeps DEF TimerStep
  <1>2. CASE RoomStep
    BY <1>2, RoomStepKeeps
  <1>3. CASE GameEnds
    BY <1>3, GameEndsKeeps
  <1>4. CASE UNCHANGED vars
    BY <1>4 DEF vars
  <1>. QED  BY <1>1, <1>2, <1>3, <1>4 DEF Next, RoomStep

-----------------------------------------------------------------------------
(* The theorems. *)

\* A room is kept as long as no update of a database failed.
THEOREM AlwaysKept == Spec => []KeptUnlessFaulted(room)
  <1>1. Init => KeptUnlessFaulted(room)
    BY InitKept
  <1>2. Sound(room) /\ KeptUnlessFaulted(room) /\ [Next]_vars => KeptUnlessFaulted(room)'
    BY StepKeeps
  <1>. QED  BY <1>1, <1>2, AlwaysSound, PTL DEF Spec

(* Entering, leaving and being kicked, by whatever timer and however often,  *)
(* keep the users' roomID in the database in step with the room's map of     *)
(* users, until an update fails or the room leaves its union.                *)
THEOREM RecordsMatch == Spec => []DbMatchesMembership
  <1>1. Sound(room) /\ KeptUnlessFaulted(room) => DbMatchesMembership
    <2>1. Sound(room) => Members(room) \subseteq Users
      BY UsersIsFunction DEF Sound, Good
    <2>. QED  BY <2>1 DEF KeptUnlessFaulted, Kept, KeptBut, Matched, DbMatchesMembership
  <1>. QED  BY <1>1, AlwaysSound, AlwaysKept, PTL

(* Nobody who is not ready can wait in a room before its first game without  *)
(* a kick goroutine or timer: userChangeSeat, the only handler that could    *)
(* make a ready user unready without one, never does.                        *)
THEOREM UnreadyAreTimed == Spec => []UnreadyIsTimed
  <1>1. Sound(room) /\ KeptUnlessFaulted(room) => UnreadyIsTimed
    <2>1. Sound(room) => NoUser \notin Members(room)
      BY UsersIsFunction, RoomAssumption DEF Sound, Good
    <2>. QED  BY <2>1 DEF KeptUnlessFaulted, Kept, KeptBut, TimedBut, UnreadyIsTimed
  <1>. QED  BY <1>1, AlwaysSound, AlwaysKept, PTL
=============================================================================
