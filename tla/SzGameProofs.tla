---------------------------- MODULE SzGameProofs ----------------------------
(***************************************************************************)
(* What is proved of a three-card game, for every number of chairs, rounds *)
(* and bureaus, every delay and every deal.                                *)
(*                                                                         *)
(* The functions of the frame are operators on games, so the induction is  *)
(* carried by two predicates on games: Good, which every game has, and     *)
(* Orderly, which a game has until a player acts in a turn that is already *)
(* over.  One lemma for each operator, then one for each step.             *)
(*                                                                         *)
(* Then the turns of a bureau: those who are left have poured equally      *)
(* often up to the turn, and a game of a room that no union created keeps  *)
(* what SzRound promises.  Each step of SzGame makes one of eight moves,   *)
(* which say of a game only what SzRound sees of it.  The moves keep the   *)
(* rounds in step, and in a game whose rounds are in step each move is a   *)
(* step of SzRound or leaves what it sees as it is.                        *)
(*                                                                         *)
(* Last, of all hands of three cards: their comparison is the order of     *)
(* their strengths, so the players who are left at the end of a bureau do  *)
(* not depend on who is compared with whom first.                          *)
(***************************************************************************)
EXTENDS SzImplements, SzCards, FiniteSetTheorems, WellFoundedInduction, TLAPS

(* What is true of every game. *)

\* The stages that a timer ends have it.
Staged(g) ==
    /\ g.status = "SendCards" => g.cards # Off
    /\ g.status = "Result" => g.result # Off

\* Between bureaus there are no players and no losers.
Ended(g) == ~g.started => g.playing = {} /\ g.loser = {}

Good(g) == g \in GameType /\ Staged(g) /\ Ended(g)

\* From g to h, who has lost does not pour.
Keeps(g, h) == \A c \in g.loser : c \in h.loser => h.pours[c] = g.pours[c]

(* What is true of a calm game. *)

\* No timer is about to end the turn, or exactly one is.
Quiet(g) == g.compare = Off /\ ~AbandonPending(g)
OneAbandon(g) ==
    \E i \in 0 .. ShortDelay :
        g.abandons[i] = 1 /\ \A j \in (0 .. ShortDelay) \ {i} : g.abandons[j] = 0
Shown(g) ==
    \/ g.compare # Off /\ ~AbandonPending(g)
    \/ g.compare = Off /\ OneAbandon(g)

\* Without any one of them somebody is left.
Several(g) == \A c \in Chairs : Alive(g) \ {c} # {}

\* The timers of each stage run in that stage only.
Course(g) ==
    /\ ~g.forced
    /\ g.started <=> g.status # "None"
    /\ g.cards # Off <=> g.status = "SendCards"
    /\ g.result # Off <=> g.status = "Result"
    /\ g.status # "PourScore" => g.pour = Off /\ Quiet(g)
    /\ g.settled = 0 \/ (g.status \in {"None", "Result"} /\ g.settled = 1)
    /\ g.status = "SendCards" => Several(g) /\ g.cur \in Alive(g)

\* A turn waits for its player, or it is over and will be passed on.
Open(g) == Quiet(g) /\ Several(g) /\ g.cur \in Alive(g) /\ (g.dismissed \/ g.pour # Off)
Over(g) == Shown(g) /\ Alive(g) # {} /\ g.pour = Off

Orderly(g) == Course(g) /\ (g.status = "PourScore" => Open(g) \/ Over(g))
Fit(g) == (g.hasty = 0 /\ ~UnionRoom) => Orderly(g)

SzInv == Good(game) /\ Fit(game)

-----------------------------------------------------------------------------
(* Numbers and chairs. *)

\* The minimum of a set of natural numbers is its least element.
LEMMA LeastNumber ==
    ASSUME NEW S \in SUBSET Nat, S # {}
    PROVE  Min(S) \in S /\ \A y \in S : Min(S) <= y
  <1>. DEFINE R == OpToRel(<, Nat)
  <1>1. IsWellFoundedOn(R, Nat)
    BY NatLessThanWellFounded
  <1>2. \A x, y \in Nat : <<x, y>> \in R <=> x < y
    BY DEF OpToRel
  <1>. HIDE DEF R
  <1>3. PICK x \in S : \A y \in S : ~(<<y, x>> \in R)
    BY <1>1, WFMin
  <1>4. \A y \in S : ~(y < x)
    BY <1>2, <1>3, Zenon
  <1>5. \A y \in S : x <= y
    BY <1>4
  <1>. QED  BY <1>5 DEF Min

\* The maximum of a set of chairs is one of them.
LEMMA GreatestChair ==
    ASSUME NEW S \in SUBSET Chairs, S # {}
    PROVE  Max(S) \in S
  <1>. DEFINE T == {ChairCount - x : x \in S}
  <1>1. T \in SUBSET Nat /\ T # {}
    <2>1. \A x \in S : ChairCount - x \in Nat
      BY SzAssumption DEF Chairs
    <2>. QED  BY <2>1
  <1>2. PICK x \in S : Min(T) = ChairCount - x
    BY <1>1, LeastNumber
  <1>3. \A y \in S : ChairCount - x <= ChairCount - y
    BY <1>1, <1>2, LeastNumber
  <1>4. \A y \in S : x >= y
    BY <1>3, SzAssumption DEF Chairs
  <1>. QED  BY <1>4 DEF Max

\* The loops over chairs end at a chair, and at one of those they look for.
LEMMA AfterIsChair ==
    ASSUME NEW c \in Chairs, NEW S \in SUBSET Chairs
    PROVE  After(c, S) \in Chairs /\ (S # {} => After(c, S) \in S)
  <1>. DEFINE T == {i \in 1 .. ChairCount : (c + i) % ChairCount \in S}
  <1>1. CASE S = {}
    BY <1>1 DEF After
  <1>2. CASE S # {}
    <2>1. PICK d \in S : TRUE
      BY <1>2
    <2>2. c \in 0 .. (ChairCount - 1) /\ d \in 0 .. (ChairCount - 1) /\ ChairCount \in Nat \ {0}
      BY SzAssumption DEF Chairs
    <2>3. (d + ChairCount) % ChairCount = d /\ d % ChairCount = d
      BY <2>2
    <2>4. T # {}
      <3>1. CASE d > c
        <4>1. d - c \in 1 .. ChairCount /\ c + (d - c) = d
          BY <2>2, <3>1
        <4>. QED  BY <4>1, <2>3
      <3>2. CASE d <= c
        <4>1. d - c + ChairCount \in 1 .. ChairCount /\ c + (d - c + ChairCount) = d + ChairCount
          BY <2>2, <3>2
        <4>. QED  BY <4>1, <2>3
      <3>. QED  BY <3>1, <3>2, <2>2
    <2>5. T \in SUBSET Nat
      BY <2>2
    <2>6. Min(T) \in T
      BY <2>4, <2>5, LeastNumber
    <2>7. (c + Min(T)) % ChairCount \in S
      BY <2>6
    <2>. QED  BY <2>7, <1>2 DEF After
  <1>. QED  BY <1>1, <1>2

-----------------------------------------------------------------------------
(* The operators keep a game good. *)

\* A clock can be set to its delay, and is then not Off.
LEMMA ClocksAreSet ==
    /\ \A n \in Nat : Off \in Clock(n) /\ n \in Clock(n) /\ n # Off
    /\ ShortDelay \in Nat /\ LongDelay \in Nat /\ PourTime \in Nat
  BY SzAssumption DEF Off, Clock

\* The count of hasty acts stays a number.
LEMMA HastyCounts ==
    ASSUME NEW g \in GameType
    PROVE  Hasty(g) \in Nat
  BY DEF Hasty, GameType

\* Opening a turn.
LEMMA StartPourScoreGood ==
    ASSUME NEW g, Good(g)
    PROVE  Good(StartPourScore(g)) /\ Keeps(g, StartPourScore(g))
  <1>1. g \in GameType
    BY DEF Good
  <1>2. StartPourScore(g) \in GameType
    BY <1>1, ClocksAreSet DEF StartPourScore, GameType, GameStatus
  <1>3. Staged(StartPourScore(g)) /\ Ended(StartPourScore(g))
    BY <1>1 DEF StartPourScore, GameType, Good, Staged, Ended
  <1>4. Keeps(g, StartPourScore(g))
    BY <1>1 DEF StartPourScore, GameType, Keeps
  <1>. QED  BY <1>2, <1>3, <1>4 DEF Good

\* Showing the result.
LEMMA StartResultGood ==
    ASSUME NEW g, Good(g)
    PROVE  Good(StartResult(g)) /\ Keeps(g, StartResult(g))
  <1>. DEFINE paid == {c \in Chairs : WinScore(g, Winners(g), c) > 0}
              heir == IF paid = {} THEN g.banker ELSE Max(paid)
              loser == g.loser \cup (Alive(g) \ Winners(g))
              settled == g.settled + 1
              h == [g EXCEPT !.status = "Result", !.loser = loser, !.heir = heir,
                             !.settled = settled, !.result = LongDelay]
  <1>1. g \in GameType
    BY DEF Good
  <1>2. heir \in Chairs
    <2>1. paid \in SUBSET Chairs
      OBVIOUS
    <2>. HIDE DEF paid
    <2>2. CASE paid = {}
      BY <1>1, <2>2 DEF GameType
    <2>3. CASE paid # {}
      BY <2>1, <2>3, GreatestChair
    <2>. QED  BY <2>2, <2>3
  <1>3. loser \in SUBSET Chairs /\ settled \in Nat
    BY <1>1 DEF GameType, Alive
  <1>4. ~g.started => loser = {}
    BY DEF Good, Ended, Alive
  <1>5. StartResult(g) = h
    BY DEF StartResult
  <1>. HIDE DEF paid, heir, loser, settled
  <1>6. h \in GameType
    BY <1>1, <1>2, <1>3, ClocksAreSet DEF GameType, GameStatus
  <1>7. Staged(h) /\ Ended(h)
    BY <1>1, <1>4, ClocksAreSet DEF GameType, Good, Staged, Ended
  <1>8. Keeps(g, h)
    BY <1>1 DEF GameType, Keeps
  <1>. HIDE DEF h
  <1>. QED  BY <1>5, <1>6, <1>7, <1>8 DEF Good

\* Stopping the task of a turn, and moving to the next player.
LEMMA ResetGood ==
    ASSUME NEW g, Good(g), NEW c \in Chairs
    PROVE  /\ Good([g EXCEPT !.pour = Off])
           /\ Good([g EXCEPT !.pour = Off, !.cur = c])
  BY ClocksAreSet DEF Good, Staged, Ended, GameType

\* Those who are left sit on chairs.
LEMMA AliveAreChairs ==
    ASSUME NEW g \in GameType
    PROVE  Alive(g) \in SUBSET Chairs
  BY DEF GameType, Alive

\* Ending a turn: the result, or the next turn.
LEMMA EndPourScoreGood ==
    ASSUME NEW g, Good(g)
    PROVE  Good(EndPourScore(g)) /\ Keeps(g, EndPourScore(g))
  <1>. DEFINE h == [g EXCEPT !.pour = Off]
              next == After(g.cur, Alive(g))
              k == [h EXCEPT !.cur = next]
  <1>1. g \in GameType
    BY DEF Good
  <1>2. next \in Chairs
    BY <1>1, AliveAreChairs, AfterIsChair DEF GameType
  <1>3. EndPourScore(g) \in {StartResult(h), StartPourScore(k)}
    BY DEF EndPourScore
  <1>. HIDE DEF next
  <1>4. Good(h) /\ Good(k)
    <2>1. k = [g EXCEPT !.pour = Off, !.cur = next]
      BY <1>1 DEF GameType
    <2>. QED  BY <1>2, <2>1, ResetGood
  <1>5. /\ h.loser = g.loser /\ h.pours = g.pours
        /\ k.loser = g.loser /\ k.pours = g.pours
    BY <1>1 DEF GameType
  <1>. HIDE DEF h, k
  <1>6. CASE EndPourScore(g) = StartResult(h)
    BY <1>4, <1>5, <1>6, StartResultGood DEF Keeps
  <1>7. CASE EndPourScore(g) = StartPourScore(k)
    BY <1>4, <1>5, <1>7, StartPourScoreGood DEF Keeps
  <1>. QED  BY <1>3, <1>6, <1>7

\* A comparison: the one who pours for it has not lost.
LEMMA CompareGood ==
    ASSUME NEW g, Good(g), NEW from \in Chairs, NEW to \in Chairs, NEW force \in BOOLEAN
    PROVE  Good(Compare(g, from, to, force)) /\ Keeps(g, Compare(g, from, to, force))
  <1>. DEFINE won == g.hands[from] > g.hands[to]
              beaten == IF won THEN to ELSE from
              loser == g.loser \cup {beaten}
              poured == [g.pours EXCEPT ![from] = @ + 1]
              forced == force /\ (won \/ from = to)
              h == [g EXCEPT !.loser = loser, !.pour = Off]
              k == [h EXCEPT !.pours = poured, !.compare = LongDelay,
                             !.forced = forced, !.hasty = Hasty(g)]
  <1>1. g \in GameType
    BY DEF Good
  <1>2. Compare(g, from, to, force) \in {g, h, k}
    BY <1>1 DEF Compare, GameType
  <1>3. beaten \in Chairs /\ loser \in SUBSET Chairs
    BY <1>1 DEF GameType
  <1>4. poured \in Numbers /\ \A c \in Chairs \ {from} : poured[c] = g.pours[c]
    BY <1>1 DEF GameType, Numbers
  <1>5. forced \in BOOLEAN
    OBVIOUS
  <1>6. Hasty(g) \in Nat
    BY <1>1, HastyCounts
  <1>7. CASE Compare(g, from, to, force) = g
    BY <1>7 DEF Keeps
  <1>8. CASE Compare(g, from, to, force) \in {h, k} /\ ~(from \in Alive(g) /\ to \in Alive(g))
    BY <1>7, <1>8 DEF Compare
  <1>9. CASE Compare(g, from, to, force) \in {h, k} /\ from \in Alive(g) /\ to \in Alive(g)
    <2>1. g.started /\ from \notin g.loser
      BY <1>1, <1>9 DEF Good, Ended, Alive, GameType
    <2>. HIDE DEF loser, poured, forced
    <2>2. h \in GameType /\ k \in GameType
      BY <1>1, <1>3, <1>4, <1>5, <1>6, ClocksAreSet DEF GameType
    <2>3. h.started = g.started /\ k.started = g.started
      BY <1>1 DEF GameType
    <2>4. Staged(h) /\ Staged(k)
      BY <1>1 DEF Good, Staged, GameType
    <2>5. Good(h) /\ Good(k)
      BY <2>1, <2>2, <2>3, <2>4 DEF Good, Ended
    <2>6. Keeps(g, h) /\ Keeps(g, k)
      BY <1>1, <1>4, <2>1 DEF Keeps, GameType
    <2>. HIDE DEF h, k
    <2>. QED  BY <1>9, <2>5, <2>6
  <1>. HIDE DEF h, k
  <1>. QED  BY <1>2, <1>7, <1>8, <1>9

\* An abandon.
LEMMA OnGameAbandonGood ==
    ASSUME NEW g, Good(g), NEW c \in Chairs
    PROVE  Good(OnGameAbandon(g, c)) /\ Keeps(g, OnGameAbandon(g, c))
  <1>. DEFINE loser == g.loser \cup {c}
              abandons == [g.abandons EXCEPT ![ShortDelay] = @ + 1]
              h == [g EXCEPT !.pour = Off, !.loser = loser,
                             !.abandons = abandons, !.hasty = Hasty(g)]
  <1>1. g \in GameType
    BY DEF Good
  <1>2. CASE ~CanAct(g, c)
    BY <1>2 DEF OnGameAbandon, Keeps
  <1>3. CASE CanAct(g, c)
    <2>1. OnGameAbandon(g, c) = h
      BY <1>1, <1>3 DEF OnGameAbandon, GameType
    <2>2. loser \in SUBSET Chairs /\ Hasty(g) \in Nat
      BY <1>1, HastyCounts DEF GameType
    <2>3. abandons \in Pending
      BY <1>1, SzAssumption DEF GameType, Pending
    <2>4. g.started
      BY <1>1, <1>3 DEF CanAct, Good, Ended, GameType
    <2>. HIDE DEF loser, abandons
    <2>5. h \in GameType
      BY <1>1, <2>2, <2>3, ClocksAreSet DEF GameType
    <2>6. Staged(h) /\ Ended(h) /\ Keeps(g, h)
      BY <1>1, <2>4 DEF GameType, Good, Staged, Ended, Keeps
    <2>. HIDE DEF h
    <2>. QED  BY <2>1, <2>5, <2>6 DEF Good
  <1>. QED  BY <1>2, <1>3

\* A pour, with or without enough score.
LEMMA OnGamePourScoreGood ==
    ASSUME NEW g, Good(g), NEW c \in Chairs, NEW short \in BOOLEAN
    PROVE  Good(OnGamePourScore(g, c, short)) /\ Keeps(g, OnGamePourScore(g, c, short))
  <1>. DEFINE found == g.short \cup {c}
              poured == [g.pours EXCEPT ![c] = @ + 1]
              h == [g EXCEPT !.short = found]
              k == [g EXCEPT !.pours = poured, !.hasty = Hasty(g)]
  <1>1. g \in GameType
    BY DEF Good
  <1>2. found \in SUBSET Chairs /\ Hasty(g) \in Nat
    BY <1>1, HastyCounts DEF GameType
  <1>3. poured \in Numbers /\ \A d \in Chairs \ {c} : poured[d] = g.pours[d]
    BY <1>1 DEF GameType, Numbers
  <1>4. CASE c \notin g.playing
    BY <1>4 DEF OnGamePourScore, Keeps
  <1>5. CASE c \in g.playing /\ short
    <2>1. OnGamePourScore(g, c, short) = Compare(h, c, c, TRUE)
      BY <1>5 DEF OnGamePourScore
    <2>. HIDE DEF found
    <2>2. Good(h) /\ h.loser = g.loser /\ h.pours = g.pours
      BY <1>1, <1>2 DEF Good, GameType, Staged, Ended
    <2>. HIDE DEF h
    <2>3. Good(Compare(h, c, c, TRUE)) /\ Keeps(h, Compare(h, c, c, TRUE))
      BY <2>2, CompareGood
    <2>. QED  BY <2>1, <2>2, <2>3 DEF Keeps
  <1>6. CASE c \in g.playing /\ ~short /\ CanAct(g, c)
    <2>1. OnGamePourScore(g, c, short) = EndPourScore(k)
      BY <1>1, <1>6 DEF OnGamePourScore, GameType
    <2>. HIDE DEF poured
    <2>2. k \in GameType /\ k.loser = g.loser /\ k.pours = poured
      BY <1>1, <1>2, <1>3 DEF GameType
    <2>3. Staged(k) /\ Ended(k)
      BY <1>1 DEF Good, GameType, Staged, Ended
    <2>4. \A d \in g.loser : k.pours[d] = g.pours[d]
      BY <1>1, <1>3, <1>6, <2>2 DEF CanAct, GameType
    <2>. HIDE DEF k
    <2>5. Good(EndPourScore(k)) /\ Keeps(k, EndPourScore(k))
      BY <2>2, <2>3, EndPourScoreGood DEF Good
    <2>. QED  BY <2>1, <2>2, <2>4, <2>5 DEF Keeps
  <1>7. CASE c \in g.playing /\ ~short /\ ~CanAct(g, c)
    BY <1>7 DEF OnGamePourScore, Keeps
  <1>. QED  BY <1>4, <1>5, <1>6, <1>7

\* Handing over to the server, and taking back.
LEMMA OnGameTrustGood ==
    ASSUME NEW g, Good(g), NEW c \in Chairs, NEW on \in BOOLEAN
    PROVE  Good(OnGameTrust(g, c, on)) /\ Keeps(g, OnGameTrust(g, c, on))
  <1>. DEFINE trust == IF on THEN g.trust \cup {c} ELSE g.trust \ {c}
              h == [g EXCEPT !.trust = trust]
  <1>1. g \in GameType
    BY DEF Good
  <1>2. trust \in SUBSET Chairs
    BY <1>1 DEF GameType
  <1>3. OnGameTrust(g, c, on) = IF on THEN OnGameAbandon(h, c) ELSE h
    BY <1>1 DEF OnGameTrust, GameType
  <1>. HIDE DEF trust
  <1>4. Good(h) /\ h.loser = g.loser /\ h.pours = g.pours
    BY <1>1, <1>2 DEF Good, GameType, Staged, Ended
  <1>. HIDE DEF h
  <1>5. Good(OnGameAbandon(h, c)) /\ Keeps(h, OnGameAbandon(h, c))
    BY <1>4, OnGameAbandonGood
  <1>. QED  BY <1>3, <1>4, <1>5 DEF Keeps

\* The room's dismissal.
LEMMA OnEventRoomDismissGood ==
    ASSUME NEW g, Good(g)
    PROVE  /\ Good(OnEventRoomDismiss(g))
           /\ OnEventRoomDismiss(g).loser = g.loser
           /\ Keeps(g, OnEventRoomDismiss(g))
  BY ClocksAreSet DEF OnEventRoomDismiss, Good, GameType, Staged, Ended, Keeps

\* The end of a bureau; the result's timer has been taken already.
LEMMA EndResultGood ==
    ASSUME NEW g \in GameType, Ended(g)
    PROVE  Good(EndResult(g)) /\ Keeps(g, EndResult(g))
  <1>. DEFINE h == [g EXCEPT !.status = "None", !.pours = Zero, !.loser = {},
                             !.short = {}, !.banker = g.heir]
              t == [h EXCEPT !.started = FALSE, !.playing = {}]
  <1>1. g \in GameType
    OBVIOUS
  <1>2. EndResult(g) \in {h, t, OnEventRoomDismiss(t)}
    BY DEF EndResult
  <1>3. Zero \in Numbers
    BY DEF Zero, Numbers
  <1>4. h \in GameType /\ t \in GameType
    BY <1>1, <1>3 DEF GameType, GameStatus
  <1>5. h.loser = {} /\ t.loser = {}
    BY <1>1 DEF GameType
  <1>6. Good(h) /\ Good(t)
    <2>1. h.status = "None" /\ t.status = "None"
      BY <1>1 DEF GameType
    <2>2. ~t.started /\ t.playing = {} /\ h.started = g.started /\ h.playing = g.playing
      BY <1>1 DEF GameType
    <2>. HIDE DEF h, t
    <2>. QED  BY <1>4, <1>5, <2>1, <2>2 DEF Good, Staged, Ended
  <1>. HIDE DEF h, t
  <1>7. Good(OnEventRoomDismiss(t)) /\ OnEventRoomDismiss(t).loser = {}
    BY <1>5, <1>6, OnEventRoomDismissGood
  <1>. QED  BY <1>2, <1>5, <1>6, <1>7 DEF Keeps

-----------------------------------------------------------------------------
(* The steps keep a game good. *)

\* A new frame.
LEMMA NewGameGood ==
    Good(NewGameFrame)
  <1>1. 0 \in Chairs
    BY SzAssumption DEF Chairs
  <1>2. Zero \in Numbers /\ [i \in 0 .. ShortDelay |-> 0] \in Pending
    BY DEF Zero, Numbers, Pending
  <1>3. Off \in Clock(PourTime) /\ Off \in Clock(ShortDelay) /\ Off \in Clock(LongDelay)
    BY ClocksAreSet
  <1>4. NewGameFrame \in GameType
    BY <1>1, <1>2, <1>3 DEF NewGameFrame, GameType, GameStatus
  <1>. QED  BY <1>4 DEF NewGameFrame, Good, Staged, Ended

\* A bureau starts: nobody has lost in it yet.
LEMMA StartGameGood ==
    ASSUME Good(game), StartGame
    PROVE  Good(game') /\ Keeps(game, game')
  <1>1. PICK players \in SUBSET Chairs, b \in Chairs, deal \in Deals :
          LET banker == IF game.bureau = 0 THEN b ELSE game.banker
          IN  game' = [game EXCEPT
                    !.started = TRUE, !.playing = players, !.banker = banker,
                    !.bureau = @ + 1, !.cur = After(banker, players),
                    !.status = "SendCards", !.cards = ShortDelay, !.hands = deal,
                    !.pours = [c \in Chairs |-> IF c \in players THEN 1 ELSE @[c]],
                    !.settled = 0, !.trustTask = @ \/ CanTrust]
    BY Zenon DEF StartGame
  <1>. DEFINE banker == IF game.bureau = 0 THEN b ELSE game.banker
              cur == After(banker, players)
              bureau == game.bureau + 1
              pours == [c \in Chairs |-> IF c \in players THEN 1 ELSE game.pours[c]]
              task == game.trustTask \/ CanTrust
              h == [game EXCEPT
                    !.started = TRUE, !.playing = players, !.banker = banker,
                    !.bureau = bureau, !.cur = cur,
                    !.status = "SendCards", !.cards = ShortDelay, !.hands = deal,
                    !.pours = pours, !.settled = 0, !.trustTask = task]
  <1>2. game \in GameType
    BY DEF Good
  <1>3. game' = h
    BY <1>1, <1>2 DEF GameType
  <1>4. banker \in Chairs /\ bureau \in Nat
    BY <1>2 DEF GameType
  <1>5. cur \in Chairs
    BY <1>4, AfterIsChair
  <1>6. pours \in Numbers /\ task \in BOOLEAN /\ deal \in Numbers
    BY <1>2, SzAssumption DEF GameType, Numbers
  <1>. HIDE DEF banker, cur, bureau, pours, task
  <1>7. h \in GameType
    BY <1>2, <1>4, <1>5, <1>6, ClocksAreSet DEF GameType, GameStatus
  <1>8. Staged(h) /\ Ended(h)
    BY <1>2, ClocksAreSet DEF GameType, Staged, Ended
  <1>9. game.loser = {}
    BY DEF StartGame, Good, Ended
  <1>. HIDE DEF h
  <1>. QED  BY <1>3, <1>7, <1>8, <1>9 DEF Good, Keeps

\* The players' messages.
LEMMA MessageGood ==
    ASSUME Good(game), NEW c \in Chairs, ChairStep(c)
    PROVE  Good(game') /\ Keeps(game, game')
  <1>. DEFINE h == [game EXCEPT !.short = @ \cup {c}]
  <1>1. game \in GameType
    BY DEF Good
  <1>2. CASE Pour(c)
    <2>1. PICK short \in Shortness(c) : game' = OnGamePourScore(game, c, short)
      BY <1>2 DEF Pour
    <2>2. short \in BOOLEAN
      BY DEF Shortness
    <2>. QED  BY <2>1, <2>2, OnGamePourScoreGood
  <1>3. CASE AskCompare(c)
    <2>1. PICK to \in Chairs, d \in Chairs :
              game' \in {Compare(h, c, d, TRUE), Compare(game, c, to, FALSE)}
      BY <1>3 DEF AskCompare
    <2>2. Good(h) /\ h.loser = game.loser /\ h.pours = game.pours
      BY <1>1 DEF Good, GameType, Staged, Ended
    <2>. HIDE DEF h
    <2>3. Good(Compare(h, c, d, TRUE)) /\ Keeps(h, Compare(h, c, d, TRUE))
      BY <2>2, CompareGood
    <2>4. Good(Compare(game, c, to, FALSE)) /\ Keeps(game, Compare(game, c, to, FALSE))
      BY CompareGood
    <2>. QED  BY <2>1, <2>2, <2>3, <2>4 DEF Keeps
  <1>4. CASE Abandon(c)
    BY <1>4, OnGameAbandonGood DEF Abandon
  <1>5. CASE Trust(c)
    BY <1>5, OnGameTrustGood DEF Trust
  <1>. QED  BY <1>2, <1>3, <1>4, <1>5 DEF ChairStep

\* The timer of a turn of a player who handed over.
LEMMA TurnTimerGood ==
    ASSUME Good(game), TurnTimer
    PROVE  Good(game') /\ Keeps(game, game')
  <1>. DEFINE h == [game EXCEPT !.turn = Off]
              k == [h EXCEPT !.pour = Off]
  <1>1. game \in GameType
    BY DEF Good
  <1>2. game' = OnGameAbandon(k, h.cur) \/ game' = h
    BY DEF TurnTimer
  <1>3. Good(h) /\ Good(k)
    <2>1. h \in GameType /\ k \in GameType
      BY <1>1, ClocksAreSet DEF GameType
    <2>. QED  BY <1>1, <2>1 DEF Good, GameType, Staged, Ended
  <1>4. /\ h.cur \in Chairs
        /\ h.loser = game.loser /\ h.pours = game.pours
        /\ k.loser = game.loser /\ k.pours = game.pours
    BY <1>1 DEF GameType
  <1>. HIDE DEF h, k
  <1>5. Good(OnGameAbandon(k, h.cur)) /\ Keeps(k, OnGameAbandon(k, h.cur))
    BY <1>3, <1>4, OnGameAbandonGood
  <1>. QED  BY <1>2, <1>3, <1>4, <1>5 DEF Keeps

\* The timer of a comparison, forced or not.
LEMMA CompareTimerGood ==
    ASSUME Good(game), CompareTimer
    PROVE  Good(game') /\ Keeps(game, game')
  <1>. DEFINE h == [game EXCEPT !.compare = Off, !.forced = FALSE]
              k == [h EXCEPT !.pour = Off]
  <1>1. game \in GameType
    BY DEF Good
  <1>2. \/ \E d \in h.playing \ {h.cur} : game' = Compare(k, h.cur, d, TRUE)
        \/ game' = EndPourScore(h)
    BY Zenon DEF CompareTimer
  <1>3. Good(h) /\ Good(k)
    <2>1. h \in GameType /\ k \in GameType
      BY <1>1, ClocksAreSet DEF GameType
    <2>. QED  BY <1>1, <2>1 DEF Good, GameType, Staged, Ended
  <1>4. /\ h.cur \in Chairs /\ h.playing \subseteq Chairs
        /\ h.loser = game.loser /\ h.pours = game.pours
        /\ k.loser = game.loser /\ k.pours = game.pours
    BY <1>1 DEF GameType
  <1>. HIDE DEF h, k
  <1>5. CASE game' = EndPourScore(h)
    BY <1>3, <1>4, <1>5, EndPourScoreGood DEF Keeps
  <1>6. ASSUME NEW d \in h.playing \ {h.cur}, game' = Compare(k, h.cur, d, TRUE)
        PROVE  Good(game') /\ Keeps(game, game')
    <2>1. d \in Chairs
      BY <1>4
    <2>2. Good(game') /\ Keeps(k, game')
      BY <1>3, <1>4, <1>6, <2>1, CompareGood
    <2>. QED  BY <1>4, <2>2 DEF Keeps
  <1>. QED  BY <1>2, <1>5, <1>6

\* The tasks and timers.
LEMMA TimerGood ==
    ASSUME Good(game), TimerStep
    PROVE  Good(game') /\ Keeps(game, game')
  <1>1. game \in GameType /\ game.cur \in Chairs
    BY DEF Good, GameType
  <1>2. CASE TrustTask
    <2>1. game' = OnGameTrust(game, game.cur, TRUE)
      BY <1>2 DEF TrustTask
    <2>. QED  BY <1>1, <2>1, OnGameTrustGood
  <1>3. CASE PourTick
    BY <1>1, <1>3, OnGameAbandonGood DEF PourTick
  <1>4. CASE CardsTimer
    <2>. DEFINE h == [game EXCEPT !.cards = Off]
    <2>1. h \in GameType /\ Ended(h) /\ h.loser = game.loser /\ h.pours = game.pours
      BY <1>1, ClocksAreSet DEF GameType, Good, Ended
    <2>. DEFINE k == StartPourScore(h)
    <2>2. k \in GameType
      BY <2>1, ClocksAreSet DEF StartPourScore, GameType, GameStatus
    <2>3. Staged(k) /\ Ended(k) /\ Keeps(game, k)
      BY <1>1, <2>1 DEF StartPourScore, GameType, Staged, Ended, Keeps
    <2>4. game' = k
      BY <1>4 DEF CardsTimer
    <2>. HIDE DEF k
    <2>. QED  BY <2>2, <2>3, <2>4 DEF Good
  <1>5. CASE TurnTimer
    BY <1>5, TurnTimerGood
  <1>6. CASE CompareTimer
    BY <1>6, CompareTimerGood
  <1>7. CASE AbandonTimer
    <2>. DEFINE abandons == [game.abandons EXCEPT ![0] = @ - 1]
                h == [game EXCEPT !.abandons = abandons]
    <2>1. abandons \in Pending
      BY <1>1, <1>7, SzAssumption DEF AbandonTimer, GameType, Pending
    <2>2. game' = EndPourScore(h)
      BY <1>1, <1>7 DEF AbandonTimer, GameType
    <2>. HIDE DEF abandons
    <2>3. Good(h) /\ h.loser = game.loser /\ h.pours = game.pours
      BY <1>1, <2>1 DEF Good, GameType, Staged, Ended
    <2>. HIDE DEF h
    <2>. QED  BY <2>2, <2>3, EndPourScoreGood DEF Keeps
  <1>8. CASE ResultTimer
    <2>. DEFINE h == [game EXCEPT !.result = Off]
    <2>1. game' = EndResult(h)
      BY <1>8 DEF ResultTimer
    <2>2. h \in GameType /\ Ended(h) /\ h.loser = game.loser /\ h.pours = game.pours
      BY <1>1, ClocksAreSet DEF Good, GameType, Ended
    <2>. HIDE DEF h
    <2>. QED  BY <2>1, <2>2, EndResultGood DEF Keeps
  <1>. QED  BY <1>2, <1>3, <1>4, <1>5, <1>6, <1>7, <1>8 DEF TimerStep

\* A second passes.
LEMMA SecondGood ==
    ASSUME Good(game), Second
    PROVE  Good(game') /\ Keeps(game, game')
  <1>. DEFINE abandons == [i \in 0 .. ShortDelay |->
                              IF i = ShortDelay THEN 0 ELSE game.abandons[i + 1]]
              pour == IF game.dismissing THEN game.pour ELSE Earlier(game.pour)
              h == [game EXCEPT !.cards = Earlier(game.cards), !.turn = Earlier(game.turn),
                                !.compare = Earlier(game.compare),
                                !.result = Earlier(game.result),
                                !.pour = pour, !.abandons = abandons]
  <1>1. game \in GameType
    BY DEF Good
  <1>2. game' = h
    BY <1>1 DEF Second, GameType
  <1>3. \A d \in Nat : \A x \in Clock(d) :
            Earlier(x) \in Clock(d) /\ (Earlier(x) = Off <=> x = Off)
    BY DEF Clock, Earlier, Off
  <1>4. abandons \in Pending
    BY <1>1, SzAssumption DEF GameType, Pending
  <1>5. pour \in Clock(PourTime)
    BY <1>1, <1>3, ClocksAreSet DEF GameType
  <1>6. /\ Earlier(game.cards) \in Clock(ShortDelay) /\ Earlier(game.turn) \in Clock(ShortDelay)
        /\ Earlier(game.compare) \in Clock(LongDelay) /\ Earlier(game.result) \in Clock(LongDelay)
        /\ (Earlier(game.cards) = Off <=> game.cards = Off)
        /\ (Earlier(game.result) = Off <=> game.result = Off)
    BY <1>1, <1>3, ClocksAreSet DEF GameType
  <1>. HIDE DEF abandons, pour
  <1>7. h \in GameType
    BY <1>1, <1>4, <1>5, <1>6 DEF GameType
  <1>8. Staged(h) /\ Ended(h) /\ Keeps(game, h)
    BY <1>1, <1>6 DEF GameType, Good, Staged, Ended, Keeps
  <1>. HIDE DEF h
  <1>. QED  BY <1>2, <1>7, <1>8 DEF Good

\* Every step keeps a game good, and those who have lost pour no more.
LEMMA StepGood ==
    ASSUME Good(game), [Next]_vars
    PROVE  Good(game') /\ Keeps(game, game')
  <1>1. game \in GameType
    BY DEF Good
  <1>2. CASE StartGame
    BY <1>2, StartGameGood
  <1>3. CASE Vote
    <2>. DEFINE asked == ~game.dismissing
    <2>1. game' = [game EXCEPT !.dismissing = asked] /\ asked \in BOOLEAN
      BY <1>1, <1>3 DEF Vote, GameType
    <2>. HIDE DEF asked
    <2>. QED  BY <1>1, <2>1 DEF Good, GameType, Staged, Ended, Keeps
  <1>4. CASE Dismiss
    BY <1>4, OnEventRoomDismissGood DEF Dismiss
  <1>5. CASE \E c \in Chairs : ChairStep(c)
    BY <1>5, MessageGood
  <1>6. CASE TimerStep
    BY <1>6, TimerGood
  <1>7. CASE Second
    BY <1>7, SecondGood
  <1>8. CASE UNCHANGED vars
    BY <1>8 DEF vars, Keeps
  <1>. QED  BY <1>2, <1>3, <1>4, <1>5, <1>6, <1>7, <1>8 DEF Next

\* A game has its type, its stages their timers, and no losers between bureaus.
THEOREM AlwaysGood ==
    Spec => []Good(game)
  <1>1. Init => Good(game)
    BY NewGameGood DEF Init
  <1>2. Good(game) /\ [Next]_vars => Good(game)'
    BY StepGood
  <1>. QED  BY <1>1, <1>2, PTL DEF Spec

\* Whatever acts and timers meet: who has lost pours no more in the bureau.
THEOREM LosersStayOut ==
    Spec => LosersDoNotPour
  <1>1. Good(game) /\ [Next]_vars =>
            [\A c \in game.loser : c \in game.loser' => game.pours'[c] = game.pours[c]]_vars
    BY StepGood DEF Keeps
  <1>. QED  BY <1>1, AlwaysGood, PTL DEF Spec, LosersDoNotPour

-----------------------------------------------------------------------------
(* The operators keep a calm game orderly. *)

\* An act that is not hasty finds an orderly game with an open turn.
LEMMA OpenTurn ==
    ASSUME NEW g \in GameType, Fit(g), ~UnionRoom, Hasty(g) = 0, g.status = "PourScore"
    PROVE  Course(g) /\ Open(g) /\ g.hasty = 0
  <1>1. g.hasty \in Nat
    BY DEF GameType
  <1>2. ~Decided(g) /\ g.hasty = 0
    BY <1>1 DEF Hasty
  <1>3. AbandonPending(g) \/ ~OneAbandon(g)
    BY DEF AbandonPending, OneAbandon
  <1>4. ~Shown(g)
    BY <1>2, <1>3 DEF Shown, Decided
  <1>. QED  BY <1>2, <1>4 DEF Fit, Orderly, Over

\* An abandon in an open turn ends it with one timer, and leaves a player.
LEMMA AbandonEndsTurn ==
    ASSUME NEW g \in GameType, NEW c \in Chairs, CanAct(g, c),
           Course(g), Quiet(g), Several(g)
    PROVE  Orderly(OnGameAbandon(g, c)) /\ OnGameAbandon(g, c).hasty = Hasty(g)
  <1>. DEFINE loser == g.loser \cup {c}
              abandons == [g.abandons EXCEPT ![ShortDelay] = @ + 1]
              h == [g EXCEPT !.pour = Off, !.loser = loser,
                             !.abandons = abandons, !.hasty = Hasty(g)]
  <1>1. OnGameAbandon(g, c) = h
    BY DEF OnGameAbandon, GameType
  <1>2. g.status = "PourScore"
    BY DEF CanAct
  <1>3. abandons[ShortDelay] = 1 /\ \A j \in (0 .. ShortDelay) \ {ShortDelay} : abandons[j] = 0
    BY SzAssumption DEF Quiet, AbandonPending, GameType, Pending
  <1>. HIDE DEF abandons
  <1>4. /\ h.status = "PourScore" /\ h.pour = Off /\ h.compare = Off
        /\ h.abandons = abandons /\ h.loser = loser /\ h.playing = g.playing
        /\ h.forced = g.forced /\ h.started = g.started /\ h.cards = g.cards
        /\ h.result = g.result /\ h.settled = g.settled /\ h.hasty = Hasty(g)
    BY <1>2 DEF GameType, Quiet
  <1>5. Course(h)
    BY <1>2, <1>4 DEF Course
  <1>6. Shown(h)
    BY <1>3, <1>4, SzAssumption DEF Shown, OneAbandon
  <1>7. Alive(h) = Alive(g) \ {c}
    BY <1>4 DEF Alive
  <1>. HIDE DEF h
  <1>. QED  BY <1>1, <1>4, <1>5, <1>6, <1>7 DEF Orderly, Over, Several

\* An abandon, whoever asks for it.
LEMMA OnGameAbandonFit ==
    ASSUME NEW g \in GameType, NEW c \in Chairs, Fit(g), ~UnionRoom
    PROVE  Fit(OnGameAbandon(g, c))
  <1>1. CASE ~CanAct(g, c)
    BY <1>1 DEF OnGameAbandon
  <1>2. CASE CanAct(g, c)
    <2>1. OnGameAbandon(g, c).hasty = Hasty(g)
      BY <1>2, HastyCounts DEF OnGameAbandon, GameType
    <2>2. ASSUME Hasty(g) = 0
          PROVE  Orderly(OnGameAbandon(g, c))
      BY <1>2, <2>2, OpenTurn, AbandonEndsTurn DEF CanAct, Open
    <2>. QED  BY <2>1, <2>2 DEF Fit
  <1>. QED  BY <1>1, <1>2

\* A comparison by message ends the turn with one timer, and leaves a player.
LEMMA CompareFit ==
    ASSUME NEW g \in GameType, NEW from \in Chairs, NEW to \in Chairs, Fit(g), ~UnionRoom
    PROVE  Fit(Compare(g, from, to, FALSE))
  <1>. DEFINE won == g.hands[from] > g.hands[to]
              beaten == IF won THEN to ELSE from
              loser == g.loser \cup {beaten}
              poured == [g.pours EXCEPT ![from] = @ + 1]
              h == [g EXCEPT !.loser = loser, !.pour = Off]
              k == [h EXCEPT !.pours = poured, !.compare = LongDelay,
                             !.forced = FALSE, !.hasty = Hasty(g)]
  <1>1. CASE ~(from \in Alive(g) /\ to \in Alive(g)) \/ (~CanAct(g, from) /\ g.status # "Result")
    BY <1>1 DEF Compare
  <1>2. CASE from \in Alive(g) /\ to \in Alive(g) /\ CanAct(g, from)
    <2>1. Compare(g, from, to, FALSE) = k
      BY <1>2 DEF Compare, GameType
    <2>2. g.status = "PourScore" /\ LongDelay # Off /\ beaten \in Chairs
      BY <1>2, ClocksAreSet DEF CanAct
    <2>. HIDE DEF poured, beaten
    <2>3. /\ k.status = "PourScore" /\ k.pour = Off /\ k.compare = LongDelay
          /\ k.abandons = g.abandons /\ k.loser = loser /\ k.playing = g.playing
          /\ ~k.forced /\ k.started = g.started /\ k.cards = g.cards
          /\ k.result = g.result /\ k.settled = g.settled /\ k.hasty = Hasty(g)
      BY <2>2 DEF GameType
    <2>4. Alive(k) = Alive(g) \ {beaten}
      BY <2>3 DEF Alive
    <2>. HIDE DEF h, k, loser
    <2>5. ASSUME Hasty(g) = 0
          PROVE  Orderly(k)
      <3>1. Course(g) /\ Open(g)
        BY <2>2, <2>5, OpenTurn
      <3>2. Course(k)
        BY <2>2, <2>3, <3>1 DEF Course
      <3>3. Shown(k)
        BY <2>2, <2>3, <3>1 DEF Shown, Open, Quiet, AbandonPending
      <3>4. Alive(k) # {}
        BY <2>2, <2>4, <3>1 DEF Open, Several
      <3>. QED  BY <2>3, <3>2, <3>3, <3>4 DEF Orderly, Over
    <2>. QED  BY <2>1, <2>3, <2>5 DEF Fit
  <1>3. CASE from \in Alive(g) /\ to \in Alive(g) /\ ~CanAct(g, from) /\ g.status = "Result"
    <2>1. Compare(g, from, to, FALSE) = h
      BY <1>3 DEF Compare
    <2>. HIDE DEF loser
    <2>2. /\ h.status = g.status /\ h.pour = Off /\ h.compare = g.compare
          /\ h.abandons = g.abandons
          /\ h.forced = g.forced /\ h.started = g.started /\ h.cards = g.cards
          /\ h.result = g.result /\ h.settled = g.settled /\ h.hasty = g.hasty
      BY DEF GameType
    <2>. HIDE DEF h
    <2>3. Orderly(g) => Orderly(h)
      BY <1>3, <2>2 DEF Orderly, Course, Quiet, AbandonPending
    <2>. QED  BY <2>1, <2>2, <2>3 DEF Fit
  <1>. QED  BY <1>1, <1>2, <1>3

\* endPourScore's count: not none and not one is several.
LEMMA NotOneIsSeveral ==
    ASSUME NEW g \in GameType, Alive(g) # {}, Cardinality(Alive(g)) # 1
    PROVE  Several(g)
  <1>1. IsFiniteSet(Chairs)
    BY SzAssumption, FS_Interval DEF Chairs
  <1>2. IsFiniteSet(Alive(g))
    BY <1>1, AliveAreChairs, FS_Subset
  <1>3. \A c : Alive(g) # {c}
    BY <1>2, FS_Singleton
  <1>. QED  BY <1>3 DEF Several

\* Ending a turn that is over: one player is left and wins, or several go on.
LEMMA EndPourScoreOrderly ==
    ASSUME NEW g \in GameType, Course(g), g.status = "PourScore", Quiet(g), Alive(g) # {}
    PROVE  Orderly(EndPourScore(g)) /\ EndPourScore(g).hasty = g.hasty
  <1>. DEFINE h == [g EXCEPT !.pour = Off]
              next == After(g.cur, Alive(g))
              k == [h EXCEPT !.cur = next]
  <1>1. g.settled = 0 /\ g.started /\ g.cards = Off /\ g.result = Off /\ ~g.forced
    BY DEF Course
  <1>2. CASE EndPourScore(g) = StartResult(h)
    <2>. DEFINE paid == {c \in Chairs : WinScore(h, Winners(h), c) > 0}
                heir == IF paid = {} THEN h.banker ELSE Max(paid)
                loser == h.loser \cup (Alive(h) \ Winners(h))
                s == [h EXCEPT !.status = "Result", !.loser = loser, !.heir = heir,
                               !.settled = @ + 1, !.result = LongDelay]
    <2>0. StartResult(h) = s
      BY DEF StartResult
    <2>. HIDE DEF paid, heir, loser
    <2>1. s.settled = 1
      BY <1>1 DEF GameType
    <2>2. /\ s.status = "Result" /\ s.result = LongDelay
          /\ s.pour = Off /\ s.compare = g.compare /\ s.abandons = g.abandons
          /\ s.forced = g.forced /\ s.started = g.started /\ s.cards = g.cards
          /\ s.hasty = g.hasty
      BY DEF GameType
    <2>. HIDE DEF s
    <2>3. Course(s)
      BY <1>1, <2>1, <2>2, ClocksAreSet DEF Course, Quiet, AbandonPending
    <2>. QED  BY <1>2, <2>0, <2>2, <2>3 DEF Orderly
  <1>3. CASE EndPourScore(g) # StartResult(h)
    <2>. DEFINE s == StartPourScore(k)
    <2>1. EndPourScore(g) = s /\ Cardinality(Alive(g)) # 1
      BY <1>3 DEF EndPourScore
    <2>2. next \in Alive(g)
      BY AliveAreChairs, AfterIsChair DEF GameType
    <2>. HIDE DEF next
    <2>3. /\ s.status = "PourScore" /\ s.cur = next /\ s.pour = PourTime
          /\ s.compare = g.compare /\ s.abandons = g.abandons
          /\ s.forced = g.forced /\ s.started = g.started /\ s.cards = g.cards
          /\ s.result = g.result /\ s.settled = g.settled /\ s.hasty = g.hasty
          /\ s.playing = g.playing /\ s.loser = g.loser
      BY DEF StartPourScore, GameType
    <2>. HIDE DEF s
    <2>4. Course(s)
      BY <1>1, <2>3 DEF Course
    <2>5. Alive(s) = Alive(g) /\ Several(g) /\ PourTime # Off
      BY <2>1, <2>3, NotOneIsSeveral, ClocksAreSet DEF Alive
    <2>6. Open(s)
      BY <2>2, <2>3, <2>5 DEF Open, Quiet, AbandonPending, Several
    <2>. QED  BY <2>1, <2>3, <2>4, <2>6 DEF Orderly
  <1>. QED  BY <1>2, <1>3

-----------------------------------------------------------------------------
(* The steps keep a calm game orderly. *)

\* A new frame.
LEMMA NewGameFit ==
    Fit(NewGameFrame)
  BY DEF NewGameFrame, Fit, Orderly, Course, Quiet, AbandonPending, Off

\* A bureau starts with several players, and one of them is the first.
LEMMA StartGameFit ==
    ASSUME Good(game), Fit(game), ~UnionRoom, StartGame
    PROVE  Fit(game')
  <1>1. PICK players \in SUBSET Chairs, b \in Chairs, deal \in Deals :
          LET banker == IF game.bureau = 0 THEN b ELSE game.banker
          IN  /\ Cardinality(players) >= MinPlayers
              /\ game' = [game EXCEPT
                    !.started = TRUE, !.playing = players, !.banker = banker,
                    !.bureau = @ + 1, !.cur = After(banker, players),
                    !.status = "SendCards", !.cards = ShortDelay, !.hands = deal,
                    !.pours = [c \in Chairs |-> IF c \in players THEN 1 ELSE @[c]],
                    !.settled = 0, !.trustTask = @ \/ CanTrust]
    BY Zenon DEF StartGame
  <1>. DEFINE banker == IF game.bureau = 0 THEN b ELSE game.banker
              cur == After(banker, players)
  <1>2. game \in GameType
    BY DEF Good
  <1>3. banker \in Chairs
    BY <1>2 DEF GameType
  <1>4. Cardinality(players) >= MinPlayers /\ IsFiniteSet(players)
    <2>1. IsFiniteSet(Chairs)
      BY SzAssumption, FS_Interval DEF Chairs
    <2>. QED  BY <1>1, <2>1, FS_Subset
  <1>5. players # {} /\ \A c : players # {c}
    <2>1. Cardinality(players) # 0 /\ Cardinality(players) # 1
      BY <1>4, SzAssumption, FS_CardinalityType
    <2>. QED  BY <1>4, <2>1, FS_EmptySet, FS_Singleton
  <1>6. cur \in players
    BY <1>3, <1>5, AfterIsChair
  <1>7. /\ game'.started /\ game'.playing = players /\ game'.cur = cur
        /\ game'.status = "SendCards" /\ game'.cards = ShortDelay /\ game'.settled = 0
    BY <1>1, <1>2 DEF GameType
  <1>8. /\ game'.loser = game.loser /\ game'.pour = game.pour
        /\ game'.compare = game.compare /\ game'.abandons = game.abandons
        /\ game'.forced = game.forced /\ game'.result = game.result
        /\ game'.hasty = game.hasty
    BY <1>1, <1>2 DEF GameType
  <1>. HIDE DEF banker, cur
  <1>9. game.loser = {} /\ ~game.started
    BY DEF StartGame, Good, Ended
  <1>10. Alive(game') = players /\ Several(game')
    BY <1>5, <1>7, <1>8, <1>9 DEF Alive, Several
  <1>11. ASSUME game.hasty = 0
         PROVE  Orderly(game')
    <2>1. Course(game)
      BY <1>11 DEF Fit, Orderly
    <2>2. game.status = "None" /\ game.result = Off /\ game.pour = Off /\ Quiet(game)
      BY <1>9, <2>1 DEF Course
    <2>3. Course(game')
      BY <1>6, <1>7, <1>8, <1>10, <2>1, <2>2, ClocksAreSet DEF Course, Quiet, AbandonPending
    <2>. QED  BY <1>7, <2>3 DEF Orderly
  <1>. QED  BY <1>8, <1>11 DEF Fit

\* Fit depends on these fields only.
LEMMA SameFit ==
    ASSUME NEW g, NEW h, Fit(g),
           h.hasty = g.hasty, h.forced = g.forced, h.started = g.started,
           h.status = g.status, h.cards = g.cards, h.result = g.result,
           h.pour = g.pour, h.compare = g.compare, h.abandons = g.abandons,
           h.settled = g.settled, h.playing = g.playing, h.loser = g.loser,
           h.cur = g.cur, h.dismissed = g.dismissed
    PROVE  Fit(h)
  <1>1. /\ Quiet(h) <=> Quiet(g)
        /\ Shown(h) <=> Shown(g)
        /\ Several(h) <=> Several(g)
        /\ Alive(h) = Alive(g)
    BY DEF Quiet, Shown, OneAbandon, Several, AbandonPending, Alive
  <1>2. Course(h) <=> Course(g)
    BY <1>1 DEF Course
  <1>3. (Open(h) <=> Open(g)) /\ (Over(h) <=> Over(g))
    BY <1>1 DEF Open, Over
  <1>. QED  BY <1>2, <1>3 DEF Fit, Orderly

\* A dismissal stops the task of an open turn and no timer.
LEMMA DismissFit ==
    ASSUME NEW g \in GameType, Fit(g)
    PROVE  Fit(OnEventRoomDismiss(g))
  <1>. DEFINE h == OnEventRoomDismiss(g)
  <1>1. /\ h.hasty = g.hasty /\ h.forced = g.forced /\ h.started = g.started
        /\ h.status = g.status /\ h.cards = g.cards /\ h.result = g.result
        /\ h.pour = Off /\ h.compare = g.compare /\ h.abandons = g.abandons
        /\ h.settled = g.settled /\ h.playing = g.playing /\ h.loser = g.loser
        /\ h.cur = g.cur /\ h.dismissed
    BY DEF OnEventRoomDismiss, GameType
  <1>. HIDE DEF h
  <1>2. /\ Quiet(h) <=> Quiet(g)
        /\ Shown(h) <=> Shown(g)
        /\ Several(h) <=> Several(g)
        /\ Alive(h) = Alive(g)
    BY <1>1 DEF Quiet, Shown, OneAbandon, Several, AbandonPending, Alive
  <1>3. Course(g) => Course(h)
    BY <1>1, <1>2 DEF Course
  <1>4. (Open(g) => Open(h)) /\ (Over(g) => Over(h))
    BY <1>1, <1>2 DEF Open, Over
  <1>5. Fit(h)
    BY <1>1, <1>3, <1>4 DEF Fit, Orderly
  <1>. QED  BY <1>5 DEF h

\* Handing over to the server.
LEMMA OnGameTrustFit ==
    ASSUME NEW g \in GameType, NEW c \in Chairs, NEW on \in BOOLEAN, Fit(g), ~UnionRoom
    PROVE  Fit(OnGameTrust(g, c, on))
  <1>. DEFINE trust == IF on THEN g.trust \cup {c} ELSE g.trust \ {c}
              h == [g EXCEPT !.trust = trust]
  <1>1. OnGameTrust(g, c, on) = IF on THEN OnGameAbandon(h, c) ELSE h
    BY DEF OnGameTrust, GameType
  <1>2. trust \in SUBSET Chairs
    BY DEF GameType
  <1>. HIDE DEF trust
  <1>3. h \in GameType
    BY <1>2 DEF GameType
  <1>4. /\ h.hasty = g.hasty /\ h.forced = g.forced /\ h.started = g.started
        /\ h.status = g.status /\ h.cards = g.cards /\ h.result = g.result
        /\ h.pour = g.pour /\ h.compare = g.compare /\ h.abandons = g.abandons
        /\ h.settled = g.settled /\ h.playing = g.playing /\ h.loser = g.loser
        /\ h.cur = g.cur /\ h.dismissed = g.dismissed
    BY DEF GameType
  <1>. HIDE DEF h
  <1>5. Fit(h)
    BY <1>4, SameFit
  <1>. QED  BY <1>1, <1>3, <1>5, OnGameAbandonFit

\* Ending a turn is not an act.
LEMMA EndPourKeepsHasty ==
    ASSUME NEW g \in GameType
    PROVE  EndPourScore(g).hasty = g.hasty
  <1>. DEFINE h == [g EXCEPT !.pour = Off]
              k == [h EXCEPT !.cur = After(g.cur, Alive(g))]
  <1>1. EndPourScore(g) \in {StartResult(h), StartPourScore(k)}
    BY DEF EndPourScore
  <1>2. h.hasty = g.hasty /\ k.hasty = g.hasty
    BY DEF GameType
  <1>3. DOMAIN h = DOMAIN g /\ DOMAIN k = DOMAIN g /\ "hasty" \in DOMAIN g
    BY DEF GameType
  <1>. HIDE DEF h, k
  <1>4. StartResult(h).hasty = h.hasty
    BY <1>3 DEF StartResult
  <1>5. StartPourScore(k).hasty = k.hasty
    BY <1>3 DEF StartPourScore
  <1>. QED  BY <1>1, <1>2, <1>4, <1>5

\* The players' messages, in a room without a union.
LEMMA MessageFit ==
    ASSUME Good(game), Fit(game), ~UnionRoom, NEW c \in Chairs, ChairStep(c)
    PROVE  Fit(game')
  <1>1. game \in GameType
    BY DEF Good
  <1>2. CASE Pour(c)
    <2>1. game' = OnGamePourScore(game, c, FALSE)
      BY <1>2 DEF Pour, Shortness
    <2>2. CASE ~CanAct(game, c)
      BY <2>1, <2>2 DEF OnGamePourScore
    <2>3. CASE CanAct(game, c)
      <3>. DEFINE poured == [game.pours EXCEPT ![c] = @ + 1]
                  k == [game EXCEPT !.pours = poured, !.hasty = Hasty(game)]
      <3>1. game' = EndPourScore(k)
        BY <1>1, <2>1, <2>3 DEF OnGamePourScore, CanAct, GameType
      <3>2. poured \in Numbers /\ Hasty(game) \in Nat
        BY <1>1, HastyCounts DEF GameType, Numbers
      <3>. HIDE DEF poured
      <3>3. /\ k \in GameType /\ k.hasty = Hasty(game) /\ k.status = "PourScore"
            /\ k.forced = game.forced /\ k.started = game.started
            /\ k.cards = game.cards /\ k.result = game.result /\ k.pour = game.pour
            /\ k.compare = game.compare /\ k.abandons = game.abandons
            /\ k.settled = game.settled /\ k.playing = game.playing /\ k.loser = game.loser
        BY <1>1, <2>3, <3>2 DEF GameType, CanAct
      <3>. HIDE DEF k
      <3>4. ASSUME Hasty(game) = 0
            PROVE  Orderly(EndPourScore(k)) /\ EndPourScore(k).hasty = 0
        <4>1. Course(game) /\ Open(game) /\ game.status = "PourScore"
          BY <1>1, <2>3, <3>4, OpenTurn DEF CanAct
        <4>2. Course(k) /\ Quiet(k)
          BY <3>3, <4>1 DEF Course, Open, Quiet, AbandonPending
        <4>3. Alive(k) # {}
          BY <3>3, <4>1 DEF Alive, Open
        <4>. QED  BY <3>3, <3>4, <4>2, <4>3, EndPourScoreOrderly
      <3>5. EndPourScore(k).hasty = k.hasty
        BY <3>3, EndPourKeepsHasty
      <3>. QED  BY <3>1, <3>3, <3>4, <3>5 DEF Fit
    <2>. QED  BY <2>2, <2>3
  <1>3. CASE AskCompare(c)
    <2>1. PICK to \in Chairs : game' = Compare(game, c, to, FALSE)
      BY <1>3 DEF AskCompare, Shortness
    <2>. QED  BY <1>1, <2>1, CompareFit
  <1>4. CASE Abandon(c)
    BY <1>1, <1>4, OnGameAbandonFit DEF Abandon
  <1>5. CASE Trust(c)
    BY <1>1, <1>5, OnGameTrustFit DEF Trust
  <1>. QED  BY <1>2, <1>3, <1>4, <1>5 DEF ChairStep

\* The timer of a turn stops its task and abandons, or the turn is over already.
LEMMA TurnTimerFit ==
    ASSUME Good(game), Fit(game), ~UnionRoom, TurnTimer
    PROVE  Fit(game')
  <1>. DEFINE h == [game EXCEPT !.turn = Off]
              k == [h EXCEPT !.pour = Off]
  <1>1. game \in GameType
    BY DEF Good
  <1>2. /\ h.hasty = game.hasty /\ h.forced = game.forced /\ h.started = game.started
        /\ h.status = game.status /\ h.cards = game.cards /\ h.result = game.result
        /\ h.pour = game.pour /\ h.compare = game.compare /\ h.abandons = game.abandons
        /\ h.settled = game.settled /\ h.playing = game.playing /\ h.loser = game.loser
        /\ h.cur = game.cur /\ h.dismissed = game.dismissed
    BY <1>1 DEF GameType
  <1>3. /\ k.hasty = game.hasty /\ k.forced = game.forced /\ k.started = game.started
        /\ k.status = game.status /\ k.cards = game.cards /\ k.result = game.result
        /\ k.pour = Off /\ k.compare = game.compare /\ k.abandons = game.abandons
        /\ k.settled = game.settled /\ k.playing = game.playing /\ k.loser = game.loser
        /\ k.cur = game.cur
    BY <1>1 DEF GameType
  <1>4. k \in GameType /\ h.cur \in Chairs
    BY <1>1, ClocksAreSet DEF GameType
  <1>5. \/ game' = h
        \/ game' = OnGameAbandon(k, h.cur) /\ h.status = "PourScore"
    BY DEF TurnTimer
  <1>. HIDE DEF h, k
  <1>6. CASE game' = h
    BY <1>2, <1>6, SameFit
  <1>7. CASE game' = OnGameAbandon(k, h.cur) /\ h.status = "PourScore"
    <2>1. /\ Quiet(k) <=> Quiet(game)
          /\ Shown(k) <=> Shown(game)
          /\ Several(k) <=> Several(game)
          /\ Alive(k) = Alive(game)
          /\ Hasty(k) = Hasty(game)
      BY <1>3 DEF Quiet, Shown, OneAbandon, Several, AbandonPending, Alive, Hasty, Decided
    <2>2. Course(game) => Course(k)
      BY <1>3, <2>1 DEF Course
    <2>3. CASE CanAct(k, h.cur)
      <3>1. game'.hasty = Hasty(game)
        BY <1>4, <1>7, <2>1, <2>3, HastyCounts DEF OnGameAbandon, GameType
      <3>2. ASSUME Hasty(game) = 0
            PROVE  Orderly(game')
        <4>1. Course(game) /\ Open(game)
          BY <1>1, <1>2, <1>7, <3>2, OpenTurn
        <4>. QED  BY <1>4, <1>7, <2>1, <2>2, <2>3, <4>1, AbandonEndsTurn DEF Open
      <3>. QED  BY <3>1, <3>2 DEF Fit
    <2>4. CASE ~CanAct(k, h.cur)
      <3>1. game' = k
        BY <1>7, <2>4 DEF OnGameAbandon
      <3>2. h.cur \notin Alive(game)
        BY <1>2, <1>3, <1>7, <2>4 DEF CanAct, Alive
      <3>3. Orderly(game) => Orderly(k)
        <4>1. ASSUME Orderly(game) PROVE Course(game) /\ Over(game)
          BY <1>2, <1>7, <3>2, <4>1 DEF Orderly, Open
        <4>2. Over(game) => Over(k)
          BY <1>3, <2>1 DEF Over
        <4>. QED  BY <1>3, <2>2, <4>1, <4>2 DEF Orderly
      <3>. QED  BY <1>3, <3>1, <3>3 DEF Fit
    <2>. QED  BY <2>3, <2>4
  <1>. QED  BY <1>5, <1>6, <1>7

\* A comparison never lowers the count of hasty acts.
LEMMA CompareKeepsHasty ==
    ASSUME NEW g \in GameType, NEW from \in Chairs, NEW to \in Chairs, NEW force,
           Compare(g, from, to, force).hasty = 0
    PROVE  g.hasty = 0
  <1>. DEFINE won == g.hands[from] > g.hands[to]
              loser == g.loser \cup {IF won THEN to ELSE from}
              poured == [g.pours EXCEPT ![from] = @ + 1]
              forced == force /\ (won \/ from = to)
              h == [g EXCEPT !.loser = loser, !.pour = Off]
              k == [h EXCEPT !.pours = poured, !.compare = LongDelay,
                             !.forced = forced, !.hasty = Hasty(g)]
  <1>1. Compare(g, from, to, force) \in {g, h, k}
    BY DEF Compare, GameType
  <1>. HIDE DEF loser, poured, forced
  <1>2. h.hasty = g.hasty /\ k.hasty = Hasty(g)
    BY DEF GameType
  <1>3. Hasty(g) = 0 => g.hasty = 0
    BY DEF Hasty, GameType
  <1>. HIDE DEF h, k
  <1>. QED  BY <1>1, <1>2, <1>3

\* A comparison that was shown ends the turn.
LEMMA CompareTimerFit ==
    ASSUME Good(game), Fit(game), ~UnionRoom, CompareTimer
    PROVE  Fit(game')
  <1>. DEFINE h == [game EXCEPT !.compare = Off, !.forced = FALSE]
  <1>1. game \in GameType
    BY DEF Good
  <1>2. /\ h.hasty = game.hasty /\ ~h.forced /\ h.started = game.started
        /\ h.status = game.status /\ h.cards = game.cards /\ h.result = game.result
        /\ h.pour = game.pour /\ h.compare = Off /\ h.abandons = game.abandons
        /\ h.settled = game.settled /\ h.playing = game.playing /\ h.loser = game.loser
    BY <1>1 DEF GameType
  <1>3. h \in GameType
    BY <1>1, ClocksAreSet DEF GameType
  <1>4. ~game.forced => game' = EndPourScore(h)
    BY DEF CompareTimer
  <1>5. game'.hasty = 0 => game.hasty = 0
    <2>. DEFINE k == [h EXCEPT !.pour = Off]
    <2>1. \/ \E d \in h.playing \ {h.cur} : game' = Compare(k, h.cur, d, TRUE)
          \/ game' = EndPourScore(h)
      BY Zenon DEF CompareTimer
    <2>2. k \in GameType /\ k.hasty = game.hasty
      BY <1>1, ClocksAreSet DEF GameType
    <2>3. h.cur \in Chairs /\ h.playing \subseteq Chairs
      BY <1>3 DEF GameType
    <2>. HIDE DEF h, k
    <2>4. CASE game' = EndPourScore(h)
      BY <1>2, <1>3, <2>4, EndPourKeepsHasty
    <2>5. ASSUME NEW d \in h.playing \ {h.cur}, game' = Compare(k, h.cur, d, TRUE)
          PROVE  game'.hasty = 0 => game.hasty = 0
      <3>1. d \in Chairs
        BY <2>3
      <3>. QED  BY <2>2, <2>3, <2>5, <3>1, CompareKeepsHasty
    <2>. QED  BY <2>1, <2>4, <2>5
  <1>6. game.compare # Off
    BY DEF CompareTimer, Off
  <1>. HIDE DEF h
  <1>7. ASSUME game.hasty = 0
        PROVE  Orderly(game')
    <2>1. Course(game) /\ game.status = "PourScore" /\ Over(game)
      BY <1>6, <1>7 DEF Fit, Orderly, Course, Open, Quiet
    <2>2. ~AbandonPending(game)
      BY <1>6, <2>1 DEF Over, Shown
    <2>3. Course(h) /\ Quiet(h) /\ Alive(h) # {}
      BY <1>2, <2>1, <2>2 DEF Course, Quiet, AbandonPending, Over, Alive
    <2>4. game' = EndPourScore(h)
      BY <1>4, <2>1 DEF Course
    <2>. QED  BY <1>2, <1>3, <2>1, <2>3, <2>4, EndPourScoreOrderly
  <1>. QED  BY <1>5, <1>7 DEF Fit

\* Taking the only abandon that is due leaves none.
LEMMA OneLess ==
    ASSUME NEW f \in Pending, f[0] > 0
    PROVE  LET less == [f EXCEPT ![0] = @ - 1]
           IN  /\ less \in Pending
               /\ (f[0] = 1 /\ \A j \in (0 .. ShortDelay) \ {0} : f[j] = 0)
                      => \A i \in 0 .. ShortDelay : less[i] = 0
  <1>1. f \in [0 .. ShortDelay -> Nat] /\ 0 \in 0 .. ShortDelay
    BY SzAssumption DEF Pending
  <1>2. f[0] - 1 \in Nat
    BY <1>1
  <1>. QED  BY <1>1, <1>2 DEF Pending

\* An abandon that was shown ends the turn.
LEMMA AbandonTimerFit ==
    ASSUME Good(game), Fit(game), ~UnionRoom, AbandonTimer
    PROVE  Fit(game')
  <1>. DEFINE abandons == [game.abandons EXCEPT ![0] = @ - 1]
              h == [game EXCEPT !.abandons = abandons]
  <1>1. game \in GameType
    BY DEF Good
  <1>2. abandons \in Pending
    <2>1. game.abandons \in Pending /\ game.abandons[0] > 0
      BY <1>1 DEF AbandonTimer, GameType
    <2>. QED  BY <2>1, OneLess
  <1>3. game' = EndPourScore(h)
    BY <1>1 DEF AbandonTimer, GameType
  <1>4. 0 \in 0 .. ShortDelay /\ game.abandons[0] > 0 /\ AbandonPending(game)
    BY SzAssumption DEF AbandonTimer, AbandonPending
  <1>5. OneAbandon(game) => \A i \in 0 .. ShortDelay : abandons[i] = 0
    <2>1. game.abandons \in Pending
      BY <1>1 DEF GameType
    <2>2. ASSUME OneAbandon(game)
          PROVE  game.abandons[0] = 1 /\ \A j \in (0 .. ShortDelay) \ {0} : game.abandons[j] = 0
      BY <1>4, <2>2 DEF OneAbandon
    <2>. QED  BY <1>4, <2>1, <2>2, OneLess
  <1>. HIDE DEF abandons
  <1>6. /\ h.hasty = game.hasty /\ h.forced = game.forced /\ h.started = game.started
        /\ h.status = game.status /\ h.cards = game.cards /\ h.result = game.result
        /\ h.pour = game.pour /\ h.compare = game.compare /\ h.abandons = abandons
        /\ h.settled = game.settled /\ h.playing = game.playing /\ h.loser = game.loser
    BY <1>1 DEF GameType
  <1>7. h \in GameType
    BY <1>1, <1>2 DEF GameType
  <1>. HIDE DEF h
  <1>8. game'.hasty = game.hasty
    BY <1>3, <1>6, <1>7, EndPourKeepsHasty
  <1>9. ASSUME game.hasty = 0
        PROVE  Orderly(game')
    <2>1. Course(game) /\ game.status = "PourScore" /\ Over(game)
      BY <1>4, <1>9 DEF Fit, Orderly, Course, Open, Quiet
    <2>2. game.compare = Off /\ OneAbandon(game)
      BY <1>4, <2>1 DEF Over, Shown
    <2>3. Course(h) /\ Quiet(h) /\ Alive(h) # {}
      BY <1>5, <1>6, <2>1, <2>2 DEF Course, Quiet, AbandonPending, Over, Alive
    <2>. QED  BY <1>3, <1>6, <1>7, <2>1, <2>3, EndPourScoreOrderly
  <1>. QED  BY <1>8, <1>9 DEF Fit

\* The cards are sent and the first turn opens.
LEMMA CardsTimerFit ==
    ASSUME Good(game), Fit(game), ~UnionRoom, CardsTimer
    PROVE  Fit(game')
  <1>1. game \in GameType
    BY DEF Good
  <1>2. /\ game'.status = "PourScore" /\ game'.pour = PourTime /\ game'.cards = Off
        /\ game'.hasty = game.hasty /\ game'.forced = game.forced
        /\ game'.started = game.started /\ game'.result = game.result
        /\ game'.compare = game.compare /\ game'.abandons = game.abandons
        /\ game'.settled = game.settled /\ game'.playing = game.playing
        /\ game'.loser = game.loser /\ game'.cur = game.cur
    BY <1>1 DEF CardsTimer, StartPourScore, GameType
  <1>3. game.cards # Off /\ PourTime # Off
    BY ClocksAreSet DEF CardsTimer, Off
  <1>4. ASSUME game.hasty = 0
        PROVE  Orderly(game')
    <2>1. /\ Course(game) /\ game.status = "SendCards" /\ Quiet(game)
          /\ Several(game) /\ game.cur \in Alive(game) /\ game.result = Off
      BY <1>3, <1>4 DEF Fit, Orderly, Course
    <2>2. Course(game')
      BY <1>2, <2>1 DEF Course
    <2>3. Open(game')
      BY <1>2, <1>3, <2>1 DEF Open, Quiet, AbandonPending, Several, Alive
    <2>. QED  BY <2>2, <2>3 DEF Orderly
  <1>. QED  BY <1>2, <1>4 DEF Fit

\* The result was shown and the bureau ends.
LEMMA ResultTimerFit ==
    ASSUME Good(game), Fit(game), ~UnionRoom, ResultTimer
    PROVE  Fit(game')
  <1>. DEFINE g == [game EXCEPT !.result = Off]
              h == [g EXCEPT !.status = "None", !.pours = Zero, !.loser = {},
                             !.short = {}, !.banker = g.heir]
              t == [h EXCEPT !.started = FALSE, !.playing = {}]
  <1>1. game \in GameType
    BY DEF Good
  <1>2. game' = IF ~g.started THEN h
                ELSE IF g.bureau >= MaxBureau /\ ~g.dismissed THEN OnEventRoomDismiss(t)
                ELSE t
    BY DEF ResultTimer, EndResult
  <1>3. t \in GameType
    <2>1. Zero \in Numbers
      BY DEF Zero, Numbers
    <2>. QED  BY <1>1, <2>1, ClocksAreSet DEF GameType, GameStatus
  <1>4. g.started = game.started /\ h.hasty = game.hasty
    BY <1>1 DEF GameType
  <1>5. /\ t.status = "None" /\ ~t.started /\ t.result = Off /\ t.hasty = game.hasty
        /\ t.pour = game.pour /\ t.cards = game.cards /\ t.forced = game.forced
        /\ t.compare = game.compare /\ t.abandons = game.abandons
        /\ t.settled = game.settled
    BY <1>1 DEF GameType
  <1>. HIDE DEF g, h, t
  <1>6. game.result # Off
    BY DEF ResultTimer, Off
  <1>7. ASSUME game.hasty = 0
        PROVE  Orderly(t) /\ game.started
    <2>1. Course(game) /\ game.status = "Result" /\ game.started
      BY <1>6, <1>7 DEF Fit, Orderly, Course
    <2>2. Course(t)
      BY <1>5, <2>1 DEF Course, Quiet, AbandonPending
    <2>. QED  BY <1>5, <2>1, <2>2 DEF Orderly
  <1>8. Fit(t) /\ Fit(OnEventRoomDismiss(t))
    BY <1>3, <1>5, <1>7, DismissFit DEF Fit
  <1>9. CASE game.hasty = 0
    BY <1>2, <1>4, <1>7, <1>8, <1>9
  <1>10. CASE game.hasty # 0
    BY <1>2, <1>4, <1>8, <1>10 DEF Fit
  <1>. QED  BY <1>9, <1>10

\* A second passes: what is pending stays pending, one second nearer.
LEMMA SecondFit ==
    ASSUME Good(game), Fit(game), Second
    PROVE  Fit(game')
  <1>. DEFINE T == 0 .. ShortDelay
              later == [i \in T |-> IF i = ShortDelay THEN 0 ELSE game.abandons[i + 1]]
  <1>1. game \in GameType
    BY DEF Good
  <1>2. /\ game'.hasty = game.hasty /\ game'.forced = game.forced
        /\ game'.started = game.started /\ game'.status = game.status
        /\ game'.settled = game.settled /\ game'.playing = game.playing
        /\ game'.loser = game.loser /\ game'.cur = game.cur
        /\ game'.dismissed = game.dismissed /\ game'.abandons = later
    BY <1>1 DEF Second, GameType
  <1>3. /\ game'.cards = Earlier(game.cards) /\ game'.result = Earlier(game.result)
        /\ game'.compare = Earlier(game.compare)
        /\ game'.pour \in {game.pour, Earlier(game.pour)}
    BY <1>1 DEF Second, GameType
  <1>4. \A d \in Nat : \A x \in Clock(d) : Earlier(x) = Off <=> x = Off
    BY DEF Clock, Earlier, Off
  <1>5. /\ game'.cards = Off <=> game.cards = Off
        /\ game'.result = Off <=> game.result = Off
        /\ game'.compare = Off <=> game.compare = Off
        /\ game'.pour = Off <=> game.pour = Off
    BY <1>1, <1>3, <1>4, ClocksAreSet DEF GameType
  <1>6. game.abandons \in [T -> Nat] /\ game.abandons[0] = 0 /\ ShortDelay \in Nat \ {0}
    BY <1>1, SzAssumption DEF Second, GameType, Pending
  <1>7. ~AbandonPending(game) => ~AbandonPending(game')
    BY <1>2, <1>6 DEF AbandonPending
  <1>8. OneAbandon(game) => OneAbandon(game')
    <2>1. ASSUME NEW i \in T, game.abandons[i] = 1,
                 \A j \in T \ {i} : game.abandons[j] = 0
          PROVE  OneAbandon(game')
      <3>1. i # 0 /\ i - 1 \in T
        BY <1>6, <2>1
      <3>2. later[i - 1] = 1
        BY <1>6, <2>1, <3>1
      <3>3. \A j \in T \ {i - 1} : later[j] = 0
        BY <1>6, <2>1, <3>1
      <3>. QED  BY <1>2, <3>1, <3>2, <3>3 DEF OneAbandon
    <2>. QED  BY <2>1 DEF OneAbandon
  <1>9. Alive(game') = Alive(game) /\ (Several(game) => Several(game'))
    BY <1>2 DEF Alive, Several
  <1>. HIDE DEF later
  <1>10. (Quiet(game) => Quiet(game')) /\ (Shown(game) => Shown(game'))
    BY <1>5, <1>7, <1>8 DEF Quiet, Shown
  <1>11. Course(game) => Course(game')
    BY <1>2, <1>5, <1>9, <1>10 DEF Course
  <1>12. (Open(game) => Open(game')) /\ (Over(game) => Over(game'))
    BY <1>2, <1>5, <1>9, <1>10 DEF Open, Over
  <1>. QED  BY <1>2, <1>11, <1>12 DEF Fit, Orderly

\* Every step keeps a game fit.
LEMMA StepFit ==
    ASSUME Good(game), Fit(game), [Next]_vars
    PROVE  Fit(game')
  <1>1. CASE UnionRoom
    BY <1>1 DEF Fit
  <1>2. CASE ~UnionRoom
    <2>1. game \in GameType /\ game.cur \in Chairs
      BY DEF Good, GameType
    <2>2. CASE StartGame
      BY <1>2, <2>2, StartGameFit
    <2>3. CASE Vote
      <3>1. /\ game'.hasty = game.hasty /\ game'.forced = game.forced
            /\ game'.started = game.started /\ game'.status = game.status
            /\ game'.cards = game.cards /\ game'.result = game.result
            /\ game'.pour = game.pour /\ game'.compare = game.compare
            /\ game'.abandons = game.abandons /\ game'.settled = game.settled
            /\ game'.playing = game.playing /\ game'.loser = game.loser
            /\ game'.cur = game.cur /\ game'.dismissed = game.dismissed
        BY <2>1, <2>3 DEF Vote, GameType
      <3>. QED  BY <3>1, SameFit
    <2>4. CASE Dismiss
      BY <2>1, <2>4, DismissFit DEF Dismiss
    <2>5. CASE \E c \in Chairs : ChairStep(c)
      BY <1>2, <2>5, MessageFit
    <2>6. CASE TrustTask
      <3>1. game' = OnGameTrust(game, game.cur, TRUE)
        BY <2>6 DEF TrustTask
      <3>. QED  BY <1>2, <2>1, <3>1, OnGameTrustFit
    <2>7. CASE PourTick
      BY <1>2, <2>1, <2>7, OnGameAbandonFit DEF PourTick
    <2>8. CASE CardsTimer
      BY <1>2, <2>8, CardsTimerFit
    <2>9. CASE TurnTimer
      BY <1>2, <2>9, TurnTimerFit
    <2>10. CASE CompareTimer
      BY <1>2, <2>10, CompareTimerFit
    <2>11. CASE AbandonTimer
      BY <1>2, <2>11, AbandonTimerFit
    <2>12. CASE ResultTimer
      BY <1>2, <2>12, ResultTimerFit
    <2>13. CASE Second
      BY <2>13, SecondFit
    <2>14. CASE UNCHANGED vars
      BY <2>14 DEF vars
    <2>. QED
      BY <2>2, <2>3, <2>4, <2>5, <2>6, <2>7, <2>8, <2>9, <2>10, <2>11, <2>12, <2>13, <2>14
      DEF Next, TimerStep
  <1>. QED  BY <1>1, <1>2

\* SzInv is an invariant: a calm game is orderly in every state.
THEOREM AlwaysOrderly ==
    Spec => []SzInv
  <1>1. Init => SzInv
    BY NewGameGood, NewGameFit DEF Init, SzInv
  <1>2. SzInv /\ [Next]_vars => SzInv'
    BY StepGood, StepFit DEF SzInv
  <1>. QED  BY <1>1, <1>2, PTL DEF Spec

\* The frame has its type, for all values of the constants.
THEOREM TypeCorrect ==
    Spec => []TypeOK
  <1>1. SzInv => TypeOK
    BY DEF SzInv, Good, TypeOK
  <1>. QED  BY <1>1, AlwaysOrderly, PTL

\* What the invariant says of a calm game.
LEMMA CalmIsOrderly ==
    ASSUME SzInv, Calm
    PROVE  game \in GameType /\ Orderly(game)
  BY DEF SzInv, Good, Fit, Calm

\* Every stage has its timer, and a turn of a calm game exactly one way to end.
THEOREM StagesAreTimed ==
    Spec => []StageIsTimed
  <1>1. SzInv => StageIsTimed
    <2>1. Open(game) => ~Decided(game) /\ (game.pour # Off \/ game.dismissed)
      BY DEF Open, Quiet, Decided
    <2>2. ASSUME SzInv, Over(game)
          PROVE  /\ Decided(game) /\ game.pour = Off
                 /\ ~(game.compare # Off /\ AbandonPending(game))
      BY <2>2 DEF Over, Shown, Decided, OneAbandon, AbandonPending
    <2>. QED  BY <2>1, <2>2, CalmIsOrderly DEF StageIsTimed, SzInv, Good, Staged, Orderly, Open, Quiet
  <1>. QED  BY <1>1, AlwaysOrderly, PTL

\* A calm bureau never loses its last player before the result.
THEOREM WinnersRemain ==
    Spec => []WinnerRemains
  <1>1. SzInv => WinnerRemains
    BY CalmIsOrderly DEF WinnerRemains, Orderly, Course, Open, Over
  <1>. QED  BY <1>1, AlwaysOrderly, PTL

\* A calm bureau is settled at most once.
THEOREM BureausSettleOnce ==
    Spec => []SettledOnce
  <1>1. SzInv => SettledOnce
    BY CalmIsOrderly DEF SettledOnce, Orderly, Course
  <1>. QED  BY <1>1, AlwaysOrderly, PTL

-----------------------------------------------------------------------------
(* The order of the turns. *)

\* The turn in which a chair acts: the first after the banker is the first,
\* the banker is the last.
Place(g, c) == Round!Distance(g.banker, c)

\* In round k those before the turn have poured for it and the others have
\* not; the one whose turn it is has if he acted and is still in.
InStep(g, k, acted) ==
    /\ \A c \in Alive(g) :
          g.pours[c] = IF Place(g, c) < Place(g, g.cur) \/ (acted /\ c = g.cur)
                       THEN k + 1 ELSE k
    /\ \A c \in Chairs : g.pours[c] <= k + 1

\* The rounds of a bureau, from the deal to its end.
Rounded(g) ==
    /\ g.status = "None" => g.pours = Zero
    /\ g.status \in {"SendCards", "PourScore"} => \E k \in Nat : InStep(g, k, Decided(g))
    /\ g.status = "Result" => \A c, d \in Alive(g) : g.pours[c] <= g.pours[d] + 1

RoundInv == SzInv /\ (Calm => Rounded(game))

(* The moves, from a game g to a game h. *)

IsOpen(g) == g.status = "PourScore" /\ ~Decided(g)
IsClosed(g) == g.status = "PourScore" /\ Decided(g)

\* Nothing that SzRound sees has changed.
Rests(g, h) ==
    /\ h.status = g.status /\ h.cur = g.cur /\ h.banker = g.banker
    /\ h.pours = g.pours /\ h.settled = g.settled
    /\ Alive(h) = Alive(g) /\ (Decided(h) <=> Decided(g))

\* A player compares, and one loses, when the result is already shown.
ComparesLate(g, h) ==
    /\ g.status = "Result" /\ h.status = "Result"
    /\ h.cur = g.cur /\ h.pours = g.pours /\ h.settled = g.settled
    /\ Alive(h) \subseteq Alive(g)

DealsIn(g, h) ==
    /\ g.status = "None" /\ h.status = "SendCards" /\ ~Decided(h)
    /\ Alive(h) \subseteq Chairs /\ Cardinality(Alive(h)) >= MinPlayers
    /\ h.banker \in Chairs /\ h.cur = After(h.banker, Alive(h))
    /\ h.pours = [c \in Chairs |-> IF c \in Alive(h) THEN 1 ELSE g.pours[c]]
    /\ h.settled = 0

Begins(g, h) ==
    /\ g.status = "SendCards" /\ ~Decided(g) /\ IsOpen(h)
    /\ h.cur = g.cur /\ h.banker = g.banker /\ h.pours = g.pours
    /\ h.settled = g.settled /\ Alive(h) = Alive(g)

\* The turn goes on with those who have poured as p says, or the result is shown.
PassesOn(g, p, h) ==
    /\ h.banker = g.banker /\ h.pours = p /\ Alive(g) # {}
    /\ \/ /\ IsOpen(h) /\ Cardinality(Alive(g)) # 1 /\ Alive(h) = Alive(g)
          /\ h.cur = After(g.cur, Alive(g)) /\ h.settled = g.settled
       \/ /\ h.status = "Result" /\ Alive(h) \subseteq Alive(g)
          /\ h.cur = g.cur /\ h.settled = g.settled + 1
          /\ \/ Cardinality(Alive(g)) = 1
             \/ g.cur = LastChair(g) /\ \E c \in Chairs : p[c] > MaxRound

OneMore(g) == [g.pours EXCEPT ![g.cur] = @ + 1]

Bets(g, h) == IsOpen(g) /\ g.cur \in Alive(g) /\ PassesOn(g, OneMore(g), h)

\* The player whose turn it is gives up, or compares and one of two is out.
Drops(g, h) ==
    /\ IsOpen(g) /\ IsClosed(h) /\ g.cur \in Alive(g)
    /\ h.cur = g.cur /\ h.banker = g.banker /\ h.settled = g.settled
    /\ \E c \in Alive(g) :
          /\ Alive(h) = Alive(g) \ {c}
          /\ (h.pours = g.pours /\ c = g.cur) \/ h.pours = OneMore(g)

Resolves(g, h) == IsClosed(g) /\ PassesOn(g, g.pours, h)

Ends(g, h) ==
    /\ g.status = "Result" /\ h.status = "None"
    /\ h.cur = g.cur /\ h.pours = Zero /\ h.settled = g.settled

Move(g, h) ==
    \/ Rests(g, h) \/ ComparesLate(g, h) \/ DealsIn(g, h) \/ Begins(g, h)
    \/ Bets(g, h) \/ Drops(g, h) \/ Resolves(g, h) \/ Ends(g, h)

-----------------------------------------------------------------------------
(* Chairs around the table. *)

\* Counting on from a chair by what another one is away leads to the other.
LEMMA DistanceLeads ==
    ASSUME NEW c \in Chairs, NEW d \in Chairs
    PROVE  /\ Round!Distance(c, d) \in 1 .. ChairCount
           /\ (c + Round!Distance(c, d)) % ChairCount = d
           /\ \A i \in 1 .. ChairCount : (c + i) % ChairCount = d => i = Round!Distance(c, d)
  <1>1. c \in 0 .. (ChairCount - 1) /\ d \in 0 .. (ChairCount - 1) /\ ChairCount \in Nat \ {0}
    BY SzAssumption DEF Chairs
  <1>2. Round!Distance(c, d) = IF d > c THEN d - c ELSE d - c + ChairCount
    BY DEF Round!Distance
  <1>3. CASE d > c
    BY <1>1, <1>2, <1>3
  <1>4. CASE d <= c
    BY <1>1, <1>2, <1>4
  <1>. QED  BY <1>1, <1>3, <1>4

\* The chair whose turn is next is the nearest one.
LEMMA AfterFollows ==
    ASSUME NEW c \in Chairs, NEW S \in SUBSET Chairs, S # {}
    PROVE  Round!Follows(c, After(c, S), S)
  <1>. DEFINE T == {i \in 1 .. ChairCount : (c + i) % ChairCount \in S}
              n == Min(T)
  <1>1. \A e \in S : Round!Distance(c, e) \in T
    BY DistanceLeads
  <1>2. T \in SUBSET Nat /\ T # {}
    BY <1>1, SzAssumption
  <1>3. n \in T /\ \A i \in T : n <= i
    BY <1>2, LeastNumber
  <1>4. After(c, S) = (c + n) % ChairCount
    BY DEF After
  <1>. HIDE DEF n
  <1>5. After(c, S) \in S /\ n = Round!Distance(c, After(c, S))
    BY <1>3, <1>4, DistanceLeads
  <1>. QED  BY <1>1, <1>3, <1>5 DEF Round!Follows

\* The last to act in a round is the one who sits farthest from the banker.
LEMMA LastChairIsLast ==
    ASSUME NEW g \in GameType, Alive(g) # {}
    PROVE  /\ LastChair(g) \in Alive(g)
           /\ \A e \in Alive(g) : Place(g, e) <= Place(g, LastChair(g))
  <1>. DEFINE b == g.banker
              S == Alive(g)
              T == {i \in 0 .. (ChairCount - 1) : (b - i + ChairCount) % ChairCount \in S}
              n == Min(T)
              last == (b - n + ChairCount) % ChairCount
  <1>1. b \in Chairs /\ S \in SUBSET Chairs
    BY AliveAreChairs DEF GameType
  <1>2. ChairCount \in Nat \ {0}
    BY SzAssumption
  <1>3. \A i \in 0 .. (ChairCount - 1) :
            /\ (b - i + ChairCount) % ChairCount \in Chairs
            /\ Round!Distance(b, (b - i + ChairCount) % ChairCount) = ChairCount - i
    <2>. SUFFICES ASSUME NEW i \in 0 .. (ChairCount - 1)
                  PROVE  /\ (b - i + ChairCount) % ChairCount \in Chairs
                         /\ Round!Distance(b, (b - i + ChairCount) % ChairCount) = ChairCount - i
      OBVIOUS
    <2>1. CASE i <= b
      <3>1. (b - i + ChairCount) % ChairCount = b - i
        BY <1>1, <1>2, <2>1 DEF Chairs
      <3>. QED  BY <1>1, <1>2, <2>1, <3>1 DEF Chairs, Round!Distance
    <2>2. CASE i > b
      <3>1. (b - i + ChairCount) % ChairCount = b - i + ChairCount
        BY <1>1, <1>2, <2>2 DEF Chairs
      <3>. QED  BY <1>1, <1>2, <2>2, <3>1 DEF Chairs, Round!Distance
    <2>. QED  BY <1>1, <1>2, <2>1, <2>2 DEF Chairs
  <1>4. \A e \in S : ChairCount - Round!Distance(b, e) \in T
    <2>. SUFFICES ASSUME NEW e \in S
                  PROVE  ChairCount - Round!Distance(b, e) \in T
      OBVIOUS
    <2>. DEFINE x == Round!Distance(b, e)
    <2>1. x \in 1 .. ChairCount /\ (b + x) % ChairCount = e
      BY <1>1, DistanceLeads
    <2>. HIDE DEF x
    <2>2. b - (ChairCount - x) + ChairCount = b + x
      BY <1>1, <1>2, <2>1 DEF Chairs
    <2>3. ChairCount - x \in T
      BY <1>2, <2>1, <2>2
    <2>. QED  BY <2>3 DEF x
  <1>5. T \in SUBSET Nat /\ T # {}
    BY <1>2, <1>4
  <1>6. n \in T /\ \A i \in T : n <= i
    BY <1>5, LeastNumber
  <1>7. LastChair(g) = last
    BY DEF LastChair
  <1>. HIDE DEF n
  <1>8. last \in S /\ Round!Distance(b, last) = ChairCount - n
    BY <1>3, <1>6
  <1>9. ASSUME NEW e \in S
        PROVE  Round!Distance(b, e) \in Int /\ n <= ChairCount - Round!Distance(b, e)
    <2>1. Round!Distance(b, e) \in 1 .. ChairCount
      BY <1>1, DistanceLeads
    <2>2. ChairCount - Round!Distance(b, e) \in T
      BY <1>4
    <2>. QED  BY <1>6, <2>1, <2>2
  <1>. HIDE DEF last, T
  <1>. QED  BY <1>2, <1>6, <1>7, <1>8, <1>9 DEF Place, T

\* The turn either passes to the next place in the round, and nobody who is
\* left sits between, or it passes the banker and all have had their turn.
LEMMA TurnPassesOn ==
    ASSUME NEW b \in Chairs, NEW c \in Chairs, NEW n \in Chairs,
           NEW S \in SUBSET Chairs, Round!Follows(c, n, S)
    PROVE  \/ \A e \in S : Round!Distance(b, e) < Round!Distance(b, n)
                             <=> Round!Distance(b, e) <= Round!Distance(b, c)
           \/ \A e \in S : /\ Round!Distance(b, e) <= Round!Distance(b, c)
                           /\ Round!Distance(b, n) <= Round!Distance(b, e)
  <1>1. ChairCount \in Nat \ {0}
    BY SzAssumption
  <1>2. CASE Round!Distance(b, n) > Round!Distance(b, c)
    BY <1>1, <1>2 DEF Chairs, Round!Follows, Round!Distance
  <1>3. CASE ~(Round!Distance(b, n) > Round!Distance(b, c))
    BY <1>1, <1>3 DEF Chairs, Round!Follows, Round!Distance
  <1>. QED  BY <1>2, <1>3

\* Chairs with the same distance from one chair are the same.
LEMMA PlacesDiffer ==
    ASSUME NEW b \in Chairs, NEW c \in Chairs, NEW d \in Chairs
    PROVE  Round!Distance(b, c) = Round!Distance(b, d) <=> c = d
  BY SzAssumption DEF Chairs, Round!Distance

-----------------------------------------------------------------------------
(* The operators make moves. *)

\* What is not seen may change first.
LEMMA RestThenMove ==
    ASSUME NEW g, NEW k, NEW h, Rests(g, k), Move(k, h)
    PROVE  Move(g, h)
  <1>1. LastChair(k) = LastChair(g) /\ OneMore(k) = OneMore(g)
    BY DEF Rests, LastChair, OneMore
  <1>2. \A p : PassesOn(k, p, h) => PassesOn(g, p, h)
    BY <1>1 DEF Rests, PassesOn
  <1>3. (IsOpen(k) <=> IsOpen(g)) /\ (IsClosed(k) <=> IsClosed(g))
    BY DEF Rests, IsOpen, IsClosed
  <1>4. Rests(k, h) => Rests(g, h)
    BY DEF Rests
  <1>5. ComparesLate(k, h) => ComparesLate(g, h)
    BY DEF Rests, ComparesLate
  <1>6. DealsIn(k, h) => DealsIn(g, h)
    BY DEF Rests, DealsIn
  <1>7. Begins(k, h) => Begins(g, h)
    BY DEF Rests, Begins
  <1>8. Bets(k, h) => Bets(g, h)
    BY <1>1, <1>2, <1>3 DEF Rests, Bets
  <1>9. Drops(k, h) => Drops(g, h)
    BY <1>1, <1>3 DEF Rests, Drops
  <1>10. Resolves(k, h) => Resolves(g, h)
    BY <1>2, <1>3 DEF Rests, Resolves
  <1>11. Ends(k, h) => Ends(g, h)
    BY DEF Rests, Ends
  <1>. QED
    BY <1>4, <1>5, <1>6, <1>7, <1>8, <1>9, <1>10, <1>11 DEF Move

\* An act that is not hasty finds no turn that is over.
LEMMA NotHasty ==
    ASSUME NEW g \in GameType, Hasty(g) = 0
    PROVE  g.hasty = 0 /\ ~Decided(g)
  BY DEF Hasty, GameType

\* An abandon, if it is one, drops the player whose turn it is.
LEMMA AbandonMoves ==
    ASSUME NEW g \in GameType, NEW c \in Chairs, OnGameAbandon(g, c).hasty = 0
    PROVE  Move(g, OnGameAbandon(g, c)) /\ g.hasty = 0
  <1>. DEFINE loser == g.loser \cup {c}
              abandons == [g.abandons EXCEPT ![ShortDelay] = @ + 1]
              h == [g EXCEPT !.pour = Off, !.loser = loser,
                             !.abandons = abandons, !.hasty = Hasty(g)]
  <1>1. CASE ~CanAct(g, c)
    BY <1>1 DEF OnGameAbandon, Move, Rests
  <1>2. CASE CanAct(g, c)
    <2>1. OnGameAbandon(g, c) = h
      BY <1>2 DEF OnGameAbandon, GameType
    <2>2. ShortDelay \in 0 .. ShortDelay /\ abandons[ShortDelay] > 0
      BY SzAssumption DEF GameType, Pending
    <2>. HIDE DEF loser, abandons
    <2>3. /\ h.status = g.status /\ h.cur = g.cur /\ h.banker = g.banker
          /\ h.pours = g.pours /\ h.settled = g.settled /\ h.hasty = Hasty(g)
          /\ h.abandons = abandons /\ h.loser = loser /\ h.playing = g.playing
      BY DEF GameType
    <2>. HIDE DEF h
    <2>4. g.hasty = 0 /\ ~Decided(g)
      BY <2>1, <2>3, NotHasty
    <2>5. Decided(h)
      BY <2>2, <2>3 DEF Decided, AbandonPending
    <2>6. c \in Alive(g) /\ Alive(h) = Alive(g) \ {c} /\ g.cur = c /\ g.status = "PourScore"
      BY <1>2, <2>3 DEF CanAct, Alive, loser
    <2>7. Drops(g, h)
      BY <2>3, <2>4, <2>5, <2>6 DEF Drops, IsOpen, IsClosed
    <2>. QED  BY <2>1, <2>4, <2>7 DEF Move
  <1>. QED  BY <1>1, <1>2

\* A comparison by message is a drop, or it is late.
LEMMA CompareMoves ==
    ASSUME NEW g \in GameType, NEW from \in Chairs, NEW to \in Chairs,
           Compare(g, from, to, FALSE).hasty = 0
    PROVE  Move(g, Compare(g, from, to, FALSE)) /\ g.hasty = 0
  <1>. DEFINE won == g.hands[from] > g.hands[to]
              beaten == IF won THEN to ELSE from
              loser == g.loser \cup {beaten}
              poured == [g.pours EXCEPT ![from] = @ + 1]
              h == [g EXCEPT !.loser = loser, !.pour = Off]
              k == [h EXCEPT !.pours = poured, !.compare = LongDelay,
                             !.forced = FALSE, !.hasty = Hasty(g)]
  <1>1. CASE ~(from \in Alive(g) /\ to \in Alive(g)) \/ (~CanAct(g, from) /\ g.status # "Result")
    BY <1>1 DEF Compare, Move, Rests
  <1>2. CASE from \in Alive(g) /\ to \in Alive(g) /\ CanAct(g, from)
    <2>1. Compare(g, from, to, FALSE) = k
      BY <1>2 DEF Compare, GameType
    <2>2. g.status = "PourScore" /\ g.cur = from /\ LongDelay # Off /\ beaten \in Alive(g)
      BY <1>2, ClocksAreSet DEF CanAct
    <2>3. poured = OneMore(g)
      BY <2>2 DEF OneMore
    <2>. HIDE DEF poured, beaten
    <2>4. /\ k.status = g.status /\ k.cur = g.cur /\ k.banker = g.banker
          /\ k.pours = poured /\ k.settled = g.settled /\ k.hasty = Hasty(g)
          /\ k.compare = LongDelay /\ k.loser = loser /\ k.playing = g.playing
      BY DEF GameType
    <2>5. Alive(k) = Alive(g) \ {beaten}
      BY <2>4 DEF Alive
    <2>. HIDE DEF h, k, loser
    <2>6. g.hasty = 0 /\ ~Decided(g)
      BY <2>1, <2>4, NotHasty
    <2>7. Drops(g, k)
      BY <1>2, <2>2, <2>3, <2>4, <2>5, <2>6 DEF Drops, IsOpen, IsClosed, Decided
    <2>. QED  BY <2>1, <2>6, <2>7 DEF Move
  <1>3. CASE from \in Alive(g) /\ to \in Alive(g) /\ ~CanAct(g, from) /\ g.status = "Result"
    <2>1. Compare(g, from, to, FALSE) = h
      BY <1>3 DEF Compare
    <2>. HIDE DEF loser
    <2>2. /\ h.status = g.status /\ h.cur = g.cur /\ h.pours = g.pours
          /\ h.settled = g.settled /\ h.hasty = g.hasty
          /\ h.playing = g.playing /\ h.loser = loser
      BY DEF GameType
    <2>. HIDE DEF h
    <2>3. ComparesLate(g, h)
      BY <1>3, <2>2 DEF ComparesLate, Alive, loser
    <2>. QED  BY <2>1, <2>2, <2>3 DEF Move
  <1>. QED  BY <1>1, <1>2, <1>3

\* Ending a turn passes it on.
LEMMA EndPourPassesOn ==
    ASSUME NEW g \in GameType, ~Decided(g), Alive(g) # {}
    PROVE  PassesOn(g, g.pours, EndPourScore(g)) /\ EndPourScore(g).hasty = g.hasty
  <1>. DEFINE h == [g EXCEPT !.pour = Off]
              next == After(g.cur, Alive(g))
              k == [h EXCEPT !.cur = next]
              over == \/ GetCurRound(g) > MaxRound /\ g.cur = LastChair(g)
                      \/ Cardinality(Alive(g)) = 1
  <1>1. EndPourScore(g) = IF over THEN StartResult(h) ELSE StartPourScore(k)
    BY DEF EndPourScore
  <1>2. CASE over
    <2>. DEFINE paid == {c \in Chairs : WinScore(h, Winners(h), c) > 0}
                heir == IF paid = {} THEN h.banker ELSE Max(paid)
                loser == h.loser \cup (Alive(h) \ Winners(h))
                s == [h EXCEPT !.status = "Result", !.loser = loser, !.heir = heir,
                               !.settled = @ + 1, !.result = LongDelay]
    <2>1. StartResult(h) = s
      BY DEF StartResult
    <2>2. g.loser \subseteq loser
      BY DEF GameType
    <2>3. GetCurRound(g) > MaxRound /\ g.cur = LastChair(g) => \E c \in Chairs : g.pours[c] > MaxRound
      <3>1. g.playing # {}
        BY DEF Alive
      <3>2. After(g.cur, g.playing) \in Chairs
        BY AfterIsChair DEF GameType
      <3>. QED  BY <3>1, <3>2 DEF GetCurRound
    <2>. HIDE DEF paid, heir, loser
    <2>4. /\ s.status = "Result" /\ s.cur = g.cur /\ s.banker = g.banker
          /\ s.pours = g.pours /\ s.settled = g.settled + 1 /\ s.hasty = g.hasty
          /\ s.playing = g.playing /\ s.loser = loser
      BY DEF GameType
    <2>. HIDE DEF s
    <2>5. Alive(s) \subseteq Alive(g)
      BY <2>2, <2>4 DEF Alive
    <2>6. PassesOn(g, g.pours, s)
      BY <1>2, <2>3, <2>4, <2>5 DEF PassesOn
    <2>. QED  BY <1>1, <1>2, <2>1, <2>4, <2>6
  <1>3. CASE ~over
    <2>. DEFINE s == StartPourScore(k)
    <2>0. EndPourScore(g) = s
      BY <1>1, <1>3
    <2>. HIDE DEF next
    <2>1. /\ s.status = "PourScore" /\ s.cur = next /\ s.banker = g.banker
          /\ s.pours = g.pours /\ s.settled = g.settled /\ s.hasty = g.hasty
          /\ s.playing = g.playing /\ s.loser = g.loser
          /\ s.compare = g.compare /\ s.abandons = g.abandons
      BY DEF StartPourScore, GameType
    <2>. HIDE DEF s
    <2>2. Alive(s) = Alive(g) /\ ~Decided(s)
      BY <2>1 DEF Alive, Decided, AbandonPending
    <2>3. PassesOn(g, g.pours, s)
      BY <1>3, <2>1, <2>2 DEF PassesOn, IsOpen, next
    <2>. QED  BY <2>0, <2>1, <2>3
  <1>. QED  BY <1>2, <1>3

-----------------------------------------------------------------------------
(* Every step of a calm game is a move. *)

\* Handing over to the server is an abandon, if it is anything.
LEMMA TrustMoves ==
    ASSUME NEW g \in GameType, NEW c \in Chairs, NEW on \in BOOLEAN,
           OnGameTrust(g, c, on).hasty = 0
    PROVE  Move(g, OnGameTrust(g, c, on)) /\ g.hasty = 0
  <1>. DEFINE trust == IF on THEN g.trust \cup {c} ELSE g.trust \ {c}
              h == [g EXCEPT !.trust = trust]
  <1>1. OnGameTrust(g, c, on) = IF on THEN OnGameAbandon(h, c) ELSE h
    BY DEF OnGameTrust, GameType
  <1>2. trust \in SUBSET Chairs
    BY DEF GameType
  <1>. HIDE DEF trust
  <1>3. h \in GameType
    BY <1>2 DEF GameType
  <1>4. h.hasty = g.hasty /\ Rests(g, h)
    BY DEF GameType, Rests, Alive, Decided, AbandonPending
  <1>. HIDE DEF h
  <1>5. CASE on
    BY <1>1, <1>3, <1>4, <1>5, AbandonMoves, RestThenMove
  <1>6. CASE ~on
    BY <1>1, <1>4, <1>6 DEF Move
  <1>. QED  BY <1>5, <1>6

\* The players' messages, in a room without a union.
LEMMA MessageMoves ==
    ASSUME game \in GameType, ~UnionRoom, NEW c \in Chairs, ChairStep(c), game'.hasty = 0
    PROVE  Move(game, game') /\ game.hasty = 0
  <1>1. CASE Pour(c)
    <2>1. game' = OnGamePourScore(game, c, FALSE)
      BY <1>1 DEF Pour, Shortness
    <2>2. CASE ~CanAct(game, c)
      BY <2>1, <2>2 DEF OnGamePourScore, Move, Rests
    <2>3. CASE CanAct(game, c)
      <3>. DEFINE poured == [game.pours EXCEPT ![c] = @ + 1]
                  k == [game EXCEPT !.pours = poured, !.hasty = Hasty(game)]
      <3>1. game' = EndPourScore(k)
        BY <2>1, <2>3 DEF OnGamePourScore, CanAct, GameType
      <3>2. poured \in Numbers /\ Hasty(game) \in Nat /\ game.cur = c /\ poured = OneMore(game)
        BY <2>3, HastyCounts DEF GameType, Numbers, CanAct, OneMore
      <3>. HIDE DEF poured
      <3>3. /\ k \in GameType /\ k.hasty = Hasty(game) /\ k.pours = OneMore(game)
            /\ k.banker = game.banker /\ k.cur = game.cur /\ k.settled = game.settled
            /\ k.playing = game.playing /\ k.loser = game.loser
            /\ k.compare = game.compare /\ k.abandons = game.abandons
        BY <3>2 DEF GameType
      <3>. HIDE DEF k
      <3>4. game.hasty = 0 /\ ~Decided(game)
        BY <3>1, <3>3, EndPourKeepsHasty, NotHasty
      <3>5. c \in Alive(game) /\ game.status = "PourScore"
        BY <2>3 DEF CanAct, Alive
      <3>6. Alive(k) = Alive(game) /\ ~Decided(k) /\ LastChair(k) = LastChair(game)
        BY <3>3, <3>4 DEF Alive, Decided, AbandonPending, LastChair
      <3>7. PassesOn(k, OneMore(game), game')
        BY <3>1, <3>3, <3>5, <3>6, EndPourPassesOn
      <3>8. PassesOn(game, OneMore(game), game')
        BY <3>3, <3>6, <3>7 DEF PassesOn
      <3>9. Bets(game, game')
        BY <3>2, <3>4, <3>5, <3>8 DEF Bets, IsOpen
      <3>. QED  BY <3>4, <3>9 DEF Move
    <2>. QED
      BY <2>1, <2>2, <2>3 DEF OnGamePourScore
  <1>2. CASE AskCompare(c)
    <2>1. PICK to \in Chairs : game' = Compare(game, c, to, FALSE)
      BY <1>2 DEF AskCompare, Shortness
    <2>. QED  BY <2>1, CompareMoves
  <1>3. CASE Abandon(c)
    BY <1>3, AbandonMoves DEF Abandon
  <1>4. CASE Trust(c)
    BY <1>4, TrustMoves DEF Trust
  <1>. QED  BY <1>1, <1>2, <1>3, <1>4 DEF ChairStep

\* The room deals.
LEMMA StartGameMoves ==
    ASSUME SzInv, StartGame, ~UnionRoom, game'.hasty = 0
    PROVE  DealsIn(game, game') /\ game.hasty = 0
  <1>1. PICK players \in SUBSET Chairs, b \in Chairs, deal \in Deals :
          LET banker == IF game.bureau = 0 THEN b ELSE game.banker
          IN  /\ Cardinality(players) >= MinPlayers
              /\ game' = [game EXCEPT
                    !.started = TRUE, !.playing = players, !.banker = banker,
                    !.bureau = @ + 1, !.cur = After(banker, players),
                    !.status = "SendCards", !.cards = ShortDelay, !.hands = deal,
                    !.pours = [c \in Chairs |-> IF c \in players THEN 1 ELSE @[c]],
                    !.settled = 0, !.trustTask = @ \/ CanTrust]
    BY Zenon DEF StartGame
  <1>. DEFINE banker == IF game.bureau = 0 THEN b ELSE game.banker
              cur == After(banker, players)
              poured == [c \in Chairs |-> IF c \in players THEN 1 ELSE game.pours[c]]
              task == game.trustTask \/ CanTrust
  <1>2. game \in GameType /\ Fit(game) /\ game.loser = {} /\ ~game.started
    BY DEF SzInv, Good, StartGame, Ended
  <1>3. banker \in Chairs
    BY <1>2 DEF GameType
  <1>4. Cardinality(players) >= MinPlayers
    BY <1>1
  <1>5. game' = [game EXCEPT
                    !.started = TRUE, !.playing = players, !.banker = banker,
                    !.bureau = @ + 1, !.cur = cur,
                    !.status = "SendCards", !.cards = ShortDelay, !.hands = deal,
                    !.pours = poured, !.settled = 0, !.trustTask = task]
    BY <1>1, <1>2 DEF GameType
  <1>. HIDE DEF banker, cur, poured, task
  <1>6. /\ game'.playing = players /\ game'.banker = banker /\ game'.cur = cur
        /\ game'.status = "SendCards" /\ game'.pours = poured /\ game'.settled = 0
        /\ game'.loser = game.loser /\ game'.hasty = game.hasty
        /\ game'.compare = game.compare /\ game'.abandons = game.abandons
    BY <1>2, <1>5 DEF GameType
  <1>7. game.status = "None" /\ Quiet(game)
    BY <1>2, <1>6 DEF Fit, Orderly, Course
  <1>8. ~Decided(game')
    BY <1>6, <1>7 DEF Quiet, Decided, AbandonPending
  <1>9. Alive(game') = players
    BY <1>2, <1>6 DEF Alive
  <1>. QED
    BY <1>3, <1>4, <1>6, <1>7, <1>8, <1>9 DEF DealsIn, cur, poured

\* The timer of a turn stops its task and abandons, or changes nothing that is seen.
LEMMA TurnTimerMoves ==
    ASSUME game \in GameType, TurnTimer, game'.hasty = 0
    PROVE  Move(game, game') /\ game.hasty = 0
  <1>. DEFINE h == [game EXCEPT !.turn = Off]
              k == [h EXCEPT !.pour = Off]
  <1>1. h \in GameType /\ k \in GameType
    BY ClocksAreSet DEF GameType
  <1>2. h.hasty = game.hasty /\ k.hasty = game.hasty
    BY DEF GameType
  <1>3. Rests(game, h) /\ Rests(game, k)
    BY DEF GameType, Rests, Alive, Decided, AbandonPending
  <1>4. game' = h \/ game' = OnGameAbandon(k, h.cur)
    BY DEF TurnTimer
  <1>. HIDE DEF h, k
  <1>5. CASE game' = h
    BY <1>2, <1>3, <1>5 DEF Move
  <1>6. CASE game' = OnGameAbandon(k, h.cur)
    <2>1. h.cur \in Chairs
      BY <1>1 DEF GameType
    <2>2. Move(k, game') /\ k.hasty = 0
      BY <1>1, <1>6, <2>1, AbandonMoves
    <2>. QED  BY <1>2, <1>3, <2>2, RestThenMove
  <1>. QED  BY <1>4, <1>5, <1>6

\* The comparison was shown and the turn passes on.
LEMMA CompareTimerMoves ==
    ASSUME SzInv, ~UnionRoom, CompareTimer, game.hasty = 0
    PROVE  Resolves(game, game')
  <1>. DEFINE h == [game EXCEPT !.compare = Off, !.forced = FALSE]
  <1>1. game \in GameType /\ Orderly(game)
    BY DEF SzInv, Good, Fit
  <1>2. h \in GameType
    BY <1>1, ClocksAreSet DEF GameType
  <1>3. /\ h.cur = game.cur /\ h.banker = game.banker /\ h.pours = game.pours
        /\ h.settled = game.settled /\ h.playing = game.playing /\ h.loser = game.loser
        /\ h.compare = Off /\ h.abandons = game.abandons
    BY <1>1 DEF GameType
  <1>4. game.compare # Off
    BY DEF CompareTimer, Off
  <1>5. game.status = "PourScore" /\ Over(game) /\ ~game.forced
    BY <1>1, <1>4 DEF Orderly, Course, Open, Quiet
  <1>6. game' = EndPourScore(h)
    BY <1>5 DEF CompareTimer
  <1>. HIDE DEF h
  <1>7. Alive(h) = Alive(game) /\ LastChair(h) = LastChair(game) /\ Alive(game) # {}
    BY <1>3, <1>5 DEF Alive, LastChair, Over
  <1>8. ~Decided(h) /\ Decided(game)
    BY <1>3, <1>4, <1>5 DEF Over, Shown, Decided, AbandonPending
  <1>9. PassesOn(h, game.pours, game')
    BY <1>2, <1>3, <1>6, <1>7, <1>8, EndPourPassesOn
  <1>10. PassesOn(game, game.pours, game')
    BY <1>3, <1>7, <1>9 DEF PassesOn
  <1>. QED  BY <1>5, <1>8, <1>10 DEF Resolves, IsClosed

\* The abandon was shown and the turn passes on.
LEMMA AbandonTimerMoves ==
    ASSUME SzInv, ~UnionRoom, AbandonTimer, game.hasty = 0
    PROVE  Resolves(game, game')
  <1>. DEFINE abandons == [game.abandons EXCEPT ![0] = @ - 1]
              h == [game EXCEPT !.abandons = abandons]
  <1>1. game \in GameType /\ Orderly(game)
    BY DEF SzInv, Good, Fit
  <1>2. 0 \in 0 .. ShortDelay /\ game.abandons[0] > 0 /\ AbandonPending(game)
    BY SzAssumption DEF AbandonTimer, AbandonPending
  <1>3. game.status = "PourScore" /\ Over(game)
    BY <1>1, <1>2 DEF Orderly, Course, Open, Quiet
  <1>4. game.compare = Off /\ OneAbandon(game)
    BY <1>2, <1>3 DEF Over, Shown
  <1>5. game.abandons \in Pending
    BY <1>1 DEF GameType
  <1>6. game.abandons[0] = 1 /\ \A j \in (0 .. ShortDelay) \ {0} : game.abandons[j] = 0
    BY <1>2, <1>4 DEF OneAbandon
  <1>7. abandons \in Pending /\ \A i \in 0 .. ShortDelay : abandons[i] = 0
    BY <1>2, <1>5, <1>6, OneLess
  <1>8. game' = EndPourScore(h)
    BY <1>1 DEF AbandonTimer, GameType
  <1>. HIDE DEF abandons
  <1>9. /\ h.cur = game.cur /\ h.banker = game.banker /\ h.pours = game.pours
        /\ h.settled = game.settled /\ h.playing = game.playing /\ h.loser = game.loser
        /\ h.compare = game.compare /\ h.abandons = abandons
    BY <1>1 DEF GameType
  <1>10. h \in GameType
    BY <1>1, <1>7 DEF GameType
  <1>. HIDE DEF h
  <1>11. Alive(h) = Alive(game) /\ LastChair(h) = LastChair(game) /\ Alive(game) # {}
    BY <1>3, <1>9 DEF Alive, LastChair, Over
  <1>12. ~Decided(h) /\ Decided(game)
    BY <1>2, <1>4, <1>7, <1>9 DEF Decided, AbandonPending
  <1>13. PassesOn(h, game.pours, game')
    BY <1>8, <1>9, <1>10, <1>11, <1>12, EndPourPassesOn
  <1>14. PassesOn(game, game.pours, game')
    BY <1>9, <1>11, <1>13 DEF PassesOn
  <1>. QED  BY <1>3, <1>12, <1>14 DEF Resolves, IsClosed

\* The cards are sent and the first turn opens.
LEMMA CardsTimerMoves ==
    ASSUME SzInv, ~UnionRoom, CardsTimer, game.hasty = 0
    PROVE  Begins(game, game')
  <1>1. game \in GameType /\ Orderly(game)
    BY DEF SzInv, Good, Fit
  <1>2. /\ game'.status = "PourScore" /\ game'.cur = game.cur
        /\ game'.banker = game.banker /\ game'.pours = game.pours
        /\ game'.settled = game.settled /\ game'.playing = game.playing
        /\ game'.loser = game.loser /\ game'.compare = game.compare
        /\ game'.abandons = game.abandons
    BY <1>1 DEF CardsTimer, StartPourScore, GameType
  <1>3. game.cards # Off
    BY DEF CardsTimer, Off
  <1>4. game.status = "SendCards" /\ Quiet(game)
    BY <1>1, <1>3 DEF Orderly, Course
  <1>. QED
    BY <1>2, <1>4 DEF Begins, IsOpen, Decided, Quiet, AbandonPending, Alive

\* The result was shown and the bureau ends.
LEMMA ResultTimerMoves ==
    ASSUME SzInv, ~UnionRoom, ResultTimer, game.hasty = 0
    PROVE  Ends(game, game')
  <1>. DEFINE g == [game EXCEPT !.result = Off]
              h == [g EXCEPT !.status = "None", !.pours = Zero, !.loser = {},
                             !.short = {}, !.banker = g.heir]
              t == [h EXCEPT !.started = FALSE, !.playing = {}]
  <1>1. game \in GameType /\ Orderly(game)
    BY DEF SzInv, Good, Fit
  <1>2. game.result # Off
    BY DEF ResultTimer, Off
  <1>3. game.status = "Result"
    BY <1>1, <1>2 DEF Orderly, Course
  <1>4. game' \in {h, t, OnEventRoomDismiss(t)}
    BY DEF ResultTimer, EndResult
  <1>5. /\ h.status = "None" /\ h.cur = game.cur /\ h.pours = Zero
        /\ h.settled = game.settled
        /\ t.status = "None" /\ t.cur = game.cur /\ t.pours = Zero
        /\ t.settled = game.settled
    BY <1>1 DEF GameType
  <1>6. LET u == OnEventRoomDismiss(t)
        IN  u.status = "None" /\ u.cur = game.cur /\ u.pours = Zero /\ u.settled = game.settled
    BY <1>1 DEF OnEventRoomDismiss, GameType
  <1>. HIDE DEF g, h, t
  <1>. QED  BY <1>3, <1>4, <1>5, <1>6 DEF Ends

\* A second passes, and nothing that is seen changes.
LEMMA SecondRests ==
    ASSUME game \in GameType, Second
    PROVE  Rests(game, game') /\ game'.hasty = game.hasty
  <1>. DEFINE T == 0 .. ShortDelay
              later == [i \in T |-> IF i = ShortDelay THEN 0 ELSE game.abandons[i + 1]]
  <1>1. /\ game'.status = game.status /\ game'.cur = game.cur
        /\ game'.banker = game.banker /\ game'.pours = game.pours
        /\ game'.settled = game.settled /\ game'.playing = game.playing
        /\ game'.loser = game.loser /\ game'.hasty = game.hasty
        /\ game'.compare = Earlier(game.compare) /\ game'.abandons = later
    BY DEF Second, GameType
  <1>2. game'.compare = Off <=> game.compare = Off
    BY <1>1, SzAssumption DEF Earlier, Off, Clock, GameType
  <1>3. game.abandons \in [T -> Nat] /\ game.abandons[0] = 0 /\ ShortDelay \in Nat \ {0}
    BY SzAssumption DEF Second, GameType, Pending
  <1>4. AbandonPending(game') => AbandonPending(game)
    BY <1>1, <1>3 DEF AbandonPending
  <1>5. AbandonPending(game) => AbandonPending(game')
    <2>1. ASSUME NEW i \in T, game.abandons[i] > 0
          PROVE  AbandonPending(game')
      <3>1. i # 0 /\ i - 1 \in T
        BY <1>3, <2>1
      <3>2. later[i - 1] > 0
        BY <1>3, <2>1, <3>1
      <3>. QED  BY <1>1, <3>1, <3>2 DEF AbandonPending
    <2>. QED  BY <2>1 DEF AbandonPending
  <1>. QED  BY <1>1, <1>2, <1>4, <1>5 DEF Rests, Alive, Decided

\* The timer of a comparison counts no act.
LEMMA CompareTimerKeepsHasty ==
    ASSUME SzInv, CompareTimer, game'.hasty = 0
    PROVE  game.hasty = 0
  <1>. DEFINE h == [game EXCEPT !.compare = Off, !.forced = FALSE]
              k == [h EXCEPT !.pour = Off]
  <1>1. game \in GameType
    BY DEF SzInv, Good
  <1>2. \/ \E d \in h.playing \ {h.cur} : game' = Compare(k, h.cur, d, TRUE)
        \/ game' = EndPourScore(h)
    BY Zenon DEF CompareTimer
  <1>3. h \in GameType /\ k \in GameType /\ h.hasty = game.hasty /\ k.hasty = game.hasty
    BY <1>1, ClocksAreSet DEF GameType
  <1>. HIDE DEF h, k
  <1>4. h.cur \in Chairs /\ h.playing \subseteq Chairs
    BY <1>3 DEF GameType
  <1>5. CASE game' = EndPourScore(h)
    BY <1>3, <1>5, EndPourKeepsHasty
  <1>6. ASSUME NEW d \in h.playing \ {h.cur}, game' = Compare(k, h.cur, d, TRUE)
        PROVE  game.hasty = 0
    BY <1>3, <1>4, <1>6, CompareKeepsHasty
  <1>. QED  BY <1>2, <1>5, <1>6

\* The timer of an abandon counts no act.
LEMMA AbandonTimerKeepsHasty ==
    ASSUME SzInv, AbandonTimer, game'.hasty = 0
    PROVE  game.hasty = 0
  <1>. DEFINE abandons == [game.abandons EXCEPT ![0] = @ - 1]
              h == [game EXCEPT !.abandons = abandons]
  <1>1. game \in GameType
    BY DEF SzInv, Good
  <1>2. game.abandons \in Pending /\ game.abandons[0] > 0
    BY <1>1 DEF AbandonTimer, GameType
  <1>3. abandons \in Pending
    BY <1>2, OneLess
  <1>4. game' = EndPourScore(h)
    BY <1>1 DEF AbandonTimer, GameType
  <1>. HIDE DEF abandons
  <1>5. h \in GameType /\ h.hasty = game.hasty
    BY <1>1, <1>3 DEF GameType
  <1>. HIDE DEF h
  <1>. QED  BY <1>4, <1>5, EndPourKeepsHasty

\* The timer of a result counts no act.
LEMMA ResultTimerKeepsHasty ==
    ASSUME SzInv, ResultTimer
    PROVE  game'.hasty = game.hasty
  <1>. DEFINE g == [game EXCEPT !.result = Off]
              h == [g EXCEPT !.status = "None", !.pours = Zero, !.loser = {},
                             !.short = {}, !.banker = g.heir]
              t == [h EXCEPT !.started = FALSE, !.playing = {}]
  <1>1. game \in GameType
    BY DEF SzInv, Good
  <1>2. game' \in {h, t, OnEventRoomDismiss(t)}
    BY DEF ResultTimer, EndResult
  <1>3. h.hasty = game.hasty /\ t.hasty = game.hasty
    BY <1>1 DEF GameType
  <1>4. OnEventRoomDismiss(t).hasty = game.hasty
    BY <1>1 DEF OnEventRoomDismiss, GameType
  <1>. HIDE DEF h, t
  <1>. QED  BY <1>2, <1>3, <1>4

\* The two halves meet here: a step into a calm state is a move from one.
LEMMA StepMoves ==
    ASSUME SzInv, [Next]_vars, ~UnionRoom, game'.hasty = 0
    PROVE  Move(game, game') /\ game.hasty = 0
  <1>1. game \in GameType /\ game.cur \in Chairs
    BY DEF SzInv, Good, GameType
  <1>2. CASE StartGame
    BY <1>2, StartGameMoves DEF Move
  <1>3. CASE Vote
    <2>1. Rests(game, game') /\ game'.hasty = game.hasty
      BY <1>1, <1>3 DEF Vote, GameType, Rests, Alive, Decided, AbandonPending
    <2>. QED  BY <2>1 DEF Move
  <1>4. CASE Dismiss
    <2>1. Rests(game, game') /\ game'.hasty = game.hasty
      BY <1>1, <1>4 DEF Dismiss, OnEventRoomDismiss, GameType, Rests, Alive, Decided, AbandonPending
    <2>. QED  BY <2>1 DEF Move
  <1>5. CASE \E c \in Chairs : ChairStep(c)
    BY <1>1, <1>5, MessageMoves
  <1>6. CASE TrustTask
    <2>1. game' = OnGameTrust(game, game.cur, TRUE)
      BY <1>6 DEF TrustTask
    <2>. QED  BY <1>1, <2>1, TrustMoves
  <1>7. CASE PourTick
    BY <1>1, <1>7, AbandonMoves DEF PourTick
  <1>8. CASE CardsTimer
    <2>1. game'.hasty = game.hasty
      BY <1>1, <1>8 DEF CardsTimer, StartPourScore, GameType
    <2>. QED  BY <1>8, <2>1, CardsTimerMoves DEF Move
  <1>9. CASE TurnTimer
    BY <1>1, <1>9, TurnTimerMoves
  <1>10. CASE CompareTimer
    <2>1. game.hasty = 0
      BY <1>10, CompareTimerKeepsHasty
    <2>. QED  BY <1>10, <2>1, CompareTimerMoves DEF Move
  <1>11. CASE AbandonTimer
    <2>1. game.hasty = 0
      BY <1>11, AbandonTimerKeepsHasty
    <2>. QED  BY <1>11, <2>1, AbandonTimerMoves DEF Move
  <1>12. CASE ResultTimer
    <2>1. game'.hasty = game.hasty
      BY <1>12, ResultTimerKeepsHasty
    <2>. QED  BY <1>12, <2>1, ResultTimerMoves DEF Move
  <1>13. CASE Second
    BY <1>1, <1>13, SecondRests DEF Move
  <1>14. CASE UNCHANGED vars
    BY <1>14 DEF vars, Move, Rests
  <1>. QED
    BY <1>2, <1>3, <1>4, <1>5, <1>6, <1>7, <1>8, <1>9, <1>10, <1>11, <1>12, <1>13, <1>14
    DEF Next, TimerStep

-----------------------------------------------------------------------------
(* The moves keep the rounds in step. *)

\* All up to the turn have poured for round k.
Through(g, p, k) ==
    /\ \A c \in Alive(g) : p[c] = IF Place(g, c) <= Place(g, g.cur) THEN k + 1 ELSE k
    /\ \A c \in Chairs : p[c] <= k + 1

\* A turn that was acted in is through, also when the player dropped out.
LEMMA ActedIsThrough ==
    ASSUME NEW g \in GameType, NEW k \in Nat, InStep(g, k, TRUE)
    PROVE  Through(g, g.pours, k)
  <1>1. g.banker \in Chairs /\ g.cur \in Chairs /\ Alive(g) \subseteq Chairs
    BY AliveAreChairs DEF GameType
  <1>2. \A c \in Alive(g) : /\ Place(g, c) = Place(g, g.cur) <=> c = g.cur
                            /\ Place(g, c) \in Int /\ Place(g, g.cur) \in Int
    BY <1>1, PlacesDiffer, DistanceLeads DEF Place
  <1>. QED  BY <1>2 DEF InStep, Through

\* A bet makes the turn one that is through.
LEMMA BetIsThrough ==
    ASSUME NEW g \in GameType, NEW k \in Nat, InStep(g, k, FALSE), g.cur \in Alive(g)
    PROVE  Through(g, OneMore(g), k)
  <1>1. g.banker \in Chairs /\ g.cur \in Chairs /\ Alive(g) \subseteq Chairs
    BY AliveAreChairs DEF GameType
  <1>2. \A c \in Alive(g) : /\ Place(g, c) = Place(g, g.cur) <=> c = g.cur
                            /\ Place(g, c) \in Int /\ Place(g, g.cur) \in Int
    BY <1>1, PlacesDiffer, DistanceLeads DEF Place
  <1>3. g.pours[g.cur] = k
    BY <1>2 DEF InStep
  <1>4. \A c \in Chairs : OneMore(g)[c] = IF c = g.cur THEN g.pours[c] + 1 ELSE g.pours[c]
    BY DEF OneMore, GameType, Numbers
  <1>5. ASSUME NEW c \in Alive(g)
        PROVE  OneMore(g)[c] = IF Place(g, c) <= Place(g, g.cur) THEN k + 1 ELSE k
    <2>1. CASE c = g.cur
      BY <1>1, <1>2, <1>3, <1>4, <2>1
    <2>2. CASE c # g.cur
      <3>1. OneMore(g)[c] = g.pours[c]
        BY <1>1, <1>4, <2>2
      <3>2. g.pours[c] = IF Place(g, c) < Place(g, g.cur) THEN k + 1 ELSE k
        BY <2>2 DEF InStep
      <3>. QED  BY <1>2, <2>2, <3>1, <3>2
    <2>. QED  BY <2>1, <2>2
  <1>6. ASSUME NEW c \in Chairs
        PROVE  OneMore(g)[c] <= k + 1
    BY <1>3, <1>4 DEF InStep
  <1>. QED  BY <1>5, <1>6 DEF Through

\* Passing on a turn that is through: the same round goes on, or all have
\* poured for it and the next one begins.
LEMMA PassesOnInStep ==
    ASSUME NEW g \in GameType, NEW h \in GameType, NEW p, NEW k \in Nat,
           Through(g, p, k), PassesOn(g, p, h)
    PROVE  Rounded(h)
  <1>1. /\ g.banker \in Chairs /\ g.cur \in Chairs /\ h.cur \in Chairs
        /\ Alive(g) \subseteq Chairs /\ h.banker = g.banker /\ h.pours = p
        /\ Alive(g) # {}
    BY AliveAreChairs DEF GameType, PassesOn
  <1>2. \A c \in Chairs : Place(h, c) = Place(g, c) /\ Place(g, c) \in Int
    BY <1>1, DistanceLeads DEF Place
  <1>3. \A c \in Alive(g) : p[c] = IF Place(g, c) <= Place(g, g.cur) THEN k + 1 ELSE k
    BY DEF Through
  <1>4. CASE h.status = "Result"
    <2>1. Alive(h) \subseteq Alive(g)
      BY <1>4 DEF PassesOn, IsOpen
    <2>. QED  BY <1>1, <1>3, <1>4, <2>1 DEF Rounded
  <1>5. CASE h.status # "Result"
    <2>1. IsOpen(h) /\ Alive(h) = Alive(g) /\ h.cur = After(g.cur, Alive(g))
      BY <1>5 DEF PassesOn
    <2>2. Round!Follows(g.cur, h.cur, Alive(g))
      BY <1>1, <2>1, AfterFollows
    <2>3. CASE \A e \in Alive(g) : Place(g, e) < Place(g, h.cur) <=> Place(g, e) <= Place(g, g.cur)
      <3>1. InStep(h, k, FALSE)
        BY <1>1, <1>2, <1>3, <2>1, <2>3 DEF InStep, Through
      <3>2. InStep(h, k, Decided(h))
        BY <2>1, <3>1 DEF InStep, IsOpen
      <3>. QED  BY <2>1, <3>2 DEF Rounded, IsOpen
    <2>4. CASE \A e \in Alive(g) : /\ Place(g, e) <= Place(g, g.cur)
                                   /\ Place(g, h.cur) <= Place(g, e)
      <3>1. \A c \in Alive(h) : h.pours[c] = k + 1 /\ ~(Place(h, c) < Place(h, h.cur))
        BY <1>1, <1>2, <1>3, <2>1, <2>4
      <3>2. \A c \in Chairs : h.pours[c] <= (k + 1) + 1
        BY <1>1 DEF Through, GameType, Numbers
      <3>3. InStep(h, k + 1, FALSE) /\ k + 1 \in Nat
        BY <3>1, <3>2 DEF InStep
      <3>4. InStep(h, k + 1, Decided(h))
        BY <2>1, <3>3 DEF InStep, IsOpen
      <3>. QED  BY <2>1, <3>3, <3>4 DEF Rounded, IsOpen
    <2>. QED  BY <1>1, <2>2, <2>3, <2>4, TurnPassesOn DEF Place
  <1>. QED  BY <1>4, <1>5

\* A set that is not empty and has not one element has several.
LEMMA NotOneIsMore ==
    ASSUME NEW g \in GameType, Alive(g) # {}, Cardinality(Alive(g)) # 1
    PROVE  Cardinality(Alive(g)) > 1
  <1>1. IsFiniteSet(Alive(g))
    <2>1. IsFiniteSet(Chairs)
      BY SzAssumption, FS_Interval DEF Chairs
    <2>. QED  BY <2>1, AliveAreChairs, FS_Subset
  <1>2. Cardinality(Alive(g)) \in Nat /\ Cardinality(Alive(g)) # 0
    BY <1>1, FS_CardinalityType, FS_EmptySet
  <1>. QED  BY <1>2

\* Who is dealt in, and whose turn is the first.
LEMMA FirstTurn ==
    ASSUME NEW g \in GameType, NEW h \in GameType, DealsIn(g, h)
    PROVE  h.cur \in Alive(h) /\ Round!Follows(h.banker, h.cur, Alive(h))
  <1>1. Alive(h) # {}
    <2>1. CASE Alive(h) = {}
      BY <2>1, SzAssumption, FS_EmptySet DEF DealsIn
    <2>. QED  BY <2>1
  <1>. QED  BY <1>1, AfterFollows DEF DealsIn, Round!Follows

\* Every move keeps the rounds in step.
LEMMA MoveInStep ==
    ASSUME NEW g \in GameType, NEW h \in GameType, Rounded(g), Move(g, h)
    PROVE  Rounded(h)
  <1>1. CASE Rests(g, h)
    <2>1. ASSUME NEW k \in Nat, InStep(g, k, Decided(g))
          PROVE  InStep(h, k, Decided(h))
      BY <1>1, <2>1 DEF Rests, InStep, Place
    <2>. QED  BY <1>1, <2>1 DEF Rests, Rounded
  <1>2. CASE ComparesLate(g, h)
    BY <1>2 DEF ComparesLate, Rounded
  <1>3. CASE DealsIn(g, h)
    <2>1. /\ \A c \in Alive(h) : Round!Distance(h.banker, h.cur) <= Round!Distance(h.banker, c)
          /\ h.cur \in Chairs /\ h.banker \in Chairs /\ Alive(h) \subseteq Chairs
      BY <1>3, FirstTurn DEF Round!Follows, DealsIn, GameType
    <2>2. \A c \in Chairs : Place(h, c) \in Int
      BY <2>1, DistanceLeads DEF Place
    <2>3. g.pours = Zero
      BY <1>3 DEF DealsIn, Rounded
    <2>4. \A c \in Chairs : h.pours[c] = IF c \in Alive(h) THEN 1 ELSE 0
      BY <1>3, <2>3 DEF DealsIn, Zero
    <2>5. InStep(h, 1, FALSE)
      BY <2>1, <2>2, <2>4 DEF InStep, Place
    <2>6. InStep(h, 1, Decided(h))
      BY <1>3, <2>5 DEF InStep, DealsIn
    <2>. QED  BY <1>3, <2>6 DEF DealsIn, Rounded
  <1>4. CASE Begins(g, h)
    <2>1. PICK k \in Nat : InStep(g, k, Decided(g))
      BY <1>4 DEF Begins, Rounded
    <2>2. InStep(h, k, Decided(h))
      BY <1>4, <2>1 DEF Begins, IsOpen, InStep, Place
    <2>. QED  BY <1>4, <2>2 DEF Begins, IsOpen, Rounded
  <1>5. CASE Bets(g, h)
    <2>0. PICK k \in Nat : InStep(g, k, Decided(g))
      BY <1>5 DEF Bets, IsOpen, Rounded
    <2>1. InStep(g, k, FALSE)
      BY <1>5, <2>0 DEF Bets, IsOpen, InStep
    <2>. QED  BY <1>5, <2>1, BetIsThrough, PassesOnInStep DEF Bets
  <1>6. CASE Drops(g, h)
    <2>0. PICK k \in Nat : InStep(g, k, Decided(g))
      BY <1>6 DEF Drops, IsOpen, Rounded
    <2>1. InStep(g, k, FALSE)
      BY <1>6, <2>0 DEF Drops, IsOpen, InStep
    <2>2. PICK c \in Alive(g) : /\ Alive(h) = Alive(g) \ {c}
                                /\ (h.pours = g.pours /\ c = g.cur) \/ h.pours = OneMore(g)
      BY <1>6 DEF Drops
    <2>3. /\ h.cur = g.cur /\ h.banker = g.banker /\ g.cur \in Alive(g)
          /\ h.status = "PourScore" /\ Decided(h)
      BY <1>6 DEF Drops, IsClosed
    <2>4. \A d \in Chairs : OneMore(g)[d] = IF d = g.cur THEN g.pours[d] + 1 ELSE g.pours[d]
      BY DEF OneMore, GameType, Numbers
    <2>5. g.pours[g.cur] = k /\ Alive(g) \subseteq Chairs /\ g.pours \in [Chairs -> Nat]
      <3>1. g.banker \in Chairs /\ g.cur \in Chairs
        BY DEF GameType
      <3>2. Place(g, g.cur) \in Int
        BY <3>1, DistanceLeads DEF Place
      <3>. QED  BY <2>1, <2>3, <3>2, AliveAreChairs DEF InStep, GameType, Numbers
    <2>6. \A d \in Alive(h) :
              h.pours[d] = IF Place(g, d) < Place(g, g.cur) \/ d = g.cur THEN k + 1 ELSE k
      <3>. SUFFICES ASSUME NEW d \in Alive(h)
                    PROVE  h.pours[d] = IF Place(g, d) < Place(g, g.cur) \/ d = g.cur
                                        THEN k + 1 ELSE k
        OBVIOUS
      <3>1. d \in Alive(g) /\ d # c /\ d \in Chairs
        BY <2>2, <2>5
      <3>2. CASE d = g.cur
        BY <2>2, <2>4, <2>5, <3>1, <3>2
      <3>3. CASE d # g.cur
        <4>1. h.pours[d] = g.pours[d]
          BY <2>2, <2>4, <3>1, <3>3
        <4>. QED  BY <2>1, <3>1, <3>3, <4>1 DEF InStep
      <3>. QED  BY <3>2, <3>3
    <2>7. \A d \in Chairs : h.pours[d] <= k + 1
      BY <2>1, <2>2, <2>4, <2>5 DEF InStep
    <2>8. InStep(h, k, Decided(h))
      BY <2>3, <2>6, <2>7 DEF InStep, Place
    <2>. QED  BY <2>3, <2>8 DEF Rounded
  <1>7. CASE Resolves(g, h)
    <2>0. PICK k \in Nat : InStep(g, k, Decided(g))
      BY <1>7 DEF Resolves, IsClosed, Rounded
    <2>1. InStep(g, k, TRUE)
      BY <1>7, <2>0 DEF Resolves, IsClosed, InStep
    <2>. QED  BY <1>7, <2>1, ActedIsThrough, PassesOnInStep DEF Resolves
  <1>8. CASE Ends(g, h)
    BY <1>8 DEF Ends, Rounded
  <1>. QED
    BY <1>1, <1>2, <1>3, <1>4, <1>5, <1>6, <1>7, <1>8 DEF Move

-----------------------------------------------------------------------------
(* The rounds of a calm game are even in every state. *)

\* A new frame has poured nothing.
LEMMA NewGameInStep ==
    Rounded(NewGameFrame)
  BY DEF Rounded, NewGameFrame

\* RoundInv is an invariant.
THEOREM AlwaysInStep ==
    Spec => []RoundInv
  <1>1. Init => RoundInv
    BY NewGameGood, NewGameFit, NewGameInStep DEF Init, SzInv, RoundInv
  <1>2. RoundInv /\ [Next]_vars => RoundInv'
    <2>. SUFFICES ASSUME RoundInv, [Next]_vars
                  PROVE  RoundInv'
      OBVIOUS
    <2>1. SzInv'
      BY StepGood, StepFit DEF SzInv, RoundInv
    <2>2. ASSUME Calm'
          PROVE  Rounded(game')
      <3>1. Move(game, game') /\ game.hasty = 0
        BY <2>2, StepMoves DEF RoundInv, Calm
      <3>2. Rounded(game)
        BY <2>2, <3>1 DEF RoundInv, Calm
      <3>3. game \in GameType /\ game' \in GameType
        BY <2>1 DEF RoundInv, SzInv, Good
      <3>. QED  BY <3>1, <3>2, <3>3, MoveInStep
    <2>. QED  BY <2>1, <2>2 DEF RoundInv
  <1>. QED  BY <1>1, <1>2, PTL DEF Spec

\* Those who are left have poured equally often, up to the turn, whatever the
\* chairs of those who dropped out and whatever the numbers of rounds.
THEOREM RoundsStayEven ==
    Spec => []RoundsEven
  <1>1. RoundInv => RoundsEven
    <2>. SUFFICES ASSUME RoundInv, Calm, NEW c \in Alive(game), NEW d \in Alive(game)
                  PROVE  game.pours[c] <= game.pours[d] + 1
      BY DEF RoundsEven
    <2>1. game \in GameType /\ Orderly(game) /\ Rounded(game)
      BY CalmIsOrderly DEF RoundInv
    <2>2. CASE game.status = "None"
      <3>1. Alive(game) = {}
        BY <2>1, <2>2 DEF Orderly, Course, Alive, RoundInv, SzInv, Good, Ended
      <3>. QED  BY <3>1
    <2>3. CASE game.status \in {"SendCards", "PourScore"}
      BY <2>1, <2>3 DEF Rounded, InStep
    <2>4. CASE game.status = "Result"
      BY <2>1, <2>4 DEF Rounded
    <2>. QED  BY <2>1, <2>2, <2>3, <2>4 DEF GameType, GameStatus
  <1>. QED  BY <1>1, AlwaysInStep, PTL

-----------------------------------------------------------------------------
(* The game implements the round. *)

\* SzRound counts its players as SzGame does.
LEMMA SameCardinality ==
    ASSUME NEW S
    PROVE  Round!Cardinality(S) = Cardinality(S)
  BY DEF Cardinality, Round!Cardinality

\* When the rounds are over in the last chair, those who are left are even.
LEMMA LastChairIsFinal ==
    ASSUME NEW g \in GameType, NEW p \in Numbers, NEW k \in Nat, Through(g, p, k),
           Alive(g) # {}, g.cur = LastChair(g), NEW c \in Chairs, p[c] > MaxRound
    PROVE  \A d \in Alive(g) : p[d] = k + 1 /\ p[d] > MaxRound
  <1>1. \A d \in Alive(g) : p[d] = k + 1
    BY LastChairIsLast DEF Through
  <1>2. p[c] <= k + 1 /\ p[c] \in Nat
    BY DEF Through, Numbers
  <1>. QED  BY <1>1, <1>2, SzAssumption

\* The bets after a bet are numbers.
LEMMA OneMoreIsNumbers ==
    ASSUME NEW g \in GameType
    PROVE  OneMore(g) \in Numbers
  BY DEF OneMore, GameType, Numbers

\* Passing on is the round's, whoever decided the turn.
LEMMA PassesOnIsRound ==
    ASSUME game \in GameType, game.status = "PourScore",
           NEW p \in Numbers, NEW k \in Nat, Through(game, p, k), PassesOn(game, p, game')
    PROVE  game'.pours = p /\ Round!PassOn
  <1>. DEFINE bettors == IF Betting THEN Alive(game) ELSE {}
  <1>1. bettors = Alive(game) /\ game'.pours = p /\ Alive(game) # {}
    BY DEF Betting, PassesOn
  <1>2. CASE IsOpen(game')
    <2>1. /\ Cardinality(Alive(game)) # 1 /\ Alive(game') = Alive(game)
          /\ game'.cur = After(game.cur, Alive(game)) /\ game'.settled = game.settled
      BY <1>2 DEF PassesOn, IsOpen
    <2>2. bettors' = Alive(game) /\ Stage' = "open"
      BY <1>2, <2>1 DEF Betting, IsOpen, Stage
    <2>3. Cardinality(Alive(game)) > 1
      BY <1>1, <2>1, NotOneIsMore
    <2>4. Round!Follows(game.cur, game'.cur, Alive(game))
      BY <1>1, <2>1, AliveAreChairs, AfterFollows DEF GameType
    <2>5. Round!Follows(game.cur, game'.cur, bettors) /\ Cardinality(bettors) > 1
      BY <1>1, <2>3, <2>4
    <2>6. UNCHANGED <<bettors, game.settled>>
      BY <1>1, <2>1, <2>2
    <2>. QED  BY <1>1, <2>2, <2>5, <2>6, SameCardinality DEF Round!PassOn
  <1>3. CASE ~IsOpen(game')
    <2>1. /\ game'.status = "Result" /\ game'.cur = game.cur
          /\ game'.settled = game.settled + 1
          /\ \/ Cardinality(Alive(game)) = 1
             \/ game.cur = LastChair(game) /\ \E c \in Chairs : p[c] > MaxRound
      BY <1>3 DEF PassesOn
    <2>2. bettors' = {} /\ Stage' = "shown"
      BY <2>1 DEF Betting, Stage
    <2>3. Round!Final(p)
      <3>1. CASE Cardinality(Alive(game)) = 1
        BY <1>1, <3>1, SameCardinality DEF Round!Final
      <3>2. CASE game.cur = LastChair(game) /\ \E c \in Chairs : p[c] > MaxRound
        <4>1. PICK c \in Chairs : p[c] > MaxRound
          BY <3>2
        <4>2. \A d \in Alive(game) : p[d] = k + 1 /\ p[d] > MaxRound
          BY <1>1, <3>2, <4>1, LastChairIsFinal
        <4>. QED  BY <1>1, <4>2 DEF Round!Final, Round!Even
      <3>. QED  BY <2>1, <3>1, <3>2
    <2>. QED  BY <1>1, <2>1, <2>2, <2>3 DEF Round!PassOn
  <1>. QED  BY <1>2, <1>3

\* A move is a step of the round or leaves it as it is.
LEMMA MoveIsRound ==
    ASSUME game \in GameType, game' \in GameType, Rounded(game), Move(game, game'),
           Calm, Calm'
    PROVE  [Round!Next]_(Round!vars)
  <1>. DEFINE bettors == IF Betting THEN Alive(game) ELSE {}
  <1>1. Calm' = Calm
    BY DEF Calm
  <1>2. CASE Rests(game, game')
    <2>1. Stage' = Stage /\ bettors' = bettors
      BY <1>2 DEF Rests, Stage, Betting
    <2>. QED  BY <1>1, <1>2, <2>1 DEF Rests, Round!vars
  <1>3. CASE ComparesLate(game, game')
    <2>1. Stage' = Stage /\ bettors' = bettors
      BY <1>3 DEF ComparesLate, Stage, Betting
    <2>. QED  BY <1>1, <1>3, <2>1 DEF ComparesLate, Round!vars
  <1>4. CASE DealsIn(game, game')
    <2>1. Stage = "idle" /\ Stage' = "dealing" /\ bettors' = Alive(game')
      BY <1>4 DEF DealsIn, Stage, Betting
    <2>2. game'.cur \in Alive(game')
      BY <1>4, FirstTurn
    <2>3. game'.pours = [c \in Chairs |-> IF c \in Alive(game') THEN 1 ELSE 0]
      BY <1>4 DEF DealsIn, Rounded, Zero
    <2>5. bettors' \in SUBSET Round!Chairs /\ Cardinality(bettors') >= MinPlayers
      BY <1>4, <2>1 DEF DealsIn, Round!Chairs, Chairs
    <2>6. game'.pours = [c \in Round!Chairs |-> IF c \in bettors' THEN 1 ELSE 0]
      BY <2>1, <2>3 DEF Round!Chairs, Chairs
    <2>7. Stage = "idle" /\ Stage' = "dealing" /\ game'.cur \in bettors' /\ game'.settled = 0
      BY <1>4, <2>1, <2>2 DEF DealsIn
    <2>4. Round!Deal
      BY <2>5, <2>6, <2>7, SameCardinality DEF Round!Deal
    <2>. QED  BY <2>4 DEF Round!Next, Round!Regular
  <1>5. CASE Begins(game, game')
    <2>1. Stage = "dealing" /\ Stage' = "open" /\ bettors' = bettors
      BY <1>5 DEF Begins, IsOpen, Stage, Betting
    <2>2. Round!Begin
      BY <1>5, <2>1 DEF Begins, Round!Begin
    <2>. QED  BY <2>2 DEF Round!Next, Round!Regular
  <1>6. CASE Bets(game, game')
    <2>1. game.status = "PourScore" /\ Stage = "open"
      BY <1>6 DEF Bets, IsOpen, Stage
    <2>2. PICK k \in Nat : InStep(game, k, Decided(game))
      BY <2>1 DEF Rounded
    <2>3. InStep(game, k, FALSE)
      BY <1>6, <2>2 DEF Bets, IsOpen, InStep
    <2>4. game'.pours = OneMore(game) /\ Round!PassOn
      BY <1>6, <2>1, <2>3, BetIsThrough, OneMoreIsNumbers, PassesOnIsRound DEF Bets
    <2>5. Round!Bet
      BY <2>1, <2>4 DEF Round!Bet, OneMore
    <2>. QED  BY <2>5 DEF Round!Next, Round!Regular
  <1>7. CASE Drops(game, game')
    <2>1. /\ Stage = "open" /\ Stage' = "closed"
          /\ bettors = Alive(game) /\ bettors' = Alive(game')
      BY <1>7 DEF Drops, IsOpen, IsClosed, Stage, Betting
    <2>2. Round!Drop
      BY <1>7, <2>1 DEF Drops, Round!Drop, OneMore
    <2>. QED  BY <2>2 DEF Round!Next, Round!Regular
  <1>8. CASE Resolves(game, game')
    <2>1. game.status = "PourScore" /\ Stage = "closed" /\ game.pours \in Numbers
      BY <1>8 DEF Resolves, IsClosed, Stage, GameType
    <2>2. PICK k \in Nat : InStep(game, k, Decided(game))
      BY <2>1 DEF Rounded
    <2>3. InStep(game, k, TRUE)
      BY <1>8, <2>2 DEF Resolves, IsClosed, InStep
    <2>4. game'.pours = game.pours /\ Round!PassOn
      BY <1>8, <2>1, <2>3, ActedIsThrough, PassesOnIsRound DEF Resolves
    <2>5. Round!Resolve
      BY <2>1, <2>4 DEF Round!Resolve
    <2>. QED  BY <2>5 DEF Round!Next, Round!Regular
  <1>9. CASE Ends(game, game')
    <2>1. Stage = "shown" /\ Stage' = "idle" /\ bettors = {} /\ bettors' = {}
      BY <1>9 DEF Ends, Stage, Betting
    <2>2. Round!End
      BY <1>9, <2>1 DEF Ends, Zero, Round!End, Round!Chairs, Chairs
    <2>. QED  BY <2>2 DEF Round!Next, Round!Regular
  <1>. QED
    BY <1>2, <1>3, <1>4, <1>5, <1>6, <1>7, <1>8, <1>9 DEF Move

\* A game of a room that no union created keeps what SzRound promises.  In a
\* union's room no state is regular: players are compared by force there.
THEOREM GameImplementsRound ==
    ASSUME ~UnionRoom
    PROVE  Spec => ImplementsRound
  <1>1. Init => Round!Init
    <2>. SUFFICES ASSUME Init
                  PROVE  Round!Init
      OBVIOUS
    <2>1. /\ game.status = "None" /\ game.cur = 0 /\ game.pours = Zero
          /\ game.settled = 0 /\ game.hasty = 0
      BY DEF Init, NewGameFrame
    <2>2. Stage = "idle" /\ ~Betting /\ Calm = TRUE
      BY <2>1 DEF Stage, Betting, Calm
    <2>. QED
      BY <2>1, <2>2, SzAssumption DEF Round!Init, Round!Chairs, Chairs, Zero
  <1>2. RoundInv /\ [Next]_vars => [Round!Next]_(Round!vars)
    <2>. SUFFICES ASSUME RoundInv, [Next]_vars
                  PROVE  [Round!Next]_(Round!vars)
      OBVIOUS
    <2>1. CASE ~Calm'
      BY <2>1 DEF Round!Next
    <2>2. CASE Calm'
      <3>1. Move(game, game') /\ Calm
        BY <2>2, StepMoves DEF RoundInv, Calm
      <3>2. game \in GameType /\ game' \in GameType
        BY StepGood DEF RoundInv, SzInv, Good
      <3>. QED  BY <2>2, <3>1, <3>2, MoveIsRound DEF RoundInv
    <2>. QED  BY <2>1, <2>2
  <1>. QED
    BY <1>1, <1>2, AlwaysInStep, PTL DEF Spec, ImplementsRound, Round!Spec

-----------------------------------------------------------------------------
(* Hands of cards. *)

\* A card is worth 2 to 14.
LEMMA ValueRange ==
    ASSUME NEW card \in Cards
    PROVE  GetCardsValue(card) \in 2 .. 14
  BY DEF Cards, GetCardsValue

\* The values of a hand are its cards' values in order.
LEMMA ValuesInOrder ==
    ASSUME NEW h \in Hands
    PROVE  LET v == GetCardValues(h)
           IN  /\ v[1] \in 2 .. 14 /\ v[2] \in 2 .. 14 /\ v[3] \in 2 .. 14
               /\ v[1] <= v[2] /\ v[2] <= v[3]
  <1>. DEFINE a == GetCardsValue(h[1])
              b == GetCardsValue(h[2])
              c == GetCardsValue(h[3])
              low == Lesser(Lesser(a, b), c)
              high == Greater(Greater(a, b), c)
              mid == a + b + c - low - high
  <1>1. a \in 2 .. 14 /\ b \in 2 .. 14 /\ c \in 2 .. 14
    BY ValueRange DEF Hands
  <1>2. GetCardValues(h) = <<low, mid, high>>
    BY DEF GetCardValues
  <1>. HIDE DEF a, b, c
  <1>3. /\ low \in 2 .. 14 /\ mid \in 2 .. 14 /\ high \in 2 .. 14
        /\ low <= mid /\ mid <= high
    BY <1>1 DEF Lesser, Greater
  <1>. HIDE DEF low, mid, high
  <1>. QED  BY <1>2, <1>3

\* The pair of a hand and the card beside it are among its values.
LEMMA PairRange ==
    ASSUME NEW h \in Hands
    PROVE  GetDuiZi(h)[1] \in 2 .. 14 /\ GetDuiZi(h)[2] \in 2 .. 14
  <1>. DEFINE v == GetCardValues(h)
  <1>1. v[1] \in 2 .. 14 /\ v[2] \in 2 .. 14 /\ v[3] \in 2 .. 14
    BY ValuesInOrder
  <1>2. GetDuiZi(h) = IF v[1] = v[2] THEN <<v[1], v[3]>> ELSE <<v[2], v[1]>>
    BY DEF GetDuiZi
  <1>. HIDE DEF v
  <1>. QED  BY <1>1, <1>2

\* There are six types.
LEMMA TypeRange ==
    ASSUME NEW h
    PROVE  GetCardsType(h) \in 1 .. 6
  BY DEF GetCardsType, DanZhang, DuiZi, ShunZi, JinHua, ShunJin, BaoZi

\* A number of three digits to the base of 15 after a leading one.
Digits(t, x, y, z) == 3375 * t + 225 * x + 15 * y + z

\* What the first digits differ by that do.
FirstDifference(t, x, y, z, u, i, j, k) ==
    IF t # u THEN t - u ELSE IF x # i THEN x - i ELSE IF y # j THEN y - j ELSE z - k

\* CompareCards is the comparison of strengths, for every two hands that can be
\* dealt, also for the straights with an ace and for pairs in any order.
THEOREM CardsCompareByStrength ==
    \A a, b \in Hands : ComparesStrengths(a, b)
  <1>. SUFFICES ASSUME NEW a \in Hands, NEW b \in Hands
                PROVE  ComparesStrengths(a, b)
    OBVIOUS
  <1>. DEFINE t == GetCardsType(a)
              u == GetCardsType(b)
              v == GetCardValues(a)
              w == GetCardValues(b)
              p == GetDuiZi(a)
              q == GetDuiZi(b)
  <1>1. t \in 1 .. 6 /\ u \in 1 .. 6
    BY TypeRange
  <1>2. /\ v[1] \in 2 .. 14 /\ v[2] \in 2 .. 14 /\ v[3] \in 2 .. 14
        /\ w[1] \in 2 .. 14 /\ w[2] \in 2 .. 14 /\ w[3] \in 2 .. 14
    BY ValuesInOrder
  <1>3. p[1] \in 2 .. 14 /\ p[2] \in 2 .. 14 /\ q[1] \in 2 .. 14 /\ q[2] \in 2 .. 14
    BY PairRange
  <1>4. Strength(a) = IF t = DuiZi THEN 3375 * t + 225 * p[1] + 15 * p[2]
                      ELSE 3375 * t + 225 * v[3] + 15 * v[2] + v[1]
    BY DEF Strength
  <1>5. Strength(b) = IF u = DuiZi THEN 3375 * u + 225 * q[1] + 15 * q[2]
                      ELSE 3375 * u + 225 * w[3] + 15 * w[2] + w[1]
    BY DEF Strength
  <1>6. CompareCards(a, b) =
            IF t # u THEN t - u
            ELSE IF t = DuiZi THEN IF p[1] # q[1] THEN p[1] - q[1] ELSE p[2] - q[2]
            ELSE IF v[3] # w[3] THEN v[3] - w[3]
            ELSE IF v[2] # w[2] THEN v[2] - w[2]
            ELSE v[1] - w[1]
    BY DEF CompareCards
  <1>. HIDE DEF t, u, v, w, p, q
  <1>. DEFINE x == IF t = DuiZi THEN p[1] ELSE v[3]
              y == IF t = DuiZi THEN p[2] ELSE v[2]
              z == IF t = DuiZi THEN 0 ELSE v[1]
              i == IF u = DuiZi THEN q[1] ELSE w[3]
              j == IF u = DuiZi THEN q[2] ELSE w[2]
              k == IF u = DuiZi THEN 0 ELSE w[1]
  <1>7. /\ x \in 0 .. 14 /\ y \in 0 .. 14 /\ z \in 0 .. 14
        /\ i \in 0 .. 14 /\ j \in 0 .. 14 /\ k \in 0 .. 14
    BY <1>2, <1>3
  <1>8. Strength(a) = Digits(t, x, y, z)
    <2>1. CASE t = DuiZi
      BY <1>1, <1>3, <1>4, <2>1 DEF Digits
    <2>2. CASE t # DuiZi
      BY <1>1, <1>2, <1>4, <2>2 DEF Digits
    <2>. QED  BY <2>1, <2>2
  <1>9. Strength(b) = Digits(u, i, j, k)
    <2>1. CASE u = DuiZi
      BY <1>1, <1>3, <1>5, <2>1 DEF Digits
    <2>2. CASE u # DuiZi
      BY <1>1, <1>2, <1>5, <2>2 DEF Digits
    <2>. QED  BY <2>1, <2>2
  <1>10. CompareCards(a, b) = FirstDifference(t, x, y, z, u, i, j, k)
    <2>1. CASE t # u
      BY <1>6, <2>1 DEF FirstDifference
    <2>2. CASE t = u /\ t = DuiZi
      BY <1>3, <1>6, <2>2 DEF FirstDifference
    <2>3. CASE t = u /\ t # DuiZi
      BY <1>6, <2>3 DEF FirstDifference
    <2>. QED  BY <2>1, <2>2, <2>3
  <1>. HIDE DEF x, y, z, i, j, k
  \* Numbers are in the order of their digits.
  <1>11. LET d == FirstDifference(t, x, y, z, u, i, j, k)
         IN  /\ d > 0 <=> Digits(t, x, y, z) > Digits(u, i, j, k)
             /\ d = 0 <=> Digits(t, x, y, z) = Digits(u, i, j, k)
    BY <1>1, <1>7 DEF FirstDifference, Digits
  <1>. QED  BY <1>8, <1>9, <1>10, <1>11, Zenon DEF ComparesStrengths

\* Of three hands, the one that beats a second that beats or equals a third
\* beats the third, and comparing the other way round says the opposite.
THEOREM CardsAreOrdered ==
    \A a, b, c \in Hands :
        /\ CompareCards(a, b) > 0 /\ CompareCards(b, c) >= 0 => CompareCards(a, c) > 0
        /\ CompareCards(a, b) > 0 <=> CompareCards(b, a) < 0
  <1>1. \A a, b \in Hands : CompareCards(a, b) \in Int /\ Strength(a) \in Int
    <2>. SUFFICES ASSUME NEW a \in Hands, NEW b \in Hands
                  PROVE  CompareCards(a, b) \in Int /\ Strength(a) \in Int
      OBVIOUS
    <2>1. GetCardsType(a) \in Int /\ GetCardsType(b) \in Int
      BY TypeRange
    <2>2. LET v == GetCardValues(a)
              w == GetCardValues(b)
          IN  /\ v[1] \in Int /\ v[2] \in Int /\ v[3] \in Int
              /\ w[1] \in Int /\ w[2] \in Int /\ w[3] \in Int
      BY ValuesInOrder
    <2>3. /\ GetDuiZi(a)[1] \in Int /\ GetDuiZi(a)[2] \in Int
          /\ GetDuiZi(b)[1] \in Int /\ GetDuiZi(b)[2] \in Int
      BY PairRange
    <2>. QED  BY <2>1, <2>2, <2>3 DEF CompareCards, Strength
  <1>. SUFFICES ASSUME NEW a \in Hands, NEW b \in Hands, NEW c \in Hands
                PROVE  /\ CompareCards(a, b) > 0 /\ CompareCards(b, c) >= 0
                              => CompareCards(a, c) > 0
                       /\ CompareCards(a, b) > 0 <=> CompareCards(b, a) < 0
    OBVIOUS
  <1>2. ComparesStrengths(a, b) /\ ComparesStrengths(b, c) /\ ComparesStrengths(a, c)
        /\ ComparesStrengths(b, a)
    BY CardsCompareByStrength
  <1>. QED  BY <1>1, <1>2 DEF ComparesStrengths
=============================================================================
