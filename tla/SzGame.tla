------------------------------- MODULE SzGame -------------------------------
(***************************************************************************)
(* The three-card game of a room: game/component/sz/game.go.               *)
(*                                                                         *)
(* A bureau deals cards, lets the players act in turn - pour, compare with *)
(* another player, abandon - until one of them is left or the rounds are   *)
(* over, shows the result and ends.  Players act by messages; a turn is    *)
(* also ended by its task and by one-shot timers, which the code sets and  *)
(* does not always stop.  The room starts bureaus, votes and dismisses.    *)
(*                                                                         *)
(* Time passes in seconds.  Timers due in the same second fire in any      *)
(* order, since within a second they were set at different times.          *)
(*                                                                         *)
(* Not modelled: looking at cards, which changes amounts only; moves to    *)
(* another seat and acts of watchers during a bureau, both of which the    *)
(* room lets through; the forced preparation of the next bureau, which     *)
(* prepares nobody because GameStarter is never reset.                     *)
(***************************************************************************)
EXTENDS Integers, FiniteSets, FiniteSetsExt

CONSTANTS
    ChairCount,    \* rule.MaxPlayerCount
    MinPlayers,    \* rule.MinPlayerCount: the room starts no bureau with fewer
    MaxRound,      \* rounds[rule.RoundType]: 10, 15 or 20 in the code
    MaxBureau,     \* bureaus the room plays
    UnionRoom,     \* a union created the room: players pay from their scores
    CanTrust,      \* rule.CanTrust: the server takes over for slow players
    ShortDelay,    \* 1 s: sending cards, a trusted player's turn, after an abandon
    LongDelay,     \* 3 s: showing a comparison, showing the result
    PourTime,      \* TmPourScore: 30 s to act
    Deals,         \* bound: the strengths of the hands that are dealt
    Trusters,      \* bound: the chairs whose players hand over to the server
    MaxPours,      \* bound: pours of one player in a bureau
    MaxHasty       \* bound: acts while a turn is already over

Chairs == 0 .. (ChairCount - 1)

ASSUME SzAssumption ==
    /\ ChairCount \in Nat \ {0}
    /\ MinPlayers \in Nat \ {0, 1}
    /\ MaxRound \in Nat
    /\ MaxBureau \in Nat \ {0}
    /\ UnionRoom \in BOOLEAN
    /\ CanTrust \in BOOLEAN
    /\ ShortDelay \in Nat \ {0}
    /\ LongDelay \in Nat \ {0}
    /\ PourTime \in Nat \ {0}
    /\ Deals \subseteq [Chairs -> Nat]
    /\ Trusters \subseteq Chairs
    /\ MaxPours \in Nat
    /\ MaxHasty \in Nat

VARIABLE game  \* the GameFrame, its tasks and timers, and what it sees of the room

vars == <<game>>

-----------------------------------------------------------------------------
(* State. *)

Off == -1                                 \* a task or timer that is not set
Clock(d) == Off .. d
GameStatus == {"None", "SendCards", "PourScore", "Result"}
Numbers == [Chairs -> Nat]
Pending == [0 .. ShortDelay -> Nat]

GameType == [
    status: GameStatus,
    playing: SUBSET Chairs,      \* chairs of users with the ready or playing bit
    started: BOOLEAN,            \* the room's gameStarted
    dismissing: BOOLEAN,         \* a vote runs in the room
    dismissed: BOOLEAN,          \* the room was dismissed
    bureau: Nat,
    banker: Chairs,
    cur: Chairs,                 \* CurChairID
    loser: SUBSET Chairs,
    pours: Numbers,              \* the length of each chair's PourScores
    hands: Numbers,              \* how strong each chair's cards are
    short: SUBSET Chairs,        \* chairs found without enough score in this bureau
    trust: SUBSET Chairs,        \* UserTrustArray
    heir: Chairs,                \* the banker that the last result makes
    settled: Nat,                \* times this bureau's scores were added to the records
    hasty: Nat,                  \* acts accepted while the turn was already over
    trustTask: BOOLEAN,          \* userTrustID runs
    pour: Clock(PourTime),       \* pourScoreScheduleID: the ticks it has left
    cards: Clock(ShortDelay),    \* sendCardsScheduleID
    turn: Clock(ShortDelay),     \* startPourScoreID
    turnOf: Chairs,              \*    and the chair its closure holds
    compare: Clock(LongDelay),   \* compareID
    forced: BOOLEAN,             \*    and what its closure passes to endPourScore
    result: Clock(LongDelay),    \* endResultID
    abandons: Pending]           \* AfterFuncs of onGameAbandon, by the time they have left

Zero == [c \in Chairs |-> 0]

NewGameFrame == [
    status |-> "None", playing |-> {}, started |-> FALSE, dismissing |-> FALSE,
    dismissed |-> FALSE, bureau |-> 0, banker |-> 0, cur |-> 0, loser |-> {},
    pours |-> Zero, hands |-> Zero, short |-> {}, trust |-> {}, heir |-> 0,
    settled |-> 0, hasty |-> 0, trustTask |-> FALSE, pour |-> Off, cards |-> Off,
    turn |-> Off, turnOf |-> 0, compare |-> Off, forced |-> FALSE, result |-> Off,
    abandons |-> [i \in 0 .. ShortDelay |-> 0]]

Alive(g) == g.playing \ g.loser

\* The turn is over and a timer will pass it on.
AbandonPending(g) == \E i \in 0 .. ShortDelay : g.abandons[i] > 0
Decided(g) == g.compare # Off \/ AbandonPending(g)
Hasty(g) == IF Decided(g) THEN g.hasty + 1 ELSE g.hasty

\* Mutant: the next chair is passed over.
AfterNext(c, S) ==
    IF S = {} THEN c
    ELSE (c + Min({i \in 2 .. (ChairCount + 1) : (c + i) % ChairCount \in S})) % ChairCount

\* The first chair of S after c, or c when there is none: the loops over chairs.
After(c, S) ==
    IF S = {} THEN c
    ELSE (c + Min({i \in 1 .. ChairCount : (c + i) % ChairCount \in S})) % ChairCount

\* The last chair to act in a round: backwards from the banker.
LastChair(g) ==
    IF Alive(g) = {} THEN (g.banker + 1) % ChairCount
    ELSE (g.banker - Min({i \in 0 .. (ChairCount - 1) :
                              (g.banker - i + ChairCount) % ChairCount \in Alive(g)})
             + ChairCount) % ChairCount

\* getCurRound looks at the next player, also at one who has lost.
GetCurRound(g) == IF g.playing = {} THEN 1 ELSE g.pours[After(g.cur, g.playing)]

-----------------------------------------------------------------------------
(* The functions of the frame that messages and timers share. *)

(* What a chair wins.  The code adds up the indices of the pours, not the    *)
(* pours, and pays the first chairs, as many as there are winners.           *)
Lost(g, c) == (g.pours[c] * (g.pours[c] - 1)) \div 2
WinScore(g, winners, c) ==
    LET losers == {d \in Chairs \ winners : g.pours[d] > 0}
        n == Cardinality(winners)
        paying == {d \in losers : c \in losers => d >= c}
    IN  (IF c \in losers THEN -Lost(g, c) ELSE 0)
      + (IF c < n THEN MapThenSumSet(LAMBDA d : Lost(g, d) \div n, paying) ELSE 0)

Winners(g) == {c \in Alive(g) : \A d \in Alive(g) : g.hands[d] <= g.hands[c]}

\* Mutant: the result is shown and nothing ends it.
StartResultUntimed(g) ==
    [g EXCEPT !.status = "Result", !.loser = @ \cup (Alive(g) \ Winners(g)),
              !.settled = @ + 1]

\* All who are left are compared; the records change each time this runs.
StartResult(g) ==
    LET paid == {c \in Chairs : WinScore(g, Winners(g), c) > 0}
    IN  [g EXCEPT !.status = "Result",
                  !.loser = @ \cup (Alive(g) \ Winners(g)),
                  !.heir = IF paid = {} THEN g.banker ELSE Max(paid),
                  !.settled = @ + 1,
                  !.result = LongDelay]

StartPourScore(g) ==
    [g EXCEPT !.status = "PourScore", !.pour = PourTime,
              !.turn = ShortDelay, !.turnOf = g.cur]

\* Mutant: the last player goes on alone.
EndPourGoesOn(g) ==
    LET h == [g EXCEPT !.pour = Off]
    IN  IF GetCurRound(g) > MaxRound /\ g.cur = LastChair(g) THEN StartResult(h)
        ELSE StartPourScore([h EXCEPT !.cur = After(g.cur, Alive(g))])

EndPourScore(g) ==
    LET h == [g EXCEPT !.pour = Off]
    IN  IF \/ GetCurRound(g) > MaxRound /\ g.cur = LastChair(g)
           \/ Cardinality(Alive(g)) = 1
        THEN StartResult(h)
        ELSE StartPourScore([h EXCEPT !.cur = After(g.cur, Alive(g))])

\* Mutant: who has lost may act.
LoserCanAct(g, c) == g.status = "PourScore" /\ g.cur = c /\ c \in g.playing

CanAct(g, c) ==
    /\ g.status = "PourScore" /\ g.cur = c
    /\ c \in g.playing /\ c \notin g.loser

\* Mutant: a comparison lets the turn's task run.
CompareKeepsTask(g, from, to, force) ==
    LET won == g.hands[from] > g.hands[to]
        h == [g EXCEPT !.loser = @ \cup {IF won THEN to ELSE from}]
    IN  IF ~(from \in Alive(g) /\ to \in Alive(g)) THEN g
        ELSE IF CanAct(g, from)
             THEN [h EXCEPT !.pours[from] = @ + 1, !.compare = LongDelay,
                            !.forced = force /\ (won \/ from = to),
                            !.hasty = Hasty(g)]
        ELSE IF g.status = "Result" THEN h ELSE g

(* onGameCompare with enough score or by force.  While pouring, the one who  *)
(* compares pours first.  Between equal hands the one who compares loses.    *)
Compare(g, from, to, force) ==
    LET won == g.hands[from] > g.hands[to]
        h == [g EXCEPT !.loser = @ \cup {IF won THEN to ELSE from}, !.pour = Off]
    IN  IF ~(from \in Alive(g) /\ to \in Alive(g)) THEN g
        ELSE IF CanAct(g, from)
             THEN [h EXCEPT !.pours[from] = @ + 1, !.compare = LongDelay,
                            !.forced = force /\ (won \/ from = to),
                            !.hasty = Hasty(g)]
        ELSE IF g.status = "Result" THEN h ELSE g

OnGameAbandon(g, c) ==
    IF ~CanAct(g, c) THEN g
    ELSE [g EXCEPT !.pour = Off, !.loser = @ \cup {c},
                   !.abandons[ShortDelay] = @ + 1, !.hasty = Hasty(g)]

(* A player without enough score is to compare with one of the others.  The  *)
(* code removes one of the two entries that the player has in the list, and  *)
(* takes the other one.                                                      *)
OnGamePourScore(g, c, short) ==
    LET h == [g EXCEPT !.short = @ \cup {c}]
    IN  IF c \notin g.playing THEN g
        ELSE IF short THEN Compare(h, c, c, TRUE)
        ELSE IF CanAct(g, c)
             THEN EndPourScore([g EXCEPT !.pours[c] = @ + 1, !.hasty = Hasty(g)])
        ELSE g

OnGameTrust(g, c, on) ==
    LET h == [g EXCEPT !.trust = IF on THEN @ \cup {c} ELSE @ \ {c}]
    IN  IF on THEN OnGameAbandon(h, c) ELSE h

\* delScheduleIDs stops the tasks and none of the timers.
OnEventRoomDismiss(g) ==
    [g EXCEPT !.dismissed = TRUE, !.pour = Off, !.trustTask = FALSE]

\* resetGame and gameEnd, with what the room's ConcludeGame does.
EndResult(g) ==
    LET h == [g EXCEPT !.status = "None", !.pours = Zero, !.loser = {},
                       !.short = {}, !.banker = g.heir]
        t == [h EXCEPT !.started = FALSE, !.playing = {}]
    IN  IF ~g.started THEN h
        ELSE IF g.bureau >= MaxBureau /\ ~g.dismissed THEN OnEventRoomDismiss(t)
        ELSE t

-----------------------------------------------------------------------------
(* The room's steps. *)

\* The banker of the first bureau is the chair of any user, a watcher's too.
StartGame ==
    /\ ~game.started /\ ~game.dismissed
    /\ \E players \in SUBSET Chairs, b \in Chairs, deal \in Deals :
          LET banker == IF game.bureau = 0 THEN b ELSE game.banker
          IN  /\ Cardinality(players) >= MinPlayers
              /\ game' = [game EXCEPT
                    !.started = TRUE, !.playing = players, !.banker = banker,
                    !.bureau = @ + 1, !.cur = After(banker, players),
                    !.status = "SendCards", !.cards = ShortDelay, !.hands = deal,
                    !.pours = [c \in Chairs |-> IF c \in players THEN 1 ELSE @[c]],
                    !.settled = 0, !.trustTask = @ \/ CanTrust]

Vote ==
    /\ ~game.dismissed
    /\ game' = [game EXCEPT !.dismissing = ~@]

Dismiss ==
    /\ ~game.dismissed
    /\ game' = OnEventRoomDismiss(game)

(* The messages.  After a dismissal none finds the room. *)

MayAct == ~game.dismissed /\ (Decided(game) => game.hasty < MaxHasty)

\* Once a player's score is not enough it is not for the rest of the bureau.
Shortness(c) == IF ~UnionRoom THEN {FALSE}
                ELSE IF c \in game.short THEN {TRUE} ELSE BOOLEAN

Pour(c) ==
    /\ MayAct /\ game.pours[c] < MaxPours
    /\ \E short \in Shortness(c) : game' = OnGamePourScore(game, c, short)

\* A player without enough score meets any of those who are left.
AskCompare(c) ==
    /\ MayAct /\ game.pours[c] < MaxPours
    /\ \E to \in Chairs, short \in Shortness(c), d \in Chairs :
          IF short /\ {c, to} \subseteq Alive(game)
          THEN /\ d \in Alive(game) \ {c} \/ (Alive(game) = {c} /\ d = 0)
               /\ game' = Compare([game EXCEPT !.short = @ \cup {c}], c, d, TRUE)
          ELSE d = 0 /\ game' = Compare(game, c, to, FALSE)

Abandon(c) ==
    /\ MayAct
    /\ game' = OnGameAbandon(game, c)

Trust(c) ==
    /\ MayAct /\ c \in Trusters
    /\ \E on \in BOOLEAN : game' = OnGameTrust(game, c, on)

(* The tasks and timers.  How long a user has been slow is not kept. *)

TrustTask ==
    /\ Decided(game) => game.hasty < MaxHasty
    /\ game.trustTask /\ ~game.dismissing
    /\ game.status = "PourScore"
    /\ game.cur \in (Trusters \cap game.playing) \ game.trust
    /\ game' = OnGameTrust(game, game.cur, TRUE)

PourDue == game.pour = 0 /\ ~game.dismissing /\ CanAct(game, game.cur)

PourTick ==
    /\ PourDue
    /\ game' = OnGameAbandon(game, game.cur)

CardsTimer ==
    /\ game.cards = 0
    /\ game' = StartPourScore([game EXCEPT !.cards = Off])

\* Mutant: the turn's task is stopped for every player.
TurnTimerStops ==
    /\ game.turn = 0
    /\ LET h == [game EXCEPT !.turn = Off, !.pour = Off]
       IN  game' = IF h.status = "PourScore" /\ h.turnOf \in h.trust /\ h.cur = h.turnOf
                   THEN OnGameAbandon(h, h.cur) ELSE h

\* The stop token it sends is read at once, long before the next turn.
TurnTimer ==
    /\ game.turn = 0
    /\ LET h == [game EXCEPT !.turn = Off]
       IN  game' = IF h.status = "PourScore" /\ h.turnOf \in h.trust /\ h.cur = h.turnOf
                   THEN OnGameAbandon([h EXCEPT !.pour = Off], h.cur)
                   ELSE h

\* The one whose forced comparison was won goes on with any other player,
\* also with one who has lost.
CompareTimer ==
    /\ game.compare = 0
    /\ LET h == [game EXCEPT !.compare = Off, !.forced = FALSE]
           others == h.playing \ {h.cur}
       IN  IF game.forced /\ others # {}
           THEN \E d \in others :
                   game' = Compare([h EXCEPT !.pour = Off], h.cur, d, TRUE)
           ELSE game' = EndPourScore(h)

\* Mutant: the timer repeats itself.
AbandonTicker ==
    /\ game.abandons[0] > 0
    /\ game' = EndPourScore(game)

AbandonTimer ==
    /\ game.abandons[0] > 0
    /\ game' = EndPourScore([game EXCEPT !.abandons[0] = @ - 1])

\* Of two timers of three seconds the comparison's was set first.
ResultTimer ==
    /\ game.result = 0 /\ game.compare # 0
    /\ game' = EndResult([game EXCEPT !.result = Off])

\* Mutant: also a timer that is not set counts down.
EarlierAlways(clock) == clock - 1

Earlier(clock) == IF clock > 0 THEN clock - 1 ELSE clock

Second ==
    /\ ~PourDue
    /\ 0 \notin {game.cards, game.turn, game.compare, game.result}
    /\ game.abandons[0] = 0
    /\ game' = [game EXCEPT
          !.cards = Earlier(@), !.turn = Earlier(@), !.compare = Earlier(@),
          !.result = Earlier(@),
          !.pour = IF game.dismissing THEN @ ELSE Earlier(@),
          !.abandons = [i \in 0 .. ShortDelay |->
                           IF i = ShortDelay THEN 0 ELSE @[i + 1]]]

Init == game = NewGameFrame

ChairStep(c) == Pour(c) \/ AskCompare(c) \/ Abandon(c) \/ Trust(c)

TimerStep ==
    \/ TrustTask \/ PourTick \/ CardsTimer \/ TurnTimer
    \/ CompareTimer \/ AbandonTimer \/ ResultTimer

Next ==
    \/ StartGame \/ Vote \/ Dismiss
    \/ \E c \in Chairs : ChairStep(c)
    \/ TimerStep \/ Second

Spec == Init /\ [][Next]_vars

\* Time passes, and a task or a timer that is due fires.
Fairness ==
    /\ WF_vars(Second) /\ WF_vars(PourTick) /\ WF_vars(CardsTimer)
    /\ WF_vars(TurnTimer) /\ WF_vars(CompareTimer) /\ WF_vars(AbandonTimer)
    /\ WF_vars(ResultTimer)

FairSpec == Spec /\ Fairness

-----------------------------------------------------------------------------
(* Properties. *)

\* The frame has the type its struct gives it.
TypeOK == game \in GameType

Calm == game.hasty = 0 /\ ~UnionRoom

(* Every stage of a bureau has something that will end it, and a turn has    *)
(* exactly one: its task, the comparison that is shown, or the abandon.      *)
StageIsTimed ==
    /\ game.status = "SendCards" => game.cards # Off
    /\ game.status = "Result" => game.result # Off
    /\ (Calm /\ game.status = "PourScore" /\ ~game.dismissed) =>
            /\ (game.pour # Off) <=> ~Decided(game)
            /\ ~(game.compare # Off /\ AbandonPending(game))

(* While cards are dealt and bets are made a bureau never loses its last     *)
(* player: somebody is left to win it.                                       *)
WinnerRemains ==
    (Calm /\ game.status \in {"SendCards", "PourScore"}) => Alive(game) # {}

(* The scores of a bureau are added to the players' records at most once.    *)
SettledOnce == Calm => game.settled <= 1

(* Those who are left have poured equally often, up to the turn.             *)
RoundsEven ==
    Calm => \A c, d \in Alive(game) : game.pours[c] <= game.pours[d] + 1

(* A player who has lost pours no more in that bureau.                       *)
LosersDoNotPour ==
    [][\A c \in game.loser : c \in game.loser' => game.pours'[c] = game.pours[c]]_vars

(* A turn passes, whatever the players do or leave, unless the room votes    *)
(* again and again: the task does not count while a vote runs.               *)
TurnPasses ==
    (<>[]~game.dismissing) =>
        \A c \in Chairs :
            (Calm /\ game.status = "PourScore" /\ game.cur = c)
                ~> (game.status # "PourScore" \/ game.cur # c \/ game.dismissed \/ ~Calm)

(* What the comments promise and the code does not do.                       *)

(* endPourScore counts the players who have not lost, for the result when    *)
(* "only one is left".  Somebody is always left, whatever the players do.    *)
OneIsLeft ==
    (~UnionRoom /\ game.status = "PourScore") => Alive(game) # {}

(* "The score is not enough, comparing goes on": in a turn something still   *)
(* happens by itself, the task or the timer that goes on comparing.          *)
ComparingGoesOn ==
    (game.status = "PourScore" /\ ~game.dismissed) =>
        game.pour # Off \/ Decided(game)
=============================================================================
