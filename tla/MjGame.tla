------------------------------- MODULE MjGame -------------------------------
(***************************************************************************)
(* The mahjong game of a room: game/component/mj/game.go and logic.go.     *)
(*                                                                         *)
(* A bureau deals hands; in turn a player draws a tile and discards one,   *)
(* lays four of a kind or wins.  A discard may be claimed by a player who  *)
(* has two or three of it.  Turns and claims are also ended by tasks, by   *)
(* the server for players who handed over to it (trust), and by the end of *)
(* the tiles.                                                              *)
(*                                                                         *)
(* Time is left out: a task or timer that is set may fire at any moment,   *)
(* or wait (a vote of the room only makes them wait: it is left out).      *)
(* Tasks are stopped by tokens that a goroutine reads.  Mostly it has read *)
(* the token when the next task is made (race = "swift"); it may also read *)
(* it too late and stop the new task ("late", and "twice" when the handler *)
(* had sent a second one).                                                 *)
(*                                                                         *)
(* The room's chairs are taken by players who stay.  A message may name     *)
(* any tile, and come before there is a record; messages that change        *)
(* nothing are left out.  There are four of each tile (HongZhong4); with    *)
(* eight jokers two players could claim one.                                *)
(***************************************************************************)
EXTENDS MjHu

CONSTANTS
    ChairCount,    \* users of the room: getChairCount
    HandSize,      \* 13: tiles of a hand that is not to discard
    Ma,            \* rule.Ma: tiles that are turned up for the winner
    Chunniunai,    \* rule.Chunniunai: one more for a hand without jokers
    BaseScore,     \* rule.BaseScore
    UnionRoom,     \* a union created the room: nobody loses more than Purse
    Purse,         \* the score of every user
    MaxBureau,     \* bureaus the room plays
    CanTrust,      \* rule.CanTrust: the server takes over for slow players
    Decks,         \* bound: the shuffled tiles of each bureau, as sequences
    Trusters,      \* bound: the chairs that hand over or are slow
    TestCards,     \* bound: chairs and the tiles GameGetCardNotify asks for
    Namers,        \* bound: the chairs whose messages name what is not theirs to discard or claim
    NamedCards,    \* bound: what they name: tiles or other numbers
    MaxLate        \* bound: tokens that are read too late

Chairs == 0 .. (ChairCount - 1)
Kinds == Tiles \cup {Zhong}

ASSUME MjAssumption ==
    /\ ChairCount \in Nat \ {0}
    /\ HandSize \in Nat /\ HandSize % 3 = 1
    /\ Ma \in Nat
    /\ Chunniunai \in BOOLEAN
    /\ BaseScore \in Nat \ {0}
    /\ UnionRoom \in BOOLEAN
    /\ Purse \in Nat
    /\ MaxBureau \in Nat \ {0}
    /\ CanTrust \in BOOLEAN
    /\ \A b \in 1 .. MaxBureau : \A d \in Decks[b] :
          d \in Seq(Kinds) /\ Len(d) >= ChairCount * HandSize
    /\ \A b \in 1 .. MaxBureau : \A d \in Decks[b] :
          \A t \in Kinds : CardCount(d, t) <= 4
    /\ Trusters \subseteq Chairs
    /\ TestCards \subseteq Chairs \X Kinds
    /\ Namers \subseteq Chairs
    /\ NamedCards \subseteq Nat \ {0}
    /\ MaxLate \in Nat

VARIABLE game  \* the GameFrame, its tasks and timers, and what it sees of the room

vars == <<game>>

-----------------------------------------------------------------------------
(* State. *)

Off == -1                         \* no chair
OperateType == {"Get", "Qi", "Peng", "GangChi", "GangZi", "GangBu", "HuZi", "HuChi", "Guo"}
NoCard == 0                       \* no tile is named; the nil card of a claim that timed out
Cards == Kinds \cup NamedCards \cup {NoCard}
OperateRecord == [chair: Chairs, operate: OperateType, card: Cards]

GameType == [
    status: {"None", "Dices", "Playing", "Result"},
    ready: SUBSET Chairs,            \* users with the ready bit
    started: BOOLEAN,                \* the room's gameStarted
    dismissed: BOOLEAN,
    down: BOOLEAN,                   \* the process ended with a panic
    bureau: Nat,
    banker: Chairs \cup {Off},
    winner: Chairs \cup {Off},       \* WinChairIDArray[0] of the last review
    cur: Chairs \cup {Off},          \* curChairID
    gang: Chairs \cup {Off},         \* gangChairID
    deck: Seq(Kinds),
    hands: [Chairs -> Seq(Kinds)],
    ops: [Chairs -> SUBSET OperateType],  \* operateArrays
    record: Seq(OperateRecord),      \* operateRecord
    test: [Chairs -> Kinds \cup {NoCard}],
    trust: SUBSET Chairs,            \* userTrustArray
    scores: [Chairs -> Int],         \* the scores of the last result
    settled: Nat,                    \* results made in this bureau
    turnTask: Chairs \cup {Off},     \* turnSchedule, and the chair of its closure
    turnLost: SUBSET Chairs,         \* turn tasks that run and that nothing can stop
    claimTask: SUBSET Chairs,        \* scheduleOperate
    autos: SUBSET Chairs,            \* AfterFuncs of userAutoOperate
    cards: BOOLEAN,                  \* the AfterFunc of sendHandCards
    ends: Nat,                       \* the AfterFuncs of gameEnd
    prepareTask: BOOLEAN,            \* forcePrepareID
    trustTask: BOOLEAN,              \* userTrustSchedule
    late: Nat,                       \* tokens that were read too late
    refused: BOOLEAN,                \* an act that was refused has stopped the turn's task
    stray: BOOLEAN]                  \* a bureau was reset before all its timers and claims' tasks
                                     \* had ended, or a tile was laid that the hand lacks

NewGameFrame == [
    status |-> "None", ready |-> {}, started |-> FALSE, dismissed |-> FALSE,
    down |-> FALSE, bureau |-> 0, banker |-> Off, winner |-> Off,
    cur |-> Off, gang |-> Off, deck |-> <<>>, hands |-> [c \in Chairs |-> <<>>],
    ops |-> [c \in Chairs |-> {}], record |-> <<>>, test |-> [c \in Chairs |-> NoCard],
    trust |-> {}, scores |-> [c \in Chairs |-> 0], settled |-> 0,
    turnTask |-> Off, turnLost |-> {}, claimTask |-> {}, autos |-> {},
    cards |-> FALSE, ends |-> 0, prepareTask |-> FALSE, trustTask |-> FALSE, late |-> 0,
    refused |-> FALSE, stray |-> FALSE]

After(c) == (c + 1) % ChairCount
LastOf(s) == s[Len(s)]

\* Each tile goes where its place is among the others.
Sorted(hand) ==
    LET place(i) == Cardinality({j \in DOMAIN hand :
                        hand[j] < hand[i] \/ (hand[j] = hand[i] /\ j <= i)})
    IN  [k \in DOMAIN hand |-> hand[CHOOSE i \in DOMAIN hand : place(i) = k]]

\* Some chairs in their order.
InOrder(chairs) ==
    [k \in 1 .. Cardinality(chairs) |->
        CHOOSE c \in chairs : Cardinality({d \in chairs : d <= c}) = k]

\* delCardFromArray takes the last ones away.
DelCard(hand, t, n) ==
    FoldLeft(LAMBDA h, i : IF CardCount(h, t) = 0 THEN h
                           ELSE RemoveAt(h, Max({j \in DOMAIN h : h[j] = t})),
             hand, [i \in 1 .. n |-> i])

Recorded(g, c, operate, t) ==
    [g EXCEPT !.record = Append(@, [chair |-> c, operate |-> operate, card |-> t])]

Records(g, c, operate) == {i \in DOMAIN g.record :
                              g.record[i].chair = c /\ g.record[i].operate = operate}

IsFirstTurn(g, c) ==
    \A i \in DOMAIN g.record : g.record[i].chair = c => g.record[i].operate = "Get"

-----------------------------------------------------------------------------
(* The result of a bureau. *)

\* One player pays another, in a union's room no more than he has.
Pay(scores, from, to, amount) ==
    LET paid == IF UnionRoom THEN Min({amount, Purse + scores[from]}) ELSE amount
    IN  [c \in Chairs |-> scores[c] - (IF c = from THEN paid ELSE 0)
                                    + (IF c = to THEN paid ELSE 0)]

\* The last three records are searched; after a win each one names a winner.
WinChairIDArray(g) ==
    LET from == Max({1, Len(g.record) - 2})
        wins(i) == {j \in from .. i : g.record[j].operate \in {"HuZi", "HuChi"}}
        at == {i \in from .. Len(g.record) : wins(i) # {}}
    IN  [k \in 1 .. Cardinality(at) |->
            g.record[Max(wins(Len(g.record) - Cardinality(at) + k))].chair]

MaTiles == {t \in Tiles : t % 10 \in {1, 5, 9}} \cup {Zhong}

MaCount(g, winners) ==
    IF Chunniunai /\ Len(winners) = 1 /\ CardCount(g.hands[winners[1]], Zhong) = 0
    THEN Ma + 1 ELSE Ma

\* getCards gives all the tiles or none; without one there is no maCards[0].
MaCards(g, winners) ==
    IF winners = <<>> \/ Len(g.deck) < MaCount(g, winners) THEN <<>>
    ELSE SubSeq(g.deck, 1, MaCount(g, winners))

Panics(g, winners) == winners # <<>> /\ Ma = 1 /\ MaCards(g, winners) = <<>>

\* What each loser pays a winner, in units.
WinUnits(ma) ==
    IF Ma = 1 THEN 2 + (IF ma[1] = Zhong THEN 10 ELSE ma[1] % 10)
    ELSE 2 + 2 * Cardinality({i \in DOMAIN ma : ma[i] \in MaTiles})

\* One player pays all winners, or each loser does.
WinScores(g, winners, ma) ==
    LET stake == WinUnits(ma) * BaseScore * Len(winners)
        share(paid) == paid \div Len(winners)
        paid(from, amount) == IF UnionRoom THEN Min({amount, Purse}) ELSE amount
        pays(from) ==
            IF LastOf(g.record).operate = "HuZi"
            THEN IF \E k \in DOMAIN winners : winners[k] = from THEN 0 ELSE paid(from, stake)
            ELSE IF LastOf(g.record).operate = "HuChi" /\ from = g.gang
                 THEN paid(from, stake * (ChairCount - 1)) ELSE 0
        gets(c) == Cardinality({k \in DOMAIN winners : winners[k] = c})
                     * FoldFunction(+, 0, [d \in Chairs |-> share(pays(d))])
    IN  [c \in Chairs |-> gets(c) - pays(c)]

\* Mutant: a tile laid to a triple is paid by the rate of four of a kind.
GangScoresDouble(g, scores) ==
    LET n(c) == Cardinality(Records(g, c, "GangBu"))
    IN  [c \in Chairs |-> scores[c] + 2 * n(c) * (ChairCount - 1)
                            - FoldFunction(+, 0, [d \in Chairs \ {c} |-> n(d)])]

\* Who laid four of a kind is paid by all, or by the one who discarded it.
GangScores(g, scores) ==
    LET Each(sc, c, amount) ==
            FoldLeft(LAMBDA s, i : IF i - 1 = c THEN s ELSE Pay(s, i - 1, c, amount),
                     sc, [i \in 1 .. ChairCount |-> i])
        Step(sc, i) ==
            LET e == g.record[i]
            IN  IF e.operate = "GangZi" THEN Each(sc, e.chair, 2 * BaseScore)
                ELSE IF e.operate = "GangBu" THEN Each(sc, e.chair, BaseScore)
                ELSE IF e.operate = "GangChi"
                     THEN Pay(sc, g.record[i - 1].chair, e.chair, 3 * BaseScore)
                ELSE sc
    IN  FoldLeft(Step, scores, [i \in DOMAIN g.record |-> i])

(* gameEnd shows the result; two timers end the bureau and prepare the next. *)
(* Without a winner nobody pays.                                             *)
GameEnd(g) ==
    LET winners == WinChairIDArray(g)
        ma == MaCards(g, winners)
        scores == IF winners = <<>> THEN [c \in Chairs |-> 0]
                  ELSE GangScores(g, WinScores(g, winners, ma))
    IN  IF Panics(g, winners) THEN [g EXCEPT !.down = TRUE]
        ELSE [g EXCEPT
            !.status = "Result", !.trustTask = FALSE,
            !.deck = SubSeq(@, Len(ma) + 1, Len(@)),
            !.winner = IF winners = <<>> THEN Off ELSE winners[1],
            !.scores = scores, !.settled = @ + 1, !.ends = @ + 1,
            !.prepareTask = @ \/ g.bureau # MaxBureau]

\* Tasks and timers that run are left alone.
ResetGame(g) ==
    [g EXCEPT !.status = "None", !.cur = Off, !.gang = Off,
              !.ops = [c \in Chairs |-> {}], !.record = <<>>,
              !.hands = [c \in Chairs |-> <<>>], !.settled = 0]

\* delScheduleIDs stops the tasks it still knows.
OnEventRoomDismiss(g) ==
    [g EXCEPT !.dismissed = TRUE, !.claimTask = {}, !.trustTask = FALSE,
              !.turnTask = Off, !.prepareTask = FALSE]

ConcludeGame(g) ==
    LET h == [g EXCEPT !.started = FALSE, !.ready = {}]
    IN  IF ~g.started THEN g
        ELSE IF g.bureau >= MaxBureau THEN OnEventRoomDismiss(h) ELSE h

-----------------------------------------------------------------------------
(* Turns. *)

\* The tile a player draws: the one he asked for, when it is left, or the top.
Drawn(g, c) ==
    IF \E i \in DOMAIN g.deck : g.deck[i] = g.test[c] THEN g.test[c] ELSE g.deck[1]

\* What a player may do with the tile he drew.
MyOperateArray(g, c, t) ==
    {"Qi"}
      \cup (IF \E u \in Kinds : CardCount(g.hands[c], u) >= 4 THEN {"GangZi"} ELSE {})
      \cup (IF \E i \in Records(g, c, "Peng") : g.record[i].card = t THEN {"GangBu"} ELSE {})
      \cup (IF \/ CheckHu(g.hands[c], NoCard)
               \/ IsFirstTurn(g, c) /\ CardCount(g.hands[c], Zhong) = 4
            THEN {"HuZi"} ELSE {})

Races(g, old) == IF old = Off \/ g.late >= MaxLate THEN {"swift"}
                 ELSE {"swift", "late", "twice"}

(* What a handler may lead to is a set of games.  setTurn: the end of the    *)
(* tiles ends the bureau; else the chair draws and its task starts.  old is  *)
(* the task that a token is to stop.                                         *)
SetTurn(g, old, c) ==
    LET t == Drawn(g, c)
        at == Min({i \in DOMAIN g.deck : g.deck[i] = t})
        h == [g EXCEPT !.cur = c, !.hands[c] = Append(@, t), !.deck = RemoveAt(@, at),
                       !.test[c] = NoCard]
    IN  IF Len(g.deck) <= Ma THEN {GameEnd(g)}
        ELSE IF Len(g.hands[c]) = HandSize + 1 THEN {[g EXCEPT !.cur = c]}
        ELSE {[Recorded(h, c, "Get", t) EXCEPT
                 !.ops[c] = MyOperateArray(h, c, t),
                 !.turnTask = IF race = "swift" THEN c ELSE Off,
                 !.turnLost = IF race = "late" THEN @ \cup {old} ELSE @,
                 !.late = IF race = "swift" THEN @ ELSE @ + 1,
                 !.refused = FALSE,
                 !.autos = IF c \in g.trust THEN @ \cup {c} ELSE @] : race \in Races(g, old)}

\* Mutant: a win on another player's tile is offered to everybody.
OperateArrayWithHu(g, c, t) ==
    UNION {IF ops = {} THEN {} ELSE ops \cup {"Guo"} : ops \in
      {{operate \in {"Peng", "GangChi", "HuChi"} :
          CASE operate = "Peng" -> CardCount(g.hands[c], t) >= 2
            [] operate = "GangChi" -> CardCount(g.hands[c], t) >= 3
            [] OTHER -> CheckHu(g.hands[c], t)}}}

(* What a player may do with a discarded tile.  nextTurn takes HuChi out     *)
(* again unless somebody lays a fourth tile.                                 *)
OperateArray(g, c, t) ==
    UNION {IF ops = {} THEN {} ELSE ops \cup {"Guo"} : ops \in
      {{operate \in {"Peng", "GangChi", "HuChi"} :
          CASE operate = "Peng" -> CardCount(g.hands[c], t) >= 2
            [] operate = "GangChi" -> CardCount(g.hands[c], t) >= 3
            [] OTHER -> g.gang # Off /\ CheckHu(g.hands[c], t)}}}

\* Who is offered something may claim, else the turn passes.
Opened(g, old, offers) ==
    LET claims == {c \in DOMAIN offers : offers[c] # {}}
    IN  IF claims = {} THEN SetTurn(g, old, After(g.cur))
        ELSE {[g EXCEPT
                 !.ops = [c \in Chairs |-> IF c \in claims THEN offers[c] ELSE @[c]],
                 !.claimTask = @ \cup claims,
                 !.autos = @ \cup (claims \cap g.trust)]}

\* nextTurn opens claims on a discarded tile, or passes the turn.  Looking at
\* the other hands sorts them.
NextTurn(g, old, t) ==
    LET others == Chairs \ {g.cur}
        sorted == [g EXCEPT !.hands = [c \in Chairs |-> IF c \in others THEN Sorted(@[c]) ELSE @[c]]]
    IN  UNION {Opened(sorted, old, offers) :
            offers \in {[c \in others |-> OperateArray(g, c, t)]}}

-----------------------------------------------------------------------------
(* What players do.  Each act that is accepted stops the turn's task.        *)

\* The last tile of a hand; without one the index is out of range.
OwnLast(hand) == IF hand = <<>> THEN NoCard ELSE LastOf(hand)

\* The tile that is named, or else the last one recorded or the hand's own; a
\* discard has to name one.
MeantCard(g, c, operate, named) ==
    LET hand == g.hands[c]
        fours == {t \in Kinds : CardCount(hand, t) >= 4}
    IN  IF named # NoCard \/ operate = "Qi" THEN named
        ELSE IF operate \in {"Peng", "GangChi", "HuChi", "Guo"} THEN LastOf(g.record).card
        ELSE IF operate = "GangZi" /\ hand # <<>> THEN Max(IF fours # {} THEN fours ELSE Range(hand))
        ELSE OwnLast(hand)

\* An act that is refused has stopped the turn's task.
Refused(g) == [g EXCEPT !.refused = TRUE]

\* Mutant: a claim that was taken leaves the task that would give it up.
OnPengKeepsTask(g, c, t) ==
    {[Recorded(g, c, "Peng", t) EXCEPT
        !.hands[c] = DelCard(@, t, 2), !.ops[c] = {"Qi"}, !.cur = c,
        !.autos = IF c \in g.trust THEN @ \cup {c} ELSE @]}

\* The turn of who takes a pair has no task.
OnPeng(g, c, t) ==
    IF CardCount(g.hands[c], t) < 2 THEN {g}
    ELSE {[Recorded(g, c, "Peng", t) EXCEPT
             !.claimTask = @ \ {c}, !.hands[c] = DelCard(@, t, 2),
             !.ops[c] = {"Qi"}, !.cur = c,
             !.autos = IF c \in g.trust THEN @ \cup {c} ELSE @]}

\* Mutant: only two tiles are taken from the hand.
OnGangChiTwo(g, old, c, t) ==
    UNION {SetTurn(h, old, c) :
        h \in {[Recorded(g, c, "GangChi", t) EXCEPT
                  !.claimTask = @ \ {c}, !.hands[c] = DelCard(@, t, 2)]}}

OnGangChi(g, old, c, t) ==
    IF CardCount(g.hands[c], t) < 3 THEN {g}
    ELSE UNION {SetTurn(h, old, c) :
            h \in {[Recorded(g, c, "GangChi", t) EXCEPT
                      !.claimTask = @ \ {c}, !.hands[c] = DelCard(@, t, 3)]}}

OnGuo(g, old, c, t) ==
    UNION {SetTurn(h, old, After(g.cur)) :
        h \in {[Recorded(g, c, "Guo", t) EXCEPT !.claimTask = @ \ {c}, !.ops[c] = {}]}}

\* Mutant: the winner's acts stay open.
OnHuZiOpen(g, c, t) ==
    IF CheckHu(g.hands[c], NoCard) THEN {GameEnd(h) : h \in {Recorded(g, c, "HuZi", t)}} ELSE {g}

OnHuZi(g, c, t) ==
    IF \/ CheckHu(g.hands[c], NoCard)
       \/ IsFirstTurn(g, c) /\ CardCount(g.hands[c], Zhong) = 4
    THEN {GameEnd(h) : h \in {[Recorded(g, c, "HuZi", t) EXCEPT !.ops[c] = {}]}}
    ELSE {g}

\* A fourth tile is laid to a triple that was taken; others may win on it.
\* Nobody looks whether the hand has it.
OnGangBu(g, old, c, t) ==
    LET robbers == {d \in Chairs \ {c} : CheckHu(g.hands[d], t)}
        wins == InOrder(robbers)
        stray == g.stray \/ CardCount(g.hands[c], t) = 0
        robbed == [g EXCEPT
            !.gang = c, !.stray = stray,
            !.record = @ \o [i \in DOMAIN wins |->
                               [chair |-> wins[i], operate |-> "HuChi", card |-> t]],
            !.hands = [d \in Chairs |-> IF d \in robbers THEN Append(@[d], t)
                                       ELSE IF d = c THEN DelCard(@[d], t, 1) ELSE @[d]],
            !.ops = [d \in Chairs |-> IF d \in robbers \cup {c} THEN {} ELSE @[d]]]
        laid == [Recorded(g, c, "GangBu", t) EXCEPT
                    !.hands[c] = DelCard(@, t, 1), !.ops[c] = {}, !.gang = Off, !.stray = stray]
    IN  IF ~\E i \in DOMAIN g.record : g.record[i].chair = c /\ g.record[i].operate = "Peng"
        THEN {g}
        ELSE IF \E d \in Chairs \ {c} : Unindexed(g.hands[d], t)
        THEN {[g EXCEPT !.down = TRUE, !.stray = stray]}
        ELSE IF robbers # {} THEN {GameEnd(h) : h \in {robbed}}
        ELSE UNION {SetTurn(h, old, c) : h \in {laid}}

OnGangZi(g, old, c, t) ==
    IF CardCount(g.hands[c], t) < 4 THEN {Refused(g)}
    ELSE UNION {SetTurn(h, old, c) :
            h \in {[Recorded(g, c, "GangZi", t) EXCEPT !.hands[c] = DelCard(@, t, 4)]}}

OnQi(g, old, c, t) ==
    IF CardCount(g.hands[c], t) = 0 THEN {Refused(g)}
    ELSE UNION {NextTurn(h, old, t) :
            h \in {[Recorded(g, c, "Qi", t) EXCEPT !.hands[c] = DelCard(@, t, 1), !.ops[c] = {}]}}

\* Claims are for those whose turn it is not, the other acts for the one whose it is.
Handled(h, old, c, operate, t) ==
    IF h.cur # c
    THEN CASE operate = "Peng" -> OnPeng(h, c, t)
           [] operate = "GangChi" -> OnGangChi(h, old, c, t)
           [] operate = "Guo" -> OnGuo(h, old, c, t)
           [] OTHER -> {h}
    ELSE CASE operate = "HuZi" -> OnHuZi(h, c, t)
           [] operate = "GangBu" -> OnGangBu(h, old, c, t)
           [] operate = "GangZi" -> OnGangZi(h, old, c, t)
           [] operate = "Qi" -> OnQi(h, old, c, t)
           [] OTHER -> {h}

\* An act looks at the last record before it looks at anything else.
OnGameTurnOperate(g, c, operate, named) ==
    IF g.record = <<>> THEN {[g EXCEPT !.down = TRUE]}
    ELSE IF \/ operate = "Qi" /\ LastOf(g.record).operate = "Qi" /\ LastOf(g.record).chair = c
            \/ operate \notin g.ops[c]
    THEN {g}
    ELSE UNION {IF t = NoCard /\ operate # "Qi" THEN {[g EXCEPT !.down = TRUE]}
                ELSE UNION {Handled(h, g.turnTask, c, operate, t) : h \in {[g EXCEPT !.turnTask = Off]}}
                : t \in {MeantCard(g, c, operate, named)}}

Trusting(g, c, on) ==
    [g EXCEPT !.trust = IF on THEN @ \cup {c} ELSE @ \ {c},
              !.autos = IF on THEN @ \cup {c} ELSE @]

-----------------------------------------------------------------------------
(* The room's steps and the messages. *)

\* Hands are dealt from the top.  scheduleOperate is made anew: OneClaim says
\* that no task is in it.
StartGame(g, deck) ==
    LET first == IF g.bureau = 0 THEN 0
                 ELSE IF g.winner # Off THEN g.winner ELSE After(g.banker)
    IN  [g EXCEPT !.started = TRUE, !.ready = {}, !.status = "Dices",
                  !.bureau = @ + 1, !.banker = first,
                  !.hands = [c \in Chairs |-> SubSeq(deck, c * HandSize + 1, (c + 1) * HandSize)],
                  !.deck = SubSeq(deck, ChairCount * HandSize + 1, Len(deck)),
                  !.claimTask = {},
                  !.prepareTask = FALSE, !.trustTask = CanTrust, !.cards = TRUE]

\* The room starts the game when the last user is ready.
UserReady(g, users, deck) ==
    LET h == [g EXCEPT !.ready = @ \cup users]
    IN  IF g.dismissed \/ g.started THEN g
        ELSE IF h.ready = Chairs THEN StartGame(h, deck) ELSE h

\* The tiles are shuffled when a bureau starts.
Shuffles == IF game.bureau < MaxBureau THEN Decks[game.bureau + 1] ELSE {<<>>}

Ready(c) ==
    /\ c \notin game.ready /\ ~game.started /\ ~game.dismissed
    /\ \E deck \in Shuffles : game' = UserReady(game, {c}, deck)

Dismiss ==
    /\ ~game.dismissed
    /\ game' = OnEventRoomDismiss(game)

\* A tile of the hand is discarded.
Discard(c) ==
    /\ "Qi" \in game.ops[c] /\ ~game.dismissed
    /\ \E t \in Range(game.hands[c]) : game' \in OnGameTurnOperate(game, c, "Qi", t)

\* The other messages name a tile or none.
TurnOperate(c) ==
    /\ ~game.dismissed
    /\ \E operate \in OperateType, named \in NamedCards \cup {NoCard} :
          /\ c \in Namers \/ (operate # "Qi" /\ named = NoCard)
          /\ game.record = <<>> \/ operate \in game.ops[c]
          /\ game' \in OnGameTurnOperate(game, c, operate, named)

\* Bound: asked for before the first draw.
GetCard(c) ==
    /\ ~game.dismissed /\ game.status = "Dices"
    /\ \E e \in TestCards : e[1] = c /\ game' = [game EXCEPT !.test[c] = e[2]]

Trust(c) ==
    /\ ~game.dismissed /\ c \in Trusters
    /\ \E on \in BOOLEAN : game' = Trusting(game, c, on)

-----------------------------------------------------------------------------
(* The tasks and timers. *)

CardsTimer ==
    /\ game.cards
    /\ LET h == [game EXCEPT !.cards = FALSE]
       IN  IF game.dismissed THEN game' = h
           ELSE \E g \in {[h EXCEPT !.status = "Playing"]} :
                   game' \in SetTurn(g, g.turnTask, g.banker)

TurnTask ==
    /\ game.turnTask # Off
    /\ game' = [game EXCEPT !.autos = @ \cup {game.turnTask}, !.turnTask = Off]

\* A task that lost its pointer goes on, and its tokens stop the turn's own task.
TurnLost(c) ==
    /\ c \in game.turnLost
    /\ game' = [game EXCEPT !.autos = @ \cup {c}, !.turnTask = Off]

\* The claim is given up and the turn passes, without a look at the status.
GiveUp(g, c) ==
    UNION {SetTurn(h, g.turnTask, After(g.cur)) :
        h \in {[Recorded(g, c, "Guo", NoCard) EXCEPT !.claimTask = @ \ {c}, !.ops[c] = {}]}}

ClaimTask(c) ==
    /\ c \in game.claimTask
    /\ game' \in GiveUp(game, c)

\* The one-shot timer acts for the player: the last tile, or no claim.
AutoOperate(g, c) ==
    IF "Qi" \in g.ops[c] /\ g.hands[c] = <<>> THEN {[g EXCEPT !.down = TRUE]}
    ELSE UNION {OnGameTurnOperate(g, c, e[1], e[2]) :
            e \in IF "Qi" \in g.ops[c] THEN {<<"Qi", OwnLast(g.hands[c])>>} ELSE {<<"Guo", NoCard>>}}

AutoTimer(c) ==
    /\ c \in game.autos
    /\ \E h \in {[game EXCEPT !.autos = @ \ {c}]} :
          IF game.dismissed THEN game' = h
          ELSE \E acted \in IF h.ops[c] \cap {"Qi", "Guo"} # {} THEN AutoOperate(h, c) ELSE {h} :
                  IF acted.status # "None" \/ acted.down THEN game' = acted
                  ELSE \E deck \in Shuffles : game' = UserReady(acted, {c}, deck)

\* How long a user has been slow is not kept.
TrustTask(c) ==
    /\ game.trustTask /\ game.status = "Playing"
    /\ game.ops[c] # {} /\ c \in Trusters \ game.trust
    /\ game' = Trusting(game, c, TRUE)

\* Mutant: the timer fires although it is not set.
EndTimerUnset ==
    LET h == [game EXCEPT !.ends = @ - 1]
    IN  game' = IF game.dismissed THEN h ELSE ResetGame(ConcludeGame(h))

EndTimer ==
    /\ game.ends > 0
    /\ LET h == [game EXCEPT !.ends = @ - 1]
           reset == [ResetGame(ConcludeGame(h)) EXCEPT
                       !.stray = @ \/ h.ends > 0 \/ h.claimTask # {}]
       IN  game' = IF game.dismissed THEN h ELSE reset

PrepareTask ==
    /\ game.prepareTask
    /\ \E deck \in Shuffles :
          LET h == [game EXCEPT !.prepareTask = FALSE]
          IN  game' = IF h.status = "None" THEN UserReady(h, Chairs, deck) ELSE h

Init == game = NewGameFrame

ChairStep(c) ==
    \/ Ready(c) \/ Discard(c) \/ TurnOperate(c) \/ GetCard(c) \/ Trust(c)

TimerStep ==
    \/ CardsTimer \/ TurnTask \/ EndTimer \/ PrepareTask
    \/ \E c \in Chairs : TurnLost(c) \/ ClaimTask(c) \/ AutoTimer(c) \/ TrustTask(c)

\* After a panic there is no process.
Next ==
    /\ ~game.down
    /\ \/ Dismiss
       \/ \E c \in Chairs : ChairStep(c)
       \/ TimerStep

Spec == Init /\ [][Next]_vars

-----------------------------------------------------------------------------
(* Properties. *)

\* The frame has the type its struct gives it.
TypeOK == game \in GameType

\* No timer or claim's task of an earlier bureau ran on into a later one, and
\* nobody laid to a triple what he did not have.  In Calm games no token was
\* read too late and no act of this turn was refused that had stopped its task.
Tidy == ~game.stray
Calm == Tidy /\ game.late = 0 /\ ~game.refused

Claiming(g) == {c \in Chairs : "Guo" \in g.ops[c]}

(* At most one player has a claim at any time.  Nothing in the code orders   *)
(* two claims on a tile, the first answer moves the turn on: it relies on    *)
(* there being four of a tile, and on claims, with their tasks, that end     *)
(* before the next discard.                                                  *)
OneClaim ==
    Tidy => /\ Cardinality(Claiming(game)) <= 1
            /\ game.claimTask \subseteq Claiming(game)

(* While a tidy game is played exactly the player whose turn it is has a     *)
(* tile too many, and nobody has while a discard may be claimed: no player   *)
(* draws twice or is left out by claims, claims given up and turns ended by  *)
(* their tasks.                                                              *)
SurplusTile ==
    (Tidy /\ game.status = "Playing" /\ ~game.down) =>
        \A c \in Chairs :
            Len(game.hands[c]) % 3 =
                (IF c = game.cur /\ Claiming(game) = {} THEN 2 ELSE 1)

(* Who wins holds a complete hand, by the reference and not by the table.    *)
WinnerIsComplete ==
    game.status = "Result" =>
        \A k \in DOMAIN WinChairIDArray(game) :
            LET c == WinChairIDArray(game)[k]
            IN  IsComplete(game.hands[c]) \/ CardCount(game.hands[c], Zhong) = 4

(* What some lose the others win, also with four of a kind paid by the one   *)
(* who gave the tile.  (In a union's room a share that is cut is rounded.)   *)
ScoresBalance == ~UnionRoom => FoldFunction(+, 0, game.scores) = 0

\* The tiles ran out on four of a kind: setTurn ended the bureau, and what its
\* player was offered is still open to him.
EndedOnGang(g) ==
    \E i \in DOMAIN g.record :
        /\ g.record[i].operate \in {"GangChi", "GangZi"}
        /\ i < Len(g.record) => g.record[i + 1].operate # "Get"

(* A tidy bureau has one result, but for the acts that setTurn leaves open   *)
(* when the tiles run out on four of a kind; and the process meets no        *)
(* missing tile or record, but for the second tile that Chunniunai turns up  *)
(* when one is left, for a hand that those acts have emptied, and for an act *)
(* before the first record.                                                  *)
SettledOnce ==
    /\ (Tidy /\ ~EndedOnGang(game)) => game.settled <= 1
    /\ (Tidy /\ game.down /\ game.record # <<>>) =>
          (Chunniunai \/ EndedOnGang(game)) /\ Len(game.deck) <= Ma

(* Every stage has something that will end it.  While a calm game is played  *)
(* an open claim has its task and the turn has none; else the turn has its   *)
(* task or the timer that follows, but for the turn of who took a pair: only *)
(* the server that takes over for slow players, if the rule has it, ends it. *)
StageIsTimed ==
    (~game.dismissed /\ ~game.down) =>
        /\ (Tidy /\ game.status = "Dices") => game.cards
        /\ (Tidy /\ game.status = "Result") => game.ends > 0
        /\ (Calm /\ game.status = "Playing") =>
              IF Claiming(game) # {}
              THEN game.claimTask = Claiming(game) /\ game.turnTask = Off
              ELSE \/ game.turnTask = game.cur
                   \/ game.cur \in game.autos
                   \/ LastOf(game.record).operate = "Peng" /\ (CanTrust => game.trustTask)
=============================================================================
