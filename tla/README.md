# Specifications of the msqp game server

msqp is the backend of a card-game platform: clients connect by websocket to a
*connector*, the connector forwards their messages over NATS to a *hall* server
(accounts, unions, scores) or to a *game* server (rooms and the games played in
them), and MongoDB and Redis keep what has to survive. This directory holds
TLA+ modules for the parts whose behaviour is hard to test, the TLC
configurations that check them, and machine-checked proofs about them.

## 1. The system

| component | code | state it keeps | operations | how it meets the others |
|---|---|---|---|---|
| game room | `game/component/room/room.go` | users by uid, a separate count of them, started/finished flags, bureau numbers, the running vote, kick timers, start scheduler | enter, ready, leave, change seat, vote, dismiss, start game, conclude game | called by the handlers, by timers and by the game frame; calls the frame, the union, the user service and Redis |
| three-card game | `game/component/sz` | betting state of one bureau: status, turn, pours, losers, three timers | start, look, pour, compare, abandon, trust, result | called by the room and by its timers; ends with `ConcludeGame` on the room |
| mahjong game | `game/component/mj` | tiles, turn, claims on a tile, trustees, tasks of turns and claims | turn messages, tasks and timers, result | as above |
| hand evaluation | `game/component/mj/alg`, `sz/logic.go` | the tables of complete suits | is this hand complete; which of two hands is better | called by the games |
| union registry | `game/logic` | unions by id, rooms by id | create, join, quick join, dismiss, red envelopes, rules | owns rooms; a room removes itself through `DestroyRoom` |
| game handlers | `game/handler` | none | route a client's message to union and room | use the session's `roomId` |
| hall | `hall/handler` | none (database) | create, join and leave unions, move scores, safe box | `syncLock` in the user document keeps it and the rooms apart |
| persistence | `core/dao`, `core/service` | user, union and record documents, counters | find, update, lock, increment | used by hall and game |
| connections | `framework/net` | clients by id, pooled connections, worker channels | connect, read, write, close, dispatch | forwards to NATS, takes session updates and pushes |
| node messaging | `framework/node`, `framework/remote` | channels | one goroutine per message, asynchronous session updates | between connector and servers |
| tasks, rate limiter | `common/tasks`, `common/utils` | ticker, bucket | start, stop; allow, set rate | used by rooms, games, connector |
| account service, gate, discovery, configuration, wire protocol | `user`, `gate`, `common/discovery`, `framework/game`, `framework/protocol` | - | - | not modelled: see section 13 |

What is hard in it:

* **Room** - timers and messages meet in any order; a timer's closure keeps the
  record of a user who may have left; tasks are stopped by a token another
  goroutine reads later; dismissal is reached from seven places; locks are
  taken with `TryLock` and ignored when taken. *Correct* means: membership,
  count, database and timers agree; nobody who plays is removed; a bureau is
  played only by those who were ready; a dismissed room is quiet for ever.
* **Games** - every turn has a task and several one-shot timers that can end it;
  one must end it, once. *Correct* means: one turn at a time, losers never act,
  every bureau ends, what is lost is what is won.
* **Union registry, hall, counters** - check-then-act across awaits. *Correct*
  means: one union per id, no lost scores, no lock left behind, no number twice.
* **Connections and messaging** - closing races with sending, pooled objects are
  reused, messages of one user overtake one another.

`PROJECT.json` lists each such hazard at its line, with the properties that
cover it or the reason why none does.

## 2. Modules

| module | what it is | uses |
|---|---|---|
| `Room` | a room and its timers | - |
| `SzGame` | the three-card game of a room | - |
| `SzRound` | abstract: what a bureau of it promises | - |
| `SzImplements` | the refinement: `SzGame` implements `SzRound` | `SzGame`, `SzRound` (instance) |
| `SzCards` | hands of three cards | - |
| `MjHu` | complete mahjong hands | - |
| `MjHands` | every mahjong hand, tile by tile | `MjHu` |
| `MjGame` | the mahjong game of a room | `MjHu` |
| `UserDocs` | documents of users and unions, and requests on them | - |
| `Hall` | the hall's handlers | `UserDocs` |
| `GameUnions` | a game server's unions, rooms, red envelopes, settings | `UserDocs` |
| `Clubs` | hall and game server at work on the same documents | `Hall`, `GameUnions` |
| `Connector` | connections, workers, messages to a node and back | - |
| `MC...` | constants of the runs | the module they are named after |
| `RoomProofs` | theorems | `Room` |
| `SzGameProofs` | theorems | `SzGame`, `SzImplements`, `SzCards` |
| `MjGameProofs` | lemmas about tiles, theorems | `MjGame` |
| `ConnectorProofs` | theorems | `Connector` |
| `ClubsProofs`, `ClubsScoreProofs`, `ClubsMembersProofs`, `ClubsMemoryProofs` | theorems: locks, scores, ids and members, the game server's memory | `Clubs` |

Every module declares its parameters as constants with named assumptions and has
one action per operation or database call and no RECURSIVE operator, so that it
can be proved about. Runs are few: one for each question.

## 3. Module Room

One variable, `room`, is the `Room` struct together with its timers and tasks
and the two things it writes elsewhere (the user's room in the database, `db`,
and the room named by the user's session, `sess`). It is a record because the
functions of the struct call one another: each function is an operator from a
room to a room, with the name it has in the code, and the actions at the end of
the module apply one to the variable. So a step is a whole handler, with
everything it calls.

| in the model | in the code |
|---|---|
| `users`, `currentUserCount` | the map and the counter, which are updated apart |
| `status` | the bits of `UserStatus`; comparisons with `==` in the code are comparisons of sets here |
| `low` | the user's score is below `ScoreLowLimit`, as last read |
| `dismissing`, `agreed` | `askDismiss`: non-empty, and the chairs that have answered |
| `tickArmed`, `answerTasks`, `answerSet`, `stopSent` | the countdown's value, the tasks that run, the pointer to one, the token in the channel |
| `startTask` | `startSchedulerID`, and the user whose session its closure holds |
| `spawned`, `live`, `stale` | per user: goroutines that will set a kick timer, kick timers that hold the user's present record, and timers that hold the unready record of a visit that is over |
| `registered` | the room is in its union's `RoomList`, so that messages can reach it |
| `crashed` | an unrecovered panic: the process is over and no action is enabled |
| `Env` | what a handler cannot know: whether the union is open, whether the rent is paid, which database updates succeed |

The actions: `Enter`, `Ready`, `Leave`, `AskDismiss`, `SceneInfo`, `ChangeSeat`
are the client's messages (`CanSend`: the session names the room and the room is
registered); `KickGoroutine`, `LiveTimer`, `StaleTimer` are `go
addKickScheduleEvent` and the timers it sets; `StartTick` is the start scheduler
after its ten ticks; `AnswerTimeout` is the vote's countdown at zero;
`StopAnswer` is the goroutine that reads the stop token; `GameEnds` is the game
frame calling `ConcludeGame`; `OwnerDismiss` is the union owner's dismissal.

Abstractions, all named in the module: chairs from `MaxPlayerCount` on are
watching chairs and two stand for all of them; amounts of scores and rent are
the flag `low` and the outcome `rentPaid`; the thirty and ten second waits are
"some time later"; the start scheduler is stopped where the code sends its stop
token (the vote's token, whose delay matters, is a step of its own). A game is
over some time after it started; the branch that marks a leaving player
`Offline` needs a game that lets players go, which neither frame does during a
game.

## 4. Module SzGame

One variable, `game`: the `GameFrame` of one room with every task and timer it
sets, and the four things it asks of the room (who plays, whether a game is
started, whether a vote runs, whether the room is dismissed). Again an operator
stands for each function of the frame, with its name, and the actions apply one.

| in the model | in the code |
|---|---|
| `status`, `cur`, `banker`, `bureau` | `GameStatus`, `CurChairID`, `BankerChairID`, the room's bureau number |
| `playing`, `loser` | users with the ready or playing bit, `Loser`; `Alive` is `getRestChairIDArray` |
| `pours` | the length of each chair's `PourScores`; the amounts are left out |
| `hands` | the strength of each chair's cards: what `SzCards` says of them |
| `short` | the outcome of `userHasEnoughScore`, drawn once for each player and bureau, and only in a union's room |
| `trust`, `trustTask` | `UserTrustArray`, and the task of one second that hands slow players over |
| `pour` | `pourScoreScheduleID`: the ticks left of the turn's thirty |
| `cards`, `turn`, `compare`, `result`, `abandons` | the one-shot timers: sending cards, a turn of a player who handed over, showing a comparison, showing the result, and each `AfterFunc` of an abandon; a closure's captures are kept beside them (`turnOf`, `forced`) |
| `settled`, `heir`, `hasty` | how often this bureau's scores were added to the records, the banker that the last result makes, and how many acts were accepted while the turn was already decided |

`StartGame`, `Vote`, `Dismiss` are what the room does to the game; `Pour`,
`AskCompare`, `Abandon`, `Trust` are the players' messages; `TrustTask`,
`PourTick`, `CardsTimer`, `TurnTimer`, `CompareTimer`, `AbandonTimer`,
`ResultTimer` are the tasks and timers when due; `Second` lets time pass when
nothing is due. Timers due in one second fire in any order, because within it
they were set at different times; only a comparison goes before a result of
the same delay, which it always preceded. `GetCurRound` keeps the code's habit of
looking at the next player's pours even when he has lost, so that a bureau may
go on past its round limit.

*Calm.* While a comparison or an abandon is shown the turn is over, but the
code still takes acts of the current player, and each sets another timer. Such an
act is *hasty*; the runs allow a bounded number of them. `Calm` says that none has
happened and that the room has no union. The properties that need it hold until
the first hasty act; finding 4 is what may follow one, and finding 5 is why a
union's room is excluded. `TypeOK` and `LosersDoNotPour` hold with hasty acts
too, and so do the parts of `StagesEnd` about the deal and the result.

Left out, as the module says: looking at cards (it changes amounts), moves to
another seat and acts of watchers during a bureau (the room lets both
through; they index a game's arrays with chairs it did not deal to), the forced
preparation of the next bureau (`GameStarter` is never reset, so it
prepares nobody), chat and review. The number of seconds a user has been slow is
not kept: the server may take over for a player in `Trusters` at any time.

## 5. Modules SzRound, SzImplements and SzCards

`SzRound` says what a player may expect of a bureau, in six variables and without
timers: players are dealt in; the one whose turn it is bets or drops out (he
abandons, or bets to compare with another and one of the two loses); the turn
goes to the next player who is left, in the order of the chairs; the bureau
is shown when one is left, or when all who are left have bet equally often and
more often than the rounds demand; it is settled once, and ends.

`SzImplements` maps a frame to such a round: `stage` is the status, with a turn
`"closed"` while a comparison is shown or an abandon waits for its timer;
`bettors` are those who have not lost while cards are dealt and bets are made.
They are nobody once the result is shown, because there the code still takes a
comparison and lets one of two equal winners lose. `regular` is `Calm`. Messages,
timers, trust and votes are stutters of the round or one of its steps, and
the round allows anything after the first hasty act, which is where the code's
promise ends (finding 4). `ImplementsRound` is the safety of the round and
`StagesEnd` its progress: a deal, a closed turn and a shown result do not last.
That an open turn does not is `TurnPasses`, since it depends on votes.

The refinement matters because the properties of `SzGame` each look at one part:
the round relates who is left, whose turn it is and how often each has bet over
whole steps of the code, with a loop over chairs, a count that also looks at
losers (`GetCurRound`) and a last chair that moves when it abandons.

`SzCards` is `logic.go`: the type of a hand, the values in order with the ace high,
the pair and its kicker, and `CompareCards`. `Strength` is the number behind it.
`startResult` compares the players who are left in an order that depends on who
lost before; that the same players win in any order is what `ComparesStrengths`
gives.

## 6. Modules MjHu and MjHands

`NewTable` and `NewFengTable` are the tables the server builds at its start,
level by level as `genTableNoGui` and `genGui` do; `IsHu` looks a hand up suit by
suit with the jokers it has left. The number of suits and ranks are constants, so that the
tables are small. `CompleteHands` and `IsComplete` are the definition in
the comment over `CheckHu`, without tables. That nobody wins with a hand which the
definition refuses is `WinnerIsComplete` of `MjGame`; the other direction is
finding 6. `MjHands` draws every hand in ascending order.

## 7. Module MjGame

One variable, `game`, as in `SzGame`. A handler of this frame may have several
outcomes, since the goroutine that reads a stop token races with it; an operator
therefore returns a set of games.

| in the model | in the code |
|---|---|
| `status`, `cur`, `banker`, `gang`, `hands`, `deck`, `record`, `ops` | fields of `GameData`; the tiles that are left are `Logic.cards` |
| `turnTask`, `turnLost` | `turnSchedule`; tasks of earlier turns whose token stopped a newer task instead and which nothing stops any more |
| `claimTask` | `scheduleOperate`: one task for each chair with a claim |
| `autos`, `cards`, `ends` | the `AfterFunc`s of `userAutoOperate`, `sendHandCards` and `gameEnd` |
| `prepareTask`, `trustTask` | `forcePrepareID`, `userTrustSchedule` |
| `test` | `testCardArray`, the tile a client asked for |
| `winner`, `scores`, `settled` | the last review's winner and scores, results of this bureau |
| `late`, `down` | tokens read too late so far; the process ended by a panic |
| `refused` | nothing of the code: an act of this turn was refused after it had stopped the turn's task |
| `stray` | nothing of the code: a bureau was reset although another timer of `gameEnd` or a claim's task was left, which then runs on into the next one; or a tile was laid to a triple by a hand that lacks it |

`Ready`, `Discard`, `TurnOperate`, `GetCard`, `Trust` are messages, `Dismiss` the
room. `Discard` names a tile of the hand; `TurnOperate` is every other message of a
turn, at any time, also before the first record: it names no tile, and then the frame
fills one in (`MeantCard`), or any of `NamedCards`, tiles and other numbers, of which
the frame looks at very little; the timers are the actions after them. `NextTurn` opens claims and
`SetTurn` draws, starts the turn's task or ends the bureau when the tiles run out.
The code moves the turn on at the first answer to a discard. That works because
only one player can have a claim: there are four of each tile, and every claim
and its task end before the next discard. `OneClaim` says so; with the rule
of eight jokers it fails, which is why the module is about four.

There is one way out of this order, and it is the code's. When the tiles run out on
four of a kind (claimed or held), `setTurn` ends the bureau and leaves the acts of
its player open (game.go:374, 575, 664): he may act once more while the result is
shown, which shows a second result and starts a second timer of `gameEnd`. That
timer, or the task of a claim that was opened so, is stopped by nothing and meets
the next bureau, which it resets or moves on. A second four of a kind laid in
that way can empty the hand, and the timer that then discards for the player looks
for the last tile of an empty slice (1049), which ends the process (`OwnLast`).
`stray` remembers that a timer ran into a later bureau: with three bureaus TLC finds
`OneClaim`, `SurplusTile` and `SettledOnce` false without it.

What a message names leads out of the order in three ways, all of them the code's:
* A player who took a pair may lay *any* tile to it (623-657): nobody looks whether
  his hand has it. Nothing is then deleted and another tile is drawn, so that the
  hand has one too many. `stray` remembers that too, and the properties speak of
  *tidy* games, in which neither happened.
* A discard of a tile the hand lacks and a four of a kind of fewer than four are refused
  (665, 676-679), but the turn's task has been stopped by then (519-523), and the turn is
  left without one. `refused` remembers it until the next turn. `StageIsTimed` speaks
  of turns in *calm* games: tidy, no token read late, nothing refused.
* A number that is no tile is looked up when it is laid to a triple: the lookup leaves
  the table, which ends the process (`Unindexed`). And a message before the first
  record of a bureau looks at `operateRecord[-1]` (504), which ends it too.

Left out: seven pairs (`canHuQidui` always returns false), chat, review, the
contents of pushes, messages that change nothing, votes (they delay tasks), time.

## 8. Modules UserDocs, Hall, GameUnions and Clubs

Handlers of the hall and of the game server work on the same user documents, in
goroutines of their own and without transactions: only a single call of MongoDB or
Redis is atomic. So a request is a record with the steps that are left of its handler
(`todo`, the handler's calls in their order) and what it remembers of documents
it read; each action takes the first step of one request, whatever the others
have done in between.

| in the model | in the code |
|---|---|
| `db.users[u].lock`, `.room`, `.info` | `syncLock`, `roomID`, `unionInfo` of a user document |
| `db.unions` | union documents: owner, `curMember`, flags, settings, red envelope list |
| `db.counters` | the Redis counters of union and invite ids; `Exists`, `SetBegin`, `Incr` are `incrId` |
| `db.changes` | the sum of each user's score change records |
| `game.values`, `game.unionList` | every `Union` value the process made, and the one it finds by id |
| `session` | `roomId` in the connector's session |
| `failed`, `faults` | users with a request that ended by an error; calls that failed |
| `hist` | for the properties only: which requests met, locks taken from their holder, who left, what `ModifyScore` gave to each |

`Hall` has the handlers of `hall/handler/union.go` that succeed in changing a
document: `CreateUnion`, `JoinUnion`, `InviteJoinUnion`, `ExitUnion`,
`SafeBoxOperation`, `ModifyScore`, `GiveScore`, `AddPartner`. `GameUnions` has
the manager with its race, creating, joining, quick joining, leaving and dismissing
rooms, red envelopes and settings. `HallFault` and its counterpart
`GameFault` let any call fail, with what the handler does then; `HallPanics`
and `GamePanics` end a process, with all its requests and, at the game server,
its memory. `Clubs` puts them together: requests arrive, and two are handled at once.

Much of this code is not safe against itself, and the comments do not say that it
is. The properties therefore say precisely when each promise holds: `hist`
records which requests on the same thing were in the servers together
(`Clashes`), and each property names the clashes it excuses. What remains is what
the code does guarantee: a lock is never left by a request that ended well; a debit
under a lock never overdraws; ids never repeat unless the counter was set back;
settings of different kinds never undo one another.

The books (`BooksBalance`) compare a member's score with the sum of his change
records. `GiveScore` writes the payer's record and the member's in two calls
(`Record`, `RecordOther`); `ModifyScore` writes both in one, and the member's with
the *payer's* sign (union.go:848): he gains and the record says that he lost. So his score is his
records plus twice what `ModifyScore` gave him (`hist.raised`); with the
sign that `GiveScore` writes there would be nothing to add. Left out are `ModifyScore` with a
negative count, and the records of gifts and of modified scores (`ScoreGiveRecord`,
`ScoreModifyRecord`), which only queries read.

Assumed: one game server process, and that a room is its users here. What
happens inside a room is `Room`.

## 9. Module Connector

`conn` is each connection with its two goroutines, its object of the pool and the
user and the `roomId` of its session; `clients`, `slots` and `count` are the buckets, the
semaphore and `currentConnections`, which `addClient` and `removeClient` change
one after the other; `queue`, `spilled` and `tasks` are the workers' channels, the
messages that went to a goroutine because their channel was full, and answers about
to be written; `node` and `back` are messages between servers, each of which is
handled by its own goroutine (so in any order) and may be lost.

`Check`, `AddClient`, `Run`, `ReaderStops`, `RemoveClient`, `PingFails`, `WriterStops`
and `Put` are the life of a connection; `ReadMessage`, `WorkerHandles`,
`SpilledHandles`, `SendMessage`, `SendPanics` the way of a message in the
connector; `NodeHandles`, `Response`, `SetSessionData`, `Lose` the rest. `SetUid` is the middle of
`entry` (entry.go:43): the session becomes that of the token's user, and an `Entry` may
come again with another token. A message takes the session's user along to the node,
and `SetSessionData` keeps what comes back only if the session still has that user
(session.go:43); otherwise the value is dropped, and the session keeps the old one.
`RoomIdIsNewest` excuses a value dropped in this way (`hist.mixed`).

Merged: the client enters or leaves its bucket and is counted in one step, where
the code does the one just before the other (ws_manager.go:270 and 279, 302 and
305); no property compares the two in between.

`Close` gives an object back 100 ms later. The model takes these to be enough for
every goroutine that is not in a call of a database; only `entry` calls one while
it holds an object. A panic in a worker (an answer meets the closed channel of a
connection that is closing) ends the process. The limiter is a refusal that may
always happen.

## 10. Runs

`MCRoom` adds the symmetry of users, `MCSzGame` three deals of cards, `MCMjGame` the
shuffled decks, `MCClubs` documents to start from with the requests that come,
`MCConnector` the messages of each client; the `.cfg` files give the constants.
Deadlock is not checked in rooms and games: a room that was dismissed, or whose
process ended, stops, and so does a game. `Clubs` and `Connector` say when they are
at rest, and their runs do check it.

| run | bounds | what it shows |
|---|---|---|
| `room_games` | 3 users, 3 chairs, 2 bureaus, start scheduler from 2 ready users, one watching chair to move to, 1 kick timer per user, 1 failing update, no votes | `CountBoundedByUsers`, `DbMatchesMembership`, `UnreadyIsTimed`, `BureausBounded`, `PlayingOnlyInGame`, `PlayersStay`, `DismissedForEver` |
| `room_votes` | 2 users, 2 chairs, 1 kick timer, 1 countdown at a time, moves between a seat and a watching chair, no failures | `TypeOK`, `CountdownRuns`, and under fairness `NewcomerSettles` |
| `room_count` | 3 users, 2 kick timers per user | the counter falls below the number of users (finding 1) |
| `room_benched` | the code's own numbers: 6 chairs, 4 ready users, 20 watchers; 5 users | the start scheduler benches the wrong user (finding 2) |
| `room_record` | 2 users, 2 bureaus | dismissal of a union's room after a bureau ends the process (finding 3) |
| `sz_turns` | 3 chairs, 1 round, 2 bureaus, a turn of 4 s, delays of 1 s and 3 s, three deals, one player who may hand over, 3 pours each, 1 hasty act | `TypeOK`, `StageIsTimed`, `WinnerRemains`, `SettledOnce`, `RoundsEven`, `LosersDoNotPour`, the refinement `ImplementsRound`, and under fairness `TurnPasses`, `StagesEnd` |
| `sz_left` | as `sz_turns` | after a hasty act nobody is left in the bureau (finding 4) |
| `sz_forced` | as `sz_turns`, a union's room, no hasty acts | a forced comparison leaves nothing that goes on (finding 5) |
| `mj_claims` | 3 players with 4 tiles each of 6 kinds and a joker, 3 bureaus over 5 decks, 1 tile turned up, 1 player who may hand over, 1 player whose messages name what they like (a tile and a number that is none), 1 token read too late | `TypeOK`, `OneClaim`, `SurplusTile`, `WinnerIsComplete`, `ScoresBalance`, `SettledOnce`, `StageIsTimed` |
| `mj_hands` | every hand of up to 11 tiles of 2 suits with 4 ranks, and jokers | a joker that would complete a hand is refused (finding 6) |
| `clubs` | 3 users, 3 requests, 2 at a time, 1 failing call, 7 sets of documents and requests | `TypeOK`, `LockHasHolder`, `OneHolder`, `NoOverdraft`, `BooksBalance`, `MembershipKept`, `IdsDiffer`, `OneRoomEach`, `TakesOnce`, `SettingsKept` |
| `net_messages` | 2 connections, 2 objects, 1 slot, 2 workers with queues of 1, 3 messages of one client with the tokens of 2 users, 1 of them lost | `SlotsAreOwned`, `OrderKept`, `AnswersReachOwner`, `RoomIdIsNewest` |

Why the bounds are enough. Three users make a majority, a remainder and a
newcomer: a user who is ready, one who is not and one who leaves meet in every
order, and a room with three chairs is full with one user watching. Two bureaus
give a first, a last, and the time between. A second kick timer for one user
is what the counter's finding needs; the properties that hold are proved for
any number of timers (section 11). One failing update is enough, since
the two properties about the database and the timers speak only of rooms where
none has failed; the others hold with failures. The real numbers (six chairs,
four ready users) are used where the numbers matter.

In `sz_turns` three chairs give a turn, a next one and one that has lost; one
round gives the comparison of all at its end, and a third pour the way past the
limit; two bureaus show that nothing of the first is left in the second. The
delays are the code's one and three seconds, and the thirty of a turn are four:
longer than the three of a comparison, so that a timer can be late for the turn
it was meant for but never for two. The deals are three different hands, two
equal ones and three equal ones, which is every order of a comparison up to the
names of chairs. Before it checks states, TLC evaluates `StrengthsAgree`:
`CompareCards` is a comparison of strengths for all hands of eleven cards that
make every type of hand and both straights with an ace; that is what allows
`SzGame` to keep a number for a hand.

`mj_claims` is a game in which everything short happens within ten moves: its decks
were laid out so that a discard can be claimed as a pair or a fourth tile, a
fourth tile laid to a pair that was taken completes another hand, players win with
and without jokers, the tiles run out during a turn, on a claim and on four of a
kind in the hand, and the second bureau starts from either winner. Four tiles in a
hand are one meld and the first of a pair, the smallest hand that can do all this.
Three bureaus let a timer of the first one run on into the second and reset it.
One of the players names tiles: one that a hand may have or lack, whichever act it is
offered with, and a number that is no tile; the others' messages name none, so that
what the frame fills in is met too.
One late token is the first of any number: the last part of `StageIsTimed` speaks of
games before it, the other properties of all.

In `clubs` each set of documents is a situation - scores below one another, a union
to join or to leave, no documents at all, a room, red envelopes, settings - with
the requests that touch the same things; two of them interleave with every order of
their calls, and a third comes before, after or between. One failing call can be
any call. Three users are an owner, a member and one below or outside. What needs
more than two requests at once would need two of them to make a state that no
single request makes, and the third to meet it: the third request covers it.

In `net_messages` one slot makes the second client wait, be refused, or come in
when the first leaves, with an object that was used before or a fresh one. Three
messages of one client are an order to keep, and an entry, a room and an entry with
another token; queues of one, which full ones resemble, let a message take the way
around. The other client is silent: it waits for the slot and takes the object. The objects
and the users are symmetric: no operator distinguishes them.

Fairness. Room's `FairSpec` assumes weak fairness of the goroutine that sets a kick
timer, of the timer itself and of the countdown: the Go scheduler runs every
goroutine and the runtime fires every timer that was not stopped, and the code
stops none of these. Nothing is assumed of users: they need do nothing.
`NewcomerSettles` therefore says: a user who entered and does nothing is out of
the room before the first game, or a game begins, or the room is gone.

SzGame's `FairSpec` assumes that time passes and that each task or timer that is
due fires; nothing of players, not even of `TrustTask`, which the clocks do not
need. The task of a turn skips its ticks while the room votes, so `TurnPasses`
is about behaviours in which votes come to an end.

The other modules state no fairness. What should eventually happen in mahjong
is said by `StageIsTimed` - something that is set will end every stage - which
TLC can check where the liveness formula over sets of successor games is out of
its reach. A request of `Clubs` always has a next call until it returns, and
what it leaves behind is looked at when no request is left (`BooksBalance`,
`MembershipKept`, `SettingsKept`).

## 11. Proofs

`RoomProofs` proves, for every set of users (assumed finite), every number of
chairs and bureaus, every rule and all the bounds:

| theorem | property |
|---|---|
| `TypeCorrect` | `TypeOK` |
| `CountIsBounded` | `CountBoundedByUsers` |
| `CountdownIsRunning` | `CountdownRuns` |
| `BureausAreBounded` | `BureausBounded` |
| `OnlyGamesHavePlayers` | `PlayingOnlyInGame` |
| `PlayersRemain` | `PlayersStay` |
| `DismissalIsFinal` | `DismissedForEver` |

They rest on `AlwaysSound`, an inductive invariant. None of the properties is
inductive alone. `BureausBounded` needs that no game is started in the
room after its last bureau, which needs that a dismissed room is quiet,
which needs that a dismissal ends in `DestroyRoom` or in a crash and never in
`resetRoom` (`DismissRoomGood`): for a room created by a user every reason
destroys it, and for a union's room the reasons that do not need a finished
bureau, in which case the recording of it has already ended the process. So
`resetRoom`, although the code has it, is not reachable, and the finality of
dismissal depends on it. `CountBoundedByUsers` needs more than the count: a
timer's kick of an absent user lowers the counter and leaves the map
alone, so the inequality has to be carried through every kick.

The module is laid out bottom up: `Good` (type, count, crowd) is preserved by
each operator that maps rooms to rooms, one lemma each; `Sound` adds the bound on
bureaus and the calm of dismissed rooms; `Follows` is the relation between a
room and the next that gives the two action properties; then one lemma per
group of steps, and the theorems. The assumption used is `RoomAssumption` of
Room, which TLC evaluates in every run.

Its second half is about the room's records and builds on `AlwaysSound`, under the
same assumption:

| theorem | property |
|---|---|
| `RecordsMatch` | `DbMatchesMembership` |
| `UnreadyAreTimed` | `UnreadyIsTimed` |

Their invariant, `AlwaysKept`, has a third part: whoever is ready has a vote
(`ReadyHaveVotes`). `userChangeSeat` resets every user whose status is *equal* to
ready and sets no timer for him, so the timers would not hold by themselves; with
the third part no status ever is ready alone, and the reset meets nobody. Every
function of the room has a lemma saying that it tends the records: it counts no
failed update, and keeps the records in order if its updates reach everybody.
A kick has an excepted user, whose timer has just fired.

`SzGameProofs` proves, for any number of chairs, rounds and bureaus, any delays,
any deals, with and without a union:

| theorem | property |
|---|---|
| `TypeCorrect` | `TypeOK` |
| `StagesAreTimed` | `StageIsTimed` |
| `WinnersRemain` | `WinnerRemains` |
| `BureausSettleOnce` | `SettledOnce` |
| `LosersStayOut` | `LosersDoNotPour` |

They rest on `AlwaysOrderly`, the invariance of `SzInv`. It has a part for every
game (`Good`: types, stages with their timers, nobody plays or has lost between
bureaus) and a part for calm ones (`Orderly`): each timer runs in its own stage
only; an open turn waits for a player who has not lost and has its task, at least
two players and no pending timer; a turn that is over has no task, one pending
timer and at least one player. Why the properties are not inductive alone:
`StageIsTimed` needs that nothing else is pending when a comparison or an
abandon ends, so that their timers cannot end the next turn; `WinnerRemains`
needs two players in an open turn, which `endPourScore` gives because it goes to
the result when one is left, and which an act then takes to one; `SettledOnce`
needs that a result is shown only from a turn that is over. A timer of a trusted
player's turn stops the task before it abandons for him: that the abandon is then
accepted, and the turn not left without either, is the fact about `cur` in
an open turn. The assumption used is `SzAssumption`.

Its second half builds on `AlwaysOrderly`:

| theorem | property |
|---|---|
| `RoundsStayEven` | `RoundsEven` |
| `GameImplementsRound` | `ImplementsRound`, in rooms that no union created |

Each step of a calm game is one of eight moves (`Move`): it rests, compares late,
deals, begins, bets, drops somebody, resolves a closed turn, or ends. A move says
of two games only what `SzRound` sees of them. First comes
that every function of the frame makes a move, then what moves do: they
keep the rounds in step (`AlwaysInStep`: in round k the players who sit between the
banker and the turn have bet k + 1 times and the others k times), and in such a game
each move is a step of `SzRound` or changes nothing it sees. That is where
the order of chairs comes in: `DistanceLeads` and its followers say that the
next player who is left is the nearest one, so nobody is passed over. In a union's
room nothing is promised from the start (`Calm` excludes it, finding 5), so the
hypothesis `~UnionRoom` leaves out no case in which the round would say something.

Of every three cards the module proves `CardsCompareByStrength`, that
`CompareCards` is the comparison of strengths, and `CardsAreOrdered`, that it is
total and transitive. TLC evaluates the same on eleven cards (`StrengthsAgree`).

`MjGameProofs` proves, for any number of chairs and bureaus, every rule, any decks
with at most four of each tile, hands of any size that is one more than a multiple
of three (the code's is 13), and any number of tokens that are read late:

| theorem | property |
|---|---|
| `OneMayAnswer` | `OneClaim` |
| `TilesAreEven` | `SurplusTile` |
| `BureausSettleOnce` | `SettledOnce` |
| `StagesAreTimed` | `StageIsTimed` |

They rest on `StagesFollow`, the invariance of `MjInv`: a tidy game is idle, dealt, at a
turn (`TurnOpen`), at a claim (`ClaimOpen`), shown, or it has ended. Why it needs
all of this: only one player may claim a discard because *of any three hands and
the deck together* there are four of a tile at most (`FourOfEach`): the one who
discards it leaves three to the others, and a claim takes two. Tiles that were
laid need not be counted, and three hands are enough, since a discard and two claims
are three players; so the invariant says nothing of sums over chairs.
Its first part has the lemmas about counting tiles for it: what dealing, sorting,
drawing, laying and swapping a tile asked for do to the count. An act that is
offered stops the turn's task before it is looked at, so `StageIsTimed` needs that
what is offered (`ops`) is refused only for what the message names: whoever is offered
a win, a pair or four of a kind holds it (`CanWin`, `HasFour`, `TookPair` and the
counts in `ClaimOpen`). A turn whose task a refused act has stopped is open
as well, without the task (`refused`), until an act that is accepted ends it; a message
that names what is not there leads back to the same stage, out of the tidy games,
or to the end of the process. When the tiles run out on four of a kind these promises are dropped
with `status = "Result"`, and what remains is that one player at most may act.
Every operator of the frame returns a set of games, so its lemma is about every
member; acts lead to a draw, a discard or a result: `TurnIsSet` and `TurnPasses`
lead from a game about to draw (`ToDraw`) or to offer a discard (`ToPass`) back to
a stage, and `GameEndIs` says what a result leaves alone.

The proof corrected the model in two places. `SettledOnce` had excused the end of a
bureau's process by `Chunniunai` only: with 13 tiles, four fours of a kind and a deck
that has run out a hand can become empty, which no small instance reaches, and the lookup of its
last tile ends the process too. And `HandSize` had to be one more than a multiple of
three, as the code's 13 is, or the first hand is not one that is waiting for a tile.

`ConnectorProofs` proves, for any connections, objects, workers, limits:

| theorem | property |
|---|---|
| `SlotsAlwaysOwned` | `SlotsAreOwned` |
| `OrderAlwaysKept` | `OrderKept` |
| `AnswersAlwaysReachOwner` | `AnswersReachOwner` |
| `RoomIdAlwaysNewest` | `RoomIdIsNewest` |

Each part of the invariant (`ConnectorIsSound`) carries one of them. `SlotsAreOwned`
needs `Placed` (a client is read, a connection that is being removed is not a
client, so removing it subtracts one owner). `OrderKept` is not inductive: that a
message is handled after its predecessor follows from where messages wait,
all in the queue of one worker, in ascending order, above the one handled last.
`AnswersReachOwner` needs that an object that waits in a task is the one its
connection holds, which is lost as soon as a handler outlives its connection.
`RoomIdIsNewest` needs that a connection with one request has one message on the way,
in whichever of the five places, that a value on its way back is the last one, and that
it is of the session's user, since a value of another one is dropped: as long as no
`Entry` changed the user while something was on the way, whatever is has the
user the session has (`Values`).

`ClubsProofs` proves, for any documents, requests, faults and number of requests
at a time:

| theorem | property |
|---|---|
| `OneHolderAtATime` | `OneHolder` |
| `LocksHaveHolders` | `LockHasHolder`, where nobody's lock is set at the start |

The invariant (`LocksHaveOneOwner`) lists the courses a locking request may be on,
with the lock and without it; a request that holds one has `unLockSelf`
ahead or ends by an error. Every call of hall and game server then is one of four
with respect to the lock (`Takes`, `Keeps`, `Gives`, `Lacks`). A call that fails
gives the lock up without unlocking it: that is the failure `LockHasHolder` names.

`ClubsScoreProofs` builds on it:

| theorem | property |
|---|---|
| `NobodyOverdraws` | `NoOverdraft`, where nobody but an owner owes at the start |

`ModifyScore` and `GiveScore` read the payer's score in one call and take from it in
a later one. The invariant (`PaymentsStayBacked`) says that a request about to take
is backed by the score as it is now. Its lemmas are about lists of unions, which every
call but two only lets grow (`Grows`): entries are appended, changed
upwards, never moved, so the first entry of a union stays the first. The two are the
debit itself, after which no other request of the same user may be about to take
(both hold his lock, or they clash), and leaving the union, which the property excuses.
The two hypotheses hold of an empty database and of every set of documents `MCClubs` starts from.

`ClubsMembersProofs` is about the ids that unions and their members' entries get, and
about who is a member:

| theorem | property |
|---|---|
| `UnionAndInviteIdsDiffer` | `IdsDiffer`, where the counters gave away the ids at the start |
| `UnionsKeepMembers` | `MembershipKept`, where moreover the documents are in order at the start |
| `ClubsTypesHold` | `TypeOK` of `Clubs` |

An id is drawn by one call (`NextCounterValue`) and written by a later one, and
between the two nothing in the database shows that it is taken. So the invariant
(`Numbered`) counts two kinds of numbers: those in the documents, and those of requests
that drew one and have not used it. None is above the counter, and no two
are equal. That a request is one of the latter has to be seen from how far it is:
`WaysInv` (`HandlersKeepOrder`) says that a request that creates, joins, leaves or invites
has exactly the rest of its handler before it, and that the counter it increments
next exists, which a handler checks by a call of its own. `EveryMember` sorts the steps of
`Clubs` by what they do to such a request: it arrives, it moves, or the step is somebody
else's and draws no number. A counter that two requests found absent is set twice,
and then hands out numbers again: `IdsDiffer` excuses that (`hist.reset`). The request of
`CreateUnion` names no union, since its id is what it is about to draw; `ClubsAssumption`
says so. The hypothesis, `StartsNumbered`, holds of an empty database and of every set of
documents `MCClubs` starts from.

`MembershipKept` speaks of a database at rest; while a handler runs the documents are
out of order, each stage in its own way. The invariant (`JoinInv`, in `MembersStayJoined`)
holds at every call of every interleaving, as long as nothing failed, no two
requests for one member met and no counter was set back (`Free`):
* `OneEntryEach`, `MembersHaveUnions`: a user has one entry of a union at most, of
  a union there is. An entry is pushed long after the handler looked whether there is
  one; `Apart` says that no other request for this user runs meanwhile.
* `MembersCounted`: the number in a union's document is that of its members and of
  the requests that are counted and have no entry (`Tally`): who joins is counted
  before he is a member, who leaves is counted until after he is none, and the owner of
  a new union is its first member before his own document says so.
* `MembersRanked`: each member but the owner is below a member, or for a moment below
  one who just left and whose request has yet to hand over those below him. That the
  hand-over does not put a member below himself is why there are ranks: numbers that
  grow downwards, so that members form no circle. The ranks are not in the code; that
  some fit is part of the invariant, and a request for an entry picks the new one.
* `AllFit`: what a request has read is still so - its spreader is in the union, who
  joins is not, who leaves is no owner - or will still be so when it writes. An inviter
  or a spreader who leaves meanwhile clashes with the request, and is excused.

A step is handled by what it does to memberships (`MembersStay`, `MemberJoins`,
`MemberLeaves`, `MembersMove`) and to unions (`UnionsStay`, `UnionMade`,
`UnionCounts`), and then once for each of these. The hypothesis is `StartsJoined`: the
documents to start from have one entry of a union at most for each user, of a union
there is, right numbers and no circles. It holds of an empty database and of every set of
documents `MCClubs` starts from; documents out of order are none that these handlers
would put right.

`ClubsTypesHold` says that documents, requests, sessions and memory keep their types. It
needs two things of requests: that one which is about to store a room has one (`Stocked`),
since the same field holds an amount or a setting in other handlers, and what the value that it
holds in memory is, which `MemInv` (below) knows. It is in the last module because that one
extends the three others.

`ClubsMemoryProofs` builds on `ClubsProofs` as well, and is about the unions in the
game server's memory, for any users, documents, requests, faults, panics and
number of requests at a time:

| theorem | property |
|---|---|
| `OneShareEach` | `TakesOnce`, where no document lists a user twice at the start |
| `SettingsAreKept` | `SettingsKept` |
| `UsersAreInOneRoom` | `OneRoomEach` |

All three rest on `MemoryStaysShaped`, the invariance of `MemInv`, which excuses
nothing: it holds while calls fail and servers panic. What it says is what the
code takes for granted when it goes on after a call of the database. `OnPath` is
about what is left of a handler: it is a way through its calls (`NextCall`), so that
a request knows at each of them what the calls before have shown. `HandleOk` is about
the pointer that `GetUnion` returned: it is a value of the union the request is about,
which the manager knows once `GetUnion` is over, and which has a document wherever the
handler checked that it has (`NewUnion` makes one without when the load fails).
`MemoryShaped` says that only unions the manager knows have rooms, so a value that
lost the race in `GetUnion` never has one.

Over it each property has an invariant of its own, because none is inductive.
* `SharesStayListed` (`TakesInv`). `TakesOnce` speaks of the document, but the handler
  looks in memory. So of a union that was loaded once: whom the document lists,
  memory lists, unless the owner's reset has reached memory and not yet the document;
  and a request that takes a share has put the user in memory, and the
  document does not list him before the last call. That a union is loaded once has to
  be carried backwards (`Single` only ever gets lost), since a second value starts
  from the document and misses who is about to be listed.
* `SettingsStayAgreed` (`SettingsInv`). At rest memory and document agree on a
  setting; in between one request may have changed one of them (`Half`), the lottery
  in memory first and the other settings in the document first, and what it changed
  is what it will write to the other. `AddRoomRuleList` is why the wish is what
  was read (`NewVal`) and not what was asked for: it counts up in the document and
  reads the result back.
* `UsersStayPlaced` (`RoomInv`). While no union was loaded twice no room is in two
  unions (`CreateRoomId` looks at all of them), a user is in one room at most, and his
  session names it or a request of his is about to tell it. A request that goes on to
  create or choose a room knows that he is in none (`InRoom`, `getUnion`); one that joins a
  room knows that if he is in any, it is this one (`Rejoin`, `JoinRoom`).

In each of them a step of somebody else's request is handled once and for all
(`AgreesStay`, `PlacedAside`: what it leaves alone), and so is the step after
which a user's or a setting's only request is the one that moved. Requests that meet
are noted by `hist` when the later one arrives, so a request of the same kind that is
not noted does not exist (`SettingClash`, `RoomClash`).

The hypothesis of `OneShareEach` holds of an empty database and of every set of
documents `MCClubs` starts from; the other two need none.

Only model-checked, because the prover cannot do it: `NewcomerSettles`, `TurnPasses` and
`StagesEnd` (liveness under fairness).

Only model-checked, because it needs what the provers do not know of operators of
the library: `BooksBalance` (sums of scores over lists), `WinnerIsComplete` and
`ScoresBalance` and with the scores `TypeOK` of `MjGame` (tables built by folds, sums
over chairs).

## 12. Findings

1. `room_count`: `kickUser` says "stop the timer of this user" (room.go:362) and
   only forgets it. The timer of a user who left fires, kicks the absent user
   and lowers `currentUserCount` again; a room with users in it then counts as
   empty and is dismissed at the next departure.
2. `room_benched`: "users who are not ready become watchers" (room.go:479), but
   the scheduler moves the user of the session it captured - the one who was ready
   last - and unready users play.
3. `room_record`: "get and store the data of the games" (room.go:382): a write to a nil
   map, or the first element of an empty slice, ends the process when a union's
   room is dismissed after a finished bureau.
4. `sz_left`: "only one of the players has not lost" (sz/game.go:473, in
   Chinese there), and nobody may be left: the winner of a comparison that is still
   shown passes every guard of an abandon, his own or the server's. The next turn
   is given to a loser, whose every act is refused.
5. `sz_forced`: "the score is not enough, comparing goes on" (sz/game.go:437). A
   player of a union's room who cannot pay is compared with himself, because the
   list of opponents held him twice and one entry was removed; or, after a forced
   win, with somebody who has lost, which returns at once. No task or timer is left
   in either case and the bureau stands still until the room is dismissed.
6. `mj_hands`: "the joker stands for any tile" and "a win is N sequences, M
   triples and one pair" (mj/alg/hu.go:17 and :20, in Chinese there).
   `checkCards` gives each suit as few jokers as will do, and with them the pair, before it
   looks at the next suit; when that needs the pair, a complete hand is refused.
   The shortest one found has eleven tiles: 1 1 in one suit, 1 1 2 2 2 2 3 3 in
   another and a joker.

Met while modelling, without a text to hold them against or a run of their own:

* **Room.** Votes are remembered by chair and not by user; asking for the scene
  during a vote makes a user who has never been ready leave; a vote whose last
  missing voter leaves is not concluded; `getEmptyChairID` tries two chairs, so
  that a third user sits on a taken one; a room whose rent cannot be paid is
  dismissed and its game starts; the guard under "no change of seats during a game"
  (room.go:780) compares with a status that never occurs alone.
* **Three-card game.** The scores of a result add up the indices of the pours and
  not the pours, and pay the first chairs, as many as there are winners; a bureau is
  settled twice when its winner pours while a comparison is shown; timers survive a
  dismissal and may open another turn in the dismissed game; a comparison is
  accepted when the result is already shown.
* **Mahjong.** Four of a kind claimed or laid when the tiles run out ends the bureau and
  leaves its player's acts open, so that a second result may follow (game.go:374, 575 and
  664-673); a second four of a kind can leave an empty hand, whose last tile the auto
  discard looks for (1049: a panic in a timer); its timer resets the next bureau in the middle of play, and the task
  of a claim opened in that way moves its turn on (973-979); the turn of who took a pair has no task (554-574); with one tile left, `Chunniunai` and one tile to turn
  up, `maCards[0]` of an empty slice ends the process (792-796), and so does a claim
  that timed out and is then named without a tile (526-528); a stop token
  that is read late stops the next turn's task and orphans its own (423-428, 1189);
  `operateRecord[-1]` is looked at by a message before the first record (504); a tile that the
  hand lacks can be laid to a pair that was taken, which draws another tile and deletes
  none (623-657), and a number that is no tile ends the process in the lookup; a discard
  or a four of a kind that is refused has stopped the turn's task, which nothing starts
  again (519-523, 665, 676-679); in a union's
  room the share of a capped loss is rounded when several win.
* **Hall.** `ModifyScore` records what a member gains as a loss (union.go:848);
  `SafeBoxOperation` updates without an operator, is always refused and
  leaves its user locked for ever; `ModifyScore` clears the member's lock, also when
  another request holds it; a refused `GiveScore` unlocks a lock it never took;
  `incrId` takes an error of `Exists` for an absent key and sets the counter back;
  `OperationInviteJoinUnion` looks for invitations that nothing writes;
  `UpdateUnionRebate` refuses every request that names a member; `UpdateUnionNotice`
  and `UpdateForbidGameStatus` update without an operator.
* **Game server.** A successful `QuickJoin` returns a nil response, which its handler
  dereferences (union.go:169): the process ends; `GetUnion` keeps a union whose
  load failed, without data, for ever, and `GetUnionInfo` of it panics; `Shift` drops
  the rest of the red envelope list, so that it never shrinks and everybody gets the
  first share; a red envelope asked for by somebody outside the union, or whose
  credit fails, panics; `RemoveRoomRuleList` never matches; a `CreateRoom` that
  cannot enter its creator leaves an empty room; users keep `roomID` when a
  process ends; `unionList` is a plain map read and written by goroutines at once.
* **Connector.** An answer that meets the end of its connection sends on a closed
  channel, which ends the process (ws_connection.go:37 and 81-86); on an object that waits in
  the pool it blocks a worker for ever, and on a reused one it reaches another
  client; a refused client is closed and still run; session maps are
  marshalled without the lock under which they are written; each message leaves a
  `pushSessionChanRead` goroutine behind; a `roomId` that comes back after an `Entry` with
  another token is dropped, and the session keeps the old one; `userLeaveRoomNotify` clears the `roomId` of
  the acting session for every user it names.

## 13. Not modelled

* The contents of pushes, chat, gifts, lottery, review, game records: no control
  depends on them.
* Interleavings inside a handler of a room or a game: these handlers are steps. The
  code's `TryLock` does not make them so, and the lock of the mahjong frame is
  held over `gameEnd`, which can dismiss the room.
* Amounts of bets in the three-card game, looking at cards, acts of watchers and
  moves of seats during a bureau; seven pairs and eight jokers in mahjong.
* Queries of the hall and the game server, the four handlers of the hall that cannot
  get past their checks, `user.go` of the hall (addresses, personal data), rebates
  and the hours of red envelopes.
* Several game servers or connectors at once: rooms and unions belong to one process,
  and the choice of a node is left out.
* Room and a game in one module: `Room` has a game that is over some time after it
  started, the games have a room that starts bureaus and dismisses. Their product
  is out of TLC's reach at bounds that say more than the parts.
* `framework/protocol` (encoding), `framework/game` and `common/config` (files
  read at the start), `common/discovery` (the etcd client library), `user` and
  `gate` (one insert per request), the tokens of the rate limiter, generated code and
  deployment files.
