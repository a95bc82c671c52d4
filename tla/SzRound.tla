------------------------------ MODULE SzRound ------------------------------
(***************************************************************************)
(* What a bureau of the three-card game promises to its players, without   *)
(* the tasks, timers, messages and cards that SzGame has for it.           *)
(*                                                                         *)
(* Players are dealt in; one after the other, in the order of their        *)
(* chairs, they bet or drop out; the bureau is shown when one of them is   *)
(* left or when all have bet as often as the rounds demand; it is settled  *)
(* once.  The promise ends when somebody acts in a turn that is over: from *)
(* then on the game is no longer regular and anything may happen.          *)
(***************************************************************************)
EXTENDS Integers, FiniteSets

CONSTANTS
    ChairCount,    \* the chairs around the table
    MinPlayers,    \* a bureau is dealt to so many at least
    MaxRound       \* the bureau may be shown after more bets than this

Chairs == 0 .. (ChairCount - 1)

VARIABLES
    stage,         \* of the bureau
    bettors,       \* the players who may still win
    turn,          \* the chair whose turn it is, or was when the turn closed
    bets,          \* how often each chair has bet
    settled,       \* how often the bureau was settled
    regular        \* nobody has acted in a turn that was over

vars == <<stage, bettors, turn, bets, settled, regular>>

Stages == {"idle", "dealing", "open", "closed", "shown"}

Init ==
    /\ stage = "idle" /\ bettors = {} /\ turn \in Chairs
    /\ bets = [c \in Chairs |-> 0] /\ settled = 0 /\ regular = TRUE

-----------------------------------------------------------------------------

\* How far d sits from c; a full circle from itself.
Distance(c, d) == IF d > c THEN d - c ELSE d - c + ChairCount

\* d is the first player of S after c.
Follows(c, d, S) == d \in S /\ \A e \in S : Distance(c, d) <= Distance(c, e)

Even(p) == \A c, d \in bettors : p[c] = p[d]

\* The bureau is decided: one is left, or the rounds are over.
Final(p) ==
    \/ Cardinality(bettors) = 1
    \/ Even(p) /\ \A c \in bettors : p[c] > MaxRound

(* The bureau goes on with the next player, while there are two, or is shown. *)
PassOn ==
    \/ /\ stage' = "open" /\ Cardinality(bettors) > 1
       /\ Follows(turn, turn', bettors)
       /\ UNCHANGED <<bettors, settled>>
    \/ /\ stage' = "shown" /\ Final(bets')
       /\ bettors' = {} /\ settled' = settled + 1
       /\ UNCHANGED turn

Deal ==
    /\ stage = "idle" /\ stage' = "dealing"
    /\ bettors' \in SUBSET Chairs /\ Cardinality(bettors') >= MinPlayers
    /\ turn' \in bettors'
    /\ bets' = [c \in Chairs |-> IF c \in bettors' THEN 1 ELSE 0]
    /\ settled' = 0

Begin ==
    /\ stage = "dealing" /\ stage' = "open"
    /\ UNCHANGED <<bettors, turn, bets, settled>>

\* The player whose turn it is bets and the turn passes on.
Bet ==
    /\ stage = "open"
    /\ bets' = [bets EXCEPT ![turn] = @ + 1]
    /\ PassOn

\* One drops out: the player whose turn it is abandons, or bets to compare
\* with another, and one of the two loses.
Drop ==
    /\ stage = "open" /\ stage' = "closed"
    /\ \E loser \in bettors :
          /\ bettors' = bettors \ {loser}
          /\ \/ bets' = bets /\ loser = turn
             \/ bets' = [bets EXCEPT ![turn] = @ + 1]
    /\ UNCHANGED <<turn, settled>>

\* What is left of a turn that is over passes it on.
Resolve ==
    /\ stage = "closed" /\ UNCHANGED bets
    /\ PassOn

End ==
    /\ stage = "shown" /\ stage' = "idle"
    /\ bets' = [c \in Chairs |-> 0]
    /\ UNCHANGED <<bettors, turn, settled>>

Regular == regular' /\ (Deal \/ Begin \/ Bet \/ Drop \/ Resolve \/ End)

Next == Regular \/ ~regular'

Spec == Init /\ [][Next]_vars

(* No stage but an open turn can last for ever.                              *)
Progress ==
    /\ (stage = "dealing") ~> (stage # "dealing")
    /\ (regular /\ stage = "closed") ~> (~regular \/ stage # "closed")
    /\ (stage = "shown") ~> (stage # "shown")
=============================================================================
