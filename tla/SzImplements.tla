---------------------------- MODULE SzImplements ----------------------------
(***************************************************************************)
(* SzGame keeps what SzRound promises.  A turn is open until a comparison  *)
(* or an abandon has decided it; the players who have not lost count as    *)
(* bettors while cards are dealt and bets are made, since a player may     *)
(* still compare, and lose, when the result is already shown.              *)
(***************************************************************************)
EXTENDS SzGame

Betting == game.status \in {"SendCards", "PourScore"}

Stage ==
    CASE game.status = "None"      -> "idle"
      [] game.status = "SendCards" -> "dealing"
      [] game.status = "PourScore" -> IF Decided(game) THEN "closed" ELSE "open"
      [] game.status = "Result"    -> "shown"

Round == INSTANCE SzRound WITH
    stage   <- Stage,
    bettors <- IF Betting THEN Alive(game) ELSE {},
    turn    <- game.cur,
    bets    <- game.pours,
    settled <- game.settled,
    regular <- Calm

(* While nobody acts in a turn that is over, every step of the frame, its    *)
(* tasks and its timers is a step of the round or leaves it as it is: the    *)
(* turn goes to the next player who is left, nobody drops out but in an open *)
(* turn, and the bureau is shown and settled once, when it is decided.       *)
ImplementsRound == Round!Spec

(* The deal, a decided turn and a result that is shown come to their end.    *)
StagesEnd == Round!Progress
=============================================================================
