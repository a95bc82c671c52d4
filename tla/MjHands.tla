------------------------------- MODULE MjHands -------------------------------
(***************************************************************************)
(* All mahjong hands, drawn tile by tile in ascending order, and what the  *)
(* server says of them.                                                    *)
(***************************************************************************)
EXTENDS MjHu

CONSTANT MaxHand  \* bound: tiles of a hand

VARIABLE hand

\* Four of each tile are in the game, and of the joker four or eight.
Draw(t) ==
    /\ Len(hand) < MaxHand
    /\ CardCount(hand, t) < 4
    /\ (\A i \in DOMAIN hand : hand[i] <= t)
    /\ hand' = Append(hand, t)

Init == hand = <<>>

Next == \E t \in Tiles \cup {Zhong} : Draw(t)

Spec == Init /\ [][Next]_hand

-----------------------------------------------------------------------------
(* The comment over CheckHu says that a hand wins when it is N sequences, M  *)
(* triples and one pair, a joker being any tile: whatever is complete wins.  *)
CompleteWins ==
    (Len(hand) % 3 = 2 /\ IsComplete(hand)) => IsHu(hand)
=============================================================================
