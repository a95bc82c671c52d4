------------------------------ MODULE SzCards ------------------------------
(***************************************************************************)
(* Hands of three cards and how they compare: game/component/sz/logic.go.  *)
(*                                                                         *)
(* A card has a number, 1 for an ace, and a color.  SzGame knows hands by  *)
(* their strengths only; Strength gives a hand such a number.              *)
(***************************************************************************)
EXTENDS Integers

Cards == [number : 1 .. 13, color : 0 .. 3]

\* What getCards can deal: three different cards, in any order.
Hands == {h \in [1 .. 3 -> Cards] : h[1] # h[2] /\ h[2] # h[3] /\ h[1] # h[3]}

DanZhang == 1
DuiZi    == 2
ShunZi   == 3
JinHua   == 4
ShunJin  == 5
BaoZi    == 6

\* An ace is high.
GetCardsValue(card) == IF card.number = 1 THEN 14 ELSE card.number

Lesser(a, b) == IF a <= b THEN a ELSE b
Greater(a, b) == IF a <= b THEN b ELSE a

\* The values of a hand in order.
GetCardValues(h) ==
    LET a == GetCardsValue(h[1])
        b == GetCardsValue(h[2])
        c == GetCardsValue(h[3])
        low == Lesser(Lesser(a, b), c)
        high == Greater(Greater(a, b), c)
    IN  <<low, a + b + c - low - high, high>>

\* An ace is also the first card of one straight.
IsStraight(v) ==
    \/ v[1] + 1 = v[2] /\ v[2] + 1 = v[3]
    \/ v = <<2, 3, 14>>

\* The best type that the hand is of.
GetCardsType(h) ==
    LET v == GetCardValues(h)
        jinhua == h[1].color = h[2].color /\ h[2].color = h[3].color
        shunzi == IsStraight(v)
    IN  CASE h[1].number = h[2].number /\ h[2].number = h[3].number -> BaoZi
          [] jinhua /\ shunzi -> ShunJin
          [] jinhua /\ ~shunzi -> JinHua
          [] shunzi /\ ~jinhua -> ShunZi
          [] OTHER -> IF v[1] = v[2] \/ v[2] = v[3] THEN DuiZi ELSE DanZhang

\* The value of the pair and of the card beside it.
GetDuiZi(h) ==
    LET v == GetCardValues(h)
    IN  IF v[1] = v[2] THEN <<v[1], v[3]>> ELSE <<v[2], v[1]>>

\* Above 0 when the first hand wins, below when it loses.
CompareCards(from, to) ==
    LET v == GetCardValues(from)
        w == GetCardValues(to)
        p == GetDuiZi(from)
        q == GetDuiZi(to)
    IN  IF GetCardsType(from) # GetCardsType(to)
        THEN GetCardsType(from) - GetCardsType(to)
        ELSE IF GetCardsType(from) = DuiZi
             THEN IF p[1] # q[1] THEN p[1] - q[1] ELSE p[2] - q[2]
        ELSE IF v[3] # w[3] THEN v[3] - w[3]
        ELSE IF v[2] # w[2] THEN v[2] - w[2]
        ELSE v[1] - w[1]

-----------------------------------------------------------------------------
(* Properties. *)

\* The type counts first, then the pair and its kicker, or the cards from the
\* highest to the lowest.
Strength(h) ==
    LET v == GetCardValues(h)
        p == GetDuiZi(h)
        t == GetCardsType(h)
    IN  IF t = DuiZi THEN 3375 * t + 225 * p[1] + 15 * p[2]
        ELSE 3375 * t + 225 * v[3] + 15 * v[2] + v[1]

(* CompareCards is a comparison of strengths: whichever players are compared *)
(* first in startResult, the same ones are left.                             *)
ComparesStrengths(a, b) ==
    /\ CompareCards(a, b) > 0 <=> Strength(a) > Strength(b)
    /\ CompareCards(a, b) = 0 <=> Strength(a) = Strength(b)
=============================================================================
