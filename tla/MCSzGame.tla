------------------------------ MODULE MCSzGame ------------------------------
EXTENDS SzImplements, SzCards

Card(n, c) == [number |-> n, color |-> c]

\* Straights with the ace at both ends, flushes, pairs and three of a kind.
SomeCards == [number : {1, 2, 3, 12, 13}, color : {0, 1}] \cup {Card(1, 2)}
SomeHands == {h \in [1 .. 3 -> SomeCards] : h \in Hands}
InOrder == {h \in SomeHands :
              \A i \in 1 .. 2 : \/ h[i].number < h[i + 1].number
                                \/ /\ h[i].number = h[i + 1].number
                                   /\ h[i].color < h[i + 1].color}

ASSUME StrengthsAgree == \A a \in SomeHands, b \in InOrder : ComparesStrengths(a, b)

Ace == <<Card(1, 0), Card(9, 1), Card(4, 2)>>
OtherAce == <<Card(4, 1), Card(1, 2), Card(9, 3)>>
ThirdAce == <<Card(9, 2), Card(4, 3), Card(1, 1)>>
Pair == <<Card(5, 0), Card(7, 1), Card(5, 2)>>
Flush == <<Card(2, 3), Card(11, 3), Card(6, 3)>>

\* Three different hands, two equal ones, equal hands only.
ThreeDeals == {
    [c \in Chairs |-> Strength(<<Ace, Pair, Flush>>[c + 1])],
    [c \in Chairs |-> Strength(<<OtherAce, <<Card(2, 0), Card(9, 1), Card(4, 2)>>, Ace>>[c + 1])],
    [c \in Chairs |-> Strength(<<Ace, OtherAce, ThirdAce>>[c + 1])]}
=============================================================================
