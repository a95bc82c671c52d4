-------------------------------- MODULE MjHu --------------------------------
(***************************************************************************)
(* When a mahjong hand is complete: game/component/mj/alg.                 *)
(*                                                                         *)
(* At its start the server builds a table of all ways to fill one suit     *)
(* with triples, sequences and at most one pair, and of what is left of    *)
(* them when some tiles are taken away for jokers (gui).  A hand is looked *)
(* up suit by suit, each time with as few jokers as will do.               *)
(*                                                                         *)
(* A suit's tiles are counted by rank; a tile is 10 * suit + rank, as in   *)
(* the code, whose suits have nine ranks.                                  *)
(***************************************************************************)
EXTENDS Integers, Sequences, FiniteSets, FiniteSetsExt, Functions, SequencesExt

CONSTANTS
    Suits,        \* number suits and the honours, numbered from 0: 4 in the code
    Feng,         \* the suit of honours (feng), without sequences: 3
    RankCount,    \* 9
    Zhong,        \* the joker's tile: 35
    MaxTiles,     \* tiles of a full hand: 14
    MaxGui,       \* tables are built for this many jokers: 8
    KeyDic,       \* the tables the server built at its start: NewTable
    KeyFengDic    \* and NewFengTable

Ranks == 1 .. RankCount

ASSUME HuAssumption ==
    /\ Suits \in Nat \ {0}
    /\ Feng \in Nat
    /\ RankCount \in 1 .. 9
    /\ MaxTiles \in Nat
    /\ MaxGui \in Nat
    /\ Zhong \in Nat \ {0}

Tiles == {10 * s + r : s \in 0 .. (Suits - 1), r \in Ranks}

Empty == [r \in Ranks |-> 0]
Total(cards) == FoldFunction(+, 0, cards)

\* seven of the nine honours exist
Usable(feng) == {r \in Ranks : feng => r <= RankCount - 2}

-----------------------------------------------------------------------------
(* The table. *)

AddTriple(cards, feng) ==
    {[cards EXCEPT ![r] = @ + 3] : r \in {q \in Usable(feng) :
        Total(cards) <= MaxTiles - 3 /\ cards[q] <= 1}}

AddSequence(cards, feng) ==
    {[r \in Ranks |-> IF r \in q .. (q + 2) THEN cards[r] + 1 ELSE cards[r]] :
        q \in {p \in 1 .. (RankCount - 2) :
                 /\ ~feng /\ Total(cards) <= MaxTiles - 3
                 /\ \A r \in p .. (p + 2) : cards[r] <= 3}}

AddPair(cards, feng) ==
    {[cards EXCEPT ![r] = @ + 2] : r \in {q \in Usable(feng) :
        Total(cards) <= MaxTiles - 2 /\ cards[q] <= 2}}

\* One level of genTableNoGui: the entries with and without the pair (jiang).
Level(entries, feng) ==
    entries \cup UNION {
        {<<c, e[2]>> : c \in AddTriple(e[1], feng) \cup AddSequence(e[1], feng)}
          \cup (IF e[2] THEN {} ELSE {<<c, TRUE>> : c \in AddPair(e[1], feng)}) :
        e \in entries}

GenTableNoGui(feng) ==
    LET built == FoldLeft(LAMBDA entries, level : Level(entries, feng),
                          {<<Empty, FALSE>>}, <<0, 1, 2, 3, 4, 5>>)
    IN  {e[1] : e \in built} \ {Empty}

\* genGui takes one tile after the other away; tryAdd cuts only what was done.
OneLess(keys) ==
    UNION {{[c EXCEPT ![r] = @ - 1] : r \in {q \in Ranks : c[q] > 0}} : c \in keys}

\* The table without jokers, with one, with two, ...
GenTableGui(feng) ==
    FoldLeft(LAMBDA tables, gui : Append(tables, OneLess(tables[gui])),
             <<GenTableNoGui(feng)>>, [gui \in 1 .. MaxGui |-> gui])

NewTable == GenTableGui(FALSE)
NewFengTable == GenTableGui(TRUE)

Tables == [number |-> KeyDic, feng |-> KeyFengDic]

FindCards(cards, gui, feng) ==
    cards \in (IF feng THEN Tables.feng[gui + 1] ELSE Tables.number[gui + 1])

-----------------------------------------------------------------------------
(* Looking a hand up. *)

CardCount(hand, t) == Cardinality({i \in DOMAIN hand : hand[i] = t})

SuitCards(hand, s) == [r \in Ranks |-> CardCount(hand, 10 * s + r)]

\* The jokers that will do for a suit, when data.gui are left.
Fitting(data, cards, feng) ==
    {g \in 0 .. Min({data.gui, MaxGui}) :
        /\ FindCards(cards, g, feng)
        /\ (Total(cards) + g) % 3 = 2 => ~data.jiang}

\* The suit takes as few as will do, and the pair with them if it has two over.
Used(data, cards, g) ==
    [gui |-> data.gui - g, jiang |-> data.jiang \/ (Total(cards) + g) % 3 = 2]

\* Mutant: a suit that is not in the table is passed over.
CheckCardsSkips(data, cards, feng) ==
    LET fits == Fitting(data, cards, feng)
    IN  IF Total(cards) = 0 \/ fits = {} THEN {data}
        ELSE {Used(data, cards, g) : g \in {h \in fits : \A k \in fits : h <= k}}

\* What is left for the other suits, in a set that is empty if the suit does not fit.
CheckCards(data, cards, feng) ==
    LET fits == Fitting(data, cards, feng)
    IN  IF Total(cards) = 0 THEN {data}
        ELSE {Used(data, cards, g) : g \in {h \in fits : \A k \in fits : h <= k}}

\* What is left for the other suits after the first n of them.
SuitsChecked(hand, n) ==
    LET Check(left, s) ==
            UNION {CheckCards(data, SuitCards(hand, s), s = Feng) : data \in left}
        start == {[gui |-> CardCount(hand, Zhong), jiang |-> FALSE]}
    IN  FoldLeft(Check, start, [i \in 1 .. n |-> i - 1])

IsHu(hand) ==
    \E data \in SuitsChecked(hand, Suits) :
        data.gui % 3 = (IF data.jiang THEN 0 ELSE 2)

\* A number above the joker's is no tile, as 0 is none.
CheckHu(hand, card) ==
    \E full \in {IF card \in 1 .. Zhong THEN Append(hand, card) ELSE hand} : IsHu(full)

\* The lookup leaves its arrays: no suit has the tile's rank, or a fifth tile of
\* a kind, which has no key, is met before a suit that does not fit.
Unindexed(hand, card) ==
    card \in 1 .. (Zhong - 1) /\
        \/ card \notin Tiles
        \/ CardCount(hand, card) >= 4 /\ SuitsChecked(Append(hand, card), card \div 10) # {}

-----------------------------------------------------------------------------
(* What a complete hand is, by the comment over CheckHu: triples, sequences  *)
(* and one pair, where a joker stands for any tile.  No tile is used more    *)
(* than four times.                                                          *)

None == [t \in Tiles |-> 0]
Plus(u, v) == [t \in Tiles |-> u[t] + v[t]]
Times(n, t) == [None EXCEPT ![t] = n]

Playable == {t \in Tiles : t \div 10 = Feng => t % 10 <= RankCount - 2}
Sequence(t) == [u \in Tiles |-> IF u \in t .. (t + 2) THEN 1 ELSE 0]

Melds == {Times(3, t) : t \in Playable}
           \cup {Sequence(t) : t \in {u \in Tiles : u \div 10 # Feng /\ u % 10 <= RankCount - 2}}
Pairs == {Times(2, t) : t \in Playable}

\* Complete hands with 0, 1, 2 and 3 melds; and what 0 to 4 jokers may stand for.
CompleteHands ==
    FoldLeft(LAMBDA hands, n : Append(hands,
                 {h \in {Plus(u, m) : u \in hands[n], m \in Melds} :
                    \A t \in Tiles : h[t] <= 4}),
             <<Pairs>>, <<1, 2, 3>>)
StandIns ==
    FoldLeft(LAMBDA fills, n : Append(fills, {Plus(f, Times(1, t)) : f \in fills[n], t \in Tiles}),
             <<{None}>>, <<1, 2, 3, 4>>)

IsComplete(hand) ==
    LET shown == [t \in Tiles |-> CardCount(hand, t)]
    IN  \E f \in StandIns[CardCount(hand, Zhong) + 1] :
            Plus(shown, f) \in CompleteHands[(Len(hand) + 1) \div 3]
=============================================================================
