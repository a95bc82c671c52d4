----------------------------- MODULE MjGameProofs ---------------------------
(***************************************************************************)
(* What is proved of a mahjong game, for any number of chairs and bureaus, *)
(* any decks with four of each tile, any tokens that are read late and any *)
(* tiles or other numbers that messages name.                              *)
(*                                                                         *)
(* First comes how often a tile is there when hands are dealt, sorted,     *)
(* drawn to and laid from.  A bureau has four of each tile, and who has    *)
(* some leaves the fewer to the others: of any three hands and the deck    *)
(* together there are four at most (FourOfEach).  Three hands are enough:  *)
(* when one player discards a tile, no two others can both have a pair.    *)
(*                                                                         *)
(* The invariant says at which stage a game is.  Whoever acts has the turn *)
(* or the one claim on a discarded tile; each act leads to a draw          *)
(* (ToDraw), to a discard that may be claimed (ToPass) or to the result,   *)
(* and each of these to a stage again; an act that is refused leaves the   *)
(* turn where it was, without its task.  A game whose timers strayed into  *)
(* a later bureau, or in which a tile was laid that the hand lacks, is     *)
(* past all this and stays so.                                             *)
(***************************************************************************)
EXTENDS MjGame, FiniteSetTheorems, WellFoundedInduction, TLAPS

-----------------------------------------------------------------------------
(* Counting tiles. *)

Places(s, t) == {i \in DOMAIN s : s[i] = t}

\* The places of a tile are finitely many numbers of the sequence.
LEMMA PlacesFinite ==
    ASSUME NEW K, NEW s \in Seq(K), NEW t
    PROVE  /\ IsFiniteSet(Places(s, t)) /\ CardCount(s, t) = Cardinality(Places(s, t))
           /\ CardCount(s, t) \in Nat
           /\ Places(s, t) \subseteq 1 .. Len(s)
           /\ CardCount(s, t) = 0 <=> Places(s, t) = {}
  <1>1. DOMAIN s = 1 .. Len(s) /\ Len(s) \in Nat
    OBVIOUS
  <1>2. IsFiniteSet(1 .. Len(s))
    BY <1>1, FS_Interval
  <1>3. Places(s, t) \in SUBSET (1 .. Len(s))
    BY <1>1 DEF Places
  <1>4. IsFiniteSet(Places(s, t))
    BY <1>2, <1>3, FS_Subset
  <1>5. CardCount(s, t) = Cardinality(Places(s, t))
    BY DEF CardCount, Places
  <1>. QED  BY <1>3, <1>4, <1>5, FS_CardinalityType, FS_EmptySet

\* Sequences whose places of a tile correspond have it equally often.
LEMMA EquallyOften ==
    ASSUME NEW K, NEW s \in Seq(K), NEW r \in Seq(K), NEW t,
           NEW f \in [Places(r, t) -> Places(s, t)],
           \A i, j \in Places(r, t) : f[i] = f[j] => i = j,
           \A j \in Places(s, t) : \E i \in Places(r, t) : f[i] = j
    PROVE  CardCount(r, t) = CardCount(s, t)
  <1>. DEFINE A == Places(r, t)
              B == Places(s, t)
  <1>1. IsFiniteSet(A) /\ CardCount(r, t) = Cardinality(A) /\ CardCount(s, t) = Cardinality(B)
    BY PlacesFinite
  <1>2. f \in Bijection(A, B)
    BY DEF Bijection, Injection, Surjection, IsInjective
  <1>. HIDE DEF A, B
  <1>3. ExistsBijection(A, B)
    BY <1>2 DEF ExistsBijection
  <1>4. Cardinality(B) = Cardinality(A)
    BY <1>1, <1>3, FS_Bijection
  <1>. QED  BY <1>1, <1>4

\* A tile is put at the end.
LEMMA AppendCounts ==
    ASSUME NEW K, NEW s \in Seq(K), NEW e \in K, NEW t
    PROVE  /\ Append(s, e) \in Seq(K) /\ Len(Append(s, e)) = Len(s) + 1
           /\ CardCount(Append(s, e), t) = CardCount(s, t) + (IF e = t THEN 1 ELSE 0)
  <1>. DEFINE r == Append(s, e)
              n == Len(s) + 1
  <1>1. /\ r \in Seq(K) /\ Len(r) = n /\ n \in Nat
        /\ r[n] = e /\ \A i \in 1 .. Len(s) : r[i] = s[i]
    OBVIOUS
  <1>2. DOMAIN r = 1 .. n /\ DOMAIN s = 1 .. Len(s) /\ Len(s) \in Nat
    BY <1>1
  <1>3. Places(r, t) = IF e = t THEN Places(s, t) \cup {n} ELSE Places(s, t)
    <2>. HIDE DEF r
    <2>. QED  BY <1>1, <1>2 DEF Places
  <1>4. n \notin Places(s, t)
    BY <1>2 DEF Places
  <1>5. /\ IsFiniteSet(Places(s, t)) /\ CardCount(s, t) = Cardinality(Places(s, t))
        /\ CardCount(r, t) = Cardinality(Places(r, t)) /\ CardCount(s, t) \in Nat
    BY <1>1, PlacesFinite
  <1>. HIDE DEF r, n
  <1>6. Cardinality(Places(s, t) \cup {n}) = Cardinality(Places(s, t)) + 1
    BY <1>4, <1>5, FS_AddElement
  <1>7. CardCount(r, t) = CardCount(s, t) + (IF e = t THEN 1 ELSE 0)
    BY <1>3, <1>5, <1>6
  <1>. QED  BY <1>1, <1>7 DEF r, n

\* RemoveAt takes away what is at a place.
LEMMA RemoveAtElements ==
    ASSUME NEW K, NEW s \in Seq(K), NEW m \in DOMAIN s
    PROVE  /\ RemoveAt(s, m) \in Seq(K) /\ Len(RemoveAt(s, m)) = Len(s) - 1
           /\ \A i \in 1 .. (Len(s) - 1) :
                 RemoveAt(s, m)[i] = IF i < m THEN s[i] ELSE s[i + 1]
  <1>. DEFINE a == SubSeq(s, 1, m - 1)
              b == SubSeq(s, m + 1, Len(s))
  <1>1. m \in 1 .. Len(s) /\ Len(s) \in Nat
    OBVIOUS
  <1>2. a \in Seq(K) /\ Len(a) = m - 1 /\ \A i \in 1 .. (m - 1) : a[i] = s[i]
    BY <1>1
  <1>3. /\ b \in Seq(K) /\ Len(b) = Len(s) - m
        /\ \A i \in 1 .. (Len(s) - m) : b[i] = s[m + i]
    BY <1>1
  <1>4. RemoveAt(s, m) = a \o b
    BY DEF RemoveAt
  <1>. HIDE DEF a, b
  <1>5. a \o b \in Seq(K) /\ Len(a \o b) = Len(s) - 1
    BY <1>1, <1>2, <1>3
  <1>6. ASSUME NEW i \in 1 .. (Len(s) - 1)
        PROVE  (a \o b)[i] = IF i < m THEN s[i] ELSE s[i + 1]
    <2>1. CASE i < m
      BY <1>1, <1>2, <1>3, <2>1
    <2>2. CASE ~(i < m)
      <3>1. i - (m - 1) \in 1 .. (Len(s) - m) /\ i > Len(a) /\ i <= Len(a) + Len(b)
        BY <1>1, <1>2, <1>3, <2>2
      <3>2. (a \o b)[i] = b[i - Len(a)]
        <4>1. /\ i \in Nat /\ i > Len(a) /\ i <= Len(a) + Len(b)
              /\ a \in Seq(K) /\ b \in Seq(K)
          BY <1>1, <1>2, <1>3, <3>1
        <4>. QED  BY <4>1
      <3>3. b[i - (m - 1)] = s[m + (i - (m - 1))]
        BY <1>3, <3>1
      <3>4. m + (i - (m - 1)) = i + 1
        BY <1>1
      <3>. QED  BY <1>2, <2>2, <3>2, <3>3, <3>4
    <2>. QED  BY <2>1, <2>2
  <1>. QED  BY <1>4, <1>5, <1>6

\* So one tile is there once less.
LEMMA RemoveAtCounts ==
    ASSUME NEW K, NEW s \in Seq(K), NEW m \in DOMAIN s, NEW t
    PROVE  CardCount(RemoveAt(s, m), t) = CardCount(s, t) - (IF s[m] = t THEN 1 ELSE 0)
  <1>. DEFINE r == RemoveAt(s, m)
              A == Places(r, t)
              B == Places(s, t) \ {m}
              f == [i \in A |-> IF i < m THEN i ELSE i + 1]
  <1>1. /\ r \in Seq(K) /\ Len(r) = Len(s) - 1
        /\ \A i \in 1 .. (Len(s) - 1) : r[i] = IF i < m THEN s[i] ELSE s[i + 1]
    BY RemoveAtElements
  <1>. HIDE DEF r
  <1>2. /\ DOMAIN r = 1 .. (Len(s) - 1) /\ DOMAIN s = 1 .. Len(s)
        /\ Len(s) \in Nat /\ m \in 1 .. Len(s)
    BY <1>1
  <1>3. f \in [A -> B] /\ \A i, j \in A : f[i] = f[j] => i = j
    <2>1. \A i \in A : f[i] \in B
      BY <1>1, <1>2 DEF Places
    <2>2. \A i, j \in A : f[i] = f[j] => i = j
      BY <1>1, <1>2 DEF Places
    <2>. QED  BY <2>1, <2>2
  <1>4. \A j \in B : \E i \in A : f[i] = j
    <2>. SUFFICES ASSUME NEW j \in B
                  PROVE  \E i \in A : f[i] = j
      OBVIOUS
    <2>1. j \in 1 .. Len(s) /\ j # m /\ s[j] = t
      BY <1>2 DEF Places
    <2>2. CASE j < m
      <3>1. j \in A
        BY <1>1, <1>2, <2>1, <2>2 DEF Places
      <3>. QED  BY <2>2, <3>1
    <2>3. CASE ~(j < m)
      <3>1. j - 1 \in A /\ ~(j - 1 < m)
        BY <1>1, <1>2, <2>1, <2>3 DEF Places
      <3>2. f[j - 1] = j
        BY <1>2, <2>1, <3>1
      <3>. QED  BY <3>1, <3>2
    <2>. QED  BY <2>2, <2>3
  <1>5. /\ IsFiniteSet(A) /\ CardCount(r, t) = Cardinality(A) /\ CardCount(s, t) \in Nat
        /\ IsFiniteSet(Places(s, t)) /\ CardCount(s, t) = Cardinality(Places(s, t))
    BY <1>1, PlacesFinite
  <1>6. f \in Bijection(A, B)
    <2>. HIDE DEF f, A, B
    <2>. QED  BY <1>3, <1>4 DEF Bijection, Injection, Surjection, IsInjective
  <1>7. ExistsBijection(A, B)
    BY <1>6 DEF ExistsBijection
  <1>8. Cardinality(B) = Cardinality(A)
    BY <1>5, <1>7, FS_Bijection
  <1>9. Cardinality(B) = Cardinality(Places(s, t)) - (IF m \in Places(s, t) THEN 1 ELSE 0)
    <2>. DEFINE S == Places(s, t)
    <2>. HIDE DEF f, A, S
    <2>1. IsFiniteSet(S)
      BY <1>5 DEF S
    <2>2. Cardinality(S \ {m}) = IF m \in S THEN Cardinality(S) - 1 ELSE Cardinality(S)
      BY <2>1, FS_RemoveElement
    <2>3. Cardinality(S) \in Nat
      BY <2>1, FS_CardinalityType
    <2>. QED  BY <2>2, <2>3 DEF S
  <1>10. m \in Places(s, t) <=> s[m] = t
    BY DEF Places
  <1>. QED  BY <1>5, <1>8, <1>9, <1>10 DEF r

\* A set of numbers has a least one.
LEMMA LeastNumber ==
    ASSUME NEW S \in SUBSET Nat, S # {}
    PROVE  \E x \in S : \A y \in S : x <= y
  <1>. DEFINE R == OpToRel(<, Nat)
  <1>1. IsWellFoundedOn(R, Nat)
    BY NatLessThanWellFounded
  <1>2. \A x, y \in Nat : <<x, y>> \in R <=> x < y
    BY DEF OpToRel
  <1>. HIDE DEF R
  <1>3. PICK x \in S : \A y \in S : ~(<<y, x>> \in R)
    BY <1>1, WFMin
  <1>4. \A y \in S : ~(y < x)
    BY <1>2, <1>3, Zenon
  <1>5. \A y \in S : x <= y
    BY <1>4
  <1>. QED  BY <1>5

\* A set of places has a first and a last one.
LEMMA FirstAndLast ==
    ASSUME NEW n \in Nat, NEW S \in SUBSET (1 .. n), S # {}
    PROVE  /\ Min(S) \in S /\ \A y \in S : Min(S) <= y
           /\ Max(S) \in S /\ \A y \in S : Max(S) >= y
  <1>2. \E x \in S : \A y \in S : x <= y
    BY LeastNumber
  <1>3. \E x \in S : \A y \in S : x >= y
    <2>. DEFINE T == {n - i : i \in S}
    <2>1. T \in SUBSET Nat /\ T # {}
      <3>1. \A i \in S : n - i \in Nat
        OBVIOUS
      <3>. QED  BY <3>1
    <2>. HIDE DEF T
    <2>2. PICK x \in T : \A y \in T : x <= y
      BY <2>1, LeastNumber
    <2>3. PICK i \in S : x = n - i
      BY <2>2 DEF T
    <2>4. \A j \in S : n - i <= n - j
      BY <2>2, <2>3 DEF T
    <2>. QED  BY <2>3, <2>4
  <1>. QED  BY <1>2, <1>3 DEF Min, Max

Del(h, t) == IF CardCount(h, t) = 0 THEN h
             ELSE RemoveAt(h, Max({j \in DOMAIN h : h[j] = t}))

Deleted(h, t, n) ==
    IF n = 0 THEN h
    ELSE IF n = 1 THEN Del(h, t)
    ELSE IF n = 2 THEN Del(Del(h, t), t)
    ELSE IF n = 3 THEN Del(Del(Del(h, t), t), t)
    ELSE Del(Del(Del(Del(h, t), t), t), t)

\* delCardFromArray takes one tile after the other.
LEMMA DelCardUnfolds ==
    ASSUME NEW h, NEW t, NEW n \in 1 .. 4
    PROVE  DelCard(h, t, n) = Deleted(h, t, n)
  <1>. DEFINE D == DOMAIN [i \in 1 .. n |-> i]
              Eq(f) == f = [s \in SUBSET D |->
                              IF s = {} THEN h ELSE Del(f[s \ {Max(s)}], t)]
              W == [s \in SUBSET D |-> Deleted(h, t, Cardinality(s))]
              iter == CHOOSE f : Eq(f)
  <1>1. DelCard(h, t, n) = iter[D]
    BY Zenon DEF DelCard, Del, FoldLeft, MapThenFoldSet
  <1>2. D = 1 .. n
    OBVIOUS
  <1>3. \A s \in SUBSET D : s # {} =>
            /\ Max(s) \in s /\ s \ {Max(s)} \in SUBSET D
            /\ Cardinality(s) \in 1 .. 4
            /\ Cardinality(s \ {Max(s)}) = Cardinality(s) - 1
    <2>. SUFFICES ASSUME NEW s \in SUBSET (1 .. n), s # {}
                  PROVE  /\ Max(s) \in s /\ s \ {Max(s)} \in SUBSET (1 .. n)
                         /\ Cardinality(s) \in 1 .. 4
                         /\ Cardinality(s \ {Max(s)}) = Cardinality(s) - 1
      BY <1>2
    <2>1. Max(s) \in s
      BY FirstAndLast
    <2>2. IsFiniteSet(1 .. n) /\ Cardinality(1 .. n) = n
      <3>1. 1 \in Int /\ n \in Int /\ ~(1 > n) /\ n - 1 + 1 = n
        OBVIOUS
      <3>. QED  BY <3>1, FS_Interval
    <2>3. IsFiniteSet(s) /\ Cardinality(s) <= n
      BY <2>2, FS_Subset
    <2>4. Cardinality(s) \in Nat /\ Cardinality(s) # 0
      BY <2>3, FS_CardinalityType, FS_EmptySet
    <2>. DEFINE m == Max(s)
    <2>. HIDE DEF m
    <2>5. m \in s
      BY <2>1 DEF m
    <2>6. Cardinality(s \ {m}) = Cardinality(s) - 1
      BY <2>3, <2>5, FS_RemoveElement
    <2>7. Cardinality(s) \in 1 .. 4
      BY <2>3, <2>4
    <2>. QED  BY <2>5, <2>6, <2>7 DEF m
  <1>4. Eq(W)
    <2>1. ASSUME NEW s \in SUBSET D
          PROVE  W[s] = IF s = {} THEN h ELSE Del(W[s \ {Max(s)}], t)
      <3>1. CASE s = {}
        <4>1. Cardinality(s) = 0
          BY <3>1, FS_EmptySet
        <4>. QED  BY <3>1, <4>1 DEF Deleted
      <3>2. CASE s # {}
        <4>1. /\ s \ {Max(s)} \in SUBSET D
              /\ Cardinality(s) \in 1 .. 4
              /\ Cardinality(s \ {Max(s)}) = Cardinality(s) - 1
          BY <1>3, <3>2
        <4>2. W[s \ {Max(s)}] = Deleted(h, t, Cardinality(s) - 1)
          BY <4>1
        <4>3. \A k \in 1 .. 4 : Deleted(h, t, k) = Del(Deleted(h, t, k - 1), t)
          BY DEF Deleted
        <4>. HIDE DEF D
        <4>4. W[s] = Deleted(h, t, Cardinality(s))
          OBVIOUS
        <4>. HIDE DEF W
        <4>. QED  BY <3>2, <4>1, <4>2, <4>3, <4>4
      <3>. QED  BY <3>1, <3>2
    <2>. HIDE DEF D
    <2>2. W = [s \in SUBSET D |-> W[s]]
      OBVIOUS
    <2>. HIDE DEF W
    <2>. QED  BY <2>1, <2>2
  <1>. HIDE DEF Eq, W
  <1>5. Eq(iter)
    BY <1>4
  <1>. HIDE DEF iter
  <1>6. \A s \in SUBSET D : iter[s] = IF s = {} THEN h ELSE Del(iter[s \ {Max(s)}], t)
    BY <1>5 DEF Eq
  <1>. HIDE DEF D
  <1>7. \A k \in 1 .. n : Max(1 .. k) = k /\ (1 .. k) \ {k} = 1 .. (k - 1)
    <2>. SUFFICES ASSUME NEW k \in 1 .. n
                  PROVE  Max(1 .. k) = k /\ (1 .. k) \ {k} = 1 .. (k - 1)
      OBVIOUS
    <2>1. k \in Nat /\ (1 .. k) \in SUBSET (1 .. k) /\ 1 .. k # {}
      OBVIOUS
    <2>2. Max(1 .. k) \in 1 .. k /\ \A y \in 1 .. k : Max(1 .. k) >= y
      BY <2>1, FirstAndLast
    <2>. QED  BY <2>2
  <1>8. \A k \in 1 .. n : iter[1 .. k] = Del(iter[1 .. (k - 1)], t)
    <2>. SUFFICES ASSUME NEW k \in 1 .. n
                  PROVE  iter[1 .. k] = Del(iter[1 .. (k - 1)], t)
      OBVIOUS
    <2>1. (1 .. k) \in SUBSET D /\ (1 .. k) # {}
      BY <1>2
    <2>. QED  BY <1>6, <1>7, <2>1
  <1>9. iter[1 .. 0] = h
    <2>1. 1 .. 0 = {} /\ {} \in SUBSET D
      OBVIOUS
    <2>. QED  BY <1>6, <2>1
  <1>10. \A k \in 1 .. n : k = 1 \/ k - 1 \in 1 .. n
    OBVIOUS
  <1>11. CASE n = 1
    BY <1>1, <1>2, <1>8, <1>9, <1>11 DEF Deleted
  <1>12. CASE n = 2
    <2>1. iter[1 .. 1] = Del(h, t)
      BY <1>8, <1>9, <1>12
    <2>2. iter[1 .. 2] = Del(iter[1 .. 1], t)
      BY <1>8, <1>12
    <2>. QED  BY <1>1, <1>2, <1>12, <2>1, <2>2 DEF Deleted
  <1>13. CASE n = 3
    <2>1. iter[1 .. 1] = Del(h, t)
      BY <1>8, <1>9, <1>13
    <2>2. iter[1 .. 2] = Del(iter[1 .. 1], t)
      BY <1>8, <1>13
    <2>3. iter[1 .. 3] = Del(iter[1 .. 2], t)
      BY <1>8, <1>13
    <2>. QED  BY <1>1, <1>2, <1>13, <2>1, <2>2, <2>3 DEF Deleted
  <1>14. CASE n = 4
    <2>1. iter[1 .. 1] = Del(h, t)
      BY <1>8, <1>9, <1>14
    <2>2. iter[1 .. 2] = Del(iter[1 .. 1], t)
      BY <1>8, <1>14
    <2>3. iter[1 .. 3] = Del(iter[1 .. 2], t)
      BY <1>8, <1>14
    <2>4. iter[1 .. 4] = Del(iter[1 .. 3], t)
      BY <1>8, <1>14
    <2>. QED  BY <1>1, <1>2, <1>14, <2>1, <2>2, <2>3, <2>4 DEF Deleted
  <1>. QED  BY <1>11, <1>12, <1>13, <1>14

\* One tile less, when the hand has it.
LEMMA DelCounts ==
    ASSUME NEW K, NEW s \in Seq(K), NEW t, CardCount(s, t) >= 1
    PROVE  /\ Del(s, t) \in Seq(K) /\ Len(Del(s, t)) = Len(s) - 1 /\ Len(s) >= 1
           /\ CardCount(Del(s, t), t) = CardCount(s, t) - 1
           /\ \A u : u # t => CardCount(Del(s, t), u) = CardCount(s, u)
  <1>. DEFINE S == Places(s, t)
              m == Max(S)
  <1>1. CardCount(s, t) # 0 /\ S # {} /\ S \in SUBSET (1 .. Len(s)) /\ Len(s) \in Nat
        /\ CardCount(s, t) \in Nat
    BY PlacesFinite
  <1>. HIDE DEF S
  <1>2. m \in S
    BY <1>1, FirstAndLast
  <1>. HIDE DEF m
  <1>3. m \in DOMAIN s /\ s[m] = t
    BY <1>2 DEF S, Places
  <1>4. Del(s, t) = RemoveAt(s, m)
    BY <1>1 DEF Del, m, S, Places
  <1>5. RemoveAt(s, m) \in Seq(K) /\ Len(RemoveAt(s, m)) = Len(s) - 1
    BY <1>3, RemoveAtElements
  <1>6. \A u : CardCount(RemoveAt(s, m), u) = CardCount(s, u) - (IF s[m] = u THEN 1 ELSE 0)
    BY <1>3, RemoveAtCounts
  <1>7. \A u : CardCount(s, u) \in Nat
    BY PlacesFinite
  <1>8. CardCount(RemoveAt(s, m), t) = CardCount(s, t) - 1
    BY <1>3, <1>6
  <1>9. \A u : u # t => CardCount(RemoveAt(s, m), u) = CardCount(s, u)
    BY <1>3, <1>6, <1>7
  <1>10. Len(s) >= 1
    BY <1>3
  <1>. QED  BY <1>4, <1>5, <1>8, <1>9, <1>10

\* delCardFromArray takes as many tiles as it is told to.
LEMMA DelCardCounts ==
    ASSUME NEW K, NEW s \in Seq(K), NEW t, NEW n \in 1 .. 4, CardCount(s, t) >= n
    PROVE  /\ DelCard(s, t, n) \in Seq(K)
           /\ Len(DelCard(s, t, n)) = Len(s) - n /\ Len(s) >= n
           /\ CardCount(DelCard(s, t, n), t) = CardCount(s, t) - n
           /\ \A u : u # t => CardCount(DelCard(s, t, n), u) = CardCount(s, u)
  <1>. DEFINE Less(r, k) ==
                  /\ r \in Seq(K) /\ Len(r) = Len(s) - k /\ Len(s) >= k
                  /\ CardCount(r, t) = CardCount(s, t) - k
                  /\ \A u : u # t => CardCount(r, u) = CardCount(s, u)
  <1>1. Less(s, 0)
    BY PlacesFinite
  <1>2. CardCount(s, t) \in Nat /\ Len(s) \in Nat
    BY PlacesFinite
  <1>3. ASSUME NEW r, NEW k \in 0 .. (n - 1), Less(r, k)
        PROVE  Less(Del(r, t), k + 1)
    <2>1. CardCount(r, t) >= 1
      BY <1>2, <1>3
    <2>2. /\ Del(r, t) \in Seq(K) /\ Len(Del(r, t)) = Len(r) - 1 /\ Len(r) >= 1
          /\ CardCount(Del(r, t), t) = CardCount(r, t) - 1
          /\ \A u : u # t => CardCount(Del(r, t), u) = CardCount(r, u)
      BY <1>3, <2>1, DelCounts
    <2>. QED  BY <1>2, <1>3, <2>2
  <1>4. DelCard(s, t, n) = Deleted(s, t, n)
    BY DelCardUnfolds
  <1>. HIDE DEF Less
  <1>5. Less(Del(s, t), 1)
    BY <1>1, <1>3
  <1>6. n >= 2 => Less(Del(Del(s, t), t), 2)
    BY <1>5, <1>3
  <1>7. n >= 3 => Less(Del(Del(Del(s, t), t), t), 3)
    BY <1>6, <1>3
  <1>8. n = 4 => Less(Del(Del(Del(Del(s, t), t), t), t), 4)
    BY <1>7, <1>3
  <1>9. Less(Deleted(s, t, n), n)
    BY <1>5, <1>6, <1>7, <1>8 DEF Deleted
  <1>. QED  BY <1>4, <1>9 DEF Less

-----------------------------------------------------------------------------
(* Putting things in order. *)

\* Of two things one is before the other.
Chain(S, below) ==
    /\ IsFiniteSet(S) /\ below \in [S -> SUBSET S]
    /\ \A a, b \in S :
          /\ a \in below[a]
          /\ \/ a = b
             \/ below[a] \subseteq below[b] /\ b \notin below[a]
             \/ below[b] \subseteq below[a] /\ a \notin below[b]

Ranked(S, below) ==
    /\ \A a \in S : Cardinality(below[a]) \in 1 .. Cardinality(S)
    /\ \A a, b \in S : Cardinality(below[a]) = Cardinality(below[b]) => a = b
    /\ \A k \in 1 .. Cardinality(S) : \E a \in S : Cardinality(below[a]) = k

\* Counting those before it gives each thing a place of its own, and no place
\* is left empty.
LEMMA EveryPlaceIsTaken ==
    ASSUME NEW S, NEW below, Chain(S, below)
    PROVE  Ranked(S, below)
  <1>. DEFINE n == Cardinality(S)
              rank == [a \in S |-> Cardinality(below[a])]
  <1>0. IsFiniteSet(S) /\ below \in [S -> SUBSET S]
    BY DEF Chain
  <1>1. n \in Nat
    BY <1>0, FS_CardinalityType
  <1>2. ASSUME NEW a \in S
        PROVE  IsFiniteSet(below[a]) /\ Cardinality(below[a]) \in 1 .. n
    <2>1. below[a] \in SUBSET S /\ below[a] # {}
      BY <1>0 DEF Chain
    <2>2. IsFiniteSet(below[a]) /\ Cardinality(below[a]) <= n
      BY <1>0, <2>1, FS_Subset
    <2>3. Cardinality(below[a]) \in Nat /\ Cardinality(below[a]) # 0
      BY <2>1, <2>2, FS_CardinalityType, FS_EmptySet
    <2>. QED  BY <1>1, <2>2, <2>3
  <1>3. ASSUME NEW a \in S, NEW b \in S, Cardinality(below[a]) = Cardinality(below[b])
        PROVE  a = b
    <2>1. ASSUME below[a] \subseteq below[b], b \notin below[a]
          PROVE  FALSE
      <3>1. below[a] = below[b]
        BY <1>2, <1>3, <2>1, FS_Subset
      <3>. QED  BY <2>1, <3>1 DEF Chain
    <2>2. ASSUME below[b] \subseteq below[a], a \notin below[b]
          PROVE  FALSE
      <3>1. below[a] = below[b]
        BY <1>2, <1>3, <2>2, FS_Subset
      <3>. QED  BY <2>2, <3>1 DEF Chain
    <2>. QED  BY <2>1, <2>2 DEF Chain
  <1>. HIDE DEF n
  <1>4. rank \in Injection(S, 1 .. n)
    BY <1>2, <1>3 DEF Injection, IsInjective
  <1>5. IsFiniteSet(1 .. n) /\ Cardinality(1 .. n) = n
    <2>1. 1 \in Int /\ n \in Int /\ (1 > n => n = 0) /\ n - 1 + 1 = n
      BY <1>1
    <2>. QED  BY <2>1, FS_Interval
  <1>6. rank \in Surjection(S, 1 .. n)
    BY <1>4, <1>5, FS_Injection DEF n
  <1>. QED  BY <1>2, <1>3, <1>6 DEF n, Surjection, Ranked

\* sortCard only changes the places of tiles.
LEMMA SortedCounts ==
    ASSUME NEW K \in SUBSET Int, NEW s \in Seq(K), NEW t
    PROVE  /\ Sorted(s) \in Seq(K) /\ Len(Sorted(s)) = Len(s)
           /\ CardCount(Sorted(s), t) = CardCount(s, t)
  <1>. DEFINE S == DOMAIN s
              below == [i \in S |-> {j \in S : s[j] < s[i] \/ (s[j] = s[i] /\ j <= i)}]
              place(i) == Cardinality({j \in S : s[j] < s[i] \/ (s[j] = s[i] /\ j <= i)})
              p == [k \in S |-> CHOOSE i \in S : place(i) = k]
              r == [k \in S |-> s[p[k]]]
  <1>1. /\ S = 1 .. Len(s) /\ DOMAIN s = S /\ Len(s) \in Nat
        /\ \A i \in S : s[i] \in K /\ s[i] \in Int /\ i \in Int
    <2>1. S = 1 .. Len(s) /\ Len(s) \in Nat /\ \A i \in S : s[i] \in K /\ i \in Int
      OBVIOUS
    <2>. QED  BY <2>1
  <1>2. Sorted(s) = r
    <2>1. Sorted(s) = [k \in S |-> s[CHOOSE i \in S : place(i) = k]]
      BY Zenon DEF Sorted
    <2>. HIDE DEF S, place
    <2>. QED  BY <2>1
  <1>3. IsFiniteSet(S) /\ Cardinality(S) = Len(s)
    <2>1. 1 \in Int /\ Len(s) \in Int /\ (1 > Len(s) => Len(s) = 0) /\ Len(s) - 1 + 1 = Len(s)
      BY <1>1
    <2>. QED  BY <1>1, <2>1, FS_Interval
  <1>4. below \in [S -> SUBSET S]
    OBVIOUS
  <1>5. Chain(S, below)
    <2>. SUFFICES ASSUME NEW a \in S, NEW b \in S
                  PROVE  /\ a \in below[a]
                         /\ \/ a = b
                            \/ below[a] \subseteq below[b] /\ b \notin below[a]
                            \/ below[b] \subseteq below[a] /\ a \notin below[b]
      BY <1>3, <1>4, Zenon DEF Chain
    <2>1. a \in below[a]
      OBVIOUS
    <2>2. ASSUME s[a] < s[b] \/ (s[a] = s[b] /\ a < b)
          PROVE  below[a] \subseteq below[b] /\ b \notin below[a]
      BY <1>1, <2>2
    <2>3. ASSUME s[b] < s[a] \/ (s[a] = s[b] /\ b < a)
          PROVE  below[b] \subseteq below[a] /\ a \notin below[b]
      BY <1>1, <2>3
    <2>4. \/ a = b
          \/ s[a] < s[b] \/ (s[a] = s[b] /\ a < b)
          \/ s[b] < s[a] \/ (s[a] = s[b] /\ b < a)
      BY <1>1
    <2>. QED  BY <2>1, <2>2, <2>3, <2>4
  <1>0. \A i \in S : place(i) = Cardinality(below[i])
    OBVIOUS
  <1>. HIDE DEF below, place, S
  <1>6. /\ \A i \in S : place(i) \in S
        /\ \A i, j \in S : place(i) = place(j) => i = j
        /\ \A k \in S : \E i \in S : place(i) = k
    <2>1. Ranked(S, below)
      BY <1>5, EveryPlaceIsTaken
    <2>2. \A k : k \in S <=> k \in 1 .. Cardinality(S)
      BY <1>1, <1>3
    <2>. QED  BY <1>0, <2>1, <2>2 DEF Ranked
  <1>7. \A k \in S : p[k] \in S /\ place(p[k]) = k
    BY <1>6
  <1>8. \A i \in S : p[place(i)] = i
    BY <1>6, <1>7
  <1>. HIDE DEF p
  <1>9. r \in Seq(K) /\ Len(r) = Len(s) /\ DOMAIN r = S
    <2>1. r \in [S -> K]
      BY <1>1, <1>7
    <2>2. r \in [1 .. Len(s) -> K]
      BY <1>1, <2>1
    <2>. HIDE DEF r
    <2>. QED  BY <1>1, <2>2
  <1>10. CardCount(r, t) = CardCount(s, t)
    <2>. DEFINE f == [k \in Places(r, t) |-> p[k]]
    <2>1. f \in [Places(r, t) -> Places(s, t)]
      BY <1>1, <1>7, <1>9 DEF Places
    <2>2. \A i, j \in Places(r, t) : f[i] = f[j] => i = j
      BY <1>7, <1>9 DEF Places
    <2>3. \A j \in Places(s, t) : \E i \in Places(r, t) : f[i] = j
      <3>. SUFFICES ASSUME NEW j \in Places(s, t)
                    PROVE  \E i \in Places(r, t) : f[i] = j
        OBVIOUS
      <3>1. j \in S /\ s[j] = t
        BY <1>1 DEF Places
      <3>2. place(j) \in S /\ p[place(j)] = j
        BY <1>6, <1>8, <3>1
      <3>3. place(j) \in Places(r, t)
        BY <1>9, <3>1, <3>2 DEF Places
      <3>. QED  BY <3>2, <3>3
    <2>. HIDE DEF f, r
    <2>. QED  BY <1>9, <2>1, <2>2, <2>3, EquallyOften
  <1>. QED  BY <1>2, <1>9, <1>10

\* Chairs in their order are a sequence of chairs.
LEMMA InOrderIsSeq ==
    ASSUME NEW S \in SUBSET Chairs
    PROVE  InOrder(S) \in Seq(S)
  <1>. DEFINE below == [c \in S |-> {d \in S : d <= c}]
              n == Cardinality(S)
  <1>1. S \in SUBSET Int /\ IsFiniteSet(S)
    <2>1. ChairCount - 1 \in Int /\ 0 \in Int /\ Chairs \in SUBSET Int
      BY MjAssumption DEF Chairs
    <2>2. IsFiniteSet(Chairs)
      BY <2>1, FS_Interval DEF Chairs
    <2>. QED  BY <2>1, <2>2, FS_Subset
  <1>2. below \in [S -> SUBSET S]
    OBVIOUS
  <1>3. Chain(S, below)
    <2>. SUFFICES ASSUME NEW a \in S, NEW b \in S
                  PROVE  /\ a \in below[a]
                         /\ \/ a = b
                            \/ below[a] \subseteq below[b] /\ b \notin below[a]
                            \/ below[b] \subseteq below[a] /\ a \notin below[b]
      BY <1>1, <1>2, Zenon DEF Chain
    <2>1. a \in Int /\ b \in Int /\ \A d \in S : d \in Int
      BY <1>1
    <2>0. \A x \in S : \A d : d \in below[x] <=> d \in S /\ d <= x
      OBVIOUS
    <2>. HIDE DEF below
    <2>2. a \in below[a]
      BY <2>0, <2>1
    <2>3. ASSUME a < b
          PROVE  below[a] \subseteq below[b] /\ b \notin below[a]
      <3>1. \A d \in S : d <= a => d <= b
        BY <2>1, <2>3
      <3>2. ~(b <= a)
        BY <2>1, <2>3
      <3>. QED  BY <2>0, <3>1, <3>2
    <2>4. ASSUME b < a
          PROVE  below[b] \subseteq below[a] /\ a \notin below[b]
      <3>1. \A d \in S : d <= b => d <= a
        BY <2>1, <2>4
      <3>2. ~(a <= b)
        BY <2>1, <2>4
      <3>. QED  BY <2>0, <3>1, <3>2
    <2>. QED  BY <2>1, <2>2, <2>3, <2>4
  <1>4. \A c \in S : Cardinality({d \in S : d <= c}) = Cardinality(below[c])
    OBVIOUS
  <1>. HIDE DEF below
  <1>5. \A k \in 1 .. n : \E c \in S : Cardinality(below[c]) = k
    BY <1>3, EveryPlaceIsTaken DEF Ranked
  <1>6. n \in Nat
    BY <1>1, FS_CardinalityType
  <1>7. InOrder(S) = [k \in 1 .. n |-> CHOOSE c \in S : Cardinality({d \in S : d <= c}) = k]
    BY DEF InOrder
  <1>8. \A k \in 1 .. n : (CHOOSE c \in S : Cardinality({d \in S : d <= c}) = k) \in S
    <2>. TAKE k \in 1 .. n
    <2>1. \E c \in S : Cardinality({d \in S : d <= c}) = k
      BY <1>4, <1>5
    <2>. QED  BY <2>1
  <1>. HIDE DEF n
  <1>9. InOrder(S) \in [1 .. n -> S]
    BY <1>7, <1>8
  <1>. QED  BY <1>6, <1>9

-----------------------------------------------------------------------------
(* Dealing. *)

Between(d, t, a, b) == {i \in a .. b : d[i] = t}

\* A piece of a sequence has a tile as often as the sequence has it there.
LEMMA PieceCounts ==
    ASSUME NEW K, NEW d \in Seq(K), NEW a \in Nat, NEW b \in Nat,
           1 <= a, a <= b + 1, b <= Len(d), NEW t
    PROVE  /\ SubSeq(d, a, b) \in Seq(K) /\ Len(SubSeq(d, a, b)) = b - a + 1
           /\ CardCount(SubSeq(d, a, b), t) = Cardinality(Between(d, t, a, b))
  <1>. DEFINE r == SubSeq(d, a, b)
              n == b - a + 1
              A == Places(r, t)
              B == Between(d, t, a, b)
              f == [i \in A |-> i + a - 1]
  <1>1. r \in Seq(K) /\ Len(r) = n /\ \A i \in 1 .. n : r[i] = d[i + a - 1]
    <2>1. r \in Seq(K) /\ Len(r) = n
      OBVIOUS
    <2>2. ASSUME NEW i \in 1 .. n
          PROVE  r[i] = d[i + a - 1]
      <3>1. r[i] = d[a + i - 1] /\ a + i - 1 = i + a - 1
        OBVIOUS
      <3>. QED  BY <3>1
    <2>. QED  BY <2>1, <2>2
  <1>. HIDE DEF r
  <1>2. DOMAIN r = 1 .. n /\ n \in Nat
    BY <1>1
  <1>3. \A i : i \in A <=> i \in 1 .. n /\ d[i + a - 1] = t
    BY <1>1, <1>2 DEF Places
  <1>4. \A j : j \in B <=> j \in a .. b /\ d[j] = t
    BY DEF Between
  <1>5. \A i \in A : f[i] = i + a - 1
    OBVIOUS
  <1>6. f = [i \in A |-> f[i]]
    OBVIOUS
  <1>7. f \in [A -> B]
    <2>1. ASSUME NEW i \in A
          PROVE  f[i] \in B
      <3>1. i \in 1 .. n /\ d[i + a - 1] = t
        BY <1>3
      <3>2. i + a - 1 \in a .. b
        BY <3>1
      <3>. QED  BY <1>4, <1>5, <3>1, <3>2
    <2>. HIDE DEF f, A, B
    <2>. QED  BY <1>6, <2>1
  <1>8. \A i, j \in A : f[i] = f[j] => i = j
    BY <1>3, <1>5
  <1>9. \A j \in B : \E i \in A : f[i] = j
    <2>. SUFFICES ASSUME NEW j \in B
                  PROVE  \E i \in A : f[i] = j
      OBVIOUS
    <2>1. j \in a .. b /\ d[j] = t
      BY <1>4
    <2>2. j - a + 1 \in 1 .. n /\ (j - a + 1) + a - 1 = j
      BY <2>1
    <2>3. j - a + 1 \in A
      BY <1>3, <2>1, <2>2
    <2>. QED  BY <1>5, <2>2, <2>3
  <1>. HIDE DEF f
  <1>10. IsFiniteSet(A) /\ CardCount(r, t) = Cardinality(A)
    BY <1>1, PlacesFinite
  <1>. HIDE DEF A, B
  <1>11. f \in Bijection(A, B)
    BY <1>7, <1>8, <1>9 DEF Bijection, Injection, Surjection, IsInjective
  <1>12. ExistsBijection(A, B)
    BY <1>11 DEF ExistsBijection
  <1>13. Cardinality(B) = Cardinality(A)
    BY <1>10, <1>12, FS_Bijection
  <1>. QED  BY <1>1, <1>10, <1>13 DEF r, B

\* Parts that have nothing in common are together no more than the whole.
LEMMA PartsFit ==
    ASSUME NEW P, IsFiniteSet(P), NEW A \in SUBSET P, NEW B \in SUBSET P,
           A \cap B = {}
    PROVE  /\ IsFiniteSet(A) /\ IsFiniteSet(B) /\ IsFiniteSet(A \cup B)
           /\ Cardinality(A \cup B) = Cardinality(A) + Cardinality(B)
           /\ Cardinality(A \cup B) <= Cardinality(P)
           /\ Cardinality(A) \in Nat /\ Cardinality(B) \in Nat
  <1>1. IsFiniteSet(A) /\ IsFiniteSet(B)
    BY FS_Subset
  <1>2. Cardinality(A) \in Nat /\ Cardinality(B) \in Nat
    BY <1>1, FS_CardinalityType
  <1>3. /\ IsFiniteSet(A \cup B)
        /\ Cardinality(A \cup B) = Cardinality(A) + Cardinality(B) - Cardinality(A \cap B)
    BY <1>1, FS_Union
  <1>4. Cardinality(A \cap B) = 0
    BY FS_EmptySet
  <1>5. A \cup B \in SUBSET P
    OBVIOUS
  <1>6. Cardinality(A \cup B) <= Cardinality(P)
    BY <1>5, FS_Subset
  <1>. QED  BY <1>1, <1>2, <1>3, <1>4, <1>6

\* Of each tile there are four at most, in the hands of any three and the deck.
FourOfEach(hands, deck) ==
    \A u \in Kinds :
        /\ \A a \in Chairs : CardCount(hands[a], u) + CardCount(deck, u) <= 4
        /\ \A a, b \in Chairs : a # b =>
              CardCount(hands[a], u) + CardCount(hands[b], u) + CardCount(deck, u) <= 4
        /\ \A a, b, c \in Chairs : (a # b /\ b # c /\ a # c) =>
              CardCount(hands[a], u) + CardCount(hands[b], u) + CardCount(hands[c], u)
                + CardCount(deck, u) <= 4

Deck(d) == SubSeq(d, ChairCount * HandSize + 1, Len(d))
Hands(d) == [c \in Chairs |-> SubSeq(d, c * HandSize + 1, (c + 1) * HandSize)]

\* startGame deals each tile once.
LEMMA DealIsFair ==
    ASSUME NEW d \in Seq(Kinds), Len(d) >= ChairCount * HandSize,
           \A t \in Kinds : CardCount(d, t) <= 4
    PROVE  /\ Deck(d) \in Seq(Kinds) /\ Hands(d) \in [Chairs -> Seq(Kinds)]
           /\ \A c \in Chairs : Len(Hands(d)[c]) = HandSize
           /\ FourOfEach(Hands(d), Deck(d))
  <1>. DEFINE N == ChairCount * HandSize
              L == Len(d)
  <1>1. N \in Nat /\ L \in Nat /\ N <= L /\ ChairCount \in Nat /\ HandSize \in Nat
    BY MjAssumption
  <1>2. \A a, b \in Nat : a <= b => a * HandSize <= b * HandSize
    BY <1>1
  <1>3. ASSUME NEW c \in Chairs
        PROVE  /\ c \in Nat /\ c * HandSize \in Nat /\ (c + 1) * HandSize \in Nat
               /\ (c + 1) * HandSize = c * HandSize + HandSize
               /\ (c + 1) * HandSize <= N
    <2>1. c \in Nat /\ c + 1 \in Nat /\ c + 1 <= ChairCount
      BY <1>1 DEF Chairs
    <2>2. (c + 1) * HandSize = c * HandSize + HandSize /\ c * HandSize \in Nat
      BY <1>1, <2>1
    <2>. QED  BY <1>1, <1>2, <2>1, <2>2
  <1>. HIDE DEF N, L
  <1>4. ASSUME NEW c \in Chairs
        PROVE  /\ Hands(d)[c] \in Seq(Kinds) /\ Len(Hands(d)[c]) = HandSize
               /\ \A t : CardCount(Hands(d)[c], t)
                           = Cardinality(Between(d, t, c * HandSize + 1, (c + 1) * HandSize))
    <2>. DEFINE a == c * HandSize + 1
                b == (c + 1) * HandSize
    <2>1. a \in Nat /\ b \in Nat /\ 1 <= a /\ a <= b + 1 /\ b <= L /\ b - a + 1 = HandSize
      <3>. DEFINE x == c * HandSize
                  y == (c + 1) * HandSize
      <3>1. x \in Nat /\ y \in Nat /\ y = x + HandSize /\ y <= N
        BY <1>3
      <3>. HIDE DEF x, y
      <3>2. x + 1 \in Nat /\ 1 <= x + 1 /\ x + 1 <= y + 1 /\ y <= L
            /\ y - (x + 1) + 1 = HandSize
        BY <1>1, <3>1
      <3>. QED  BY <3>1, <3>2 DEF x, y
    <2>2. Hands(d)[c] = SubSeq(d, a, b)
      BY DEF Hands
    <2>. HIDE DEF a, b
    <2>3. SubSeq(d, a, b) \in Seq(Kinds) /\ Len(SubSeq(d, a, b)) = b - a + 1
      BY <2>1, PieceCounts DEF L
    <2>4. \A t : CardCount(SubSeq(d, a, b), t) = Cardinality(Between(d, t, a, b))
      BY <2>1, PieceCounts DEF L
    <2>. QED  BY <2>1, <2>2, <2>3, <2>4 DEF a, b
  <1>5. /\ Deck(d) \in Seq(Kinds)
        /\ \A t : CardCount(Deck(d), t) = Cardinality(Between(d, t, N + 1, L))
    <2>. DEFINE a == N + 1
    <2>1. a \in Nat /\ L \in Nat /\ 1 <= a /\ a <= L + 1 /\ L <= L
      BY <1>1
    <2>2. Deck(d) = SubSeq(d, a, L)
      BY DEF Deck, N, L
    <2>. HIDE DEF a
    <2>3. SubSeq(d, a, L) \in Seq(Kinds)
      BY <2>1, PieceCounts DEF L
    <2>4. \A t : CardCount(SubSeq(d, a, L), t) = Cardinality(Between(d, t, a, L))
      BY <2>1, PieceCounts DEF L
    <2>. QED  BY <2>2, <2>3, <2>4 DEF a
  <1>6. FourOfEach(Hands(d), Deck(d))
    <2>1. ASSUME NEW u \in Kinds
          PROVE  /\ \A a \in Chairs : CardCount(Hands(d)[a], u) + CardCount(Deck(d), u) <= 4
                 /\ \A a, b \in Chairs : a # b =>
                      CardCount(Hands(d)[a], u) + CardCount(Hands(d)[b], u)
                        + CardCount(Deck(d), u) <= 4
                 /\ \A a, b, c \in Chairs : (a # b /\ b # c /\ a # c) =>
                      CardCount(Hands(d)[a], u) + CardCount(Hands(d)[b], u)
                        + CardCount(Hands(d)[c], u) + CardCount(Deck(d), u) <= 4
      <3>. DEFINE P == Places(d, u)
                  H(c) == Between(d, u, c * HandSize + 1, (c + 1) * HandSize)
                  R == Between(d, u, N + 1, L)
      <3>1. IsFiniteSet(P) /\ Cardinality(P) <= 4 /\ Cardinality(P) \in Nat
        BY PlacesFinite
      <3>2. \A c \in Chairs : CardCount(Hands(d)[c], u) = Cardinality(H(c))
        BY <1>4
      <3>3. CardCount(Deck(d), u) = Cardinality(R)
        BY <1>5
      <3>4. DOMAIN d = 1 .. L
        BY DEF L
      <3>5. R \in SUBSET P
        BY <1>1, <3>4 DEF Between, Places
      <3>6. ASSUME NEW c \in Chairs
            PROVE  H(c) \in SUBSET P /\ H(c) \cap R = {}
        BY <1>1, <1>3, <3>4 DEF Between, Places
      <3>7. ASSUME NEW a \in Chairs, NEW b \in Chairs, a # b
            PROVE  H(a) \cap H(b) = {}
        <4>1. a + 1 <= b \/ b + 1 <= a
          BY <1>3, <3>7
        <4>2. (a + 1) * HandSize <= b * HandSize \/ (b + 1) * HandSize <= a * HandSize
          BY <1>2, <1>3, <4>1
        <4>. QED  BY <1>3, <4>2 DEF Between
      <3>. HIDE DEF P, H, R
      <3>8. ASSUME NEW a \in Chairs
            PROVE  CardCount(Hands(d)[a], u) + CardCount(Deck(d), u) <= 4
        <4>1. /\ Cardinality(H(a) \cup R) = Cardinality(H(a)) + Cardinality(R)
              /\ Cardinality(H(a) \cup R) <= Cardinality(P)
              /\ Cardinality(H(a)) \in Nat /\ Cardinality(R) \in Nat
          <5>1. H(a) \in SUBSET P /\ H(a) \cap R = {}
            BY <3>6
          <5>. QED  BY <3>1, <3>5, <5>1, PartsFit, ZenonT(60)
        <4>. QED  BY <3>1, <3>2, <3>3, <4>1
      <3>9. ASSUME NEW a \in Chairs, NEW b \in Chairs, NEW c \in Chairs,
                   a # b, b # c, a # c
            PROVE  CardCount(Hands(d)[a], u) + CardCount(Hands(d)[b], u)
                     + CardCount(Hands(d)[c], u) + CardCount(Deck(d), u) <= 4
        <4>. DEFINE X == H(a) \cup R
                    Y == H(b) \cup H(c)
        <4>1. X \in SUBSET P /\ Y \in SUBSET P /\ X \cap Y = {}
          BY <3>5, <3>6, <3>7, <3>9
        <4>2. Cardinality(X) = Cardinality(H(a)) + Cardinality(R)
          <5>1. H(a) \in SUBSET P /\ H(a) \cap R = {}
            BY <3>6
          <5>. QED  BY <3>1, <3>5, <5>1, PartsFit, ZenonT(60)
        <4>3. Cardinality(Y) = Cardinality(H(b)) + Cardinality(H(c))
          BY <3>1, <3>6, <3>7, <3>9, PartsFit
        <4>4. /\ Cardinality(H(a)) \in Nat /\ Cardinality(H(b)) \in Nat
              /\ Cardinality(H(c)) \in Nat /\ Cardinality(R) \in Nat
          <5>1. \A e \in Chairs : IsFiniteSet(H(e))
            BY <3>1, <3>6, FS_Subset
          <5>2. IsFiniteSet(R)
            BY <3>1, <3>5, FS_Subset
          <5>. QED  BY <5>1, <5>2, FS_CardinalityType
        <4>. HIDE DEF X, Y
        <4>5. Cardinality(X \cup Y) = Cardinality(X) + Cardinality(Y)
              /\ Cardinality(X \cup Y) <= Cardinality(P)
          BY <3>1, <4>1, PartsFit, ZenonT(60)
        <4>6. Cardinality(H(a)) + Cardinality(H(b)) + Cardinality(H(c)) + Cardinality(R) <= 4
          BY <3>1, <4>2, <4>3, <4>4, <4>5
        <4>. QED  BY <3>2, <3>3, <4>6
      <3>10. ASSUME NEW a \in Chairs, NEW b \in Chairs, a # b
             PROVE  CardCount(Hands(d)[a], u) + CardCount(Hands(d)[b], u)
                      + CardCount(Deck(d), u) <= 4
        <4>. DEFINE X == H(a) \cup R
                    Y == H(b)
        <4>1. X \in SUBSET P /\ Y \in SUBSET P /\ X \cap Y = {}
          BY <3>5, <3>6, <3>7, <3>10
        <4>2. /\ Cardinality(X) = Cardinality(H(a)) + Cardinality(R)
              /\ Cardinality(H(a)) \in Nat /\ Cardinality(R) \in Nat
          <5>1. H(a) \in SUBSET P /\ H(a) \cap R = {}
            BY <3>6
          <5>. QED  BY <3>1, <3>5, <5>1, PartsFit, ZenonT(60)
        <4>. HIDE DEF X, Y
        <4>3. /\ Cardinality(X \cup Y) = Cardinality(X) + Cardinality(Y)
              /\ Cardinality(X \cup Y) <= Cardinality(P) /\ Cardinality(Y) \in Nat
          BY <3>1, <4>1, PartsFit, ZenonT(60)
        <4>. QED  BY <3>1, <3>2, <3>3, <4>2, <4>3 DEF Y
      <3>. QED  BY <3>8, <3>9, <3>10
    <2>. QED  BY <2>1 DEF FourOfEach
  <1>7. Hands(d) \in [Chairs -> Seq(Kinds)]
    <2>1. Hands(d) = [c \in Chairs |-> Hands(d)[c]]
      BY DEF Hands
    <2>. QED  BY <1>4, <2>1
  <1>. QED  BY <1>4, <1>5, <1>6, <1>7

-----------------------------------------------------------------------------
(* Hands. *)

\* Tiles are numbers, and the missing one is none of them.
LEMMA TilesAreNumbers == Kinds \in SUBSET Nat /\ Kinds \in SUBSET Int /\ NoCard \notin Kinds
  <1>0. Suits - 1 \in Int /\ RankCount \in Int
    BY HuAssumption
  <1>1. \A t \in Tiles : t \in Nat \ {0}
    <2>. SUFFICES ASSUME NEW t \in Tiles
                  PROVE  t \in Nat \ {0}
      OBVIOUS
    <2>1. PICK s \in 0 .. (Suits - 1), r \in Ranks : t = 10 * s + r
      BY DEF Tiles
    <2>2. s \in Nat /\ r \in Nat /\ r >= 1
      BY <1>0 DEF Ranks
    <2>. QED  BY <2>1, <2>2
  <1>. QED  BY <1>1, HuAssumption DEF Kinds, NoCard

\* There are finitely many tiles.
LEMMA KindsAreBounded == \E n \in Nat : Kinds \in SUBSET (1 .. n)
  <1>. DEFINE n == 10 * Suits + 10 + Zhong
  <1>1. Suits \in Nat \ {0} /\ RankCount \in 1 .. 9 /\ Zhong \in Nat \ {0} /\ n \in Nat
    BY HuAssumption
  <1>2. ASSUME NEW t \in Tiles
        PROVE  t \in 1 .. n
    <2>1. PICK s \in 0 .. (Suits - 1), r \in Ranks : t = 10 * s + r
      BY DEF Tiles
    <2>2. s \in Nat /\ r \in Nat /\ r >= 1 /\ r <= 9 /\ s + 1 <= Suits
      BY <1>1 DEF Ranks
    <2>. QED  BY <1>1, <2>1, <2>2
  <1>3. Zhong \in 1 .. n
    BY <1>1
  <1>. HIDE DEF n
  <1>4. Kinds \in SUBSET (1 .. n)
    BY <1>2, <1>3 DEF Kinds
  <1>. QED  BY <1>1, <1>4

\* Sums of numbers that shrink.
LEMMA LessTogether ==
    ASSUME NEW p \in Nat, NEW q \in Nat, NEW x \in Nat, NEW y \in Nat, p <= x, q <= y
    PROVE  p + q <= x + y /\ p + q \in Nat /\ x + y \in Nat
  OBVIOUS

\* With fewer tiles there are still four of each at most.
LEMMA FewerAreFair ==
    ASSUME NEW hands \in [Chairs -> Seq(Kinds)], NEW deck \in Seq(Kinds),
           FourOfEach(hands, deck), NEW fewer \in [Chairs -> Seq(Kinds)],
           \A c \in Chairs : \A u \in Kinds : CardCount(fewer[c], u) <= CardCount(hands[c], u)
    PROVE  FourOfEach(fewer, deck)
  <1>1. \A c \in Chairs : \A u \in Kinds : CardCount(fewer[c], u) \in Nat /\ CardCount(hands[c], u) \in Nat
    BY PlacesFinite
  <1>2. \A u \in Kinds : CardCount(deck, u) \in Nat
    BY PlacesFinite
  <1>. SUFFICES ASSUME NEW u \in Kinds
                PROVE  /\ \A a \in Chairs : CardCount(fewer[a], u) + CardCount(deck, u) <= 4
                       /\ \A a, b \in Chairs : a # b =>
                            CardCount(fewer[a], u) + CardCount(fewer[b], u) + CardCount(deck, u) <= 4
                       /\ \A a, b, e \in Chairs : (a # b /\ b # e /\ a # e) =>
                            CardCount(fewer[a], u) + CardCount(fewer[b], u)
                              + CardCount(fewer[e], u) + CardCount(deck, u) <= 4
    BY DEF FourOfEach
  <1>3. ASSUME NEW a \in Chairs
        PROVE  CardCount(fewer[a], u) + CardCount(deck, u) <= 4
    <2>1. CardCount(hands[a], u) + CardCount(deck, u) <= 4
      BY DEF FourOfEach
    <2>. QED  BY <1>1, <1>2, <2>1
  <1>4. ASSUME NEW a \in Chairs, NEW b \in Chairs, NEW e \in Chairs, a # b, b # e, a # e
        PROVE  CardCount(fewer[a], u) + CardCount(fewer[b], u) + CardCount(fewer[e], u)
                 + CardCount(deck, u) <= 4
    <2>. DEFINE n(d) == CardCount(hands[d], u)
                f(d) == CardCount(fewer[d], u)
                k == CardCount(deck, u)
    <2>1. n(a) + n(b) + n(e) + k <= 4
      BY <1>4 DEF FourOfEach
    <2>2. f(a) <= n(a) /\ f(b) <= n(b) /\ f(e) <= n(e)
      OBVIOUS
    <2>3. /\ n(a) \in Nat /\ n(b) \in Nat /\ n(e) \in Nat /\ k \in Nat
          /\ f(a) \in Nat /\ f(b) \in Nat /\ f(e) \in Nat
      BY <1>1, <1>2
    <2>. HIDE DEF n, f, k
    <2>4. /\ f(a) + f(b) <= n(a) + n(b)
          /\ f(a) + f(b) \in Nat /\ n(a) + n(b) \in Nat
      BY <2>2, <2>3, LessTogether
    <2>5. /\ f(a) + f(b) + f(e) <= n(a) + n(b) + n(e)
          /\ f(a) + f(b) + f(e) \in Nat /\ n(a) + n(b) + n(e) \in Nat
      BY <2>2, <2>3, <2>4, LessTogether
    <2>. DEFINE p == f(a) + f(b) + f(e)
                x == n(a) + n(b) + n(e)
    <2>6. p \in Nat /\ x \in Nat /\ p <= x /\ x + k <= 4
      BY <2>1, <2>5
    <2>. HIDE DEF p, x
    <2>7. p + k <= 4
      BY <2>3, <2>6
    <2>. QED  BY <2>7 DEF p, f, k
  <1>5. ASSUME NEW a \in Chairs, NEW b \in Chairs, a # b
        PROVE  CardCount(fewer[a], u) + CardCount(fewer[b], u) + CardCount(deck, u) <= 4
    <2>. DEFINE n(d) == CardCount(hands[d], u)
                f(d) == CardCount(fewer[d], u)
                k == CardCount(deck, u)
    <2>1. n(a) + n(b) + k <= 4
      BY <1>5 DEF FourOfEach
    <2>2. f(a) <= n(a) /\ f(b) <= n(b)
      OBVIOUS
    <2>3. /\ n(a) \in Nat /\ n(b) \in Nat /\ k \in Nat
          /\ f(a) \in Nat /\ f(b) \in Nat
      BY <1>1, <1>2
    <2>. HIDE DEF n, f, k
    <2>. DEFINE p == f(a) + f(b)
                x == n(a) + n(b)
    <2>4. p \in Nat /\ x \in Nat /\ p <= x /\ x + k <= 4
      BY <2>1, <2>2, <2>3, LessTogether
    <2>. HIDE DEF p, x
    <2>5. p + k <= 4
      BY <2>3, <2>4
    <2>. QED  BY <2>5 DEF p, f, k
  <1>. QED  BY <1>3, <1>4, <1>5

\* Four of each tile are left when some have moved.
Fair(hands, deck) ==
    hands \in [Chairs -> Seq(Kinds)] /\ deck \in Seq(Kinds) /\ FourOfEach(hands, deck)

\* The chair has one tile more, and the deck one less.
OneMore(hands, deck, c, new, rest) ==
    /\ Fair(new, rest) /\ Len(rest) = Len(deck) - 1
    /\ \A d \in Chairs : Len(new[d]) = IF d = c THEN Len(hands[d]) + 1 ELSE Len(hands[d])

\* A tile that is drawn comes from the deck.
LEMMA DrawIsFair ==
    ASSUME NEW hands, NEW deck, Fair(hands, deck), NEW c \in Chairs, NEW at \in DOMAIN deck,
           NEW new, new = [hands EXCEPT ![c] = Append(hands[c], deck[at])],
           NEW rest, rest = RemoveAt(deck, at)
    PROVE  OneMore(hands, deck, c, new, rest)
  <1>. DEFINE t == deck[at]
  <1>0. hands \in [Chairs -> Seq(Kinds)] /\ deck \in Seq(Kinds) /\ FourOfEach(hands, deck)
    BY DEF Fair
  <1>1. t \in Kinds /\ new = [hands EXCEPT ![c] = Append(hands[c], t)]
    BY <1>0
  <1>2. rest \in Seq(Kinds) /\ Len(rest) = Len(deck) - 1
    BY <1>0, RemoveAtElements
  <1>3. \A u \in Kinds : /\ CardCount(rest, u) = CardCount(deck, u) - (IF t = u THEN 1 ELSE 0)
                         /\ CardCount(deck, u) \in Nat /\ CardCount(rest, u) \in Nat
    BY <1>0, <1>2, RemoveAtCounts, PlacesFinite
  <1>. HIDE DEF t
  <1>4. Append(hands[c], t) \in Seq(Kinds) /\ Len(Append(hands[c], t)) = Len(hands[c]) + 1
    BY <1>0, <1>1, AppendCounts
  <1>5. \A u : CardCount(Append(hands[c], t), u) = CardCount(hands[c], u) + (IF t = u THEN 1 ELSE 0)
    BY <1>0, <1>1, AppendCounts
  <1>6. new \in [Chairs -> Seq(Kinds)]
    BY <1>0, <1>1, <1>4
  <1>7. \A d \in Chairs : new[d] = IF d = c THEN Append(hands[c], t) ELSE hands[d]
    BY <1>0, <1>1
  <1>8. \A d \in Chairs : Len(new[d]) = IF d = c THEN Len(hands[d]) + 1 ELSE Len(hands[d])
    BY <1>0, <1>4, <1>7, Zenon
  <1>9. \A d \in Chairs : \A u \in Kinds :
            /\ CardCount(hands[d], u) \in Nat
            /\ CardCount(new[d], u) = CardCount(hands[d], u) + (IF d = c /\ t = u THEN 1 ELSE 0)
    BY <1>0, <1>5, <1>6, <1>7, PlacesFinite
  <1>10. FourOfEach(new, rest)
    <2>. SUFFICES ASSUME NEW u \in Kinds
                  PROVE  /\ \A a \in Chairs : CardCount(new[a], u) + CardCount(rest, u) <= 4
                         /\ \A a, b \in Chairs : a # b =>
                              CardCount(new[a], u) + CardCount(new[b], u) + CardCount(rest, u) <= 4
                         /\ \A a, b, e \in Chairs : (a # b /\ b # e /\ a # e) =>
                              CardCount(new[a], u) + CardCount(new[b], u)
                                + CardCount(new[e], u) + CardCount(rest, u) <= 4
      BY DEF FourOfEach
    <2>1. ASSUME NEW a \in Chairs
          PROVE  CardCount(new[a], u) + CardCount(rest, u) <= 4
      <3>1. CardCount(hands[a], u) + CardCount(deck, u) <= 4
        BY <1>0 DEF FourOfEach
      <3>2. /\ CardCount(hands[a], u) \in Nat
            /\ CardCount(new[a], u) = CardCount(hands[a], u) + (IF a = c /\ t = u THEN 1 ELSE 0)
            /\ CardCount(rest, u) = CardCount(deck, u) - (IF t = u THEN 1 ELSE 0)
            /\ CardCount(deck, u) \in Nat
        BY <1>3, <1>9
      <3>. QED  BY <3>1, <3>2
    <2>2. ASSUME NEW a \in Chairs, NEW b \in Chairs, NEW e \in Chairs, a # b, b # e, a # e
          PROVE  CardCount(new[a], u) + CardCount(new[b], u) + CardCount(new[e], u)
                   + CardCount(rest, u) <= 4
      <3>1. CardCount(hands[a], u) + CardCount(hands[b], u) + CardCount(hands[e], u)
              + CardCount(deck, u) <= 4
        BY <1>0, <2>2 DEF FourOfEach
      <3>. DEFINE n(d) == CardCount(hands[d], u)
                  more(d) == IF d = c /\ t = u THEN 1 ELSE 0
                  k == CardCount(deck, u)
                  one == IF t = u THEN 1 ELSE 0
                  m(d) == CardCount(new[d], u)
                  l == CardCount(rest, u)
      <3>2. /\ n(a) \in Nat /\ n(b) \in Nat /\ n(e) \in Nat /\ k \in Nat
            /\ m(a) = n(a) + more(a) /\ m(b) = n(b) + more(b) /\ m(e) = n(e) + more(e)
            /\ l = k - one
        BY <1>3, <1>9
      <3>3. more(a) + more(b) + more(e) <= one /\ one \in Nat
        BY <2>2
      <3>4. more(a) \in Nat /\ more(b) \in Nat /\ more(e) \in Nat
        OBVIOUS
      <3>5. n(a) + n(b) + n(e) + k <= 4
        BY <3>1
      <3>. HIDE DEF n, more, k, one, m, l
      <3>. DEFINE p == m(a) + m(b) + m(e)
                  x == n(a) + n(b) + n(e)
                  w == more(a) + more(b) + more(e)
      <3>6. p = x + w /\ x \in Nat /\ w \in Nat
        <4>1. m(a) + m(b) + m(e) = (n(a) + more(a)) + (n(b) + more(b)) + (n(e) + more(e))
          BY <3>2
        <4>. DEFINE P == n(a)
                    Q == n(b)
                    R == n(e)
                    X == more(a)
                    Y == more(b)
                    Z == more(e)
        <4>2. /\ P \in Nat /\ Q \in Nat /\ R \in Nat
              /\ X \in Nat /\ Y \in Nat /\ Z \in Nat
          BY <3>2, <3>4
        <4>3. /\ m(a) + m(b) + m(e) = (P + X) + (Q + Y) + (R + Z)
              /\ x = P + Q + R /\ w = X + Y + Z
          BY <4>1
        <4>. HIDE DEF P, Q, R, X, Y, Z
        <4>4. (P + X) + (Q + Y) + (R + Z) = (P + Q + R) + (X + Y + Z)
              /\ P + Q + R \in Nat /\ X + Y + Z \in Nat
          BY <4>2
        <4>. QED  BY <4>3, <4>4, Zenon
      <3>7. x + k <= 4 /\ w <= one
        BY <3>3, <3>5
      <3>. HIDE DEF p, x, w
      <3>8. p + l <= 4
        BY <3>2, <3>3, <3>6, <3>7
      <3>. QED  BY <3>8 DEF p, m, l
    <2>3. ASSUME NEW a \in Chairs, NEW b \in Chairs, a # b
          PROVE  CardCount(new[a], u) + CardCount(new[b], u) + CardCount(rest, u) <= 4
      <3>1. CardCount(hands[a], u) + CardCount(hands[b], u) + CardCount(deck, u) <= 4
        BY <1>0, <2>3 DEF FourOfEach
      <3>. DEFINE n(d) == CardCount(hands[d], u)
                  more(d) == IF d = c /\ t = u THEN 1 ELSE 0
                  k == CardCount(deck, u)
                  one == IF t = u THEN 1 ELSE 0
                  m(d) == CardCount(new[d], u)
                  l == CardCount(rest, u)
      <3>2. /\ n(a) \in Nat /\ n(b) \in Nat /\ k \in Nat
            /\ m(a) = n(a) + more(a) /\ m(b) = n(b) + more(b)
            /\ l = k - one
        BY <1>3, <1>9
      <3>3. more(a) + more(b) <= one /\ one \in Nat
        BY <2>3
      <3>4. more(a) \in Nat /\ more(b) \in Nat
        OBVIOUS
      <3>5. n(a) + n(b) + k <= 4
        BY <3>1
      <3>. HIDE DEF n, more, k, one, m, l
      <3>6. m(a) + m(b) + l <= 4
        <4>. DEFINE p == n(a) + n(b)
                    w == more(a) + more(b)
        <4>1. p \in Nat /\ w \in Nat /\ p + k <= 4 /\ w <= one
          <5>1. p + k <= 4
            BY <3>5
          <5>2. w <= one
            BY <3>3
          <5>3. p \in Nat
            BY <3>2
          <5>4. w \in Nat
            BY <3>4
          <5>. QED  BY <5>1, <5>2, <5>3, <5>4
        <4>2. m(a) + m(b) = p + w
          BY <3>2, <3>4
        <4>. HIDE DEF p, w
        <4>. QED  BY <3>2, <3>3, <4>1, <4>2
      <3>. QED  BY <3>6 DEF m, l
    <2>. QED  BY <2>1, <2>2, <2>3
  <1>. QED  BY <1>2, <1>6, <1>8, <1>10 DEF OneMore, Fair

\* Hands with the same tiles, in another order.
SameTiles(hands, new) ==
    /\ new \in [Chairs -> Seq(Kinds)]
    /\ \A c \in Chairs : Len(new[c]) = Len(hands[c])
    /\ \A c \in Chairs : \A u : CardCount(new[c], u) = CardCount(hands[c], u)

\* The other hands are sorted.
LEMMA HandsAreSorted ==
    ASSUME NEW hands, hands \in [Chairs -> Seq(Kinds)], NEW others, NEW new,
           new = [c \in Chairs |-> IF c \in others THEN Sorted(hands[c]) ELSE hands[c]]
    PROVE  SameTiles(hands, new)
  <1>1. \A c \in Chairs : /\ Sorted(hands[c]) \in Seq(Kinds)
                          /\ Len(Sorted(hands[c])) = Len(hands[c])
    BY TilesAreNumbers, SortedCounts
  <1>2. \A c \in Chairs : \A u : CardCount(Sorted(hands[c]), u) = CardCount(hands[c], u)
    BY TilesAreNumbers, SortedCounts
  <1>3. new \in [Chairs -> Seq(Kinds)]
    BY <1>1
  <1>4. \A c \in Chairs : new[c] = Sorted(hands[c]) \/ new[c] = hands[c]
    OBVIOUS
  <1>. QED  BY <1>1, <1>2, <1>3, <1>4, Zenon DEF SameTiles

\* A hand from which n tiles of a kind were taken.
Fewer(hands, c, t, n, new) ==
    /\ Len(hands[c]) \in Nat /\ Len(hands[c]) >= n /\ Len(new[c]) = Len(hands[c]) - n
    /\ CardCount(new[c], t) = CardCount(hands[c], t) - n
    /\ \A d \in Chairs \ {c} : new[d] = hands[d]

\* Tiles that are laid or discarded leave a hand.
LEMMA TakenIsFair ==
    ASSUME NEW hands, NEW deck, Fair(hands, deck), NEW c \in Chairs, NEW t, NEW n \in 1 .. 4,
           CardCount(hands[c], t) >= n,
           NEW new, new = [hands EXCEPT ![c] = DelCard(hands[c], t, n)]
    PROVE  Fair(new, deck) /\ Fewer(hands, c, t, n, new)
  <1>. DEFINE r == DelCard(hands[c], t, n)
              s == hands[c]
  <1>1. hands \in [Chairs -> Seq(Kinds)] /\ deck \in Seq(Kinds) /\ FourOfEach(hands, deck)
        /\ s \in Seq(Kinds) /\ Len(s) \in Nat
    BY DEF Fair
  <1>2. /\ r \in Seq(Kinds) /\ Len(r) = Len(s) - n /\ Len(s) >= n
        /\ CardCount(r, t) = CardCount(s, t) - n
        /\ \A u : u # t => CardCount(r, u) = CardCount(s, u)
    <2>. HIDE DEF s
    <2>1. CardCount(s, t) >= n
      BY DEF s
    <2>2. r = DelCard(s, t, n)
      BY DEF s
    <2>. HIDE DEF r
    <2>. QED  BY <1>1, <2>1, <2>2, DelCardCounts
  <1>. HIDE DEF r
  <1>3. new \in [Chairs -> Seq(Kinds)] /\ new[c] = r /\ \A d \in Chairs \ {c} : new[d] = hands[d]
    BY <1>1, <1>2 DEF r
  <1>4. \A d \in Chairs : \A u \in Kinds : CardCount(new[d], u) <= CardCount(hands[d], u)
    <2>. SUFFICES ASSUME NEW d \in Chairs, NEW u \in Kinds
                  PROVE  CardCount(new[d], u) <= CardCount(hands[d], u)
      OBVIOUS
    <2>. DEFINE x == CardCount(new[d], u)
                y == CardCount(hands[d], u)
    <2>1. x \in Nat /\ y \in Nat
      BY <1>1, <1>3, PlacesFinite
    <2>2. CASE d # c
      <3>1. x = y
        BY <1>3, <2>2
      <3>. HIDE DEF x, y
      <3>2. x <= y
        BY <2>1, <3>1
      <3>. QED  BY <3>2 DEF x, y
    <2>3. CASE d = c /\ u = t
      <3>1. x = y - n
        BY <1>2, <1>3, <2>3
      <3>. HIDE DEF x, y
      <3>2. x <= y
        BY <2>1, <3>1
      <3>. QED  BY <3>2 DEF x, y
    <2>4. CASE d = c /\ u # t
      <3>1. x = y
        BY <1>2, <1>3, <2>4
      <3>. HIDE DEF x, y
      <3>2. x <= y
        BY <2>1, <3>1
      <3>. QED  BY <3>2 DEF x, y
    <2>. QED  BY <2>2, <2>3, <2>4
  <1>5. FourOfEach(new, deck)
    BY <1>1, <1>3, <1>4, FewerAreFair
  <1>. QED  BY <1>1, <1>2, <1>3, <1>5 DEF Fair, Fewer

\* The lengths of hands by threes: one of them has k tiles over.
Lengths(hands, c, k) == \A d \in Chairs : Len(hands[d]) % 3 = (IF d = c THEN k ELSE 1)

\* One, two, three or four tiles are taken from a hand of its length.
LEMMA EvenLeft ==
    ASSUME NEW hands, NEW c \in Chairs, NEW t, NEW new
    PROVE  /\ (Lengths(hands, c, 2) /\ Fewer(hands, c, t, 1, new)) => Lengths(new, c, 1)
           /\ (Lengths(hands, c, 1) /\ Fewer(hands, c, t, 2, new)) => Lengths(new, c, 2)
           /\ (Lengths(hands, c, 1) /\ Fewer(hands, c, t, 3, new)) => Lengths(new, c, 1)
           /\ (Lengths(hands, c, 2) /\ Fewer(hands, c, t, 4, new)) => Lengths(new, c, 1)
  <1>1. ASSUME NEW k \in {1, 2}, NEW n \in 1 .. 4, Lengths(hands, c, k), Fewer(hands, c, t, n, new)
        PROVE  Lengths(new, c, (k + 3 - n) % 3)
    <2>. DEFINE x == Len(hands[c])
                y == Len(new[c])
    <2>1. x \in Nat /\ x >= n /\ y = x - n /\ x % 3 = k
      BY <1>1, Zenon DEF Fewer, Lengths
    <2>. HIDE DEF x, y
    <2>2. y % 3 = (k + 3 - n) % 3
      <3>1. CASE n = 1
        BY <2>1, <3>1
      <3>2. CASE n = 2
        BY <2>1, <3>2
      <3>3. CASE n = 3
        BY <2>1, <3>3
      <3>4. CASE n = 4
        BY <2>1, <3>4
      <3>. QED  BY <3>1, <3>2, <3>3, <3>4
    <2>4. \A d \in Chairs \ {c} : Len(new[d]) % 3 = 1
      BY <1>1, Zenon DEF Fewer, Lengths
    <2>. DEFINE m == (k + 3 - n) % 3
    <2>3. y % 3 = m
      BY <2>2
    <2>. HIDE DEF m
    <2>5. Lengths(new, c, m)
      BY <2>3, <2>4 DEF y, Lengths
    <2>. QED  BY <2>5 DEF m
  <1>2. /\ (2 + 3 - 1) % 3 = 1 /\ (1 + 3 - 2) % 3 = 2 /\ (1 + 3 - 3) % 3 = 1
        /\ (2 + 3 - 4) % 3 = 1
        /\ 1 \in {1, 2} /\ 2 \in {1, 2} /\ 1 \in 1 .. 4 /\ 2 \in 1 .. 4 /\ 3 \in 1 .. 4 /\ 4 \in 1 .. 4
    OBVIOUS
  <1>3. ASSUME Lengths(hands, c, 2), Fewer(hands, c, t, 1, new)
        PROVE  Lengths(new, c, 1)
    <2>1. Lengths(new, c, (2 + 3 - 1) % 3)
      BY <1>1, <1>2, <1>3, Zenon
    <2>. QED  BY <1>2, <2>1, Zenon
  <1>4. ASSUME Lengths(hands, c, 1), Fewer(hands, c, t, 2, new)
        PROVE  Lengths(new, c, 2)
    <2>1. Lengths(new, c, (1 + 3 - 2) % 3)
      BY <1>1, <1>2, <1>4, Zenon
    <2>. QED  BY <1>2, <2>1, Zenon
  <1>5. ASSUME Lengths(hands, c, 1), Fewer(hands, c, t, 3, new)
        PROVE  Lengths(new, c, 1)
    <2>1. Lengths(new, c, (1 + 3 - 3) % 3)
      BY <1>1, <1>2, <1>5, Zenon
    <2>. QED  BY <1>2, <2>1, Zenon
  <1>6. ASSUME Lengths(hands, c, 2), Fewer(hands, c, t, 4, new)
        PROVE  Lengths(new, c, 1)
    <2>1. Lengths(new, c, (2 + 3 - 4) % 3)
      BY <1>1, <1>2, <1>6, Zenon
    <2>. QED  BY <1>2, <2>1, Zenon
  <1>. QED  BY <1>3, <1>4, <1>5, <1>6

\* Two players together have three at most of a tile that a third one discards.
LEMMA ThreeAreLeft ==
    ASSUME NEW hands, NEW deck, Fair(hands, deck), NEW c \in Chairs, NEW t \in Kinds,
           CardCount(hands[c], t) >= 1
    PROVE  \A a, b \in Chairs \ {c} : a # b => CardCount(hands[a], t) + CardCount(hands[b], t) <= 3
  <1>1. hands \in [Chairs -> Seq(Kinds)] /\ deck \in Seq(Kinds) /\ FourOfEach(hands, deck)
    BY DEF Fair
  <1>2. \A d \in Chairs : CardCount(hands[d], t) \in Nat
    BY <1>1, PlacesFinite
  <1>3. CardCount(deck, t) \in Nat
    BY <1>1, PlacesFinite
  <1>. SUFFICES ASSUME NEW a \in Chairs \ {c}, NEW b \in Chairs \ {c}, a # b
                PROVE  CardCount(hands[a], t) + CardCount(hands[b], t) <= 3
    OBVIOUS
  <1>. DEFINE x == CardCount(hands[a], t)
              y == CardCount(hands[b], t)
              z == CardCount(hands[c], t)
              k == CardCount(deck, t)
  <1>4. x + y + z + k <= 4
    BY <1>1 DEF FourOfEach
  <1>5. x \in Nat /\ y \in Nat /\ z \in Nat /\ k \in Nat /\ z >= 1
    BY <1>2, <1>3
  <1>. HIDE DEF x, y, z, k
  <1>6. x + y <= 3
    BY <1>4, <1>5
  <1>. QED  BY <1>6 DEF x, y

\* Who has one of a tile leaves no four of it to another, whose lookup finds it.
LEMMA OthersAreIndexed ==
    ASSUME NEW hands, NEW deck, Fair(hands, deck), NEW c \in Chairs, NEW t \in Kinds,
           CardCount(hands[c], t) >= 1
    PROVE  \A a \in Chairs \ {c} : ~Unindexed(hands[a], t)
  <1>1. hands \in [Chairs -> Seq(Kinds)] /\ deck \in Seq(Kinds) /\ FourOfEach(hands, deck)
    BY DEF Fair
  <1>. SUFFICES ASSUME NEW a \in Chairs \ {c}
                PROVE  ~Unindexed(hands[a], t)
    OBVIOUS
  <1>. DEFINE x == CardCount(hands[a], t)
              z == CardCount(hands[c], t)
              k == CardCount(deck, t)
  <1>2. z + x + k <= 4
    BY <1>1 DEF FourOfEach
  <1>3. x \in Nat /\ z \in Nat /\ k \in Nat /\ z >= 1
    BY <1>1, PlacesFinite
  <1>. HIDE DEF x, z, k
  <1>4. ~(x >= 4)
    BY <1>2, <1>3
  <1>5. t \in 1 .. (Zhong - 1) => t \in Tiles
    BY HuAssumption DEF Kinds
  <1>. QED  BY <1>4, <1>5, Zenon DEF Unindexed, x

-----------------------------------------------------------------------------
(* The invariant.  A bureau is idle, dealt, at a player's turn, at a claim   *)
(* or shown; the tiles may run out on four of a kind, and then turns and     *)
(* claims go on while the result is shown.                                   *)

Fields == {"status", "ready", "started", "dismissed", "down", "bureau", "banker",
           "winner", "cur", "gang", "deck", "hands", "ops", "record", "test",
           "trust", "scores", "settled", "turnTask", "turnLost", "claimTask",
           "autos", "cards", "ends", "prepareTask", "trustTask", "late",
           "refused", "stray"}

TurnActs == {"Qi", "GangZi", "GangBu", "HuZi"}
ClaimActs == {"Peng", "GangChi", "Guo"}

\* No win is recorded, as long as the bureau goes on.
NoWins(g) == \A i \in DOMAIN g.record : g.record[i].operate \notin {"HuZi", "HuChi"}

Typed(g) ==
    /\ DOMAIN g = Fields /\ g.stray = FALSE /\ ~g.dismissed /\ ~g.down
    /\ g.bureau \in Nat /\ g.ends \in Nat /\ g.settled \in Nat /\ g.late \in Nat
    /\ g.banker \in Chairs \cup {Off}
    /\ g.winner \in Chairs \cup {Off}
    /\ g.deck \in Seq(Kinds)
    /\ g.hands \in [Chairs -> Seq(Kinds)]
    /\ g.ops \in [Chairs -> SUBSET OperateType]
    /\ g.record \in Seq(OperateRecord)
    /\ g.late = 0 => g.turnLost = {}

\* A bureau that goes on, also when it has been shown.
Live(g) ==
    /\ Typed(g)
    /\ g.gang = Off /\ g.started /\ ~g.cards
    /\ FourOfEach(g.hands, g.deck)
    /\ NoWins(g)
    /\ \/ /\ g.status = "Playing" /\ g.ends = 0 /\ g.settled = 0
          /\ CanTrust => g.trustTask
       \/ /\ g.status = "Result" /\ g.ends >= 1 /\ g.settled >= 1
          /\ EndedOnGang(g) /\ Len(g.deck) <= Ma

Only(g, c) == \A d \in Chairs \ {c} : g.ops[d] = {}
Own(g, c) == "Qi" \in g.ops[c] /\ g.ops[c] \subseteq TurnActs /\ Only(g, c)
Claims(g, c) == "Guo" \in g.ops[c] /\ g.ops[c] \subseteq ClaimActs /\ Only(g, c)

Even(g) == g.status = "Playing" => \A c \in Chairs : Len(g.hands[c]) % 3 = 1
Ahead(g, c) == \A d \in Chairs : Len(g.hands[d]) % 3 = (IF d = c THEN 2 ELSE 1)

CanWin(g, c) ==
    \/ CheckHu(g.hands[c], NoCard)
    \/ IsFirstTurn(g, c) /\ CardCount(g.hands[c], Zhong) = 4

HasFour(g, c) == \E u \in Kinds : CardCount(g.hands[c], u) >= 4
TookPair(g, c) == \E i \in DOMAIN g.record : g.record[i].chair = c /\ g.record[i].operate = "Peng"

\* The bureau goes on with a turn or a claim.
Open(g) == Live(g) /\ g.cur \in Chairs /\ g.record # <<>> /\ Len(g.deck) >= Ma

\* What is offered to the player whose turn it is will be accepted.
Turn(g) ==
    /\ Open(g) /\ g.claimTask = {} /\ Own(g, g.cur)
    /\ g.status = "Playing" =>
          /\ Ahead(g, g.cur)
          /\ LastOf(g.record).operate # "Qi"
          /\ "HuZi" \in g.ops[g.cur] => CanWin(g, g.cur)
          /\ "GangZi" \in g.ops[g.cur] => HasFour(g, g.cur)
          /\ "GangBu" \in g.ops[g.cur] => TookPair(g, g.cur)

\* The turn has its task or the timer that follows, or a pair was taken.
Timed(g) ==
    \/ g.turnTask = g.cur
    \/ g.cur \in g.autos
    \/ LastOf(g.record).operate = "Peng"

TurnOpen(g) ==
    Turn(g) /\ ((g.status = "Playing" /\ g.late = 0 /\ ~g.refused) => Timed(g))

\* A claim on a discarded tile, or one that was taken when the tiles ran out.
ClaimOpen(g, c) ==
    /\ Open(g) /\ c \in Chairs /\ c # g.cur /\ Claims(g, c) /\ Even(g)
    /\ LET last == LastOf(g.record)
       IN  /\ last.card \in Kinds
           /\ \/ /\ last.operate = "Qi" /\ g.claimTask = {c}
                 /\ "Peng" \in g.ops[c] => CardCount(g.hands[c], last.card) >= 2
                 /\ "GangChi" \in g.ops[c] => CardCount(g.hands[c], last.card) >= 3
              \/ /\ last.operate = "GangChi" /\ g.claimTask = {}
                 /\ CardCount(g.hands[c], last.card) <= 1
                 /\ g.status = "Result"
    /\ g.status = "Playing" => g.turnTask = Off

Nobody(g) == g.claimTask = {} /\ \A c \in Chairs : g.ops[c] = {}

Shown(g) ==
    /\ Typed(g) /\ Nobody(g) /\ g.status = "Result" /\ g.started /\ ~g.cards
    /\ g.ends >= 1 /\ g.settled >= 1 /\ (g.settled <= 1 \/ EndedOnGang(g))

Fresh(g) ==
    /\ Typed(g) /\ Nobody(g) /\ g.ends = 0 /\ g.settled = 0 /\ g.record = <<>>
    /\ g.gang = Off

Idle(g) == Fresh(g) /\ g.status = "None" /\ ~g.started /\ ~g.cards /\ g.bureau < MaxBureau

Dealt(g) ==
    /\ Fresh(g) /\ g.status = "Dices" /\ g.started /\ g.cards /\ g.banker \in Chairs
    /\ \A c \in Chairs : Len(g.hands[c]) = HandSize
    /\ FourOfEach(g.hands, g.deck)
    /\ CanTrust => g.trustTask

Good(g) == Idle(g) \/ Dealt(g) \/ TurnOpen(g) \/ (\E c \in Chairs : ClaimOpen(g, c)) \/ Shown(g)

\* What a game that was dismissed, or whose process ended, still shows.
Safe(g) ==
    /\ Cardinality(Claiming(g)) <= 1 /\ g.claimTask \subseteq Claiming(g)
    /\ (g.status = "Playing" /\ ~g.down) =>
          \A c \in Chairs : Len(g.hands[c]) % 3 =
              (IF c = g.cur /\ Claiming(g) = {} THEN 2 ELSE 1)
    /\ ~EndedOnGang(g) => g.settled <= 1
    /\ (g.down /\ g.record # <<>>) => (Chunniunai \/ EndedOnGang(g)) /\ Len(g.deck) <= Ma

Ended(g) ==
    /\ DOMAIN g = Fields /\ (g.dismissed \/ g.down)
    /\ g.dismissed => g.claimTask = {}
    /\ Safe(g)

Fine(g) == Good(g) \/ Ended(g)

MjInv == DOMAIN game = Fields /\ (game.stray \/ Fine(game))

-----------------------------------------------------------------------------
(* Records. *)

\* The next chair is one.
LEMMA AfterIsChair == \A c \in Chairs \cup {Off} : After(c) \in Chairs
  BY MjAssumption DEF Chairs, After, Off

\* Tiles may be named, and so may the missing one.
LEMMA KindsAreCards == Kinds \subseteq Cards /\ NoCard \in Cards
  BY DEF Cards

\* No hand has what is no tile.
LEMMA OthersAreMissing ==
    ASSUME NEW hand \in Seq(Kinds), NEW t, t \notin Kinds
    PROVE  CardCount(hand, t) = 0
  <1>1. Places(hand, t) = {}
    BY DEF Places
  <1>. QED  BY <1>1, PlacesFinite

\* What an act that is put down as the last one leaves of the record.
Noted(g, h, c, o, t) ==
    /\ h.record \in Seq(OperateRecord) /\ h.record # <<>>
    /\ LastOf(h.record).chair = c /\ LastOf(h.record).operate = o /\ LastOf(h.record).card = t
    /\ (NoWins(g) /\ o \notin {"HuZi", "HuChi"}) => NoWins(h)
    /\ (EndedOnGang(g) /\ o # "Get") => EndedOnGang(h)
    /\ o \in {"GangChi", "GangZi"} => EndedOnGang(h)
    /\ \A i \in DOMAIN g.record : i \in DOMAIN h.record /\ h.record[i] = g.record[i]
    /\ (IsFirstTurn(g, c) /\ o = "Get") => IsFirstTurn(h, c)

\* An act is put down as the last one.
LEMMA RecordingIs ==
    ASSUME NEW g, NEW h, NEW c \in Chairs, NEW o \in OperateType,
           NEW t \in Cards, g.record \in Seq(OperateRecord),
           h.record = Append(g.record, [chair |-> c, operate |-> o, card |-> t])
    PROVE  Noted(g, h, c, o, t)
  <1>. DEFINE e == [chair |-> c, operate |-> o, card |-> t]
              r == g.record
              q == h.record
              n == Len(g.record) + 1
  <1>1. e \in OperateRecord /\ e.chair = c /\ e.operate = o /\ e.card = t
    BY DEF OperateRecord
  <1>. HIDE DEF e
  <1>2. /\ q = Append(r, e) /\ q \in Seq(OperateRecord) /\ Len(q) = n /\ n \in Nat
        /\ q[n] = e /\ \A i \in 1 .. Len(r) : q[i] = r[i]
        /\ DOMAIN r = 1 .. Len(r) /\ Len(r) \in Nat
    BY <1>1 DEF e
  <1>3. q # <<>>
    <2>1. Len(q) # 0
      BY <1>2
    <2>. QED  BY <2>1
  <1>. HIDE DEF q, r, n
  <1>4. DOMAIN q = 1 .. n /\ n = Len(r) + 1
    BY <1>2 DEF n, r
  <1>5. \A i \in DOMAIN q : (i \in DOMAIN r /\ q[i] = r[i]) \/ (i = n /\ q[i] = e)
    BY <1>2, <1>4
  <1>6. LastOf(q) = e
    BY <1>2 DEF LastOf
  <1>7. \A i \in DOMAIN r : i \in DOMAIN q /\ q[i] = r[i]
    BY <1>2, <1>4
  <1>8. ASSUME NoWins(g), o \notin {"HuZi", "HuChi"}
        PROVE  NoWins(h)
    BY <1>1, <1>5, <1>8 DEF NoWins, q, r
  <1>9. ASSUME EndedOnGang(g), o # "Get"
        PROVE  EndedOnGang(h)
    <2>1. PICK i \in DOMAIN r : /\ r[i].operate \in {"GangChi", "GangZi"}
                                /\ i < Len(r) => r[i + 1].operate # "Get"
      BY <1>9 DEF EndedOnGang, r
    <2>2. i \in DOMAIN q /\ q[i] = r[i]
      BY <1>7
    <2>3. CASE i < Len(r)
      <3>1. i + 1 \in DOMAIN r
        BY <1>2, <2>1, <2>3
      <3>2. q[i + 1] = r[i + 1]
        BY <1>7, <3>1
      <3>. QED  BY <2>1, <2>2, <2>3, <3>2 DEF EndedOnGang, q
    <2>4. CASE ~(i < Len(r))
      <3>1. i + 1 = n
        BY <1>2, <1>4, <2>1, <2>4
      <3>2. q[i + 1].operate # "Get"
        BY <1>1, <1>2, <1>9, <3>1
      <3>. QED  BY <2>1, <2>2, <3>2 DEF EndedOnGang, q
    <2>. QED  BY <2>3, <2>4
  <1>10. ASSUME o \in {"GangChi", "GangZi"}
         PROVE  EndedOnGang(h)
    <2>1. n \in DOMAIN q /\ q[n].operate = o /\ ~(n < Len(q))
      BY <1>1, <1>2, <1>4
    <2>. QED  BY <1>10, <2>1 DEF EndedOnGang, q
  <1>11. ASSUME IsFirstTurn(g, c), o = "Get"
         PROVE  IsFirstTurn(h, c)
    BY <1>1, <1>5, <1>11 DEF IsFirstTurn, q, r
  <1>. QED  BY <1>1, <1>2, <1>3, <1>6, <1>7, <1>8, <1>9, <1>10, <1>11
          DEF Noted, q, r

-----------------------------------------------------------------------------
(* The result. *)

\* A win names winners; without one there is none.
LEMMA WinnersAreChairs ==
    ASSUME NEW g, g.record \in Seq(OperateRecord)
    PROVE  /\ NoWins(g) => WinChairIDArray(g) = <<>>
           /\ WinChairIDArray(g) \in Seq(Chairs)
  <1>. DEFINE r == g.record
              L == Len(g.record)
              from == Max({1, Len(g.record) - 2})
              wins(i) == {j \in from .. i : g.record[j].operate \in {"HuZi", "HuChi"}}
              at == {i \in from .. L : wins(i) # {}}
              m == Cardinality(at)
              W == [k \in 1 .. m |-> g.record[Max(wins(L - m + k))].chair]
  <1>1. WinChairIDArray(g) = W
    BY Zenon DEF WinChairIDArray
  <1>2. L \in Nat /\ DOMAIN r = 1 .. L /\ \A j \in 1 .. L : r[j].chair \in Chairs
    <2>1. L \in Nat /\ DOMAIN r = 1 .. L /\ \A j \in 1 .. L : r[j] \in OperateRecord
      OBVIOUS
    <2>. QED  BY <2>1 DEF OperateRecord
  <1>3. from \in Int /\ from >= 1
    <2>1. Max({1, L - 2}) \in {1, L - 2} /\ Max({1, L - 2}) >= 1
      <3>. DEFINE x == L - 2
      <3>1. x \in Int
        BY <1>2
      <3>. HIDE DEF x
      <3>2. \E z \in {1, x} : \A y \in {1, x} : z >= y
        BY <3>1
      <3>3. Max({1, x}) \in {1, x} /\ \A y \in {1, x} : Max({1, x}) >= y
        BY <3>2 DEF Max
      <3>. QED  BY <3>1, <3>3 DEF x
    <2>. QED  BY <1>2, <2>1
  <1>. HIDE DEF from
  <1>4. at \in SUBSET (from .. L) /\ IsFiniteSet(at) /\ m \in Nat
    <2>1. L \in Int
      BY <1>2
    <2>2. IsFiniteSet(from .. L)
      BY <1>3, <2>1, FS_Interval
    <2>3. at \in SUBSET (from .. L)
      OBVIOUS
    <2>. HIDE DEF at, L
    <2>. QED  BY <2>2, <2>3, FS_Subset, FS_CardinalityType
  <1>5. \A i \in at : \A j \in i .. L : j \in at
    <2>. SUFFICES ASSUME NEW i \in at, NEW j \in i .. L
                  PROVE  j \in at
      OBVIOUS
    <2>1. PICK k \in from .. i : r[k].operate \in {"HuZi", "HuChi"}
      OBVIOUS
    <2>2. k \in from .. j /\ j \in from .. L
      BY <1>2, <1>3
    <2>. QED  BY <2>1, <2>2
  <1>6. ASSUME NEW k \in 1 .. m
        PROVE  L - m + k \in at
    <2>. SUFFICES ASSUME L - m + k \notin at
                  PROVE  FALSE
      OBVIOUS
    <2>. DEFINE j == L - m + k
    <2>1. j \in Int /\ j <= L /\ L \in Int /\ m \in Nat
      BY <1>2, <1>4
    <2>. HIDE DEF at, L, m
    <2>2. \A i \in at : i \in (j + 1) .. L
      <3>. SUFFICES ASSUME NEW i \in at
                    PROVE  i \in (j + 1) .. L
        OBVIOUS
      <3>1. i \in Int /\ i <= L
        BY <1>3, <1>4, <2>1
      <3>2. ~(i <= j)
        BY <1>5, <2>1, <3>1
      <3>. QED  BY <2>1, <3>1, <3>2
    <2>3. IsFiniteSet((j + 1) .. L) /\ Cardinality((j + 1) .. L) = L - j
      <3>. DEFINE a == j + 1
      <3>1. a \in Int /\ L - a + 1 = L - j /\ (a > L => L - j = 0)
        BY <2>1
      <3>. HIDE DEF a
      <3>2. IsFiniteSet(a .. L) /\ Cardinality(a .. L) = L - j
        BY <2>1, <3>1, FS_Interval
      <3>. QED  BY <3>2 DEF a
    <2>4. m <= L - j
      <3>1. at \in SUBSET ((j + 1) .. L)
        BY <2>2
      <3>. QED  BY <2>3, <3>1, FS_Subset DEF m
    <2>. QED  BY <2>1, <2>4
  <1>7. ASSUME NEW k \in 1 .. m
        PROVE  W[k] \in Chairs
    <2>. DEFINE i == L - m + k
                S == wins(i)
    <2>1. i \in at
      BY <1>6
    <2>2. S # {} /\ i \in from .. L
      BY <2>1
    <2>3. S \in SUBSET (1 .. L)
      <3>1. S \in SUBSET (from .. i) /\ i \in Int /\ i <= L /\ L \in Int
        BY <1>2, <1>3, <2>2
      <3>. HIDE DEF S, i, L
      <3>. QED  BY <1>3, <3>1
    <2>. HIDE DEF S
    <2>4. Max(S) \in 1 .. L
      BY <1>2, <2>2, <2>3, FirstAndLast
    <2>5. W[k] = r[Max(S)].chair
      BY DEF S
    <2>. QED  BY <1>2, <2>4, <2>5
  <1>8. W \in Seq(Chairs)
    <2>1. W = [k \in 1 .. m |-> W[k]]
      OBVIOUS
    <2>. HIDE DEF W, m
    <2>2. W \in [1 .. m -> Chairs]
      BY <1>7, <2>1
    <2>. QED  BY <1>4, <2>2
  <1>9. ASSUME NoWins(g)
        PROVE  W = <<>>
    <2>1. \A i \in from .. L : wins(i) = {}
      BY <1>2, <1>3, <1>9 DEF NoWins
    <2>2. at = {}
      BY <2>1
    <2>3. m = 0
      BY <2>2, FS_EmptySet
    <2>. HIDE DEF m, wins, at
    <2>4. DOMAIN W = {}
      BY <2>3
    <2>. HIDE DEF W
    <2>. QED  BY <1>8, <2>4
  <1>. QED  BY <1>1, <1>8, <1>9

\* What all handlers leave alone.
Kept(g, h) ==
    /\ DOMAIN h = DOMAIN g
    /\ h.stray = g.stray /\ h.dismissed = g.dismissed /\ h.started = g.started
    /\ h.cards = g.cards /\ h.bureau = g.bureau /\ h.banker = g.banker

\* gameEnd shows a result and touches neither hands nor acts.
LEMMA GameEndIs ==
    ASSUME NEW g, DOMAIN g = Fields, NEW h, h = GameEnd(g)
    PROVE  /\ Kept(g, h) /\ h.hands = g.hands /\ h.ops = g.ops /\ h.record = g.record
           /\ h.cur = g.cur /\ h.gang = g.gang /\ h.claimTask = g.claimTask
           /\ h.late = g.late /\ h.turnLost = g.turnLost
           /\ \/ /\ Panics(g, WinChairIDArray(g)) /\ h.down /\ h.deck = g.deck
                 /\ h.status = g.status /\ h.settled = g.settled /\ h.ends = g.ends
              \/ /\ ~Panics(g, WinChairIDArray(g)) /\ h.down = g.down
                 /\ h.status = "Result" /\ h.settled = g.settled + 1 /\ h.ends = g.ends + 1
                 /\ h.winner = (IF WinChairIDArray(g) = <<>> THEN Off ELSE WinChairIDArray(g)[1])
                 /\ LET ma == MaCards(g, WinChairIDArray(g))
                    IN  h.deck = SubSeq(g.deck, Len(ma) + 1, Len(g.deck))
  <1>. DEFINE winners == WinChairIDArray(g)
              ma == MaCards(g, winners)
              scores == IF winners = <<>> THEN [c \in Chairs |-> 0]
                        ELSE GangScores(g, WinScores(g, winners, ma))
              first == IF winners = <<>> THEN Off ELSE winners[1]
              deck == SubSeq(g.deck, Len(ma) + 1, Len(g.deck))
              prepare == g.prepareTask \/ g.bureau # MaxBureau
  <1>1. CASE Panics(g, winners)
    <2>1. h = [g EXCEPT !.down = TRUE]
      BY <1>1, Zenon DEF GameEnd
    <2>. HIDE DEF winners
    <2>2. /\ Kept(g, h) /\ h.hands = g.hands /\ h.ops = g.ops /\ h.record = g.record
          /\ h.cur = g.cur /\ h.gang = g.gang /\ h.claimTask = g.claimTask
          /\ h.late = g.late /\ h.turnLost = g.turnLost
          /\ h.down /\ h.deck = g.deck
          /\ h.status = g.status /\ h.settled = g.settled /\ h.ends = g.ends
      BY <2>1 DEF Fields, Kept
    <2>. QED  BY <1>1, <2>2 DEF winners
  <1>2. CASE ~Panics(g, winners)
    <2>1. h = [g EXCEPT
                 !.status = "Result", !.trustTask = FALSE, !.deck = deck,
                 !.winner = first, !.scores = scores, !.settled = g.settled + 1,
                 !.ends = g.ends + 1, !.prepareTask = prepare]
      BY <1>2, Zenon DEF GameEnd
    <2>. HIDE DEF deck, first, scores, prepare
    <2>2. /\ Kept(g, h) /\ h.hands = g.hands /\ h.ops = g.ops /\ h.record = g.record
          /\ h.cur = g.cur /\ h.gang = g.gang /\ h.claimTask = g.claimTask
          /\ h.late = g.late /\ h.turnLost = g.turnLost /\ h.down = g.down
          /\ h.status = "Result" /\ h.settled = g.settled + 1 /\ h.ends = g.ends + 1
          /\ h.winner = first /\ h.deck = deck
      BY <2>1 DEF Fields, Kept
    <2>. QED  BY <1>2, <2>2 DEF first, deck
  <1>. QED  BY <1>1, <1>2

\* Without a win the result leaves the tiles where they are.
LEMMA PlainEnd ==
    ASSUME NEW g, Typed(g), NoWins(g), NEW h, h = GameEnd(g)
    PROVE  /\ Typed(h) /\ Kept(g, h) /\ h.hands = g.hands /\ h.ops = g.ops
           /\ h.record = g.record /\ h.cur = g.cur /\ h.gang = g.gang
           /\ h.claimTask = g.claimTask /\ h.deck = g.deck /\ h.status = "Result"
           /\ h.settled = g.settled + 1 /\ h.ends = g.ends + 1
  <1>1. DOMAIN g = Fields /\ g.record \in Seq(OperateRecord) /\ g.deck \in Seq(Kinds)
    BY DEF Typed
  <1>2. WinChairIDArray(g) = <<>>
    BY <1>1, WinnersAreChairs
  <1>3. ~Panics(g, WinChairIDArray(g)) /\ MaCards(g, WinChairIDArray(g)) = <<>>
    BY <1>2 DEF Panics, MaCards
  <1>4. SubSeq(g.deck, Len(<<>>) + 1, Len(g.deck)) = g.deck
    <2>. DEFINE d == g.deck
    <2>1. d \in Seq(Kinds) /\ Len(<<>>) + 1 = 1
      BY <1>1
    <2>. HIDE DEF d
    <2>2. SubSeq(d, 1, Len(d)) = d
      BY <2>1
    <2>. QED  BY <2>1, <2>2 DEF d
  <1>5. /\ Kept(g, h) /\ h.hands = g.hands /\ h.ops = g.ops /\ h.record = g.record
        /\ h.cur = g.cur /\ h.gang = g.gang /\ h.claimTask = g.claimTask
        /\ h.late = g.late /\ h.turnLost = g.turnLost /\ h.down = g.down
        /\ h.status = "Result" /\ h.settled = g.settled + 1 /\ h.ends = g.ends + 1
        /\ h.winner = Off /\ h.deck = g.deck
    <2>. DEFINE winners == WinChairIDArray(g)
                ma == MaCards(g, winners)
    <2>1. /\ Kept(g, h) /\ h.hands = g.hands /\ h.ops = g.ops /\ h.record = g.record
          /\ h.cur = g.cur /\ h.gang = g.gang /\ h.claimTask = g.claimTask
          /\ h.late = g.late /\ h.turnLost = g.turnLost
          /\ \/ Panics(g, winners)
             \/ /\ h.down = g.down
                /\ h.status = "Result" /\ h.settled = g.settled + 1 /\ h.ends = g.ends + 1
                /\ h.winner = (IF winners = <<>> THEN Off ELSE winners[1])
                /\ h.deck = SubSeq(g.deck, Len(ma) + 1, Len(g.deck))
      BY <1>1, GameEndIs, Zenon
    <2>2. winners = <<>> /\ ma = <<>> /\ ~Panics(g, winners)
      BY <1>2, <1>3
    <2>. HIDE DEF winners, ma
    <2>. QED  BY <1>4, <2>1, <2>2
  <1>6. Typed(h)
    BY <1>5 DEF Typed, Kept
  <1>. QED  BY <1>5, <1>6

\* The process ends only when Chunniunai asks for a second tile of one.
LEMMA PanicOnOneTile ==
    ASSUME NEW g, g.deck \in Seq(Kinds), Len(g.deck) >= Ma, NEW winners,
           Panics(g, winners)
    PROVE  Chunniunai /\ Len(g.deck) <= Ma
  <1>. DEFINE n == MaCount(g, winners)
              d == g.deck
  <1>1. winners # <<>> /\ Ma = 1 /\ MaCards(g, winners) = <<>>
    BY DEF Panics
  <1>2. n \in {1, 2} /\ (n = 2 => Chunniunai)
    <2>1. (n = Ma + 1 /\ Chunniunai) \/ n = Ma
      BY DEF MaCount
    <2>. QED  BY <1>1, <2>1
  <1>3. d \in Seq(Kinds) /\ Len(d) \in Nat /\ Len(d) >= 1
    BY <1>1
  <1>. HIDE DEF n, d
  <1>4. Len(d) < n
    <2>. SUFFICES ASSUME ~(Len(d) < n)
                  PROVE  FALSE
      OBVIOUS
    <2>1. SubSeq(d, 1, n) = <<>>
      BY <1>1 DEF MaCards, n, d
    <2>2. Len(SubSeq(d, 1, n)) = n
      BY <1>2, <1>3
    <2>. QED  BY <1>2, <2>1, <2>2
  <1>5. n = 2 /\ Len(d) = 1
    BY <1>2, <1>3, <1>4
  <1>. QED  BY <1>1, <1>2, <1>5 DEF d

\* A bureau may be shown once, or again when the tiles ran out on four of a kind.
LEMMA WinEnds ==
    ASSUME NEW g, Typed(g), Nobody(g), g.started, ~g.cards, Len(g.deck) >= Ma,
           g.settled = 0 \/ EndedOnGang(g)
    PROVE  Fine(GameEnd(g))
  <1>. DEFINE h == GameEnd(g)
              winners == WinChairIDArray(g)
              ma == MaCards(g, winners)
  <1>1. DOMAIN g = Fields /\ g.record \in Seq(OperateRecord) /\ g.deck \in Seq(Kinds)
        /\ Len(g.deck) \in Nat
    BY DEF Typed
  <1>2. winners \in Seq(Chairs)
    BY <1>1, WinnersAreChairs
  <1>3. /\ Kept(g, h) /\ h.hands = g.hands /\ h.ops = g.ops /\ h.record = g.record
        /\ h.cur = g.cur /\ h.gang = g.gang /\ h.claimTask = g.claimTask
        /\ h.late = g.late /\ h.turnLost = g.turnLost
        /\ \/ /\ Panics(g, winners) /\ h.down /\ h.deck = g.deck
              /\ h.status = g.status /\ h.settled = g.settled /\ h.ends = g.ends
           \/ /\ ~Panics(g, winners) /\ h.down = g.down
              /\ h.status = "Result" /\ h.settled = g.settled + 1 /\ h.ends = g.ends + 1
              /\ h.winner = (IF winners = <<>> THEN Off ELSE winners[1])
              /\ h.deck = SubSeq(g.deck, Len(ma) + 1, Len(g.deck))
    BY <1>1, GameEndIs, Zenon
  <1>. HIDE DEF h, winners, ma
  <1>4. Nobody(h) /\ (EndedOnGang(g) => EndedOnGang(h))
    BY <1>3 DEF Nobody, EndedOnGang
  <1>5. ASSUME Panics(g, winners)
        PROVE  Ended(h)
    <2>1. /\ h.down /\ h.deck = g.deck /\ h.status = g.status /\ h.settled = g.settled
      BY <1>3, <1>5
    <2>2. Chunniunai /\ Len(h.deck) <= Ma
      BY <1>1, <1>5, <2>1, PanicOnOneTile
    <2>3. Claiming(h) = {}
      BY <1>4 DEF Nobody, Claiming
    <2>4. Cardinality(Claiming(h)) <= 1
      BY <2>3, FS_EmptySet
    <2>5. ~EndedOnGang(h) => h.settled <= 1
      BY <1>4, <2>1
    <2>6. Safe(h)
      BY <1>4, <2>1, <2>2, <2>4, <2>5 DEF Safe, Nobody
    <2>. QED  BY <1>1, <1>3, <1>4, <2>1, <2>6 DEF Ended, Kept, Nobody
  <1>6. ASSUME ~Panics(g, winners)
        PROVE  Shown(h)
    <2>1. /\ h.down = g.down /\ h.status = "Result"
          /\ h.settled = g.settled + 1 /\ h.ends = g.ends + 1
          /\ h.winner = (IF winners = <<>> THEN Off ELSE winners[1])
          /\ h.deck = SubSeq(g.deck, Len(ma) + 1, Len(g.deck))
      BY <1>3, <1>6
    <2>2. h.winner \in Chairs \cup {Off}
      BY <1>2, <2>1
    <2>3. h.deck \in Seq(Kinds)
      <3>1. Len(ma) \in Nat
        <4>. DEFINE n == MaCount(g, winners)
                    d == g.deck
        <4>1. n \in Nat
          BY MjAssumption DEF MaCount
        <4>2. d \in Seq(Kinds)
          BY <1>1
        <4>3. ma = <<>> \/ (ma = SubSeq(d, 1, n) /\ ~(Len(d) < n))
          BY DEF ma, MaCards
        <4>. HIDE DEF n, d
        <4>. QED  BY <4>1, <4>2, <4>3
      <3>. DEFINE d == g.deck
                  k == Len(ma)
      <3>2. d \in Seq(Kinds) /\ k \in Nat /\ h.deck = SubSeq(d, k + 1, Len(d))
        BY <1>1, <2>1, <3>1
      <3>. HIDE DEF d, k
      <3>3. SubSeq(d, k + 1, Len(d)) \in Seq(Kinds)
        BY <3>2
      <3>. QED  BY <3>2, <3>3
    <2>4. Typed(h)
      BY <1>3, <2>1, <2>2, <2>3 DEF Typed, Kept
    <2>5. g.ends \in Nat /\ g.settled \in Nat
      BY DEF Typed
    <2>. QED  BY <1>3, <1>4, <2>1, <2>4, <2>5 DEF Shown, Kept
  <1>. QED  BY <1>5, <1>6 DEF Fine, Good, h

-----------------------------------------------------------------------------
(* Turns. *)

\* The tiles ran out on four of a kind; what its player was offered is left.
StillOpen(g, c) ==
    /\ EndedOnGang(g) /\ g.record # <<>> /\ Len(g.deck) >= Ma /\ g.cur \in Chairs
    /\ \/ g.cur = c /\ "Qi" \in g.ops[c] /\ g.ops[c] \subseteq TurnActs
       \/ /\ g.cur # c /\ "Guo" \in g.ops[c] /\ g.ops[c] \subseteq ClaimActs
          /\ LET last == LastOf(g.record)
             IN  /\ last.operate = "GangChi" /\ last.card \in Kinds
                 /\ CardCount(g.hands[c], last.card) <= 1

\* A game whose next step is that a chair draws.
ToDraw(g, c) ==
    /\ Live(g) /\ c \in Chairs /\ g.claimTask = {} /\ Only(g, c) /\ Even(g)
    /\ g.ops[c] = {} \/ StillOpen(g, c)

\* Without tiles the turn ends the bureau.
LEMMA NoTileLeft ==
    ASSUME NEW g, NEW c, ToDraw(g, c), Len(g.deck) <= Ma
    PROVE  Good(GameEnd(g))
  <1>. DEFINE h == GameEnd(g)
  <1>1. Live(g) /\ c \in Chairs /\ g.claimTask = {} /\ Only(g, c)
        /\ (g.ops[c] = {} \/ StillOpen(g, c))
    BY DEF ToDraw
  <1>2. Typed(g) /\ NoWins(g)
    BY <1>1 DEF Live
  <1>3. /\ Typed(h) /\ Kept(g, h) /\ h.hands = g.hands /\ h.ops = g.ops
        /\ h.record = g.record /\ h.cur = g.cur /\ h.gang = g.gang
        /\ h.claimTask = g.claimTask /\ h.deck = g.deck /\ h.status = "Result"
        /\ h.settled = g.settled + 1 /\ h.ends = g.ends + 1
    BY <1>2, PlainEnd
  <1>. HIDE DEF h
  <1>4. /\ h.gang = Off /\ h.started /\ ~h.cards /\ FourOfEach(h.hands, h.deck)
        /\ NoWins(h) /\ (EndedOnGang(g) => EndedOnGang(h))
    BY <1>1, <1>3 DEF Live, Kept, NoWins, EndedOnGang
  <1>5. /\ h.ends >= 1 /\ h.settled >= 1
        /\ h.settled <= 1 \/ EndedOnGang(h)
    BY <1>1, <1>3, <1>4 DEF Live, Typed
  <1>6. ASSUME g.ops[c] = {}
        PROVE  Shown(h)
    <2>1. Nobody(h)
      BY <1>1, <1>3, <1>6 DEF Nobody, Only
    <2>. QED  BY <1>3, <1>4, <1>5, <2>1 DEF Shown
  <1>7. ASSUME StillOpen(g, c)
        PROVE  TurnOpen(h) \/ ClaimOpen(h, c)
    <2>1. Live(h)
      BY <1>3, <1>4, <1>5, <1>7 DEF Live, StillOpen
    <2>2. Open(h) /\ Only(h, c)
      BY <1>1, <1>3, <1>7, <2>1 DEF Open, StillOpen, Only
    <2>3. ASSUME g.cur = c, "Qi" \in g.ops[c], g.ops[c] \subseteq TurnActs
          PROVE  TurnOpen(h)
      <3>1. Own(h, h.cur)
        BY <1>3, <2>2, <2>3 DEF Own
      <3>. QED  BY <1>1, <1>3, <2>2, <3>1 DEF TurnOpen, Turn
    <2>4. ASSUME g.cur # c, "Guo" \in g.ops[c], g.ops[c] \subseteq ClaimActs,
                 LastOf(g.record).operate = "GangChi", LastOf(g.record).card \in Kinds,
                 CardCount(g.hands[c], LastOf(g.record).card) <= 1
          PROVE  ClaimOpen(h, c)
      <3>1. Claims(h, c) /\ Even(h)
        BY <1>3, <2>2, <2>4 DEF Claims, Even
      <3>. QED  BY <1>1, <1>3, <2>2, <2>4, <3>1 DEF ClaimOpen
    <2>. QED  BY <1>7, <2>3, <2>4 DEF StillOpen
  <1>. QED  BY <1>1, <1>6, <1>7 DEF Good, h

\* What is offered for a tile that was drawn will be accepted.
LEMMA OffersOfTurn ==
    ASSUME NEW g, NEW c, NEW t
    PROVE  LET acts == MyOperateArray(g, c, t)
           IN  /\ "Qi" \in acts /\ acts \subseteq TurnActs
               /\ "HuZi" \in acts => CanWin(g, c)
               /\ "GangZi" \in acts => HasFour(g, c)
               /\ "GangBu" \in acts => TookPair(g, c)
  BY DEF MyOperateArray, TurnActs, CanWin, HasFour, TookPair, Records

\* The place of the tile that is drawn.
LEMMA DrawnIsInDeck ==
    ASSUME NEW g, NEW c, g.deck \in Seq(Kinds), Len(g.deck) > 0
    PROVE  LET at == Min({i \in DOMAIN g.deck : g.deck[i] = Drawn(g, c)})
           IN  at \in DOMAIN g.deck /\ g.deck[at] = Drawn(g, c)
  <1>. DEFINE t == Drawn(g, c)
              D == g.deck
              S == {i \in DOMAIN D : D[i] = t}
  <1>1. D \in Seq(Kinds) /\ 1 \in DOMAIN D
    OBVIOUS
  <1>2. S # {}
    BY <1>1 DEF Drawn
  <1>3. S \in SUBSET (1 .. Len(D)) /\ Len(D) \in Nat
    BY <1>1
  <1>. HIDE DEF D, t, S
  <1>4. Min(S) \in S
    BY <1>2, <1>3, FirstAndLast
  <1>. QED  BY <1>4 DEF S, D, t

\* A chair draws, and its turn is open.
LEMMA TileIsDrawn ==
    ASSUME NEW g, NEW old, NEW c, ToDraw(g, c), Len(g.deck) > Ma, NEW h \in SetTurn(g, old, c)
    PROVE  Kept(g, h) /\ TurnOpen(h)
  <1>. DEFINE t == Drawn(g, c)
              at == Min({i \in DOMAIN g.deck : g.deck[i] = t})
              drew == [g EXCEPT !.cur = c, !.hands[c] = Append(@, t), !.deck = RemoveAt(@, at),
                                !.test[c] = NoCard]
              acts == MyOperateArray(drew, c, t)
              put == Recorded(drew, c, "Get", t)
              new(race) == [put EXCEPT
                 !.ops[c] = acts,
                 !.turnTask = IF race = "swift" THEN c ELSE Off,
                 !.turnLost = IF race = "late" THEN @ \cup {old} ELSE @,
                 !.late = IF race = "swift" THEN @ ELSE @ + 1,
                 !.refused = FALSE,
                 !.autos = IF c \in g.trust THEN @ \cup {c} ELSE @]
  <1>1. /\ Live(g) /\ c \in Chairs /\ g.claimTask = {} /\ Only(g, c) /\ Even(g) /\ Typed(g)
        /\ DOMAIN g = Fields /\ g.hands \in [Chairs -> Seq(Kinds)] /\ g.deck \in Seq(Kinds)
        /\ g.record \in Seq(OperateRecord) /\ FourOfEach(g.hands, g.deck) /\ NoWins(g)
    BY DEF ToDraw, Live, Typed
  <1>2. Len(g.deck) > 0 /\ Len(g.deck) \in Nat
    BY <1>1, MjAssumption
  <1>3. g.status = "Playing" /\ g.ends = 0 /\ g.settled = 0 /\ (CanTrust => g.trustTask)
    BY <1>1, <1>2, MjAssumption DEF Live
  <1>4. \A d \in Chairs : Len(g.hands[d]) % 3 = 1 /\ Len(g.hands[d]) \in Nat
    <2>1. \A d \in Chairs : Len(g.hands[d]) % 3 = 1
      BY <1>1, <1>3, Zenon DEF Even
    <2>2. \A d \in Chairs : g.hands[d] \in Seq(Kinds)
      BY <1>1
    <2>3. \A d \in Chairs : Len(g.hands[d]) \in Nat
      BY <2>2
    <2>. QED  BY <2>1, <2>3
  <1>5. Len(g.hands[c]) # HandSize + 1
    <2>. DEFINE n == Len(g.hands[c])
    <2>1. n % 3 = 1 /\ n \in Nat
      BY <1>1, <1>4
    <2>. HIDE DEF n
    <2>2. n # HandSize + 1
      BY <2>1, MjAssumption
    <2>. QED  BY <2>2 DEF n
  <1>6. \E race \in Races(g, old) : h = new(race)
    <2>1. h \in {new(race) : race \in Races(g, old)}
      <3>1. ~(Len(g.deck) <= Ma)
        BY <1>2, MjAssumption
      <3>. QED  BY <1>5, <3>1, Zenon DEF SetTurn
    <2>. HIDE DEF new
    <2>. QED  BY <2>1
  <1>7. PICK race \in Races(g, old) : h = new(race)
    BY <1>6
  <1>8. at \in DOMAIN g.deck /\ g.deck[at] = t
    BY <1>1, <1>2, DrawnIsInDeck
  <1>. HIDE DEF at, t
  <1>. DEFINE hands == [g.hands EXCEPT ![c] = Append(g.hands[c], t)]
              deck == RemoveAt(g.deck, at)
  <1>9. /\ t \in Kinds /\ hands \in [Chairs -> Seq(Kinds)] /\ deck \in Seq(Kinds)
        /\ Len(deck) = Len(g.deck) - 1 /\ FourOfEach(hands, deck)
        /\ \A d \in Chairs : Len(hands[d]) = IF d = c THEN Len(g.hands[d]) + 1 ELSE Len(g.hands[d])
    <2>. DEFINE H == g.hands
                D == g.deck
    <2>1. Fair(H, D) /\ at \in DOMAIN D /\ t = D[at] /\ c \in Chairs /\ t \in Kinds
      BY <1>1, <1>8 DEF Fair
    <2>2. hands = [H EXCEPT ![c] = Append(H[c], D[at])] /\ deck = RemoveAt(D, at)
      BY <2>1
    <2>. HIDE DEF H, D, hands, deck
    <2>3. OneMore(H, D, c, hands, deck)
      BY <2>1, <2>2, DrawIsFair
    <2>. QED  BY <2>1, <2>3 DEF H, D, OneMore, Fair
  <1>10. /\ DOMAIN drew = Fields /\ drew.hands = hands /\ drew.deck = deck /\ drew.cur = c
         /\ drew.record = g.record /\ drew.ops = g.ops /\ drew.late = g.late
         /\ drew.turnLost = g.turnLost /\ drew.autos = g.autos
         /\ drew.claimTask = g.claimTask /\ drew.gang = g.gang /\ drew.status = g.status
         /\ drew.ends = g.ends /\ drew.settled = g.settled /\ drew.trustTask = g.trustTask
         /\ drew.winner = g.winner /\ drew.down = g.down /\ Kept(g, drew)
    <2>. DEFINE test == [g.test EXCEPT ![c] = NoCard]
    <2>1. drew = [g EXCEPT !.cur = c, !.hands = hands, !.deck = deck, !.test = test]
      <3>. HIDE DEF deck
      <3>1. deck = RemoveAt(g.deck, at)
        BY DEF deck
      <3>. QED  BY <3>1, Zenon
    <2>. HIDE DEF hands, deck, test, drew
    <2>. QED  BY <1>1, <2>1 DEF Fields, Kept
  <1>. HIDE DEF drew, hands, deck
  <1>. DEFINE entry == [chair |-> c, operate |-> "Get", card |-> t]
              record == Append(g.record, entry)
  <1>11. /\ DOMAIN put = Fields /\ put.hands = hands /\ put.deck = deck /\ put.cur = c
         /\ put.record = record /\ put.ops = g.ops /\ put.late = g.late
         /\ put.turnLost = g.turnLost /\ put.autos = g.autos
         /\ put.claimTask = g.claimTask /\ put.gang = g.gang /\ put.status = g.status
         /\ put.ends = g.ends /\ put.settled = g.settled /\ put.trustTask = g.trustTask
         /\ put.winner = g.winner /\ put.down = g.down /\ Kept(g, put)
    <2>1. put = [drew EXCEPT !.record = record]
      BY <1>10, Zenon DEF Recorded
    <2>. HIDE DEF put, record
    <2>. QED  BY <1>10, <2>1 DEF Fields, Kept
  <1>. HIDE DEF put
  <1>. DEFINE ops == [g.ops EXCEPT ![c] = acts]
              task == IF race = "swift" THEN c ELSE Off
              lost == IF race = "late" THEN g.turnLost \cup {old} ELSE g.turnLost
              late == IF race = "swift" THEN g.late ELSE g.late + 1
              autos == IF c \in g.trust THEN g.autos \cup {c} ELSE g.autos
  <1>12. h = [put EXCEPT !.ops = ops, !.turnTask = task, !.turnLost = lost, !.late = late,
                         !.refused = FALSE, !.autos = autos]
    BY <1>7, <1>11, Zenon
  <1>. HIDE DEF new, acts, record
  <1>13. g.ops \in [Chairs -> SUBSET OperateType] /\ g.late \in Nat
         /\ (g.late = 0 => g.turnLost = {})
    BY <1>1 DEF Typed
  <1>14. late \in Nat /\ (late = 0 => lost = {} /\ task = c)
    BY <1>13
  <1>15. /\ "Qi" \in acts /\ acts \subseteq TurnActs
         /\ "HuZi" \in acts => CanWin(drew, c)
         /\ "GangZi" \in acts => HasFour(drew, c)
         /\ "GangBu" \in acts => TookPair(drew, c)
    BY OffersOfTurn DEF acts
  <1>16. ops \in [Chairs -> SUBSET OperateType] /\ ops[c] = acts
         /\ \A d \in Chairs \ {c} : ops[d] = {}
    <2>1. acts \in SUBSET OperateType
      BY <1>15 DEF TurnActs, OperateType
    <2>. QED  BY <1>1, <1>13, <2>1 DEF Only
  <1>. HIDE DEF ops, task, lost, late, autos
  <1>17. /\ h.hands = hands /\ h.deck = deck /\ h.cur = c
         /\ h.record = record /\ h.ops = ops /\ h.late = late
         /\ h.turnLost = lost /\ h.turnTask = task
         /\ h.claimTask = g.claimTask /\ h.gang = g.gang /\ h.status = g.status
         /\ h.ends = g.ends /\ h.settled = g.settled /\ h.trustTask = g.trustTask
         /\ h.winner = g.winner /\ h.down = g.down /\ Kept(g, h)
    BY <1>11, <1>12 DEF Fields, Kept
  <1>18. /\ h.record \in Seq(OperateRecord) /\ h.record # <<>>
         /\ LastOf(h.record).operate = "Get" /\ NoWins(h)
         /\ \A i \in DOMAIN g.record : i \in DOMAIN h.record /\ h.record[i] = g.record[i]
         /\ (IsFirstTurn(g, c) => IsFirstTurn(h, c))
    <2>1. h.record = Append(g.record, entry)
      BY <1>17 DEF record
    <2>2. "Get" \in OperateType /\ "Get" \notin {"HuZi", "HuChi"} /\ t \in Cards
      BY <1>9, KindsAreCards DEF OperateType
    <2>3. g.record \in Seq(OperateRecord) /\ NoWins(g) /\ c \in Chairs
      BY <1>1
    <2>4. h.record = Append(g.record, [chair |-> c, operate |-> "Get", card |-> t])
      BY <2>1 DEF entry
    <2>. HIDE DEF record, entry
    <2>5. Noted(g, h, c, "Get", t)
      BY <2>2, <2>3, <2>4, RecordingIs
    <2>. QED  BY <2>2, <2>3, <2>5 DEF Noted
  <1>19. /\ "HuZi" \in acts => CanWin(h, c)
         /\ "GangZi" \in acts => HasFour(h, c)
         /\ "GangBu" \in acts => TookPair(h, c)
    <2>1. CanWin(drew, c) => CanWin(h, c)
      <3>1. IsFirstTurn(drew, c) => IsFirstTurn(h, c)
        BY <1>10, <1>18 DEF IsFirstTurn
      <3>. QED  BY <1>10, <1>17, <3>1 DEF CanWin
    <2>2. HasFour(drew, c) => HasFour(h, c)
      BY <1>10, <1>17 DEF HasFour
    <2>3. TookPair(drew, c) => TookPair(h, c)
      BY <1>10, <1>17, <1>18 DEF TookPair
    <2>. QED  BY <1>15, <2>1, <2>2, <2>3
  <1>20. Typed(h)
    BY <1>1, <1>9, <1>14, <1>16, <1>17, <1>18 DEF Typed, Kept
  <1>21. Live(h)
    BY <1>1, <1>3, <1>9, <1>17, <1>18, <1>20 DEF Live, Kept
  <1>22. Open(h)
    <2>1. Len(deck) >= Ma
      BY <1>2, <1>9, MjAssumption
    <2>. QED  BY <1>1, <1>17, <1>18, <1>21, <2>1 DEF Open
  <1>23. Own(h, c)
    BY <1>15, <1>16, <1>17 DEF Own, Only
  <1>24. Ahead(h, c)
    <2>1. \A d \in Chairs : Len(hands[d]) % 3 = IF d = c THEN 2 ELSE 1
      <3>. SUFFICES ASSUME NEW d \in Chairs
                    PROVE  Len(hands[d]) % 3 = IF d = c THEN 2 ELSE 1
        OBVIOUS
      <3>. DEFINE n == Len(g.hands[d])
                  m == Len(hands[d])
      <3>1. n \in Nat /\ n % 3 = 1 /\ m = IF d = c THEN n + 1 ELSE n
        BY <1>4, <1>9
      <3>. HIDE DEF n, m
      <3>2. m % 3 = IF d = c THEN 2 ELSE 1
        BY <3>1
      <3>. QED  BY <3>2 DEF m
    <2>. QED  BY <1>17, <2>1 DEF Ahead
  <1>25. LastOf(h.record).operate # "Qi"
    BY <1>18
  <1>26. TurnOpen(h)
    BY <1>1, <1>14, <1>16, <1>17, <1>19, <1>22, <1>23, <1>24, <1>25 DEF TurnOpen, Turn, Timed
  <1>. QED  BY <1>17, <1>26

\* What setTurn leads to.
LEMMA TurnIsSet ==
    ASSUME NEW g, NEW old, NEW c, ToDraw(g, c), NEW h \in SetTurn(g, old, c)
    PROVE  Good(h)
  <1>1. g.deck \in Seq(Kinds) /\ Len(g.deck) \in Nat
    BY DEF ToDraw, Live, Typed
  <1>2. CASE Len(g.deck) > Ma
    BY <1>2, TileIsDrawn DEF Good
  <1>3. CASE Len(g.deck) <= Ma
    <2>1. h = GameEnd(g)
      BY <1>3, Zenon DEF SetTurn
    <2>. QED  BY <1>3, <2>1, NoTileLeft
  <1>. QED  BY <1>1, <1>2, <1>3, MjAssumption

-----------------------------------------------------------------------------
(* Claims. *)

\* What is offered for a discarded tile: nothing, or to pass and to take it
\* with a pair at least.
LEMMA OffersOfClaim ==
    ASSUME NEW g, g.gang = Off, NEW c, NEW t, NEW offer, offer = OperateArray(g, c, t),
           offer # {}, CardCount(g.hands[c], t) \in Nat
    PROVE  /\ "Guo" \in offer /\ offer \subseteq ClaimActs /\ CardCount(g.hands[c], t) >= 2
           /\ "GangChi" \in offer => CardCount(g.hands[c], t) >= 3
  <1>. DEFINE n == CardCount(g.hands[c], t)
              acts == {operate \in {"Peng", "GangChi", "HuChi"} :
                         CASE operate = "Peng" -> n >= 2
                           [] operate = "GangChi" -> n >= 3
                           [] OTHER -> g.gang # Off /\ CheckHu(g.hands[c], t)}
  <1>1. offer = UNION {IF ops = {} THEN {} ELSE ops \cup {"Guo"} : ops \in {acts}}
    BY Zenon DEF OperateArray
  <1>2. /\ "HuChi" \notin acts /\ acts \subseteq {"Peng", "GangChi"}
        /\ "Peng" \in acts <=> n >= 2
        /\ "GangChi" \in acts <=> n >= 3
    <2>1. "HuChi" \notin acts
      OBVIOUS
    <2>2. acts \subseteq {"Peng", "GangChi", "HuChi"}
      OBVIOUS
    <2>3. "Peng" \in acts <=> n >= 2
      BY Zenon
    <2>4. "GangChi" \in acts <=> n >= 3
      OBVIOUS
    <2>. HIDE DEF acts
    <2>. QED  BY <2>1, <2>2, <2>3, <2>4
  <1>. HIDE DEF acts
  <1>3. offer = IF acts = {} THEN {} ELSE acts \cup {"Guo"}
    BY <1>1
  <1>. HIDE DEF n
  <1>4. n \in Nat /\ acts # {}
    BY <1>3 DEF n
  <1>5. n >= 2
    <2>1. "Peng" \in acts \/ "GangChi" \in acts
      BY <1>2, <1>4
    <2>2. "Peng" \in acts => n >= 2
      BY <1>2
    <2>3. "GangChi" \in acts => n >= 3
      BY <1>2
    <2>. QED  BY <1>4, <2>1, <2>2, <2>3
  <1>6. "Guo" \in offer /\ offer \subseteq ClaimActs
    BY <1>2, <1>3, <1>4 DEF ClaimActs
  <1>7. "GangChi" \in offer => n >= 3
    BY <1>2, <1>3
  <1>. QED  BY <1>5, <1>6, <1>7 DEF n

\* A discarded tile that may be claimed, or else the turn passes.
ToPass(g, t) ==
    /\ Live(g) /\ g.cur \in Chairs /\ Nobody(g) /\ Even(g)
    /\ g.record # <<>> /\ LastOf(g.record).operate = "Qi"
    /\ t \in Kinds /\ LastOf(g.record).card = t
    /\ Len(g.deck) >= Ma /\ g.turnTask = Off
    /\ \A a, b \in Chairs \ {g.cur} : a # b =>
          CardCount(g.hands[a], t) + CardCount(g.hands[b], t) <= 3

\* Sorting keeps a game that is to pass on.
LEMMA SortedPasses ==
    ASSUME NEW g, NEW t, ToPass(g, t), NEW hands, SameTiles(g.hands, hands),
           NEW s, s = [g EXCEPT !.hands = hands]
    PROVE  ToPass(s, t) /\ s.cur = g.cur /\ Kept(g, s)
  <1>1. Typed(g) /\ DOMAIN g = Fields /\ g.hands \in [Chairs -> Seq(Kinds)] /\ Live(g)
        /\ g.deck \in Seq(Kinds)
    BY DEF ToPass, Live, Typed
  <1>2. /\ hands \in [Chairs -> Seq(Kinds)]
        /\ \A c \in Chairs : Len(hands[c]) = Len(g.hands[c])
        /\ \A c \in Chairs : \A u : CardCount(hands[c], u) = CardCount(g.hands[c], u)
    BY Zenon DEF SameTiles
  <1>3. /\ Kept(g, s) /\ s.hands = hands /\ s.deck = g.deck /\ s.cur = g.cur
        /\ s.record = g.record /\ s.ops = g.ops /\ s.late = g.late
        /\ s.turnLost = g.turnLost /\ s.turnTask = g.turnTask
        /\ s.claimTask = g.claimTask /\ s.gang = g.gang /\ s.status = g.status
        /\ s.ends = g.ends /\ s.settled = g.settled /\ s.trustTask = g.trustTask
        /\ s.winner = g.winner /\ s.down = g.down
    BY <1>1 DEF Fields, Kept
  <1>4. FourOfEach(hands, g.deck)
    <2>1. FourOfEach(g.hands, g.deck)
      BY <1>1 DEF Live
    <2>2. \A c \in Chairs : \A u \in Kinds : CardCount(hands[c], u) <= CardCount(g.hands[c], u)
      <3>1. \A c \in Chairs : \A u \in Kinds : CardCount(g.hands[c], u) \in Nat
        BY <1>1, PlacesFinite
      <3>. SUFFICES ASSUME NEW c \in Chairs, NEW u \in Kinds
                    PROVE  CardCount(hands[c], u) <= CardCount(g.hands[c], u)
        OBVIOUS
      <3>2. CardCount(hands[c], u) = CardCount(g.hands[c], u) /\ CardCount(g.hands[c], u) \in Nat
        BY <1>2, <3>1, Zenon
      <3>. QED  BY <3>2
    <2>. DEFINE H == g.hands
                D == g.deck
    <2>3. H \in [Chairs -> Seq(Kinds)] /\ D \in Seq(Kinds) /\ FourOfEach(H, D)
          /\ \A c \in Chairs : \A u \in Kinds : CardCount(hands[c], u) <= CardCount(H[c], u)
      BY <1>1, <2>1, <2>2
    <2>. HIDE DEF H, D
    <2>4. FourOfEach(hands, D)
      BY <1>2, <2>3, FewerAreFair
    <2>. QED  BY <2>4 DEF D
  <1>5. Typed(s)
    BY <1>1, <1>2, <1>3 DEF Typed, Kept
  <1>6. Live(s)
    BY <1>1, <1>3, <1>4, <1>5 DEF Live, Kept, NoWins, EndedOnGang
  <1>7. Even(s) /\ Nobody(s)
    <2>1. Even(g) /\ Nobody(g)
      BY DEF ToPass
    <2>2. Even(s)
      <3>1. s.hands = hands /\ s.status = g.status
        BY <1>3
      <3>. SUFFICES ASSUME g.status = "Playing", NEW c \in Chairs
                    PROVE  Len(hands[c]) % 3 = 1
        BY <3>1 DEF Even
      <3>2. Len(g.hands[c]) % 3 = 1
        BY <2>1, Zenon DEF Even
      <3>3. Len(hands[c]) = Len(g.hands[c])
        BY <1>2, Zenon
      <3>. QED  BY <3>2, <3>3, Zenon
    <2>3. Nobody(s)
      BY <1>3, <2>1, Zenon DEF Nobody
    <2>. QED  BY <2>2, <2>3
  <1>8. \A a, b \in Chairs \ {s.cur} : a # b =>
          CardCount(s.hands[a], t) + CardCount(s.hands[b], t) <= 3
    <2>1. \A a, b \in Chairs \ {g.cur} : a # b =>
            CardCount(g.hands[a], t) + CardCount(g.hands[b], t) <= 3
      BY DEF ToPass
    <2>2. \A a \in Chairs : CardCount(s.hands[a], t) = CardCount(g.hands[a], t)
      <3>1. s.hands = hands
        BY <1>3
      <3>2. \A a \in Chairs : CardCount(hands[a], t) = CardCount(g.hands[a], t)
        BY <1>2, Zenon
      <3>. QED  BY <3>1, <3>2
    <2>. QED  BY <1>3, <2>1, <2>2
  <1>. QED  BY <1>3, <1>6, <1>7, <1>8 DEF ToPass

\* Two players together have three of a discarded tile at most: one may claim it.
LEMMA OneMayClaim ==
    ASSUME NEW g, NEW t, ToPass(g, t), NEW offers,
           offers = [c \in Chairs \ {g.cur} |-> OperateArray(g, c, t)],
           NEW a \in Chairs \ {g.cur}, offers[a] # {}
    PROVE  /\ "Guo" \in offers[a] /\ offers[a] \subseteq ClaimActs
           /\ CardCount(g.hands[a], t) >= 2
           /\ "GangChi" \in offers[a] => CardCount(g.hands[a], t) >= 3
           /\ \A b \in Chairs \ {g.cur} : b # a => offers[b] = {}
  <1>1. g.gang = Off /\ \A c \in Chairs : CardCount(g.hands[c], t) \in Nat
    <2>1. g.gang = Off /\ g.hands \in [Chairs -> Seq(Kinds)]
      BY DEF ToPass, Live, Typed
    <2>. QED  BY <2>1, PlacesFinite
  <1>2. ASSUME NEW c \in Chairs \ {g.cur}, offers[c] # {}
        PROVE  /\ "Guo" \in offers[c] /\ offers[c] \subseteq ClaimActs
               /\ CardCount(g.hands[c], t) >= 2
               /\ "GangChi" \in offers[c] => CardCount(g.hands[c], t) >= 3
    <2>. DEFINE offer == offers[c]
    <2>1. offer = OperateArray(g, c, t) /\ offer # {} /\ CardCount(g.hands[c], t) \in Nat
      BY <1>1, <1>2
    <2>. HIDE DEF offer
    <2>2. /\ "Guo" \in offer /\ offer \subseteq ClaimActs /\ CardCount(g.hands[c], t) >= 2
          /\ "GangChi" \in offer => CardCount(g.hands[c], t) >= 3
      BY <1>1, <2>1, OffersOfClaim
    <2>. QED  BY <2>2 DEF offer
  <1>3. ASSUME NEW b \in Chairs \ {g.cur}, b # a, offers[b] # {}
        PROVE  FALSE
    <2>. DEFINE x == CardCount(g.hands[a], t)
                y == CardCount(g.hands[b], t)
    <2>1. x >= 2 /\ y >= 2 /\ x \in Nat /\ y \in Nat
      BY <1>1, <1>2, <1>3
    <2>2. x + y <= 3
      BY <1>3 DEF ToPass
    <2>. HIDE DEF x, y
    <2>. QED  BY <2>1, <2>2
  <1>. QED  BY <1>2, <1>3

\* Claims are opened for one player, or the turn passes.
LEMMA ClaimsAreOpened ==
    ASSUME NEW g, NEW old, NEW t, NEW s, ToPass(g, t), ToPass(s, t), s.cur = g.cur,
           \A c \in Chairs : CardCount(s.hands[c], t) = CardCount(g.hands[c], t),
           NEW offers, offers = [c \in Chairs \ {g.cur} |-> OperateArray(g, c, t)],
           NEW h \in Opened(s, old, offers)
    PROVE  Good(h)
  <1>0. ASSUME NEW a \in Chairs \ {g.cur}, offers[a] # {}
        PROVE  /\ "Guo" \in offers[a] /\ offers[a] \subseteq ClaimActs
               /\ CardCount(g.hands[a], t) >= 2
               /\ "GangChi" \in offers[a] => CardCount(g.hands[a], t) >= 3
               /\ \A b \in Chairs \ {g.cur} : b # a => offers[b] = {}
    BY ONLY ToPass(g, t), offers = [c \in Chairs \ {g.cur} |-> OperateArray(g, c, t)],
            <1>0, OneMayClaim
  <1>. DEFINE claims == {c \in DOMAIN offers : offers[c] # {}}
              ops == [c \in Chairs |-> IF c \in claims THEN offers[c] ELSE s.ops[c]]
              autos == s.autos \cup (claims \cap s.trust)
              claimTask == s.claimTask \cup claims
  <1>1. h \in (IF claims = {} THEN SetTurn(s, old, After(s.cur))
               ELSE {[s EXCEPT !.ops = ops, !.claimTask = claimTask, !.autos = autos]})
    BY Zenon DEF Opened
  <1>2. /\ Live(s) /\ s.cur \in Chairs /\ Nobody(s) /\ Even(s)
        /\ s.record # <<>> /\ LastOf(s.record).operate = "Qi"
        /\ t \in Kinds /\ LastOf(s.record).card = t
        /\ Len(s.deck) >= Ma /\ s.turnTask = Off /\ Typed(s) /\ DOMAIN s = Fields
    BY DEF ToPass, Live, Typed
  <1>3. CASE claims = {}
    <2>. DEFINE next == After(s.cur)
    <2>1. h \in SetTurn(s, old, next)
      BY <1>1, <1>3
    <2>2. next \in Chairs
      BY <1>2, AfterIsChair
    <2>. HIDE DEF next
    <2>3. ToDraw(s, next)
      BY <1>2, <2>2 DEF ToDraw, Nobody, Only
    <2>. QED  BY <2>1, <2>3, TurnIsSet
  <1>4. CASE claims # {}
    <2>1. h = [s EXCEPT !.ops = ops, !.claimTask = claimTask, !.autos = autos]
      BY <1>1, <1>4
    <2>2. PICK a \in claims : TRUE
      BY <1>4
    <2>3. a \in Chairs \ {g.cur} /\ offers[a] # {}
      BY <2>2
    <2>4. /\ "Guo" \in offers[a] /\ offers[a] \subseteq ClaimActs
          /\ CardCount(g.hands[a], t) >= 2
          /\ "GangChi" \in offers[a] => CardCount(g.hands[a], t) >= 3
          /\ \A b \in Chairs \ {g.cur} : b # a => offers[b] = {}
      BY <2>3, <1>0
    <2>5. claims = {a}
      <3>1. DOMAIN offers = Chairs \ {g.cur}
        OBVIOUS
      <3>2. \A b \in DOMAIN offers : offers[b] # {} <=> b = a
        BY <2>3, <2>4, <3>1
      <3>. QED  BY <2>2, <3>2
    <2>. HIDE DEF claims
    <2>6. /\ claimTask = {a} /\ ops[a] = offers[a]
          /\ \A d \in Chairs \ {a} : ops[d] = {}
          /\ ops \in [Chairs -> SUBSET OperateType]
      <3>1. s.claimTask = {} /\ \A d \in Chairs : s.ops[d] = {}
        BY <1>2 DEF Nobody
      <3>2. offers[a] \in SUBSET OperateType
        BY <2>4 DEF ClaimActs, OperateType
      <3>. QED  BY <2>3, <2>5, <3>1, <3>2
    <2>. HIDE DEF claimTask, ops, autos
    <2>7. /\ Kept(s, h) /\ h.hands = s.hands /\ h.deck = s.deck /\ h.cur = s.cur
          /\ h.record = s.record /\ h.ops = ops /\ h.late = s.late
          /\ h.turnLost = s.turnLost /\ h.turnTask = s.turnTask
          /\ h.claimTask = claimTask /\ h.gang = s.gang /\ h.status = s.status
          /\ h.ends = s.ends /\ h.settled = s.settled /\ h.trustTask = s.trustTask
          /\ h.winner = s.winner /\ h.down = s.down
      BY <1>2, <2>1 DEF Fields, Kept
    <2>8. Typed(h)
      <3>1. Typed(s)
        BY <1>2
      <3>2. ops \in [Chairs -> SUBSET OperateType]
        BY <2>6, Zenon
      <3>. QED  BY <2>7, <3>1, <3>2, Zenon DEF Typed, Kept
    <2>9. Live(h)
      BY <1>2, <2>7, <2>8 DEF Live, Kept, NoWins, EndedOnGang
    <2>10. Open(h)
      BY <1>2, <2>7, <2>9 DEF Open
    <2>11. Claims(h, a) /\ Even(h)
      <3>1. Claims(h, a)
        BY <2>4, <2>6, <2>7, Zenon DEF Claims, Only
      <3>2. Even(h)
        BY <1>2, <2>7, Zenon DEF Even
      <3>. QED  BY <3>1, <3>2
    <2>12. CardCount(h.hands[a], t) = CardCount(g.hands[a], t)
      BY <2>3, <2>7, Zenon
    <2>13. ClaimOpen(h, a)
      <3>. DEFINE n == CardCount(h.hands[a], t)
      <3>1. n >= 2 /\ ("GangChi" \in h.ops[a] => n >= 3)
        BY <2>4, <2>6, <2>7, <2>12
      <3>2. LastOf(h.record).card = t /\ LastOf(h.record).operate = "Qi" /\ t \in Kinds
        BY <1>2, <2>7
      <3>3. h.claimTask = {a} /\ h.turnTask = Off /\ a \in Chairs /\ a # h.cur
        BY <1>2, <2>3, <2>6, <2>7
      <3>. QED  BY <2>10, <2>11, <3>1, <3>2, <3>3, Zenon DEF ClaimOpen
    <2>. QED  BY <2>3, <2>13 DEF Good
  <1>. QED  BY <1>3, <1>4

\* What nextTurn leads to.
LEMMA TurnPasses ==
    ASSUME NEW g, NEW old, NEW t, ToPass(g, t), NEW h \in NextTurn(g, old, t)
    PROVE  Good(h)
  <1>. DEFINE others == Chairs \ {g.cur}
              hands == [c \in Chairs |-> IF c \in others THEN Sorted(g.hands[c]) ELSE g.hands[c]]
              s == [g EXCEPT !.hands = hands]
              offers == [c \in others |-> OperateArray(g, c, t)]
  <1>1. h \in Opened(s, old, offers)
    <2>1. h \in UNION {Opened(s, old, of) : of \in {offers}}
      BY Zenon DEF NextTurn
    <2>. HIDE DEF s, offers
    <2>. QED  BY <2>1
  <1>2. SameTiles(g.hands, hands)
    <2>. DEFINE H == g.hands
    <2>1. H \in [Chairs -> Seq(Kinds)]
      BY DEF ToPass, Live, Typed
    <2>2. hands = [c \in Chairs |-> IF c \in others THEN Sorted(H[c]) ELSE H[c]]
      OBVIOUS
    <2>. HIDE DEF H, hands, others
    <2>3. SameTiles(H, hands)
      BY <2>1, <2>2, HandsAreSorted
    <2>. QED  BY <2>3 DEF H
  <1>. HIDE DEF hands
  <1>3. ToPass(s, t) /\ s.cur = g.cur /\ s.hands = hands
    <2>1. DOMAIN g = Fields
      BY DEF ToPass, Live, Typed
    <2>2. s.hands = hands
      BY <2>1 DEF Fields
    <2>3. s = [g EXCEPT !.hands = hands]
      OBVIOUS
    <2>. HIDE DEF s
    <2>4. ToPass(s, t) /\ s.cur = g.cur
      BY <1>2, <2>3, SortedPasses
    <2>. QED  BY <2>2, <2>4
  <1>5. \A c \in Chairs : CardCount(s.hands[c], t) = CardCount(g.hands[c], t)
    <2>1. \A c \in Chairs : CardCount(hands[c], t) = CardCount(g.hands[c], t)
      BY <1>2, Zenon DEF SameTiles
    <2>. HIDE DEF s
    <2>. QED  BY <1>3, <2>1
  <1>4. offers = [c \in Chairs \ {g.cur} |-> OperateArray(g, c, t)]
    OBVIOUS
  <1>. HIDE DEF s, offers, hands
  <1>. QED  BY <1>1, <1>3, <1>4, <1>5, ClaimsAreOpened

-----------------------------------------------------------------------------
(* Acts. *)

\* What an act of a player leaves alone.
SameBureau(g, h) ==
    /\ Kept(g, h) /\ h.deck = g.deck /\ h.status = g.status /\ h.ends = g.ends
    /\ h.settled = g.settled /\ h.trustTask = g.trustTask /\ h.winner = g.winner
    /\ h.down = g.down /\ h.late = g.late /\ h.turnLost = g.turnLost

Plain(o) == o \in OperateType \ {"Get", "HuZi", "HuChi"}

\* A bureau goes on, and its last entry is an act.
GoesOn(h, o, t) ==
    /\ Live(h) /\ Len(h.deck) >= Ma /\ h.record # <<>>
    /\ LastOf(h.record).operate = o /\ LastOf(h.record).card = t
    /\ o \in {"GangChi", "GangZi"} => EndedOnGang(h)

\* A bureau goes on after an act that is no win.
LEMMA ActKeepsLive ==
    ASSUME NEW g, Live(g), Len(g.deck) >= Ma, NEW h, SameBureau(g, h), h.gang = Off,
           Fair(h.hands, h.deck), h.ops \in [Chairs -> SUBSET OperateType],
           NEW c, NEW o, Plain(o), NEW t, Noted(g, h, c, o, t)
    PROVE  GoesOn(h, o, t)
  <1>1. Typed(h)
    BY Zenon DEF Live, Typed, Kept, SameBureau, Noted, Fair
  <1>2. NoWins(h) /\ (EndedOnGang(g) => EndedOnGang(h)) /\ FourOfEach(h.hands, h.deck)
    BY DEF Live, Noted, Fair, Plain
  <1>3. Live(h)
    BY <1>1, <1>2, Zenon DEF Live, Kept, SameBureau
  <1>. QED  BY <1>3, Zenon DEF GoesOn, Noted, SameBureau

\* The record is all that an entry changes.
Entered(g, put, c, o, t) ==
    /\ DOMAIN put = Fields /\ SameBureau(g, put)
    /\ put.record = Append(g.record, [chair |-> c, operate |-> o, card |-> t])
    /\ put.hands = g.hands /\ put.ops = g.ops /\ put.cur = g.cur /\ put.gang = g.gang
    /\ put.claimTask = g.claimTask /\ put.autos = g.autos /\ put.turnTask = g.turnTask
    /\ put.trust = g.trust

\* An entry in the record changes nothing else.
LEMMA EntryIs ==
    ASSUME NEW g, DOMAIN g = Fields, NEW c, NEW o, NEW t, NEW put, put = Recorded(g, c, o, t)
    PROVE  Entered(g, put, c, o, t)
  <1>. DEFINE record == Append(g.record, [chair |-> c, operate |-> o, card |-> t])
  <1>1. put = [g EXCEPT !.record = record]
    BY Zenon DEF Recorded
  <1>. HIDE DEF record
  <1>2. /\ DOMAIN put = Fields /\ SameBureau(g, put) /\ put.record = record
        /\ put.hands = g.hands /\ put.ops = g.ops /\ put.cur = g.cur /\ put.gang = g.gang
        /\ put.claimTask = g.claimTask /\ put.autos = g.autos /\ put.turnTask = g.turnTask
        /\ put.trust = g.trust
    BY <1>1 DEF Fields, SameBureau, Kept
  <1>. QED  BY <1>2 DEF Entered, record

\* A claim that is open, by what there is of it.
LEMMA ClaimHas ==
    ASSUME NEW g, NEW c, ClaimOpen(g, c)
    PROVE  /\ Live(g) /\ Typed(g) /\ DOMAIN g = Fields /\ g.record \in Seq(OperateRecord)
           /\ g.hands \in [Chairs -> Seq(Kinds)] /\ g.ops \in [Chairs -> SUBSET OperateType]
           /\ Fair(g.hands, g.deck) /\ g.gang = Off /\ Len(g.deck) >= Ma /\ g.record # <<>>
           /\ c \in Chairs /\ g.cur \in Chairs /\ c # g.cur /\ Claims(g, c) /\ Even(g)
           /\ LastOf(g.record).card \in Kinds
           /\ g.claimTask \ {c} = {}
           /\ \A u \in Kinds : CardCount(g.hands[c], u) \in Nat /\ CardCount(g.hands[c], u) <= 4
  <1>1. /\ Live(g) /\ Typed(g) /\ DOMAIN g = Fields /\ g.record \in Seq(OperateRecord)
        /\ g.hands \in [Chairs -> Seq(Kinds)] /\ g.ops \in [Chairs -> SUBSET OperateType]
        /\ g.deck \in Seq(Kinds) /\ FourOfEach(g.hands, g.deck) /\ g.gang = Off
        /\ Len(g.deck) >= Ma /\ g.record # <<>>
    BY DEF ClaimOpen, Open, Live, Typed
  <1>2. /\ c \in Chairs /\ g.cur \in Chairs /\ c # g.cur /\ Claims(g, c) /\ Even(g)
        /\ LastOf(g.record).card \in Kinds /\ g.claimTask \ {c} = {}
    BY DEF ClaimOpen, Open
  <1>3. \A u \in Kinds : CardCount(g.hands[c], u) \in Nat /\ CardCount(g.deck, u) \in Nat
    BY <1>1, <1>2, PlacesFinite
  <1>4. \A u \in Kinds : CardCount(g.hands[c], u) + CardCount(g.deck, u) <= 4
    BY <1>1, <1>2 DEF FourOfEach
  <1>5. \A u \in Kinds : CardCount(g.hands[c], u) <= 4
    <2>. SUFFICES ASSUME NEW u \in Kinds
                  PROVE  CardCount(g.hands[c], u) <= 4
      OBVIOUS
    <2>. DEFINE x == CardCount(g.hands[c], u)
                y == CardCount(g.deck, u)
    <2>1. x \in Nat /\ y \in Nat /\ x + y <= 4
      BY <1>3, <1>4
    <2>. HIDE DEF x, y
    <2>2. x <= 4
      BY <2>1
    <2>. QED  BY <2>2 DEF x
  <1>. QED  BY <1>1, <1>2, <1>3, <1>5 DEF Fair

\* A pair is taken, and its player has the turn.
LEMMA PengGoes ==
    ASSUME NEW g, NEW c, ClaimOpen(g, c), NEW t \in Kinds, NEW h \in OnPeng(g, c, t)
    PROVE  Good(h)
  <1>1. /\ Live(g) /\ Typed(g) /\ DOMAIN g = Fields /\ g.record \in Seq(OperateRecord)
        /\ g.hands \in [Chairs -> Seq(Kinds)] /\ g.ops \in [Chairs -> SUBSET OperateType]
        /\ Fair(g.hands, g.deck) /\ g.gang = Off /\ Len(g.deck) >= Ma /\ g.record # <<>>
        /\ c \in Chairs /\ g.cur \in Chairs /\ c # g.cur /\ Claims(g, c) /\ Even(g)
        /\ g.claimTask \ {c} = {}
        /\ \A u \in Kinds : CardCount(g.hands[c], u) \in Nat /\ CardCount(g.hands[c], u) <= 4
    BY ClaimHas, Zenon
  <1>2. CASE CardCount(g.hands[c], t) < 2
    <2>1. h = g
      BY <1>2 DEF OnPeng
    <2>. QED  BY <1>1, <2>1 DEF Good
  <1>3. CASE ~(CardCount(g.hands[c], t) < 2)
    <2>. DEFINE put == Recorded(g, c, "Peng", t)
                hands == [g.hands EXCEPT ![c] = DelCard(g.hands[c], t, 2)]
                ops == [g.ops EXCEPT ![c] = {"Qi"}]
                autos == IF c \in g.trust THEN g.autos \cup {c} ELSE g.autos
                claimTask == g.claimTask \ {c}
    <2>1. Entered(g, put, c, "Peng", t)
      BY <1>1, EntryIs
    <2>2. h = [put EXCEPT !.claimTask = claimTask, !.hands = hands, !.ops = ops, !.cur = c,
                          !.autos = autos]
      <3>1. h \in {[put EXCEPT
                     !.claimTask = @ \ {c}, !.hands[c] = DelCard(@, t, 2),
                     !.ops[c] = {"Qi"}, !.cur = c,
                     !.autos = IF c \in g.trust THEN @ \cup {c} ELSE @]}
        BY <1>3, Zenon DEF OnPeng
      <3>2. /\ put.hands = g.hands /\ put.ops = g.ops /\ put.claimTask = g.claimTask
            /\ put.autos = g.autos
        BY <2>1 DEF Entered
      <3>. HIDE DEF put
      <3>. QED  BY <3>1, <3>2, Zenon
    <2>. HIDE DEF put
    <2>3. Fair(hands, g.deck) /\ Fewer(g.hands, c, t, 2, hands)
      <3>1. CardCount(g.hands[c], t) >= 2
        <4>. DEFINE x == CardCount(g.hands[c], t)
        <4>1. x \in Nat /\ ~(x < 2)
          BY <1>1, <1>3
        <4>. HIDE DEF x
        <4>2. x >= 2
          BY <4>1
        <4>. QED  BY <4>2 DEF x
      <3>. DEFINE H == g.hands
      <3>2. Fair(H, g.deck) /\ CardCount(H[c], t) >= 2 /\ hands = [H EXCEPT ![c] = DelCard(H[c], t, 2)]
        BY <1>1, <3>1
      <3>. HIDE DEF H, hands
      <3>3. Fair(hands, g.deck) /\ Fewer(H, c, t, 2, hands)
        <4>1. 2 \in 1 .. 4
          OBVIOUS
        <4>. QED  BY <1>1, <3>2, <4>1, TakenIsFair, Zenon
      <3>. QED  BY <3>3 DEF H
    <2>4. ops \in [Chairs -> SUBSET OperateType] /\ ops[c] = {"Qi"}
          /\ \A d \in Chairs \ {c} : ops[d] = {}
      BY <1>1 DEF OperateType, Claims, Only
    <2>5. claimTask = {}
      BY <1>1
    <2>. HIDE DEF hands, ops, autos, claimTask
    <2>6. /\ SameBureau(g, h) /\ h.hands = hands /\ h.ops = ops /\ h.cur = c /\ h.gang = g.gang
          /\ h.record = Append(g.record, [chair |-> c, operate |-> "Peng", card |-> t])
          /\ h.claimTask = {}
      BY <2>1, <2>2, <2>5 DEF Entered, SameBureau, Kept, Fields
    <2>7. Noted(g, h, c, "Peng", t)
      <3>1. "Peng" \in OperateType /\ t \in Cards
        BY KindsAreCards DEF OperateType
      <3>. QED  BY <1>1, <2>6, <3>1, RecordingIs
    <2>8. GoesOn(h, "Peng", t)
      <3>1. Plain("Peng")
        BY DEF OperateType, Plain
      <3>2. h.gang = Off /\ Fair(h.hands, h.deck) /\ h.ops \in [Chairs -> SUBSET OperateType]
        BY <1>1, <2>3, <2>4, <2>6 DEF SameBureau
      <3>. QED  BY <1>1, <2>6, <2>7, <3>1, <3>2, ActKeepsLive
    <2>9. Own(h, c)
      BY <2>4, <2>6 DEF Own, Only, TurnActs
    <2>10. ASSUME h.status = "Playing"
           PROVE  Ahead(h, c)
      <3>1. Lengths(g.hands, c, 1)
        BY <1>1, <2>6, <2>10, Zenon DEF Even, SameBureau, Lengths
      <3>3. Lengths(hands, c, 2)
        BY <1>1, <2>3, <3>1, EvenLeft, Zenon
      <3>. QED  BY <2>6, <3>3, Zenon DEF Ahead, Lengths
    <2>11. Turn(h)
      BY <1>1, <2>4, <2>6, <2>8, <2>9, <2>10 DEF Turn, Open, GoesOn
    <2>. QED  BY <2>8, <2>11 DEF TurnOpen, Timed, Good, GoesOn
  <1>. QED  BY <1>2, <1>3

\* What an act that takes n tiles from a hand does to a bureau that goes on.
Takes(g, h, c, o, t, n) ==
    /\ SameBureau(g, h) /\ h.gang = Off
    /\ h.record = Append(g.record, [chair |-> c, operate |-> o, card |-> t])
    /\ h.hands = [g.hands EXCEPT ![c] = DelCard(g.hands[c], t, n)]
    /\ h.ops \in [Chairs -> SUBSET OperateType]

\* An act that takes tiles is put down, and the bureau goes on.
LEMMA ActIsTaken ==
    ASSUME NEW g, Live(g), Len(g.deck) >= Ma, NEW c \in Chairs, NEW t \in Kinds, NEW o, Plain(o),
           NEW n \in 1 .. 4, CardCount(g.hands[c], t) >= n, NEW h, Takes(g, h, c, o, t, n)
    PROVE  GoesOn(h, o, t) /\ Noted(g, h, c, o, t) /\ Fewer(g.hands, c, t, n, h.hands)
  <1>1. g.record \in Seq(OperateRecord) /\ Fair(g.hands, g.deck)
    BY DEF Live, Typed, Fair
  <1>2. /\ SameBureau(g, h) /\ h.gang = Off
        /\ h.record = Append(g.record, [chair |-> c, operate |-> o, card |-> t])
        /\ h.ops \in [Chairs -> SUBSET OperateType] /\ h.deck = g.deck
    BY DEF Takes, SameBureau
  <1>3. Fair(h.hands, g.deck) /\ Fewer(g.hands, c, t, n, h.hands)
    <2>. DEFINE H == g.hands
                new == h.hands
    <2>1. Fair(H, g.deck) /\ CardCount(H[c], t) >= n /\ new = [H EXCEPT ![c] = DelCard(H[c], t, n)]
      BY <1>1, Zenon DEF Takes
    <2>. HIDE DEF H, new
    <2>2. Fair(new, g.deck) /\ Fewer(H, c, t, n, new)
      BY <2>1, TakenIsFair, Zenon
    <2>. QED  BY <2>2 DEF H, new
  <1>4. Noted(g, h, c, o, t)
    <2>1. o \in OperateType /\ t \in Cards
      BY KindsAreCards DEF Plain
    <2>. QED  BY <1>1, <1>2, <2>1, RecordingIs
  <1>5. GoesOn(h, o, t)
    <2>1. Fair(h.hands, h.deck)
      BY <1>2, <1>3
    <2>. QED  BY <1>2, <1>4, <2>1, ActKeepsLive
  <1>. QED  BY <1>3, <1>4, <1>5

\* Four of a kind with a discarded tile.
LEMMA GangChiGoes ==
    ASSUME NEW g, NEW c, ClaimOpen(g, c), NEW t \in Kinds, NEW old,
           NEW h \in OnGangChi(g, old, c, t)
    PROVE  Good(h)
  <1>1. /\ Live(g) /\ Typed(g) /\ DOMAIN g = Fields /\ g.record \in Seq(OperateRecord)
        /\ g.hands \in [Chairs -> Seq(Kinds)] /\ g.ops \in [Chairs -> SUBSET OperateType]
        /\ Fair(g.hands, g.deck) /\ g.gang = Off /\ Len(g.deck) >= Ma /\ g.record # <<>>
        /\ c \in Chairs /\ g.cur \in Chairs /\ c # g.cur /\ Claims(g, c) /\ Even(g)
        /\ g.claimTask \ {c} = {}
        /\ \A u \in Kinds : CardCount(g.hands[c], u) \in Nat /\ CardCount(g.hands[c], u) <= 4
    BY ClaimHas, Zenon
  <1>2. CASE CardCount(g.hands[c], t) < 3
    <2>1. h = g
      BY <1>2 DEF OnGangChi
    <2>. QED  BY <1>1, <2>1 DEF Good
  <1>3. CASE ~(CardCount(g.hands[c], t) < 3)
    <2>. DEFINE put == Recorded(g, c, "GangChi", t)
                hands == [g.hands EXCEPT ![c] = DelCard(g.hands[c], t, 3)]
                claimTask == g.claimTask \ {c}
                x == CardCount(g.hands[c], t)
                q == [put EXCEPT !.claimTask = claimTask, !.hands = hands]
    <2>1. Entered(g, put, c, "GangChi", t)
      BY <1>1, EntryIs
    <2>2. h \in SetTurn(q, old, c)
      <3>1. h \in UNION {SetTurn(a, old, c) :
               a \in {[put EXCEPT !.claimTask = @ \ {c}, !.hands[c] = DelCard(@, t, 3)]}}
        BY <1>3, Zenon DEF OnGangChi
      <3>2. put.hands = g.hands /\ put.claimTask = g.claimTask
        BY <2>1 DEF Entered
      <3>3. q = [put EXCEPT !.claimTask = @ \ {c}, !.hands[c] = DelCard(@, t, 3)]
        <4>. HIDE DEF put
        <4>. QED  BY <3>2, Zenon
      <3>. HIDE DEF put, q
      <3>. QED  BY <3>1, <3>3
    <2>. HIDE DEF put
    <2>3. x \in Nat /\ x <= 4 /\ ~(x < 3)
      BY <1>1, <1>3
    <2>4. claimTask = {}
      BY <1>1
    <2>. HIDE DEF x, hands, claimTask
    <2>5. x >= 3
      BY <2>3
    <2>6. /\ SameBureau(g, q) /\ q.hands = hands /\ q.ops = g.ops /\ q.cur = g.cur /\ q.gang = g.gang
          /\ q.record = Append(g.record, [chair |-> c, operate |-> "GangChi", card |-> t])
          /\ q.claimTask = {}
      BY <2>1, <2>4 DEF Entered, SameBureau, Kept, Fields
    <2>. HIDE DEF q
    <2>7. Takes(g, q, c, "GangChi", t, 3)
      BY <1>1, <2>6 DEF Takes, hands
    <2>8. GoesOn(q, "GangChi", t) /\ Fewer(g.hands, c, t, 3, q.hands)
      <3>1. Plain("GangChi") /\ 3 \in 1 .. 4 /\ CardCount(g.hands[c], t) >= 3
        BY <2>5 DEF OperateType, Plain, x
      <3>. QED  BY <1>1, <2>7, <3>1, ActIsTaken, Zenon
    <2>9. ToDraw(q, c)
      <3>1. Only(q, c) /\ q.cur # c /\ "Guo" \in q.ops[c] /\ q.ops[c] \subseteq ClaimActs
        BY <1>1, <2>6 DEF Claims, Only
      <3>2. CardCount(q.hands[c], t) <= 1
        <4>. DEFINE y == CardCount(q.hands[c], t)
        <4>1. y = x - 3
          BY <2>8 DEF Fewer, x
        <4>. HIDE DEF y
        <4>2. y <= 1
          BY <2>3, <4>1
        <4>. QED  BY <4>2 DEF y
      <3>3. StillOpen(q, c)
        BY <1>1, <2>6, <2>8, <3>1, <3>2 DEF StillOpen, GoesOn
      <3>4. Even(q)
        <4>. SUFFICES ASSUME q.status = "Playing"
                      PROVE  \A d \in Chairs : Len(q.hands[d]) % 3 = 1
          BY DEF Even
        <4>1. Lengths(g.hands, c, 1)
          BY <1>1, <2>6, Zenon DEF Even, SameBureau, Lengths
        <4>3. Lengths(q.hands, c, 1)
          BY <1>1, <2>8, <4>1, EvenLeft, Zenon
        <4>. QED  BY <4>3, Zenon DEF Lengths
      <3>. QED  BY <1>1, <2>6, <2>8, <3>1, <3>3, <3>4 DEF ToDraw, GoesOn
    <2>. QED  BY <2>2, <2>9, TurnIsSet
  <1>. QED  BY <1>2, <1>3

\* The bureau of who passed a claim.
Passed(g, c, t) == [Recorded(g, c, "Guo", t) EXCEPT !.claimTask = @ \ {c}, !.ops[c] = {}]

\* A claim is passed or given up, and the next player draws.
LEMMA GuoGoes ==
    ASSUME NEW g, NEW c, ClaimOpen(g, c), NEW t \in Cards, NEW old,
           NEW h \in SetTurn(Passed(g, c, t), old, After(g.cur))
    PROVE  Good(h)
  <1>1. /\ Live(g) /\ Typed(g) /\ DOMAIN g = Fields /\ g.record \in Seq(OperateRecord)
        /\ g.hands \in [Chairs -> Seq(Kinds)] /\ g.ops \in [Chairs -> SUBSET OperateType]
        /\ Fair(g.hands, g.deck) /\ g.gang = Off /\ Len(g.deck) >= Ma /\ g.record # <<>>
        /\ c \in Chairs /\ g.cur \in Chairs /\ c # g.cur /\ Claims(g, c) /\ Even(g)
        /\ g.claimTask \ {c} = {}
    BY ClaimHas, Zenon
  <1>. DEFINE put == Recorded(g, c, "Guo", t)
              ops == [g.ops EXCEPT ![c] = {}]
              claimTask == g.claimTask \ {c}
              next == After(g.cur)
              q == [put EXCEPT !.claimTask = claimTask, !.ops = ops]
  <1>2. Entered(g, put, c, "Guo", t)
    BY <1>1, EntryIs
  <1>3. h \in SetTurn(q, old, next)
    <2>1. Passed(g, c, t) = [put EXCEPT !.claimTask = @ \ {c}, !.ops[c] = {}]
      BY Zenon DEF Passed
    <2>2. put.ops = g.ops /\ put.claimTask = g.claimTask
      BY <1>2 DEF Entered
    <2>3. q = [put EXCEPT !.claimTask = @ \ {c}, !.ops[c] = {}]
      <3>. HIDE DEF put
      <3>. QED  BY <2>2, Zenon
    <2>. HIDE DEF put, q
    <2>. QED  BY <2>1, <2>3
  <1>. HIDE DEF put
  <1>4. claimTask = {} /\ next \in Chairs
    BY <1>1, AfterIsChair
  <1>5. ops \in [Chairs -> SUBSET OperateType] /\ \A d \in Chairs : ops[d] = {}
    BY <1>1 DEF Claims, Only
  <1>. HIDE DEF ops, claimTask, next
  <1>6. /\ SameBureau(g, q) /\ q.hands = g.hands /\ q.ops = ops /\ q.cur = g.cur
        /\ q.gang = g.gang /\ q.claimTask = {}
        /\ q.record = Append(g.record, [chair |-> c, operate |-> "Guo", card |-> t])
    BY <1>2, <1>4 DEF Entered, SameBureau, Kept, Fields
  <1>. HIDE DEF q
  <1>7. Noted(g, q, c, "Guo", t)
    <2>1. "Guo" \in OperateType
      BY DEF OperateType
    <2>. QED  BY <1>1, <1>6, <2>1, RecordingIs
  <1>8. GoesOn(q, "Guo", t)
    <2>1. Plain("Guo")
      BY DEF OperateType, Plain
    <2>2. q.gang = Off /\ Fair(q.hands, q.deck) /\ q.ops \in [Chairs -> SUBSET OperateType]
      BY <1>1, <1>5, <1>6 DEF SameBureau
    <2>. QED  BY <1>1, <1>6, <1>7, <2>1, <2>2, ActKeepsLive
  <1>9. ToDraw(q, next)
    <2>1. Even(q)
      BY <1>1, <1>6, Zenon DEF Even, SameBureau
    <2>. QED  BY <1>4, <1>5, <1>6, <1>8, <2>1 DEF ToDraw, Only, GoesOn
  <1>. QED  BY <1>3, <1>9, TurnIsSet

\* A turn that is open, by what there is of it.
LEMMA TurnHas ==
    ASSUME NEW g, Turn(g)
    PROVE  /\ Live(g) /\ Typed(g) /\ DOMAIN g = Fields /\ g.record \in Seq(OperateRecord)
           /\ g.hands \in [Chairs -> Seq(Kinds)] /\ g.ops \in [Chairs -> SUBSET OperateType]
           /\ Fair(g.hands, g.deck) /\ g.gang = Off /\ Len(g.deck) >= Ma /\ g.record # <<>>
           /\ g.cur \in Chairs /\ Own(g, g.cur) /\ g.claimTask = {}
           /\ g.status = "Playing" => Lengths(g.hands, g.cur, 2)
           /\ \A c \in Chairs : \A u : CardCount(g.hands[c], u) \in Nat
  <1>1. /\ Live(g) /\ Typed(g) /\ DOMAIN g = Fields /\ g.record \in Seq(OperateRecord)
        /\ g.hands \in [Chairs -> Seq(Kinds)] /\ g.ops \in [Chairs -> SUBSET OperateType]
        /\ g.deck \in Seq(Kinds) /\ FourOfEach(g.hands, g.deck) /\ g.gang = Off
        /\ Len(g.deck) >= Ma /\ g.record # <<>>
    BY DEF Turn, Open, Live, Typed
  <1>2. g.cur \in Chairs /\ Own(g, g.cur) /\ g.claimTask = {}
    BY DEF Turn, Open
  <1>3. g.status = "Playing" => Lengths(g.hands, g.cur, 2)
    BY Zenon DEF Turn, Ahead, Lengths
  <1>4. \A c \in Chairs : \A u : CardCount(g.hands[c], u) \in Nat
    BY <1>1, PlacesFinite
  <1>. QED  BY <1>1, <1>2, <1>3, <1>4 DEF Fair

\* A turn's act that is refused leaves the turn as it was, without its task.
LEMMA RefusedIsGood ==
    ASSUME NEW g, Turn(g)
    PROVE  Good(Refused(g))
  <1>. DEFINE h == Refused(g)
  <1>1. DOMAIN g = Fields
    BY TurnHas
  <1>2. h = [g EXCEPT !.refused = TRUE]
    BY DEF Refused
  <1>. HIDE DEF h
  <1>3. /\ DOMAIN h = Fields /\ h.refused
        /\ h.stray = g.stray /\ h.dismissed = g.dismissed /\ h.down = g.down
        /\ h.bureau = g.bureau /\ h.ends = g.ends /\ h.settled = g.settled
        /\ h.late = g.late /\ h.banker = g.banker /\ h.winner = g.winner
        /\ h.deck = g.deck /\ h.hands = g.hands /\ h.ops = g.ops /\ h.record = g.record
        /\ h.turnLost = g.turnLost /\ h.gang = g.gang /\ h.started = g.started
        /\ h.cards = g.cards /\ h.status = g.status /\ h.trustTask = g.trustTask
        /\ h.cur = g.cur /\ h.claimTask = g.claimTask
    BY <1>1, <1>2 DEF Fields
  <1>4. Typed(h)
    BY <1>3, Zenon DEF Turn, Open, Live, Typed
  <1>5. Live(h)
    BY <1>3, <1>4, Zenon DEF Turn, Open, Live, NoWins, EndedOnGang
  <1>6. Open(h)
    BY <1>3, <1>5, Zenon DEF Turn, Open
  <1>7. Own(h, h.cur)
    BY <1>3, Zenon DEF Turn, Own, Only
  <1>8. /\ Ahead(g, g.cur) => Ahead(h, h.cur)
        /\ CanWin(g, g.cur) => CanWin(h, h.cur)
        /\ HasFour(g, g.cur) => HasFour(h, h.cur)
        /\ TookPair(g, g.cur) => TookPair(h, h.cur)
    BY <1>3, Zenon DEF Ahead, CanWin, IsFirstTurn, HasFour, TookPair
  <1>9. Turn(h)
    BY <1>3, <1>6, <1>7, <1>8, Zenon DEF Turn
  <1>. QED  BY <1>3, <1>9 DEF Good, TurnOpen, h

\* Four of a kind are laid.
LEMMA GangZiGoes ==
    ASSUME NEW g, Turn(g), NEW c, c = g.cur, NEW t \in Kinds, NEW old,
           NEW h \in OnGangZi(g, old, c, t)
    PROVE  Good(h)
  <1>1. /\ Live(g) /\ Typed(g) /\ DOMAIN g = Fields /\ g.record \in Seq(OperateRecord)
        /\ g.hands \in [Chairs -> Seq(Kinds)] /\ g.ops \in [Chairs -> SUBSET OperateType]
        /\ Fair(g.hands, g.deck) /\ g.gang = Off /\ Len(g.deck) >= Ma /\ g.record # <<>>
        /\ c \in Chairs /\ Own(g, c) /\ g.claimTask = {}
        /\ g.status = "Playing" => Lengths(g.hands, c, 2)
        /\ CardCount(g.hands[c], t) \in Nat
    BY TurnHas, Zenon
  <1>2. CASE CardCount(g.hands[c], t) < 4
    <2>1. h = Refused(g)
      BY <1>2 DEF OnGangZi
    <2>. QED  BY <2>1, RefusedIsGood
  <1>3. CASE ~(CardCount(g.hands[c], t) < 4)
    <2>. DEFINE put == Recorded(g, c, "GangZi", t)
                hands == [g.hands EXCEPT ![c] = DelCard(g.hands[c], t, 4)]
                x == CardCount(g.hands[c], t)
                q == [put EXCEPT !.hands = hands]
    <2>1. Entered(g, put, c, "GangZi", t)
      BY <1>1, EntryIs
    <2>2. h \in SetTurn(q, old, c)
      <3>1. h \in UNION {SetTurn(a, old, c) : a \in {[put EXCEPT !.hands[c] = DelCard(@, t, 4)]}}
        BY <1>3, Zenon DEF OnGangZi
      <3>2. put.hands = g.hands
        BY <2>1 DEF Entered
      <3>3. q = [put EXCEPT !.hands[c] = DelCard(@, t, 4)]
        <4>. HIDE DEF put
        <4>. QED  BY <3>2, Zenon
      <3>. HIDE DEF put, q
      <3>. QED  BY <3>1, <3>3
    <2>. HIDE DEF put
    <2>3. x \in Nat /\ ~(x < 4)
      BY <1>1, <1>3
    <2>. HIDE DEF x, hands
    <2>5. x >= 4
      BY <2>3
    <2>6. /\ SameBureau(g, q) /\ q.hands = hands /\ q.ops = g.ops /\ q.cur = g.cur /\ q.gang = g.gang
          /\ q.record = Append(g.record, [chair |-> c, operate |-> "GangZi", card |-> t])
          /\ q.claimTask = {}
      BY <1>1, <2>1 DEF Entered, SameBureau, Kept, Fields
    <2>. HIDE DEF q
    <2>7. Takes(g, q, c, "GangZi", t, 4)
      BY <1>1, <2>6 DEF Takes, hands
    <2>8. GoesOn(q, "GangZi", t) /\ Fewer(g.hands, c, t, 4, q.hands)
      <3>1. Plain("GangZi") /\ 4 \in 1 .. 4 /\ CardCount(g.hands[c], t) >= 4
        BY <2>5 DEF OperateType, Plain, x
      <3>. QED  BY <1>1, <2>7, <3>1, ActIsTaken, Zenon
    <2>9. ToDraw(q, c)
      <3>1. Only(q, c) /\ q.cur = c /\ "Qi" \in q.ops[c] /\ q.ops[c] \subseteq TurnActs
        BY <1>1, <2>6 DEF Own, Only
      <3>3. StillOpen(q, c)
        BY <1>1, <2>6, <2>8, <3>1 DEF StillOpen, GoesOn
      <3>4. Even(q)
        <4>. SUFFICES ASSUME q.status = "Playing"
                      PROVE  \A d \in Chairs : Len(q.hands[d]) % 3 = 1
          BY DEF Even
        <4>1. Lengths(g.hands, c, 2)
          BY <1>1, <2>6 DEF SameBureau
        <4>3. Lengths(q.hands, c, 1)
          BY <1>1, <2>8, <4>1, EvenLeft, Zenon
        <4>. QED  BY <4>3, Zenon DEF Lengths
      <3>. QED  BY <1>1, <2>6, <2>8, <3>1, <3>3, <3>4 DEF ToDraw, GoesOn
    <2>. QED  BY <2>2, <2>9, TurnIsSet
  <1>. QED  BY <1>2, <1>3

\* The bureau of who laid a fourth tile.
Laid(g, c, t, stray) ==
    [Recorded(g, c, "GangBu", t) EXCEPT
        !.hands[c] = DelCard(@, t, 1), !.ops[c] = {}, !.gang = Off, !.stray = stray]

\* Without robbers the fourth tile is laid to the triple, and its player draws.
LEMMA FourthIsLaid ==
    ASSUME NEW g, Turn(g), NEW c, c = g.cur, NEW t \in Kinds, NEW old,
           CardCount(g.hands[c], t) >= 1, NEW h \in SetTurn(Laid(g, c, t, FALSE), old, c)
    PROVE  Good(h)
  <1>1. /\ Live(g) /\ Typed(g) /\ DOMAIN g = Fields /\ g.record \in Seq(OperateRecord)
        /\ g.hands \in [Chairs -> Seq(Kinds)] /\ g.ops \in [Chairs -> SUBSET OperateType]
        /\ Fair(g.hands, g.deck) /\ g.gang = Off /\ Len(g.deck) >= Ma /\ g.record # <<>>
        /\ c \in Chairs /\ Own(g, c) /\ g.claimTask = {}
        /\ g.status = "Playing" => Lengths(g.hands, c, 2)
    BY TurnHas, Zenon
  <1>. DEFINE put == Recorded(g, c, "GangBu", t)
              hands == [g.hands EXCEPT ![c] = DelCard(g.hands[c], t, 1)]
              ops == [g.ops EXCEPT ![c] = {}]
              q == [put EXCEPT !.hands = hands, !.ops = ops, !.gang = Off, !.stray = FALSE]
  <1>2. Entered(g, put, c, "GangBu", t)
    BY <1>1, EntryIs
  <1>3. h \in SetTurn(q, old, c)
    <2>1. Laid(g, c, t, FALSE)
            = [put EXCEPT !.hands[c] = DelCard(@, t, 1), !.ops[c] = {}, !.gang = Off, !.stray = FALSE]
      BY Zenon DEF Laid
    <2>2. put.hands = g.hands /\ put.ops = g.ops
      BY <1>2 DEF Entered
    <2>3. q = [put EXCEPT !.hands[c] = DelCard(@, t, 1), !.ops[c] = {}, !.gang = Off, !.stray = FALSE]
      <3>. HIDE DEF put
      <3>. QED  BY <2>2, Zenon
    <2>. HIDE DEF put, q
    <2>. QED  BY <2>1, <2>3
  <1>4. ops \in [Chairs -> SUBSET OperateType] /\ \A d \in Chairs : ops[d] = {}
    BY <1>1 DEF Own, Only
  <1>. HIDE DEF put, hands, ops
  <1>5. /\ SameBureau(g, q) /\ q.hands = hands /\ q.ops = ops /\ q.cur = g.cur /\ q.gang = Off
        /\ q.record = Append(g.record, [chair |-> c, operate |-> "GangBu", card |-> t])
        /\ q.claimTask = {}
    <2>1. g.stray = FALSE
      BY <1>1 DEF Typed
    <2>. QED  BY <1>1, <1>2, <2>1 DEF Entered, SameBureau, Kept, Fields
  <1>. HIDE DEF q
  <1>6. Takes(g, q, c, "GangBu", t, 1)
    BY <1>4, <1>5 DEF Takes, hands
  <1>7. GoesOn(q, "GangBu", t) /\ Fewer(g.hands, c, t, 1, q.hands)
    <2>1. Plain("GangBu") /\ 1 \in 1 .. 4
      BY DEF OperateType, Plain
    <2>. QED  BY <1>1, <1>6, <2>1, ActIsTaken, Zenon
  <1>8. ToDraw(q, c)
    <2>1. Even(q)
      <3>. SUFFICES ASSUME q.status = "Playing"
                    PROVE  \A d \in Chairs : Len(q.hands[d]) % 3 = 1
        BY DEF Even
      <3>1. Lengths(g.hands, c, 2)
        BY <1>1, <1>5 DEF SameBureau
      <3>2. Lengths(q.hands, c, 1)
        BY <1>1, <1>7, <3>1, EvenLeft, Zenon
      <3>. QED  BY <3>2, Zenon DEF Lengths
    <2>. QED  BY <1>1, <1>4, <1>5, <1>7, <2>1 DEF ToDraw, GoesOn, Only
  <1>. QED  BY <1>3, <1>8, TurnIsSet

\* A tile is discarded.
LEMMA QiGoes ==
    ASSUME NEW g, Turn(g), g.turnTask = Off, NEW c, c = g.cur, NEW t \in Kinds, NEW old,
           CardCount(g.hands[c], t) >= 1, NEW h \in OnQi(g, old, c, t)
    PROVE  Good(h)
  <1>1. /\ Live(g) /\ Typed(g) /\ DOMAIN g = Fields /\ g.record \in Seq(OperateRecord)
        /\ g.hands \in [Chairs -> Seq(Kinds)] /\ g.ops \in [Chairs -> SUBSET OperateType]
        /\ Fair(g.hands, g.deck) /\ g.gang = Off /\ Len(g.deck) >= Ma /\ g.record # <<>>
        /\ c \in Chairs /\ Own(g, c) /\ g.claimTask = {}
        /\ g.status = "Playing" => Lengths(g.hands, c, 2)
    BY TurnHas, Zenon
  <1>. DEFINE put == Recorded(g, c, "Qi", t)
              hands == [g.hands EXCEPT ![c] = DelCard(g.hands[c], t, 1)]
              ops == [g.ops EXCEPT ![c] = {}]
              q == [put EXCEPT !.hands = hands, !.ops = ops]
  <1>2. Entered(g, put, c, "Qi", t)
    BY <1>1, EntryIs
  <1>3. h \in NextTurn(q, old, t)
    <2>1. CardCount(g.hands[c], t) # 0
      OBVIOUS
    <2>2. h \in UNION {NextTurn(a, old, t) :
             a \in {[put EXCEPT !.hands[c] = DelCard(@, t, 1), !.ops[c] = {}]}}
      BY <2>1, Zenon DEF OnQi
    <2>3. put.hands = g.hands /\ put.ops = g.ops
      BY <1>2 DEF Entered
    <2>4. q = [put EXCEPT !.hands[c] = DelCard(@, t, 1), !.ops[c] = {}]
      <3>. HIDE DEF put
      <3>. QED  BY <2>3, Zenon
    <2>. HIDE DEF put, q
    <2>. QED  BY <2>2, <2>4
  <1>4. ops \in [Chairs -> SUBSET OperateType] /\ \A d \in Chairs : ops[d] = {}
    BY <1>1 DEF Own, Only
  <1>. HIDE DEF put, hands, ops
  <1>5. /\ SameBureau(g, q) /\ q.hands = hands /\ q.ops = ops /\ q.cur = g.cur /\ q.gang = Off
        /\ q.record = Append(g.record, [chair |-> c, operate |-> "Qi", card |-> t])
        /\ q.claimTask = {} /\ q.turnTask = Off
    BY <1>1, <1>2 DEF Entered, SameBureau, Kept, Fields
  <1>. HIDE DEF q
  <1>6. Takes(g, q, c, "Qi", t, 1)
    BY <1>4, <1>5 DEF Takes, hands
  <1>7. GoesOn(q, "Qi", t) /\ Fewer(g.hands, c, t, 1, q.hands)
    <2>1. Plain("Qi") /\ 1 \in 1 .. 4
      BY DEF OperateType, Plain
    <2>. QED  BY <1>1, <1>6, <2>1, ActIsTaken, Zenon
  <1>8. \A a, b \in Chairs \ {c} : a # b => CardCount(q.hands[a], t) + CardCount(q.hands[b], t) <= 3
    <2>1. \A a, b \in Chairs \ {c} : a # b =>
             CardCount(g.hands[a], t) + CardCount(g.hands[b], t) <= 3
      BY <1>1, ThreeAreLeft, Zenon
    <2>2. \A a \in Chairs \ {c} : q.hands[a] = g.hands[a]
      BY <1>7 DEF Fewer
    <2>. QED  BY <2>1, <2>2
  <1>9. ToPass(q, t)
    <2>1. Even(q)
      <3>. SUFFICES ASSUME q.status = "Playing"
                    PROVE  \A d \in Chairs : Len(q.hands[d]) % 3 = 1
        BY DEF Even
      <3>1. Lengths(g.hands, c, 2)
        BY <1>1, <1>5 DEF SameBureau
      <3>2. Lengths(q.hands, c, 1)
        BY <1>1, <1>7, <3>1, EvenLeft, Zenon
      <3>. QED  BY <3>2, Zenon DEF Lengths
    <2>2. Nobody(q)
      BY <1>4, <1>5 DEF Nobody
    <2>. QED  BY <1>1, <1>5, <1>7, <1>8, <2>1, <2>2 DEF ToPass, GoesOn
  <1>. QED  BY <1>3, <1>9, TurnPasses

\* A player wins on his own tile.
LEMMA HuZiGoes ==
    ASSUME NEW g, Turn(g), NEW c, c = g.cur, NEW t \in Cards,
           g.status = "Playing" => CanWin(g, c), NEW h \in OnHuZi(g, c, t)
    PROVE  Fine(h)
  <1>1. /\ Live(g) /\ Typed(g) /\ DOMAIN g = Fields /\ g.record \in Seq(OperateRecord)
        /\ g.hands \in [Chairs -> Seq(Kinds)] /\ g.ops \in [Chairs -> SUBSET OperateType]
        /\ Fair(g.hands, g.deck) /\ g.gang = Off /\ Len(g.deck) >= Ma /\ g.record # <<>>
        /\ c \in Chairs /\ Own(g, c) /\ g.claimTask = {}
    BY TurnHas, Zenon
  <1>2. CASE ~CanWin(g, c)
    <2>1. h = g
      BY <1>2 DEF OnHuZi, CanWin
    <2>2. g.status # "Playing"
      BY <1>2
    <2>. QED  BY <2>1, <2>2 DEF Fine, Good, TurnOpen
  <1>3. CASE CanWin(g, c)
    <2>. DEFINE put == Recorded(g, c, "HuZi", t)
                ops == [g.ops EXCEPT ![c] = {}]
                q == [put EXCEPT !.ops = ops]
    <2>1. Entered(g, put, c, "HuZi", t)
      BY <1>1, EntryIs
    <2>2. h = GameEnd(q)
      <3>1. h \in {GameEnd(a) : a \in {[put EXCEPT !.ops[c] = {}]}}
        BY <1>3, Zenon DEF OnHuZi, CanWin
      <3>2. put.ops = g.ops
        BY <2>1 DEF Entered
      <3>3. q = [put EXCEPT !.ops[c] = {}]
        <4>. HIDE DEF put
        <4>. QED  BY <3>2, Zenon
      <3>. HIDE DEF put, q
      <3>. QED  BY <3>1, <3>3
    <2>3. ops \in [Chairs -> SUBSET OperateType] /\ \A d \in Chairs : ops[d] = {}
      BY <1>1 DEF Own, Only
    <2>. HIDE DEF put, ops
    <2>4. /\ SameBureau(g, q) /\ q.hands = g.hands /\ q.ops = ops /\ q.cur = g.cur
          /\ q.record = Append(g.record, [chair |-> c, operate |-> "HuZi", card |-> t])
          /\ q.claimTask = {}
      BY <1>1, <2>1 DEF Entered, SameBureau, Kept, Fields
    <2>. HIDE DEF q
    <2>5. Noted(g, q, c, "HuZi", t)
      <3>1. "HuZi" \in OperateType /\ t \in Cards
        BY DEF OperateType
      <3>. QED  BY <1>1, <2>4, <3>1, RecordingIs
    <2>6. Typed(q)
      <3>1. q.record \in Seq(OperateRecord)
        BY <2>5 DEF Noted
      <3>. QED  BY <1>1, <2>3, <2>4, <3>1, Zenon DEF Typed, Kept, SameBureau
    <2>7. Nobody(q) /\ q.started /\ ~q.cards /\ Len(q.deck) >= Ma
      BY <1>1, <2>3, <2>4 DEF Nobody, SameBureau, Kept, Live
    <2>8. q.settled = 0 \/ EndedOnGang(q)
      <3>1. EndedOnGang(g) => EndedOnGang(q)
        BY <2>5 DEF Noted
      <3>. QED  BY <1>1, <2>4, <3>1 DEF Live, SameBureau
    <2>. QED  BY <2>2, <2>6, <2>7, <2>8, WinEnds
  <1>. QED  BY <1>2, <1>3

\* Wins that are put down leave the bureau's end on four of a kind what it was.
LEMMA WinsAreNoted ==
    ASSUME NEW r \in Seq(OperateRecord), NEW w \in Seq(OperateRecord),
           \A i \in DOMAIN w : w[i].operate = "HuChi", NEW g, g.record = r,
           NEW q, q.record = r \o w
    PROVE  q.record \in Seq(OperateRecord) /\ (EndedOnGang(g) => EndedOnGang(q))
  <1>. DEFINE p == r \o w
              n == Len(r)
              m == Len(w)
  <1>1. /\ p \in Seq(OperateRecord) /\ Len(p) = n + m /\ n \in Nat /\ m \in Nat
        /\ DOMAIN p = 1 .. (n + m) /\ DOMAIN r = 1 .. n /\ DOMAIN w = 1 .. m
    OBVIOUS
  <1>2. \A i \in 1 .. n : p[i] = r[i]
    OBVIOUS
  <1>3. \A i \in 1 .. (n + m) : i > n => p[i] = w[i - n]
    OBVIOUS
  <1>. HIDE DEF p, n, m
  <1>4. ASSUME NEW i \in 1 .. n, r[i].operate \in {"GangChi", "GangZi"},
               i < n => r[i + 1].operate # "Get"
        PROVE  /\ i \in DOMAIN p /\ p[i].operate \in {"GangChi", "GangZi"}
               /\ i < Len(p) => p[i + 1].operate # "Get"
    <2>1. i \in DOMAIN p /\ p[i] = r[i] /\ i \in Int /\ i <= n
      BY <1>1, <1>2
    <2>2. CASE i < n
      <3>1. i + 1 \in 1 .. n
        BY <1>1, <2>2
      <3>2. p[i + 1] = r[i + 1]
        BY <1>2, <3>1
      <3>. QED  BY <1>4, <2>1, <2>2, <3>2
    <2>3. CASE ~(i < n)
      <3>1. i = n
        BY <1>1, <2>1, <2>3
      <3>2. ASSUME i < Len(p)
            PROVE  p[i + 1].operate # "Get"
        <4>1. i + 1 \in 1 .. (n + m) /\ i + 1 > n /\ 1 \in 1 .. m /\ i + 1 - n = 1
          BY <1>1, <3>1, <3>2
        <4>2. p[i + 1] = w[1]
          <5>. DEFINE j == i + 1
          <5>1. j \in 1 .. (n + m) /\ j > n /\ j - n = 1
            BY <1>1, <2>1, <3>1, <4>1
          <5>. HIDE DEF j
          <5>2. p[j] = w[j - n]
            BY <1>3, <5>1
          <5>. QED  BY <5>1, <5>2 DEF j
        <4>. QED  BY <1>1, <4>1, <4>2
      <3>. QED  BY <1>4, <2>1, <3>2
    <2>. QED  BY <2>2, <2>3
  <1>5. ASSUME EndedOnGang(g)
        PROVE  EndedOnGang(q)
    <2>1. PICK i \in DOMAIN r : /\ r[i].operate \in {"GangChi", "GangZi"}
                                /\ i < Len(r) => r[i + 1].operate # "Get"
      BY <1>5 DEF EndedOnGang
    <2>2. i \in 1 .. n /\ (i < n => r[i + 1].operate # "Get")
      BY <1>1, <2>1 DEF n
    <2>3. /\ i \in DOMAIN p /\ p[i].operate \in {"GangChi", "GangZi"}
          /\ i < Len(p) => p[i + 1].operate # "Get"
      BY <1>4, <2>1, <2>2
    <2>4. q.record = p
      BY DEF p
    <2>. QED  BY <2>3, <2>4 DEF EndedOnGang
  <1>. QED  BY <1>1, <1>5 DEF p

\* The bureau of who laid a fourth tile and was robbed.
Robbed(g, c, t, robbers, wins, stray) ==
    [g EXCEPT
        !.gang = c, !.stray = stray,
        !.record = @ \o [i \in DOMAIN wins |->
                           [chair |-> wins[i], operate |-> "HuChi", card |-> t]],
        !.hands = [d \in Chairs |-> IF d \in robbers THEN Append(@[d], t)
                                   ELSE IF d = c THEN DelCard(@[d], t, 1) ELSE @[d]],
        !.ops = [d \in Chairs |-> IF d \in robbers \cup {c} THEN {} ELSE @[d]]]

\* Who may win on the tile does, and the bureau ends.
LEMMA RobbersWin ==
    ASSUME NEW g, Turn(g), NEW c, c = g.cur, NEW t \in Kinds, CardCount(g.hands[c], t) >= 1,
           NEW robbers \in SUBSET (Chairs \ {c}), NEW wins, wins \in Seq(robbers)
    PROVE  Fine(GameEnd(Robbed(g, c, t, robbers, wins, FALSE)))
  <1>1. /\ Live(g) /\ Typed(g) /\ DOMAIN g = Fields /\ g.record \in Seq(OperateRecord)
        /\ g.hands \in [Chairs -> Seq(Kinds)] /\ g.ops \in [Chairs -> SUBSET OperateType]
        /\ Fair(g.hands, g.deck) /\ g.gang = Off /\ Len(g.deck) >= Ma /\ g.record # <<>>
        /\ c \in Chairs /\ Own(g, c) /\ g.claimTask = {}
    BY TurnHas, Zenon
  <1>. DEFINE w == [i \in DOMAIN wins |-> [chair |-> wins[i], operate |-> "HuChi", card |-> t]]
              record == g.record \o w
              hands == [d \in Chairs |-> IF d \in robbers THEN Append(g.hands[d], t)
                                         ELSE IF d = c THEN DelCard(g.hands[d], t, 1)
                                         ELSE g.hands[d]]
              ops == [d \in Chairs |-> IF d \in robbers \cup {c} THEN {} ELSE g.ops[d]]
              q == Robbed(g, c, t, robbers, wins, FALSE)
  <1>2. w \in Seq(OperateRecord) /\ \A i \in DOMAIN w : w[i].operate = "HuChi"
    <2>1. Len(wins) \in Nat /\ DOMAIN wins = 1 .. Len(wins)
          /\ \A i \in 1 .. Len(wins) : wins[i] \in Chairs
      OBVIOUS
    <2>2. \A i \in 1 .. Len(wins) :
            [chair |-> wins[i], operate |-> "HuChi", card |-> t] \in OperateRecord
      BY <2>1, KindsAreCards DEF OperateRecord, OperateType
    <2>3. w = [i \in 1 .. Len(wins) |-> [chair |-> wins[i], operate |-> "HuChi", card |-> t]]
      BY <2>1
    <2>4. w \in [1 .. Len(wins) -> OperateRecord]
      BY <2>2, <2>3
    <2>5. \A i \in DOMAIN w : w[i].operate = "HuChi"
      OBVIOUS
    <2>. HIDE DEF w
    <2>. QED  BY <2>1, <2>4, <2>5
  <1>3. hands \in [Chairs -> Seq(Kinds)]
    <2>1. DelCard(g.hands[c], t, 1) \in Seq(Kinds)
      <3>. DEFINE s == g.hands[c]
      <3>1. s \in Seq(Kinds) /\ CardCount(s, t) >= 1 /\ 1 \in 1 .. 4
        BY <1>1
      <3>. HIDE DEF s
      <3>2. DelCard(s, t, 1) \in Seq(Kinds)
        BY <3>1, DelCardCounts
      <3>. QED  BY <3>2 DEF s
    <2>2. \A d \in Chairs : Append(g.hands[d], t) \in Seq(Kinds)
      BY <1>1
    <2>. QED  BY <1>1, <2>1, <2>2
  <1>4. ops \in [Chairs -> SUBSET OperateType] /\ \A d \in Chairs : ops[d] = {}
    BY <1>1 DEF Own, Only
  <1>5. q = [g EXCEPT !.gang = c, !.stray = FALSE, !.record = record, !.hands = hands, !.ops = ops]
    BY Zenon DEF Robbed
  <1>. HIDE DEF w, hands, ops, record, q
  <1>6. /\ Kept(g, q) /\ q.hands = hands /\ q.ops = ops /\ q.record = record /\ q.deck = g.deck
        /\ q.status = g.status /\ q.ends = g.ends /\ q.settled = g.settled
        /\ q.winner = g.winner /\ q.down = g.down /\ q.late = g.late /\ q.turnLost = g.turnLost
        /\ q.claimTask = g.claimTask
    <2>1. g.stray = FALSE
      BY <1>1 DEF Typed
    <2>. QED  BY <1>1, <1>5, <2>1 DEF Kept, Fields
  <1>7. q.record \in Seq(OperateRecord) /\ (EndedOnGang(g) => EndedOnGang(q))
    <2>. DEFINE r == g.record
    <2>1. r \in Seq(OperateRecord) /\ q.record = r \o w /\ g.record = r
      BY <1>1, <1>6 DEF record
    <2>. HIDE DEF r
    <2>2. q.record \in Seq(OperateRecord) /\ (EndedOnGang(g) => EndedOnGang(q))
      BY <1>2, <2>1, WinsAreNoted
    <2>. QED  BY <2>2
  <1>8. Typed(q)
    BY <1>1, <1>3, <1>4, <1>6, <1>7, Zenon DEF Typed, Kept
  <1>9. Nobody(q) /\ q.started /\ ~q.cards /\ Len(q.deck) >= Ma
    BY <1>1, <1>4, <1>6 DEF Nobody, Kept, Live
  <1>10. q.settled = 0 \/ EndedOnGang(q)
    BY <1>1, <1>6, <1>7 DEF Live
  <1>. QED  BY <1>8, <1>9, <1>10, WinEnds DEF q

\* A fourth tile is laid to a triple.
LEMMA GangBuGoes ==
    ASSUME NEW g, Turn(g), NEW c, c = g.cur, NEW t, NEW old,
           TookPair(g, c) => CardCount(g.hands[c], t) >= 1,
           g.status = "Playing" => TookPair(g, c),
           NEW h \in OnGangBu(g, old, c, t)
    PROVE  Fine(h)
  <1>. DEFINE robbers == {d \in Chairs \ {c} : CheckHu(g.hands[d], t)}
              wins == InOrder(robbers)
              stray == g.stray \/ CardCount(g.hands[c], t) = 0
              robbed == Robbed(g, c, t, robbers, wins, stray)
  <1>1. CASE ~TookPair(g, c)
    <2>1. h = g
      BY <1>1, Zenon DEF OnGangBu, TookPair
    <2>. QED  BY <1>1, <2>1 DEF Fine, Good, TurnOpen
  <1>2. CASE TookPair(g, c)
    <2>1. /\ Fair(g.hands, g.deck) /\ c \in Chairs /\ CardCount(g.hands[c], t) >= 1
          /\ CardCount(g.hands[c], t) \in Nat /\ g.hands[c] \in Seq(Kinds) /\ g.stray = FALSE
      BY <1>2, TurnHas DEF Typed
    <2>2. CardCount(g.hands[c], t) # 0
      <3>. DEFINE n == CardCount(g.hands[c], t)
      <3>1. n >= 1 /\ n \in Nat
        BY <2>1
      <3>. HIDE DEF n
      <3>2. n # 0
        BY <3>1
      <3>. QED  BY <3>2 DEF n
    <2>3. t \in Kinds
      BY <2>1, <2>2, OthersAreMissing
    <2>4. stray = FALSE
      BY <2>1, <2>2
    <2>5. ~\E d \in Chairs \ {c} : Unindexed(g.hands[d], t)
      BY <2>1, <2>3, OthersAreIndexed
    <2>. HIDE DEF stray
    <2>6. CASE robbers # {}
      <3>1. h \in {GameEnd(a) : a \in {robbed}}
        BY <1>2, <2>5, <2>6, Zenon DEF OnGangBu, TookPair, Robbed, stray
      <3>2. robbers \in SUBSET (Chairs \ {c}) /\ robbers \in SUBSET Chairs
        OBVIOUS
      <3>3. wins \in Seq(robbers)
        BY <3>2, InOrderIsSeq
      <3>4. Fine(GameEnd(robbed))
        <4>. HIDE DEF robbers, wins
        <4>1. Fine(GameEnd(Robbed(g, c, t, robbers, wins, FALSE)))
          BY <2>1, <2>3, <3>2, <3>3, RobbersWin
        <4>. QED  BY <2>4, <4>1
      <3>. HIDE DEF robbed
      <3>. QED  BY <3>1, <3>4
    <2>7. CASE ~(robbers # {})
      <3>1. h \in SetTurn(Laid(g, c, t, stray), old, c)
        <4>1. h \in UNION {SetTurn(a, old, c) : a \in {Laid(g, c, t, stray)}}
          BY <1>2, <2>5, <2>7, Zenon DEF OnGangBu, TookPair, Laid, stray
        <4>. QED  BY <4>1
      <3>2. Good(h)
        BY <2>1, <2>3, <2>4, <3>1, FourthIsLaid
      <3>. QED  BY <3>2 DEF Fine
    <2>. QED  BY <2>6, <2>7
  <1>. QED  BY <1>1, <1>2

\* The bureau is as it was; tasks and timers of the players may have changed.
Same(g, h) ==
    /\ SameBureau(g, h)
    /\ h.hands = g.hands /\ h.ops = g.ops /\ h.cur = g.cur /\ h.gang = g.gang
    /\ h.claimTask = g.claimTask /\ h.record = g.record
    /\ g.turnTask = Off => h.turnTask = Off

\* A bureau that is as it was is at the same stage.
LEMMA SameStage ==
    ASSUME NEW g, NEW h, Same(g, h)
    PROVE  /\ Turn(g) => Turn(h)
           /\ \A c : ClaimOpen(g, c) => ClaimOpen(h, c)
           /\ Idle(g) => Idle(h)
           /\ Dealt(g) => Dealt(h)
           /\ Shown(g) => Shown(h)
  <1>1. /\ SameBureau(g, h)
        /\ h.hands = g.hands /\ h.ops = g.ops /\ h.cur = g.cur /\ h.gang = g.gang
        /\ h.claimTask = g.claimTask /\ h.record = g.record
        /\ g.turnTask = Off => h.turnTask = Off
    BY DEF Same
  <1>2. Typed(g) => Typed(h)
    BY <1>1, Zenon DEF Typed, SameBureau, Kept
  <1>3. (NoWins(g) => NoWins(h)) /\ (EndedOnGang(g) => EndedOnGang(h)) /\ (Nobody(g) => Nobody(h))
    BY <1>1 DEF NoWins, EndedOnGang, Nobody
  <1>4. Live(g) => Live(h)
    BY <1>1, <1>2, <1>3, Zenon DEF Live, SameBureau, Kept
  <1>5. Open(g) => Open(h)
    BY <1>1, <1>4, Zenon DEF Open, SameBureau
  <1>6. Turn(g) => Turn(h)
    <2>1. (Own(g, g.cur) => Own(h, h.cur)) /\ (Ahead(g, g.cur) => Ahead(h, h.cur))
      BY <1>1, Zenon DEF Own, Only, Ahead
    <2>2. /\ CanWin(g, g.cur) => CanWin(h, h.cur)
          /\ HasFour(g, g.cur) => HasFour(h, h.cur)
          /\ TookPair(g, g.cur) => TookPair(h, h.cur)
      BY <1>1, Zenon DEF CanWin, IsFirstTurn, HasFour, TookPair
    <2>. QED  BY <1>1, <1>5, <2>1, <2>2, Zenon DEF Turn, SameBureau
  <1>7. ASSUME NEW c, ClaimOpen(g, c)
        PROVE  ClaimOpen(h, c)
    <2>1. Claims(h, c) /\ Even(h)
      BY <1>1, <1>7, Zenon DEF ClaimOpen, Claims, Only, Even, SameBureau
    <2>. QED  BY <1>1, <1>5, <1>7, <2>1, Zenon DEF ClaimOpen, SameBureau
  <1>8. Fresh(g) => Fresh(h)
    BY <1>1, <1>2, <1>3, Zenon DEF Fresh, SameBureau
  <1>9. Idle(g) => Idle(h)
    BY <1>1, <1>8, Zenon DEF Idle, SameBureau, Kept
  <1>10. Dealt(g) => Dealt(h)
    BY <1>1, <1>8, Zenon DEF Dealt, SameBureau, Kept
  <1>11. Shown(g) => Shown(h)
    BY <1>1, <1>2, <1>3, Zenon DEF Shown, SameBureau, Kept
  <1>. QED  BY <1>6, <1>7, <1>9, <1>10, <1>11

\* The handler stops the turn's task before it looks at the act.
Unset(g) == [g EXCEPT !.turnTask = Off]

\* It is all that stopping the task changes.
LEMMA UnsetIs ==
    ASSUME NEW g, DOMAIN g = Fields, NEW q, q = Unset(g)
    PROVE  /\ DOMAIN q = Fields /\ SameBureau(g, q) /\ q.turnTask = Off
           /\ q.hands = g.hands /\ q.ops = g.ops /\ q.cur = g.cur /\ q.gang = g.gang
           /\ q.claimTask = g.claimTask /\ q.autos = g.autos /\ q.record = g.record
  <1>1. q = [g EXCEPT !.turnTask = Off]
    BY DEF Unset
  <1>. QED  BY <1>1 DEF Fields, SameBureau, Kept

\* What stays of a game whose turn's task is stopped.
LEMMA UnsetKeeps ==
    ASSUME NEW g, DOMAIN g = Fields
    PROVE  /\ Turn(g) => Turn(Unset(g))
           /\ \A c : ClaimOpen(g, c) => ClaimOpen(Unset(g), c)
  <1>1. Same(g, Unset(g))
    BY UnsetIs DEF Same
  <1>. QED  BY <1>1, SameStage

\* The process ends at a turn when the hand is empty: the bureau was shown.
LEMMA PanicAtTurn ==
    ASSUME NEW g, Turn(g), g.status # "Playing"
    PROVE  Fine([g EXCEPT !.down = TRUE])
  <1>. DEFINE h == [g EXCEPT !.down = TRUE]
  <1>1. /\ Live(g) /\ DOMAIN g = Fields /\ g.cur \in Chairs /\ Own(g, g.cur) /\ g.claimTask = {}
        /\ ~g.dismissed /\ g.started /\ EndedOnGang(g) /\ Len(g.deck) <= Ma
    BY TurnHas DEF Live, Typed
  <1>2. /\ DOMAIN h = Fields /\ h.down /\ h.status = g.status /\ h.ops = g.ops
        /\ h.claimTask = {} /\ h.record = g.record /\ h.deck = g.deck /\ h.dismissed = g.dismissed
        /\ h.started = g.started
    BY <1>1 DEF Fields
  <1>. HIDE DEF h
  <1>3. Claiming(h) = {}
    BY <1>1, <1>2 DEF Claiming, Own, Only, TurnActs
  <1>4. EndedOnGang(h)
    BY <1>1, <1>2 DEF EndedOnGang
  <1>5. Safe(h)
    BY <1>1, <1>2, <1>3, <1>4, FS_EmptySet DEF Safe
  <1>. QED  BY <1>1, <1>2, <1>5 DEF Fine, Ended, h

\* An act that is not looked at any further.
Declined(g, c, o) ==
    \/ o = "Qi" /\ LastOf(g.record).operate = "Qi" /\ LastOf(g.record).chair = c
    \/ o \notin g.ops[c]

\* An act ends the process, is declined or is handled, without the turn's task.
LEMMA ActUnfolds ==
    ASSUME NEW g, NEW c, NEW o, NEW n, NEW h \in OnGameTurnOperate(g, c, o, n)
    PROVE  LET t == MeantCard(g, c, o, n)
               panics == [g EXCEPT !.down = TRUE]
           IN  \/ g.record = <<>> /\ h = panics
               \/ g.record # <<>> /\ Declined(g, c, o) /\ h = g
               \/ /\ g.record # <<>> /\ ~Declined(g, c, o)
                  /\ t = NoCard /\ o # "Qi" /\ h = panics
               \/ /\ g.record # <<>> /\ ~Declined(g, c, o) /\ ~(t = NoCard /\ o # "Qi")
                  /\ h \in Handled(Unset(g), g.turnTask, c, o, t)
  <1>. DEFINE t == MeantCard(g, c, o, n)
              old == g.turnTask
  <1>1. CASE g.record = <<>>
    BY <1>1, Zenon DEF OnGameTurnOperate
  <1>2. CASE g.record # <<>> /\ Declined(g, c, o)
    <2>1. h \in {g}
      BY <1>2, Zenon DEF OnGameTurnOperate, Declined
    <2>. QED  BY <1>2, <2>1
  <1>3. CASE g.record # <<>> /\ ~Declined(g, c, o)
    <2>1. h \in UNION {IF u = NoCard /\ o # "Qi" THEN {[g EXCEPT !.down = TRUE]}
                       ELSE UNION {Handled(a, old, c, o, u) : a \in {[g EXCEPT !.turnTask = Off]}}
                       : u \in {t}}
      BY <1>3, Zenon DEF OnGameTurnOperate, Declined
    <2>. HIDE DEF t, old
    <2>2. h \in IF t = NoCard /\ o # "Qi" THEN {[g EXCEPT !.down = TRUE]}
                ELSE UNION {Handled(a, old, c, o, t) : a \in {[g EXCEPT !.turnTask = Off]}}
      BY <2>1, Zenon
    <2>3. CASE t = NoCard /\ o # "Qi"
      BY <1>3, <2>2, <2>3, Zenon DEF t
    <2>4. CASE ~(t = NoCard /\ o # "Qi")
      <3>1. h \in UNION {Handled(a, old, c, o, t) : a \in {Unset(g)}}
        BY <2>2, <2>4, Zenon DEF Unset
      <3>2. h \in Handled(Unset(g), old, c, o, t)
        BY <3>1, Zenon
      <3>. QED  BY <1>3, <2>4, <3>2, Zenon DEF t, old
    <2>. QED  BY <2>3, <2>4
  <1>. QED  BY <1>1, <1>2, <1>3

\* An act of the player whose turn it is.
LEMMA TurnActGoes ==
    ASSUME NEW g, Turn(g), NEW c, c = g.cur, NEW o, o \in g.ops[c], NEW n,
           NEW t \in Cards, t = MeantCard(g, c, o, n),
           (t = NoCard /\ o # "Qi") => g.status # "Playing",
           (o = "GangBu" /\ TookPair(g, c)) => CardCount(g.hands[c], t) >= 1,
           NEW h \in OnGameTurnOperate(g, c, o, n)
    PROVE  Fine(h)
  <1>1. DOMAIN g = Fields /\ c \in Chairs /\ Own(g, c) /\ g.record # <<>>
        /\ g.hands[c] \in Seq(Kinds) /\ CardCount(g.hands[c], t) \in Nat
    BY TurnHas
  <1>2. o \in TurnActs
    BY <1>1 DEF Own
  <1>3. CASE Declined(g, c, o) /\ h = g
    <2>1. g.status # "Playing"
      BY <1>3 DEF Turn, Declined
    <2>. QED  BY <1>3, <2>1 DEF Fine, Good, TurnOpen
  <1>4. CASE t = NoCard /\ o # "Qi" /\ h = [g EXCEPT !.down = TRUE]
    BY <1>4, PanicAtTurn
  <1>5. CASE h \in Handled(Unset(g), g.turnTask, c, o, t)
    <2>. DEFINE q == Unset(g)
                old == g.turnTask
    <2>1. h \in Handled(q, old, c, o, t)
      BY <1>5
    <2>2. Turn(q) /\ q.turnTask = Off /\ q.cur = g.cur /\ q.hands = g.hands /\ q.status = g.status
          /\ q.ops = g.ops /\ q.record = g.record
      BY <1>1, UnsetIs, UnsetKeeps DEF SameBureau
    <2>. HIDE DEF q, old
    <2>3. c = q.cur
      BY <2>2
    <2>4. ASSUME o = "HuZi"
          PROVE  Fine(h)
      <3>1. h \in OnHuZi(q, c, t)
        BY <2>1, <2>3, <2>4 DEF Handled
      <3>2. q.status = "Playing" => CanWin(q, c)
        BY <2>2, <2>3, <2>4 DEF Turn
      <3>. QED  BY <2>2, <2>3, <3>1, <3>2, HuZiGoes
    <2>5. ASSUME o = "GangBu"
          PROVE  Fine(h)
      <3>1. h \in OnGangBu(q, old, c, t)
        BY <2>1, <2>3, <2>5 DEF Handled
      <3>2. /\ q.status = "Playing" => TookPair(q, c)
            /\ TookPair(q, c) => CardCount(q.hands[c], t) >= 1
        BY <2>2, <2>3, <2>5 DEF Turn, TookPair
      <3>. QED  BY <2>2, <2>3, <3>1, <3>2, GangBuGoes
    <2>6. ASSUME o = "GangZi"
          PROVE  Good(h)
      <3>1. h \in OnGangZi(q, old, c, t)
        BY <2>1, <2>3, <2>6 DEF Handled
      <3>2. CASE t \in Kinds
        BY <2>2, <2>3, <3>1, <3>2, GangZiGoes
      <3>3. CASE t \notin Kinds
        <4>1. CardCount(q.hands[c], t) = 0
          BY <1>1, <2>2, <3>3, OthersAreMissing
        <4>2. CardCount(q.hands[c], t) < 4
          BY <4>1
        <4>3. h = Refused(q)
          BY <3>1, <4>2 DEF OnGangZi
        <4>. QED  BY <2>2, <4>3, RefusedIsGood
      <3>. QED  BY <3>2, <3>3
    <2>7. ASSUME o = "Qi"
          PROVE  Good(h)
      <3>1. h \in OnQi(q, old, c, t)
        BY <2>1, <2>3, <2>7 DEF Handled
      <3>2. CASE CardCount(q.hands[c], t) = 0
        <4>1. h = Refused(q)
          BY <3>1, <3>2 DEF OnQi
        <4>. QED  BY <2>2, <4>1, RefusedIsGood
      <3>3. CASE CardCount(q.hands[c], t) # 0
        <4>1. t \in Kinds
          BY <1>1, <2>2, <3>3, OthersAreMissing
        <4>2. CardCount(q.hands[c], t) >= 1
          <5>. DEFINE k == CardCount(q.hands[c], t)
          <5>1. k # 0 /\ k \in Nat
            BY <1>1, <2>2, <3>3
          <5>. HIDE DEF k
          <5>2. k >= 1
            BY <5>1
          <5>. QED  BY <5>2 DEF k
        <4>. QED  BY <2>2, <2>3, <3>1, <4>1, <4>2, QiGoes
      <3>. QED  BY <3>2, <3>3
    <2>. QED  BY <1>2, <2>4, <2>5, <2>6, <2>7 DEF TurnActs, Fine
  <1>. QED  BY <1>1, <1>3, <1>4, <1>5, ActUnfolds, Zenon

\* An act of the player who has a claim.
LEMMA ClaimActGoes ==
    ASSUME NEW g, NEW c, ClaimOpen(g, c), NEW o, o \in g.ops[c],
           NEW n \in Cards, NEW h \in OnGameTurnOperate(g, c, o, n)
    PROVE  Good(h)
  <1>. DEFINE t == MeantCard(g, c, o, n)
              q == Unset(g)
              old == g.turnTask
  <1>1. DOMAIN g = Fields /\ c \in Chairs /\ Claims(g, c) /\ c # g.cur
        /\ LastOf(g.record).card \in Kinds /\ g.record # <<>> /\ g.hands[c] \in Seq(Kinds)
    BY ClaimHas
  <1>2. o \in ClaimActs /\ o # "Qi"
    BY <1>1 DEF Claims, ClaimActs
  <1>3. t \in Cards /\ t # NoCard
    <2>1. t = IF n # NoCard THEN n ELSE LastOf(g.record).card
      BY <1>2 DEF MeantCard, ClaimActs
    <2>. QED  BY <1>1, <2>1, TilesAreNumbers, KindsAreCards
  <1>4. h \in Handled(q, old, c, o, t)
    <2>1. ~Declined(g, c, o)
      BY <1>2 DEF Declined
    <2>. QED  BY <1>1, <1>3, <2>1, ActUnfolds
  <1>5. ClaimOpen(q, c) /\ q.cur = g.cur /\ q.hands = g.hands
    BY <1>1, UnsetIs, UnsetKeeps
  <1>. HIDE DEF q, old, t
  <1>6. q.cur # c
    BY <1>1, <1>5
  <1>7. t \notin Kinds => CardCount(q.hands[c], t) = 0
    BY <1>1, <1>5, OthersAreMissing
  <1>8. ASSUME o = "Peng"
        PROVE  Good(h)
    <2>1. h \in OnPeng(q, c, t)
      BY <1>4, <1>6, <1>8 DEF Handled
    <2>2. CASE t \in Kinds
      BY <1>5, <2>1, <2>2, PengGoes
    <2>3. CASE t \notin Kinds
      <3>1. CardCount(q.hands[c], t) < 2
        BY <1>7, <2>3
      <3>2. h = q
        BY <2>1, <3>1 DEF OnPeng
      <3>. QED  BY <1>1, <1>5, <3>2 DEF Good
    <2>. QED  BY <2>2, <2>3
  <1>9. ASSUME o = "GangChi"
        PROVE  Good(h)
    <2>1. h \in OnGangChi(q, old, c, t)
      BY <1>4, <1>6, <1>9 DEF Handled
    <2>2. CASE t \in Kinds
      BY <1>5, <2>1, <2>2, GangChiGoes
    <2>3. CASE t \notin Kinds
      <3>1. CardCount(q.hands[c], t) < 3
        BY <1>7, <2>3
      <3>2. h = q
        BY <2>1, <3>1 DEF OnGangChi
      <3>. QED  BY <1>1, <1>5, <3>2 DEF Good
    <2>. QED  BY <2>2, <2>3
  <1>10. ASSUME o = "Guo"
         PROVE  Good(h)
    <2>1. h \in OnGuo(q, old, c, t)
      BY <1>4, <1>6, <1>10 DEF Handled
    <2>2. h \in SetTurn(Passed(q, c, t), old, After(q.cur))
      <3>1. h \in UNION {SetTurn(a, old, After(q.cur)) : a \in {Passed(q, c, t)}}
        BY <2>1, Zenon DEF OnGuo, Passed
      <3>. QED  BY <3>1
    <2>. QED  BY <1>3, <1>5, <2>2, GuoGoes
  <1>. QED  BY <1>2, <1>8, <1>9, <1>10 DEF ClaimActs

-----------------------------------------------------------------------------
(* Steps that leave the bureau where it is. *)

\* Timers that are started leave a turn with what ends it.
Later(g, h) == (h.late = 0 /\ ~h.refused) => (~g.refused /\ (Timed(g) => Timed(h)))

\* So is a game in which every stage has what ends it.
LEMMA SameIsGood ==
    ASSUME NEW g, Good(g), NEW h, Same(g, h), Later(g, h)
    PROVE  Good(h)
  <1>1. TurnOpen(g) => TurnOpen(h)
    <2>1. h.status = g.status /\ h.late = g.late
      BY DEF Same, SameBureau
    <2>2. Turn(g) => Turn(h)
      BY SameStage
    <2>. QED  BY <2>1, <2>2, Zenon DEF TurnOpen, Later
  <1>2. \A c : ClaimOpen(g, c) => ClaimOpen(h, c)
    BY SameStage
  <1>3. (Idle(g) => Idle(h)) /\ (Dealt(g) => Dealt(h)) /\ (Shown(g) => Shown(h))
    BY SameStage
  <1>. QED  BY <1>1, <1>2, <1>3, Zenon DEF Good

\* What a game that ended still shows depends on little of it.
Still(g, h) ==
    /\ h.ops = g.ops /\ h.status = g.status /\ h.hands = g.hands /\ h.cur = g.cur
    /\ h.record = g.record /\ h.settled = g.settled /\ h.down = g.down /\ h.deck = g.deck
    /\ h.claimTask \in {g.claimTask, {}}

\* It is as safe as it was.
LEMMA StillSafe ==
    ASSUME NEW g, Safe(g), NEW h, Still(g, h)
    PROVE  Safe(h)
  <1>1. Claiming(h) = Claiming(g) /\ (EndedOnGang(h) <=> EndedOnGang(g))
    BY DEF Still, Claiming, EndedOnGang
  <1>2. h.claimTask \subseteq Claiming(h)
    BY <1>1 DEF Still, Safe
  <1>. QED  BY <1>1, <1>2, Zenon DEF Still, Safe

\* A game that was dismissed stays so.
LEMMA EndedStays ==
    ASSUME NEW g, Ended(g), ~g.down, NEW h, Still(g, h), DOMAIN h = Fields,
           h.dismissed = g.dismissed
    PROVE  Ended(h)
  <1>1. Safe(h)
    BY StillSafe DEF Ended
  <1>. QED  BY <1>1 DEF Ended, Still

\* A player who has a claim is the only one.
LEMMA OneIsClaiming ==
    ASSUME NEW g, NEW c \in Chairs, Claims(g, c)
    PROVE  Claiming(g) = {c} /\ Cardinality(Claiming(g)) = 1
  <1>1. Claiming(g) = {c}
    BY DEF Claims, Only, Claiming
  <1>. QED  BY <1>1, FS_Singleton

\* Nobody has a claim at a turn.
LEMMA NobodyIsClaiming ==
    ASSUME NEW g, Nobody(g) \/ \E c \in Chairs : Own(g, c)
    PROVE  Claiming(g) = {} /\ Cardinality(Claiming(g)) = 0
  <1>1. Claiming(g) = {}
    BY DEF Nobody, Own, Only, TurnActs, Claiming
  <1>. QED  BY <1>1, FS_EmptySet

\* What the properties ask of a game holds at every stage.
LEMMA GoodIsSafe ==
    ASSUME NEW g, Good(g)
    PROVE  Safe(g)
  <1>1. ASSUME Idle(g) \/ Dealt(g) \/ Shown(g)
        PROVE  Safe(g)
    <2>1. /\ Nobody(g) /\ ~g.down /\ g.status # "Playing"
          /\ g.settled <= 1 \/ EndedOnGang(g)
      BY <1>1 DEF Idle, Dealt, Shown, Fresh, Typed
    <2>2. Cardinality(Claiming(g)) = 0 /\ g.claimTask = {}
      BY <2>1, NobodyIsClaiming DEF Nobody
    <2>3. Cardinality(Claiming(g)) <= 1 /\ g.claimTask \subseteq Claiming(g)
      BY <2>2
    <2>. QED  BY <2>1, <2>3, Zenon DEF Safe
  <1>2. ASSUME TurnOpen(g)
        PROVE  Safe(g)
    <2>1. Turn(g) /\ g.claimTask = {} /\ Own(g, g.cur) /\ g.cur \in Chairs /\ Live(g) /\ ~g.down
      BY <1>2 DEF TurnOpen, Turn, Open, Live, Typed
    <2>2. Claiming(g) = {} /\ Cardinality(Claiming(g)) = 0
      BY <2>1, NobodyIsClaiming
    <2>3. g.status = "Playing" =>
            \A c \in Chairs : Len(g.hands[c]) % 3 =
                (IF c = g.cur /\ Claiming(g) = {} THEN 2 ELSE 1)
      BY <2>1, <2>2 DEF Turn, Ahead
    <2>4. ~EndedOnGang(g) => g.settled <= 1
      BY <2>1 DEF Live
    <2>5. Cardinality(Claiming(g)) <= 1 /\ g.claimTask \subseteq Claiming(g)
      BY <2>1, <2>2
    <2>. QED  BY <2>1, <2>3, <2>4, <2>5, Zenon DEF Safe
  <1>3. ASSUME NEW e \in Chairs, ClaimOpen(g, e)
        PROVE  Safe(g)
    <2>1. Live(g) /\ ~g.down /\ Claims(g, e) /\ Even(g) /\ g.claimTask \subseteq {e}
      BY <1>3 DEF ClaimOpen, Open, Live, Typed
    <2>2. Claiming(g) = {e} /\ Cardinality(Claiming(g)) = 1
      BY <2>1, OneIsClaiming
    <2>3. g.status = "Playing" =>
            \A c \in Chairs : Len(g.hands[c]) % 3 =
                (IF c = g.cur /\ Claiming(g) = {} THEN 2 ELSE 1)
      BY <2>1, <2>2 DEF Even
    <2>4. ~EndedOnGang(g) => g.settled <= 1
      BY <2>1 DEF Live
    <2>5. Cardinality(Claiming(g)) <= 1 /\ g.claimTask \subseteq Claiming(g)
      BY <2>1, <2>2
    <2>. QED  BY <2>1, <2>3, <2>4, <2>5, Zenon DEF Safe
  <1>. QED  BY <1>1, <1>2, <1>3 DEF Good

\* What is fine is safe.
LEMMA FineIsSafe ==
    ASSUME NEW g, Fine(g)
    PROVE  Safe(g)
  BY GoodIsSafe DEF Fine, Ended

\* A dismissal ends a game at any stage.
LEMMA DismissEnds ==
    ASSUME NEW g, Good(g)
    PROVE  Ended(OnEventRoomDismiss(g))
  <1>. DEFINE h == OnEventRoomDismiss(g)
  <1>1. DOMAIN g = Fields /\ ~g.down
    BY DEF Good, Idle, Dealt, Shown, Fresh, TurnOpen, Turn, ClaimOpen, Open, Live, Typed
  <1>2. DOMAIN h = Fields /\ h.dismissed /\ h.claimTask = {} /\ Still(g, h) /\ ~h.down
    BY <1>1 DEF OnEventRoomDismiss, Still, Fields
  <1>. HIDE DEF h
  <1>3. Safe(h)
    BY <1>2, GoodIsSafe, StillSafe
  <1>. QED  BY <1>2, <1>3 DEF Ended, h

\* An act before the first record ends the process.
LEMMA EarlyEnds ==
    ASSUME NEW g, Good(g), g.record = <<>>
    PROVE  Ended([g EXCEPT !.down = TRUE])
  <1>. DEFINE h == [g EXCEPT !.down = TRUE]
  <1>1. DOMAIN g = Fields /\ ~g.dismissed
    BY DEF Good, Idle, Dealt, Shown, Fresh, TurnOpen, Turn, ClaimOpen, Open, Live, Typed
  <1>2. /\ DOMAIN h = Fields /\ h.down /\ h.ops = g.ops /\ h.claimTask = g.claimTask
        /\ h.record = g.record /\ h.settled = g.settled /\ h.dismissed = g.dismissed
    BY <1>1 DEF Fields
  <1>. HIDE DEF h
  <1>3. Claiming(h) = Claiming(g) /\ (EndedOnGang(h) <=> EndedOnGang(g))
    BY <1>2 DEF Claiming, EndedOnGang
  <1>4. Safe(g)
    BY GoodIsSafe
  <1>5. h.claimTask \subseteq Claiming(h)
    BY <1>2, <1>3, <1>4 DEF Safe
  <1>6. Safe(h)
    BY <1>2, <1>3, <1>4, <1>5, Zenon DEF Safe
  <1>. QED  BY <1>1, <1>2, <1>6 DEF Ended, h

-----------------------------------------------------------------------------
(* The room starts and ends bureaus. *)

\* Ready users change nothing else.
Readied(g, users) == [g EXCEPT !.ready = @ \cup users]

\* A new bureau is dealt.
LEMMA BureauStarts ==
    ASSUME NEW g, Idle(g), NEW deck \in Decks[g.bureau + 1]
    PROVE  Dealt(StartGame(g, deck))
  <1>. DEFINE first == IF g.bureau = 0 THEN 0
                       ELSE IF g.winner # Off THEN g.winner ELSE After(g.banker)
              h == StartGame(g, deck)
              bureau == g.bureau + 1
  <1>1. Fresh(g) /\ Typed(g) /\ DOMAIN g = Fields
    BY DEF Idle, Fresh, Typed
  <1>2. g.bureau + 1 \in 1 .. MaxBureau
    BY MjAssumption DEF Idle, Fresh, Typed
  <1>3. /\ deck \in Seq(Kinds) /\ Len(deck) >= ChairCount * HandSize
        /\ \A t \in Kinds : CardCount(deck, t) <= 4
    BY <1>2, MjAssumption
  <1>4. /\ Deck(deck) \in Seq(Kinds) /\ Hands(deck) \in [Chairs -> Seq(Kinds)]
        /\ \A c \in Chairs : Len(Hands(deck)[c]) = HandSize
        /\ FourOfEach(Hands(deck), Deck(deck))
    BY <1>3, DealIsFair
  <1>5. first \in Chairs
    <2>1. 0 \in Chairs
      BY MjAssumption DEF Chairs
    <2>2. g.winner \in Chairs \cup {Off} /\ After(g.banker) \in Chairs
      BY <1>1, AfterIsChair DEF Typed
    <2>. QED  BY <2>1, <2>2
  <1>6. h = [g EXCEPT !.started = TRUE, !.ready = {}, !.status = "Dices",
               !.bureau = bureau, !.banker = first, !.hands = Hands(deck),
               !.deck = Deck(deck), !.claimTask = {},
               !.prepareTask = FALSE, !.trustTask = CanTrust, !.cards = TRUE]
    BY <1>1, Zenon DEF StartGame, Hands, Deck
  <1>. HIDE DEF first, h, bureau
  <1>7. /\ DOMAIN h = Fields /\ h.started /\ h.status = "Dices" /\ h.bureau = bureau
        /\ h.banker = first /\ h.hands = Hands(deck) /\ h.deck = Deck(deck)
        /\ h.claimTask = {} /\ h.trustTask = CanTrust /\ h.cards
        /\ h.stray = g.stray /\ h.dismissed = g.dismissed /\ h.down = g.down
        /\ h.ends = g.ends /\ h.settled = g.settled /\ h.late = g.late
        /\ h.winner = g.winner /\ h.ops = g.ops /\ h.record = g.record
        /\ h.turnLost = g.turnLost /\ h.gang = g.gang
    BY <1>1, <1>6 DEF Fields
  <1>8. Typed(h)
    <2>1. bureau \in Nat
      BY <1>2 DEF bureau
    <2>. QED  BY <1>1, <1>4, <1>5, <1>7, <2>1, Zenon DEF Typed
  <1>9. Fresh(h)
    BY <1>1, <1>7, <1>8 DEF Fresh, Nobody
  <1>. QED  BY <1>4, <1>5, <1>7, <1>9 DEF Dealt, h

\* Users are ready: the last one starts a bureau.
LEMMA UsersAreReady ==
    ASSUME NEW g, Fine(g), ~g.down, NEW users, NEW deck,
           g.bureau < MaxBureau => deck \in Decks[g.bureau + 1]
    PROVE  Fine(UserReady(g, users, deck))
  <1>1. CASE g.dismissed \/ g.started
    BY <1>1, Zenon DEF UserReady
  <1>2. CASE ~g.dismissed /\ ~g.started
    <2>1. Idle(g)
      BY <1>2 DEF Fine, Ended, Good, Dealt, Shown, TurnOpen, Turn, ClaimOpen, Open, Live
    <2>. DEFINE q == Readied(g, users)
                all == g.ready \cup users
    <2>2. UserReady(g, users, deck) = IF all = Chairs THEN StartGame(q, deck) ELSE q
      <3>1. UserReady(g, users, deck) = IF q.ready = Chairs THEN StartGame(q, deck) ELSE q
        BY <1>2, Zenon DEF UserReady, Readied
      <3>2. q.ready = all
        BY <2>1 DEF Readied, Idle, Fresh, Typed, Fields
      <3>. QED  BY <3>1, <3>2, Zenon
    <2>3. Same(g, q) /\ q.bureau = g.bureau
      <3>1. q = [g EXCEPT !.ready = all]
        BY Zenon DEF Readied
      <3>2. DOMAIN g = Fields
        BY <2>1 DEF Idle, Fresh, Typed
      <3>. HIDE DEF q
      <3>. QED  BY <3>1, <3>2 DEF Fields, Same, SameBureau, Kept
    <2>. HIDE DEF q, all
    <2>4. Idle(q)
      BY <2>1, <2>3, SameStage
    <2>5. deck \in Decks[q.bureau + 1]
      BY <2>1, <2>3 DEF Idle
    <2>6. Dealt(StartGame(q, deck))
      BY <2>4, <2>5, BureauStarts
    <2>. QED  BY <2>2, <2>4, <2>6 DEF Fine, Good
  <1>. QED  BY <1>1, <1>2

\* The bureau's timer ends it: the next one may start, or the room is
\* dismissed, or a timer or a claim's task strays into the next one.
LEMMA BureauEnds ==
    ASSUME NEW g, DOMAIN g = Fields, g.started, g.stray = FALSE, ~g.dismissed, ~g.down,
           g.bureau \in Nat, g.late \in Nat, g.late = 0 => g.turnLost = {},
           g.banker \in Chairs \cup {Off}, g.winner \in Chairs \cup {Off},
           g.deck \in Seq(Kinds), g.ends = 0, g.claimTask = {}, ~g.cards
    PROVE  Fine(ResetGame(ConcludeGame(g)))
  <1>. DEFINE q == [g EXCEPT !.started = FALSE, !.ready = {}]
              p == ConcludeGame(g)
              none == [c \in Chairs |-> {}]
              empty == [c \in Chairs |-> <<>>]
              h == ResetGame(p)
  <1>1. p = IF g.bureau >= MaxBureau THEN OnEventRoomDismiss(q) ELSE q
    BY Zenon DEF ConcludeGame
  <1>2. /\ DOMAIN q = Fields /\ ~q.started /\ ~q.dismissed /\ q.bureau = g.bureau
        /\ q.stray = g.stray /\ q.down = g.down /\ q.late = g.late /\ q.turnLost = g.turnLost
        /\ q.banker = g.banker /\ q.winner = g.winner /\ q.deck = g.deck /\ q.ends = g.ends
        /\ q.claimTask = g.claimTask /\ q.cards = g.cards
    BY DEF Fields
  <1>. HIDE DEF q
  <1>3. /\ DOMAIN p = Fields /\ ~p.started /\ (p.dismissed <=> g.bureau >= MaxBureau)
        /\ p.bureau = g.bureau /\ p.stray = g.stray /\ p.down = g.down /\ p.late = g.late
        /\ g.late = 0 => p.turnLost = {}
        /\ p.banker = g.banker /\ p.winner = g.winner
        /\ p.deck = g.deck /\ p.ends = g.ends /\ p.claimTask = {} /\ p.cards = g.cards
    <2>1. CASE g.bureau >= MaxBureau
      <3>1. p = [q EXCEPT !.dismissed = TRUE, !.claimTask = {}, !.trustTask = FALSE,
                          !.turnTask = Off, !.prepareTask = FALSE]
        BY <1>1, <2>1 DEF OnEventRoomDismiss
      <3>. HIDE DEF p
      <3>. QED  BY <1>2, <2>1, <3>1 DEF Fields
    <2>2. CASE ~(g.bureau >= MaxBureau)
      BY <1>1, <1>2, <2>2
    <2>. QED  BY <2>1, <2>2
  <1>. HIDE DEF p
  <1>4. h = [p EXCEPT !.status = "None", !.cur = Off, !.gang = Off, !.ops = none,
                      !.record = <<>>, !.hands = empty, !.settled = 0]
    BY Zenon DEF ResetGame
  <1>. HIDE DEF h
  <1>5. /\ DOMAIN h = Fields /\ ~h.started /\ (h.dismissed <=> g.bureau >= MaxBureau)
        /\ h.bureau = g.bureau /\ h.stray = g.stray /\ h.down = g.down /\ h.late = g.late
        /\ g.late = 0 => h.turnLost = {}
        /\ h.banker = g.banker /\ h.winner = g.winner
        /\ h.deck = g.deck /\ h.ends = g.ends /\ h.claimTask = {} /\ h.cards = g.cards
        /\ h.status = "None" /\ h.gang = Off /\ h.ops = none /\ h.record = <<>>
        /\ h.hands = empty /\ h.settled = 0
    <2>. HIDE DEF none, empty
    <2>. QED  BY <1>3, <1>4 DEF Fields
  <1>6. Nobody(h)
    BY <1>5 DEF Nobody
  <1>7. ASSUME h.dismissed
        PROVE  Ended(h)
    <2>1. Cardinality(Claiming(h)) = 0
      BY <1>6, NobodyIsClaiming
    <2>2. Cardinality(Claiming(h)) <= 1 /\ h.claimTask \subseteq Claiming(h)
      BY <1>5, <2>1
    <2>3. Safe(h)
      <3>1. h.settled <= 1 /\ h.status # "Playing" /\ ~h.down
        BY <1>5
      <3>. QED  BY <2>2, <3>1, Zenon DEF Safe
    <2>. QED  BY <1>5, <1>7, <2>3 DEF Ended
  <1>8. ASSUME ~h.dismissed
        PROVE  Idle(h)
    <2>1. none \in [Chairs -> SUBSET OperateType] /\ empty \in [Chairs -> Seq(Kinds)]
      BY DEF OperateType
    <2>2. h.ends \in Nat /\ h.settled \in Nat /\ h.record \in Seq(OperateRecord)
      BY <1>5
    <2>3. Typed(h)
      BY <1>5, <1>8, <2>1, <2>2, Zenon DEF Typed
    <2>4. Fresh(h)
      BY <1>5, <1>6, <2>3, Zenon DEF Fresh
    <2>5. g.bureau < MaxBureau
      BY <1>5, <1>8, MjAssumption
    <2>. QED  BY <1>5, <1>8, <2>4, <2>5 DEF Idle
  <1>. QED  BY <1>7, <1>8 DEF Fine, Good, h, p

\* A game whose result was shown, once or after the tiles ran out.
LEMMA ShownHas ==
    ASSUME NEW g, Good(g), g.ends > 0
    PROVE  Typed(g) /\ g.started /\ ~g.cards
  BY DEF Good, Idle, Dealt, Fresh, Shown, TurnOpen, Turn, ClaimOpen, Open, Live

-----------------------------------------------------------------------------
(* The steps of the room and of the timers. *)

\* The timer of the result.
LEMMA EndTimerIsFine ==
    ASSUME Fine(game), ~game.down, EndTimer
    PROVE  DOMAIN game' = Fields /\ (Fine(game') \/ game'.stray)
  <1>. DEFINE g == game
              ends == game.ends - 1
              h == [game EXCEPT !.ends = @ - 1]
              p == ResetGame(ConcludeGame(h))
              stray == p.stray \/ h.ends > 0 \/ h.claimTask # {}
  <1>1. g.ends > 0 /\ game' = IF g.dismissed THEN h ELSE [p EXCEPT !.stray = stray]
    BY Zenon DEF EndTimer
  <1>2. DOMAIN g = Fields
    BY DEF Fine, Good, Ended, Idle, Dealt, Shown, Fresh, TurnOpen, Turn, ClaimOpen, Open, Live, Typed
  <1>3. /\ DOMAIN h = Fields /\ h.ends = ends /\ Still(g, h) /\ Kept(g, h)
        /\ h.late = g.late /\ h.turnLost = g.turnLost /\ h.winner = g.winner
    BY <1>2 DEF Fields, Still, Kept
  <1>4. CASE g.dismissed
    <2>1. game' = h /\ Ended(g)
      BY <1>1, <1>4 DEF Fine, Good, Idle, Dealt, Shown, Fresh, TurnOpen, Turn, ClaimOpen, Open, Live, Typed
    <2>2. h.dismissed = g.dismissed /\ DOMAIN h = Fields /\ Still(g, h)
      BY <1>3 DEF Kept
    <2>. HIDE DEF h
    <2>3. Ended(h)
      BY <2>1, <2>2, EndedStays
    <2>. QED  BY <1>3, <2>1, <2>3 DEF Fine
  <1>5. CASE ~g.dismissed
    <2>1. Good(g)
      BY <1>5 DEF Fine, Ended
    <2>2. Typed(g) /\ g.started /\ ~g.cards
      BY <1>1, <2>1, ShownHas
    <2>. HIDE DEF h
    <2>3. /\ h.started /\ h.stray = FALSE /\ ~h.dismissed /\ ~h.down /\ ~h.cards
          /\ h.bureau \in Nat /\ h.late \in Nat /\ (h.late = 0 => h.turnLost = {})
          /\ h.banker \in Chairs \cup {Off} /\ h.winner \in Chairs \cup {Off}
          /\ h.deck \in Seq(Kinds) /\ h.ends \in Nat
      <3>1. g.ends \in Nat /\ g.ends > 0
        BY <1>1, <2>2 DEF Typed
      <3>2. ends \in Nat
        BY <3>1
      <3>. QED  BY <1>3, <2>2, <3>2, Zenon DEF Typed, Kept, Still
    <2>4. DOMAIN p = Fields
      <3>1. DOMAIN ConcludeGame(h) = DOMAIN h
        BY DEF ConcludeGame, OnEventRoomDismiss
      <3>. QED  BY <1>3, <3>1 DEF ResetGame
    <2>5. CASE h.ends = 0 /\ h.claimTask = {}
      <3>1. Fine(p)
        BY <1>3, <2>3, <2>5, BureauEnds
      <3>2. Typed(p) \/ Ended(p)
        BY <3>1 DEF Fine, Good, Idle, Dealt, Shown, Fresh, TurnOpen, Turn, ClaimOpen, Open, Live
      <3>3. p.stray = h.stray
        <4>1. ConcludeGame(h).stray = h.stray /\ DOMAIN ConcludeGame(h) = Fields
          <5>1. "stray" \in DOMAIN h /\ DOMAIN h = Fields
            BY <1>3 DEF Fields
          <5>. QED  BY <5>1 DEF ConcludeGame, OnEventRoomDismiss
        <4>. DEFINE q == ConcludeGame(h)
        <4>. HIDE DEF q
        <4>2. "stray" \in DOMAIN q
          BY <4>1 DEF Fields, q
        <4>3. ResetGame(q).stray = q.stray
          BY <4>2 DEF ResetGame
        <4>. QED  BY <4>1, <4>3 DEF q
      <3>4. p.stray = FALSE /\ stray = FALSE
        <4>1. p.stray = FALSE
          <5>. HIDE DEF p
          <5>. QED  BY <2>3, <3>3
        <4>. QED  BY <2>5, <4>1
      <3>6. p = [x \in DOMAIN p |-> p[x]]
        BY DEF ResetGame
      <3>. HIDE DEF p
      <3>5. [p EXCEPT !.stray = FALSE] = p
        BY <2>4, <3>4, <3>6
      <3>. QED  BY <1>1, <1>5, <2>4, <3>1, <3>4, <3>5
    <2>6. CASE ~(h.ends = 0 /\ h.claimTask = {})
      <3>1. stray
        BY <2>3, <2>6
      <3>. HIDE DEF p, stray
      <3>2. game' = [p EXCEPT !.stray = stray] /\ "stray" \in DOMAIN p
        BY <1>1, <1>5, <2>4 DEF Fields
      <3>. QED  BY <2>4, <3>1, <3>2
    <2>. QED  BY <2>5, <2>6
  <1>. QED  BY <1>4, <1>5

\* The first player draws when the hands were sent.
LEMMA CardsTimerIsFine ==
    ASSUME Fine(game), ~game.down, CardsTimer
    PROVE  Fine(game')
  <1>. DEFINE h == [game EXCEPT !.cards = FALSE]
              g == [h EXCEPT !.status = "Playing"]
  <1>1. game.cards /\ IF game.dismissed THEN game' = h
                      ELSE \E a \in {g} : game' \in SetTurn(a, a.turnTask, a.banker)
    BY Zenon DEF CardsTimer
  <1>2. DOMAIN game = Fields
    BY DEF Fine, Good, Ended, Idle, Dealt, Shown, Fresh, TurnOpen, Turn, ClaimOpen, Open, Live, Typed
  <1>3. CASE game.dismissed
    <2>1. game' = h /\ Ended(game)
      BY <1>1, <1>3 DEF Fine, Good, Idle, Dealt, Shown, Fresh, TurnOpen, Turn, ClaimOpen, Open, Live, Typed
    <2>2. Still(game, h) /\ h.dismissed = game.dismissed /\ DOMAIN h = Fields
      BY <1>2 DEF Fields, Still
    <2>. HIDE DEF h
    <2>. QED  BY <2>1, <2>2, EndedStays DEF Fine
  <1>4. CASE ~game.dismissed
    <2>1. Dealt(game)
      BY <1>1, <1>4 DEF Fine, Ended, Good, Idle, Shown, TurnOpen, Turn, ClaimOpen, Open, Live
    <2>2. Fresh(game) /\ Typed(game)
      BY <2>1 DEF Dealt, Fresh
    <2>3. game' \in SetTurn(g, g.turnTask, g.banker)
      BY <1>1, <1>4
    <2>4. /\ DOMAIN g = Fields /\ g.status = "Playing" /\ ~g.cards
          /\ g.stray = game.stray /\ g.dismissed = game.dismissed /\ g.down = game.down
          /\ g.started = game.started /\ g.trustTask = game.trustTask
          /\ g.bureau = game.bureau /\ g.ends = game.ends /\ g.settled = game.settled
          /\ g.late = game.late /\ g.banker = game.banker /\ g.winner = game.winner
          /\ g.deck = game.deck /\ g.hands = game.hands /\ g.ops = game.ops
          /\ g.record = game.record /\ g.turnLost = game.turnLost /\ g.gang = game.gang
          /\ g.claimTask = game.claimTask
      BY <1>2 DEF Fields
    <2>. HIDE DEF g
    <2>5. Typed(g)
      BY <1>2, <2>2, <2>4, Zenon DEF Typed
    <2>6. NoWins(g)
      BY <2>2, <2>4 DEF NoWins, Fresh
    <2>7. Live(g)
      BY <2>1, <2>2, <2>4, <2>5, <2>6, Zenon DEF Live, Dealt, Fresh
    <2>8. Even(g)
      BY <2>1, <2>4, MjAssumption DEF Even, Dealt
    <2>9. ToDraw(g, g.banker)
      BY <2>1, <2>2, <2>4, <2>7, <2>8, Zenon DEF ToDraw, Only, Fresh, Nobody, Dealt
    <2>. QED  BY <2>3, <2>9, TurnIsSet DEF Fine
  <1>. QED  BY <1>3, <1>4

\* Fine games have the fields of the frame, and end when they are dismissed.
LEMMA FineHas ==
    ASSUME NEW g, Fine(g), ~g.down
    PROVE  /\ DOMAIN g = Fields
           /\ g.dismissed => Ended(g)
           /\ ~g.dismissed => Good(g)
  <1>1. Good(g) => Typed(g)
    BY DEF Good, Idle, Dealt, Shown, Fresh, TurnOpen, Turn, ClaimOpen, Open, Live
  <1>. QED  BY <1>1 DEF Fine, Ended, Typed

\* A game that changes only in the players' timers and tasks stays fine.
LEMMA SameIsFine ==
    ASSUME NEW g, Fine(g), ~g.down, NEW h, Same(g, h), Good(g) => Later(g, h)
    PROVE  Fine(h)
  <1>1. DOMAIN h = DOMAIN g /\ h.dismissed = g.dismissed /\ Still(g, h)
    BY DEF Same, SameBureau, Kept, Still
  <1>2. CASE g.dismissed
    <2>1. Ended(g) /\ DOMAIN g = Fields
      BY <1>2, FineHas
    <2>. QED  BY <1>1, <2>1, EndedStays DEF Fine
  <1>3. CASE ~g.dismissed
    <2>1. Good(g)
      BY <1>3, FineHas
    <2>. QED  BY <2>1, SameIsGood DEF Fine
  <1>. QED  BY <1>2, <1>3

\* The task of a turn starts the timer that acts for its player.
LEMMA TurnTaskIsFine ==
    ASSUME Fine(game), ~game.down, TurnTask
    PROVE  Fine(game')
  <1>. DEFINE autos == game.autos \cup {game.turnTask}
  <1>1. DOMAIN game = Fields /\ game' = [game EXCEPT !.autos = autos, !.turnTask = Off]
    BY FineHas DEF TurnTask
  <1>2. Same(game, game') /\ game'.autos = autos /\ game'.cur = game.cur /\ game'.record = game.record
        /\ game'.refused = game.refused
    <2>. HIDE DEF autos
    <2>. QED  BY <1>1 DEF Same, SameBureau, Kept, Fields
  <1>3. Later(game, game')
    BY <1>2 DEF Later, Timed
  <1>. QED  BY <1>2, <1>3, SameIsFine

\* So does one that lost its pointer: its token was read too late.
LEMMA TurnLostIsFine ==
    ASSUME Fine(game), ~game.down, NEW c \in Chairs, TurnLost(c)
    PROVE  Fine(game')
  <1>. DEFINE autos == game.autos \cup {c}
  <1>1. DOMAIN game = Fields /\ game' = [game EXCEPT !.autos = autos, !.turnTask = Off]
    BY FineHas DEF TurnLost
  <1>2. Same(game, game') /\ game'.late = game.late
    <2>. HIDE DEF autos
    <2>. QED  BY <1>1 DEF Same, SameBureau, Kept, Fields
  <1>3. Good(game) => game.late # 0
    BY DEF TurnLost, Good, Idle, Dealt, Shown, Fresh, TurnOpen, Turn, ClaimOpen, Open, Live, Typed
  <1>. QED  BY <1>2, <1>3, SameIsFine DEF Later

\* A player hands over to the server, or the server takes over for him.
LEMMA TrustingIsFine ==
    ASSUME Fine(game), ~game.down, NEW c \in Chairs, NEW on \in BOOLEAN,
           game' = Trusting(game, c, on)
    PROVE  Fine(game')
  <1>. DEFINE trust == IF on THEN game.trust \cup {c} ELSE game.trust \ {c}
              autos == IF on THEN game.autos \cup {c} ELSE game.autos
  <1>1. DOMAIN game = Fields /\ game' = [game EXCEPT !.trust = trust, !.autos = autos]
    BY FineHas, Zenon DEF Trusting
  <1>2. game.autos \subseteq autos
    OBVIOUS
  <1>. HIDE DEF trust, autos
  <1>3. Same(game, game') /\ game'.autos = autos /\ game'.cur = game.cur
        /\ game'.record = game.record /\ game'.turnTask = game.turnTask
        /\ game'.refused = game.refused
    BY <1>1 DEF Same, SameBureau, Kept, Fields
  <1>4. Later(game, game')
    BY <1>2, <1>3 DEF Later, Timed
  <1>. QED  BY <1>3, <1>4, SameIsFine

\* A tile is asked for.
LEMMA GetCardIsFine ==
    ASSUME Fine(game), ~game.down, NEW c \in Chairs, GetCard(c)
    PROVE  Fine(game')
  <1>1. PICK e \in TestCards : game' = [game EXCEPT !.test[c] = e[2]]
    BY DEF GetCard
  <1>. DEFINE test == [game.test EXCEPT ![c] = e[2]]
  <1>2. DOMAIN game = Fields /\ game' = [game EXCEPT !.test = test]
    BY <1>1, FineHas
  <1>3. Same(game, game') /\ game'.autos = game.autos /\ game'.cur = game.cur
        /\ game'.record = game.record /\ game'.turnTask = game.turnTask
        /\ game'.refused = game.refused
    <2>. HIDE DEF test
    <2>. QED  BY <1>2 DEF Same, SameBureau, Kept, Fields
  <1>4. Later(game, game')
    BY <1>3 DEF Later, Timed
  <1>. QED  BY <1>3, <1>4, SameIsFine

\* The deck that is shuffled is one of the bureau's.
LEMMA ShufflesAre ==
    ASSUME NEW deck \in Shuffles
    PROVE  game.bureau < MaxBureau => deck \in Decks[game.bureau + 1]
  BY DEF Shuffles

\* A user is ready.
LEMMA ReadyIsFine ==
    ASSUME Fine(game), ~game.down, NEW c \in Chairs, Ready(c)
    PROVE  Fine(game')
  <1>1. PICK deck \in Shuffles : game' = UserReady(game, {c}, deck)
    BY DEF Ready
  <1>2. game.bureau < MaxBureau => deck \in Decks[game.bureau + 1]
    BY ShufflesAre
  <1>. QED  BY <1>1, <1>2, UsersAreReady

\* The task that makes all users ready for the next bureau.
LEMMA PrepareTaskIsFine ==
    ASSUME Fine(game), ~game.down, PrepareTask
    PROVE  Fine(game')
  <1>. DEFINE h == [game EXCEPT !.prepareTask = FALSE]
  <1>1. PICK deck \in Shuffles :
            game' = IF h.status = "None" THEN UserReady(h, Chairs, deck) ELSE h
    BY Zenon DEF PrepareTask
  <1>2. DOMAIN game = Fields
    BY FineHas
  <1>3. /\ Same(game, h) /\ h.autos = game.autos /\ h.cur = game.cur
        /\ h.record = game.record /\ h.turnTask = game.turnTask /\ h.bureau = game.bureau
        /\ h.refused = game.refused /\ ~h.down
    BY <1>2 DEF Same, SameBureau, Kept, Fields
  <1>. HIDE DEF h
  <1>4. Later(game, h)
    BY <1>3 DEF Later, Timed
  <1>5. Fine(h)
    BY <1>3, <1>4, SameIsFine
  <1>6. h.bureau < MaxBureau => deck \in Decks[h.bureau + 1]
    BY <1>3, ShufflesAre
  <1>7. Fine(UserReady(h, Chairs, deck))
    BY <1>3, <1>5, <1>6, UsersAreReady
  <1>. QED  BY <1>1, <1>5, <1>7

\* A dismissal.
LEMMA DismissIsFine ==
    ASSUME Fine(game), ~game.down, Dismiss
    PROVE  Fine(game')
  BY FineHas, DismissEnds DEF Dismiss, Fine

-----------------------------------------------------------------------------
(* What no handler changes, also of a game with a stray timer. *)

\* What is left alone twice is left alone.
LEMMA KeptTwice ==
    ASSUME NEW g, NEW q, NEW h, Kept(g, q), Kept(q, h)
    PROVE  Kept(g, h)
  BY Zenon DEF Kept

\* A tile that the hand lacks may be laid: that is remembered.
Grown(g, h) == DOMAIN h = DOMAIN g /\ (g.stray => h.stray) /\ h.bureau = g.bureau

\* What leaves the bureau alone remembers it too.
LEMMA GrownTwice ==
    ASSUME NEW g, NEW q, NEW h, Kept(g, q) \/ Grown(g, q), Kept(q, h) \/ Grown(q, h)
    PROVE  Grown(g, h)
  BY Zenon DEF Kept, Grown

\* An entry in the record leaves the bureau alone.
LEMMA EntryKeeps ==
    ASSUME NEW g, DOMAIN g = Fields, NEW c, NEW o, NEW t
    PROVE  DOMAIN Recorded(g, c, o, t) = Fields /\ Kept(g, Recorded(g, c, o, t))
  BY EntryIs DEF Entered, SameBureau

\* A draw.
LEMMA SetTurnKeeps ==
    ASSUME NEW g, DOMAIN g = Fields, NEW old, NEW c, NEW h \in SetTurn(g, old, c)
    PROVE  DOMAIN h = Fields /\ Kept(g, h)
  <1>. DEFINE t == Drawn(g, c)
              at == Min({i \in DOMAIN g.deck : g.deck[i] = t})
              drew == [g EXCEPT !.cur = c, !.hands[c] = Append(@, t), !.deck = RemoveAt(@, at),
                                !.test[c] = NoCard]
              put == Recorded(drew, c, "Get", t)
              new(race) == [put EXCEPT
                 !.ops[c] = MyOperateArray(drew, c, t),
                 !.turnTask = IF race = "swift" THEN c ELSE Off,
                 !.turnLost = IF race = "late" THEN @ \cup {old} ELSE @,
                 !.late = IF race = "swift" THEN @ ELSE @ + 1,
                 !.refused = FALSE,
                 !.autos = IF c \in g.trust THEN @ \cup {c} ELSE @]
  <1>1. CASE Len(g.deck) <= Ma
    <2>1. h = GameEnd(g)
      BY <1>1, Zenon DEF SetTurn
    <2>. QED  BY <2>1, GameEndIs, Zenon DEF Kept
  <1>2. CASE ~(Len(g.deck) <= Ma) /\ Len(g.hands[c]) = HandSize + 1
    <2>1. h = [g EXCEPT !.cur = c]
      BY <1>2, Zenon DEF SetTurn
    <2>. QED  BY <2>1 DEF Kept, Fields
  <1>3. CASE ~(Len(g.deck) <= Ma) /\ ~(Len(g.hands[c]) = HandSize + 1)
    <2>1. \E race \in Races(g, old) : h = new(race)
      <3>1. h \in {new(race) : race \in Races(g, old)}
        BY <1>3, Zenon DEF SetTurn
      <3>. HIDE DEF new
      <3>. QED  BY <3>1
    <2>2. PICK race \in Races(g, old) : h = new(race)
      BY <2>1
    <2>3. DOMAIN drew = Fields /\ Kept(g, drew)
      <3>. DEFINE hands == [g.hands EXCEPT ![c] = Append(g.hands[c], t)]
                  test == [g.test EXCEPT ![c] = NoCard]
                  deck == RemoveAt(g.deck, at)
      <3>1. drew = [g EXCEPT !.cur = c, !.hands = hands, !.deck = deck, !.test = test]
        <4>. HIDE DEF deck
        <4>1. deck = RemoveAt(g.deck, at)
          BY DEF deck
        <4>. QED  BY <4>1, Zenon
      <3>. HIDE DEF drew, hands, test, deck
      <3>. QED  BY <3>1 DEF Fields, Kept
    <2>. HIDE DEF drew, t, at
    <2>4. DOMAIN put = Fields /\ Kept(drew, put)
      BY <2>3, EntryKeeps
    <2>. HIDE DEF put
    <2>. DEFINE ops == [put.ops EXCEPT ![c] = MyOperateArray(drew, c, t)]
                task == IF race = "swift" THEN c ELSE Off
                lost == IF race = "late" THEN put.turnLost \cup {old} ELSE put.turnLost
                late == IF race = "swift" THEN put.late ELSE put.late + 1
                autos == IF c \in g.trust THEN put.autos \cup {c} ELSE put.autos
    <2>5. h = [put EXCEPT !.ops = ops, !.turnTask = task, !.turnLost = lost, !.late = late,
                          !.refused = FALSE, !.autos = autos]
      BY <2>2, Zenon
    <2>. HIDE DEF new, ops, task, lost, late, autos
    <2>6. DOMAIN h = Fields /\ Kept(put, h)
      BY <2>4, <2>5 DEF Fields, Kept
    <2>. QED  BY <2>3, <2>4, <2>6, KeptTwice
  <1>. QED  BY <1>1, <1>2, <1>3

\* An act that is followed by a draw.
LEMMA DrawKeeps ==
    ASSUME NEW g, NEW q, DOMAIN q = Fields, Kept(g, q), NEW old, NEW c, NEW h \in SetTurn(q, old, c)
    PROVE  DOMAIN h = Fields /\ Kept(g, h)
  BY SetTurnKeeps, KeptTwice

\* Claims are opened, or the next player draws.
LEMMA NextTurnKeeps ==
    ASSUME NEW g, DOMAIN g = Fields, NEW old, NEW t, NEW h \in NextTurn(g, old, t)
    PROVE  DOMAIN h = Fields /\ Kept(g, h)
  <1>. DEFINE others == Chairs \ {g.cur}
              hands == [c \in Chairs |-> IF c \in others THEN Sorted(g.hands[c]) ELSE g.hands[c]]
              s == [g EXCEPT !.hands = hands]
              offers == [c \in others |-> OperateArray(g, c, t)]
              claims == {c \in DOMAIN offers : offers[c] # {}}
              ops == [c \in Chairs |-> IF c \in claims THEN offers[c] ELSE s.ops[c]]
              autos == s.autos \cup (claims \cap s.trust)
              claimTask == s.claimTask \cup claims
  <1>1. h \in Opened(s, old, offers)
    <2>1. h \in UNION {Opened(s, old, of) : of \in {offers}}
      BY Zenon DEF NextTurn
    <2>. HIDE DEF s, offers
    <2>. QED  BY <2>1
  <1>2. DOMAIN s = Fields /\ Kept(g, s)
    <2>. HIDE DEF hands
    <2>. QED  BY DEF Fields, Kept
  <1>. HIDE DEF s, offers
  <1>3. h \in (IF claims = {} THEN SetTurn(s, old, After(s.cur))
               ELSE {[s EXCEPT !.ops = ops, !.claimTask = claimTask, !.autos = autos]})
    BY <1>1, Zenon DEF Opened
  <1>. HIDE DEF ops, autos, claimTask
  <1>4. CASE claims = {}
    BY <1>2, <1>3, <1>4, DrawKeeps
  <1>5. CASE claims # {}
    <2>1. h = [s EXCEPT !.ops = ops, !.claimTask = claimTask, !.autos = autos]
      BY <1>3, <1>5
    <2>2. DOMAIN h = Fields /\ Kept(s, h)
      BY <1>2, <2>1 DEF Fields, Kept
    <2>. QED  BY <1>2, <2>2, KeptTwice
  <1>. QED  BY <1>4, <1>5

\* The end of a bureau.
LEMMA EndKeeps ==
    ASSUME NEW g, DOMAIN g = Fields, NEW h, h = GameEnd(g)
    PROVE  DOMAIN h = Fields /\ Kept(g, h)
  <1>1. Kept(g, h)
    BY GameEndIs, Zenon
  <1>. QED  BY <1>1 DEF Kept

\* The acts of a claim.
LEMMA ClaimActKeeps ==
    ASSUME NEW g, DOMAIN g = Fields, NEW old, NEW c, NEW t,
           NEW h \in OnPeng(g, c, t) \cup OnGangChi(g, old, c, t) \cup OnGuo(g, old, c, t)
    PROVE  DOMAIN h = Fields /\ Kept(g, h)
  <1>1. ASSUME h \in OnPeng(g, c, t), h # g
        PROVE  DOMAIN h = Fields /\ Kept(g, h)
    <2>. DEFINE put == Recorded(g, c, "Peng", t)
                hands == [put.hands EXCEPT ![c] = DelCard(put.hands[c], t, 2)]
                ops == [put.ops EXCEPT ![c] = {"Qi"}]
                autos == IF c \in g.trust THEN put.autos \cup {c} ELSE put.autos
                claimTask == put.claimTask \ {c}
    <2>1. h = [put EXCEPT !.claimTask = claimTask, !.hands = hands, !.ops = ops, !.cur = c,
                          !.autos = autos]
      BY <1>1, Zenon DEF OnPeng
    <2>2. DOMAIN put = Fields /\ Kept(g, put)
      BY EntryKeeps
    <2>. HIDE DEF put, hands, ops, autos, claimTask
    <2>3. DOMAIN h = Fields /\ Kept(put, h)
      BY <2>1, <2>2 DEF Fields, Kept
    <2>. QED  BY <2>2, <2>3, KeptTwice
  <1>2. ASSUME h \in OnGangChi(g, old, c, t), h # g
        PROVE  DOMAIN h = Fields /\ Kept(g, h)
    <2>. DEFINE put == Recorded(g, c, "GangChi", t)
                hands == [put.hands EXCEPT ![c] = DelCard(put.hands[c], t, 3)]
                claimTask == put.claimTask \ {c}
                q == [put EXCEPT !.claimTask = claimTask, !.hands = hands]
    <2>1. h \in UNION {SetTurn(a, old, c) : a \in {q}}
      <3>1. h \in UNION {SetTurn(a, old, c) :
                 a \in {[put EXCEPT !.claimTask = @ \ {c}, !.hands[c] = DelCard(@, t, 3)]}}
        BY <1>2, Zenon DEF OnGangChi
      <3>2. q = [put EXCEPT !.claimTask = @ \ {c}, !.hands[c] = DelCard(@, t, 3)]
        BY Zenon
      <3>. QED  BY <3>1, <3>2, Zenon
    <2>2. DOMAIN put = Fields /\ Kept(g, put)
      BY EntryKeeps
    <2>. HIDE DEF put, hands, claimTask
    <2>3. DOMAIN q = Fields /\ Kept(put, q)
      BY <2>2 DEF Fields, Kept
    <2>. HIDE DEF q
    <2>4. Kept(g, q)
      BY <2>2, <2>3, KeptTwice
    <2>5. h \in SetTurn(q, old, c)
      BY <2>1
    <2>. QED  BY <2>3, <2>4, <2>5, DrawKeeps
  <1>3. ASSUME h \in OnGuo(g, old, c, t)
        PROVE  DOMAIN h = Fields /\ Kept(g, h)
    <2>. DEFINE q == Passed(g, c, t)
                next == After(g.cur)
    <2>1. h \in UNION {SetTurn(a, old, next) : a \in {q}}
      BY <1>3, Zenon DEF OnGuo, Passed
    <2>2. DOMAIN q = Fields /\ Kept(g, q)
      <3>. DEFINE put == Recorded(g, c, "Guo", t)
                  ops == [put.ops EXCEPT ![c] = {}]
                  claimTask == put.claimTask \ {c}
      <3>1. q = [put EXCEPT !.claimTask = claimTask, !.ops = ops]
        BY Zenon DEF Passed
      <3>2. DOMAIN put = Fields /\ Kept(g, put)
        BY EntryKeeps
      <3>. HIDE DEF put, ops, claimTask, q
      <3>3. DOMAIN q = Fields /\ Kept(put, q)
        BY <3>1, <3>2 DEF Fields, Kept
      <3>. QED  BY <3>2, <3>3, KeptTwice
    <2>. HIDE DEF q, next
    <2>3. h \in SetTurn(q, old, next)
      BY <2>1
    <2>. QED  BY <2>2, <2>3, DrawKeeps
  <1>4. Kept(g, g)
    BY DEF Kept
  <1>. QED  BY <1>1, <1>2, <1>3, <1>4

\* A claim that is given up.
LEMMA GiveUpKeeps ==
    ASSUME NEW g, DOMAIN g = Fields, NEW c, NEW h \in GiveUp(g, c)
    PROVE  DOMAIN h = Fields /\ Kept(g, h)
  <1>. DEFINE old == g.turnTask
              t == NoCard
  <1>1. h \in OnGuo(g, old, c, t)
    BY Zenon DEF GiveUp, OnGuo
  <1>. HIDE DEF old, t
  <1>2. h \in OnPeng(g, c, t) \cup OnGangChi(g, old, c, t) \cup OnGuo(g, old, c, t)
    BY <1>1
  <1>. QED  BY <1>2, ClaimActKeeps

\* A fourth tile is laid; one that the hand lacks makes the game stray.
LEMMA GangBuKeeps ==
    ASSUME NEW g, DOMAIN g = Fields, NEW old, NEW c, NEW t, TookPair(g, c),
           NEW h \in OnGangBu(g, old, c, t)
    PROVE  /\ DOMAIN h = Fields /\ Grown(g, h)
           /\ CardCount(g.hands[c], t) = 0 => h.stray
  <1>. DEFINE robbers == {d \in Chairs \ {c} : CheckHu(g.hands[d], t)}
              wins == InOrder(robbers)
              lacks == CardCount(g.hands[c], t) = 0
              stray == g.stray \/ lacks
              panics == [g EXCEPT !.down = TRUE, !.stray = stray]
              robbed == Robbed(g, c, t, robbers, wins, stray)
              laid == Laid(g, c, t, stray)
  <1>1. \/ h = panics
        \/ h \in {GameEnd(a) : a \in {robbed}}
        \/ h \in UNION {SetTurn(a, old, c) : a \in {laid}}
    BY Zenon DEF OnGangBu, Robbed, Laid, TookPair
  <1>2. DOMAIN robbed = Fields /\ Grown(g, robbed) /\ robbed.stray = stray
    <2>. DEFINE record == g.record \o [i \in DOMAIN wins |->
                              [chair |-> wins[i], operate |-> "HuChi", card |-> t]]
                hands == [d \in Chairs |-> IF d \in robbers THEN Append(g.hands[d], t)
                                          ELSE IF d = c THEN DelCard(g.hands[d], t, 1) ELSE g.hands[d]]
                ops == [d \in Chairs |-> IF d \in robbers \cup {c} THEN {} ELSE g.ops[d]]
    <2>1. robbed = [g EXCEPT !.gang = c, !.stray = stray, !.record = record, !.hands = hands,
                             !.ops = ops]
      BY Zenon DEF Robbed
    <2>. HIDE DEF robbed, record, hands, ops, lacks
    <2>. QED  BY <2>1 DEF Fields, Grown
  <1>3. DOMAIN laid = Fields /\ Grown(g, laid) /\ laid.stray = stray
    <2>. DEFINE put == Recorded(g, c, "GangBu", t)
                hands == [put.hands EXCEPT ![c] = DelCard(put.hands[c], t, 1)]
                ops == [put.ops EXCEPT ![c] = {}]
    <2>1. laid = [put EXCEPT !.hands = hands, !.ops = ops, !.gang = Off, !.stray = stray]
      BY Zenon DEF Laid
    <2>2. DOMAIN put = Fields /\ Kept(g, put)
      BY EntryKeeps
    <2>. HIDE DEF put, laid, hands, ops, lacks
    <2>. QED  BY <2>1, <2>2 DEF Fields, Kept, Grown
  <1>4. DOMAIN panics = Fields /\ Grown(g, panics) /\ panics.stray = stray
    <2>. HIDE DEF lacks
    <2>. QED  BY DEF Fields, Grown
  <1>5. lacks => stray
    OBVIOUS
  <1>. HIDE DEF robbers, robbed, laid, panics, stray
  <1>6. CASE h = panics
    BY <1>4, <1>5, <1>6
  <1>7. CASE h \in {GameEnd(a) : a \in {robbed}}
    <2>1. h = GameEnd(robbed)
      BY <1>7
    <2>2. DOMAIN h = Fields /\ Kept(robbed, h)
      BY <1>2, <2>1, EndKeeps
    <2>. QED  BY <1>2, <1>5, <2>2, GrownTwice DEF Kept
  <1>8. CASE h \in UNION {SetTurn(a, old, c) : a \in {laid}}
    <2>1. h \in SetTurn(laid, old, c)
      BY <1>8
    <2>2. DOMAIN h = Fields /\ Kept(laid, h)
      BY <1>3, <2>1, SetTurnKeeps
    <2>. QED  BY <1>3, <1>5, <2>2, GrownTwice DEF Kept
  <1>. QED  BY <1>1, <1>6, <1>7, <1>8

\* The other acts of a turn.
LEMMA TurnActKeeps ==
    ASSUME NEW g, DOMAIN g = Fields, NEW old, NEW c, NEW t,
           NEW h \in OnHuZi(g, c, t) \cup OnGangZi(g, old, c, t) \cup OnQi(g, old, c, t), h # g
    PROVE  DOMAIN h = Fields /\ Kept(g, h)
  <1>0. DOMAIN Refused(g) = Fields /\ Kept(g, Refused(g))
    BY DEF Refused, Kept, Fields
  <1>1. ASSUME h \in OnHuZi(g, c, t)
        PROVE  DOMAIN h = Fields /\ Kept(g, h)
    <2>. DEFINE put == Recorded(g, c, "HuZi", t)
                ops == [put.ops EXCEPT ![c] = {}]
                q == [put EXCEPT !.ops = ops]
    <2>1. h \in {GameEnd(a) : a \in {q}}
      BY <1>1, Zenon DEF OnHuZi
    <2>2. DOMAIN put = Fields /\ Kept(g, put)
      BY EntryKeeps
    <2>. HIDE DEF put, ops
    <2>3. DOMAIN q = Fields /\ Kept(put, q)
      BY <2>2 DEF Fields, Kept
    <2>. HIDE DEF q
    <2>4. h = GameEnd(q)
      BY <2>1
    <2>5. DOMAIN h = Fields /\ Kept(q, h)
      BY <2>3, <2>4, EndKeeps
    <2>. QED  BY <2>2, <2>3, <2>5, KeptTwice
  <1>2. ASSUME h \in OnGangZi(g, old, c, t), h # Refused(g)
        PROVE  DOMAIN h = Fields /\ Kept(g, h)
    <2>. DEFINE put == Recorded(g, c, "GangZi", t)
                hands == [put.hands EXCEPT ![c] = DelCard(put.hands[c], t, 4)]
                q == [put EXCEPT !.hands = hands]
    <2>1. h \in UNION {SetTurn(a, old, c) : a \in {q}}
      <3>1. h \in UNION {SetTurn(a, old, c) : a \in {[put EXCEPT !.hands[c] = DelCard(@, t, 4)]}}
        BY <1>2, Zenon DEF OnGangZi
      <3>2. q = [put EXCEPT !.hands[c] = DelCard(@, t, 4)]
        BY Zenon
      <3>. QED  BY <3>1, <3>2, Zenon
    <2>2. DOMAIN put = Fields /\ Kept(g, put)
      BY EntryKeeps
    <2>. HIDE DEF put, hands
    <2>3. DOMAIN q = Fields /\ Kept(put, q)
      BY <2>2 DEF Fields, Kept
    <2>. HIDE DEF q
    <2>4. Kept(g, q)
      BY <2>2, <2>3, KeptTwice
    <2>5. h \in SetTurn(q, old, c)
      BY <2>1
    <2>. QED  BY <2>3, <2>4, <2>5, DrawKeeps
  <1>3. ASSUME h \in OnQi(g, old, c, t), h # Refused(g)
        PROVE  DOMAIN h = Fields /\ Kept(g, h)
    <2>. DEFINE put == Recorded(g, c, "Qi", t)
                hands == [put.hands EXCEPT ![c] = DelCard(put.hands[c], t, 1)]
                ops == [put.ops EXCEPT ![c] = {}]
                q == [put EXCEPT !.hands = hands, !.ops = ops]
    <2>1. h \in UNION {NextTurn(a, old, t) : a \in {q}}
      <3>1. h \in UNION {NextTurn(a, old, t) :
                 a \in {[put EXCEPT !.hands[c] = DelCard(@, t, 1), !.ops[c] = {}]}}
        BY <1>3, Zenon DEF OnQi
      <3>2. q = [put EXCEPT !.hands[c] = DelCard(@, t, 1), !.ops[c] = {}]
        BY Zenon
      <3>. QED  BY <3>1, <3>2, Zenon
    <2>2. DOMAIN put = Fields /\ Kept(g, put)
      BY EntryKeeps
    <2>. HIDE DEF put, hands, ops
    <2>3. DOMAIN q = Fields /\ Kept(put, q)
      BY <2>2 DEF Fields, Kept
    <2>. HIDE DEF q
    <2>4. Kept(g, q)
      BY <2>2, <2>3, KeptTwice
    <2>5. h \in NextTurn(q, old, t)
      BY <2>1
    <2>6. DOMAIN h = Fields /\ Kept(q, h)
      BY <2>3, <2>5, NextTurnKeeps
    <2>. QED  BY <2>4, <2>6, KeptTwice
  <1>. QED  BY <1>0, <1>1, <1>2, <1>3

\* What a player's act may lead to.
LEMMA OperateKeeps ==
    ASSUME NEW g, DOMAIN g = Fields, NEW c, NEW o, NEW n, NEW h \in OnGameTurnOperate(g, c, o, n)
    PROVE  DOMAIN h = Fields /\ Grown(g, h)
  <1>. DEFINE t == MeantCard(g, c, o, n)
              q == Unset(g)
              old == g.turnTask
  <1>1. Grown(g, g)
    BY DEF Grown
  <1>2. CASE h = [g EXCEPT !.down = TRUE]
    BY <1>2 DEF Fields, Grown
  <1>3. CASE h \in Handled(q, old, c, o, t)
    <2>1. DOMAIN q = Fields /\ Kept(g, q)
      BY UnsetIs DEF SameBureau
    <2>. HIDE DEF q, old, t
    <2>2. \/ h = q
          \/ h \in OnPeng(q, c, t) \cup OnGangChi(q, old, c, t) \cup OnGuo(q, old, c, t)
          \/ TookPair(q, c) /\ h \in OnGangBu(q, old, c, t)
          \/ h # q /\ h \in OnHuZi(q, c, t) \cup OnGangZi(q, old, c, t) \cup OnQi(q, old, c, t)
      <3>1. (h \in OnGangBu(q, old, c, t) /\ ~TookPair(q, c)) => h = q
        BY Zenon DEF OnGangBu, TookPair
      <3>. QED  BY <1>3, <3>1 DEF Handled
    <2>3. DOMAIN h = Fields /\ (h = q \/ Kept(q, h) \/ Grown(q, h))
      BY <2>1, <2>2, ClaimActKeeps, GangBuKeeps, TurnActKeeps
    <2>4. Kept(q, q)
      BY DEF Kept
    <2>. QED  BY <2>1, <2>3, <2>4, GrownTwice
  <1>. QED  BY <1>1, <1>2, <1>3, ActUnfolds, Zenon

\* A triple that is given a tile which the hand lacks makes the game stray.
LEMMA LackingStrays ==
    ASSUME NEW g, DOMAIN g = Fields, NEW c, c = g.cur, "GangBu" \in g.ops[c], g.record # <<>>,
           TookPair(g, c), NEW n, MeantCard(g, c, "GangBu", n) # NoCard,
           CardCount(g.hands[c], MeantCard(g, c, "GangBu", n)) = 0,
           NEW h \in OnGameTurnOperate(g, c, "GangBu", n)
    PROVE  DOMAIN h = Fields /\ h.stray
  <1>. DEFINE t == MeantCard(g, c, "GangBu", n)
              q == Unset(g)
              old == g.turnTask
  <1>1. h \in Handled(q, old, c, "GangBu", t)
    <2>1. ~Declined(g, c, "GangBu")
      BY DEF Declined
    <2>. QED  BY <2>1, ActUnfolds
  <1>2. DOMAIN q = Fields /\ q.cur = g.cur /\ q.hands = g.hands /\ q.record = g.record
    BY UnsetIs
  <1>3. CardCount(g.hands[c], t) = 0
    OBVIOUS
  <1>. HIDE DEF q, old, t
  <1>4. h \in OnGangBu(q, old, c, t)
    BY <1>1, <1>2 DEF Handled
  <1>5. CardCount(q.hands[c], t) = 0 /\ TookPair(q, c)
    BY <1>2, <1>3 DEF TookPair
  <1>. QED  BY <1>2, <1>4, <1>5, GangBuKeeps

-----------------------------------------------------------------------------
(* The players' acts, and the timers that act for them. *)

\* Who may act has the turn or the claim.
LEMMA WhoActs ==
    ASSUME NEW g, Good(g), NEW c \in Chairs, g.ops[c] # {}
    PROVE  (TurnOpen(g) /\ c = g.cur) \/ ClaimOpen(g, c)
  BY DEF Good, Idle, Dealt, Shown, Fresh, Nobody, TurnOpen, Turn, Own, ClaimOpen, Claims, Only

\* The last tile of a hand is in it; while the bureau is played its player has one.
LEMMA OwnLastIs ==
    ASSUME NEW g, Turn(g), NEW t, t = OwnLast(g.hands[g.cur])
    PROVE  /\ t \in Kinds \cup {NoCard}
           /\ t = NoCard => g.status # "Playing"
           /\ t # NoCard => CardCount(g.hands[g.cur], t) >= 1
  <1>. DEFINE s == g.hands[g.cur]
  <1>1. s \in Seq(Kinds)
    BY TurnHas
  <1>2. ASSUME s = <<>>
        PROVE  t = NoCard /\ g.status # "Playing"
    <2>1. Len(s) = 0 /\ 0 % 3 = 0
      BY <1>2
    <2>2. g.status = "Playing" => Len(s) % 3 = 2
      BY DEF Turn, Ahead, Open
    <2>. QED  BY <1>2, <2>1, <2>2 DEF OwnLast
  <1>. HIDE DEF s
  <1>3. ASSUME s # <<>>
        PROVE  t \in Kinds /\ t # NoCard /\ CardCount(s, t) >= 1
    <2>1. Len(s) \in DOMAIN s /\ s[Len(s)] \in Kinds
      BY <1>1, <1>3
    <2>2. t = s[Len(s)]
      BY <1>3 DEF OwnLast, LastOf, s
    <2>3. Places(s, t) # {} /\ CardCount(s, t) \in Nat /\ CardCount(s, t) # 0
      BY <1>1, <2>1, <2>2, PlacesFinite DEF Places
    <2>. QED  BY <2>1, <2>2, <2>3, TilesAreNumbers
  <1>. QED  BY <1>2, <1>3 DEF s

\* Of some tiles one is the highest.
LEMMA HighestIsOne ==
    ASSUME NEW S \in SUBSET Kinds, S # {}
    PROVE  Max(S) \in Kinds
  <1>1. \E n \in Nat : Kinds \in SUBSET (1 .. n)
    BY KindsAreBounded
  <1>2. PICK n \in Nat : S \in SUBSET (1 .. n)
    BY <1>1
  <1>3. Max(S) \in S
    BY <1>2, FirstAndLast
  <1>. QED  BY <1>3

\* The tile of a turn's act is a tile, what is named or none; there is one
\* while the bureau is played, but for a discard that names none.
LEMMA TileIsMeant ==
    ASSUME NEW g, Turn(g), NEW c, c = g.cur, NEW o \in TurnActs, NEW n \in Cards,
           NEW t, t = MeantCard(g, c, o, n)
    PROVE  /\ t \in Cards
           /\ (t = NoCard /\ o # "Qi") => g.status # "Playing"
  <1>. DEFINE hand == g.hands[c]
              fours == {u \in Kinds : CardCount(hand, u) >= 4}
              most == IF fours # {} THEN fours ELSE Range(hand)
  <1>1. /\ hand \in Seq(Kinds) /\ OwnLast(hand) \in Kinds \cup {NoCard}
        /\ OwnLast(hand) = NoCard => g.status # "Playing"
    BY TurnHas, OwnLastIs
  <1>2. CASE n # NoCard \/ o = "Qi"
    <2>1. t = n
      BY <1>2 DEF MeantCard
    <2>2. n = NoCard => o = "Qi"
      BY <1>2
    <2>. QED  BY <2>1, <2>2
  <1>3. CASE ~(n # NoCard \/ o = "Qi") /\ o = "GangZi" /\ hand # <<>>
    <2>1. t = Max(most)
      BY <1>3, Zenon DEF MeantCard
    <2>2. most \in SUBSET Kinds /\ most # {}
      <3>1. Len(hand) \in DOMAIN hand
        BY <1>1, <1>3
      <3>2. hand \in Seq(Kinds)
        BY <1>1
      <3>. HIDE DEF hand
      <3>3. Range(hand) \in SUBSET Kinds
        BY <3>2 DEF Range
      <3>4. Range(hand) # {}
        BY <3>1 DEF Range
      <3>. QED  BY <3>3, <3>4
    <2>. HIDE DEF most
    <2>3. t \in Kinds
      BY <2>1, <2>2, HighestIsOne
    <2>. QED  BY <2>3, TilesAreNumbers, KindsAreCards
  <1>4. CASE ~(n # NoCard \/ o = "Qi") /\ ~(o = "GangZi" /\ hand # <<>>)
    <2>1. o \notin {"Peng", "GangChi", "HuChi", "Guo"}
      BY DEF TurnActs
    <2>2. t = OwnLast(hand)
      BY <1>4, <2>1, Zenon DEF MeantCard
    <2>. QED  BY <1>1, <2>2, KindsAreCards
  <1>. QED  BY <1>2, <1>3, <1>4

\* A tile of the hand that is discarded.
LEMMA DiscardIsFine ==
    ASSUME Fine(game), ~game.down, NEW c \in Chairs, Discard(c)
    PROVE  Fine(game')
  <1>1. PICK t \in Range(game.hands[c]) : game' \in OnGameTurnOperate(game, c, "Qi", t)
    BY DEF Discard
  <1>2. "Qi" \in game.ops[c] /\ Good(game)
    BY FineHas DEF Discard
  <1>3. Turn(game) /\ c = game.cur
    <2>1. ~ClaimOpen(game, c)
      BY <1>2 DEF ClaimOpen, Claims, ClaimActs
    <2>. QED  BY <1>2, <2>1, WhoActs DEF TurnOpen
  <1>4. t \in Cards
    <2>1. game.hands[c] \in Seq(Kinds)
      BY <1>3, TurnHas
    <2>. QED  BY <1>1, <2>1, KindsAreCards DEF Range
  <1>. DEFINE o == "Qi"
  <1>5. t = MeantCard(game, c, o, t)
    BY DEF MeantCard
  <1>6. o \in game.ops[c] /\ game' \in OnGameTurnOperate(game, c, o, t) /\ o = "Qi"
    BY <1>1, <1>2
  <1>. HIDE DEF o
  <1>. QED  BY <1>3, <1>4, <1>5, <1>6, TurnActGoes

\* Another act, with the tile that the message names or the server means.
LEMMA TurnOperateIsFine ==
    ASSUME Fine(game), ~game.down, NEW c \in Chairs, TurnOperate(c)
    PROVE  DOMAIN game' = Fields /\ (Fine(game') \/ game'.stray)
  <1>1. PICK o \in OperateType, n \in NamedCards \cup {NoCard} :
            /\ game.record = <<>> \/ o \in game.ops[c]
            /\ game' \in OnGameTurnOperate(game, c, o, n)
    BY DEF TurnOperate
  <1>2. Good(game) /\ DOMAIN game = Fields /\ n \in Cards
    BY <1>1, FineHas DEF TurnOperate, Cards
  <1>3. DOMAIN game' = Fields
    BY <1>1, <1>2, OperateKeeps
  <1>4. CASE game.record = <<>>
    <2>1. game' = [game EXCEPT !.down = TRUE]
      BY <1>1, <1>4, ActUnfolds
    <2>. QED  BY <1>2, <1>3, <1>4, <2>1, EarlyEnds DEF Fine
  <1>5. ASSUME game.record # <<>>, Turn(game), c = game.cur
        PROVE  Fine(game') \/ game'.stray
    <2>. DEFINE t == MeantCard(game, c, o, n)
                lays == o = "GangBu" /\ TookPair(game, c)
    <2>1. o \in game.ops[c] /\ o \in TurnActs
      BY <1>1, <1>5, TurnHas DEF Own
    <2>2. t \in Cards /\ ((t = NoCard /\ o # "Qi") => game.status # "Playing")
      BY <1>2, <1>5, <2>1, TileIsMeant
    <2>3. CASE t = NoCard /\ o # "Qi"
      <3>1. ~Declined(game, c, o)
        BY <2>1, <2>3 DEF Declined
      <3>2. game' = [game EXCEPT !.down = TRUE]
        BY <1>1, <1>5, <2>3, <3>1, ActUnfolds
      <3>. QED  BY <1>5, <2>2, <2>3, <3>2, PanicAtTurn
    <2>4. CASE lays /\ t # NoCard /\ CardCount(game.hands[c], t) = 0
      BY <1>1, <1>2, <1>5, <2>1, <2>4, LackingStrays
    <2>5. CASE ~(t = NoCard /\ o # "Qi") /\ ~(lays /\ t # NoCard /\ CardCount(game.hands[c], t) = 0)
      <3>1. CardCount(game.hands[c], t) \in Nat
        BY <1>5, TurnHas
      <3>2. lays => CardCount(game.hands[c], t) # 0
        BY <2>5
      <3>. DEFINE k == CardCount(game.hands[c], t)
      <3>3. lays => k >= 1
        <4>1. k \in Nat /\ (lays => k # 0)
          BY <3>1, <3>2
        <4>. HIDE DEF k, lays
        <4>. QED  BY <4>1
      <3>. HIDE DEF t
      <3>4. (o = "GangBu" /\ TookPair(game, c)) => CardCount(game.hands[c], t) >= 1
        BY <3>3
      <3>5. t = MeantCard(game, c, o, n)
        BY DEF t
      <3>. QED  BY <1>1, <1>5, <2>1, <2>2, <3>4, <3>5, TurnActGoes
    <2>. QED  BY <2>3, <2>4, <2>5
  <1>6. ASSUME game.record # <<>>, ClaimOpen(game, c)
        PROVE  Fine(game')
    BY <1>1, <1>2, <1>6, ClaimActGoes DEF Fine
  <1>7. game.record # <<>> => game.ops[c] # {}
    BY <1>1
  <1>. QED  BY <1>2, <1>3, <1>4, <1>5, <1>6, <1>7, WhoActs DEF TurnOpen

\* A claim that its task gives up.
LEMMA ClaimTaskIsFine ==
    ASSUME Fine(game), ~game.down, NEW c \in Chairs, ClaimTask(c)
    PROVE  Fine(game')
  <1>1. c \in game.claimTask /\ game' \in GiveUp(game, c)
    BY DEF ClaimTask
  <1>2. Good(game)
    BY <1>1, FineHas DEF Ended
  <1>3. ClaimOpen(game, c)
    <2>1. c \in Claiming(game)
      BY <1>1, <1>2, GoodIsSafe DEF Safe
    <2>2. game.ops[c] # {} /\ "Guo" \in game.ops[c]
      BY <2>1 DEF Claiming
    <2>3. ~(Turn(game) /\ c = game.cur)
      BY <2>2 DEF Turn, Own, TurnActs
    <2>. QED  BY <1>2, <2>2, <2>3, WhoActs DEF TurnOpen
  <1>. DEFINE t == NoCard
              old == game.turnTask
  <1>4. game' \in SetTurn(Passed(game, c, t), old, After(game.cur)) /\ t \in Cards
    <2>1. game' \in UNION {SetTurn(h, old, After(game.cur)) : h \in {Passed(game, c, t)}}
      BY <1>1, Zenon DEF GiveUp, Passed
    <2>. QED  BY <2>1, KindsAreCards
  <1>. HIDE DEF t, old
  <1>5. Good(game')
    BY <1>3, <1>4, GuoGoes
  <1>. QED  BY <1>5 DEF Fine

\* The one-shot timer: it acts for a player whose turn or claim it is, and
\* makes a user ready before a bureau.
LEMMA AutoTimerIsFine ==
    ASSUME Fine(game), ~game.down, NEW c \in Chairs, AutoTimer(c)
    PROVE  Fine(game')
  <1>. DEFINE g == game
              autos == game.autos \ {c}
              h == [game EXCEPT !.autos = @ \ {c}]
              acts == IF h.ops[c] \cap {"Qi", "Guo"} # {} THEN AutoOperate(h, c) ELSE {h}
  <1>1. IF game.dismissed THEN game' = h
        ELSE \E acted \in acts :
                 IF acted.status # "None" \/ acted.down THEN game' = acted
                 ELSE \E deck \in Shuffles : game' = UserReady(acted, {c}, deck)
    <2>1. \E q \in {h} :
              IF game.dismissed THEN game' = q
              ELSE \E acted \in IF q.ops[c] \cap {"Qi", "Guo"} # {} THEN AutoOperate(q, c) ELSE {q} :
                       IF acted.status # "None" \/ acted.down THEN game' = acted
                       ELSE \E deck \in Shuffles : game' = UserReady(acted, {c}, deck)
      BY Zenon DEF AutoTimer
    <2>. HIDE DEF h
    <2>. QED  BY <2>1
  <1>2. DOMAIN game = Fields
    BY FineHas
  <1>3. /\ Same(g, h) /\ h.autos = autos /\ h.cur = g.cur /\ h.record = g.record
        /\ h.turnTask = g.turnTask /\ h.bureau = g.bureau /\ h.refused = g.refused /\ h.ops = g.ops /\ h.hands = g.hands
        /\ DOMAIN h = Fields /\ Still(g, h) /\ h.dismissed = g.dismissed
    <2>. HIDE DEF acts
    <2>. QED  BY <1>2 DEF Same, SameBureau, Kept, Still, Fields
  <1>. HIDE DEF h
  <1>4. CASE game.dismissed
    <2>1. Ended(game) /\ game' = h
      BY <1>1, <1>4, FineHas
    <2>. QED  BY <1>3, <2>1, EndedStays DEF Fine
  <1>5. CASE ~game.dismissed
    <2>1. Good(g)
      BY <1>5, FineHas
    <2>2. PICK acted \in acts :
              IF acted.status # "None" \/ acted.down THEN game' = acted
              ELSE \E deck \in Shuffles : game' = UserReady(acted, {c}, deck)
      BY <1>1, <1>5
    <2>3. ASSUME Turn(g), c = g.cur
          PROVE  Fine(acted) /\ acted.bureau = g.bureau
      <3>. DEFINE o == "Qi"
                  t == OwnLast(h.hands[c])
      <3>1. Turn(h) /\ c = h.cur
        BY <1>3, <2>3, SameStage
      <3>2. o \in h.ops[c] /\ h.hands[c] \in Seq(Kinds)
        BY <3>1, TurnHas DEF Own
      <3>3. /\ t \in Kinds \cup {NoCard} /\ (t = NoCard => h.status # "Playing")
            /\ t = MeantCard(h, c, o, t)
        BY <3>1, OwnLastIs DEF MeantCard
      <3>4. CASE h.hands[c] = <<>>
        <4>1. acted = [h EXCEPT !.down = TRUE]
          BY <2>2, <3>2, <3>4 DEF AutoOperate
        <4>2. h.status # "Playing"
          BY <3>3, <3>4 DEF OwnLast
        <4>3. Fine(acted)
          BY <3>1, <4>1, <4>2, PanicAtTurn
        <4>4. acted.bureau = h.bureau
          BY <1>3, <4>1 DEF Fields
        <4>. QED  BY <1>3, <4>3, <4>4
      <3>5. CASE h.hands[c] # <<>>
        <4>1. acted \in OnGameTurnOperate(h, c, o, t)
          <5>1. acts = UNION {OnGameTurnOperate(h, c, e[1], e[2]) : e \in {<<o, t>>}}
            BY <3>2, <3>5, Zenon DEF AutoOperate
          <5>. DEFINE pair == <<o, t>>
          <5>2. pair[1] = o /\ pair[2] = t
            OBVIOUS
          <5>. HIDE DEF pair, o, t
          <5>3. acted \in OnGameTurnOperate(h, c, pair[1], pair[2])
            BY <2>2, <5>1 DEF pair
          <5>. QED  BY <5>2, <5>3
        <4>2. o = "Qi" /\ t \in Cards
          BY <3>3, KindsAreCards
        <4>. HIDE DEF o, t
        <4>3. Fine(acted)
          BY <3>1, <3>2, <3>3, <4>1, <4>2, TurnActGoes
        <4>4. Grown(h, acted)
          BY <1>3, <4>1, OperateKeeps
        <4>. QED  BY <1>3, <4>3, <4>4 DEF Grown
      <3>. QED  BY <3>4, <3>5
    <2>4. ASSUME ClaimOpen(g, c)
          PROVE  Fine(acted) /\ acted.bureau = g.bureau
      <3>. DEFINE o == "Guo"
                  t == NoCard
      <3>1. ClaimOpen(h, c)
        BY <1>3, <2>4, SameStage
      <3>2. o \in h.ops[c] /\ "Qi" \notin h.ops[c] /\ t \in Cards
        BY <3>1, KindsAreCards DEF ClaimOpen, Claims, ClaimActs
      <3>3. acted \in OnGameTurnOperate(h, c, o, t)
        <4>1. acts = UNION {OnGameTurnOperate(h, c, e[1], e[2]) : e \in {<<o, t>>}}
          BY <3>2, Zenon DEF AutoOperate
        <4>. DEFINE pair == <<o, t>>
        <4>2. pair[1] = o /\ pair[2] = t
          OBVIOUS
        <4>. HIDE DEF pair, o, t
        <4>3. acted \in OnGameTurnOperate(h, c, pair[1], pair[2])
          BY <2>2, <4>1 DEF pair
        <4>. QED  BY <4>2, <4>3
      <3>. HIDE DEF o, t
      <3>4. Good(acted)
        BY <3>1, <3>2, <3>3, ClaimActGoes
      <3>5. Grown(h, acted)
        BY <1>3, <3>3, OperateKeeps
      <3>. QED  BY <1>3, <3>4, <3>5 DEF Grown, Fine
    <2>5. ASSUME ~(Turn(g) /\ c = g.cur), ~ClaimOpen(g, c)
          PROVE  Fine(acted) /\ acted.bureau = g.bureau
      <3>1. g.ops[c] = {}
        BY <2>1, <2>5, WhoActs DEF TurnOpen
      <3>2. acted = h
        BY <1>3, <2>2, <3>1
      <3>3. Turn(g) => Later(g, h)
        <4>. SUFFICES ASSUME Turn(g)
                      PROVE  Later(g, h)
          OBVIOUS
        <4>1. c # g.cur
          BY <2>5
        <4>2. g.cur \in g.autos => g.cur \in h.autos
          BY <1>3, <4>1
        <4>. QED  BY <1>3, <4>2, Zenon DEF Later, Timed
      <3>4. Good(h)
        <4>1. CASE Turn(g)
          BY <1>3, <2>1, <3>3, <4>1, SameIsGood
        <4>2. CASE ~Turn(g)
          <5>1. Idle(g) \/ Dealt(g) \/ Shown(g) \/ \E d \in Chairs : ClaimOpen(g, d)
            BY <2>1, <4>2, Zenon DEF Good, TurnOpen
          <5>2. Idle(h) \/ Dealt(h) \/ Shown(h) \/ \E d \in Chairs : ClaimOpen(h, d)
            BY <1>3, <5>1, SameStage
          <5>. QED  BY <5>2, Zenon DEF Good
        <4>. QED  BY <4>1, <4>2
      <3>. QED  BY <1>3, <3>2, <3>4 DEF Fine
    <2>6. Fine(acted) /\ acted.bureau = game.bureau
      BY <2>3, <2>4, <2>5
    <2>7. CASE acted.status # "None" \/ acted.down
      BY <2>2, <2>6, <2>7
    <2>8. CASE acted.status = "None" /\ ~acted.down
      <3>1. PICK deck \in Shuffles : game' = UserReady(acted, {c}, deck)
        BY <2>2, <2>8
      <3>2. acted.bureau < MaxBureau => deck \in Decks[acted.bureau + 1]
        BY <2>6, ShufflesAre
      <3>. QED  BY <2>6, <2>8, <3>1, <3>2, UsersAreReady
    <2>. QED  BY <2>7, <2>8
  <1>. QED  BY <1>4, <1>5

-----------------------------------------------------------------------------
(* Games with a stray timer. *)

\* A bureau that starts has the frame's fields and leaves strays alone.
LEMMA UserReadyKeeps ==
    ASSUME NEW g, DOMAIN g = Fields, NEW users, NEW deck
    PROVE  LET h == UserReady(g, users, deck)
           IN  DOMAIN h = Fields /\ h.stray = g.stray
  <1>. DEFINE all == g.ready \cup users
              q == [g EXCEPT !.ready = all]
              h == UserReady(g, users, deck)
  <1>1. q = [g EXCEPT !.ready = @ \cup users]
    BY Zenon
  <1>2. DOMAIN q = Fields /\ q.stray = g.stray /\ q.ready = all
    <2>. HIDE DEF all
    <2>. QED  BY DEF Fields
  <1>3. h = g \/ h = q \/ h = StartGame(q, deck)
    BY <1>1, Zenon DEF UserReady
  <1>. HIDE DEF q
  <1>4. DOMAIN StartGame(q, deck) = Fields /\ StartGame(q, deck).stray = q.stray
    <2>. DEFINE first == IF q.bureau = 0 THEN 0
                         ELSE IF q.winner # Off THEN q.winner ELSE After(q.banker)
                bureau == q.bureau + 1
                s == StartGame(q, deck)
    <2>1. s = [q EXCEPT !.started = TRUE, !.ready = {}, !.status = "Dices",
                 !.bureau = bureau, !.banker = first, !.hands = Hands(deck),
                 !.deck = Deck(deck), !.claimTask = {},
                 !.prepareTask = FALSE, !.trustTask = CanTrust, !.cards = TRUE]
      BY Zenon DEF StartGame, Hands, Deck
    <2>. HIDE DEF first, bureau, s
    <2>2. DOMAIN s = Fields /\ s.stray = q.stray
      BY <1>2, <2>1 DEF Fields
    <2>. QED  BY <2>2 DEF s
  <1>. HIDE DEF h
  <1>5. DOMAIN h = Fields /\ h.stray = g.stray
    BY <1>2, <1>3, <1>4
  <1>. QED  BY <1>5 DEF h

\* A stray timer or task is remembered by every step.
LEMMA StrayStays ==
    ASSUME DOMAIN game = Fields, game.stray, ~game.down, Next
    PROVE  DOMAIN game' = Fields /\ game'.stray
  <1>1. ASSUME DOMAIN game' = Fields, game'.stray = game.stray
        PROVE  DOMAIN game' = Fields /\ game'.stray
    BY <1>1
  <1>2. ASSUME NEW c, NEW o, NEW n, game' \in OnGameTurnOperate(game, c, o, n)
        PROVE  DOMAIN game' = Fields /\ game'.stray
    BY <1>2, OperateKeeps DEF Grown
  <1>3. CASE Dismiss
    BY <1>3 DEF Dismiss, OnEventRoomDismiss, Fields
  <1>4. ASSUME NEW c \in Chairs, Ready(c)
        PROVE  DOMAIN game' = Fields /\ game'.stray
    BY <1>4, UserReadyKeeps DEF Ready
  <1>5. ASSUME NEW c \in Chairs, Discard(c)
        PROVE  DOMAIN game' = Fields /\ game'.stray
    BY <1>2, <1>5 DEF Discard
  <1>6. ASSUME NEW c \in Chairs, TurnOperate(c)
        PROVE  DOMAIN game' = Fields /\ game'.stray
    BY <1>2, <1>6 DEF TurnOperate
  <1>7. ASSUME NEW c \in Chairs, GetCard(c)
        PROVE  DOMAIN game' = Fields /\ game'.stray
    BY <1>7 DEF GetCard, Fields
  <1>8. ASSUME NEW c \in Chairs, Trust(c) \/ TrustTask(c)
        PROVE  DOMAIN game' = Fields /\ game'.stray
    <2>1. PICK on \in BOOLEAN : game' = Trusting(game, c, on)
      BY <1>8 DEF Trust, TrustTask
    <2>. DEFINE trust == IF on THEN game.trust \cup {c} ELSE game.trust \ {c}
                autos == IF on THEN game.autos \cup {c} ELSE game.autos
    <2>2. game' = [game EXCEPT !.trust = trust, !.autos = autos]
      BY <2>1, Zenon DEF Trusting
    <2>. HIDE DEF trust, autos
    <2>. QED  BY <2>2 DEF Fields
  <1>9. CASE CardsTimer
    <2>. DEFINE h == [game EXCEPT !.cards = FALSE]
                g == [h EXCEPT !.status = "Playing"]
    <2>1. IF game.dismissed THEN game' = h
          ELSE \E a \in {g} : game' \in SetTurn(a, a.turnTask, a.banker)
      BY <1>9, Zenon DEF CardsTimer
    <2>2. DOMAIN h = Fields /\ DOMAIN g = Fields /\ h.stray = game.stray /\ g.stray = game.stray
      BY DEF Fields
    <2>. HIDE DEF g, h
    <2>3. CASE game.dismissed
      BY <2>1, <2>2, <2>3
    <2>4. CASE ~game.dismissed
      <3>1. game' \in SetTurn(g, g.turnTask, g.banker)
        BY <2>1, <2>4
      <3>2. DOMAIN game' = Fields /\ Kept(g, game')
        BY <2>2, <3>1, SetTurnKeeps
      <3>. QED  BY <2>2, <3>2 DEF Kept
    <2>. QED  BY <2>3, <2>4
  <1>10. CASE TurnTask
    BY <1>10 DEF TurnTask, Fields
  <1>11. ASSUME NEW c \in Chairs, TurnLost(c)
         PROVE  DOMAIN game' = Fields /\ game'.stray
    BY <1>11 DEF TurnLost, Fields
  <1>12. ASSUME NEW c \in Chairs, ClaimTask(c)
         PROVE  DOMAIN game' = Fields /\ game'.stray
    BY <1>12, GiveUpKeeps DEF ClaimTask, Kept
  <1>13. ASSUME NEW c \in Chairs, AutoTimer(c)
         PROVE  DOMAIN game' = Fields /\ game'.stray
    <2>1. PICK h \in {[game EXCEPT !.autos = @ \ {c}]} :
              IF game.dismissed THEN game' = h
              ELSE \E acted \in IF h.ops[c] \cap {"Qi", "Guo"} # {} THEN AutoOperate(h, c) ELSE {h} :
                       IF acted.status # "None" \/ acted.down THEN game' = acted
                       ELSE \E deck \in Shuffles : game' = UserReady(acted, {c}, deck)
      BY <1>13, Zenon DEF AutoTimer
    <2>2. DOMAIN h = Fields /\ h.stray = game.stray
      BY <2>1 DEF Fields
    <2>3. CASE game.dismissed
      BY <2>1, <2>2, <2>3
    <2>4. CASE ~game.dismissed
      <3>1. PICK acted \in IF h.ops[c] \cap {"Qi", "Guo"} # {} THEN AutoOperate(h, c) ELSE {h} :
                IF acted.status # "None" \/ acted.down THEN game' = acted
                ELSE \E deck \in Shuffles : game' = UserReady(acted, {c}, deck)
        BY <2>1, <2>4
      <3>2. acted = h \/ acted = [h EXCEPT !.down = TRUE]
            \/ \E o, n : acted \in OnGameTurnOperate(h, c, o, n)
        <4>1. acted = h \/ acted \in AutoOperate(h, c)
          BY <3>1
        <4>2. ASSUME acted \in AutoOperate(h, c), acted # [h EXCEPT !.down = TRUE]
              PROVE  \E o, n : acted \in OnGameTurnOperate(h, c, o, n)
          <5>1. \E e : acted \in OnGameTurnOperate(h, c, e[1], e[2])
            BY <4>2 DEF AutoOperate
          <5>. QED  BY <5>1, Zenon
        <4>. QED  BY <4>1, <4>2
      <3>3. DOMAIN acted = Fields /\ acted.stray
        <4>1. ASSUME acted = [h EXCEPT !.down = TRUE]
              PROVE  DOMAIN acted = Fields /\ acted.stray
          BY <2>2, <4>1 DEF Fields
        <4>. QED  BY <2>2, <3>2, <4>1, OperateKeeps DEF Grown
      <3>4. CASE acted.status # "None" \/ acted.down
        BY <2>2, <3>1, <3>3, <3>4
      <3>5. CASE acted.status = "None" /\ ~acted.down
        <4>1. PICK deck \in Shuffles : game' = UserReady(acted, {c}, deck)
          BY <3>1, <3>5
        <4>. QED  BY <2>2, <3>3, <4>1, UserReadyKeeps
      <3>. QED  BY <3>4, <3>5
    <2>. QED  BY <2>3, <2>4
  <1>14. CASE EndTimer
    <2>. DEFINE h == [game EXCEPT !.ends = @ - 1]
                q == ConcludeGame(h)
                p == ResetGame(q)
                stray == p.stray \/ h.ends > 0 \/ h.claimTask # {}
    <2>1. game' = IF game.dismissed THEN h ELSE [p EXCEPT !.stray = stray]
      BY <1>14, Zenon DEF EndTimer
    <2>2. DOMAIN h = Fields /\ h.stray = game.stray
      BY DEF Fields
    <2>. HIDE DEF h
    <2>3. DOMAIN q = Fields /\ q.stray = game.stray
      BY <2>2 DEF ConcludeGame, OnEventRoomDismiss, Fields
    <2>. HIDE DEF q
    <2>4. DOMAIN p = Fields /\ p.stray = game.stray
      BY <2>3 DEF ResetGame, Fields
    <2>5. stray
      BY <2>4
    <2>. HIDE DEF p, stray
    <2>6. "stray" \in DOMAIN p
      BY <2>4 DEF Fields
    <2>. QED  BY <2>1, <2>2, <2>4, <2>5, <2>6
  <1>15. CASE PrepareTask
    <2>. DEFINE h == [game EXCEPT !.prepareTask = FALSE]
    <2>1. PICK deck \in Shuffles :
              game' = IF h.status = "None" THEN UserReady(h, Chairs, deck) ELSE h
      BY <1>15, Zenon DEF PrepareTask
    <2>2. DOMAIN h = Fields /\ h.stray = game.stray
      BY DEF Fields
    <2>. HIDE DEF h
    <2>. QED  BY <2>1, <2>2, UserReadyKeeps
  <1>. QED  BY <1>3, <1>4, <1>5, <1>6, <1>7, <1>8, <1>9, <1>10, <1>11, <1>12, <1>13, <1>14, <1>15
       DEF Next, ChairStep, TimerStep

-----------------------------------------------------------------------------
(* The theorems. *)

\* A room's game starts idle.
LEMMA InitIsFine == Init => MjInv
  <1>. SUFFICES ASSUME Init
                PROVE  MjInv
    OBVIOUS
  <1>1. game = NewGameFrame
    BY DEF Init
  <1>2. DOMAIN game = Fields
    BY <1>1 DEF NewGameFrame, Fields
  <1>3. Typed(game)
    <2>1. /\ game.hands = [c \in Chairs |-> <<>>] /\ game.ops = [c \in Chairs |-> {}]
          /\ game.record = <<>> /\ game.deck = <<>> /\ game.bureau = 0 /\ game.ends = 0
          /\ game.settled = 0 /\ game.late = 0 /\ game.turnLost = {} /\ game.stray = FALSE
          /\ ~game.dismissed /\ ~game.down /\ game.banker = Off /\ game.winner = Off
      BY <1>1 DEF NewGameFrame
    <2>. QED  BY <1>2, <2>1 DEF Typed
  <1>4. Idle(game)
    BY <1>1, <1>3, MjAssumption DEF NewGameFrame, Idle, Fresh, Nobody
  <1>. QED  BY <1>2, <1>4 DEF MjInv, Fine, Good

\* Every step keeps the invariant.
LEMMA NextIsFine == MjInv /\ [Next]_vars => MjInv'
  <1>. SUFFICES ASSUME MjInv, [Next]_vars
                PROVE  MjInv'
    OBVIOUS
  <1>1. CASE UNCHANGED vars
    BY <1>1 DEF vars, MjInv
  <1>2. CASE Next /\ game.stray
    <2>1. DOMAIN game' = Fields /\ game'.stray
      BY <1>2, StrayStays DEF MjInv, Next
    <2>. QED  BY <2>1 DEF MjInv
  <1>3. CASE Next /\ ~game.stray
    <2>1. Fine(game) /\ ~game.down
      BY <1>3 DEF MjInv, Next
    <2>2. CASE EndTimer
      BY <2>1, <2>2, EndTimerIsFine DEF MjInv
    <2>3. ASSUME NEW c \in Chairs, TurnOperate(c)
          PROVE  MjInv'
      BY <2>1, <2>3, TurnOperateIsFine DEF MjInv
    <2>4. CASE ~EndTimer /\ \A c \in Chairs : ~TurnOperate(c)
      <3>1. \/ Dismiss
            \/ \E c \in Chairs : ChairStep(c)
            \/ CardsTimer \/ TurnTask \/ PrepareTask
            \/ \E c \in Chairs : TurnLost(c) \/ ClaimTask(c) \/ AutoTimer(c) \/ TrustTask(c)
        BY <1>3, <2>4 DEF Next, TimerStep
      <3>2. ASSUME NEW c \in Chairs, ChairStep(c)
            PROVE  Fine(game')
        <4>1. CASE Ready(c)
          BY <2>1, <4>1, ReadyIsFine
        <4>2. CASE Discard(c)
          BY <2>1, <4>2, DiscardIsFine
        <4>3. ~TurnOperate(c)
          BY <2>4
        <4>4. CASE GetCard(c)
          BY <2>1, <4>4, GetCardIsFine
        <4>5. CASE Trust(c)
          BY <2>1, <4>5, TrustingIsFine DEF Trust
        <4>. QED  BY <3>2, <4>1, <4>2, <4>3, <4>4, <4>5 DEF ChairStep
      <3>3. ASSUME NEW c \in Chairs, TurnLost(c) \/ ClaimTask(c) \/ AutoTimer(c) \/ TrustTask(c)
            PROVE  Fine(game')
        <4>1. CASE TurnLost(c)
          BY <2>1, <4>1, TurnLostIsFine
        <4>2. CASE ClaimTask(c)
          BY <2>1, <4>2, ClaimTaskIsFine
        <4>3. CASE AutoTimer(c)
          BY <2>1, <4>3, AutoTimerIsFine
        <4>4. CASE TrustTask(c)
          BY <2>1, <4>4, TrustingIsFine DEF TrustTask
        <4>. QED  BY <3>3, <4>1, <4>2, <4>3, <4>4
      <3>4. Fine(game')
        BY <2>1, <3>1, <3>2, <3>3, DismissIsFine, CardsTimerIsFine, TurnTaskIsFine, PrepareTaskIsFine
      <3>5. DOMAIN game' = Fields
        <4>1. Good(game') => Typed(game')
          BY DEF Good, Idle, Dealt, Shown, Fresh, TurnOpen, Turn, ClaimOpen, Open, Live
        <4>. QED  BY <3>4, <4>1 DEF Fine, Ended, Typed
      <3>. QED  BY <3>4, <3>5 DEF MjInv
    <2>. QED  BY <2>2, <2>3, <2>4
  <1>. QED  BY <1>1, <1>2, <1>3

\* A game is idle, dealt, at a turn, at a claim or shown, or has ended, unless
\* a timer or a task strayed into a later bureau or a tile was laid that the
\* hand lacks; refused acts and the tiles that messages name do not matter.
THEOREM StagesFollow == Spec => []MjInv
  BY InitIsFine, NextIsFine, PTL DEF Spec

\* OneClaim: at most one player has a claim, and only his claim has a task.
THEOREM OneMayAnswer == Spec => []OneClaim
  <1>1. MjInv => OneClaim
    BY FineIsSafe DEF MjInv, OneClaim, Tidy, Safe
  <1>. QED  BY <1>1, StagesFollow, PTL

\* SurplusTile: exactly the player whose turn it is has a tile too many, and
\* nobody has while a discard may be claimed, unless a tile was laid that the
\* hand lacks.
THEOREM TilesAreEven == Spec => []SurplusTile
  <1>1. MjInv => SurplusTile
    <2>. SUFFICES ASSUME MjInv, Tidy, game.status = "Playing", ~game.down
                  PROVE  \A c \in Chairs : Len(game.hands[c]) % 3 =
                            (IF c = game.cur /\ Claiming(game) = {} THEN 2 ELSE 1)
      BY DEF SurplusTile
    <2>1. Safe(game)
      BY FineIsSafe DEF MjInv, Tidy
    <2>. QED  BY <2>1, Zenon DEF Safe
  <1>. QED  BY <1>1, StagesFollow, PTL

\* SettledOnce: a tidy bureau has one result, but for acts that are left open
\* when the tiles run out on four of a kind, and once there is a record the
\* process ends only for a second tile of Chunniunai or for a hand that those
\* acts emptied.
THEOREM BureausSettleOnce == Spec => []SettledOnce
  <1>1. MjInv => SettledOnce
    <2>. SUFFICES ASSUME MjInv, Tidy
                  PROVE  /\ ~EndedOnGang(game) => game.settled <= 1
                         /\ (game.down /\ game.record # <<>>) =>
                               (Chunniunai \/ EndedOnGang(game)) /\ Len(game.deck) <= Ma
      BY Zenon DEF SettledOnce
    <2>1. Safe(game)
      BY FineIsSafe DEF MjInv, Tidy
    <2>. QED  BY <2>1, Zenon DEF Safe
  <1>. QED  BY <1>1, StagesFollow, PTL

\* StageIsTimed: every stage of a bureau has the task or the timer that ends it,
\* but for a turn at which an act was refused, or a token read late.
THEOREM StagesAreTimed == Spec => []StageIsTimed
  <1>1. MjInv => StageIsTimed
    <2>. SUFFICES ASSUME MjInv, ~game.dismissed, ~game.down, Tidy
                  PROVE  /\ game.status = "Dices" => game.cards
                         /\ game.status = "Result" => game.ends > 0
                         /\ (game.late = 0 /\ ~game.refused /\ game.status = "Playing") =>
                               IF Claiming(game) # {}
                               THEN game.claimTask = Claiming(game) /\ game.turnTask = Off
                               ELSE \/ game.turnTask = game.cur
                                    \/ game.cur \in game.autos
                                    \/ LastOf(game.record).operate = "Peng" /\ (CanTrust => game.trustTask)
      BY Zenon DEF StageIsTimed, Calm
    <2>1. Good(game)
      BY FineHas DEF MjInv, Tidy
    <2>2. game.status = "Dices" => game.cards
      BY <2>1 DEF Good, Idle, Dealt, Shown, TurnOpen, Turn, ClaimOpen, Open, Live
    <2>3. game.status = "Result" => game.ends > 0
      <3>1. game.status = "Result" => (game.ends \in Nat /\ game.ends >= 1)
        BY <2>1 DEF Good, Idle, Dealt, Shown, TurnOpen, Turn, ClaimOpen, Open, Live, Typed
      <3>. QED  BY <3>1
    <2>4. ASSUME game.late = 0, ~game.refused, game.status = "Playing", TurnOpen(game)
          PROVE  /\ Claiming(game) = {}
                 /\ \/ game.turnTask = game.cur
                    \/ game.cur \in game.autos
                    \/ LastOf(game.record).operate = "Peng" /\ (CanTrust => game.trustTask)
      <3>1. Claiming(game) = {}
        BY <2>4, NobodyIsClaiming DEF TurnOpen, Turn, Open
      <3>2. Timed(game) /\ (CanTrust => game.trustTask)
        BY <2>4 DEF TurnOpen, Turn, Open, Live
      <3>. QED  BY <3>1, <3>2 DEF Timed
    <2>5. ASSUME game.status = "Playing", NEW c \in Chairs, ClaimOpen(game, c)
          PROVE  /\ Claiming(game) = {c} /\ game.claimTask = {c} /\ game.turnTask = Off
      <3>1. Claiming(game) = {c}
        BY <2>5, OneIsClaiming DEF ClaimOpen
      <3>. QED  BY <2>5, <3>1, Zenon DEF ClaimOpen
    <2>6. game.status = "Playing" => TurnOpen(game) \/ \E c \in Chairs : ClaimOpen(game, c)
      BY <2>1 DEF Good, Idle, Dealt, Shown
    <2>. QED  BY <2>2, <2>3, <2>4, <2>5, <2>6
  <1>. QED  BY <1>1, StagesFollow, PTL
=============================================================================
