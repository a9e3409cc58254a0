---------------------------- MODULE SearchProofs ----------------------------
(***************************************************************************)
(* Undo is exact, for every deal, trump suit, sequence of searches and     *)
(* order of the moves: PositionKept of Search.                             *)
(*                                                                         *)
(* The invariant is that a search has a trail: the nodes that lead from    *)
(* where it began to where it is, one for each activation on the stack,    *)
(* such that undoing the move of a frame takes each node back to the one   *)
(* before it.  A card that is played lengthens the trail, a card that is   *)
(* undone shortens it, and an activation that returns leaves it as it is.  *)
(*                                                                         *)
(* The move must be a card of the hand to play, so the lists of moves must *)
(* hold nothing else: the first part proves that for the sorting networks  *)
(* and the insertion, by induction over the comparisons.  The second part  *)
(* is about single nodes, the third about trails, the fourth about steps.  *)
(***************************************************************************)
EXTENDS Search, FoldLemmas, FiniteSetTheorems, SequenceTheorems

-----------------------------------------------------------------------------
(* The sorting of a list of moves keeps what is in it.                     *)

LEMMA CmpSwapKeeps ==
  ASSUME NEW S, NEW n \in Nat, NEW list \in [1..n -> S], NEW weight,
         NEW pair \in (0..(n - 1)) \X (0..(n - 1))
  PROVE  CmpSwap(list, pair, weight) \in [1..n -> S]
<1>1. pair[1] + 1 \in 1..n /\ pair[2] + 1 \in 1..n
  OBVIOUS
<1>2. list[pair[1] + 1] \in S /\ list[pair[2] + 1] \in S
  BY <1>1
<1>3. [list EXCEPT ![pair[1] + 1] = list[pair[2] + 1],
                   ![pair[2] + 1] = list[pair[1] + 1]] \in [1..n -> S]
  BY <1>2
<1> QED
  BY <1>3 DEF CmpSwap

(* The two sorts of MergeSort. *)
ByNetwork(list, weight, net) ==
  FoldLeft(LAMBDA l, pair : CmpSwap(l, pair, weight), list, net)
ByInsertion(list, weight) ==
  FoldLeft(LAMBDA l, move : Insert(l, move, weight), <<>>, list)

LEMMA NetKeeps ==
  ASSUME NEW S, NEW n \in Nat, NEW list \in [1..n -> S], NEW weight,
         NEW net \in Seq((0..(n - 1)) \X (0..(n - 1)))
  PROVE  ByNetwork(list, weight, net) \in [1..n -> S]
<1> DEFINE k == Len(net)
           V == [1..n -> S]
           Pairs == (0..(n - 1)) \X (0..(n - 1))
           G == [x \in V \X (1..k) |-> CmpSwap(x[1], net[x[2]], weight)]
           R(iter) == iter = [s \in SUBSET DOMAIN net |->
                                IF s = {} THEN list
                                ELSE CmpSwap(iter[s \ {Max(s)}], net[Max(s)], weight)]
<1>1. k \in Nat /\ DOMAIN net = 1..k /\ \A j \in 1..k : net[j] \in Pairs
  OBVIOUS
<1>2. ByNetwork(list, weight, net) = (CHOOSE iter : R(iter))[DOMAIN net]
  BY Zenon DEF ByNetwork, FoldLeft, MapThenFoldSet
<1> HIDE DEF k, Pairs
<1>3. ASSUME NEW v \in V, NEW j \in 1..k PROVE CmpSwap(v, net[j], weight) \in V
  BY <1>1, CmpSwapKeeps DEF Pairs
<1>4. G \in [V \X (1..k) -> V]
  <2>1. ASSUME NEW x \in V \X (1..k) PROVE CmpSwap(x[1], net[x[2]], weight) \in V
    BY <1>3
  <2> QED
    BY <2>1
<1>5. \E iter : R(iter)
  <2> HIDE DEF G, V
  <2>0. list \in V
    BY DEF V
  <2>1. PICK iter \in [SUBSET (1..k) -> V] : Steps(iter, k, list, G)
    <3>1. k \in Nat
      BY <1>1
    <3> QED
      BY ONLY <1>4, <2>0, <3>1, FoldSteps
  <2>2. ASSUME NEW s \in SUBSET (1..k)
        PROVE  iter[s] = IF s = {} THEN list
                         ELSE CmpSwap(iter[s \ {Max(s)}], net[Max(s)], weight)
    <3>1. CASE s = {}
      BY <2>1, <3>1 DEF Steps
    <3>2. CASE s # {}
      <4>1. Max(s) \in 1..k
        BY <1>1, <3>2, MaxOf
      <4>2. iter[s \ {Max(s)}] \in V
        BY <2>1
      <4>3. G[<<iter[s \ {Max(s)}], Max(s)>>]
              = CmpSwap(iter[s \ {Max(s)}], net[Max(s)], weight)
        BY <4>1, <4>2 DEF G
      <4> QED
        BY <2>1, <3>2, <4>3 DEF Steps
    <3> QED
      BY <3>1, <3>2
  <2>3. R(iter)
    BY <1>1, <2>1, <2>2
  <2> QED
    BY <2>3
<1> DEFINE iter == CHOOSE iter : R(iter)
<1>6. R(iter)
  <2> HIDE DEF R
  <2> QED
    BY <1>5
<1>7. iter[1..k] \in V
  <2> HIDE DEF iter
  <2>1. iter[{}] \in V
    <3>1. iter[{}] = list
      BY <1>1, <1>6
    <3> QED
      BY <3>1
  <2>2. ASSUME NEW s \in SUBSET (1..k), s # {}, iter[s \ {Max(s)}] \in V
        PROVE  iter[s] \in V
    <3>1. iter[s] = CmpSwap(iter[s \ {Max(s)}], net[Max(s)], weight)
      BY <1>1, <1>6, <2>2
    <3>2. Max(s) \in 1..k
      BY <1>1, <2>2, MaxOf
    <3> QED
      BY <1>3, <2>2, <3>1, <3>2
  <2> HIDE DEF V
  <2> QED
    BY <1>1, <2>1, <2>2, FoldKeeps
<1> QED
  BY <1>1, <1>2, <1>7

LEMMA InsertKeeps ==
  ASSUME NEW S, NEW list \in Seq(S), NEW move \in S, NEW weight
  PROVE  Insert(list, move, weight) \in Seq(S)
<1> DEFINE heavier == {i \in DOMAIN list : weight[list[i]] >= weight[move]}
           n == Cardinality(heavier)
<1>1. Len(list) \in Nat /\ DOMAIN list = 1..Len(list)
  OBVIOUS
<1>2. n \in Nat /\ n <= Len(list)
  <2>1. IsFiniteSet(1..Len(list)) /\ Cardinality(1..Len(list)) = Len(list)
    BY <1>1, FS_Interval
  <2>2. heavier \in SUBSET (1..Len(list))
    BY <1>1
  <2> HIDE DEF heavier
  <2> QED
    BY <2>1, <2>2, FS_Subset, FS_CardinalityType
<1>3. Insert(list, move, weight)
        = SubSeq(list, 1, n) \o <<move>> \o SubSeq(list, n + 1, Len(list))
  BY DEF Insert
<1> HIDE DEF n
<1>4. SubSeq(list, 1, n) \in Seq(S) /\ SubSeq(list, n + 1, Len(list)) \in Seq(S)
  BY <1>1, <1>2
<1>5. <<move>> \in Seq(S)
  OBVIOUS
<1>6. SubSeq(list, 1, n) \o <<move>> \in Seq(S)
  BY <1>4, <1>5, ConcatProperties
<1> QED
  BY <1>3, <1>4, <1>6, ConcatProperties

LEMMA InsertionKeeps ==
  ASSUME NEW S, NEW list \in Seq(S), NEW weight
  PROVE  ByInsertion(list, weight) \in Seq(S)
<1> DEFINE k == Len(list)
           V == Seq(S)
           G == [x \in V \X (1..k) |-> Insert(x[1], list[x[2]], weight)]
           R(iter) == iter = [s \in SUBSET DOMAIN list |->
                                IF s = {} THEN <<>>
                                ELSE Insert(iter[s \ {Max(s)}], list[Max(s)], weight)]
<1>1. k \in Nat /\ DOMAIN list = 1..k /\ \A j \in 1..k : list[j] \in S
  OBVIOUS
<1>2. ByInsertion(list, weight) = (CHOOSE iter : R(iter))[DOMAIN list]
  BY Zenon DEF ByInsertion, FoldLeft, MapThenFoldSet
<1>3. <<>> \in V
  OBVIOUS
<1> HIDE DEF k
<1>4. ASSUME NEW v \in V, NEW j \in 1..k PROVE Insert(v, list[j], weight) \in V
  BY <1>1, InsertKeeps
<1>5. G \in [V \X (1..k) -> V]
  <2>1. ASSUME NEW x \in V \X (1..k) PROVE Insert(x[1], list[x[2]], weight) \in V
    BY <1>4
  <2> QED
    BY <2>1
<1>6. \E iter : R(iter)
  <2> HIDE DEF G, V
  <2>1. PICK iter \in [SUBSET (1..k) -> V] : Steps(iter, k, <<>>, G)
    <3>1. k \in Nat
      BY <1>1
    <3> QED
      BY ONLY <1>3, <1>5, <3>1, FoldSteps
  <2>2. ASSUME NEW s \in SUBSET (1..k)
        PROVE  iter[s] = IF s = {} THEN <<>>
                         ELSE Insert(iter[s \ {Max(s)}], list[Max(s)], weight)
    <3>1. CASE s = {}
      BY <2>1, <3>1 DEF Steps
    <3>2. CASE s # {}
      <4>1. Max(s) \in 1..k
        BY <1>1, <3>2, MaxOf
      <4>2. iter[s \ {Max(s)}] \in V
        BY <2>1
      <4>3. G[<<iter[s \ {Max(s)}], Max(s)>>]
              = Insert(iter[s \ {Max(s)}], list[Max(s)], weight)
        BY <4>1, <4>2 DEF G
      <4> QED
        BY <2>1, <3>2, <4>3 DEF Steps
    <3> QED
      BY <3>1, <3>2
  <2>3. R(iter)
    BY <1>1, <2>1, <2>2
  <2> QED
    BY <2>3
<1> DEFINE iter == CHOOSE iter : R(iter)
<1>7. R(iter)
  <2> HIDE DEF R
  <2> QED
    BY <1>6
<1>8. iter[1..k] \in V
  <2> HIDE DEF iter, V
  <2>1. iter[{}] \in V
    <3>1. iter[{}] = <<>>
      BY <1>1, <1>7
    <3> QED
      BY <1>3, <3>1
  <2>2. ASSUME NEW s \in SUBSET (1..k), s # {}, iter[s \ {Max(s)}] \in V
        PROVE  iter[s] \in V
    <3>1. iter[s] = Insert(iter[s \ {Max(s)}], list[Max(s)], weight)
      BY <1>1, <1>7, <2>2
    <3>2. Max(s) \in 1..k
      BY <1>1, <2>2, MaxOf
    <3> QED
      BY <1>4, <2>2, <3>1, <3>2
  <2> QED
    BY <1>1, <2>1, <2>2, FoldKeeps
<1> QED
  BY <1>1, <1>2, <1>8

LEMMA NetworksInRange ==
  ASSUME NEW n \in 1..12
  PROVE  Networks[n] \in Seq((0..(n - 1)) \X (0..(n - 1)))
<1> DEFINE R(k) == Seq((0..(k - 1)) \X (0..(k - 1)))
<1>1. /\ <<>> \in R(1)
      /\ Network2 \in R(2)
      /\ Network3 \in R(3)
      /\ Network4 \in R(4)
  BY DEF Network2, Network3, Network4
<1>2. Network5 \in R(5)
  BY DEF Network5
<1>3. Network6 \in R(6)
  BY DEF Network6
<1>4. Network7 \in R(7)
  BY DEF Network7
<1>5. Network8 \in R(8)
  BY DEF Network8
<1>6. Network9 \in R(9)
  BY DEF Network9
<1>7. Network10 \in R(10)
  BY DEF Network10
<1>8. Network11 \in R(11)
  BY DEF Network11
<1>9. Network12 \in R(12)
  BY DEF Network12
<1> HIDE DEF R
<1>10. /\ Networks[1] = <<>> /\ Networks[2] = Network2 /\ Networks[3] = Network3
       /\ Networks[4] = Network4 /\ Networks[5] = Network5 /\ Networks[6] = Network6
       /\ Networks[7] = Network7 /\ Networks[8] = Network8 /\ Networks[9] = Network9
       /\ Networks[10] = Network10 /\ Networks[11] = Network11
       /\ Networks[12] = Network12
  BY DEF Networks
<1>11. n \in 1..6 \/ n \in 7..12
  OBVIOUS
<1>12. ASSUME n \in 1..6 PROVE Networks[n] \in R(n)
  <2>1. n = 1 \/ n = 2 \/ n = 3 \/ n = 4 \/ n = 5 \/ n = 6
    BY <1>12
  <2> QED
    BY <2>1, <1>1, <1>2, <1>3, <1>10
<1>13. ASSUME n \in 7..12 PROVE Networks[n] \in R(n)
  <2>1. n = 7 \/ n = 8 \/ n = 9 \/ n = 10 \/ n = 11 \/ n = 12
    BY <1>13
  <2> QED
    BY <2>1, <1>4, <1>5, <1>6, <1>7, <1>8, <1>9, <1>10
<1> QED
  BY <1>11, <1>12, <1>13 DEF R

LEMMA MergeSortKeeps ==
  ASSUME NEW S, NEW list \in Seq(S), NEW weight
  PROVE  MergeSort(list, weight) \in Seq(S)
<1> DEFINE n == Len(list)
<1>1. n \in Nat /\ list \in [1..n -> S]
  OBVIOUS
<1>2. CASE n \in DOMAIN Networks
  <2>1. DOMAIN Networks = 1..12
    BY DEF Networks
  <2>0. n \in 1..12
    BY <1>2, <2>1
  <2> HIDE DEF n
  <2>2. Networks[n] \in Seq((0..(n - 1)) \X (0..(n - 1)))
    BY <2>0, NetworksInRange
  <2>3. ByNetwork(list, weight, Networks[n]) \in [1..n -> S]
    BY <1>1, <2>2, NetKeeps
  <2>4. MergeSort(list, weight) = ByNetwork(list, weight, Networks[n])
    BY <1>2, Zenon DEF MergeSort, ByNetwork, n
  <2> QED
    BY <1>1, <2>3, <2>4
<1>3. CASE n \notin DOMAIN Networks
  <2>1. MergeSort(list, weight) = ByInsertion(list, weight)
    BY <1>3, Zenon DEF MergeSort, ByInsertion
  <2> QED
    BY <2>1, InsertionKeeps
<1> QED
  BY <1>2, <1>3

-----------------------------------------------------------------------------
(* The nodes of a search.                                                  *)

Positions ==
  {p \in [hands : [Hands -> SUBSET Cards], first : Hands, trick : Seq(Cards)] :
     Len(p.trick) < 4}
Winners == [hand : -1..3, rank : 0..14]
Nodes == [pos : Positions, best : [AllSuits -> Winners],
          second : [AllSuits -> Winners], won : Int]
Plays(p) == [card : Holding(p), sequence : SUBSET Cards]

LEMMA PositionFacts ==
  ASSUME NEW p \in Positions
  PROVE  /\ p.hands \in [Hands -> SUBSET Cards] /\ p.first \in Hands
         /\ p.trick \in Seq(Cards) /\ Len(p.trick) \in 0..3
         /\ p = [hands |-> p.hands, first |-> p.first, trick |-> p.trick]
         /\ ToPlay(p) \in Hands /\ Holding(p) \in SUBSET Cards
<1>1. /\ p.hands \in [Hands -> SUBSET Cards] /\ p.first \in Hands
      /\ p.trick \in Seq(Cards) /\ Len(p.trick) < 4
      /\ p = [hands |-> p.hands, first |-> p.first, trick |-> p.trick]
  BY DEF Positions
<1>2. Len(p.trick) \in 0..3
  <2>1. \A k \in Nat : k < 4 => k \in 0..3
    OBVIOUS
  <2>2. Len(p.trick) \in Nat
    BY <1>1, LenProperties
  <2> QED
    BY ONLY <1>1, <2>1, <2>2
<1>3. ToPlay(p) \in Hands
  BY <1>1, <1>2 DEF ToPlay, Hands
<1> QED
  BY <1>1, <1>2, <1>3 DEF Holding

LEMMA CardFacts ==
  ASSUME NEW c \in Cards
  PROVE  Suit(c) \in AllSuits /\ Rank(c) \in 2..14
  BY DEF Cards, AllSuits, Suit, Rank

LEMMA CardsFinite == IsFiniteSet(Cards)
<1>1. IsFiniteSet(0..3) /\ IsFiniteSet(2..14)
  <2>1. \A a, b \in Int : IsFiniteSet(a..b)
    BY FS_Interval
  <2>2. 0 \in Int /\ 3 \in Int /\ 2 \in Int /\ 14 \in Int
    OBVIOUS
  <2> QED
    BY ONLY <2>1, <2>2, Zenon
<1>2. IsFiniteSet((0..3) \X (2..14))
  BY <1>1, FS_Product
<1> QED
  BY <1>2 DEF Cards, AllSuits

LEMMA MovesOf ==
  ASSUME NEW p \in Positions
  PROVE  IsFiniteSet(Moves(p)) /\ Moves(p) \in SUBSET Plays(p)
<1>1. Legal(p) \in SUBSET Holding(p) /\ Holding(p) \in SUBSET Cards
  BY PositionFacts DEF Legal
<1> DEFINE held == UNION {p.hands[h] : h \in Hands \ {ToPlay(p)}} \cup Range(p.trick)
           Below(c, d) == /\ Suit(d) = Suit(c) /\ Rank(d) < Rank(c)
                          /\ \A e \in held : Suit(e) = Suit(c)
                                               => Rank(e) \notin Rank(d)..Rank(c)
           heads == {c \in Legal(p) : ~ \E d \in Legal(p) : Below(d, c)}
           f == [c \in heads |-> [card |-> c,
                                  sequence |-> {d \in Legal(p) : Below(c, d)}]]
<1>2. Moves(p) = {f[c] : c \in heads}
  BY Zenon DEF Moves
<1>3. heads \in SUBSET Legal(p)
  OBVIOUS
<1>4. ASSUME NEW c \in heads PROVE f[c] \in Plays(p)
  <2>1. f[c] = [card |-> c, sequence |-> {d \in Legal(p) : Below(c, d)}]
    OBVIOUS
  <2>2. {d \in Legal(p) : Below(c, d)} \in SUBSET Cards
    BY <1>1
  <2>3. c \in Holding(p)
    BY <1>1, <1>3
  <2> HIDE DEF Below, f
  <2> QED
    BY <2>1, <2>2, <2>3 DEF Plays
<1>5. DOMAIN f = heads
  OBVIOUS
<1>6. IsFiniteSet(heads)
  BY <1>1, <1>3, CardsFinite, FS_Subset
<1> HIDE DEF f, heads
<1>7. f \in Surjection(heads, Moves(p))
  <2>1. f = [c \in heads |-> f[c]]
    BY DEF f
  <2>2. f \in [heads -> Moves(p)]
    BY <2>1, <1>2
  <2> QED
    BY <2>2, <1>2 DEF Surjection
<1>8. IsFiniteSet(Moves(p))
  BY <1>6, <1>7, FS_Surjection
<1> QED
  BY <1>2, <1>4, <1>8

(* The list of moves of a node holds moves of the node only. *)
LEMMA InOrderKeeps ==
  ASSUME NEW ms, IsFiniteSet(ms)
  PROVE  InOrder(ms) \in Seq(ms)
<1> DEFINE n == Cardinality(ms)
           w == [m \in ms |-> order.suit * Suit(m.card) + order.rank * Rank(m.card)]
<1>1. n \in Nat /\ ExistsBijection(1..n, ms)
  BY FS_CardinalityType
<1>2. \E f \in [1..n -> ms] : IsInjective(f)
  BY <1>1 DEF ExistsBijection, Bijection, Injection
<1>3. SetToSeq(ms) \in [1..n -> ms]
  BY <1>2 DEF SetToSeq
<1>4. SetToSeq(ms) \in Seq(ms)
  BY <1>1, <1>3
<1>5. InOrder(ms) = MergeSort(SetToSeq(ms), w)
  BY Zenon DEF InOrder
<1> HIDE DEF w
<1> QED
  BY <1>4, <1>5, MergeSortKeeps

LEMMA RelRankType ==
  ASSUME NEW hands \in [Hands -> SUBSET Cards], NEW s, NEW k
  PROVE  RelRank(hands, s, k) \in Winners
<1> DEFINE held == {c \in UNION {hands[h] : h \in Hands} : Suit(c) = s}
           kth  == {c \in held : Cardinality({d \in held : Rank(d) > Rank(c)}) = k - 1}
           c == CHOOSE d \in kth : TRUE
           h == CHOOSE g \in Hands : c \in hands[g]
<1>1. RelRank(hands, s, k)
        = IF kth = {} THEN NoOne ELSE [hand |-> h, rank |-> Rank(c)]
  BY Zenon DEF RelRank
<1>2. NoOne \in Winners
  BY DEF NoOne, Winners
<1>3. ASSUME kth # {} PROVE h \in Hands /\ c \in Cards
  <2>1. c \in kth
    BY <1>3
  <2>2. c \in UNION {hands[g] : g \in Hands}
    BY <2>1
  <2>3. \E g \in Hands : c \in hands[g]
    BY <2>2
  <2> HIDE DEF c
  <2>4. h \in Hands /\ c \in hands[h]
    BY <2>3
  <2> QED
    BY <2>4
<1> HIDE DEF h, c, kth
<1>4. ASSUME kth # {} PROVE [hand |-> h, rank |-> Rank(c)] \in Winners
  <2>1. Rank(c) \in 2..14
    BY <1>3, <1>4 DEF Cards, Rank
  <2> QED
    BY <1>3, <1>4, <2>1 DEF Winners, Hands
<1> QED
  BY <1>1, <1>2, <1>4

(* The k-th card of a suit depends on who holds the cards of that suit. *)
LEMMA RelRankSame ==
  ASSUME NEW hands \in [Hands -> SUBSET Cards],
         NEW others \in [Hands -> SUBSET Cards], NEW s, NEW k,
         \A h \in Hands, c \in Cards :
           Suit(c) = s => (c \in hands[h] <=> c \in others[h])
  PROVE  RelRank(hands, s, k) = RelRank(others, s, k)
<1> DEFINE Held(f) == {c \in UNION {f[h] : h \in Hands} : Suit(c) = s}
           Kth(H) == {c \in H : Cardinality({d \in H : Rank(d) > Rank(c)}) = k - 1}
           c == CHOOSE d \in Kth(Held(hands)) : TRUE
<1>1. Held(hands) = Held(others)
  <2>1. ASSUME NEW d PROVE d \in Held(hands) <=> d \in Held(others)
    <3>1. d \in Held(hands) <=> (Suit(d) = s /\ \E h \in Hands : d \in hands[h])
      OBVIOUS
    <3>2. d \in Held(others) <=> (Suit(d) = s /\ \E h \in Hands : d \in others[h])
      OBVIOUS
    <3>3. \A h \in Hands : hands[h] \in SUBSET Cards /\ others[h] \in SUBSET Cards
      OBVIOUS
    <3> HIDE DEF Held
    <3> QED
      BY <3>1, <3>2, <3>3
  <2> HIDE DEF Held
  <2> QED
    BY <2>1, Zenon DEF Held
<1>2. RelRank(hands, s, k)
        = IF Kth(Held(hands)) = {} THEN NoOne
          ELSE [hand |-> CHOOSE h \in Hands : c \in hands[h], rank |-> Rank(c)]
  BY Zenon DEF RelRank
<1>3. RelRank(others, s, k)
        = IF Kth(Held(others)) = {} THEN NoOne
          ELSE LET d == CHOOSE d \in Kth(Held(others)) : TRUE
               IN [hand |-> CHOOSE h \in Hands : d \in others[h], rank |-> Rank(d)]
  BY Zenon DEF RelRank
<1>4. ASSUME Kth(Held(hands)) # {}
      PROVE  (CHOOSE h \in Hands : c \in hands[h]) = (CHOOSE h \in Hands : c \in others[h])
  <2>1. c \in Kth(Held(hands))
    BY <1>4
  <2>2. c \in Held(hands)
    BY <2>1
  <2>3. Suit(c) = s /\ c \in Cards
    BY <2>2
  <2> HIDE DEF c
  <2>4. \A h \in Hands : c \in hands[h] <=> c \in others[h]
    BY <2>3
  <2> QED
    BY <2>4
<1>5. CASE Kth(Held(hands)) = {}
  BY ONLY <1>1, <1>2, <1>3, <1>5
<1>6. CASE Kth(Held(hands)) # {}
  <2> DEFINE H == Held(hands)
             a == CHOOSE h \in Hands : c \in hands[h]
             b == CHOOSE h \in Hands : c \in others[h]
  <2>1. RelRank(hands, s, k) = [hand |-> a, rank |-> Rank(c)]
    BY <1>2, <1>6, Zenon
  <2>2. RelRank(others, s, k) = [hand |-> b, rank |-> Rank(c)]
    BY <1>1, <1>3, <1>6, Zenon
  <2>3. a = b
    BY <1>4, <1>6
  <2> QED
    BY ONLY <2>1, <2>2, <2>3, Zenon
<1> QED
  BY <1>5, <1>6

LEMMA WinnerType ==
  ASSUME NEW trick \in Seq(Cards), Len(trick) = 4, NEW trump
  PROVE  Winner(trick, trump) \in 1..4
<1> DEFINE trumps == {i \in 1..4 : Suit(trick[i]) = trump}
           led    == {i \in 1..4 : Suit(trick[i]) = Suit(trick[1])}
           high   == IF trumps # {} THEN trumps ELSE led
           T == {14 - Rank(trick[i]) : i \in high}
<1>1. 1 \in led
  OBVIOUS
<1>2. high # {} /\ high \in SUBSET (1..4)
  BY <1>1
<1> HIDE DEF high
<1>3. \A i \in high : Rank(trick[i]) \in 2..14
  <2>1. \A i \in 1..4 : trick[i] \in Cards
    BY ElementOfSeq
  <2> QED
    BY <1>2, <2>1, CardFacts
<1>4. T \in SUBSET Nat /\ T # {}
  <2>1. ASSUME NEW i \in high PROVE 14 - Rank(trick[i]) \in Nat
    <3>1. \A r \in 2..14 : 14 - r \in Nat
      OBVIOUS
    <3> QED
      BY ONLY <1>3, <3>1, i \in high
  <2> QED
    BY <1>2, <2>1
<1>5. PICK n \in T : \A m \in T : n <= m
  <2> HIDE DEF T
  <2> QED
    BY <1>4, NatLeast
<1>6. PICK top \in high : n = 14 - Rank(trick[top])
  BY <1>5
<1>7. ASSUME NEW j \in high PROVE Rank(trick[j]) <= Rank(trick[top])
  <2>1. 14 - Rank(trick[top]) <= 14 - Rank(trick[j])
    BY <1>5, <1>6
  <2>2. Rank(trick[top]) \in 2..14 /\ Rank(trick[j]) \in 2..14
    BY <1>3
  <2> QED
    BY ONLY <2>1, <2>2
<1>8. Winner(trick, trump)
        = CHOOSE i \in high : \A j \in high : Rank(trick[j]) <= Rank(trick[i])
  BY Zenon DEF Winner, high
<1> DEFINE w == CHOOSE i \in high : \A j \in high : Rank(trick[j]) <= Rank(trick[i])
<1>9. w \in high
  BY <1>6, <1>7
<1> HIDE DEF w
<1> QED
  BY <1>2, <1>8, <1>9 DEF w

LEMMA PlayCardType ==
  ASSUME NEW p \in Positions, NEW c \in Holding(p), NEW trump
  PROVE  /\ PlayCard(p, c, trump) \in Positions
         /\ PlayCard(p, c, trump).hands = [p.hands EXCEPT ![ToPlay(p)] = @ \ {c}]
         /\ Len(p.trick) < 3 =>
              /\ PlayCard(p, c, trump).first = p.first
              /\ PlayCard(p, c, trump).trick = Append(p.trick, c)
         /\ Len(p.trick) = 3 => PlayCard(p, c, trump).trick = <<>>
<1>1. /\ p.hands \in [Hands -> SUBSET Cards] /\ p.first \in Hands
      /\ p.trick \in Seq(Cards) /\ Len(p.trick) \in 0..3
      /\ ToPlay(p) \in Hands /\ c \in Cards
  BY PositionFacts
<1> DEFINE trick == Append(p.trick, c)
           hands == [p.hands EXCEPT ![ToPlay(p)] = @ \ {c}]
           next == (p.first + Winner(trick, trump) - 1) % 4
<1>2. hands \in [Hands -> SUBSET Cards]
  BY <1>1
<1>3. trick \in Seq(Cards) /\ Len(trick) = Len(p.trick) + 1
  BY <1>1, AppendProperties
<1>4. PlayCard(p, c, trump)
        = IF Len(trick) < 4
          THEN [hands |-> hands, first |-> p.first, trick |-> trick]
          ELSE [hands |-> hands, first |-> next, trick |-> <<>>]
  BY Zenon DEF PlayCard
<1> HIDE DEF hands, trick, next
<1>5. CASE Len(p.trick) < 3
  <2>1. Len(trick) < 4 /\ Len(p.trick) # 3
    BY <1>1, <1>3, <1>5
  <2>2. PlayCard(p, c, trump) = [hands |-> hands, first |-> p.first, trick |-> trick]
    BY <1>4, <2>1
  <2>3. [hands |-> hands, first |-> p.first, trick |-> trick] \in Positions
    BY <1>1, <1>2, <1>3, <2>1 DEF Positions
  <2> QED
    BY <2>1, <2>2, <2>3 DEF hands, trick
<1>6. CASE Len(p.trick) = 3
  <2>1. Len(trick) = 4 /\ ~ (Len(trick) < 4) /\ ~ (Len(p.trick) < 3)
    BY <1>1, <1>3, <1>6
  <2>2. PlayCard(p, c, trump) = [hands |-> hands, first |-> next, trick |-> <<>>]
    BY <1>4, <2>1
  <2>3. next \in Hands
    <3>1. Winner(trick, trump) \in 1..4
      BY <1>3, <2>1, WinnerType
    <3>2. \A a \in 0..3, b \in 1..4 : (a + b - 1) % 4 \in 0..3
      OBVIOUS
    <3> QED
      BY ONLY <1>1, <3>1, <3>2 DEF next, Hands
  <2>4. <<>> \in Seq(Cards) /\ Len(<<>>) < 4
    OBVIOUS
  <2>5. [hands |-> hands, first |-> next, trick |-> <<>>] \in Positions
    BY <1>2, <2>3, <2>4 DEF Positions
  <2> QED
    BY <2>1, <2>2, <2>5 DEF hands
<1>7. Len(p.trick) < 3 \/ Len(p.trick) = 3
  <2>1. \A k \in 0..3 : k < 3 \/ k = 3
    OBVIOUS
  <2> QED
    BY ONLY <1>1, <2>1
<1> QED
  BY <1>5, <1>6, <1>7

LEMMA TrickStartType ==
  ASSUME NEW p \in Positions
  PROVE  TrickStart(p) \in [Hands -> SUBSET Cards] /\ AtStart(p) \in [Hands -> SUBSET Cards]
<1>1. /\ p.hands \in [Hands -> SUBSET Cards] /\ p.trick \in Seq(Cards)
  BY PositionFacts
<1>2. \A i \in 1..Len(p.trick) : p.trick[i] \in Cards
  BY <1>1, ElementOfSeq
<1>3. TrickStart(p) \in [Hands -> SUBSET Cards]
  BY <1>1, <1>2 DEF TrickStart
<1>4. Range(p.trick) \in SUBSET Cards
  BY <1>1, <1>2 DEF Range
<1>5. AtStart(p) \in [Hands -> SUBSET Cards]
  BY <1>1, <1>4 DEF AtStart
<1> QED
  BY <1>3, <1>5

(* A card that does not end the trick leaves the cards held at its start. *)
LEMMA TrickStartKept ==
  ASSUME NEW p \in Positions, NEW c \in Holding(p), NEW trump, Len(p.trick) < 3
  PROVE  TrickStart(PlayCard(p, c, trump)) = TrickStart(p)
<1> DEFINE q == PlayCard(p, c, trump)
           n == Len(p.trick)
           Thrown(r, h) == {r.trick[i] : i \in {j \in 1..Len(r.trick) :
                                                 (r.first + j - 1) % 4 = h}}
<1>1. /\ p.hands \in [Hands -> SUBSET Cards] /\ p.first \in Hands
      /\ p.trick \in Seq(Cards) /\ n \in 0..3
      /\ ToPlay(p) \in Hands /\ c \in Cards
  BY PositionFacts
<1>2. /\ q.hands = [p.hands EXCEPT ![ToPlay(p)] = @ \ {c}]
      /\ q.first = p.first /\ q.trick = Append(p.trick, c)
  BY PlayCardType
<1> HIDE DEF q
<1>3. /\ Len(q.trick) = n + 1 /\ q.trick[n + 1] = c
      /\ \A i \in 1..n : q.trick[i] = p.trick[i]
  BY <1>1, <1>2, AppendProperties
<1>4. ToPlay(p) = (p.first + (n + 1) - 1) % 4
  BY <1>1 DEF ToPlay, Hands
<1>5. ASSUME NEW h \in Hands, NEW d
      PROVE  d \in q.hands[h] \cup Thrown(q, h) <=> d \in p.hands[h] \cup Thrown(p, h)
  <2>1. d \in Thrown(q, h) <=> d \in Thrown(p, h) \/ (d = c /\ h = ToPlay(p))
    <3>1. d \in Thrown(q, h)
            <=> \E j \in 1..(n + 1) : (p.first + j - 1) % 4 = h /\ d = q.trick[j]
      BY <1>2, <1>3
    <3>2. d \in Thrown(p, h) <=> \E j \in 1..n : (p.first + j - 1) % 4 = h /\ d = p.trick[j]
      OBVIOUS
    <3>3. \A j : j \in 1..(n + 1) <=> (j \in 1..n \/ j = n + 1)
      BY <1>1
    <3> HIDE DEF Thrown, n
    <3> QED
      BY <1>3, <1>4, <3>1, <3>2, <3>3
  <2>2. d \in q.hands[h] <=> d \in p.hands[h] /\ ~ (d = c /\ h = ToPlay(p))
    BY <1>1, <1>2
  <2>3. c \in p.hands[ToPlay(p)]
    BY DEF Holding
  <2> HIDE DEF Thrown
  <2> QED
    BY <2>1, <2>2, <2>3
<1>6. \A h \in Hands : q.hands[h] \cup Thrown(q, h) = p.hands[h] \cup Thrown(p, h)
  <2> HIDE DEF Thrown
  <2> QED
    BY <1>5
<1>7. TrickStart(q) = [h \in Hands |-> q.hands[h] \cup Thrown(q, h)]
  BY Zenon DEF TrickStart
<1>8. TrickStart(p) = [h \in Hands |-> p.hands[h] \cup Thrown(p, h)]
  BY Zenon DEF TrickStart
<1> HIDE DEF Thrown
<1>9. TrickStart(q) = TrickStart(p)
  BY <1>6, <1>7, <1>8
<1> QED
  BY <1>9 DEF q

(* Of a suit that nobody played in the trick, the cards held at its start  *)
(* are those that are held.                                                *)
LEMMA TrickStartElsewhere ==
  ASSUME NEW p \in Positions, NEW h \in Hands, NEW d \in Cards,
         \A i \in 1..Len(p.trick) : Suit(p.trick[i]) # Suit(d)
  PROVE  /\ d \in TrickStart(p)[h] <=> d \in p.hands[h]
         /\ d \in AtStart(p)[h] <=> d \in p.hands[h]
<1>1. p.hands \in [Hands -> SUBSET Cards] /\ p.trick \in Seq(Cards)
  BY PositionFacts
<1>2. \A i \in 1..Len(p.trick) : p.trick[i] # d
  OBVIOUS
<1>3. d \in TrickStart(p)[h] <=> d \in p.hands[h]
  BY <1>1, <1>2 DEF TrickStart
<1>4. d \notin Range(p.trick)
  BY <1>1, <1>2 DEF Range
<1>5. d \in AtStart(p)[h] <=> d \in p.hands[h]
  BY <1>1, <1>4 DEF AtStart
<1> QED
  BY <1>3, <1>5

(* Between tricks, what is held is what was held when the trick began. *)
LEMMA TrickStartEmpty ==
  ASSUME NEW p \in Positions, p.trick = <<>>
  PROVE  TrickStart(p) = p.hands
<1>1. p.hands \in [Hands -> SUBSET Cards]
  BY PositionFacts
<1>2. ASSUME NEW h \in Hands
      PROVE  {p.trick[i] : i \in {j \in 1..Len(p.trick) : (p.first + j - 1) % 4 = h}} = {}
  <2>1. 1..Len(p.trick) = {}
    BY Len(p.trick) = 0
  <2> QED
    BY <2>1
<1> QED
  BY <1>1, <1>2 DEF TrickStart

-----------------------------------------------------------------------------
(* A card and its undoing.                                                 *)

(* The node that undoing the move of frame f makes of n. *)
Before(f, n, mx) ==
  [pos |-> [hands |-> [n.pos.hands EXCEPT ![Mover(f)] = @ \cup {f.made.card}],
            first |-> f.first, trick |-> f.trick],
   best |-> [s \in AllSuits |-> IF s \in DOMAIN f.saved THEN f.saved[s][1] ELSE n.best[s]],
   second |-> [s \in AllSuits |-> IF s \in DOMAIN f.saved THEN f.saved[s][2] ELSE n.second[s]],
   won |-> IF Rel(f) = 3 /\ n.pos.first \in mx THEN n.won - 1 ELSE n.won]

(* The suits of the trick that card c ends, and the node after c. *)
Renewed(n, c) ==
  IF Len(n.pos.trick) = 3 THEN {Suit(d) : d \in Range(n.pos.trick) \cup {c}} ELSE {}
After(n, c, trump, mx) ==
  LET p == PlayCard(n.pos, c, trump)
  IN  [pos |-> p,
       best |-> [s \in AllSuits |-> IF s \in Renewed(n, c) THEN RelRank(p.hands, s, 1)
                                    ELSE n.best[s]],
       second |-> [s \in AllSuits |-> IF s \in Renewed(n, c) THEN RelRank(p.hands, s, 2)
                                      ELSE n.second[s]],
       won |-> IF Len(n.pos.trick) = 3 /\ p.first \in mx THEN n.won + 1 ELSE n.won]

(* WinnersAgree and Restored, of a node. *)
Dealt(p, trick) == /\ Len(p.trick) >= Len(trick) /\ trick # <<>>
                   /\ SubSeq(p.trick, 1, Len(trick)) = trick
Agrees(n, trick) ==
  \A s \in AllSuits :
    \/ /\ n.best[s] = RelRank(TrickStart(n.pos), s, 1)
       /\ n.second[s] = RelRank(TrickStart(n.pos), s, 2)
    \/ Dealt(n.pos, trick) /\ \E c \in Range(trick) : Suit(c) = s
Begins(n, b, mx) ==
  /\ n.pos.hands = b.hands /\ n.pos.trick = b.trick
  /\ n.won = 0 /\ ToPlay(n.pos) \in mx
  /\ \A s \in AllSuits : /\ n.best[s] = RelRank(AtStart(n.pos), s, 1)
                         /\ n.second[s] = RelRank(AtStart(n.pos), s, 2)

LEMMA NodeFacts ==
  ASSUME NEW n \in Nodes
  PROVE  /\ n.pos \in Positions /\ n.won \in Int
         /\ n.best \in [AllSuits -> Winners] /\ n.second \in [AllSuits -> Winners]
         /\ n = [pos |-> n.pos, best |-> n.best, second |-> n.second, won |-> n.won]
  BY DEF Nodes

LEMMA AfterType ==
  ASSUME NEW n \in Nodes, NEW c \in Holding(n.pos), NEW trump, NEW mx
  PROVE  After(n, c, trump, mx) \in Nodes
<1> DEFINE p == PlayCard(n.pos, c, trump)
           e == After(n, c, trump, mx)
<1>1. p \in Positions
  BY NodeFacts, PlayCardType
<1> HIDE DEF p
<1>2. p.hands \in [Hands -> SUBSET Cards]
  BY <1>1, PositionFacts
<1>3. \A s, k : RelRank(p.hands, s, k) \in Winners
  BY <1>2, RelRankType
<1> DEFINE b == [s \in AllSuits |-> IF s \in Renewed(n, c) THEN RelRank(p.hands, s, 1)
                                    ELSE n.best[s]]
           d == [s \in AllSuits |-> IF s \in Renewed(n, c) THEN RelRank(p.hands, s, 2)
                                    ELSE n.second[s]]
           w == IF Len(n.pos.trick) = 3 /\ p.first \in mx THEN n.won + 1 ELSE n.won
<1>4. b \in [AllSuits -> Winners] /\ d \in [AllSuits -> Winners]
  BY <1>3, NodeFacts
<1>5. w \in Int
  BY NodeFacts
<1>6. e = [pos |-> p, best |-> b, second |-> d, won |-> w]
  BY Zenon DEF After, p
<1> HIDE DEF b, d, w, e
<1>7. e \in Nodes
  BY <1>1, <1>4, <1>5, <1>6 DEF Nodes
<1> QED
  BY <1>7 DEF e

(* Undoing a card gives back the node that it was played at. *)
LEMMA UndoneExactly ==
  ASSUME NEW n \in Nodes, NEW m \in Plays(n.pos), NEW trump, NEW mx, NEW f,
         f.first = n.pos.first, f.trick = n.pos.trick, f.made = m,
         f.saved = [s \in Renewed(n, m.card) |-> <<n.best[s], n.second[s]>>]
  PROVE  Before(f, After(n, m.card, trump, mx), mx) = n
<1> DEFINE c == m.card
           p == PlayCard(n.pos, c, trump)
           e == After(n, c, trump, mx)
           t == ToPlay(n.pos)
<1>1. /\ n.pos.hands \in [Hands -> SUBSET Cards] /\ t \in Hands
      /\ n.pos = [hands |-> n.pos.hands, first |-> n.pos.first, trick |-> n.pos.trick]
  BY NodeFacts, PositionFacts
<1>2. c \in Holding(n.pos)
  BY DEF Plays
<1>3. p.hands = [n.pos.hands EXCEPT ![t] = @ \ {c}]
  BY <1>2, NodeFacts, PlayCardType
<1>4. /\ e.pos = p
      /\ e.best = [s \in AllSuits |-> IF s \in Renewed(n, c) THEN RelRank(p.hands, s, 1)
                                      ELSE n.best[s]]
      /\ e.second = [s \in AllSuits |-> IF s \in Renewed(n, c) THEN RelRank(p.hands, s, 2)
                                        ELSE n.second[s]]
      /\ e.won = IF Len(n.pos.trick) = 3 /\ p.first \in mx THEN n.won + 1 ELSE n.won
  BY DEF After
<1> HIDE DEF e, p, c, t
<1>5. Mover(f) = t /\ Rel(f) = Len(n.pos.trick) /\ f.made.card = c
  BY DEF Mover, Rel, ToPlay, t, c
<1>6. [e.pos.hands EXCEPT ![Mover(f)] = @ \cup {f.made.card}] = n.pos.hands
  <2>1. c \in n.pos.hands[t]
    BY <1>2 DEF Holding, t
  <2>2. [[n.pos.hands EXCEPT ![t] = @ \ {c}] EXCEPT ![t] = @ \cup {c}] = n.pos.hands
    BY <1>1, <2>1
  <2> QED
    BY <1>3, <1>4, <1>5, <2>2
<1>7. DOMAIN f.saved = Renewed(n, c)
  BY DEF c
<1>8. \A s \in Renewed(n, c) : f.saved[s][1] = n.best[s] /\ f.saved[s][2] = n.second[s]
  BY DEF c
<1>9. [s \in AllSuits |-> IF s \in DOMAIN f.saved THEN f.saved[s][1] ELSE e.best[s]] = n.best
  BY <1>4, <1>7, <1>8, NodeFacts
<1>10. [s \in AllSuits |-> IF s \in DOMAIN f.saved THEN f.saved[s][2] ELSE e.second[s]]
         = n.second
  BY <1>4, <1>7, <1>8, NodeFacts
<1>11. (IF Rel(f) = 3 /\ e.pos.first \in mx THEN e.won - 1 ELSE e.won) = n.won
  BY <1>4, <1>5, NodeFacts
<1>12. Before(f, e, mx) = [pos |-> n.pos, best |-> n.best, second |-> n.second, won |-> n.won]
  BY <1>1, <1>6, <1>9, <1>10, <1>11 DEF Before
<1> QED
  BY <1>12, NodeFacts DEF e, c

LEMMA AgreesAfter ==
  ASSUME NEW n \in Nodes, NEW c \in Holding(n.pos), NEW trump, NEW mx,
         NEW trick \in Seq(Cards), Agrees(n, trick)
  PROVE  Agrees(After(n, c, trump, mx), trick)
<1> DEFINE p == PlayCard(n.pos, c, trump)
           e == After(n, c, trump, mx)
           k == Len(n.pos.trick)
<1>1. /\ n.pos \in Positions /\ n.pos.hands \in [Hands -> SUBSET Cards]
      /\ n.pos.trick \in Seq(Cards) /\ k \in 0..3 /\ ToPlay(n.pos) \in Hands
      /\ c \in Cards
  BY NodeFacts, PositionFacts
<1>2. /\ p \in Positions /\ p.hands = [n.pos.hands EXCEPT ![ToPlay(n.pos)] = @ \ {c}]
      /\ k < 3 => p.trick = Append(n.pos.trick, c)
      /\ k = 3 => p.trick = <<>>
  BY <1>1, PlayCardType
<1>3. /\ e.pos = p
      /\ \A s \in AllSuits :
           /\ e.best[s] = IF s \in Renewed(n, c) THEN RelRank(p.hands, s, 1) ELSE n.best[s]
           /\ e.second[s] = IF s \in Renewed(n, c) THEN RelRank(p.hands, s, 2)
                            ELSE n.second[s]
  BY DEF After
<1>4. k < 3 => TrickStart(p) = TrickStart(n.pos)
  BY <1>1, TrickStartKept
<1> HIDE DEF e, p
<1> SUFFICES ASSUME NEW s \in AllSuits
             PROVE  \/ /\ e.best[s] = RelRank(TrickStart(e.pos), s, 1)
                       /\ e.second[s] = RelRank(TrickStart(e.pos), s, 2)
                    \/ Dealt(e.pos, trick) /\ \E d \in Range(trick) : Suit(d) = s
  BY DEF Agrees, e
<1>5. \/ /\ n.best[s] = RelRank(TrickStart(n.pos), s, 1)
         /\ n.second[s] = RelRank(TrickStart(n.pos), s, 2)
      \/ Dealt(n.pos, trick) /\ \E d \in Range(trick) : Suit(d) = s
  BY DEF Agrees
<1>6. CASE k < 3
  <2>1. s \notin Renewed(n, c)
    <3>1. \A i \in 0..3 : i < 3 => i # 3
      OBVIOUS
    <3>2. k # 3
      BY ONLY <1>1, <1>6, <3>1
    <3> QED
      BY <3>2 DEF Renewed
  <2>2. e.best[s] = n.best[s] /\ e.second[s] = n.second[s]
    BY <1>3, <2>1
  <2>3. ASSUME Dealt(n.pos, trick) PROVE Dealt(e.pos, trick)
    <3>1. /\ Len(p.trick) = k + 1 /\ p.trick \in Seq(Cards)
          /\ \A i \in 1..k : p.trick[i] = n.pos.trick[i]
      <4>1. p.trick = Append(n.pos.trick, c)
        BY <1>2, <1>6
      <4>2. n.pos.trick \in Seq(Cards) /\ c \in Cards
        BY <1>1
      <4> QED
        BY ONLY <4>1, <4>2, AppendProperties
    <3>2. Len(trick) \in Nat /\ Len(trick) <= k /\ SubSeq(n.pos.trick, 1, Len(trick)) = trick
          /\ trick # <<>>
      BY <1>1, <2>3 DEF Dealt
    <3>3. SubSeq(p.trick, 1, Len(trick)) = SubSeq(n.pos.trick, 1, Len(trick))
      BY <1>1, <3>1, <3>2
    <3>4. Len(p.trick) >= Len(trick)
      <4>1. \A i \in 0..3, j \in Nat : j <= i => i + 1 >= j
        OBVIOUS
      <4> QED
        BY ONLY <1>1, <3>1, <3>2, <4>1
    <3> QED
      BY <1>3, <3>2, <3>3, <3>4 DEF Dealt
  <2> QED
    BY <1>3, <1>4, <1>5, <1>6, <2>2, <2>3
<1>7. CASE k = 3
  <2>1. TrickStart(p) = p.hands
    BY <1>2, <1>7, TrickStartEmpty
  <2>2. CASE s \in Renewed(n, c)
    BY <1>3, <2>1, <2>2
  <2>3. CASE s \notin Renewed(n, c)
    <3>1. s # Suit(c) /\ \A i \in 1..k : Suit(n.pos.trick[i]) # s
      BY <1>1, <1>7, <2>3 DEF Renewed, Range
    <3>2. ~ (Dealt(n.pos, trick) /\ \E d \in Range(trick) : Suit(d) = s)
      <4>1. SUFFICES ASSUME Dealt(n.pos, trick), NEW d \in Range(trick), Suit(d) = s
                     PROVE  FALSE
        OBVIOUS
      <4>2. Len(trick) \in Nat /\ Len(trick) <= k /\ SubSeq(n.pos.trick, 1, Len(trick)) = trick
        BY <1>1, <4>1 DEF Dealt
      <4>3. PICK i \in 1..Len(trick) : d = trick[i]
        BY <4>1 DEF Range
      <4>4. trick[i] = n.pos.trick[i] /\ i \in 1..k
        BY <1>1, <4>2, <4>3
      <4> QED
        BY <3>1, <4>1, <4>3, <4>4
    <3>3. ASSUME NEW h \in Hands, NEW d \in Cards, Suit(d) = s
          PROVE  d \in TrickStart(n.pos)[h] <=> d \in p.hands[h]
      <4>1. d \in TrickStart(n.pos)[h] <=> d \in n.pos.hands[h]
        BY <1>1, <3>1, <3>3, TrickStartElsewhere
      <4>2. d # c
        BY <3>1, <3>3
      <4> QED
        BY <1>1, <1>2, <4>1, <4>2
    <3>4. TrickStart(n.pos) \in [Hands -> SUBSET Cards] /\ p.hands \in [Hands -> SUBSET Cards]
      BY <1>1, <1>2, TrickStartType, PositionFacts
    <3>5. /\ RelRank(TrickStart(n.pos), s, 1) = RelRank(p.hands, s, 1)
          /\ RelRank(TrickStart(n.pos), s, 2) = RelRank(p.hands, s, 2)
      BY <3>3, <3>4, RelRankSame
    <3> QED
      BY <1>3, <1>5, <2>1, <2>3, <3>2, <3>5
  <2> QED
    BY <2>2, <2>3
<1>8. k < 3 \/ k = 3
  <2>1. \A i \in 0..3 : i < 3 \/ i = 3
    OBVIOUS
  <2> QED
    BY ONLY <1>1, <2>1
<1> QED
  BY <1>6, <1>7, <1>8

(* At the start of a search the two top cards of each suit are right,      *)
(* except in the suits of a trick that the deal began.                     *)
LEMMA AgreesAtFirst ==
  ASSUME NEW n \in Nodes, NEW b, NEW mx, Begins(n, b, mx)
  PROVE  Agrees(n, b.trick)
<1>1. n.pos \in Positions /\ n.pos.trick = b.trick /\ n.pos.trick \in Seq(Cards)
  BY NodeFacts, PositionFacts DEF Begins
<1> SUFFICES ASSUME NEW s \in AllSuits, ~ \E c \in Range(b.trick) : Suit(c) = s
             PROVE  /\ n.best[s] = RelRank(TrickStart(n.pos), s, 1)
                    /\ n.second[s] = RelRank(TrickStart(n.pos), s, 2)
  <2>1. ASSUME NEW c \in Range(b.trick) PROVE Dealt(n.pos, b.trick)
    <3>1. b.trick # <<>>
      BY DEF Range
    <3>2. SubSeq(n.pos.trick, 1, Len(b.trick)) = b.trick
      BY <1>1
    <3>3. Len(n.pos.trick) >= Len(b.trick)
      BY <1>1
    <3> QED
      BY <3>1, <3>2, <3>3 DEF Dealt
  <2> QED
    BY <2>1 DEF Agrees
<1>2. ASSUME NEW h \in Hands, NEW d \in Cards, Suit(d) = s
      PROVE  d \in AtStart(n.pos)[h] <=> d \in TrickStart(n.pos)[h]
  <2>1. \A i \in 1..Len(n.pos.trick) : Suit(n.pos.trick[i]) # Suit(d)
    BY <1>1, <1>2 DEF Range
  <2> QED
    BY <1>1, <2>1, TrickStartElsewhere
<1>3. /\ RelRank(AtStart(n.pos), s, 1) = RelRank(TrickStart(n.pos), s, 1)
      /\ RelRank(AtStart(n.pos), s, 2) = RelRank(TrickStart(n.pos), s, 2)
  BY <1>1, <1>2, TrickStartType, RelRankSame
<1> QED
  BY <1>3 DEF Begins

-----------------------------------------------------------------------------
(* The trail of a search: the node of every activation on the stack and,   *)
(* when one has just returned, the node that it returned from.             *)

Fields == {"first", "trick", "entered", "moves", "made", "win", "low", "makeWin", "saved"}
Serves(f, n) == /\ DOMAIN f = Fields /\ f.first = n.pos.first /\ f.trick = n.pos.trick
                /\ f.moves \in Seq(Plays(n.pos))

(* q is a trail of k nodes that ends at the node cur: the first is where   *)
(* the search began, and undoing the move of a frame leads back to its     *)
(* node.                                                                   *)
IsTrail(q, st, k, cur, b, mx) ==
  /\ q \in [1..k -> Nodes]
  /\ k > 0 => Begins(q[1], b, mx) /\ q[k] = cur
  /\ \A i \in 1..k : Agrees(q[i], b.trick)
  /\ \A i \in 1..Len(st) : Serves(st[i], q[i])
  /\ \A i \in 1..(k - 1) : q[i] = Before(st[i], q[i + 1], mx)

LEMMA FrontFacts ==
  ASSUME NEW S, NEW st \in Seq(S), st # <<>>
  PROVE  /\ Len(st) \in Nat \ {0}
         /\ Front2(st) \in Seq(S) /\ Len(Front2(st)) = Len(st) - 1
         /\ \A i \in 1..(Len(st) - 1) : Front2(st)[i] = st[i]
<1>1. Len(st) \in Nat \ {0}
  BY EmptySeq, LenProperties
<1> DEFINE n == Len(st)
<1>2. n \in Nat \ {0} /\ n - 1 \in Nat /\ n - 1 <= n
  BY <1>1
<1>3. /\ SubSeq(st, 1, n - 1) \in Seq(S) /\ Len(SubSeq(st, 1, n - 1)) = n - 1
      /\ \A i \in 1..(n - 1) : SubSeq(st, 1, n - 1)[i] = st[i]
  <2> HIDE DEF n
  <2> DEFINE f == SubSeq(st, 1, n - 1)
  <2>1. \A i \in 1..(n - 1) : st[i] \in S
    BY <1>1 DEF n
  <2>2. /\ f \in Seq(S)
        /\ Len(f) = IF 1 <= n - 1 THEN (n - 1) - 1 + 1 ELSE 0
        /\ \A i \in 1..((n - 1) - 1 + 1) : f[i] = st[1 + i - 1]
    <3>1. 1 \in Int /\ n - 1 \in Int
      BY <1>2
    <3> QED
      BY ONLY <2>1, <3>1, SubSeqProperties DEF f
  <2> HIDE DEF f
  <2>3. Len(f) = n - 1
    BY <1>2, <2>2
  <2>4. \A i \in 1..(n - 1) : f[i] = st[i]
    <3>1. \A i \in 1..(n - 1) : 1 + i - 1 = i /\ i \in 1..((n - 1) - 1 + 1)
      BY <1>2
    <3> QED
      BY <2>2, <3>1
  <2> QED
    BY <2>2, <2>3, <2>4 DEF f
<1> QED
  BY <1>1, <1>3 DEF Front2

(* An activation returns. *)
LEMMA TrailLeft ==
  ASSUME NEW S, NEW st \in Seq(S), st # <<>>, NEW q, NEW k, NEW cur, NEW b, NEW mx,
         IsTrail(q, st, k, cur, b, mx)
  PROVE  IsTrail(q, Front2(st), k, cur, b, mx) \/ k # Len(st)
<1> SUFFICES ASSUME k = Len(st) PROVE IsTrail(q, Front2(st), k, cur, b, mx)
  OBVIOUS
<1> DEFINE fr == Front2(st)
<1>1. /\ k \in Nat \ {0} /\ Len(fr) = k - 1
      /\ \A i \in 1..(k - 1) : fr[i] = st[i]
  BY FrontFacts
<1> HIDE DEF fr
<1>2. \A i \in 1..Len(fr) : i \in 1..Len(st) /\ fr[i] = st[i]
  BY <1>1
<1>3. IsTrail(q, fr, k, cur, b, mx)
  BY <1>1, <1>2 DEF IsTrail
<1> QED
  BY <1>3 DEF fr

(* A card is played: the frame, now g, remembers how to undo it. *)
LEMMA TrailPlayed ==
  ASSUME NEW S, NEW st \in Seq(S), st # <<>>, NEW q, NEW cur \in Nodes, NEW b, NEW mx,
         b.trick \in Seq(Cards),
         IsTrail(q, st, Len(st), cur, b, mx),
         NEW trump, NEW m \in Plays(cur.pos), NEW g, Serves(g, cur), g.made = m,
         g.saved = [s \in Renewed(cur, m.card) |-> <<cur.best[s], cur.second[s]>>]
  PROVE  LET e == After(cur, m.card, trump, mx)
         IN  IsTrail([i \in 1..(Len(st) + 1) |-> IF i = Len(st) + 1 THEN e ELSE q[i]],
                     Append(Front2(st) \o <<g>>, Call(e.pos)), Len(st) + 1, e, b, mx)
<1> DEFINE n == Len(st)
           e == After(cur, m.card, trump, mx)
           fr == Front2(st)
           new == Append(fr \o <<g>>, Call(e.pos))
           r == [i \in 1..(n + 1) |-> IF i = n + 1 THEN e ELSE q[i]]
           T == S \cup {g, Call(e.pos)}
<1>1. /\ n \in Nat \ {0} /\ fr \in Seq(S) /\ Len(fr) = n - 1
      /\ \A i \in 1..(n - 1) : fr[i] = st[i]
  BY FrontFacts
<1>2. /\ new \in Seq(T) /\ Len(new) = n + 1
      /\ \A i \in 1..(n - 1) : new[i] = st[i]
      /\ new[n] = g /\ new[n + 1] = Call(e.pos)
  <2> HIDE DEF fr, n, e
  <2>1. fr \in Seq(T) /\ <<g>> \in Seq(T) /\ Call(e.pos) \in T
    BY <1>1
  <2> HIDE DEF T
  <2> DEFINE mid == fr \o <<g>>
  <2>2. /\ mid \in Seq(T) /\ Len(mid) = n
        /\ \A i \in 1..(n - 1) : mid[i] = st[i]
        /\ mid[n] = g
    <3>1. /\ mid \in Seq(T) /\ Len(mid) = Len(fr) + Len(<<g>>)
          /\ \A i \in 1..(Len(fr) + Len(<<g>>)) :
               mid[i] = IF i <= Len(fr) THEN fr[i] ELSE <<g>>[i - Len(fr)]
      BY <2>1, ConcatProperties
    <3>2. Len(<<g>>) = 1 /\ <<g>>[1] = g /\ Len(fr) = n - 1 /\ n \in Nat \ {0}
      BY <1>1
    <3> HIDE DEF mid
    <3>3. /\ Len(mid) = n
          /\ \A i \in 1..n : mid[i] = IF i <= n - 1 THEN fr[i] ELSE <<g>>[i - (n - 1)]
      BY <3>1, <3>2
    <3>4. mid[n] = g
      <4>1. mid[n] = <<g>>[n - (n - 1)] /\ n - (n - 1) = 1
        BY <3>2, <3>3
      <4> QED
        BY <3>2, <4>1
    <3>5. \A i \in 1..(n - 1) : mid[i] = st[i]
      BY <1>1, <3>2, <3>3
    <3> QED
      BY <3>1, <3>3, <3>4, <3>5
  <2> HIDE DEF mid
  <2>3. new = Append(mid, Call(e.pos))
    BY DEF mid
  <2> QED
    BY <1>1, <2>1, <2>2, <2>3, AppendProperties
<1>3. /\ q \in [1..n -> Nodes] /\ Begins(q[1], b, mx) /\ q[n] = cur
      /\ \A i \in 1..n : Agrees(q[i], b.trick)
      /\ \A i \in 1..n : Serves(st[i], q[i])
      /\ \A i \in 1..(n - 1) : q[i] = Before(st[i], q[i + 1], mx)
  BY <1>1 DEF IsTrail
<1>4. m.card \in Holding(cur.pos)
  BY DEF Plays
<1>5. e \in Nodes /\ Agrees(e, b.trick) /\ Before(g, e, mx) = cur
  <2>1. e \in Nodes
    BY <1>4, AfterType
  <2>2. Agrees(cur, b.trick)
    BY <1>1, <1>3
  <2>3. Agrees(e, b.trick)
    BY <1>4, <2>2, AgreesAfter
  <2>4. Before(g, e, mx) = cur
    <3>1. g.first = cur.pos.first /\ g.trick = cur.pos.trick
      BY DEF Serves
    <3>2. /\ cur \in Nodes /\ m \in Plays(cur.pos) /\ g.made = m
          /\ g.saved = [s \in Renewed(cur, m.card) |-> <<cur.best[s], cur.second[s]>>]
      OBVIOUS
    <3> QED
      BY ONLY <3>1, <3>2, UndoneExactly
  <2> QED
    BY <2>1, <2>3, <2>4
<1>6. Serves(Call(e.pos), e)
  <2> HIDE DEF e
  <2> QED
    BY DEF Serves, Call, Fields
<1> HIDE DEF e, new, n, fr, T
<1>7. /\ r \in [1..(n + 1) -> Nodes] /\ r[n + 1] = e /\ \A i \in 1..n : r[i] = q[i]
  BY <1>1, <1>3, <1>5
<1> HIDE DEF r
<1>8. ASSUME NEW i \in 1..(n + 1)
      PROVE  Agrees(r[i], b.trick) /\ Serves(new[i], r[i])
  <2>1. CASE i \in 1..(n - 1)
    <3>1. i \in 1..n
      BY <1>1, <2>1
    <3> QED
      BY <1>2, <1>3, <1>7, <2>1, <3>1
  <2>2. CASE i = n
    BY <1>1, <1>2, <1>3, <1>7, <2>2
  <2>3. CASE i = n + 1
    BY <1>2, <1>5, <1>6, <1>7, <2>3
  <2>4. i \in 1..(n - 1) \/ i = n \/ i = n + 1
    BY <1>1
  <2> QED
    BY <2>1, <2>2, <2>3, <2>4
<1>9. ASSUME NEW i \in 1..((n + 1) - 1) PROVE r[i] = Before(new[i], r[i + 1], mx)
  <2>1. CASE i \in 1..(n - 1)
    <3>1. i + 1 \in 1..n /\ i \in 1..n
      BY <1>1, <2>1
    <3> QED
      BY <1>2, <1>3, <1>7, <2>1, <3>1
  <2>2. CASE i = n
    BY <1>1, <1>2, <1>3, <1>5, <1>7, <2>2
  <2>3. i \in 1..(n - 1) \/ i = n
    BY <1>1
  <2> QED
    BY <2>1, <2>2, <2>3
<1>10. Begins(r[1], b, mx)
  <2>1. 1 \in 1..n
    BY <1>1
  <2> QED
    BY <1>3, <1>7, <2>1
<1>11. IsTrail(r, new, n + 1, e, b, mx)
  BY <1>2, <1>7, <1>8, <1>9, <1>10 DEF IsTrail
<1> QED
  BY <1>11 DEF r, new, n, e, fr

(* A card is undone, and the frame of its node stays or is left. *)
LEMMA TrailUndone ==
  ASSUME NEW S, NEW st \in Seq(S), st # <<>>, NEW q, NEW cur, NEW b, NEW mx,
         IsTrail(q, st, Len(st) + 1, cur, b, mx),
         NEW f, Serves(f, q[Len(st)])
  PROVE  LET n == Len(st)
             r == [i \in 1..n |-> q[i]]
             e == Before(st[n], cur, mx)
         IN  /\ IsTrail(r, [st EXCEPT ![n] = f], n, e, b, mx)
             /\ IsTrail(r, Front2(st), n, e, b, mx)
<1> DEFINE n == Len(st)
           r == [i \in 1..n |-> q[i]]
           e == Before(st[n], cur, mx)
           new == [st EXCEPT ![n] = f]
           fr == Front2(st)
<1>1. /\ n \in Nat \ {0} /\ fr \in Seq(S) /\ Len(fr) = n - 1
      /\ \A i \in 1..(n - 1) : fr[i] = st[i]
  BY FrontFacts
<1>2. /\ new \in Seq(S \cup {f}) /\ Len(new) = n /\ new[n] = f
      /\ \A i \in 1..(n - 1) : new[i] = st[i]
  BY <1>1
<1> HIDE DEF n, fr, new
<1>3. /\ q \in [1..(n + 1) -> Nodes] /\ Begins(q[1], b, mx) /\ q[n + 1] = cur
      /\ \A i \in 1..(n + 1) : Agrees(q[i], b.trick)
      /\ \A i \in 1..n : Serves(st[i], q[i])
      /\ \A i \in 1..((n + 1) - 1) : q[i] = Before(st[i], q[i + 1], mx)
  BY <1>1 DEF IsTrail, n
<1>4. \A i \in 1..n : q[i] = Before(st[i], q[i + 1], mx)
  BY <1>1, <1>3
<1>5. r \in [1..n -> Nodes] /\ \A i \in 1..n : r[i] = q[i]
  BY <1>1, <1>3
<1> HIDE DEF r
<1>6. r[n] = e
  BY <1>1, <1>3, <1>4, <1>5
<1>7. \A i \in 1..n : Agrees(r[i], b.trick)
  BY <1>1, <1>3, <1>5
<1>8. Begins(r[1], b, mx)
  BY <1>1, <1>3, <1>5
<1>9. \A i \in 1..(n - 1) : /\ r[i] = Before(st[i], r[i + 1], mx)
                            /\ Serves(st[i], r[i])
  <2> TAKE i \in 1..(n - 1)
  <2>1. i \in 1..n /\ i + 1 \in 1..n
    BY <1>1
  <2> QED
    BY <1>3, <1>4, <1>5, <2>1
<1>10. Serves(new[n], r[n])
  BY <1>1, <1>2, <1>5 DEF n
<1>11. \A i \in 1..Len(new) : Serves(new[i], r[i])
  <2> TAKE i \in 1..Len(new)
  <2>1. i \in 1..(n - 1) \/ i = n
    BY <1>1, <1>2
  <2> QED
    BY <1>2, <1>9, <1>10, <2>1
<1> HIDE DEF e
<1>12. IsTrail(r, new, n, e, b, mx)
  BY <1>2, <1>5, <1>6, <1>7, <1>8, <1>9, <1>11 DEF IsTrail
<1>13. IsTrail(r, fr, n, e, b, mx)
  BY <1>1, <1>5, <1>6, <1>7, <1>8, <1>9 DEF IsTrail
<1> QED
  BY <1>12, <1>13 DEF r, new, n, e, fr

(* The frame on top changes, but not what it serves. *)
LEMMA TrailChanged ==
  ASSUME NEW S, NEW st \in Seq(S), st # <<>>, NEW q, NEW cur, NEW b, NEW mx,
         IsTrail(q, st, Len(st), cur, b, mx), NEW f, Serves(f, cur)
  PROVE  IsTrail(q, [st EXCEPT ![Len(st)] = f], Len(st), cur, b, mx)
<1> DEFINE n == Len(st)
           new == [st EXCEPT ![n] = f]
<1>1. n \in Nat \ {0}
  BY FrontFacts
<1>2. /\ Len(new) = n /\ new[n] = f
      /\ \A i \in 1..(n - 1) : new[i] = st[i]
  BY <1>1
<1> HIDE DEF n, new
<1>3. /\ q \in [1..n -> Nodes] /\ Begins(q[1], b, mx) /\ q[n] = cur
      /\ \A i \in 1..n : Agrees(q[i], b.trick)
      /\ \A i \in 1..n : Serves(st[i], q[i])
      /\ \A i \in 1..(n - 1) : q[i] = Before(st[i], q[i + 1], mx)
  BY <1>1 DEF IsTrail, n
<1>4. \A i \in 1..Len(new) : Serves(new[i], q[i])
  <2> TAKE i \in 1..Len(new)
  <2>1. (i \in 1..(n - 1) /\ i \in 1..n) \/ i = n
    BY <1>1, <1>2
  <2> QED
    BY <1>2, <1>3, <2>1
<1>5. \A i \in 1..(n - 1) : q[i] = Before(new[i], q[i + 1], mx)
  BY <1>2, <1>3
<1>6. IsTrail(q, new, n, cur, b, mx)
  BY <1>3, <1>4, <1>5 DEF IsTrail
<1> QED
  BY <1>6 DEF n, new

-----------------------------------------------------------------------------
(* The inductive invariant.                                                *)

Current == [pos |-> pos, best |-> best, second |-> second, won |-> won]
Levels == Len(stack) + (IF ret = None THEN 0 ELSE 1)
AskSet == [turn : Nat, target : Nat, again : BOOLEAN]

SearchInv ==
  /\ board \in Boards /\ asks \in Seq(AskSet)
  /\ \E S : stack \in Seq(S)
  /\ \E q : IsTrail(q, stack, Levels, Current, board, max)

LEMMA BoardFacts ==
  ASSUME NEW b \in Boards
  PROVE  /\ b.hands \in [Hands -> SUBSET Cards] /\ b.first \in Hands
         /\ b.trick \in Seq(Cards) /\ Len(b.trick) < 4 /\ b.asks \in Seq(AskSet)
  BY BoardsAssumption DEF AskSet

LEMMA Resulting == \A v, w : [value |-> v, win |-> w] # None
<1> TAKE v, w
<1>1. "value" \in DOMAIN [value |-> v, win |-> w] /\ "value" \notin DOMAIN [none |-> TRUE]
  OBVIOUS
<1> QED
  BY <1>1 DEF None

LEMMA InvInit ==
  ASSUME Init
  PROVE  SearchInv
<1>1. stack = <<>> /\ ret = None /\ board \in Boards /\ asks = board.asks
  BY DEF Init
<1>2. Levels = 0
  BY <1>1 DEF Levels
<1>3. stack \in Seq({})
  BY <1>1
<1>4. IsTrail([i \in 1..0 |-> NoOne], stack, Levels, Current, board, max)
  <2>1. 1..0 = {} /\ 1..(0 - 1) = {} /\ ~ (0 > 0) /\ 1..Len(<<>>) = {}
    OBVIOUS
  <2>2. [i \in 1..0 |-> NoOne] \in [1..0 -> Nodes]
    BY <2>1
  <2> HIDE DEF Current
  <2> QED
    BY <1>1, <1>2, <2>1, <2>2 DEF IsTrail
<1> QED
  BY <1>1, <1>3, <1>4, BoardFacts DEF SearchInv

LEMMA CurrentFacts ==
  ASSUME SearchInv, Levels > 0
  PROVE  Current \in Nodes
<1>1. PICK S : stack \in Seq(S)
  BY DEF SearchInv
<1>2. PICK q : IsTrail(q, stack, Levels, Current, board, max)
  BY DEF SearchInv
<1>3. Levels \in Nat
  BY <1>1 DEF Levels
<1> QED
  BY <1>2, <1>3 DEF IsTrail

LEMMA LeaveStep ==
  ASSUME SearchInv, stack # <<>>, ret = None, NEW value, NEW win, Leave(value, win),
         UNCHANGED <<board, asks, pos, best, second, won, max>>
  PROVE  SearchInv'
<1>1. PICK S : stack \in Seq(S)
  BY DEF SearchInv
<1>2. PICK q : IsTrail(q, stack, Levels, Current, board, max)
  BY DEF SearchInv
<1>3. stack' = Front2(stack) /\ ret' # None
  BY Resulting DEF Leave
<1>4. /\ Len(stack) \in Nat \ {0} /\ Front2(stack) \in Seq(S)
      /\ Len(Front2(stack)) = Len(stack) - 1
  BY <1>1, FrontFacts
<1>5. Levels = Len(stack) /\ Levels' = Len(stack)
  BY <1>3, <1>4 DEF Levels, None
<1>6. Current' = Current
  BY DEF Current
<1>7. IsTrail(q, stack', Levels', Current', board', max')
  BY <1>1, <1>2, <1>3, <1>5, <1>6, TrailLeft
<1> QED
  BY <1>3, <1>4, <1>7 DEF SearchInv

LEMMA AskStep ==
  ASSUME SearchInv, Ask
  PROVE  SearchInv'
<1> DEFINE a == Head(asks)
           p == [hands |-> board.hands, trick |-> board.trick,
                 first |-> (board.first + a.turn) % 4]
           b == [s \in AllSuits |-> RelRank(AtStart(p), s, 1)]
           d == [s \in AllSuits |-> RelRank(AtStart(p), s, 2)]
           e == [pos |-> p, best |-> b, second |-> d, won |-> 0]
<1>1. /\ board \in Boards /\ asks \in Seq(AskSet) /\ asks # <<>>
  BY DEF SearchInv, Ask
<1>2. /\ board' = board /\ asks' = Tail(asks) /\ pos' = p /\ best' = b /\ second' = d
      /\ won' = 0 /\ max' = {h \in Hands : Partners(h, ToPlay(p))}
      /\ stack' = <<Call(p)>> /\ ret' = None
  BY DEF Ask
<1>3. a \in AskSet /\ Tail(asks) \in Seq(AskSet)
  BY <1>1, HeadTailProperties
<1>4. p \in Positions
  <2>1. (board.first + a.turn) % 4 \in Hands
    <3>1. \A i \in 0..3, j \in Nat : (i + j) % 4 \in 0..3
      OBVIOUS
    <3>2. board.first \in 0..3 /\ a.turn \in Nat
      BY <1>1, <1>3, BoardFacts DEF AskSet, Hands
    <3> QED
      BY ONLY <3>1, <3>2 DEF Hands
  <2> QED
    BY <1>1, <2>1, BoardFacts DEF Positions
<1> HIDE DEF a
<1>5. AtStart(p) \in [Hands -> SUBSET Cards]
  BY <1>4, TrickStartType
<1>6. ToPlay(p) \in Hands
  BY <1>4, PositionFacts
<1>7. p.hands = board.hands /\ p.trick = board.trick
  OBVIOUS
<1> HIDE DEF p
<1>8. b \in [AllSuits -> Winners] /\ d \in [AllSuits -> Winners]
  BY <1>5, RelRankType
<1>9. ToPlay(p) \in {h \in Hands : Partners(h, ToPlay(p))}
  <2>1. \A i \in 0..3 : (i + i) % 2 = 0
    OBVIOUS
  <2> QED
    BY <1>6, <2>1 DEF Partners, Hands
<1>10. Begins(e, board, max')
  BY <1>2, <1>7, <1>9 DEF Begins
<1> HIDE DEF b, d
<1>11. e \in Nodes
  BY <1>4, <1>8 DEF Nodes
<1>12. Current' = e
  BY <1>2 DEF Current
<1>13. e.pos = p
  OBVIOUS
<1> HIDE DEF e
<1>14. Levels' = 1
  BY <1>2 DEF Levels
<1>15. Serves(Call(p), e)
  BY <1>13 DEF Serves, Call, Fields
<1>16. Agrees(e, board.trick)
  BY <1>10, <1>11, AgreesAtFirst
<1> DEFINE q == [i \in 1..1 |-> e]
<1>17. IsTrail(q, <<Call(p)>>, 1, e, board, max')
  <2>1. /\ q \in [1..1 -> Nodes] /\ q[1] = e /\ 1..(1 - 1) = {}
        /\ \A i \in 1..1 : i = 1
    BY <1>11
  <2>2. Len(<<Call(p)>>) = 1 /\ <<Call(p)>>[1] = Call(p)
    OBVIOUS
  <2> HIDE DEF q
  <2> QED
    BY <1>10, <1>15, <1>16, <2>1, <2>2 DEF IsTrail
<1>18. IsTrail(q, stack', Levels', Current', board', max')
  BY <1>2, <1>12, <1>14, <1>17
<1>19. stack' \in Seq({Call(p)})
  BY <1>2
<1> HIDE DEF q
<1> QED
  BY <1>1, <1>2, <1>3, <1>18, <1>19 DEF SearchInv

LEMMA GenerateStep ==
  ASSUME SearchInv, Entering, NEW deciding, NEW settles, Generate(deciding, settles)
  PROVE  SearchInv'
<1>1. PICK S : stack \in Seq(S)
  BY DEF SearchInv
<1>2. PICK q : IsTrail(q, stack, Levels, Current, board, max)
  BY DEF SearchInv
<1> DEFINE n == Len(stack)
           ms == {m \in Moves(pos) : IsRoot => m.card \notin forbidden}
           f == [stack[n] EXCEPT !.entered = TRUE, !.moves = InOrder(ms)]
<1>3. stack # <<>> /\ ret = None
  BY DEF Entering
<1>4. n \in Nat \ {0}
  BY <1>1, <1>3, FrontFacts
<1>5. stack' = [stack EXCEPT ![n] = f]
  <2>1. stack' = [stack EXCEPT ![n].entered = TRUE, ![n].moves = InOrder(ms)]
    BY Zenon DEF Generate
  <2>2. DOMAIN stack = 1..n
    BY <1>1
  <2> HIDE DEF ms, n
  <2> QED
    BY <1>4, <2>1, <2>2
<1>6. Levels = n /\ Levels' = n
  <2>1. Levels = n
    BY <1>3, <1>4 DEF Levels
  <2>2. Len(stack') = n /\ ret' = ret
    BY <1>1, <1>5 DEF Generate
  <2> QED
    BY <1>3, <1>4, <2>1, <2>2 DEF Levels, None
<1>7. Current \in Nodes /\ Current.pos = pos
  BY <1>4, <1>6, CurrentFacts DEF Current
<1>8. InOrder(ms) \in Seq(Plays(pos))
  <2>1. IsFiniteSet(Moves(pos)) /\ Moves(pos) \in SUBSET Plays(pos)
    BY <1>7, NodeFacts, MovesOf
  <2>2. ms \in SUBSET Moves(pos) /\ ms \in SUBSET Plays(pos)
    BY <2>1
  <2> HIDE DEF ms
  <2>3. InOrder(ms) \in Seq(ms)
    BY <2>1, <2>2, FS_Subset, InOrderKeeps
  <2> QED
    BY <2>2, <2>3
<1>9. Serves(stack[n], Current)
  BY <1>2, <1>4, <1>6 DEF IsTrail
<1> HIDE DEF ms
<1>10. Serves(f, Current)
  BY <1>7, <1>8, <1>9 DEF Serves, Fields
<1> HIDE DEF f
<1>11. IsTrail(q, stack', n, Current, board, max)
  BY <1>1, <1>2, <1>3, <1>5, <1>6, <1>10, TrailChanged
<1>12. Current' = Current /\ board' = board /\ max' = max /\ asks' = asks
  BY DEF Generate, Current
<1>13. stack' \in Seq(S \cup {f})
  BY <1>1, <1>4, <1>5
<1> QED
  BY <1>6, <1>11, <1>12, <1>13 DEF SearchInv

LEMMA EnterStep ==
  ASSUME SearchInv, Enter
  PROVE  SearchInv'
<1>1. Entering /\ stack # <<>> /\ ret = None
  BY DEF Enter, Entering
<1>2. PICK deciding, settles :
        \/ LookupEarly(deciding)
        \/ Settle(deciding, settles)
        \/ LookupLate(deciding, settles)
        \/ Generate(deciding, settles)
  BY DEF Enter
<1>3. ASSUME NEW r, Answered(r) PROVE SearchInv'
  BY <1>1, <1>3, LeaveStep DEF Answered
<1>4. CASE LookupEarly(deciding)
  BY <1>3, <1>4 DEF LookupEarly
<1>5. CASE Settle(deciding, settles)
  BY <1>3, <1>5 DEF Settle
<1>6. CASE LookupLate(deciding, settles)
  BY <1>3, <1>6 DEF LookupLate
<1>7. CASE Generate(deciding, settles)
  BY <1>1, <1>7, GenerateStep
<1> QED
  BY <1>2, <1>4, <1>5, <1>6, <1>7

LEMMA MakeStep ==
  ASSUME SearchInv, Make
  PROVE  SearchInv'
<1>1. PICK S : stack \in Seq(S)
  BY DEF SearchInv
<1>2. PICK q : IsTrail(q, stack, Levels, Current, board, max)
  BY DEF SearchInv
<1> DEFINE n == Len(stack)
           f == Frame
           next == Min(Live(f))
           m == f.moves[next]
           p == PlayCard(pos, m.card, board.trump)
           played == Played(m.card)
           g == [f EXCEPT !.moves = SubSeq(@, next + 1, Len(@)), !.low = LowestWin(f),
                          !.made = m,
                          !.makeWin = IF Rel(f) = 3 THEN TrickCards(m) ELSE {},
                          !.saved = [s \in played |-> <<best[s], second[s]>>]]
           e == After(Current, m.card, board.trump, max)
<1>3. stack # <<>> /\ ret = None /\ Live(f) # {}
  BY DEF Make, InLoop
<1>4. /\ pos' = p
      /\ best' = [s \in AllSuits |-> IF s \in played THEN RelRank(p.hands, s, 1) ELSE best[s]]
      /\ second' = [s \in AllSuits |-> IF s \in played THEN RelRank(p.hands, s, 2)
                                       ELSE second[s]]
      /\ won' = IF Rel(f) = 3 /\ p.first \in max THEN won + 1 ELSE won
      /\ stack' = Append(Front2(stack) \o <<g>>, Call(p))
      /\ UNCHANGED <<board, asks, max, ret>>
  BY Zenon DEF Make
<1>5. n \in Nat \ {0}
  BY <1>1, <1>3, FrontFacts
<1>6. Levels = n
  BY <1>3, <1>5 DEF Levels
<1>7. Current \in Nodes /\ Current.pos = pos /\ Current.best = best
      /\ Current.second = second /\ Current.won = won
  BY <1>5, <1>6, CurrentFacts DEF Current
<1>8. Serves(f, Current)
  BY <1>2, <1>5, <1>6 DEF IsTrail, Frame
<1>9. f.first = pos.first /\ f.trick = pos.trick /\ f.moves \in Seq(Plays(pos))
  BY <1>7, <1>8 DEF Serves
<1>10. next \in 1..Len(f.moves) /\ Len(f.moves) \in Nat
  <2>1. Live(f) \in SUBSET (DOMAIN f.moves)
    BY DEF Live
  <2>2. DOMAIN f.moves = 1..Len(f.moves) /\ Len(f.moves) \in Nat
    BY <1>9
  <2>3. Live(f) \in SUBSET Nat
    BY <2>1, <2>2
  <2>4. Min(Live(f)) \in Live(f)
    BY <1>3, <2>3, MinOf
  <2> QED
    BY <2>1, <2>2, <2>4
<1>11. m \in Plays(pos)
  BY <1>9, <1>10, ElementOfSeq
<1>12. SubSeq(f.moves, next + 1, Len(f.moves)) \in Seq(Plays(pos))
  <2> HIDE DEF f, next
  <2>1. \A i \in (next + 1)..Len(f.moves) : f.moves[i] \in Plays(pos)
    <3>1. \A i \in (next + 1)..Len(f.moves) : i \in 1..Len(f.moves)
      BY <1>10
    <3> QED
      BY <1>9, <3>1, ElementOfSeq
  <2>2. next + 1 \in Int /\ Len(f.moves) \in Int
    BY <1>10
  <2> QED
    BY ONLY <2>1, <2>2, SubSeqProperties
<1>13. played = Renewed(Current, m.card)
  BY <1>7 DEF Played, Renewed
<1> HIDE DEF f, next, m, played
<1>14. /\ DOMAIN g = Fields /\ g.first = f.first /\ g.trick = f.trick /\ g.made = m
       /\ g.moves = SubSeq(f.moves, next + 1, Len(f.moves))
       /\ g.saved = [s \in played |-> <<best[s], second[s]>>]
  <2>1. DOMAIN f = Fields
    BY <1>8 DEF Serves
  <2> QED
    BY <2>1 DEF Fields
<1> HIDE DEF g
<1>15. Serves(g, Current)
  BY <1>7, <1>9, <1>12, <1>14 DEF Serves
<1>16. g.saved = [s \in Renewed(Current, m.card)
                    |-> <<Current.best[s], Current.second[s]>>]
  BY <1>7, <1>13, <1>14
<1>17. Rel(f) = Len(Current.pos.trick)
  BY <1>7, <1>9 DEF Rel
<1>18. e = [pos |-> p,
            best |-> [s \in AllSuits |-> IF s \in played THEN RelRank(p.hands, s, 1)
                                         ELSE best[s]],
            second |-> [s \in AllSuits |-> IF s \in played THEN RelRank(p.hands, s, 2)
                                           ELSE second[s]],
            won |-> IF Rel(f) = 3 /\ p.first \in max THEN won + 1 ELSE won]
  BY <1>7, <1>13, <1>17, Zenon DEF After
<1> HIDE DEF p
<1>19. Current' = e /\ e.pos = p
  <2>1. Current' = [pos |-> pos', best |-> best', second |-> second', won |-> won']
    BY DEF Current
  <2> HIDE DEF e
  <2> QED
    BY <1>4, <1>18, <2>1
<1> DEFINE r == [i \in 1..(n + 1) |-> IF i = n + 1 THEN e ELSE q[i]]
<1>20. IsTrail(r, Append(Front2(stack) \o <<g>>, Call(e.pos)), n + 1, e, board, max)
  <2>1. m \in Plays(Current.pos) /\ g.made = m /\ board.trick \in Seq(Cards)
    BY <1>7, <1>11, <1>14, BoardFacts DEF SearchInv
  <2>2. IsTrail(q, stack, Len(stack), Current, board, max)
    BY <1>2, <1>6
  <2> QED
    BY ONLY <1>1, <1>3, <1>7, <1>15, <1>16, <2>1, <2>2, TrailPlayed
<1> HIDE DEF e, r
<1>21. /\ stack' \in Seq(S \cup {g, Call(p)}) /\ Len(stack') = n + 1
  <2> DEFINE T == S \cup {g, Call(p)}
             fr == Front2(stack)
  <2>1. fr \in Seq(S) /\ Len(fr) = n - 1
    BY <1>1, <1>3, FrontFacts
  <2> HIDE DEF fr
  <2>2. fr \in Seq(T) /\ <<g>> \in Seq(T) /\ Len(<<g>>) = 1 /\ Call(p) \in T
    BY <2>1
  <2> HIDE DEF T
  <2>3. fr \o <<g>> \in Seq(T) /\ Len(fr \o <<g>>) = Len(fr) + 1
    BY <2>2, ConcatProperties
  <2>4. stack' = Append(fr \o <<g>>, Call(p))
    BY <1>4 DEF fr
  <2>5. stack' \in Seq(T) /\ Len(stack') = Len(fr \o <<g>>) + 1
    BY <2>2, <2>3, <2>4, AppendProperties
  <2> HIDE DEF n
  <2>6. Len(stack') = n + 1
    BY <1>5, <2>1, <2>3, <2>5
  <2> QED
    BY <2>5, <2>6 DEF T
<1>22. Levels' = n + 1
  BY <1>3, <1>4, <1>5, <1>21 DEF Levels, None
<1>23. IsTrail(r, stack', Levels', Current', board', max')
  BY <1>4, <1>19, <1>20, <1>22
<1> QED
  BY <1>4, <1>21, <1>23 DEF SearchInv

LEMMA UndoneCurrent ==
  ASSUME Undo(Frame), UNCHANGED max
  PROVE  Current' = Before(stack[Len(stack)], Current, max)
<1>1. /\ pos' = [hands |-> [pos.hands EXCEPT ![Mover(Frame)] = @ \cup {Frame.made.card}],
                 first |-> Frame.first, trick |-> Frame.trick]
      /\ best' = [s \in AllSuits |-> IF s \in DOMAIN Frame.saved THEN Frame.saved[s][1]
                                     ELSE best[s]]
      /\ second' = [s \in AllSuits |-> IF s \in DOMAIN Frame.saved THEN Frame.saved[s][2]
                                       ELSE second[s]]
      /\ won' = IF Rel(Frame) = 3 /\ pos.first \in max THEN won - 1 ELSE won
  BY Zenon DEF Undo, Undone
<1>2. /\ Current.pos = pos /\ Current.best = best /\ Current.second = second
      /\ Current.won = won
  BY DEF Current
<1>3. Current' = [pos |-> pos', best |-> best', second |-> second', won |-> won']
  BY DEF Current
<1> HIDE DEF Current
<1>4. Before(Frame, Current, max) = [pos |-> pos', best |-> best', second |-> second', won |-> won']
  BY <1>1, <1>2, Zenon DEF Before
<1> QED
  BY <1>3, <1>4 DEF Frame

LEMMA CutOffStep ==
  ASSUME SearchInv, CutOff
  PROVE  SearchInv'
<1>1. PICK S : stack \in Seq(S)
  BY DEF SearchInv
<1>2. PICK q : IsTrail(q, stack, Levels, Current, board, max)
  BY DEF SearchInv
<1> DEFINE n == Len(stack)
<1>3. /\ stack # <<>> /\ ret # None /\ Undo(Frame)
      /\ stack' = Front2(stack) /\ ret' # None
      /\ UNCHANGED <<board, asks, max>>
  BY Resulting DEF CutOff, InLoop, Leave
<1>4. /\ n \in Nat \ {0} /\ Front2(stack) \in Seq(S) /\ Len(Front2(stack)) = n - 1
  BY <1>1, <1>3, FrontFacts
<1>5. Levels = n + 1 /\ Levels' = n
  BY <1>3, <1>4 DEF Levels, None
<1>6. Current' = Before(stack[n], Current, max)
  BY <1>3, UndoneCurrent
<1>7. Serves(stack[n], q[n])
  BY <1>2, <1>4 DEF IsTrail
<1>8. IsTrail(q, stack, Len(stack) + 1, Current, board, max)
  BY <1>2, <1>5
<1>9. IsTrail([i \in 1..n |-> q[i]], Front2(stack), n, Before(stack[n], Current, max),
              board, max)
  BY ONLY <1>1, <1>3, <1>7, <1>8, TrailUndone
<1>10. IsTrail([i \in 1..n |-> q[i]], stack', Levels', Current', board', max')
  BY <1>3, <1>5, <1>6, <1>9
<1> QED
  BY <1>3, <1>4, <1>10 DEF SearchInv

LEMMA FailedStep ==
  ASSUME SearchInv, Failed
  PROVE  SearchInv'
<1>1. PICK S : stack \in Seq(S)
  BY DEF SearchInv
<1>2. PICK q : IsTrail(q, stack, Levels, Current, board, max)
  BY DEF SearchInv
<1> DEFINE n == Len(stack)
           w == ret.win \cup Frame.makeWin
           f == [stack[n] EXCEPT !.win = @ \cup ret.win \cup Frame.makeWin]
<1>3. /\ stack # <<>> /\ ret # None /\ Undo(Frame) /\ ret' = None
      /\ UNCHANGED <<board, asks, max>>
  BY DEF Failed, InLoop
<1>4. n \in Nat \ {0}
  BY <1>1, <1>3, FrontFacts
<1>5. stack' = [stack EXCEPT ![n] = f]
  <2>1. stack' = [stack EXCEPT ![n].win = @ \cup ret.win \cup Frame.makeWin]
    BY Zenon DEF Failed
  <2> QED
    BY <2>1, Zenon
<1>6. Levels = n + 1
  BY <1>3, <1>4 DEF Levels
<1>7. Serves(stack[n], q[n])
  BY <1>2, <1>4 DEF IsTrail
<1>8. Serves(f, q[n])
  BY <1>7 DEF Serves, Fields
<1> HIDE DEF f
<1>9. stack' \in Seq(S \cup {f}) /\ Len(stack') = n
  BY <1>1, <1>4, <1>5
<1>10. Levels' = n
  BY <1>3, <1>4, <1>9 DEF Levels, None
<1>11. Current' = Before(stack[n], Current, max)
  BY <1>3, UndoneCurrent
<1>12. IsTrail(q, stack, Len(stack) + 1, Current, board, max)
  BY <1>2, <1>6
<1>13. IsTrail([i \in 1..n |-> q[i]], [stack EXCEPT ![n] = f], n,
               Before(stack[n], Current, max), board, max)
  BY ONLY <1>1, <1>3, <1>8, <1>12, TrailUndone
<1>14. IsTrail([i \in 1..n |-> q[i]], stack', Levels', Current', board', max')
  BY <1>3, <1>5, <1>10, <1>11, <1>13
<1> QED
  BY <1>3, <1>9, <1>14 DEF SearchInv

LEMMA InvNext ==
  ASSUME SearchInv, [Next]_vars
  PROVE  SearchInv'
<1>1. CASE Ask
  BY <1>1, AskStep
<1>2. CASE Enter
  BY <1>2, EnterStep
<1>3. CASE Make
  BY <1>3, MakeStep
<1>4. CASE CutOff
  BY <1>4, CutOffStep
<1>5. CASE Failed
  BY <1>5, FailedStep
<1>6. CASE Exhausted
  <2>1. stack # <<>> /\ ret = None
    BY <1>6 DEF Exhausted, InLoop
  <2> QED
    BY <1>6, <2>1, LeaveStep DEF Exhausted
<1>7. CASE UNCHANGED vars
  <2>1. /\ board' = board /\ asks' = asks /\ stack' = stack /\ max' = max
        /\ Current' = Current /\ Levels' = Levels
    BY <1>7 DEF vars, Current, Levels, None
  <2> QED
    BY <2>1 DEF SearchInv
<1>8. CASE Stop
  BY <1>7, <1>8 DEF Stop
<1> QED
  BY <1>1, <1>2, <1>3, <1>4, <1>5, <1>6, <1>7, <1>8 DEF Next

(* When a search has returned, its trail is the node where it began; and   *)
(* every node of the trail has the winners of the trick's start.           *)
LEMMA InvImplies ==
  ASSUME SearchInv
  PROVE  PositionKept
<1>1. PICK S : stack \in Seq(S)
  BY DEF SearchInv
<1>2. PICK q : IsTrail(q, stack, Levels, Current, board, max)
  BY DEF SearchInv
<1>3. /\ Current.pos = pos /\ Current.best = best /\ Current.second = second
      /\ Current.won = won
  BY DEF Current
<1> HIDE DEF Current
<1>4. Restored
  <2> SUFFICES ASSUME stack = <<>>, ret # None
               PROVE  /\ pos.hands = board.hands /\ pos.trick = board.trick
                      /\ won = 0 /\ ToPlay(pos) \in max
                      /\ \A s \in AllSuits : /\ best[s] = RelRank(AtStart(pos), s, 1)
                                             /\ second[s] = RelRank(AtStart(pos), s, 2)
    BY DEF Restored
  <2>1. Levels = 1
    BY DEF Levels
  <2>2. Begins(Current, board, max)
    BY <1>2, <2>1 DEF IsTrail
  <2> QED
    BY <1>3, <2>2 DEF Begins
<1>5. WinnersAgree
  <2> SUFFICES ASSUME ret # None \/ stack # <<>>
               PROVE  Agrees(Current, board.trick)
    BY <1>3 DEF WinnersAgree, Agrees, Dealt, DealTrick
  <2>1. Levels \in Nat \ {0}
    <3>1. Len(stack) \in Nat
      BY <1>1
    <3>2. CASE stack = <<>>
      BY <3>1, <3>2 DEF Levels
    <3>3. CASE stack # <<>>
      <4>1. Len(stack) \in Nat \ {0}
        BY <1>1, <3>3, FrontFacts
      <4> QED
        BY <4>1 DEF Levels
    <3> QED
      BY <3>2, <3>3
  <2>2. q[Levels] = Current /\ Agrees(q[Levels], board.trick)
    BY <1>2, <2>1 DEF IsTrail
  <2> QED
    BY <2>2
<1> QED
  BY <1>4, <1>5 DEF PositionKept

(* Every search has a trail, at every moment. *)
THEOREM SearchInvariant == Spec => []SearchInv
<1>1. Init => SearchInv
  BY InvInit
<1>2. SearchInv /\ [Next]_vars => SearchInv'
  BY InvNext
<1> QED
  BY <1>1, <1>2, PTL DEF Spec

(* Undo is exact for every deal, every trump, every sequence of windows    *)
(* and every order of the moves: a search that returns has given back the  *)
(* position, the tricks and the top cards that it was given, and on the    *)
(* way winner and second_best are those of the cards held when the trick   *)
(* began, wherever an estimate may read them.                              *)
THEOREM PositionAlwaysKept == Spec => []PositionKept
<1>1. SearchInv => PositionKept
  BY InvImplies
<1> QED
  BY <1>1, SearchInvariant, PTL

=============================================================================
