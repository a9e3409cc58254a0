------------------------- MODULE PlayAnalyserProofs -------------------------
(***************************************************************************)
(* Every result of AnalysePlayBin is the double dummy value, for all deals,*)
(* trump suits, openings and traces that follow suit or end in a card that *)
(* is not held.                                                            *)
(*                                                                         *)
(* First the game: what a card does to a position, that the value of one   *)
(* satisfies its equation (ValueEquation, by induction on the cards left), *)
(* and what follows for a deal whose hands are level (Balanced): a value   *)
(* is at most the tricks that are left, and no card is worth more than it. *)
(* Then the analyser (IInv): its account is one of the position after the  *)
(* card it has read (Agrees), its card is the best of the trick so far     *)
(* (Leads), and it wrote the results up to that card and no others.        *)
(***************************************************************************)
EXTENDS PlayAnalyser, FoldLemmas, FiniteSetTheorems, SequenceTheorems

-----------------------------------------------------------------------------
(* Numbers.                                                                *)

(* The hand that is k places after another, and partnerships.              *)
LEMMA Around ==
  ASSUME NEW h \in Hands, NEW k \in 0..3
  PROVE  /\ (h + k) % 4 \in Hands
         /\ (h + k) % 4 = IF h + k < 4 THEN h + k ELSE h + k - 4
BY DEF Hands

LEMMA Turns ==
  ASSUME NEW h \in Hands, NEW n \in 0..3
  PROVE  /\ \A k \in 0..(n - 1) : (h + n) % 4 # (h + k) % 4 /\ (h + 3) % 4 # (h + k) % 4
         /\ (h + (n + 1)) % 4 = (((h + n) % 4) + 1) % 4
<1>1. ASSUME NEW k \in 0..(n - 1)
      PROVE  (h + n) % 4 # (h + k) % 4 /\ (h + 3) % 4 # (h + k) % 4
  <2>1. k \in 0..3 /\ k < n /\ k < 3 /\ 3 \in 0..3
    OBVIOUS
  <2>2. /\ (h + k) % 4 = IF h + k < 4 THEN h + k ELSE h + k - 4
        /\ (h + n) % 4 = IF h + n < 4 THEN h + n ELSE h + n - 4
        /\ (h + 3) % 4 = IF h + 3 < 4 THEN h + 3 ELSE h + 3 - 4
    BY <2>1, Around
  <2> QED
    BY <2>1, <2>2 DEF Hands
<1>2. (h + (n + 1)) % 4 = (((h + n) % 4) + 1) % 4
  BY DEF Hands
<1> QED
  BY <1>1, <1>2

LEMMA Sides ==
  ASSUME NEW h \in Hands, NEW g \in Hands
  PROVE  /\ Partners(h, g) <=> (h \in {0, 2} <=> g \in {0, 2})
         /\ Declares(h) <=> h \in {1, 3}
<1>1. Partners(h, g) <=> (h \in {0, 2} <=> g \in {0, 2})
  BY DEF Hands, Partners
<1> QED
  BY <1>1 DEF Hands, Partners, Declares

(* A trick of up to three cards, and with one more. *)
LEMMA TrickSizes ==
  ASSUME NEW k \in 0..3
  PROVE  /\ k < 3 \/ k = 3
         /\ k < 3 => k + 1 < 4
         /\ k = 3 => k + 1 >= 4
  OBVIOUS

(* The best of a bounded set of numbers. *)
LEMMA BestOf ==
  ASSUME NEW n \in Nat, NEW S \in SUBSET (0..n), S # {}
  PROVE  Best(S) \in S /\ \A y \in S : y <= Best(S)
<1> DEFINE B == {k \in Nat : \A y \in S : y <= k}
<1>1. n \in B
  OBVIOUS
<1>2. PICK k \in B : \A j \in B : k <= j
  BY <1>1, NatLeast
<1>3. k \in S
  <2>1. SUFFICES ASSUME k \notin S PROVE FALSE
    OBVIOUS
  <2>2. \A y \in S : y <= k /\ y # k
    BY <1>2, <2>1
  <2>3. k >= 1
    <3>1. PICK y \in S : TRUE
      OBVIOUS
    <3>2. k \in Nat /\ y \in Nat /\ y <= k /\ y # k
      BY <1>2, <2>2, <3>1
    <3> QED
      BY <3>1, <3>2
  <2>4. k - 1 \in B
    BY <1>2, <2>2, <2>3
  <2> QED
    BY <1>2, <2>4
<1> QED
  BY <1>2, <1>3 DEF Best

-----------------------------------------------------------------------------
(* The game: what a card does to a position.                               *)

(* The card at place w is the best of the first k of a trick. *)
Leads(trick, suit, k, w) ==
  /\ w \in 1..k
  /\ IF \E i \in 1..k : Suit(trick[i]) = suit
     THEN /\ Suit(trick[w]) = suit
          /\ \A i \in 1..k : Suit(trick[i]) = suit => Rank(trick[i]) <= Rank(trick[w])
     ELSE /\ Suit(trick[w]) = Suit(trick[1])
          /\ \A i \in 1..k : Suit(trick[i]) = Suit(trick[1])
                               => Rank(trick[i]) <= Rank(trick[w])

LEMMA CardFacts ==
  ASSUME NEW c \in Cards
  PROVE  Suit(c) \in 0..3 /\ Rank(c) \in 2..14 /\ c = <<Suit(c), Rank(c)>>
  BY DEF Cards, Suit, Rank

(* Of four cards one is the winner. *)
LEMMA WinnerLeads ==
  ASSUME NEW trick \in Seq(Cards), Len(trick) >= 4, NEW suit
  PROVE  Leads(trick, suit, 4, Winner(trick, suit))
<1> DEFINE trumps == {i \in 1..4 : Suit(trick[i]) = suit}
           led == {i \in 1..4 : Suit(trick[i]) = Suit(trick[1])}
           high == IF trumps # {} THEN trumps ELSE led
           ranks == {Rank(trick[i]) : i \in high}
<1>1. \A i \in 1..4 : trick[i] \in Cards /\ Rank(trick[i]) \in 0..14
  <2>1. \A i \in 1..4 : trick[i] \in Cards
    BY LenProperties
  <2> QED
    BY <2>1, CardFacts
<1>2. high \in SUBSET (1..4) /\ high # {}
  <2>1. 1 \in led
    OBVIOUS
  <2> QED
    BY <2>1
<1>3. \E i \in high : \A j \in high : Rank(trick[j]) <= Rank(trick[i])
  <2>1. ranks \in SUBSET (0..14) /\ ranks # {}
    BY <1>1, <1>2
  <2>2. Best(ranks) \in ranks /\ \A y \in ranks : y <= Best(ranks)
    BY <2>1, BestOf
  <2> QED
    BY <2>2
<1>4. /\ Winner(trick, suit) \in high
      /\ \A j \in high : Rank(trick[j]) <= Rank(trick[Winner(trick, suit)])
  BY <1>3 DEF Winner
<1> QED
  BY <1>2, <1>4 DEF Leads

LEMMA LegalIsHeld ==
  ASSUME NEW p PROVE Legal(p) \subseteq Holding(p)
  BY DEF Legal

LEMMA HoldingLegal ==
  ASSUME NEW p, Holding(p) # {} PROVE Legal(p) # {}
  BY DEF Legal

LEMMA CardsAreFinite == IsFiniteSet(Cards)
<1>1. \A a, b \in Int : IsFiniteSet(a..b)
  BY FS_Interval
<1>2. IsFiniteSet(0..3) /\ IsFiniteSet(2..14)
  <2>1. 0 \in Int /\ 3 \in Int /\ 2 \in Int /\ 14 \in Int
    OBVIOUS
  <2> QED
    BY <1>1, <2>1
<1> QED
  BY <1>1, <1>2, FS_Product DEF Cards

LEMMA AnyPositionFacts ==
  ASSUME NEW p \in AnyPosition
  PROVE  /\ p.hands \in [Hands -> SUBSET Cards] /\ p.first \in Hands
         /\ p.trick \in Seq(Cards) /\ Len(p.trick) \in Nat
         /\ ToPlay(p) \in Hands /\ Holding(p) \in SUBSET Cards
         /\ \A h \in Hands : /\ IsFiniteSet(p.hands[h])
                             /\ Cardinality(p.hands[h]) \in Nat
<1>1. /\ p.hands \in [Hands -> SUBSET Cards] /\ p.first \in Hands
      /\ p.trick \in Seq(Cards) /\ Len(p.trick) \in Nat
  BY DEF AnyPosition
<1>2. ToPlay(p) \in Hands
  BY <1>1 DEF ToPlay, Hands
<1>3. \A h \in Hands : IsFiniteSet(p.hands[h])
  BY <1>1, CardsAreFinite, FS_Subset
<1> QED
  BY <1>1, <1>2, <1>3, FS_CardinalityType DEF Holding

(* The cards a position holds in all. *)
Size(p) ==
  Cardinality(p.hands[0]) + Cardinality(p.hands[1])
    + Cardinality(p.hands[2]) + Cardinality(p.hands[3])

LEMMA SizeFacts ==
  ASSUME NEW p \in AnyPosition
  PROVE  Size(p) \in Nat /\ Size(p) < 4 * Cardinality(Cards) + 1
<1>1. \A h \in Hands : Cardinality(p.hands[h]) \in 0..Cardinality(Cards)
  BY AnyPositionFacts, CardsAreFinite, FS_Subset
<1>2. Cardinality(Cards) \in Nat
  BY CardsAreFinite, FS_CardinalityType
<1>3. 0 \in Hands /\ 1 \in Hands /\ 2 \in Hands /\ 3 \in Hands
  BY DEF Hands
<1> QED
  BY <1>1, <1>2, <1>3 DEF Size

(* A card leaves the hand that is to play, and nothing else does. *)
LEMMA PlayHands ==
  ASSUME NEW p \in AnyPosition, NEW c \in Holding(p), NEW suit,
         NEW q, q = PlayCard(p, c, suit)
  PROVE  /\ q \in AnyPosition
         /\ q.hands[ToPlay(p)] = Holding(p) \ {c}
         /\ Cardinality(q.hands[ToPlay(p)]) + 1 = Cardinality(p.hands[ToPlay(p)])
         /\ \A h \in Hands : h # ToPlay(p) => q.hands[h] = p.hands[h]
         /\ Len(p.trick) + 1 < 4 =>
              q.first = p.first /\ q.trick = Append(p.trick, c)
         /\ Len(p.trick) + 1 >= 4 =>
              /\ q.first = (p.first + Winner(Append(p.trick, c), suit) - 1) % 4
              /\ q.trick = <<>>
<1> DEFINE t == Append(p.trick, c)
           hands == [p.hands EXCEPT ![ToPlay(p)] = @ \ {c}]
<1>1. /\ p.hands \in [Hands -> SUBSET Cards] /\ p.first \in Hands
      /\ p.trick \in Seq(Cards) /\ ToPlay(p) \in Hands /\ c \in Cards
  BY AnyPositionFacts
<1>2. t \in Seq(Cards) /\ Len(t) = Len(p.trick) + 1
  BY <1>1, AppendProperties
<1>3. hands \in [Hands -> SUBSET Cards]
  BY <1>1
<1>4. q = IF Len(t) < 4 THEN [hands |-> hands, first |-> p.first, trick |-> t]
          ELSE [hands |-> hands, first |-> (p.first + Winner(t, suit) - 1) % 4,
                trick |-> <<>>]
  BY DEF PlayCard
<1>5. ~(Len(t) < 4) => (p.first + Winner(t, suit) - 1) % 4 \in Hands
  <2>1. SUFFICES ASSUME ~(Len(t) < 4) PROVE (p.first + Winner(t, suit) - 1) % 4 \in Hands
    OBVIOUS
  <2>2. Len(t) >= 4
    BY <1>1, <1>2, <2>1, LenProperties
  <2>3. Winner(t, suit) \in 1..4
    <3>1. Leads(t, suit, 4, Winner(t, suit))
      BY <1>2, <2>2, WinnerLeads
    <3> QED
      BY <3>1 DEF Leads
  <2> QED
    BY <1>1, <2>3 DEF Hands
<1>6. <<>> \in Seq(Cards)
  OBVIOUS
<1> HIDE DEF t, hands
<1>7. q \in AnyPosition /\ q.hands = hands
  <2>1. CASE Len(t) < 4
    BY <1>1, <1>2, <1>3, <1>4, <2>1 DEF AnyPosition
  <2>2. CASE ~(Len(t) < 4)
    BY <1>3, <1>4, <1>5, <1>6, <2>2 DEF AnyPosition
  <2> QED
    BY <2>1, <2>2
<1>8. Cardinality(q.hands[ToPlay(p)]) + 1 = Cardinality(p.hands[ToPlay(p)])
  <2>1. q.hands[ToPlay(p)] = p.hands[ToPlay(p)] \ {c} /\ c \in p.hands[ToPlay(p)]
    BY <1>1, <1>7 DEF hands, Holding
  <2>2. IsFiniteSet(p.hands[ToPlay(p)]) /\ Cardinality(p.hands[ToPlay(p)]) \in Nat
    BY <1>1, AnyPositionFacts
  <2> DEFINE H == p.hands[ToPlay(p)]
  <2>3. Cardinality(H \ {c}) = Cardinality(H) - 1
    BY <2>1, <2>2, FS_RemoveElement
  <2> QED
    BY <2>1, <2>2, <2>3
<1>9. \A h \in Hands : h # ToPlay(p) => q.hands[h] = p.hands[h]
  BY <1>1, <1>7 DEF hands
<1>9a. q.hands[ToPlay(p)] = Holding(p) \ {c}
  BY <1>1, <1>7 DEF hands, Holding
<1>10. /\ Len(p.trick) + 1 < 4 => q.first = p.first /\ q.trick = t
       /\ Len(p.trick) + 1 >= 4 => /\ q.first = (p.first + Winner(t, suit) - 1) % 4
                                   /\ q.trick = <<>>
  <2>1. Len(p.trick) \in Nat
    BY AnyPositionFacts
  <2> QED
    BY <1>2, <1>4, <2>1
<1> QED
  BY <1>7, <1>8, <1>9, <1>9a, <1>10 DEF t

LEMMA PlayShrinks ==
  ASSUME NEW p \in AnyPosition, NEW c \in Holding(p), NEW suit
  PROVE  /\ PlayCard(p, c, suit) \in AnyPosition
         /\ Size(PlayCard(p, c, suit)) + 1 = Size(p)
<1> DEFINE q == PlayCard(p, c, suit)
           hand == ToPlay(p)
<1>1. /\ q \in AnyPosition
      /\ Cardinality(q.hands[hand]) + 1 = Cardinality(p.hands[hand])
      /\ \A h \in Hands : h # hand => q.hands[h] = p.hands[h]
  <2>1. q = PlayCard(p, c, suit)
    OBVIOUS
  <2> HIDE DEF q
  <2>2. /\ q \in AnyPosition
        /\ Cardinality(q.hands[ToPlay(p)]) + 1 = Cardinality(p.hands[ToPlay(p)])
        /\ \A h \in Hands : h # ToPlay(p) => q.hands[h] = p.hands[h]
    BY <2>1, PlayHands
  <2> QED
    BY <2>2
<1>2. hand \in Hands /\ \A h \in Hands : /\ Cardinality(p.hands[h]) \in Nat
                                       /\ Cardinality(q.hands[h]) \in Nat
  BY <1>1, AnyPositionFacts
<1> HIDE DEF q, hand
<1>3. hand \in {0, 1, 2, 3} /\ 0 \in Hands /\ 1 \in Hands /\ 2 \in Hands /\ 3 \in Hands
  BY <1>2 DEF Hands
<1>4. Size(q) + 1 = Size(p)
  <2>1. CASE hand = 0
    BY <1>1, <1>2, <1>3, <2>1 DEF Size
  <2>2. CASE hand = 1
    BY <1>1, <1>2, <1>3, <2>2 DEF Size
  <2>3. CASE hand = 2
    BY <1>1, <1>2, <1>3, <2>3 DEF Size
  <2>4. CASE hand = 3
    BY <1>1, <1>2, <1>3, <2>4 DEF Size
  <2> QED
    BY <1>3, <2>1, <2>2, <2>3, <2>4
<1> QED
  BY <1>1, <1>4 DEF q

-----------------------------------------------------------------------------
(* The value of a position satisfies its equation.                         *)

(* The equation, with f for the values of the positions one card later. *)
Yield(p, suit, f) ==
  IF NoCards(p) THEN 0
  ELSE Best({LET q == PlayCard(p, c, suit) IN Worth(p, q, f[q]) : c \in Legal(p)})

Values(suit) == CHOOSE f : f = [p \in AnyPosition |-> Yield(p, suit, f)]

LEMMA YieldAgrees ==
  ASSUME NEW p, NEW suit, NEW f, NEW g,
         \A c \in Legal(p) : f[PlayCard(p, c, suit)] = g[PlayCard(p, c, suit)]
  PROVE  Yield(p, suit, f) = Yield(p, suit, g)
<1> DEFINE A(h) == {Worth(p, PlayCard(p, c, suit), h[PlayCard(p, c, suit)]) :
                      c \in Legal(p)}
<1>1. A(f) = A(g)
  OBVIOUS
<1>2. \A h : Yield(p, suit, h) = IF NoCards(p) THEN 0 ELSE Best(A(h))
  BY DEF Yield
<1> HIDE DEF A
<1> QED
  BY <1>1, <1>2

LEMMA ValuesExist ==
  ASSUME NEW suit
  PROVE  \E f : f = [p \in AnyPosition |-> Yield(p, suit, f)]
<1> DEFINE Below(n) == {p \in AnyPosition : Size(p) < n}
           Solves(n, f) == f = [p \in Below(n) |-> Yield(p, suit, f)]
           S == {n \in Nat : \E f : Solves(n, f)}
           N == 4 * Cardinality(Cards) + 1
<1>1. 0 \in S
  <2>1. Below(0) = {}
    BY SizeFacts
  <2>2. [p \in {} |-> 0] = [p \in Below(0) |-> Yield(p, suit, [q \in {} |-> 0])]
    BY <2>1
  <2> QED
    BY <2>2
<1>2. ASSUME NEW n \in Nat, n \in S PROVE n + 1 \in S
  <2>1. PICK f : Solves(n, f)
    BY <1>2
  <2> DEFINE g == [p \in Below(n + 1) |-> Yield(p, suit, f)]
  <2>2. ASSUME NEW p \in Below(n) PROVE p \in Below(n + 1) /\ g[p] = f[p]
    <3>1. p \in Below(n + 1)
      <4>1. Size(p) \in Nat
        BY SizeFacts
      <4> QED
        BY <4>1
    <3>2. f[p] = Yield(p, suit, f)
      BY <2>1
    <3> QED
      BY <3>1, <3>2
  <2>3. ASSUME NEW p \in Below(n + 1) PROVE g[p] = Yield(p, suit, g)
    <3>1. ASSUME NEW c \in Legal(p) PROVE PlayCard(p, c, suit) \in Below(n)
      <4>1. c \in Holding(p)
        BY LegalIsHeld
      <4> DEFINE q == PlayCard(p, c, suit)
      <4>2. q \in AnyPosition /\ Size(q) + 1 = Size(p)
        BY <4>1, PlayShrinks
      <4>3. Size(q) \in Nat /\ Size(p) \in Nat /\ Size(p) < n + 1
        BY <4>2, SizeFacts
      <4> HIDE DEF q
      <4>4. Size(q) < n
        BY <4>2, <4>3
      <4> QED
        BY <4>2, <4>4 DEF q
    <3>2. \A c \in Legal(p) : f[PlayCard(p, c, suit)] = g[PlayCard(p, c, suit)]
      BY <2>2, <3>1
    <3>3. g[p] = Yield(p, suit, f)
      OBVIOUS
    <3> HIDE DEF g
    <3> QED
      BY <3>2, <3>3, YieldAgrees
  <2>4. Solves(n + 1, g)
    <3>1. g = [p \in Below(n + 1) |-> g[p]]
      OBVIOUS
    <3> HIDE DEF g, Below
    <3> QED
      BY <2>3, <3>1
  <2> HIDE DEF g, Solves
  <2> QED
    BY <2>4
<1>3. N \in Nat
  BY CardsAreFinite, FS_CardinalityType
<1>4. N \in S
  <2> HIDE DEF S, N
  <2> QED
    BY <1>1, <1>2, <1>3, NatInduct
<1>5. Below(N) = AnyPosition
  BY SizeFacts
<1> HIDE DEF N, Below
<1> QED
  BY <1>4, <1>5

(* What the side to play takes with each of its cards. *)
Options(p, suit) ==
  {Worth(p, PlayCard(p, c, suit), Value(PlayCard(p, c, suit), suit)) : c \in Legal(p)}

(* The value of a position is 0 when no cards are left, and else what the  *)
(* best of its cards yields: the recursive definition that the results of  *)
(* the analyser are compared with has a solution, and Value is it.         *)
THEOREM ValueEquation ==
  ASSUME NEW p \in AnyPosition, NEW suit
  PROVE  Value(p, suit) = IF NoCards(p) THEN 0 ELSE Best(Options(p, suit))
<1>1. \A q : Value(q, suit) = Values(suit)[q]
  BY DEF Value, Values, Yield
<1>2. Values(suit) = [q \in AnyPosition |-> Yield(q, suit, Values(suit))]
  BY ValuesExist DEF Values
<1>3. Values(suit)[p] = Yield(p, suit, Values(suit))
  BY <1>2
<1>4. Yield(p, suit, Values(suit)) = IF NoCards(p) THEN 0 ELSE Best(Options(p, suit))
  <2> DEFINE A == {Worth(p, PlayCard(p, c, suit), Values(suit)[PlayCard(p, c, suit)]) :
                     c \in Legal(p)}
  <2>1. A = Options(p, suit)
    BY <1>1 DEF Options
  <2>2. Yield(p, suit, Values(suit)) = IF NoCards(p) THEN 0 ELSE Best(A)
    BY DEF Yield
  <2> QED
    BY <2>1, <2>2
<1> QED
  BY <1>1, <1>3, <1>4

-----------------------------------------------------------------------------
(* Positions of a deal: n tricks are left, and every hand has its part of  *)
(* them.                                                                   *)

Played(p) == {(p.first + k) % 4 : k \in 0..(Len(p.trick) - 1)}

Balanced(p, n) ==
  /\ n \in Nat /\ p \in AnyPosition /\ Len(p.trick) \in 0..3
  /\ p.trick # <<>> => n >= 1
  /\ \A h \in Hands :
       Cardinality(p.hands[h]) = IF h \in Played(p) THEN n - 1 ELSE n

LEMMA BalancedFacts ==
  ASSUME NEW p, NEW n, Balanced(p, n)
  PROVE  /\ n \in Nat /\ p \in AnyPosition /\ p.first \in Hands
         /\ Len(p.trick) \in 0..3 /\ ToPlay(p) \in Hands
         /\ ToPlay(p) \notin Played(p) /\ Cardinality(Holding(p)) = n
         /\ TricksLeft(p) = n /\ IsFiniteSet(Holding(p))
         /\ NoCards(p) <=> n = 0
<1>1. /\ n \in Nat /\ p \in AnyPosition /\ p.first \in Hands
      /\ Len(p.trick) \in 0..3 /\ ToPlay(p) \in Hands
  BY AnyPositionFacts DEF Balanced
<1>3. ToPlay(p) \notin Played(p) /\ (p.first + 3) % 4 \notin Played(p)
  <2>1. ASSUME NEW k \in 0..(Len(p.trick) - 1)
        PROVE  ToPlay(p) # (p.first + k) % 4 /\ (p.first + 3) % 4 # (p.first + k) % 4
    BY <1>1, Turns DEF ToPlay
  <2> QED
    BY <2>1 DEF Played
<1>4. (p.first + 3) % 4 \in Hands
  BY <1>1, Around
<1>5. Cardinality(Holding(p)) = n /\ TricksLeft(p) = n
  BY <1>1, <1>3, <1>4 DEF Balanced, Holding, TricksLeft
<1>6. NoCards(p) <=> n = 0
  <2>1. \A h \in Hands : IsFiniteSet(p.hands[h]) /\ Cardinality(p.hands[h]) \in Nat
    BY <1>1, AnyPositionFacts
  <2>2. \A h \in Hands : Cardinality(p.hands[h]) = 0 <=> p.hands[h] = {}
    BY <2>1, FS_EmptySet
  <2>3. CASE n = 0
    <3>1. \A h \in Hands : Cardinality(p.hands[h]) \in {0, -1}
      BY <2>3 DEF Balanced
    <3>2. \A h \in Hands : Cardinality(p.hands[h]) = 0
      BY <2>1, <3>1
    <3> QED
      BY <2>2, <2>3, <3>2 DEF NoCards
  <2>4. CASE n # 0
    BY <1>1, <1>5, <2>2, <2>4 DEF NoCards, Holding
  <2> QED
    BY <2>3, <2>4
<1>7. IsFiniteSet(Holding(p))
  BY <1>1, AnyPositionFacts DEF Holding
<1> QED
  BY <1>1, <1>3, <1>5, <1>6, <1>7

(* A card in the middle of a trick passes the turn to the other side; the  *)
(* fourth passes it to the winner.                                         *)
LEMMA BalancedPlay ==
  ASSUME NEW p, NEW n, Balanced(p, n), NEW c \in Holding(p), NEW suit,
         NEW q, q = PlayCard(p, c, suit)
  PROVE  /\ n >= 1
         /\ Len(p.trick) < 3 => Balanced(q, n) /\ ToPlay(q) = (ToPlay(p) + 1) % 4
                                /\ q.first = p.first /\ q.trick = Append(p.trick, c)
         /\ Len(p.trick) = 3 =>
              /\ Balanced(q, n - 1) /\ ToPlay(q) = q.first /\ q.trick = <<>>
              /\ q.first = (p.first + Winner(Append(p.trick, c), suit) - 1) % 4
<1>1. /\ n \in Nat /\ p \in AnyPosition /\ p.first \in Hands
      /\ Len(p.trick) \in 0..3 /\ ToPlay(p) \in Hands
      /\ ToPlay(p) \notin Played(p) /\ Cardinality(Holding(p)) = n
      /\ IsFiniteSet(Holding(p))
  BY BalancedFacts
<1>2. n >= 1
  BY <1>1, FS_EmptySet
<1>3. /\ q \in AnyPosition
      /\ Cardinality(q.hands[ToPlay(p)]) + 1 = Cardinality(p.hands[ToPlay(p)])
      /\ \A h \in Hands : h # ToPlay(p) => q.hands[h] = p.hands[h]
      /\ Len(p.trick) + 1 < 4 => q.first = p.first /\ q.trick = Append(p.trick, c)
      /\ Len(p.trick) + 1 >= 4 =>
           /\ q.first = (p.first + Winner(Append(p.trick, c), suit) - 1) % 4
           /\ q.trick = <<>>
  BY <1>1, PlayHands
<1>4. \A h \in Hands : Cardinality(q.hands[h]) =
                         IF h \in Played(p) \union {ToPlay(p)} THEN n - 1 ELSE n
  <2>1. \A h \in Hands : Cardinality(p.hands[h]) = IF h \in Played(p) THEN n - 1 ELSE n
    BY DEF Balanced
  <2>2. Cardinality(q.hands[ToPlay(p)]) \in Nat
    BY <1>1, <1>3, AnyPositionFacts
  <2> QED
    BY <1>1, <1>3, <2>1, <2>2
<1>5. p.trick \in Seq(Cards) /\ c \in Cards
  BY <1>1, AnyPositionFacts
<1>6. ASSUME Len(p.trick) < 3
      PROVE  Balanced(q, n) /\ ToPlay(q) = (ToPlay(p) + 1) % 4
  <2>1. q.first = p.first /\ q.trick = Append(p.trick, c) /\ Len(q.trick) = Len(p.trick) + 1
    BY <1>1, <1>3, <1>5, <1>6, AppendProperties
  <2>2. Played(q) = Played(p) \union {ToPlay(p)}
    <3>1. 0..(Len(q.trick) - 1) = 0..(Len(p.trick) - 1) \union {Len(p.trick)}
      BY <1>1, <2>1
    <3> QED
      BY <2>1, <3>1 DEF Played, ToPlay
  <2>3. Len(q.trick) \in 0..3
    BY <1>1, <1>6, <2>1
  <2>4. Balanced(q, n)
    BY <1>1, <1>2, <1>3, <1>4, <2>2, <2>3 DEF Balanced
  <2>5. ToPlay(q) = (ToPlay(p) + 1) % 4
    <3>1. (p.first + (Len(p.trick) + 1)) % 4 = (((p.first + Len(p.trick)) % 4) + 1) % 4
      BY <1>1, Turns
    <3> QED
      BY <2>1, <3>1 DEF ToPlay
  <2> QED
    BY <2>4, <2>5
<1>7. ASSUME Len(p.trick) = 3
      PROVE  Balanced(q, n - 1) /\ ToPlay(q) = q.first
  <2>1. q.trick = <<>> /\ Len(q.trick) = 0 /\ q.first \in Hands
    BY <1>1, <1>3, <1>7, AnyPositionFacts
  <2>2. Played(q) = {}
    BY <2>1 DEF Played
  <2>3. Played(p) \union {ToPlay(p)} = Hands
    <3>1. Played(p) = {(p.first + 0) % 4, (p.first + 1) % 4, (p.first + 2) % 4}
      <4>1. 0..(3 - 1) = {0, 1, 2}
        OBVIOUS
      <4> QED
        BY <1>7, <4>1 DEF Played
    <3>2. p.first \in {0, 1, 2, 3}
      BY <1>1 DEF Hands
    <3>3. ToPlay(p) = (p.first + 3) % 4
      BY <1>7 DEF ToPlay
    <3>4. Hands = {0, 1, 2, 3}
      BY DEF Hands
    <3>5. 0 % 4 = 0 /\ 1 % 4 = 1 /\ 2 % 4 = 2 /\ 3 % 4 = 3 /\ 4 % 4 = 0
          /\ 5 % 4 = 1 /\ 6 % 4 = 2
      OBVIOUS
    <3> QED
      BY <3>1, <3>2, <3>3, <3>4, <3>5
  <2>4. \A h \in Hands : Cardinality(q.hands[h]) = n - 1
    BY <1>4, <2>3
  <2>5. Balanced(q, n - 1)
    BY <1>1, <1>2, <1>3, <2>1, <2>2, <2>4 DEF Balanced
  <2>6. ToPlay(q) = q.first
    BY <2>1 DEF ToPlay, Hands
  <2> QED
    BY <2>5, <2>6
<1>8. /\ Len(p.trick) < 3 => Len(p.trick) + 1 < 4
      /\ Len(p.trick) = 3 => Len(p.trick) + 1 >= 4
  <2>1. Len(p.trick) \in 0..3
    BY <1>1
  <2> QED
    BY ONLY <2>1, TrickSizes
<1> QED
  BY <1>2, <1>3, <1>6, <1>7, <1>8

(* A value is a number of the tricks that are left, and no card is worth   *)
(* more.                                                                   *)

LEMMA WorthInside ==
  ASSUME NEW p, NEW n, Balanced(p, n), NEW c \in Legal(p), NEW suit,
         NEW q, q = PlayCard(p, c, suit), NEW m, Balanced(q, m), NEW v \in 0..m
  PROVE  Worth(p, q, v) \in 0..n
<1>1. c \in Holding(p) /\ n \in Nat /\ Len(p.trick) \in 0..3 /\ ToPlay(p) \in Hands
  BY LegalIsHeld, BalancedFacts
<1>2. m \in Nat /\ TricksLeft(q) = m /\ ToPlay(q) \in Hands
  BY BalancedFacts
<1>3. CASE Len(p.trick) < 3
  <2>1. Balanced(q, n) /\ ToPlay(q) = (ToPlay(p) + 1) % 4
    BY <1>1, <1>3, BalancedPlay
  <2>2. m = n
    BY <1>2, <2>1, BalancedFacts
  <2>3. ~Partners(ToPlay(p), ToPlay(q))
    BY <1>1, <1>2, <2>1 DEF Partners, Hands
  <2> QED
    BY <1>1, <1>2, <2>2, <2>3 DEF Worth
<1>4. CASE Len(p.trick) = 3
  <2>1. Balanced(q, n - 1) /\ n >= 1
    BY <1>1, <1>4, BalancedPlay
  <2>2. m = n - 1
    BY <1>2, <2>1, BalancedFacts
  <2> QED
    BY <1>1, <1>2, <2>1, <2>2 DEF Worth
<1>5. Len(p.trick) < 3 \/ Len(p.trick) = 3
  <2>1. Len(p.trick) \in 0..3
    BY <1>1
  <2> QED
    BY ONLY <2>1, TrickSizes
<1> QED
  BY <1>3, <1>4, <1>5

LEMMA PlayedBalanced ==
  ASSUME NEW p, NEW n, Balanced(p, n), NEW c \in Legal(p), NEW suit
  PROVE  \E m : Balanced(PlayCard(p, c, suit), m)
<1>1. c \in Holding(p) /\ Len(p.trick) \in 0..3
  BY LegalIsHeld, BalancedFacts
<1>2. PICK q : q = PlayCard(p, c, suit)
  OBVIOUS
<1>3. (Len(p.trick) < 3 => Balanced(q, n)) /\ (Len(p.trick) = 3 => Balanced(q, n - 1))
  BY <1>1, <1>2, BalancedPlay
<1>4. Len(p.trick) < 3 \/ Len(p.trick) = 3
  <2>1. Len(p.trick) \in 0..3
    BY <1>1
  <2> QED
    BY ONLY <2>1, TrickSizes
<1> QED
  BY <1>2, <1>3, <1>4

LEMMA ValueInside ==
  ASSUME NEW suit, NEW p, NEW n, Balanced(p, n)
  PROVE  Value(p, suit) \in 0..n
<1> DEFINE Good(q) == \A m : Balanced(q, m) => Value(q, suit) \in 0..m
           S == {k \in Nat : \A q \in AnyPosition : Size(q) < k => Good(q)}
<1>1. 0 \in S
  <2>1. \A q \in AnyPosition : ~(Size(q) < 0)
    BY SizeFacts
  <2> QED
    BY <2>1
<1>2. ASSUME NEW k \in Nat, k \in S PROVE k + 1 \in S
  <2>1. ASSUME NEW q \in AnyPosition, Size(q) < k + 1, NEW m, Balanced(q, m)
        PROVE  Value(q, suit) \in 0..m
    <3>1. m \in Nat /\ NoCards(q) <=> m = 0 /\ m \in Nat
      BY <2>1, BalancedFacts
    <3>2. Value(q, suit) = IF NoCards(q) THEN 0 ELSE Best(Options(q, suit))
      BY ValueEquation
    <3>3. CASE NoCards(q)
      BY <2>1, <3>1, <3>2, <3>3, BalancedFacts
    <3>4. CASE ~NoCards(q)
      <4>1. ASSUME NEW c \in Legal(q)
            PROVE  Worth(q, PlayCard(q, c, suit), Value(PlayCard(q, c, suit), suit))
                     \in 0..m
        <5>1. PICK r : r = PlayCard(q, c, suit)
          OBVIOUS
        <5>2. c \in Holding(q)
          BY LegalIsHeld
        <5>3. r \in AnyPosition /\ Size(r) + 1 = Size(q)
          BY <5>1, <5>2, PlayShrinks
        <5>4. Size(r) < k
          <6>1. Size(r) \in Nat /\ Size(q) \in Nat
            BY <5>3, SizeFacts
          <6> QED
            BY <2>1, <5>3, <6>1
        <5>5. PICK j : Balanced(r, j)
          BY <2>1, <5>1, PlayedBalanced
        <5>6. Value(r, suit) \in 0..j
          BY <1>2, <5>3, <5>4, <5>5
        <5>7. Worth(q, r, Value(r, suit)) \in 0..m
          BY <2>1, <5>1, <5>5, <5>6, WorthInside
        <5> QED
          BY <5>1, <5>7
      <4>2. Options(q, suit) \in SUBSET (0..m)
        BY <4>1 DEF Options
      <4>3. Options(q, suit) # {}
        <5>1. m # 0 /\ Cardinality(Holding(q)) = m
          BY <2>1, <3>4, BalancedFacts
        <5>2. Holding(q) # {}
          BY <5>1, FS_EmptySet
        <5> QED
          BY <5>2, HoldingLegal DEF Options
      <4>4. m \in Nat
        BY <2>1, BalancedFacts
      <4>5. Best(Options(q, suit)) \in Options(q, suit)
        BY <4>2, <4>3, <4>4, BestOf
      <4> QED
        BY <3>2, <3>4, <4>2, <4>5
    <3> QED
      BY <3>3, <3>4
  <2> QED
    BY <2>1
<1> HIDE DEF S
<1>3. Nat \subseteq S
  BY <1>1, <1>2, NatInduct
<1>4. p \in AnyPosition /\ Size(p) \in Nat
  BY BalancedFacts, SizeFacts
<1>5. Size(p) + 1 \in S /\ Size(p) < Size(p) + 1
  BY <1>3, <1>4
<1> QED
  BY <1>4, <1>5 DEF S

(* What playing a card says of the value before it. *)
LEMMA ValueAfter ==
  ASSUME NEW suit, NEW p, NEW n, Balanced(p, n), NEW c \in Legal(p),
         NEW q, q = PlayCard(p, c, suit)
  PROVE  /\ Value(q, suit) \in 0..TricksLeft(q)
         /\ Worth(p, q, Value(q, suit)) <= Value(p, suit)
<1>1. PICK m : Balanced(q, m)
  BY PlayedBalanced
<1>2. Value(q, suit) \in 0..m /\ TricksLeft(q) = m
  BY <1>1, ValueInside, BalancedFacts
<1>3. /\ p \in AnyPosition /\ n \in Nat /\ (NoCards(p) <=> n = 0)
      /\ Cardinality(Holding(p)) = n /\ IsFiniteSet(Holding(p))
  BY BalancedFacts
<1>4. n # 0
  BY <1>3, FS_EmptySet, LegalIsHeld
<1>5. Value(p, suit) = Best(Options(p, suit))
  BY <1>3, <1>4, ValueEquation
<1>6. Options(p, suit) \in SUBSET (0..n)
  <2>1. ASSUME NEW d \in Legal(p)
        PROVE  Worth(p, PlayCard(p, d, suit), Value(PlayCard(p, d, suit), suit)) \in 0..n
    <3>1. PICK r : r = PlayCard(p, d, suit)
      OBVIOUS
    <3>2. PICK j : Balanced(r, j)
      BY <3>1, PlayedBalanced
    <3>3. Value(r, suit) \in 0..j
      BY <3>2, ValueInside
    <3>4. Worth(p, r, Value(r, suit)) \in 0..n
      BY <3>1, <3>2, <3>3, WorthInside
    <3> QED
      BY <3>1, <3>4
  <2> QED
    BY <2>1 DEF Options
<1>7. Worth(p, q, Value(q, suit)) \in Options(p, suit)
  BY DEF Options
<1>8. \A y \in Options(p, suit) : y <= Best(Options(p, suit))
  BY <1>3, <1>6, <1>7, BestOf
<1> QED
  BY <1>2, <1>5, <1>7, <1>8

-----------------------------------------------------------------------------
(* The trick so far, and the deal.                                         *)

(* The next card of a trick is the best of it, or the best stays. *)
Beats(c, d, suit) ==
  \/ /\ Suit(c) = suit
     /\ Suit(d) # suit \/ Rank(c) > Rank(d)
  \/ /\ Suit(c) # suit /\ Suit(d) # suit
     /\ Suit(c) = Suit(d) /\ Rank(c) > Rank(d)

LEMMA LeadsNext ==
  ASSUME NEW k \in Nat, k >= 1, NEW T, NEW U, NEW suit, NEW w, Leads(T, suit, k, w),
         \A i \in 1..k : U[i] = T[i], \A i \in 1..(k + 1) : U[i] \in Cards
  PROVE  Leads(U, suit, k + 1, IF Beats(U[k + 1], T[w], suit) THEN k + 1 ELSE w)
<1>1. /\ \A i \in 1..(k + 1) : i \in 1..k \/ i = k + 1
      /\ \A i \in 1..k : i \in 1..(k + 1)
      /\ 1 \in 1..k /\ k + 1 \in 1..(k + 1) /\ w \in 1..k
  BY DEF Leads
<1>2. \A i \in 1..(k + 1) : Rank(U[i]) \in Int
  BY CardFacts
<1>3. Leads(U, suit, k, w) /\ U[w] = T[w] /\ w \in 1..k
  BY <1>1 DEF Leads
<1> DEFINE c == U[k + 1]
           d == U[w]
<1>4. CASE Beats(c, d, suit)
  <2>1. CASE Suit(c) = suit
    <3>1. \A i \in 1..k : Suit(U[i]) = suit => Rank(U[i]) <= Rank(c)
      <4>1. CASE \E i \in 1..k : Suit(U[i]) = suit
        <5>1. Suit(d) = suit /\ \A i \in 1..k : Suit(U[i]) = suit => Rank(U[i]) <= Rank(d)
          BY <1>3, <4>1 DEF Leads
        <5>2. Rank(c) > Rank(d)
          BY <1>4, <2>1, <5>1 DEF Beats
        <5> QED
          BY <1>1, <1>2, <5>1, <5>2
      <4> QED
        BY <4>1
    <3> QED
      BY <1>1, <1>2, <1>3, <1>4, <2>1, <3>1 DEF Leads
  <2>2. CASE Suit(c) # suit
    <3>1. Suit(d) # suit /\ Suit(c) = Suit(d) /\ Rank(c) > Rank(d)
      BY <1>4, <2>2 DEF Beats
    <3>2. /\ ~\E i \in 1..k : Suit(U[i]) = suit
          /\ Suit(d) = Suit(U[1])
          /\ \A i \in 1..k : Suit(U[i]) = Suit(U[1]) => Rank(U[i]) <= Rank(d)
      BY <1>3, <3>1 DEF Leads
    <3>3. ~\E i \in 1..(k + 1) : Suit(U[i]) = suit
      BY <1>1, <2>2, <3>2
    <3>4. \A i \in 1..(k + 1) : Suit(U[i]) = Suit(U[1]) => Rank(U[i]) <= Rank(c)
      BY <1>1, <1>2, <3>1, <3>2
    <3> QED
      BY <1>1, <1>3, <1>4, <3>1, <3>2, <3>3, <3>4 DEF Leads
  <2> QED
    BY <2>1, <2>2
<1>5. CASE ~Beats(c, d, suit)
  <2>1. CASE Suit(d) = suit
    <3>1. \A i \in 1..k : Suit(U[i]) = suit => Rank(U[i]) <= Rank(d)
      BY <1>3, <2>1 DEF Leads
    <3>2. Suit(c) = suit => Rank(c) <= Rank(d)
      BY <1>1, <1>2, <1>3, <1>5, <2>1 DEF Beats
    <3>3. \A i \in 1..(k + 1) : Suit(U[i]) = suit => Rank(U[i]) <= Rank(d)
      BY <1>1, <3>1, <3>2
    <3> QED
      BY <1>1, <1>3, <1>5, <2>1, <3>3 DEF Leads
  <2>2. CASE Suit(d) # suit
    <3>1. Suit(c) # suit /\ (Suit(c) = Suit(d) => Rank(c) <= Rank(d))
      BY <1>1, <1>2, <1>3, <1>5, <2>2 DEF Beats
    <3>2. /\ ~\E i \in 1..k : Suit(U[i]) = suit
          /\ Suit(d) = Suit(U[1])
          /\ \A i \in 1..k : Suit(U[i]) = Suit(U[1]) => Rank(U[i]) <= Rank(d)
      BY <1>3, <2>2 DEF Leads
    <3>3. ~\E i \in 1..(k + 1) : Suit(U[i]) = suit
      BY <1>1, <3>1, <3>2
    <3>4. \A i \in 1..(k + 1) : Suit(U[i]) = Suit(U[1]) => Rank(U[i]) <= Rank(d)
      BY <1>1, <3>1, <3>2
    <3> QED
      BY <1>1, <1>3, <1>5, <3>2, <3>3, <3>4 DEF Leads
  <2> QED
    BY <2>1, <2>2
<1> QED
  BY <1>3, <1>4, <1>5

(* A trick has one best card. *)
LEMMA OneLeads ==
  ASSUME NEW k \in Nat, NEW T, NEW suit, NEW v, NEW w,
         Leads(T, suit, k, v), Leads(T, suit, k, w),
         \A i \in 1..k : T[i] \in Cards, \A i, j \in 1..k : T[i] = T[j] => i = j
  PROVE  v = w
<1>1. v \in 1..k /\ w \in 1..k
  BY DEF Leads
<1>2. Rank(T[v]) \in Int /\ Rank(T[w]) \in Int
  BY <1>1, CardFacts
<1>3. Suit(T[v]) = Suit(T[w]) /\ Rank(T[v]) <= Rank(T[w]) /\ Rank(T[w]) <= Rank(T[v])
  <2>1. CASE \E i \in 1..k : Suit(T[i]) = suit
    BY <1>1, <2>1 DEF Leads
  <2>2. CASE ~\E i \in 1..k : Suit(T[i]) = suit
    BY <1>1, <2>2 DEF Leads
  <2> QED
    BY <2>1, <2>2
<1>4. Rank(T[v]) = Rank(T[w])
  BY <1>2, <1>3
<1>5. T[v] = T[w]
  BY <1>1, <1>3, <1>4, CardFacts
<1> QED
  BY <1>1, <1>5

(* No card is twice in a position. *)
Dealt(p) ==
  /\ \A h, g \in Hands : h # g => p.hands[h] \cap p.hands[g] = {}
  /\ \A i \in 1..Len(p.trick), h \in Hands : p.trick[i] \notin p.hands[h]
  /\ \A i, j \in 1..Len(p.trick) : p.trick[i] = p.trick[j] => i = j

LEMMA DealtKept ==
  ASSUME NEW p, NEW n, Balanced(p, n), Dealt(p), NEW c \in Holding(p), NEW suit,
         NEW q, q = PlayCard(p, c, suit)
  PROVE  /\ Dealt(q) /\ c \in Cards
         /\ \A i, j \in 1..(Len(p.trick) + 1) :
              Append(p.trick, c)[i] = Append(p.trick, c)[j] => i = j
<1> DEFINE T == Append(p.trick, c)
           n1 == Len(p.trick)
<1>1. /\ p \in AnyPosition /\ Len(p.trick) \in 0..3 /\ ToPlay(p) \in Hands
      /\ p.trick \in Seq(Cards) /\ Holding(p) \in SUBSET Cards
  BY BalancedFacts, AnyPositionFacts
<1>2. /\ Len(T) = n1 + 1 /\ T[n1 + 1] = c /\ \A i \in 1..n1 : T[i] = p.trick[i]
  BY <1>1, AppendProperties
<1>3. /\ q.hands[ToPlay(p)] = Holding(p) \ {c}
      /\ \A h \in Hands : h # ToPlay(p) => q.hands[h] = p.hands[h]
      /\ Len(p.trick) + 1 < 4 => q.trick = T
      /\ Len(p.trick) + 1 >= 4 => q.trick = <<>>
  BY <1>1, PlayHands
<1>4. \A i \in 1..(n1 + 1) : i \in 1..n1 \/ i = n1 + 1
  BY <1>1
<1>5. \A h \in Hands : q.hands[h] \subseteq p.hands[h] /\ c \notin q.hands[h]
  BY <1>1, <1>3 DEF Dealt, Holding
<1>6. \A i \in 1..n1 : p.trick[i] # c
  BY <1>1 DEF Dealt, Holding
<1>7. \A i, j \in 1..(n1 + 1) : T[i] = T[j] => i = j
  <2> HIDE DEF T, n1
  <2>1. \A i, j \in 1..n1 : p.trick[i] = p.trick[j] => i = j
    BY DEF Dealt, n1
  <2> QED
    BY <1>2, <1>4, <1>6, <2>1
<1>8. \A i \in 1..(n1 + 1), h \in Hands : T[i] \notin q.hands[h]
  <2>1. ASSUME NEW i \in 1..(n1 + 1), NEW h \in Hands PROVE T[i] \notin q.hands[h]
    <3>1. CASE i = n1 + 1
      BY <1>2, <1>5, <3>1
    <3>2. CASE i \in 1..n1
      <4>1. T[i] = p.trick[i] /\ p.trick[i] \notin p.hands[h]
        BY <1>2, <3>2 DEF Dealt
      <4> QED
        BY <1>5, <4>1
    <3> QED
      BY <1>4, <3>1, <3>2
  <2> QED
    BY <2>1
<1>9. \A h, g \in Hands : h # g => q.hands[h] \cap q.hands[g] = {}
  <2>1. \A h, g \in Hands : h # g => p.hands[h] \cap p.hands[g] = {}
    BY DEF Dealt
  <2> QED
    BY <1>5, <2>1
<1>10. q.trick = T \/ q.trick = <<>>
  <2>1. Len(p.trick) \in Nat
    BY <1>1
  <2> QED
    BY <1>3, <2>1
<1>11. Dealt(q)
  <2>1. CASE q.trick = T
    <3> HIDE DEF T, n1
    <3> QED
      BY <1>2, <1>7, <1>8, <1>9, <2>1 DEF Dealt
  <2>2. CASE q.trick = <<>>
    BY <1>9, <2>2 DEF Dealt
  <2> QED
    BY <1>10, <2>1, <2>2
<1> QED
  BY <1>1, <1>7, <1>11

(* The positions that a call can begin with. *)
Opens(p, n, k) ==
  Balanced(p, n) /\ Dealt(p) /\ p.first = 0 /\ Len(p.trick) = k

LEMMA OpensNext ==
  ASSUME NEW p, NEW n, NEW k \in 0..2, Opens(p, n, k), NEW c \in Legal(p), NEW suit
  PROVE  Opens(PlayCard(p, c, suit), n, k + 1)
<1>1. PICK q : q = PlayCard(p, c, suit)
  OBVIOUS
<1>2. /\ Balanced(p, n) /\ Dealt(p) /\ p.first = 0 /\ Len(p.trick) = k
      /\ c \in Holding(p) /\ Len(p.trick) < 3
  BY LegalIsHeld DEF Opens
<1>3. Balanced(q, n) /\ q.first = p.first /\ q.trick = Append(p.trick, c)
  BY <1>1, <1>2, BalancedPlay
<1>4. Dealt(q) /\ c \in Cards
  BY <1>1, <1>2, DealtKept
<1>5. p.trick \in Seq(Cards)
  BY <1>2, BalancedFacts, AnyPositionFacts
<1>6. Len(q.trick) = k + 1
  BY <1>2, <1>3, <1>4, <1>5, AppendProperties
<1> QED
  BY <1>1, <1>2, <1>3, <1>4, <1>6 DEF Opens

LEMMA OpeningsAre ==
  ASSUME NEW deal \in Deals, NEW suit, NEW n \in 0..MaxCurrent,
         NEW p \in Openings(deal, suit, n)
  PROVE  /\ Opens(p, DealtTricks(deal), n)
         /\ DealtTricks(deal) \in Nat /\ DealtTricks(deal) > 1 /\ n \in 0..3
<1> DEFINE m == DealtTricks(deal)
           next(S) == UNION {{PlayCard(r, c, suit) : c \in Legal(r)} : r \in S}
           none == [hands |-> deal, first |-> 0, trick |-> <<>>]
<1>1. n \in 0..3 /\ m > 1 /\ m = DealtTricks(deal)
      /\ deal \in [Hands -> SUBSET Cards] /\ (\A h \in Hands : Cardinality(deal[h]) = m)
      /\ \A h, g \in Hands : h # g => deal[h] \cap deal[g] = {}
  BY DealsAssumption
<1>2. none \in AnyPosition /\ m \in Nat
  <2>1. none \in AnyPosition
    BY <1>1 DEF AnyPosition, Hands
  <2>2. Cardinality(none.hands[0]) \in Nat
    BY <2>1, AnyPositionFacts DEF Hands
  <2> QED
    BY <1>1, <2>1, <2>2 DEF Hands
<1>3. Opens(none, m, 0)
  <2>1. none.trick = <<>> /\ Len(none.trick) = 0 /\ none.first = 0 /\ none.hands = deal
    OBVIOUS
  <2> HIDE DEF none, m
  <2>2. Played(none) = {}
    BY <2>1 DEF Played
  <2>3. Balanced(none, m)
    BY <1>1, <1>2, <2>1, <2>2 DEF Balanced
  <2>4. Dealt(none)
    BY <1>1, <2>1 DEF Dealt
  <2> QED
    BY <2>1, <2>3, <2>4 DEF Opens
<1>4. \A k \in 0..2 : \A S :
        (\A r \in S : Opens(r, m, k)) => \A r \in next(S) : Opens(r, m, k + 1)
  <2> HIDE DEF m
  <2> QED
    BY OpensNext
<1>5. p \in CASE n = 0 -> {none}
              [] n = 1 -> next({none})
              [] n = 2 -> next(next({none}))
              [] n = 3 -> next(next(next({none})))
  BY DEF Openings
<1> HIDE DEF m, next, none
<1>6. \A r \in {none} : Opens(r, m, 0)
  BY <1>3
<1>7. \A r \in next({none}) : Opens(r, m, 1)
  BY <1>4, <1>6
<1>8. \A r \in next(next({none})) : Opens(r, m, 2)
  BY <1>4, <1>7
<1>9. \A r \in next(next(next({none}))) : Opens(r, m, 3)
  BY <1>4, <1>8
<1>10. Opens(p, m, n)
  BY <1>1, <1>5, <1>6, <1>7, <1>8, <1>9
<1> QED
  BY <1>1, <1>2, <1>10 DEF m

-----------------------------------------------------------------------------
(* The account of the analyser.                                            *)

(* The cards before the place a, and where the loops end. *)
Before(a) == 4 * (a.trick - 1) + a.card - 1
End == IF (number + 3) \div 4 >= numTricks THEN 4 * (numTricks - 1) ELSE number

Reading(a) == a.trick = 1 /\ a.card <= Len(current)

(* The winner of the trick so far. *)
Tracks(T, k) ==
  \E w \in 1..k : /\ Leads(T, trump, k, w)
                  /\ win.card = T[w] /\ win.player = (first + w - 1) % 4

SideOf(h) == IF Declares(h) THEN 0 ELSE 1

(* The account is one of the position p, when the place of the next card   *)
(* is a.                                                                   *)
Agrees(p, a) ==
  /\ a \in [trick : 1..numTricks, card : 1..4] /\ Before(a) <= End
  /\ left = numTricks - (a.trick - 1) /\ Balanced(p, left) /\ Dealt(p)
  /\ IF Reading(a) THEN p.trick = current ELSE Len(p.trick) = a.card - 1
  /\ remain = p.hands /\ first = p.first
  /\ player = (first + (a.card - 1)) % 4 /\ side = SideOf(player)
  /\ declarer \in 0..(a.trick - 1)
  /\ a.card > 1 => Tracks(p.trick, a.card - 1)

(* What the call and the results are. *)
Given ==
  /\ trump \in Trumps /\ number \in Numbers /\ number \in Nat
  /\ current \in Seq(Cards) /\ Len(current) \in 0..3
  /\ numTricks \in Nat /\ numTricks > 1
  /\ score \in 0..numTricks /\ left \in 1..numTricks /\ declarer \in 0..numTricks
  /\ first \in Hands /\ player \in Hands /\ side \in {0, 1}
  /\ hint \in -1..numTricks /\ hintDir \in {0, 1}
  /\ at \in [trick : 1..numTricks, card : 1..4]
  /\ tricks \in [0..(4 * numTricks) -> -1..numTricks]
  /\ pc \in {"solve", "card", "later", "done", "fault"}

Written == {i \in DOMAIN tricks : tricks[i] >= 0}

(* What declarer takes of all the tricks, if p is played perfectly. *)
Result(p) ==
  taken + IF Declares(ToPlay(p)) THEN Value(p, trump)
          ELSE TricksLeft(p) - Value(p, trump)

AtSolve ==
  /\ Agrees(pos, at) /\ pos.trick = current /\ first = 0
  /\ declarer = 0 /\ taken = 0 /\ played = 0 /\ left = numTricks
  /\ at = [trick |-> 1, card |-> 1] /\ Written = {}

AtCard ==
  /\ Agrees(pos, at) /\ declarer = taken /\ score = Value(pos, trump)
  /\ played = IF UsingCurrent THEN 0 ELSE Before(at) - Len(current)
  /\ played \in DOMAIN tricks /\ Written = 0..played /\ tricks[played] = Result(pos)

AtLater ==
  /\ ~UsingCurrent /\ Before(at) < End
  /\ Agrees(Moved, After(at)) /\ taken \in Nat
  /\ declarer = taken + IF Moved.trick = <<>> /\ Declares(Moved.first) THEN 1 ELSE 0
  /\ IF hintDir = 0 THEN hint <= Value(Moved, trump) ELSE Value(Moved, trump) <= hint
  /\ played = Before(at) - Len(current) /\ Written = 0..played

AtDone == ~More /\ solved = Before(at) + 1 - Len(current)

IInv ==
  /\ Given
  /\ pc = "solve" => AtSolve
  /\ pc \in {"card", "done"} => AtCard
  /\ pc = "later" => AtLater
  /\ pc = "done" => AtDone

LEMMA EndFacts ==
  ASSUME Given
  PROVE  /\ End \in Nat /\ End <= 4 * (numTricks - 1)
         /\ LastCard.trick \in Int /\ LastCard.card \in 1..4
         /\ 4 * (LastCard.trick - 1) + LastCard.card = End
<1> DEFINE d == (number + 3) \div 4
           r == (number + 3) % 4
<1>1. number \in Nat /\ numTricks \in Nat /\ numTricks > 1
  BY DEF Given
<1>2. d \in Nat /\ r \in 0..3 /\ number + 3 = 4 * d + r
  BY <1>1
<1> HIDE DEF d, r
<1>3. CASE d >= numTricks
  <2>1. End = 4 * (numTricks - 1) /\ LastCard = [trick |-> numTricks - 1, card |-> 4]
    BY <1>3 DEF End, LastCard, d
  <2> QED
    BY <1>1, <2>1
<1>4. CASE ~(d >= numTricks)
  <2>1. End = number /\ LastCard = [trick |-> d, card |-> r + 1]
    BY <1>4 DEF End, LastCard, d, r
  <2> QED
    BY <1>1, <1>2, <1>4, <2>1
<1> QED
  BY <1>3, <1>4

LEMMA MoreIs ==
  ASSUME Given PROVE More <=> Before(at) < End
<1> DEFINE t == LastCard.trick
           c == LastCard.card
<1>1. t \in Int /\ c \in 1..4 /\ 4 * (t - 1) + c = End /\ End \in Nat
  BY EndFacts
<1>2. at.trick \in Int /\ at.card \in 1..4
  BY DEF Given
<1>3. More <=> at.trick < t \/ (at.trick = t /\ at.card <= c)
  BY DEF More
<1> HIDE DEF t, c
<1> QED
  BY <1>1, <1>2, <1>3 DEF Before

LEMMA AfterFacts ==
  ASSUME Given, NEW a, a \in [trick : 1..numTricks, card : 1..4], Before(a) < End,
         NEW b, b = After(a)
  PROVE  /\ b \in [trick : 1..numTricks, card : 1..4] /\ Before(b) = Before(a) + 1
         /\ a.card = 4 => b.trick = a.trick + 1 /\ b.card = 1 /\ a.trick < numTricks
         /\ a.card # 4 => b.trick = a.trick /\ b.card = a.card + 1
         /\ Before(b) <= End /\ Before(a) \in Nat
<1>1. numTricks \in Nat /\ End \in Nat /\ End <= 4 * (numTricks - 1)
  BY EndFacts DEF Given
<1>2. a.trick \in 1..numTricks /\ a.card \in 1..4
  OBVIOUS
<1>3. CASE a.card = 4
  <2>1. b = [trick |-> a.trick + 1, card |-> 1]
    BY <1>3 DEF After
  <2> QED
    BY <1>1, <1>2, <1>3, <2>1 DEF Before
<1>4. CASE a.card # 4
  <2>1. b = [trick |-> a.trick, card |-> a.card + 1]
    BY <1>4 DEF After
  <2> QED
    BY <1>1, <1>2, <1>4, <2>1 DEF Before
<1> QED
  BY <1>3, <1>4

(* The winner so far is kept. *)
LEMMA TracksNext ==
  ASSUME Given, Agrees(pos, at), NEW c, Track(c), NEW T, T[at.card] = c,
         \A i \in 1..(at.card - 1) : T[i] = pos.trick[i],
         \A i \in 1..at.card : T[i] \in Cards
  PROVE  \E w \in 1..at.card : /\ Leads(T, trump, at.card, w) /\ win'.card = T[w]
                               /\ win'.player = (first + w - 1) % 4
<1>1. /\ at.card \in 1..4 /\ first \in Hands /\ player = (first + (at.card - 1)) % 4
      /\ at.card > 1 => Tracks(pos.trick, at.card - 1)
  BY DEF Given, Agrees
<1>2. win' = IF Takes(c)
             THEN [card |-> c, player |-> IF at.card = 1 THEN first ELSE player]
             ELSE win
  BY DEF Track
<1>3. CASE at.card = 1
  <2>1. win'.card = T[1] /\ win'.player = first
    BY <1>2, <1>3 DEF Takes
  <2>2. first = (first + 1 - 1) % 4
    BY <1>1 DEF Hands
  <2>3. Leads(T, trump, 1, 1)
    <3>1. T[1] \in Cards /\ \A i \in 1..1 : i = 1
      BY <1>3
    <3>2. Rank(T[1]) <= Rank(T[1])
      BY <3>1, CardFacts
    <3> QED
      BY <3>1, <3>2 DEF Leads
  <2> QED
    BY <1>3, <2>1, <2>2, <2>3
<1>4. CASE at.card # 1
  <2>1. PICK w \in 1..(at.card - 1) :
          /\ Leads(pos.trick, trump, at.card - 1, w)
          /\ win.card = pos.trick[w] /\ win.player = (first + w - 1) % 4
    BY <1>1, <1>4 DEF Tracks
  <2>2. Takes(c) <=> Beats(c, pos.trick[w], trump)
    BY <1>4, <2>1 DEF Takes, Beats
  <2>3. PICK k : k = at.card - 1
    OBVIOUS
  <2>4. k \in Nat /\ k >= 1 /\ k + 1 = at.card
    BY <1>1, <1>4, <2>3
  <2>5. Leads(T, trump, k + 1, IF Beats(T[k + 1], pos.trick[w], trump) THEN k + 1 ELSE w)
    BY <2>1, <2>3, <2>4, LeadsNext
  <2>6. Leads(T, trump, at.card, IF Takes(c) THEN at.card ELSE w)
    BY <2>2, <2>4, <2>5
  <2>7. CASE Takes(c)
    <3>1. win'.card = T[at.card] /\ win'.player = player
      BY <1>2, <1>4, <2>7
    <3>2. player = (first + at.card - 1) % 4 /\ at.card \in 1..at.card
      BY <1>1 DEF Hands
    <3> QED
      BY <2>6, <2>7, <3>1, <3>2
  <2>8. CASE ~Takes(c)
    <3>1. win' = win /\ T[w] = pos.trick[w] /\ w \in 1..at.card
      BY <1>1, <1>2, <2>1, <2>8
    <3> QED
      BY <2>1, <2>6, <2>8, <3>1
  <2> QED
    BY <2>7, <2>8
<1> QED
  BY <1>3, <1>4

(* A card in the middle of a trick, or one of the current trick. *)
LEMMA InsideKeeps ==
  ASSUME Given, Agrees(pos, at), at.card # 4, Before(at) < End, UNCHANGED call,
         NEW c, Track(c), NEW b, b = After(at),
         NEW q, Balanced(q, left), Dealt(q), q.first = pos.first, remain' = q.hands,
         q.trick[at.card] = c, \A i \in 1..at.card : q.trick[i] \in Cards,
         \A i \in 1..(at.card - 1) : q.trick[i] = pos.trick[i],
         IF Reading(b) THEN q.trick = current ELSE Len(q.trick) = b.card - 1
  PROVE  /\ Agrees(q, b)' /\ declarer' = declarer /\ left' = left
         /\ hint' = left - score /\ hintDir' = 0
<1>1. /\ at.card \in 1..4 /\ at.trick \in 1..numTricks
      /\ first \in Hands /\ player \in Hands /\ numTricks \in Nat
  BY DEF Given
<1>2. /\ at \in [trick : 1..numTricks, card : 1..4]
      /\ left = numTricks - (at.trick - 1) /\ first = pos.first
      /\ player = (first + (at.card - 1)) % 4 /\ side = SideOf(player)
      /\ declarer \in 0..(at.trick - 1)
  BY DEF Agrees
<1>3. /\ b \in [trick : 1..numTricks, card : 1..4] /\ Before(b) <= End
      /\ b.trick = at.trick /\ b.card = at.card + 1
  BY <1>2, AfterFacts
<1>4. /\ player' = (player + 1) % 4 /\ side' = 1 - side
      /\ hint' = left - score /\ hintDir' = 0
      /\ first' = first /\ declarer' = declarer /\ left' = left
  BY DEF Track, TrackInside
<1>5. trump' = trump /\ current' = current /\ number' = number /\ numTricks' = numTricks
  BY DEF call
<1>6. player' = (first' + (b.card - 1)) % 4
  <2>1. at.card - 1 \in 0..3
    BY <1>1
  <2>2. (first + ((at.card - 1) + 1)) % 4 = (((first + (at.card - 1)) % 4) + 1) % 4
    BY <1>1, <2>1, Turns
  <2>3. (at.card - 1) + 1 = b.card - 1
    BY <1>1, <1>3
  <2> QED
    BY <1>2, <1>4, <2>2, <2>3
<1>7. side' = SideOf(player')
  <2>1. player' \in Hands /\ (player \in {1, 3} <=> player' \notin {1, 3})
    BY <1>1, <1>4 DEF Hands
  <2>2. (Declares(player) <=> player \in {1, 3}) /\ (Declares(player') <=> player' \in {1, 3})
    BY <1>1, <2>1, Sides
  <2> QED
    BY <1>2, <1>4, <2>1, <2>2 DEF SideOf
<1>8. \E w \in 1..at.card : /\ Leads(q.trick, trump, at.card, w) /\ win'.card = q.trick[w]
                            /\ win'.player = (first + w - 1) % 4
  BY TracksNext
<1>9. Tracks(q.trick, b.card - 1)'
  <2>1. b.card - 1 = at.card
    BY <1>1, <1>3
  <2> QED
    BY <1>4, <1>5, <1>8, <2>1 DEF Tracks
<1>10. (IF Reading(b) THEN q.trick = current ELSE Len(q.trick) = b.card - 1)'
  BY <1>5 DEF Reading
<1>11. (Before(b) <= End)'
  BY <1>3, <1>5 DEF Before, End
<1>12. (/\ b \in [trick : 1..numTricks, card : 1..4]
        /\ left = numTricks - (b.trick - 1) /\ Balanced(q, left)
        /\ declarer \in 0..(b.trick - 1))'
  BY <1>2, <1>3, <1>4, <1>5
<1>13. Agrees(q, b)'
  BY <1>4, <1>2, <1>6, <1>7, <1>9, <1>10, <1>11, <1>12 DEF Agrees
<1> QED
  BY <1>4, <1>13

(* The fourth card of a trick. *)
LEMMA FullKeeps ==
  ASSUME Given, Agrees(pos, at), at.card = 4, Len(pos.trick) = 3, Before(at) < End,
         UNCHANGED call, NEW c \in Holding(pos), Track(c), NEW b, b = After(at),
         NEW q, q = PlayCard(pos, c, trump), remain' = q.hands
  PROVE  /\ Agrees(q, b)' /\ left' = left - 1 /\ Balanced(q, left - 1)
         /\ q.trick = <<>> /\ first' = q.first
         /\ declarer' = declarer + IF Declares(q.first) THEN 1 ELSE 0
         /\ IF Partners(pos.first, q.first) THEN hintDir' = 0 /\ hint' = (left - 1) - score
            ELSE hintDir' = 1 /\ hint' = score - 1
<1>1. /\ at.trick \in 1..numTricks /\ first \in Hands /\ numTricks \in Nat
  BY DEF Given
<1>2. /\ at \in [trick : 1..numTricks, card : 1..4]
      /\ left = numTricks - (at.trick - 1) /\ first = pos.first
      /\ declarer \in 0..(at.trick - 1) /\ Balanced(pos, left) /\ Dealt(pos)
  BY DEF Agrees
<1>3. /\ b \in [trick : 1..numTricks, card : 1..4] /\ Before(b) <= End
      /\ b.trick = at.trick + 1 /\ b.card = 1
  BY <1>2, AfterFacts
<1>4. trump' = trump /\ current' = current /\ number' = number /\ numTricks' = numTricks
  BY DEF call
<1>5. /\ Balanced(q, left - 1) /\ ToPlay(q) = q.first /\ q.trick = <<>>
      /\ q.first = (pos.first + Winner(Append(pos.trick, c), trump) - 1) % 4
  BY <1>2, BalancedPlay
<1>6. /\ Dealt(q) /\ c \in Cards
      /\ \A i, j \in 1..(Len(pos.trick) + 1) :
           Append(pos.trick, c)[i] = Append(pos.trick, c)[j] => i = j
  BY <1>2, DealtKept
<1>7. PICK T : T = Append(pos.trick, c)
  OBVIOUS
<1>8. /\ T \in Seq(Cards) /\ Len(T) = 4 /\ T[4] = c /\ \A i \in 1..3 : T[i] = pos.trick[i]
  <2>1. pos.trick \in Seq(Cards)
    BY <1>2, BalancedFacts, AnyPositionFacts
  <2> QED
    BY <1>6, <1>7, <2>1, AppendProperties
<1>9. \A i \in 1..4 : T[i] \in Cards
  BY <1>8, LenProperties
<1>10. PICK w \in 1..4 : /\ Leads(T, trump, 4, w) /\ win'.player = (first + w - 1) % 4
  <2>1. \A i \in 1..(at.card - 1) : T[i] = pos.trick[i]
    BY <1>8
  <2>2. \A i \in 1..at.card : T[i] \in Cards
    BY <1>9
  <2>3. \E w \in 1..at.card : /\ Leads(T, trump, at.card, w) /\ win'.card = T[w]
                              /\ win'.player = (first + w - 1) % 4
    BY <1>8, <2>1, <2>2, TracksNext
  <2> QED
    BY <2>3
<1>11. win'.player = q.first
  <2>1. Leads(T, trump, 4, Winner(T, trump))
    <3>1. T \in Seq(Cards) /\ Len(T) >= 4
      BY <1>8
    <3> QED
      BY ONLY <3>1, WinnerLeads
  <2>2. \A i, j \in 1..4 : T[i] = T[j] => i = j
    <3>1. Len(pos.trick) + 1 = 4
      OBVIOUS
    <3>2. \A i, j \in 1..(Len(pos.trick) + 1) : T[i] = T[j] => i = j
      BY <1>6, <1>7
    <3> QED
      BY ONLY <3>1, <3>2
  <2>3. w = Winner(T, trump)
    BY <1>9, <1>10, <2>1, <2>2, OneLeads
  <2> QED
    BY <1>2, <1>5, <1>7, <1>10, <2>3
<1>12. /\ declarer' = declarer + IF Declares(q.first) THEN 1 ELSE 0
       /\ left' = left - 1 /\ first' = q.first /\ player' = q.first
       /\ side' = SideOf(q.first)
       /\ IF Partners(first, q.first) THEN hintDir' = 0 /\ hint' = left' - score
          ELSE hintDir' = 1 /\ hint' = score - 1
  BY <1>11 DEF Track, TrackFull, SideOf
<1>13. q.first \in Hands
  BY <1>5, BalancedFacts
<1>14. player' = (first' + (b.card - 1)) % 4
  <2>1. (q.first + (1 - 1)) % 4 = q.first
    BY <1>13 DEF Hands
  <2> QED
    BY <1>3, <1>12, <2>1
<1>15. (IF Reading(b) THEN q.trick = current ELSE Len(q.trick) = b.card - 1)'
  <2>1. b.trick # 1
    BY <1>1, <1>3
  <2>2. Len(q.trick) = b.card - 1
    BY <1>3, <1>5
  <2> QED
    BY <2>1, <2>2 DEF Reading
<1>16. (Before(b) <= End)'
  BY <1>3, <1>4 DEF Before, End
<1>17. (/\ b \in [trick : 1..numTricks, card : 1..4]
        /\ left = numTricks - (b.trick - 1) /\ Balanced(q, left))'
  <2>1. left - 1 = numTricks - (b.trick - 1)
    BY <1>1, <1>2, <1>3
  <2> QED
    BY <1>3, <1>4, <1>5, <1>12, <2>1
<1>18. (declarer \in 0..(b.trick - 1))'
  BY <1>1, <1>2, <1>3, <1>12
<1>19. ~(b.card > 1)
  BY <1>3
<1>20. Agrees(q, b)'
  BY <1>6, <1>12, <1>14, <1>15, <1>16, <1>17, <1>18, <1>19 DEF Agrees
<1> QED
  BY <1>2, <1>5, <1>12, <1>20

(* What the value before a card says of the one after it. *)
LEMMA HintsHold ==
  ASSUME NEW suit, NEW p, NEW n, Balanced(p, n), NEW c \in Legal(p),
         NEW q, q = PlayCard(p, c, suit), NEW x, x = Value(p, suit),
         NEW y, y = Value(q, suit)
  PROVE  /\ x \in 0..n /\ y \in 0..TricksLeft(q)
         /\ Len(p.trick) < 3 => n - x <= y
         /\ Len(p.trick) = 3 => /\ Partners(p.first, q.first) => (n - 1) - x <= y
                                /\ ~Partners(p.first, q.first) => y <= x - 1
<1>1. x \in 0..n /\ y \in 0..TricksLeft(q) /\ Worth(p, q, y) <= x
  BY ValueInside, ValueAfter
<1>2. c \in Holding(p) /\ n \in Nat /\ Len(p.trick) \in 0..3 /\ ToPlay(p) \in Hands
      /\ p.first \in Hands
  BY LegalIsHeld, BalancedFacts
<1>3. CASE Len(p.trick) < 3
  <2>1. Balanced(q, n) /\ ToPlay(q) = (ToPlay(p) + 1) % 4
    BY <1>2, <1>3, BalancedPlay
  <2>2. TricksLeft(q) = n
    BY <2>1, BalancedFacts
  <2>3. ~Partners(ToPlay(p), ToPlay(q))
    BY <1>2, <2>1 DEF Partners, Hands
  <2>4. n - y <= x
    BY <1>1, <2>2, <2>3 DEF Worth
  <2>5. x \in Int /\ y \in Int /\ n \in Int
    BY <1>1, <1>2, <2>2
  <2>6. n - x <= y
    BY ONLY <2>4, <2>5
  <2>7. Len(p.trick) # 3
    <3>1. Len(p.trick) \in Int
      BY <1>2
    <3> QED
      BY ONLY <1>3, <3>1
  <2> QED
    BY <1>1, <2>6, <2>7
<1>4. CASE Len(p.trick) = 3
  <2>1. Balanced(q, n - 1) /\ ToPlay(q) = q.first
    BY <1>2, <1>4, BalancedPlay
  <2>2. TricksLeft(q) = n - 1 /\ q.first \in Hands
    BY <2>1, BalancedFacts
  <2>3. Partners(ToPlay(p), ToPlay(q)) <=> ~Partners(p.first, q.first)
    <3>1. ToPlay(p) = (p.first + 3) % 4
      BY <1>4 DEF ToPlay
    <3>2. ToPlay(p) \in {0, 2} <=> p.first \notin {0, 2}
      BY <1>2, <3>1 DEF Hands
    <3> QED
      BY <1>2, <2>1, <2>2, <3>2, Sides
  <2>4. IF ~Partners(p.first, q.first) THEN 1 + y <= x ELSE (n - 1) - y <= x
    BY <1>1, <2>2, <2>3 DEF Worth
  <2>5. x \in Int /\ y \in Int /\ n \in Int
    <3>1. Balanced(q, n - 1)
      BY <2>1
    <3>2. n - 1 \in Nat
      BY <3>1 DEF Balanced
    <3> QED
      BY <1>1, <1>2, <2>2, <3>2
  <2>6. /\ Partners(p.first, q.first) => (n - 1) - x <= y
        /\ ~Partners(p.first, q.first) => y <= x - 1
    BY ONLY <2>4, <2>5
  <2>7. ~(Len(p.trick) < 3)
    BY <1>4
  <2> QED
    BY <1>1, <2>6, <2>7
<1>5. Len(p.trick) < 3 \/ Len(p.trick) = 3
  <2>1. Len(p.trick) \in 0..3
    BY <1>2
  <2> QED
    BY ONLY <2>1, TrickSizes
<1> QED
  BY <1>3, <1>4, <1>5

(* A card of the trace, as it is read. *)
LEMMA CardKeeps ==
  ASSUME Given, Agrees(pos, at), ~Reading(at), Before(at) < End, UNCHANGED call,
         score = Value(pos, trump), NEW c \in Legal(pos), Track(c),
         remain' = [remain EXCEPT ![player] = @ \ {c}], NEW b, b = After(at),
         NEW q, q = PlayCard(pos, c, trump), NEW y, y = Value(q, trump)
  PROVE  /\ Agrees(q, b)'
         /\ declarer' = declarer + IF q.trick = <<>> /\ Declares(q.first) THEN 1 ELSE 0
         /\ IF hintDir' = 0 THEN hint' <= y ELSE y <= hint'
         /\ hint' \in -1..numTricks /\ hintDir' \in {0, 1}
<1>1. /\ at.card \in 1..4 /\ numTricks \in Nat /\ left \in 1..numTricks
      /\ declarer \in 0..numTricks
  BY DEF Given
<1>2. /\ at \in [trick : 1..numTricks, card : 1..4] /\ Len(pos.trick) = at.card - 1
      /\ Balanced(pos, left) /\ Dealt(pos) /\ remain = pos.hands /\ first = pos.first
      /\ player = (first + (at.card - 1)) % 4
  BY DEF Agrees
<1>3. c \in Holding(pos) /\ player = ToPlay(pos)
  BY <1>2, LegalIsHeld DEF ToPlay
<1>4. /\ pos \in AnyPosition /\ pos.hands \in [Hands -> SUBSET Cards]
      /\ pos.trick \in Seq(Cards) /\ ToPlay(pos) \in Hands /\ c \in Cards
  BY <1>2, <1>3, BalancedFacts, AnyPositionFacts
<1>5. remain' = q.hands
  <2>1. /\ q \in AnyPosition /\ q.hands[ToPlay(pos)] = Holding(pos) \ {c}
        /\ \A h \in Hands : h # ToPlay(pos) => q.hands[h] = pos.hands[h]
    BY <1>3, <1>4, PlayHands
  <2>2. q.hands \in [Hands -> SUBSET Cards]
    BY <2>1, AnyPositionFacts
  <2>3. remain' = [pos.hands EXCEPT ![ToPlay(pos)] = @ \ {c}]
    BY <1>2, <1>3
  <2>4. \A h \in Hands : remain'[h] = q.hands[h]
    BY <1>4, <2>1, <2>3 DEF Holding
  <2>5. remain' \in [Hands -> SUBSET Cards]
    <3>1. pos.hands[ToPlay(pos)] \ {c} \in SUBSET Cards
      BY <1>4
    <3> QED
      BY <1>4, <2>3, <3>1
  <2> QED
    BY <2>2, <2>4, <2>5, Zenon
<1>6. /\ score \in 0..left /\ y \in 0..TricksLeft(q)
      /\ Len(pos.trick) < 3 => left - score <= y
      /\ Len(pos.trick) = 3 =>
           /\ Partners(pos.first, q.first) => (left - 1) - score <= y
           /\ ~Partners(pos.first, q.first) => y <= score - 1
  BY <1>2, HintsHold
<1>7. CASE at.card = 4
  <2>1. Len(pos.trick) = 3
    BY <1>2, <1>7
  <2>2. /\ Agrees(q, b)' /\ q.trick = <<>>
        /\ declarer' = declarer + IF Declares(q.first) THEN 1 ELSE 0
        /\ IF Partners(pos.first, q.first) THEN hintDir' = 0 /\ hint' = (left - 1) - score
           ELSE hintDir' = 1 /\ hint' = score - 1
    BY <1>3, <1>5, <1>7, <2>1, FullKeeps
  <2>3. IF hintDir' = 0 THEN hint' <= y ELSE y <= hint'
    BY <1>6, <2>1, <2>2
  <2>4. hint' \in -1..numTricks /\ hintDir' \in {0, 1}
    <3>1. hint' = (left - 1) - score \/ hint' = score - 1
      BY <2>2
    <3>2. hintDir' \in {0, 1}
      BY <2>2
    <3>3. score \in 0..left /\ left \in 1..numTricks /\ numTricks \in Nat
      BY <1>1, <1>6
    <3> QED
      BY ONLY <3>1, <3>2, <3>3
  <2> QED
    BY <2>2, <2>3, <2>4
<1>8. CASE at.card # 4
  <2>1. Len(pos.trick) < 3
    BY <1>1, <1>2, <1>8
  <2>2. Balanced(q, left) /\ q.first = pos.first /\ q.trick = Append(pos.trick, c)
    BY <1>2, <1>3, <2>1, BalancedPlay
  <2>3. Dealt(q)
    BY <1>2, <1>3, DealtKept
  <2>4. /\ Len(q.trick) = at.card /\ q.trick[at.card] = c /\ q.trick \in Seq(Cards)
        /\ \A i \in 1..(at.card - 1) : q.trick[i] = pos.trick[i]
    <3>1. Len(pos.trick) + 1 = at.card
      BY <1>1, <1>2
    <3> QED
      BY <1>2, <1>4, <2>2, <3>1, AppendProperties
  <2>5. \A i \in 1..at.card : q.trick[i] \in Cards
    BY <2>4, LenProperties
  <2>6. b.card = at.card + 1 /\ b.trick = at.trick
    BY <1>2, <1>8, AfterFacts
  <2>7. IF Reading(b) THEN q.trick = current ELSE Len(q.trick) = b.card - 1
    <3>1. at.trick = 1 => ~(at.card <= Len(current))
      BY DEF Reading
    <3>2. Len(current) \in Nat /\ at.card \in Nat
      BY <1>1 DEF Given
    <3>3. ~Reading(b)
      BY <2>6, <3>1, <3>2 DEF Reading
    <3>4. Len(q.trick) = b.card - 1
      BY <1>1, <2>4, <2>6
    <3> QED
      BY <3>3, <3>4
  <2>8. /\ Agrees(q, b)' /\ declarer' = declarer /\ hint' = left - score /\ hintDir' = 0
    BY <1>5, <1>8, <2>2, <2>3, <2>4, <2>5, <2>7, InsideKeeps
  <2>9. q.trick # <<>>
    <3>1. Len(q.trick) # 0
      BY <1>1, <2>4
    <3> QED
      BY <3>1
  <2>10. hint' <= y /\ hint' \in -1..numTricks
    <3>1. hint' = left - score /\ left - score <= y
      BY <1>6, <2>1, <2>8
    <3>2. score \in 0..left /\ left \in 1..numTricks /\ numTricks \in Nat
      BY <1>1, <1>6
    <3> QED
      BY ONLY <3>1, <3>2
  <2>11. declarer + 0 = declarer
    BY <1>1
  <2> QED
    BY <2>8, <2>9, <2>10, <2>11
<1> QED
  BY <1>7, <1>8

-----------------------------------------------------------------------------
(* The steps.                                                              *)

(* What agrees with a position has its type. *)
LEMMA AgreesTypes ==
  ASSUME NEW q, NEW b, numTricks' \in Nat, Agrees(q, b)'
  PROVE  /\ left' \in 1..numTricks' /\ declarer' \in 0..numTricks'
         /\ first' \in Hands /\ player' \in Hands /\ side' \in {0, 1}
         /\ b \in [trick : 1..numTricks', card : 1..4]
<1>1. /\ b \in [trick : 1..numTricks', card : 1..4]
      /\ left' = numTricks' - (b.trick - 1) /\ Balanced(q, left')
      /\ first' = q.first /\ player' = (first' + (b.card - 1)) % 4
      /\ side' = SideOf(player') /\ declarer' \in 0..(b.trick - 1)
  BY DEF Agrees
<1>2. first' \in Hands
  BY <1>1, BalancedFacts
<1>3. b.card - 1 \in 0..3 /\ b.trick \in 1..numTricks'
  BY <1>1
<1>4. player' \in Hands
  BY <1>1, <1>2, <1>3, Around
<1> QED
  BY <1>1, <1>2, <1>3, <1>4 DEF SideOf

LEMMA InvStarts == Init => IInv
<1> SUFFICES ASSUME Init PROVE IInv
  OBVIOUS
<1>1. PICK deal \in Deals, n \in 0..MaxCurrent :
        pos \in Openings(deal, trump, n) /\ numTricks = DealtTricks(deal)
  BY DEF Init
<1>2. /\ trump \in Trumps /\ number \in Numbers /\ current = pos.trick
      /\ remain = pos.hands /\ first = 0 /\ player = 0 /\ side = 1 /\ score = 0
      /\ tricks = [i \in 0..(4 * numTricks) |-> (-1)]
      /\ at = [trick |-> 1, card |-> 1]
      /\ declarer = 0 /\ left = numTricks /\ hint = 0 /\ hintDir = 0
      /\ taken = 0 /\ played = 0 /\ pc = "solve"
  BY DEF Init
<1>3. /\ Balanced(pos, numTricks) /\ Dealt(pos) /\ pos.first = 0 /\ Len(pos.trick) = n
      /\ numTricks \in Nat /\ numTricks > 1 /\ n \in 0..3
  BY <1>1, OpeningsAre DEF Opens
<1>4. pos.trick \in Seq(Cards)
  BY <1>3, BalancedFacts, AnyPositionFacts
<1>5. number \in Nat
  BY <1>2, DealsAssumption
<1>6. at \in [trick : 1..numTricks, card : 1..4] /\ at.trick = 1 /\ at.card = 1
  BY <1>2, <1>3
<1>7. tricks \in [0..(4 * numTricks) -> -1..numTricks]
  BY <1>2, <1>3
<1>8. first \in Hands /\ player \in Hands
  BY <1>2 DEF Hands
<1>9. Given
  <2>1. score \in 0..numTricks /\ left \in 1..numTricks /\ declarer \in 0..numTricks
        /\ hint \in -1..numTricks
    BY <1>2, <1>3
  <2> QED
    BY <1>2, <1>3, <1>4, <1>5, <1>6, <1>7, <1>8, <2>1 DEF Given
<1>10. Before(at) <= End
  BY <1>6, <1>9, EndFacts DEF Before
<1>11. IF Reading(at) THEN pos.trick = current ELSE Len(pos.trick) = at.card - 1
  <2>1. CASE Reading(at)
    BY <1>2, <2>1
  <2>2. CASE ~Reading(at)
    BY <1>2, <1>3, <1>6, <2>2 DEF Reading
  <2> QED
    BY <2>1, <2>2
<1>12. side = SideOf(player)
  <2>1. ~Declares(0)
    BY DEF Declares, Partners
  <2> QED
    BY <1>2, <2>1 DEF SideOf
<1>13. Agrees(pos, at)
  <2>1. player = (first + (at.card - 1)) % 4 /\ left = numTricks - (at.trick - 1)
        /\ declarer \in 0..(at.trick - 1)
    BY <1>2, <1>3, <1>6
  <2> QED
    BY <1>2, <1>3, <1>6, <1>10, <1>11, <1>12, <2>1 DEF Agrees
<1>14. Written = {}
  BY <1>2, <1>3 DEF Written
<1> QED
  BY <1>2, <1>9, <1>13, <1>14 DEF IInv, AtSolve

LEMMA SolveKeeps ==
  ASSUME IInv, Solve PROVE IInv'
<1>1. /\ Given /\ AtSolve /\ pc = "solve"
  BY DEF IInv, Solve
<1>2. /\ Agrees(pos, at) /\ pos.trick = current /\ first = 0
      /\ declarer = 0 /\ taken = 0 /\ played = 0 /\ left = numTricks
      /\ at = [trick |-> 1, card |-> 1] /\ Written = {}
  BY <1>1 DEF AtSolve
<1>3. /\ score' = Value(pos, trump)
      /\ tricks' = [tricks EXCEPT ![0] =
                      IF Len(current) % 2 = 0 THEN numTricks - score' ELSE score']
      /\ pc' = "card" /\ UNCHANGED <<call, account, history, pos, at>>
  BY DEF Solve
<1>4. /\ Balanced(pos, numTricks) /\ pos.first = 0 /\ numTricks \in Nat
      /\ Len(current) \in 0..3 /\ tricks \in [0..(4 * numTricks) -> -1..numTricks]
  BY <1>1, <1>2 DEF Agrees, Given
<1>5. score' \in 0..numTricks
  BY <1>3, <1>4, ValueInside
<1>6. 0 \in 0..(4 * numTricks)
  BY <1>4
<1>7. /\ tricks' \in [0..(4 * numTricks) -> -1..numTricks] /\ tricks'[0] \in 0..numTricks
      /\ tricks'[0] = IF Len(current) % 2 = 0 THEN numTricks - score' ELSE score'
      /\ \A i \in 0..(4 * numTricks) : i # 0 => tricks'[i] = tricks[i]
  <2> DEFINE x == IF Len(current) % 2 = 0 THEN numTricks - score' ELSE score'
  <2>1. x \in 0..numTricks /\ x \in -1..numTricks
    <3>1. numTricks \in Nat /\ score' \in 0..numTricks
      BY <1>4, <1>5
    <3>2. numTricks - score' \in 0..numTricks
      <4>1. \A n \in Nat : \A y \in 0..n : n - y \in 0..n
        OBVIOUS
      <4> QED
        BY ONLY <3>1, <4>1
    <3>3. x = numTricks - score' \/ x = score'
      OBVIOUS
    <3>4. x \in 0..numTricks
      BY ONLY <3>1, <3>2, <3>3
    <3> HIDE DEF x
    <3>5. x \in -1..numTricks
      BY ONLY <3>1, <3>4
    <3> QED
      BY <3>4, <3>5
  <2> HIDE DEF x
  <2>2. tricks' = [tricks EXCEPT ![0] = x]
    BY <1>3 DEF x
  <2>3. tricks'[0] = x /\ tricks' \in [0..(4 * numTricks) -> -1..numTricks]
        /\ \A i \in 0..(4 * numTricks) : i # 0 => tricks'[i] = tricks[i]
    BY <1>4, <1>6, <2>1, <2>2
  <2> QED
    BY <2>1, <2>3 DEF x
<1>8. Written' = 0..0
  <2>1. \A i \in 0..(4 * numTricks) : ~(tricks[i] >= 0)
    BY <1>2, <1>4 DEF Written
  <2>2. DOMAIN tricks' = 0..(4 * numTricks)
    BY <1>7
  <2>3. tricks'[0] >= 0
    BY <1>4, <1>7
  <2>4. Written' = {0}
    BY <1>6, <1>7, <2>1, <2>2, <2>3 DEF Written
  <2> QED
    BY <2>4
<1>9. Given'
  BY <1>1, <1>3, <1>5, <1>7 DEF Given, call, account
<1>10. Agrees(pos, at)'
  BY <1>2, <1>3 DEF Agrees, Before, End, Reading, Tracks, call, account
<1>11. tricks'[played'] = Result(pos)'
  <2>0. \A k \in 0..3 : (0 + k) % 4 = k /\ ((k + 1) % 2 = 0 <=> k % 2 # 0)
    OBVIOUS
  <2>1. ToPlay(pos) = Len(current)
    <3>1. ToPlay(pos) = (0 + Len(current)) % 4
      BY <1>2, <1>4 DEF ToPlay
    <3>2. Len(current) \in 0..3
      BY <1>4
    <3> QED
      BY ONLY <2>0, <3>1, <3>2
  <2>2. Declares(ToPlay(pos)) <=> Len(current) % 2 # 0
    <3>1. Len(current) \in 0..3
      BY <1>4
    <3> QED
      BY ONLY <2>0, <2>1, <3>1 DEF Declares, Partners
  <2>3. TricksLeft(pos) = numTricks
    BY <1>4, BalancedFacts
  <2>4. tricks'[0] = 0 + IF Declares(ToPlay(pos)) THEN score' ELSE TricksLeft(pos) - score'
    <3>1. numTricks - score' \in Int /\ score' \in Int
      BY <1>4, <1>5
    <3> QED
      BY <1>7, <2>2, <2>3, <3>1
  <2> QED
    BY <1>2, <1>3, <2>4 DEF Result, call, history
<1>12. played' = IF UsingCurrent' THEN 0 ELSE Before(at') - Len(current')
  BY <1>2, <1>3, <1>4 DEF UsingCurrent, Before, call, history
<1>13. AtCard'
  <2>1. played' = 0 /\ 0 \in DOMAIN tricks'
    BY <1>2, <1>3, <1>6, <1>7 DEF history
  <2>2. declarer' = taken' /\ score' = Value(pos', trump')
    BY <1>2, <1>3 DEF history, account, call
  <2> QED
    BY <1>8, <1>10, <1>11, <1>12, <2>1, <2>2 DEF AtCard
<1> QED
  BY <1>3, <1>9, <1>13 DEF IInv

LEMMA ReadCurrentKeeps ==
  ASSUME IInv, ReadCurrent PROVE IInv'
<1>1. Given /\ AtCard /\ pc = "card"
  BY DEF IInv, ReadCurrent
<1>2. /\ More /\ UsingCurrent /\ Track(current[at.card]) /\ at' = After(at) /\ pc' = "card"
      /\ UNCHANGED <<call, history, remain, pos, score, tricks>>
  BY <1>1 DEF ReadCurrent
<1>3. /\ Agrees(pos, at) /\ declarer = taken /\ score = Value(pos, trump)
      /\ played = 0 /\ played \in DOMAIN tricks /\ Written = 0..played
      /\ tricks[played] = Result(pos)
  BY <1>1, <1>2 DEF AtCard
<1>4. /\ at.trick = 1 /\ at.card <= Len(current) /\ Reading(at)
      /\ Len(current) \in 0..3 /\ at.card \in 1..4 /\ numTricks \in Nat
      /\ current \in Seq(Cards) /\ left \in 1..numTricks
  BY <1>1, <1>2 DEF UsingCurrent, Reading, Given
<1>5. /\ at \in [trick : 1..numTricks, card : 1..4] /\ Balanced(pos, left) /\ Dealt(pos)
      /\ pos.trick = current /\ remain = pos.hands
  BY <1>3, <1>4 DEF Agrees
<1>6. at.card # 4 /\ Before(at) < End
  BY <1>1, <1>2, <1>4, MoreIs
<1>7. PICK b : b = After(at)
  OBVIOUS
<1>8. b.trick = 1 /\ b.card = at.card + 1
  BY <1>1, <1>4, <1>5, <1>6, <1>7, AfterFacts
<1>9. \A i \in 1..at.card : current[i] \in Cards
  <2>1. \A i \in 1..at.card : i \in 1..Len(current)
    BY <1>4
  <2> QED
    BY <1>4, <2>1, LenProperties
<1>10. IF Reading(b) THEN pos.trick = current ELSE Len(pos.trick) = b.card - 1
  <2>1. CASE Reading(b)
    BY <1>5, <2>1
  <2>2. CASE ~Reading(b)
    <3>1. ~(at.card + 1 <= Len(current))
      BY <1>8, <2>2 DEF Reading
    <3>2. Len(current) = b.card - 1
      <4>1. \A k \in 1..4 : \A n \in 0..3 : k <= n /\ ~(k + 1 <= n) => n = (k + 1) - 1
        OBVIOUS
      <4>2. Len(current) = (at.card + 1) - 1
        BY ONLY <1>4, <3>1, <4>1
      <4> QED
        BY <1>8, <4>2
    <3> QED
      BY <1>5, <2>2, <3>2
  <2> QED
    BY <2>1, <2>2
<1>11. /\ Agrees(pos, b)' /\ declarer' = declarer /\ hint' = left - score /\ hintDir' = 0
  <2>1. PICK q : q = pos
    OBVIOUS
  <2>2. UNCHANGED call /\ remain' = q.hands /\ Track(q.trick[at.card])
    BY <1>2, <1>5, <2>1
  <2>3. /\ Agrees(q, b)' /\ declarer' = declarer /\ hint' = left - score /\ hintDir' = 0
    BY <1>1, <1>3, <1>5, <1>6, <1>7, <1>9, <1>10, <2>1, <2>2, InsideKeeps
  <2>4. pos' = q
    BY <1>2, <2>1
  <2> QED
    BY <2>3, <2>4
<1>12. at' = b
  BY <1>2, <1>7
<1>13. Agrees(pos, at)'
  BY <1>11, <1>12 DEF Agrees, Reading, Before, End, Tracks
<1>14. call' = call /\ pos' = pos /\ score' = score /\ tricks' = tricks
       /\ taken' = taken /\ played' = played /\ remain' = remain
  BY <1>2 DEF history
<1>15. trump' = trump /\ current' = current /\ number' = number /\ numTricks' = numTricks
  BY <1>14 DEF call
<1>16. Given'
  <2>1. /\ left' \in 1..numTricks' /\ declarer' \in 0..numTricks'
        /\ first' \in Hands /\ player' \in Hands /\ side' \in {0, 1}
        /\ at' \in [trick : 1..numTricks', card : 1..4]
    <3>1. PICK q : q = pos'
      OBVIOUS
    <3>2. Agrees(q, b)'
      BY <1>11, <3>1 DEF Agrees, Reading, Before, End, Tracks
    <3>3. numTricks' \in Nat
      BY <1>4, <1>15
    <3> QED
      BY <1>12, <3>2, <3>3, AgreesTypes
  <2>2. hint' \in -1..numTricks
    <3>1. score \in 0..left
      BY <1>3, <1>5, ValueInside
    <3>2. hint' = left - score /\ left \in 1..numTricks /\ numTricks \in Nat
      BY <1>4, <1>11
    <3> QED
      BY ONLY <3>1, <3>2
  <2> QED
    BY <1>1, <1>2, <1>11, <1>14, <1>15, <2>1, <2>2 DEF Given
<1>17. AtCard'
  <2>1. played' = IF UsingCurrent' THEN 0 ELSE Before(at') - Len(current')
    <3>1. CASE UsingCurrent'
      BY <1>3, <1>14, <3>1
    <3>2. CASE ~UsingCurrent'
      <4>1. ~(at.card + 1 <= Len(current))
        BY <1>8, <1>12, <1>15, <3>2 DEF UsingCurrent
      <4>2. Before(b) - Len(current) = 0
        BY <1>4, <1>8, <4>1 DEF Before
      <4> QED
        BY <1>3, <1>12, <1>14, <1>15, <3>2, <4>2
    <3> QED
      BY <3>1, <3>2
  <2>2. Written' = 0..played' /\ tricks'[played'] = Result(pos)'
        /\ played' \in DOMAIN tricks'
    BY <1>3, <1>14, <1>15 DEF Written, Result
  <2>3. declarer' = taken' /\ score' = Value(pos', trump')
    BY <1>3, <1>11, <1>14, <1>15
  <2> QED
    BY <1>13, <2>1, <2>2, <2>3 DEF AtCard
<1> QED
  BY <1>2, <1>16, <1>17 DEF IInv

LEMMA ReadCardKeeps ==
  ASSUME IInv, ReadCard PROVE IInv'
<1>1. Given /\ AtCard /\ pc = "card"
  BY DEF IInv, ReadCard
<1>2. /\ More /\ ~UsingCurrent /\ pc' = "later"
      /\ UNCHANGED <<call, history, pos, score, tricks, at>>
  BY DEF ReadCard
<1>3. PICK c \in Legal(pos) :
        /\ remain' = [remain EXCEPT ![player] = @ \ {c}] /\ Track(c) /\ move' = c
  BY DEF ReadCard
<1>4. /\ Agrees(pos, at) /\ declarer = taken /\ score = Value(pos, trump)
      /\ played = Before(at) - Len(current) /\ Written = 0..played
  BY <1>1, <1>2 DEF AtCard
<1>5. Before(at) < End /\ ~Reading(at)
  BY <1>1, <1>2, MoreIs DEF Reading, UsingCurrent
<1>6. PICK q : q = PlayCard(pos, c, trump)
  OBVIOUS
<1>7. PICK b : b = After(at)
  OBVIOUS
<1>8. PICK y : y = Value(q, trump)
  OBVIOUS
<1>9. /\ Agrees(q, b)'
      /\ declarer' = declarer + IF q.trick = <<>> /\ Declares(q.first) THEN 1 ELSE 0
      /\ IF hintDir' = 0 THEN hint' <= y ELSE y <= hint'
      /\ hint' \in -1..numTricks /\ hintDir' \in {0, 1}
  <2>1. UNCHANGED call
    BY <1>2
  <2> QED
    BY <1>1, <1>3, <1>4, <1>5, <1>6, <1>7, <1>8, <2>1, CardKeeps
<1>10. /\ trump' = trump /\ current' = current /\ number' = number /\ numTricks' = numTricks
       /\ pos' = pos /\ score' = score /\ tricks' = tricks /\ at' = at
       /\ taken' = taken /\ played' = played
  BY <1>2 DEF call, history
<1>11. Moved' = q /\ After(at)' = b
  BY <1>3, <1>6, <1>7, <1>10 DEF Moved, After
<1>12. Agrees(Moved, After(at))'
  BY <1>9, <1>11 DEF Agrees, Reading, Before, End, Tracks
<1>13. Given'
  <2>1. numTricks' \in Nat
    BY <1>1, <1>10 DEF Given
  <2>2. /\ left' \in 1..numTricks' /\ declarer' \in 0..numTricks'
        /\ first' \in Hands /\ player' \in Hands /\ side' \in {0, 1}
    BY <1>9, <2>1, AgreesTypes
  <2> QED
    BY <1>1, <1>2, <1>9, <1>10, <2>2 DEF Given
<1>14. AtLater'
  <2>0. taken' \in Nat
    BY <1>1, <1>4, <1>10 DEF Given
  <2>1. ~UsingCurrent' /\ Before(at') < End'
    BY <1>2, <1>5, <1>10 DEF UsingCurrent, End
  <2>2. declarer' = taken' + IF Moved'.trick = <<>> /\ Declares(Moved'.first) THEN 1 ELSE 0
    BY <1>4, <1>9, <1>10, <1>11
  <2>3. IF hintDir' = 0 THEN hint' <= Value(Moved', trump')
        ELSE Value(Moved', trump') <= hint'
    BY <1>8, <1>9, <1>10, <1>11
  <2>4. played' = Before(at') - Len(current') /\ Written' = 0..played'
    BY <1>4, <1>10 DEF Written
  <2> QED
    BY <1>12, <2>0, <2>1, <2>2, <2>3, <2>4 DEF AtLater
<1> QED
  BY <1>2, <1>13, <1>14 DEF IInv

LEMMA ReadFaultKeeps ==
  ASSUME IInv, ReadFault PROVE IInv'
<1>1. Given /\ pc' = "fault"
      /\ UNCHANGED <<call, account, history, pos, score, tricks, solved, at, move>>
  BY DEF IInv, ReadFault
<1>2. Given'
  BY <1>1 DEF Given, call, account
<1> QED
  BY <1>1, <1>2 DEF IInv

(* The solve of a later board returns the value of the position. *)
LEMMA LaterIsRight ==
  ASSUME IInv, pc = "later"
  PROVE  /\ Later = Value(Moved, trump)
         /\ IF hintDir = 0 THEN hint <= Later ELSE Later <= hint
         /\ LaterScore = Value(Moved, trump) /\ Value(Moved, trump) \in 0..left
<1>1. Given /\ AtLater
  BY DEF IInv
<1>2. /\ first = Moved.first /\ Balanced(Moved, left)
      /\ IF hintDir = 0 THEN hint <= Value(Moved, trump) ELSE Value(Moved, trump) <= hint
  BY <1>1 DEF AtLater, Agrees
<1>3. PICK q : q = Moved
  OBVIOUS
<1>4. ToPlay(q) \in Hands /\ Value(q, trump) \in 0..left /\ left \in Nat
  BY <1>2, <1>3, BalancedFacts, ValueInside
<1>5. Later = Value(q, trump)
  <2>1. Partners(ToPlay(q), ToPlay(q))
    BY <1>4, Sides
  <2>2. (first + Len(q.trick)) % 4 = ToPlay(q)
    BY <1>2, <1>3 DEF ToPlay
  <2> QED
    BY <1>3, <2>1, <2>2 DEF Later
<1>6. LaterScore = Later
  <2>1. Later \in Int /\ hint \in Int
    BY <1>1, <1>4, <1>5 DEF Given
  <2>2. IF hintDir = 0 THEN hint <= Later ELSE Later <= hint
    BY <1>2, <1>3, <1>5
  <2>3. hintDir = 0 => ~(Later < hint)
    BY <2>1, <2>2
  <2>4. hintDir # 0 => ~(Later > hint)
    BY <2>1, <2>2
  <2> QED
    BY <2>3, <2>4 DEF LaterScore
<1> QED
  BY <1>2, <1>3, <1>4, <1>5, <1>6

LEMMA AnalyseLaterKeeps ==
  ASSUME IInv, AnalyseLater PROVE IInv'
<1>1. Given /\ AtLater /\ pc = "later"
  BY DEF IInv, AnalyseLater
<1>2. PICK q : q = Moved
  OBVIOUS
<1>3. PICK b : b = After(at)
  OBVIOUS
<1>4. PICK v : v = Value(q, trump)
  OBVIOUS
<1>5. /\ ~UsingCurrent /\ Before(at) < End /\ Agrees(q, b) /\ taken \in Nat
      /\ declarer = taken + IF q.trick = <<>> /\ Declares(q.first) THEN 1 ELSE 0
      /\ played = Before(at) - Len(current) /\ Written = 0..played
  BY <1>1, <1>2, <1>3 DEF AtLater
<1>6. LaterScore = v /\ v \in 0..left
  BY <1>1, <1>2, <1>4, LaterIsRight
<1>7. /\ pos' = q /\ score' = v /\ at' = b /\ pc' = "card" /\ played' = played + 1
      /\ tricks' = [tricks EXCEPT ![Place] =
                      declarer + IF side = 1 THEN left - v ELSE v]
      /\ taken' = IF q.trick = <<>> /\ Declares(q.first) THEN taken + 1 ELSE taken
      /\ UNCHANGED <<call, account>>
  BY <1>2, <1>3, <1>6 DEF AnalyseLater
<1>8. /\ at \in [trick : 1..numTricks, card : 1..4] /\ numTricks \in Nat
      /\ Len(current) \in 0..3 /\ tricks \in [0..(4 * numTricks) -> -1..numTricks]
  BY <1>1 DEF Given
<1>9. /\ b \in [trick : 1..numTricks, card : 1..4] /\ Before(b) = Before(at) + 1
      /\ at.card = 4 => b.trick = at.trick + 1 /\ b.card = 1
      /\ at.card # 4 => b.trick = at.trick /\ b.card = at.card + 1
      /\ Before(b) <= End /\ Before(at) \in Nat
  BY <1>1, <1>3, <1>5, <1>8, AfterFacts
<1>10. /\ left = numTricks - (b.trick - 1) /\ Balanced(q, left) /\ first = q.first
       /\ player = (first + (b.card - 1)) % 4 /\ side = SideOf(player)
       /\ declarer \in 0..(b.trick - 1)
       /\ IF Reading(b) THEN q.trick = current ELSE Len(q.trick) = b.card - 1
  BY <1>5 DEF Agrees
<1>11. /\ trump' = trump /\ current' = current /\ number' = number /\ numTricks' = numTricks
       /\ remain' = remain /\ first' = first /\ win' = win /\ declarer' = declarer
       /\ left' = left /\ player' = player /\ side' = side /\ hint' = hint
       /\ hintDir' = hintDir
  BY <1>7 DEF call, account
<1>12. at.trick \in 1..numTricks /\ at.card \in 1..4 /\ b.trick \in 1..numTricks
       /\ b.card \in 1..4
  BY <1>8, <1>9
<1>13. Before(at) >= Len(current) /\ ~Reading(b)
  <2>1. ~(at.trick = 1 /\ at.card <= Len(current))
    BY <1>5 DEF UsingCurrent
  <2>2. CASE at.trick = 1
    <3>1. at.card > Len(current)
      BY <1>8, <1>12, <2>1, <2>2
    <3>2. Before(at) >= Len(current)
      BY <1>8, <1>12, <2>2, <3>1 DEF Before
    <3>3. ~(b.trick = 1 /\ b.card <= Len(current))
      BY <1>8, <1>9, <1>12, <2>2, <3>1
    <3> QED
      BY <3>2, <3>3 DEF Reading
  <2>3. CASE at.trick # 1
    <3>1. \A t \in Nat : \A c \in 1..4 : \A n \in 0..3 : t > 1 => 4 * (t - 1) + c - 1 >= n
      OBVIOUS
    <3>2. at.trick \in Nat /\ at.trick > 1 /\ Len(current) \in 0..3 /\ at.card \in 1..4
      BY <1>8, <1>12, <2>3
    <3>3. Before(at) >= Len(current)
      BY <3>1, <3>2 DEF Before
    <3>4. b.trick # 1
      BY <1>9, <3>2
    <3> QED
      BY <3>3, <3>4 DEF Reading
  <2> QED
    BY <2>2, <2>3
<1>14. player = ToPlay(q)
  BY <1>10, <1>13 DEF ToPlay
<1>15. Agrees(pos, at)'
  BY <1>5, <1>7, <1>11 DEF Agrees, Reading, Before, End, Tracks
<1>16. /\ Place = played + 1 /\ Place \in 0..(4 * numTricks) /\ played \in Nat
  <2>1. Place = Before(at) + 1 - Len(current)
    <3>1. \A t, c, n \in Int : 4 * (t - 1) - n + c = 4 * (t - 1) + c - 1 + 1 - n
      OBVIOUS
    <3>2. at.trick \in Int /\ at.card \in Int /\ Len(current) \in Int
      BY <1>8, <1>12
    <3> QED
      BY <3>1, <3>2 DEF Place, Before
  <2>2. End <= 4 * (numTricks - 1) /\ End \in Nat
    BY <1>1, EndFacts
  <2>3. \A r, e, n, k \in Nat : k <= r /\ r + 1 <= e /\ e <= 4 * (n - 1) =>
          r + 1 - k = (r - k) + 1 /\ r + 1 - k \in 0..(4 * n) /\ r - k \in Nat
    OBVIOUS
  <2>4. Before(at) \in Nat /\ numTricks \in Nat /\ Len(current) \in Nat
        /\ Before(at) + 1 <= End
    BY <1>8, <1>9
  <2>5. /\ Before(at) + 1 - Len(current) = (Before(at) - Len(current)) + 1
        /\ Before(at) + 1 - Len(current) \in 0..(4 * numTricks)
        /\ Before(at) - Len(current) \in Nat
    BY ONLY <1>13, <2>2, <2>3, <2>4
  <2> QED
    BY <1>5, <2>1, <2>5
<1>17. PICK x : x = declarer + IF side = 1 THEN left - v ELSE v
  OBVIOUS
<1>18. x \in 0..numTricks
  <2>1. left - v \in 0..left /\ v \in 0..left /\ left \in Nat
    BY <1>6, <1>10, BalancedFacts
  <2>2. \E w \in 0..left : x = declarer + w
    BY <1>17, <2>1
  <2>3. PICK w \in 0..left : x = declarer + w
    BY <2>2
  <2>4. left = numTricks - (b.trick - 1) /\ declarer \in 0..(b.trick - 1)
    BY <1>10
  <2>5. \A n \in Nat : \A t \in 1..n : \A d \in 0..(t - 1) : \A u \in 0..(n - (t - 1)) :
          d + u \in 0..n
    OBVIOUS
  <2> QED
    BY ONLY <1>8, <1>12, <2>3, <2>4, <2>5
<1>19. /\ tricks' \in [0..(4 * numTricks) -> -1..numTricks] /\ tricks'[Place] = x
       /\ \A i \in 0..(4 * numTricks) : i # Place => tricks'[i] = tricks[i]
  <2>1. x \in -1..numTricks
    BY ONLY <1>8, <1>18
  <2>2. PICK k : k = Place
    OBVIOUS
  <2>3. tricks' = [tricks EXCEPT ![k] = x] /\ k \in 0..(4 * numTricks)
    BY <1>7, <1>16, <1>17, <2>2
  <2>4. /\ tricks' \in [0..(4 * numTricks) -> -1..numTricks] /\ tricks'[k] = x
        /\ \A i \in 0..(4 * numTricks) : i # k => tricks'[i] = tricks[i]
    BY <1>8, <2>1, <2>3
  <2> QED
    BY <2>2, <2>4
<1>20. Written' = 0..played'
  <2>1. Written = {i \in 0..(4 * numTricks) : tricks[i] >= 0}
    BY <1>8 DEF Written
  <2>2. Written' = {i \in 0..(4 * numTricks) : tricks'[i] >= 0}
    BY <1>19 DEF Written
  <2>3. x >= 0
    BY ONLY <1>8, <1>18
  <2>4. \A i : i \in Written' <=> i \in Written \/ i = Place
    BY <1>16, <1>19, <2>1, <2>2, <2>3
  <2>5. \A i : i \in 0..played' <=> i \in 0..played \/ i = Place
    <3>1. played' = played + 1 /\ Place = played + 1 /\ played \in Nat
      BY <1>7, <1>16
    <3> QED
      BY ONLY <3>1
  <2> QED
    BY <1>5, <2>4, <2>5
<1>21. declarer' = taken'
  <2>1. CASE q.trick = <<>> /\ Declares(q.first)
    BY <1>5, <1>7, <1>11, <2>1
  <2>2. CASE ~(q.trick = <<>> /\ Declares(q.first))
    <3>1. declarer = taken + 0 /\ taken' = taken
      BY <1>5, <1>7, <2>2
    <3>2. taken + 0 = taken
      BY <1>5
    <3> QED
      BY <1>11, <3>1, <3>2
  <2> QED
    BY <2>1, <2>2
<1>22. tricks'[played'] = Result(pos)'
  <2>1. side = 1 <=> ~Declares(ToPlay(q))
    BY <1>10, <1>14 DEF SideOf
  <2>2. TricksLeft(q) = left
    BY <1>10, BalancedFacts
  <2>3. x = declarer + IF Declares(ToPlay(q)) THEN v ELSE TricksLeft(q) - v
    BY <1>17, <2>1, <2>2
  <2> QED
    BY <1>4, <1>7, <1>11, <1>16, <1>19, <1>21, <2>3 DEF Result
<1>23. played' = IF UsingCurrent' THEN 0 ELSE Before(at') - Len(current')
  <2>1. ~UsingCurrent'
    BY <1>7, <1>11, <1>13 DEF UsingCurrent, Reading
  <2>2. played + 1 = Before(b) - Len(current)
    BY <1>5, <1>8, <1>9
  <2> QED
    BY <1>7, <1>11, <2>1, <2>2
<1>24. AtCard'
  <2>1. played' \in DOMAIN tricks'
    BY <1>7, <1>16, <1>19
  <2>2. score' = Value(pos', trump')
    BY <1>4, <1>7, <1>11
  <2> QED
    BY <1>15, <1>20, <1>21, <1>22, <1>23, <2>1, <2>2 DEF AtCard
<1>25. Given'
  <2>1. score' \in 0..numTricks
    <3>1. left \in 1..numTricks
      BY <1>1 DEF Given
    <3>2. \A n \in Nat : \A k \in 1..n : \A y \in 0..k : y \in 0..n
      OBVIOUS
    <3> QED
      BY <1>6, <1>7, <1>8, <3>1, <3>2
  <2> QED
    BY <1>1, <1>7, <1>9, <1>11, <1>19, <2>1 DEF Given
<1> QED
  BY <1>7, <1>24, <1>25 DEF IInv

LEMMA FinishKeeps ==
  ASSUME IInv, Finish PROVE IInv'
<1>1. Given /\ AtCard /\ pc = "card"
  BY DEF IInv, Finish
<1>2. /\ ~More /\ solved' = 4 * LastCard.trick + LastCard.card - 3 - Len(current)
      /\ pc' = "done"
      /\ UNCHANGED <<call, account, history, pos, score, tricks, at, move>>
  BY DEF Finish
<1>3. /\ trump' = trump /\ current' = current /\ number' = number /\ numTricks' = numTricks
      /\ remain' = remain /\ first' = first /\ win' = win /\ declarer' = declarer
      /\ left' = left /\ player' = player /\ side' = side /\ hint' = hint
      /\ hintDir' = hintDir /\ taken' = taken /\ played' = played
      /\ pos' = pos /\ score' = score /\ tricks' = tricks /\ at' = at
  BY <1>2 DEF call, account, history
<1>4. Given'
  BY <1>1, <1>2, <1>3 DEF Given
<1>5. Agrees(pos, at)'
  BY <1>1, <1>3 DEF AtCard, Agrees, Reading, Before, End, Tracks
<1>6. AtCard'
  BY <1>1, <1>3, <1>5 DEF AtCard, UsingCurrent, Written, Result
<1>7. AtDone'
  <2>1. ~More'
    BY <1>2, <1>3 DEF More, LastCard
  <2>2. Before(at) = End
    <3>1. ~(Before(at) < End) /\ Before(at) <= End
      BY <1>1, <1>2, MoreIs DEF AtCard, Agrees
    <3>2. Before(at) \in Int /\ End \in Int
      <4>1. at.trick \in Int /\ at.card \in Int
        BY <1>1 DEF Given
      <4> QED
        BY <1>1, <4>1, EndFacts DEF Before
    <3> QED
      BY ONLY <3>1, <3>2
  <2>3. solved' = Before(at) + 1 - Len(current)
    <3>1. PICK t, c, r : t = LastCard.trick /\ c = LastCard.card /\ r = Before(at)
      OBVIOUS
    <3>2. t \in Int /\ c \in Int /\ r \in Int /\ 4 * (t - 1) + c = r
      BY <1>1, <2>2, <3>1, EndFacts
    <3>3. Len(current) \in Int
      BY <1>1 DEF Given
    <3>4. 4 * t + c - 3 - Len(current) = r + 1 - Len(current)
      BY ONLY <3>2, <3>3
    <3> QED
      BY <1>2, <3>1, <3>4
  <2> QED
    BY <1>3, <2>1, <2>3 DEF AtDone, Before
<1> QED
  BY <1>2, <1>4, <1>6, <1>7 DEF IInv

LEMMA StutterKeeps ==
  ASSUME IInv, UNCHANGED vars PROVE IInv'
<1>1. /\ trump' = trump /\ current' = current /\ number' = number /\ numTricks' = numTricks
      /\ remain' = remain /\ first' = first /\ win' = win /\ declarer' = declarer
      /\ left' = left /\ player' = player /\ side' = side /\ hint' = hint
      /\ hintDir' = hintDir /\ taken' = taken /\ played' = played
      /\ pos' = pos /\ score' = score /\ tricks' = tricks /\ at' = at
      /\ move' = move /\ solved' = solved /\ pc' = pc
  BY DEF vars, call, account, history
<1>2. Given'
  BY <1>1 DEF IInv, Given
<1>3. Agrees(pos, at) => Agrees(pos, at)'
  BY <1>1 DEF Agrees, Reading, Before, End, Tracks
<1>4. pc' = "solve" => AtSolve'
  BY <1>1, <1>3 DEF IInv, AtSolve, Written
<1>5. pc' \in {"card", "done"} => AtCard'
  BY <1>1, <1>3 DEF IInv, AtCard, UsingCurrent, Written, Result
<1>6. pc' = "later" => AtLater'
  <2>1. Moved' = Moved /\ After(at)' = After(at)
    BY <1>1 DEF Moved, After
  <2>2. Agrees(Moved, After(at)) => Agrees(Moved, After(at))'
    BY <1>1, <2>1 DEF Agrees, Reading, Before, End, Tracks
  <2> QED
    BY <1>1, <2>1, <2>2 DEF IInv, AtLater, UsingCurrent, Written, End
<1>7. pc' = "done" => AtDone'
  BY <1>1 DEF IInv, AtDone, More, LastCard, Before
<1> QED
  BY <1>2, <1>4, <1>5, <1>6, <1>7 DEF IInv

LEMMA InvKept == IInv /\ [Next]_vars => IInv'
<1> SUFFICES ASSUME IInv, [Next]_vars PROVE IInv'
  OBVIOUS
<1>1. CASE Solve
  BY <1>1, SolveKeeps
<1>2. CASE ReadCurrent
  BY <1>2, ReadCurrentKeeps
<1>3. CASE ReadCard
  BY <1>3, ReadCardKeeps
<1>4. CASE ReadFault
  BY <1>4, ReadFaultKeeps
<1>5. CASE AnalyseLater
  BY <1>5, AnalyseLaterKeeps
<1>6. CASE Finish
  BY <1>6, FinishKeeps
<1>7. CASE UNCHANGED vars
  BY <1>7, StutterKeeps
<1> QED
  BY <1>1, <1>2, <1>3, <1>4, <1>5, <1>6, <1>7 DEF Next

LEMMA InvHolds == Spec => []IInv
<1> QED
  BY InvStarts, InvKept, PTL DEF Spec

-----------------------------------------------------------------------------
(* Every variable of the analyser has its type, the results among them: a  *)
(* result is written inside the array, and is a number of tricks.          *)
THEOREM TypesAreKept == Spec => []TypeOK
<1>1. IInv => TypeOK
  <2> SUFFICES ASSUME IInv PROVE TypeOK
    OBVIOUS
  <2>1. Given
    BY DEF IInv
  <2> QED
    BY <2>1 DEF Given, TypeOK
<1> QED
  BY <1>1, InvHolds, PTL

(* AnalysePlayBin and the search never disagree about the hands, the hand  *)
(* to play, the tricks that are left and the tricks that declarer has,     *)
(* though each keeps them on its own.                                      *)
THEOREM AccountAlwaysAgrees == Spec => []AccountAgrees
<1>1. IInv => AccountAgrees
  <2> SUFFICES ASSUME IInv, pc = "card", ~UsingCurrent
               PROVE  /\ remain = pos.hands /\ player = ToPlay(pos) /\ first = pos.first
                      /\ left = TricksLeft(pos) /\ declarer = taken
                      /\ side = IF Declares(player) THEN 0 ELSE 1
    BY DEF AccountAgrees
  <2>1. /\ declarer = taken /\ Balanced(pos, left) /\ remain = pos.hands
        /\ first = pos.first /\ player = (first + (at.card - 1)) % 4
        /\ side = SideOf(player) /\ Len(pos.trick) = at.card - 1
    BY DEF IInv, AtCard, Agrees, Reading, UsingCurrent
  <2>2. left = TricksLeft(pos)
    BY <2>1, BalancedFacts
  <2> QED
    BY <2>1, <2>2 DEF ToPlay, SideOf
<1> QED
  BY <1>1, InvHolds, PTL

(* A search of analyse_later_board always begins at a bound of the value   *)
(* it is asked for, so that its window holds the value.                    *)
THEOREM HintsAreBounds == Spec => []HintIsABound
<1>1. IInv => HintIsABound
  BY LaterIsRight DEF HintIsABound
<1> QED
  BY <1>1, InvHolds, PTL

(* Every result of AnalysePlayBin is the double dummy value of the         *)
(* position after its card, and those that are announced are those that    *)
(* were written.                                                           *)
THEOREM TracesAreRight == Spec => []TraceIsRight
<1>1. IInv => TraceIsRight
  <2> SUFFICES ASSUME IInv PROVE TraceIsRight
    OBVIOUS
  <2>1. ASSUME pc \in {"card", "done"}
        PROVE  tricks[played] = taken + IF Declares(ToPlay(pos)) THEN Value(pos, trump)
                                        ELSE TricksLeft(pos) - Value(pos, trump)
    BY <2>1 DEF IInv, AtCard, Result
  <2>2. ASSUME pc = "done", solved >= 1
        PROVE  {i \in DOMAIN tricks : tricks[i] >= 0} = 0..(solved - 1)
    <3>1. Given /\ AtCard /\ AtDone
      BY <2>2 DEF IInv
    <3>2. /\ solved = Before(at) + 1 - Len(current) /\ Written = 0..played
          /\ played = IF UsingCurrent THEN 0 ELSE Before(at) - Len(current)
      BY <3>1 DEF AtCard, AtDone
    <3>3. PICK r, n : r = Before(at) /\ n = Len(current)
      OBVIOUS
    <3>4. r \in Int /\ n \in Int /\ (UsingCurrent => r < n)
      <4>1. at.trick \in Int /\ at.card \in Int /\ Len(current) \in Int
        BY <3>1 DEF Given
      <4> QED
        BY <3>3, <4>1 DEF Before, UsingCurrent
    <3>5. r + 1 - n >= 1 /\ solved = r + 1 - n
      BY <2>2, <3>2, <3>3
    <3>6. ~UsingCurrent
      BY ONLY <3>4, <3>5
    <3>7. played = solved - 1
      <4>1. played = r - n
        BY <3>2, <3>3, <3>6
      <4> QED
        BY ONLY <3>4, <3>5, <4>1
    <3> QED
      BY <3>2, <3>7 DEF Written
  <2> QED
    BY <2>1, <2>2 DEF TraceIsRight
<1> QED
  BY <1>1, InvHolds, PTL

=============================================================================
