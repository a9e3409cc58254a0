------------------------------ MODULE MCSearch ------------------------------
(***************************************************************************)
(* Instances of Search for TLC, with the properties that need the double   *)
(* dummy value.                                                            *)
(***************************************************************************)
EXTENDS Search, DoubleDummy

Deal(a, b, c, d) == [h \in Hands |-> CASE h = 0 -> a [] h = 1 -> b
                                       [] h = 2 -> c [] h = 3 -> d]
Layouts(a, c, S) ==
  {Deal(a, b, c, S \ b) : b \in {T \in SUBSET S : Cardinality(T) = 3}}

(* A ruff; an ace opposite a king; a suit that nobody else holds; an      *)
(* overruff; an entry in a suit other than the one that is cashed.         *)
Ruffs == Layouts({<<0, 5>>, <<0, 6>>, <<1, 9>>}, {<<0, 13>>, <<0, 7>>, <<1, 5>>},
                 {<<0, 2>>, <<0, 14>>, <<1, 2>>, <<1, 3>>, <<1, 4>>, <<1, 14>>})

Crossing == Layouts({<<0, 14>>, <<0, 2>>, <<1, 14>>}, {<<0, 13>>, <<0, 3>>, <<1, 4>>},
                    {<<0, 12>>, <<0, 4>>, <<1, 5>>, <<1, 13>>, <<2, 14>>, <<2, 13>>})
Long == Layouts({<<0, 14>>, <<0, 13>>, <<0, 12>>}, {<<1, 14>>, <<1, 2>>, <<2, 3>>},
                {<<1, 3>>, <<1, 4>>, <<2, 14>>, <<2, 4>>, <<3, 2>>, <<3, 3>>})
Overruff == Layouts({<<1, 5>>, <<1, 6>>, <<2, 9>>}, {<<0, 9>>, <<2, 2>>, <<2, 3>>},
                    {<<0, 5>>, <<0, 10>>, <<1, 2>>, <<1, 14>>, <<2, 14>>, <<2, 4>>})
Entries == Layouts({<<1, 2>>, <<1, 3>>, <<2, 2>>}, {<<0, 14>>, <<1, 14>>, <<2, 3>>},
                   {<<0, 2>>, <<0, 3>>, <<1, 4>>, <<1, 5>>, <<2, 14>>, <<3, 2>>})
Deals == Entries \cup Ruffs \cup Crossing \cup Long \cup Overruff

(* Four tricks: a finesse; one hand ruffs in a suit its partner is to lead. *)
Finesse == Deal({<<1, 14>>, <<0, 2>>, <<0, 3>>, <<2, 5>>}, {<<1, 13>>, <<0, 13>>, <<2, 14>>, <<2, 4>>},
                {<<1, 3>>, <<0, 14>>, <<0, 12>>, <<0, 4>>}, {<<1, 5>>, <<0, 5>>, <<2, 13>>, <<2, 12>>})
CrossRuff == Deal({<<0, 5>>, <<1, 14>>, <<1, 2>>, <<1, 3>>}, {<<1, 13>>, <<1, 12>>, <<2, 14>>, <<2, 4>>},
                  {<<0, 14>>, <<0, 13>>, <<1, 4>>, <<2, 3>>}, {<<1, 5>>, <<2, 12>>, <<2, 13>>, <<3, 2>>})

Asked(t, n, again) == [turn |-> t, target |-> n, again |-> again]
Turn(t) == <<Asked(t, 2, FALSE), Asked(t, 1, FALSE), Asked(t, 1, TRUE)>>
Board(p, t, list) == [hands |-> p.hands, first |-> p.first, trick |-> p.trick,
                      trump |-> t, asks |-> list, early |-> 20]
Start(d, h) == [hands |-> d, first |-> h, trick |-> <<>>]

(* The position after the lowest legal card was played. *)
Low(p, t) ==
  PlayCard(p, CHOOSE c \in Legal(p) : \A d \in Legal(p) :
                Rank(c) < Rank(d) \/ (Rank(c) = Rank(d) /\ Suit(c) <= Suit(d)), t)
Begun(d, t) ==
  LET p1 == Low(Start(d, 1), t)  p2 == Low(p1, t)  p3 == Low(p2, t)
  IN  {Board(p, t, Turn(0)) : p \in {p1, p2, p3}}

Whole == {Board(Start(d, 0), t, Turn(1) \o Turn(2)) :
            d \in Deals, t \in {0, 4}}
(* A trump suit that nobody holds. *)
Bare == {Board(Start(d, 0), 3, Turn(0) \o Turn(1)) : d \in Crossing}
Four == {[Board(Start(d, 0), t, <<Asked(0, 4, FALSE)>>) EXCEPT !.early = e] :
           d \in {Finesse, CrossRuff}, t \in {0, 4}, e \in {8, 20}}

MCBoards == Whole \cup Bare \cup UNION {Begun(d, 0) : d \in Ruffs \cup Overruff} \cup Four
MCOrders == {[suit |-> -20, rank |-> 1], [suit |-> 20, rank |-> -1]}

-----------------------------------------------------------------------------
(* Double dummy tricks of the side that maximises. *)
MaxTakes(p) == IF NoCards(p) THEN 0
               ELSE IF ToPlay(p) \in max THEN Value(p, board.trump)
               ELSE TricksLeft(p) - Value(p, board.trump)
MaxAfter(p, c) ==
  LET q == PlayCard(p, c, board.trump)
  IN  MaxTakes(q) + IF Len(p.trick) = 3 /\ q.first \in max THEN 1 ELSE 0

(* Every activation, not only the first, says truly whether the target can *)
(* be reached; the first does so for the moves that are not forbidden, and *)
(* its best move reaches it.                                               *)
SearchIsRight ==
  ret # None =>
    IF stack # <<>> THEN ret.value = (won + MaxTakes(pos) >= target)
    ELSE LET good == {m.card : m \in {k \in Moves(pos) : MaxAfter(pos, k.card) >= target}}
         IN  /\ ret.value = (good \ forbidden # {})
             /\ found \subseteq good \ forbidden
             /\ ret.value => found # {}

(* The positions that a key stands for: every way to deal the cards of a   *)
(* suit, highest first, to the hands that hold it. Only their order        *)
(* matters.                                                                *)
Spread(k, s) ==
  LET n == MapThenSumSet(LAMBDA h : k.lengths[h][s], Hands)
      Dealt(f, h) == Cardinality({i \in DOMAIN f : f[i] = h})
      Further(fs, i) ==
        {Append(g[1], g[2]) :
           g \in {e \in fs \X Hands :
                   /\ Dealt(e[1], e[2]) < k.lengths[e[2]][s]
                   /\ i <= Len(k.owners[s]) => e[2] = k.owners[s][i]}}
  IN  FoldLeft(Further, {<<>>}, [i \in 1..n |-> i])
Positions(k) ==
  {[first |-> k.hand, trick |-> <<>>,
    hands |-> [h \in Hands |-> UNION {{<<s, 15 - i>> : i \in {j \in DOMAIN f[s + 1] : f[s + 1][j] = h}} :
                                        s \in AllSuits}]] :
     f \in Spread(k, 0) \X Spread(k, 1) \X Spread(k, 2) \X Spread(k, 3)}
NorthSouth(p) == IF p.first \in {0, 2} THEN Value(p, board.trump)
                 ELSE TricksLeft(p) - Value(p, board.trump)

(* Bound: entries with more tricks to come match too many positions. *)
CheckedTricks == 1

(* What is stored is true of every position that its key matches, not only *)
(* of the one it was found at: the winning ranks cover all that the result *)
(* depends on.                                                             *)
EntriesHold ==
  [][\/ table' = table
     \/ \A k \in DOMAIN table' :
       \/ k.tricks > CheckedTricks
       \/ k \in DOMAIN table /\ table[k] = table'[k]
       \/ \A p \in Positions(k) : NorthSouth(p) \in table'[k].lower..table'[k].upper]_vars

(* A node that an estimate settles has the same answer in every position   *)
(* with the cards that it is said to be won by (win_ranks): the nodes      *)
(* above pass these on to what is stored.                                  *)
Estimated == /\ Entering /\ ret' # None
             /\ pos.trick = <<>> /\ TricksLeft(pos) = CheckedTricks + 1
             /\ won < target /\ target <= won + TricksLeft(pos)
             /\ Deciding = {}
EstimatesHold ==
  [][Estimated =>
       \A p \in Positions(Key(pos, ret'.win)) :
          ret'.value = (won + MaxTakes(p) >= target)]_vars
=============================================================================
