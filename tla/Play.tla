----------------------------- MODULE Play --------------------------------
(***************************************************************************)
(* Positions of the play of a bridge deal, and what a card does to one.    *)
(*                                                                         *)
(* Hands are 0..3, in the order of play; those of one parity are partners. *)
(* A card is a pair <<suit, rank>>.                                        *)
(***************************************************************************)
EXTENDS Integers, Sequences, FiniteSets

Hands == 0..3
Cards == (0..3) \X (2..14)
Suit(c) == c[1]
Rank(c) == c[2]
Partners(h, g) == (h + g) % 2 = 0

(* A position: hands is the cards left, first the hand that leads the      *)
(* current trick and trick the cards played to it.                         *)
ToPlay(p) == (p.first + Len(p.trick)) % 4
Holding(p) == p.hands[ToPlay(p)]
NoCards(p) == \A h \in Hands : p.hands[h] = {}

(* The tricks that are left, the current one included. *)
TricksLeft(p) == Cardinality(p.hands[(p.first + 3) % 4])

(* Moves::MoveGen0 and MoveGen123: follow suit if possible. *)
Legal(p) ==
  LET following == {c \in Holding(p) : Suit(c) = Suit(p.trick[1])}
  IN  IF p.trick = <<>> \/ following = {} THEN Holding(p) ELSE following

(* The place of the winning card of a full trick. *)
Winner(trick, trump) ==
  LET trumps == {i \in 1..4 : Suit(trick[i]) = trump}
      led    == {i \in 1..4 : Suit(trick[i]) = Suit(trick[1])}
      high   == IF trumps # {} THEN trumps ELSE led
  IN  CHOOSE i \in high : \A j \in high : Rank(trick[j]) <= Rank(trick[i])

(* make_0 to make_3: the card leaves its hand, and the winner of a full    *)
(* trick leads the next one.                                               *)
PlayCard(p, c, trump) ==
  LET trick == Append(p.trick, c)
      hands == [p.hands EXCEPT ![ToPlay(p)] = @ \ {c}]
  IN  IF Len(trick) < 4
      THEN [hands |-> hands, first |-> p.first, trick |-> trick]
      ELSE [hands |-> hands,
            first |-> (p.first + Winner(trick, trump) - 1) % 4,
            trick |-> <<>>]
=============================================================================
