----------------------------- MODULE DoubleDummy -----------------------------
(***************************************************************************)
(* The double dummy value: the reference that the modules built on Play    *)
(* are checked against.                                                    *)
(***************************************************************************)
EXTENDS Play

AnyPosition ==
  [hands : [Hands -> SUBSET Cards], first : Hands, trick : Seq(Cards)]

Best(S) == CHOOSE x \in S : \A y \in S : y <= x

(* What the side to play at p takes in all if it plays the card c and q is *)
(* worth v.  After a card its partnership is to play only if it won the    *)
(* trick.                                                                  *)
Worth(p, q, v) ==
  IF Partners(ToPlay(p), ToPlay(q)) THEN 1 + v ELSE TricksLeft(q) - v

(* The tricks that the side to play takes of those that are left. *)
Value(pos, trump) ==
  LET Of[p \in AnyPosition] ==
        IF NoCards(p) THEN 0
        ELSE Best({LET q == PlayCard(p, c, trump)
                   IN  Worth(p, q, Of[q]) : c \in Legal(p)})
  IN  Of[pos]
=============================================================================
