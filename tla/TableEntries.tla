---------------------------- MODULE TableEntries ----------------------------
(***************************************************************************)
(* Positions and entries, as both transposition tables see them            *)
(* (trans_table/trans_table.hpp).  A position is [trick, hand, dist,       *)
(* order]: the trick and the hand to play, the lengths of all suits in all *)
(* hands, and for each suit the owners of its remaining cards from the     *)
(* highest card down (aggr_ranks_).  The first three select where an entry *)
(* is filed.  The entry is about every position whose owners agree with it *)
(* down to the lowest card that won by rank (least_win).                   *)
(***************************************************************************)
EXTENDS Integers, Sequences

CONSTANTS
  Hands,      \* hands that may be to play
  TtTricks    \* TtTricks: the large table files tricks 0 .. TtTricks - 1

ASSUME EntriesAssumption ==
  Hands \subseteq 0..3 /\ Hands # {} /\ TtTricks \in Nat \ {0}

Suits == 1..4

(* The pattern of the lens[s] highest cards of every suit s, and the       *)
(* positions it covers.                                                    *)
Pattern(order, lens) == [s \in Suits |-> SubSeq(order[s], 1, lens[s])]

Covers(prefix, owners) ==
  /\ Len(prefix) <= Len(owners)
  /\ \A i \in 1..Len(prefix) : prefix[i] = owners[i]

Fits(pattern, order) == \A s \in Suits : Covers(pattern[s], order[s])

SamePlace(p, q) ==
  /\ p.trick = q.trick
  /\ p.hand = q.hand
  /\ p.dist = q.dist
=============================================================================
