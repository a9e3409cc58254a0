--------------------------- MODULE MCPlayAnalyser ---------------------------
(***************************************************************************)
(* Instances of PlayAnalyser for TLC: deals of three tricks in two suits,  *)
(* of which suit 0 may be trumps.  Hands 0 and 2 are fixed, each other     *)
(* card may be with hand 1 or hand 3.                                      *)
(***************************************************************************)
EXTENDS PlayAnalyser

Deal(a, b, c, d) == [h \in Hands |-> CASE h = 0 -> a [] h = 1 -> b
                                       [] h = 2 -> c [] h = 3 -> d]

(* The ways to give three of the six cards S to hand 1, and the rest to    *)
(* hand 3.                                                                 *)
Layouts(a, c, S) ==
  {Deal(a, b, c, S \ b) : b \in {T \in SUBSET S : Cardinality(T) = 3}}

(* A tenace over or under the honour it is missing. *)
Tenace == Layouts({<<0, 14>>, <<0, 12>>, <<1, 2>>}, {<<0, 2>>, <<1, 14>>, <<1, 4>>},
                  {<<0, 13>>, <<0, 3>>, <<0, 4>>, <<1, 3>>, <<1, 12>>, <<1, 13>>})

(* Both sides may ruff and overruff. *)
Ruffs == Layouts({<<0, 5>>, <<0, 6>>, <<1, 9>>}, {<<0, 13>>, <<0, 7>>, <<1, 5>>},
                 {<<0, 2>>, <<0, 14>>, <<1, 2>>, <<1, 3>>, <<1, 4>>, <<1, 14>>})

MCDeals == Tenace \union Ruffs
FewDeals == {Deal({<<0, 14>>, <<0, 12>>, <<1, 2>>}, {<<0, 13>>, <<0, 3>>, <<1, 3>>},
                  {<<0, 2>>, <<1, 14>>, <<1, 4>>}, {<<0, 4>>, <<1, 13>>, <<1, 12>>})}

MCTrumps == {0, 2}
MCNumbers == {0, 1, 4, 5, 8, 12}
=============================================================================
