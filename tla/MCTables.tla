------------------------------ MODULE MCTables ------------------------------
(***************************************************************************)
(* Instances of Tables for TLC.  The deal "wide" has one position for each *)
(* of some distributions at two tricks, "deep" has one distribution with   *)
(* several orders of the cards.  Distribution 0 is the one where all cards *)
(* left are clubs, the key of the roots of the small table.                *)
(***************************************************************************)
EXTENDS Tables

Order(a, b) == <<<<a>>, <<b>>, <<>>, <<>>>>

Flat == [trick : {1, 2}, hand : {0}, dist : 0..3, order : {<<<<>>, <<>>, <<>>, <<>>>>}]
WidePositions == {p \in Flat : p.dist <= IF p.trick = 1 THEN 2 ELSE 0}
FullPositions == {p \in Flat : p.trick = 1}
DeepPositions ==
  [trick : {1}, hand : {0}, dist : {1},
   order : {Order(0, 0), Order(1, 0), Order(1, 1)}]

MCDeals == {"wide", "full", "deep"}
MCValue ==
  [d \in MCDeals |->
    CASE d = "wide" -> [p \in WidePositions |-> (p.dist + p.trick) % 2]
      [] d = "full" -> [p \in FullPositions |-> p.dist % 2]
      [] d = "deep" -> [p \in DeepPositions |-> IF p.order[1] = <<0>> THEN 1
                                  ELSE 2 * p.order[2][1]]]
MCHash == [d \in 0..3 |-> 0]
MCLimits == [d \in MCDeals |-> IF d = "deep" THEN {0, 1} ELSE {0}]
MCHands == {0}
MCLarge == [def |-> 1, max |-> 2]
MCSmall == [max |-> 14]
MCResizes ==
  [large |-> {[def |-> 1, max |-> 1], [def |-> 2, max |-> 2]},
   small |-> {[max |-> 16]}]
MCAllocations == {{}, {"page", "win", "node", "len"}}
====
