-------------------------- MODULE MCSolverContext --------------------------
(***************************************************************************)
(* Instances of SolverContext for TLC.  d1 and d2 are two similar deals,   *)
(* d3 is like neither, s1 has at most four cards.  Trump suits 0 and 1     *)
(* stand for any two.  The sizes in megabytes are the default and the      *)
(* maximum of the large table, and 0 for "not configured".                 *)
(***************************************************************************)
EXTENDS SolverContext

CONSTANTS d1, d2, d3, s1

MCDeals == {d1, d2, d3, s1}
MCTrumps == {0, 1}
MCShort == {s1}
SimilarPairs == {<<d1, d2>>, <<d2, d1>>, <<d1, s1>>}
MCSizes == {0, 160}
MCDefaultMB == [small |-> [def |-> 20, max |-> 30],
                large |-> [def |-> 95, max |-> 160]]
=============================================================================
