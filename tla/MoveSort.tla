------------------------------ MODULE MoveSort ------------------------------
(***************************************************************************)
(* Moves::MergeSort (library/src/moves/moves.cpp) sorts the list of a node *)
(* by weight, the heaviest move first: by a network of comparisons for     *)
(* each length from 2 to 12, by insertion for any other.                   *)
(***************************************************************************)
EXTENDS Naturals, Sequences, SequencesExt, Folds

(* The networks: positions to compare, from 0, in the order of the code.   *)
Network2 ==
  <<<<0, 1>>>>
Network3 ==
  <<<<0, 1>>, <<0, 2>>, <<1, 2>>>>
Network4 ==
  <<<<0, 1>>, <<2, 3>>, <<0, 2>>, <<1, 3>>, <<1, 2>>>>
Network5 ==
  <<<<0, 1>>, <<2, 3>>, <<0, 2>>, <<1, 3>>, <<1, 2>>, <<0, 4>>, <<2, 4>>,
    <<1, 2>>, <<3, 4>>>>
Network6 ==
  <<<<0, 1>>, <<2, 3>>, <<4, 5>>, <<0, 2>>, <<1, 3>>, <<1, 2>>, <<0, 4>>,
    <<1, 5>>, <<2, 4>>, <<3, 5>>, <<1, 2>>, <<3, 4>>>>
Network7 ==
  <<<<0, 1>>, <<2, 3>>, <<4, 5>>, <<0, 2>>, <<4, 6>>, <<1, 3>>, <<1, 2>>,
    <<5, 6>>, <<0, 4>>, <<1, 5>>, <<2, 6>>, <<2, 4>>, <<3, 5>>, <<1, 2>>,
    <<3, 4>>, <<5, 6>>>>
Network8 ==
  <<<<0, 1>>, <<2, 3>>, <<4, 5>>, <<6, 7>>, <<0, 2>>, <<4, 6>>, <<1, 3>>,
    <<5, 7>>, <<1, 2>>, <<5, 6>>, <<0, 4>>, <<1, 5>>, <<2, 6>>, <<3, 7>>,
    <<2, 4>>, <<3, 5>>, <<1, 2>>, <<3, 4>>, <<5, 6>>>>
Network9 ==
  <<<<0, 1>>, <<3, 4>>, <<6, 7>>, <<1, 2>>, <<4, 5>>, <<7, 8>>, <<0, 1>>,
    <<3, 4>>, <<6, 7>>, <<0, 3>>, <<3, 6>>, <<0, 3>>, <<1, 4>>, <<4, 7>>,
    <<1, 4>>, <<2, 5>>, <<5, 8>>, <<2, 5>>, <<1, 3>>, <<5, 7>>, <<2, 6>>,
    <<4, 6>>, <<2, 4>>, <<2, 3>>, <<5, 6>>>>
Network10 ==
  <<<<1, 8>>, <<0, 4>>, <<5, 9>>, <<2, 6>>, <<3, 7>>, <<0, 3>>, <<6, 9>>,
    <<2, 5>>, <<0, 1>>, <<3, 6>>, <<8, 9>>, <<4, 7>>, <<0, 2>>, <<4, 8>>,
    <<1, 5>>, <<7, 9>>, <<1, 2>>, <<3, 4>>, <<5, 6>>, <<7, 8>>, <<1, 3>>,
    <<6, 8>>, <<2, 4>>, <<5, 7>>, <<2, 3>>, <<6, 7>>, <<3, 5>>, <<4, 6>>,
    <<4, 5>>>>
Network11 ==
  <<<<0, 1>>, <<2, 3>>, <<4, 5>>, <<6, 7>>, <<8, 9>>, <<1, 3>>, <<5, 7>>,
    <<0, 2>>, <<4, 6>>, <<8, 10>>, <<1, 2>>, <<5, 6>>, <<9, 10>>, <<1, 5>>,
    <<6, 10>>, <<5, 9>>, <<2, 6>>, <<1, 5>>, <<6, 10>>, <<0, 4>>, <<3, 7>>,
    <<4, 8>>, <<0, 4>>, <<1, 4>>, <<7, 10>>, <<3, 8>>, <<2, 3>>, <<8, 9>>,
    <<2, 4>>, <<7, 9>>, <<3, 5>>, <<6, 8>>, <<3, 4>>, <<5, 6>>, <<7, 8>>>>
Network12 ==
  <<<<0, 1>>, <<2, 3>>, <<4, 5>>, <<6, 7>>, <<8, 9>>, <<10, 11>>, <<1, 3>>,
    <<5, 7>>, <<9, 11>>, <<0, 2>>, <<4, 6>>, <<8, 10>>, <<1, 2>>, <<5, 6>>,
    <<9, 10>>, <<1, 5>>, <<6, 10>>, <<5, 9>>, <<2, 6>>, <<1, 5>>, <<6, 10>>,
    <<0, 4>>, <<7, 11>>, <<3, 7>>, <<4, 8>>, <<0, 4>>, <<7, 11>>, <<1, 4>>,
    <<7, 10>>, <<3, 8>>, <<2, 3>>, <<8, 9>>, <<2, 4>>, <<7, 9>>, <<3, 5>>,
    <<6, 8>>, <<3, 4>>, <<5, 6>>, <<7, 8>>>>

Networks ==
  <<<<>>, Network2, Network3, Network4, Network5, Network6, Network7, Network8,
    Network9, Network10, Network11, Network12>>

(* CMP_SWAP: the heavier of two moves comes first. *)
CmpSwap(list, pair, weight) ==
  LET i == pair[1] + 1
      j == pair[2] + 1
  IN  IF weight[list[i]] < weight[list[j]]
      THEN [list EXCEPT ![i] = list[j], ![j] = list[i]] ELSE list

(* A move goes before the moves that are lighter than it. *)
Insert(sorted, move, weight) ==
  LET heavier == {i \in DOMAIN sorted : weight[sorted[i]] >= weight[move]}
      n       == Cardinality(heavier)
  IN  SubSeq(sorted, 1, n) \o <<move>> \o SubSeq(sorted, n + 1, Len(sorted))

MergeSort(list, weight) ==
  IF Len(list) \in DOMAIN Networks
  THEN FoldLeft(LAMBDA l, pair : CmpSwap(l, pair, weight), list, Networks[Len(list)])
  ELSE FoldLeft(LAMBDA l, move : Insert(l, move, weight), <<>>, list)

(* Every network sorts: a list of moves of two weights comes out with the  *)
(* heavy ones first, and a network of comparisons that sorts all lists of  *)
(* two weights sorts every list (the zero-one principle).                  *)
ASSUME NetworksSort ==
  \A n \in 1..12 : \A list \in [1..n -> {0, 1}] :
    LET sorted == MergeSort(list, [w \in {0, 1} |-> w])
    IN  \A k \in 1..(n - 1) : sorted[k] >= sorted[k + 1]

(* So does the insertion, on the lists of thirteen cards of a suit, here   *)
(* with the lightest move at any place among moves of three weights.       *)
ASSUME InsertionSorts ==
  \A k \in 1..13 :
    LET list == [i \in 1..13 |-> IF i = k THEN 0 ELSE 1 + ((5 * i) % 3)]
        sorted == MergeSort(list, [w \in 0..3 |-> w])
    IN  \A i \in 1..12 : sorted[i] >= sorted[i + 1]

=============================================================================
