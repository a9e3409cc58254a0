---------------------------- MODULE MCBoardPool ----------------------------
(* Small instances of BoardPool for TLC. *)
EXTENDS BoardPool, TLC

CONSTANTS c1, c2

MCClients == {c1, c2}

(* calls per client *)
TwoOne == (c1 :> 2) @@ (c2 :> 1)
OneOne == (c1 :> 1) @@ (c2 :> 1)

(* nullptr, a reversed permutation, and a malformed order of each size *)
MCOrders == {<<>>, <<1, 0>>, <<1, 1>>}
NoOrders == {<<>>}
CapTwo == {2}
CapsOneTwo == {1, 2}
CapAuto == {0}
=============================================================================
