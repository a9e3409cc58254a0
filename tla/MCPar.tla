-------------------------------- MODULE MCPar --------------------------------
(***************************************************************************)
(* Instances of Par for TLC: tables with a few rows for some of the        *)
(* denominations, and nothing to be made in the others.                    *)
(***************************************************************************)
EXTENDS Par

Nothing == <<6, 6, 6, 6>>
ByHand(rows) == [hand \in Hands |-> rows[hand + 1]]
NoTrumpRows == {Nothing, <<9, 4, 9, 4>>, <<7, 7, 6, 7>>}
SpadeRows == {Nothing, <<4, 10, 4, 9>>, <<8, 7, 8, 6>>, <<13, 0, 13, 0>>,
              <<8, 5, 8, 5>>}
DiamondRows == {<<6, 7, 6, 7>>, <<9, 8, 6, 8>>, <<3, 10, 3, 10>>}
ClubRows == {<<6, 5, 6, 6>>, <<12, 1, 12, 1>>, <<4, 9, 4, 9>>, <<8, 6, 7, 6>>}

MCTables ==
  {[denom \in Denoms |-> ByHand(<<n, s, Nothing, d, c>>[denom + 1])] :
     n \in NoTrumpRows, s \in SpadeRows, d \in DiamondRows, c \in ClubRows}
=============================================================================
