------------------------------ MODULE DealerPar ------------------------------
(***************************************************************************)
(* DealerPar (dealer_par.cpp) and its binary form DealerParBin (par.cpp):  *)
(* the par score and contracts for a given dealer.  One side, the one that *)
(* can make the highest contract, has primacy; for each contract it may    *)
(* consider the code finds the cheapest sacrifice, and the score is the    *)
(* best contract nobody should sacrifice over, or the dearest sacrifice.   *)
(*                                                                         *)
(* A contract is a record: its number, who bids it, delta (the overtricks, *)
(* or minus the undertricks), and the form of its text.  Of the text only  *)
(* what DealerParBin reads back is kept: contract_as_text marks a          *)
(* sacrifice with a star, sacrifice_as_text does not.                      *)
(***************************************************************************)
EXTENDS Auction

BIGNUM == 9999
StrainNumbers == 0..4

(* C's division, which rounds towards zero.                                *)
Quotient(a, b) == IF a >= 0 THEN a \div b ELSE -((-a) \div b)

(* SCORES[no][vul]: the score of a contract that just makes.               *)
SCORES ==
  << <<70, 70>>, <<70, 70>>, <<80, 80>>, <<80, 80>>, <<90, 90>>,
     <<90, 90>>, <<90, 90>>, <<110, 110>>, <<110, 110>>, <<120, 120>>,
     <<110, 110>>, <<110, 110>>, <<140, 140>>, <<140, 140>>, <<400, 600>>,
     <<130, 130>>, <<130, 130>>, <<420, 620>>, <<420, 620>>, <<430, 630>>,
     <<400, 600>>, <<400, 600>>, <<450, 650>>, <<450, 650>>, <<460, 660>>,
     <<920, 1370>>, <<920, 1370>>, <<980, 1430>>, <<980, 1430>>, <<990, 1440>>,
     <<1440, 2140>>, <<1440, 2140>>, <<1510, 2210>>, <<1510, 2210>>, <<1520, 2220>> >>

(* DOUBLED_SCORES[vul][down]                                               *)
DOUBLED_SCORES ==
  << <<100, 300, 500, 800, 1100, 1400, 1700, 2000, 2300, 2600, 2900, 3200, 3500>>,
     <<200, 500, 800, 1100, 1400, 1700, 2000, 2300, 2600, 2900, 3200, 3500, 3800>> >>

Doubled(vul, down) ==
  IF down = 0 THEN 0 ELSE DOUBLED_SCORES[IF vul THEN 2 ELSE 1][down]

(* DOWN_TARGET[no][vul_no]: how far down a sacrifice still pays, the       *)
(* sides being vulnerable: neither, defender, declarer, both.              *)
DOWN_TARGET(no, declarerVul, defenderVul) ==
  LET pick == (IF declarerVul THEN 3 ELSE 1) + (IF defenderVul THEN 1 ELSE 0)
  IN IF no >= 31 THEN <<6, 5, 8, 7>>[pick]
     ELSE IF no >= 28 THEN <<4, 3, 6, 5>>[pick]
     ELSE IF no >= 26 THEN <<4, 3, 5, 4>>[pick]
     ELSE IF no >= 18 \/ no = 15 THEN <<2, 1, 3, 2>>[pick]
     ELSE IF no >= 8 THEN <<1, 0, 1, 0>>[pick]
     ELSE 0

FLOOR_CONTRACT ==
  << 1, 2, 3, 4, 5, 1, 2, 3, 4, 5, 1, 2, 3, 4, 15, 1, 2, 18, 19, 15,
     21, 22, 18, 19, 15, 26, 27, 28, 29, 30, 31, 32, 33, 34, 35 >>

-----------------------------------------------------------------------------
(* survey_scores.  dno is 0 to 4 for clubs to no trump, and a row of       *)
(* list[side] has the highest contract the side makes there; its number is *)
(* below 1 when it makes none.                                             *)
Row(table, vulnerable, side, dno) ==
  LET tricks == SideTricks(table, side, 4 - dno)
      no == 5 * (tricks - 7) + dno + 1
  IN [no |-> no, dno |-> dno, tricks |-> tricks,
      score |-> IF tricks < 7 THEN 0
                ELSE SCORES[no][IF IsVul(vulnerable, side) THEN 2 ELSE 1]]

List(table, vulnerable) ==
  [side \in Sides |-> [dno \in StrainNumbers |-> Row(table, vulnerable, side, dno)]]

Makeable(rows) == {rows[dno] : dno \in {d \in StrainNumbers : rows[d].tricks >= 7}}

HighestMaking(rows) == Max({0} \union {row.no : row \in Makeable(rows)})

(* The lowest of the contracts with the best score.                        *)
DearestMaking(rows) ==
  LET dearest == {row \in Makeable(rows) : \A r \in Makeable(rows) : r.score <= row.score}
  IN IF dearest = {} THEN 0 ELSE Min({row.no : row \in dearest})

(* The hands in the order of their first turn.                             *)
Order(dealer) == [k \in 1..4 |-> (dealer + k - 1) % 4]

(* Mutant of FirstBidder: the dealer's side bids it.                       *)
DealersSide(table, rows, no, dealer) == SideOf(dealer)

(* Who bids a contract both sides make: the first who takes its tricks.    *)
FirstBidder(table, rows, no, dealer) ==
  LET dno == (no - 1) % 5
      takes == {k \in 1..4 : table[4 - dno][Order(dealer)[k]] = rows[dno].tricks}
  IN SideOf(Order(dealer)[Min(takes)])

Primacy(table, list, dealer) ==
  LET s == [side \in Sides |-> HighestMaking(list[side])]
  IN IF s[0] # s[1] THEN (IF s[0] > s[1] THEN 0 ELSE 1)
     ELSE IF s[0] = 0 THEN -1
     ELSE FirstBidder(table, list[0], s[0], dealer)

(* The rows that may be bid, the highest first.                            *)
Candidates(rows) ==
  SetToSortSeq({row \in Range(rows) : row.no >= DearestMaking(rows)},
               LAMBDA a, b : a.no > b.no)

-----------------------------------------------------------------------------
(* best_sacrifice.  In the denomination of the contract itself it matters  *)
(* who can bid the level first: a defender who speaks before any declarer  *)
(* that makes it need not go one higher.                                   *)
Overcalled(table, side, no, dealer, k) ==
  \E j \in 1..(k - 1) :
    /\ SideOf(Order(dealer)[j]) = side
    /\ table[DenomOf(no)][Order(dealer)[j]] = LevelOf(no) + 6

LocalDown(table, side, no, dealer, k) ==
  (LevelOf(no) + 6 - table[DenomOf(no)][Order(dealer)[k]])
    + (IF Overcalled(table, side, no, dealer, k) THEN 1 ELSE 0)

Defenders(side, dealer) == {k \in 1..4 : SideOf(Order(dealer)[k]) # side}

(* sacr[dno][eno]: the undertricks of the sacrifice in denomination eno.   *)
SacrificeDown(table, side, row, dealer, list, eno) ==
  LET sacr == list[1 - side][eno]
      down == IF eno = row.dno
              THEN Min({LocalDown(table, side, row.no, dealer, k) :
                          k \in Defenders(side, dealer)})
              ELSE Quotient(row.no - sacr.no + 4, 5)
  IN IF sacr.no + 5 * down > 35 THEN BIGNUM ELSE down

BestDown(table, side, row, dealer, list) ==
  Min({SacrificeDown(table, side, row, dealer, list, eno) : eno \in StrainNumbers})

-----------------------------------------------------------------------------
(* The contracts as text.  The bidders are the partners with most tricks.  *)
Bidders(table, side, dno) ==
  {hand \in {side, side + 2} : table[4 - dno][hand] = SideTricks(table, side, 4 - dno)}

contract_as_text(table, side, no, dno, delta) ==
  [no |-> no, bidders |-> Bidders(table, side, dno), delta |-> delta,
   form |-> IF delta < 0 THEN "starred" ELSE "plain"]

sacrifice_as_text(no, hand, down) ==
  [no |-> no, bidders |-> {hand}, delta |-> -down, form |-> "bare"]

(* The contract may be bid lower while sacrifices stay too expensive and   *)
(* its bonus is kept.                                                      *)
reduce_contract(no, gap) ==
  IF gap >= -1 THEN no ELSE Larger(no + 5 * (gap + 1), FLOOR_CONTRACT[no])

Bid(table, side, row, gap) ==
  LET no == reduce_contract(row.no, gap)
  IN contract_as_text(table, side, no, row.dno, Quotient(row.no - no, 5))

(* sacrifices_as_text, for one denomination.                               *)
SameDenomination(table, side, row, dealer, down) ==
  LET hits == SetToSortSeq({k \in Defenders(side, dealer) :
                              LocalDown(table, side, row.no, dealer, k) = down}, <)
      no == [m \in DOMAIN hits |->
               row.no + (IF Overcalled(table, side, row.no, dealer, hits[m])
                         THEN 5 ELSE 0)]
      first == IF Len(hits) = 1 \/ no[1] < no[2] THEN 1 ELSE 2
  IN IF Len(hits) = 2 /\ no[1] = no[2]
     THEN contract_as_text(table, 1 - side, no[1], row.dno, -down)
     ELSE sacrifice_as_text(no[first], Order(dealer)[hits[first]], down)

SacrificeIn(table, side, row, dealer, list, down, eno) ==
  IF eno = row.dno THEN SameDenomination(table, side, row, dealer, down)
  ELSE contract_as_text(table, 1 - side, list[1 - side][eno].no + 5 * down, eno, -down)

Sacrificing(table, side, row, dealer, list, down) ==
  LET denoms == SetToSortSeq({eno \in StrainNumbers :
                                SacrificeDown(table, side, row, dealer, list, eno) = down}, <)
  IN [m \in DOMAIN denoms |->
        SacrificeIn(table, side, row, dealer, list, down, denoms[m])]
=============================================================================
