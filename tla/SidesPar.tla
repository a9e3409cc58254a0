------------------------------ MODULE SidesPar ------------------------------
(***************************************************************************)
(* SidesParBin (par.cpp): the par score and the par contracts of a double  *)
(* dummy table when North-South, and when East-West, open the bidding.     *)
(* For each opening side a loop lets the sides take turns at improving the *)
(* standing contract until neither can.  What it ends with is recorded,    *)
(* its denomination is left out, and the loop starts again, to find every  *)
(* denomination with the same score.  Then the contracts are written out,  *)
(* with the seats, the sacrifices' undertricks and how far a contract that *)
(* makes may be lowered, and contracts the other side outbids are dropped. *)
(* The text functions print these results; of those only the levels a text *)
(* lists and the "equal" flag are modelled.                                *)
(***************************************************************************)
EXTENDS Auction

VARIABLES table,      \* tablep->res_table
          vulnerable,
          pc,         \* "improving", "announcing" or "returned"
          opener,     \* i: the side that opens
          current,    \* current_side: 0 when the opener may improve
          once,       \* both_sides_once_flag
          par,        \* par_denom, par_tricks, par_score, par_sacut of i
          found,      \* best_par of each side, as a sequence
          best,       \* best_par_score and best_par_sacut of each side
          sidesRes    \* the results

parVars == <<pc, opener, current, once, par, found, best, sidesRes>>

NoPar == [denom |-> -1, tricks |-> 6, score |-> 0, sacut |-> 0]

rawscore(denom, tricks, vul) ==
  LET level == tricks - 6
      points == IF denom = 0 THEN 10 + 30 * level
                ELSE IF denom \in {1, 2} THEN 30 * level ELSE 20 * level
      game == level >= (IF denom = 0 THEN 3 ELSE IF denom \in {1, 2} THEN 4 ELSE 5)
      slam == IF level = 6 THEN (IF vul THEN 750 ELSE 500)
              ELSE IF level = 7 THEN (IF vul THEN 1500 ELSE 1000) ELSE 0
  IN IF denom = -1
     THEN IF vul THEN -300 * tricks + 100
          ELSE IF tricks <= 3 THEN -200 * tricks + 100 ELSE -300 * tricks + 400
     ELSE points + (IF game THEN (IF vul THEN 500 ELSE 300) ELSE 50) + slam

-----------------------------------------------------------------------------
(* One turn of the loop.  The side on turn is k; "prev" is the standing    *)
(* contract when the turn began and p the one reached so far in it.        *)
Higher(p, denom, tricks) ==
  tricks > p.tricks \/ (tricks = p.tricks /\ denom < p.denom)

(* The undertricks of outbidding prev: one level more unless the           *)
(* denomination is higher.                                                 *)
Under(prev, denom, tricks) ==
  (prev.tricks - tricks) + (IF denom >= prev.denom THEN 1 ELSE 0)

(* Mutant of CanSacrifice: contracts above 7NT.                            *)
AboveSeven(prev, denom, tricks) == Under(prev, denom, tricks) > 0

CanSacrifice(prev, denom, tricks) ==
  /\ denom >= prev.denom => prev.tricks # 13
  /\ Under(prev, denom, tricks) > 0

(* The denominations not yet left out, the most promising score first.     *)
Promise(prev, denom, tricks, vul) ==
  IF Higher(prev, denom, tricks) THEN rawscore(denom, tricks, vul)
  ELSE rawscore(-1, prev.tricks - tricks, vul)

Promises(prev, k) ==
  [denom \in Denoms |->
     Promise(prev, denom, SideTricks(table, k, denom), IsVul(vulnerable, k))]

ParSuits(left, score) ==
  SortSeq(SelectSeq(<<0, 1, 2, 3, 4>>, LAMBDA denom : denom \in left),
          LAMBDA a, b : score[a] > score[b] \/ (score[a] = score[b] /\ a < b))

(* The contract the turn has reached, with one more denomination tried.    *)
Attempt(prev, p, denom, tricks, vul) ==
  LET makes == Higher(p, denom, tricks)
      ut == Under(prev, denom, tricks)
      own == IF makes THEN rawscore(denom, tricks, vul) ELSE rawscore(-1, ut, vul)
      score == IF current = 1 THEN -own ELSE own
      gains == IF current = 0 THEN score > p.score ELSE score < p.score
  IN IF ~ (makes \/ CanSacrifice(prev, denom, tricks)) \/ ~ gains THEN p
     ELSE [denom |-> denom, score |-> score,
           tricks |-> IF makes THEN tricks ELSE tricks + ut,
           sacut |-> IF makes THEN 0 ELSE ut]

(* denom_filter: the denominations of the contracts found so far.          *)
Filtered == {found[opener][m].denom : m \in DOMAIN found[opener]}

Reached(order, k) ==
  LET after[m \in 0..Len(order)] ==
        IF m = 0 THEN {par}
        ELSE {Attempt(par, p, order[m], SideTricks(table, k, order[m]), IsVul(vulnerable, k)) :
                p \in after[m - 1]}
  IN after[Len(order)]

(* The one contract a turn ends with, as a set.                            *)
Turn ==
  LET k == (opener + current) % 2
  IN UNION {Reached(ParSuits(Denoms \ Filtered, score), k) : score \in {Promises(par, k)}}

(* Mutant of Alternate: the flag is never set.                             *)
AlternateOnly ==
  /\ once' = once
  /\ current' = 1 - current

Alternate ==
  /\ once' = TRUE
  /\ current' = 1 - current

(* A side improves the contract, or the first of both sides cannot.        *)
Improve ==
  /\ pc = "improving"
  /\ par' \in Turn
  /\ par' # par \/ ~ once
  /\ Alternate
  /\ UNCHANGED <<table, vulnerable, pc, opener, found, best, sidesRes>>

Settled == pc = "improving" /\ once /\ Turn = {par}

(* The first contract found sets the score of the opening side, and the    *)
(* search ends at the first one with another score.                        *)
First == found[opener] = <<>>

Ends == IF First THEN par.score = 0
        ELSE best[opener].score # par.score \/ Cardinality(Filtered) >= 5

Restart == /\ par' = NoPar
           /\ once' = FALSE
           /\ current' = 0

Record ==
  /\ Settled
  /\ ~ Ends
  /\ best' = IF First THEN [best EXCEPT ![opener] = [score |-> par.score,
                                                     sacut |-> par.sacut]]
             ELSE best
  /\ found' = [found EXCEPT ![opener] = Append(@, [denom |-> par.denom,
                                                   tricks |-> par.tricks])]
  /\ Restart
  /\ UNCHANGED <<table, vulnerable, pc, opener, sidesRes>>

(* par_score and the rest are kept per side: the other side begins afresh. *)
NextOpener ==
  /\ Settled
  /\ Ends
  /\ IF opener = 0 THEN opener' = 1 /\ pc' = pc ELSE opener' = 1 /\ pc' = "announcing"
  /\ Restart
  /\ UNCHANGED <<table, vulnerable, found, best, sidesRes>>

-----------------------------------------------------------------------------
(* The results.  A seat is a hand, 4 for North-South or 5 for East-West.   *)
SideSeats(side, denom) ==
  LET t1 == table[denom][side]
      t2 == table[denom][side + 2]
  IN IF t1 = t2 THEN 4 + side ELSE IF t1 > t2 THEN side ELSE side + 2

(* dr: a sacrifice is bid by the side that loses by it, a contract that    *)
(* makes by the side that gains.                                           *)
Declares(i) ==
  IF best[i].sacut > 0 THEN (IF best[i].score > 0 THEN 1 - i ELSE i)
  ELSE (IF best[i].score < 0 THEN 1 - i ELSE i)

Sacrifice(i, contract) ==
  [denom |-> contract.denom, level |-> contract.tricks - 6, over_tricks |-> 0,
   under_tricks |-> best[i].sacut, seats |-> SideSeats(Declares(i), contract.denom)]

Sacrifices(i) ==
  LET sorted == SortSeq(found[i], LAMBDA a, b : a.denom < b.denom)
  IN [m \in DOMAIN sorted |-> Sacrifice(i, sorted[m])]

(* How far a level may be lowered with its bonus kept, and what            *)
(* CalcOverTricks accepts of it.                                           *)
max_low == [notrump |-> <<0, 1, 0, 1, 2, 0, 0>>,
            major   |-> <<0, 1, 2, 0, 1, 0, 0>>,
            minor   |-> <<0, 1, 2, 3, 0, 0, 0>>]

Kind(denom) == IF denom = 0 THEN "notrump" ELSE IF denom \in {1, 2} THEN "major" ELSE "minor"

OverCap == <<0, 1, 2, 3, 3, 0, 0>>

CalcOverTricks(max_lower, level) ==
  IF max_lower \in 1..OverCap[level] THEN max_lower ELSE 0

VulnerDefSide(side) ==
  IF vulnerable \in {0, 1} THEN vulnerable = 1
  ELSE IF side THEN vulnerable = 3 ELSE vulnerable = 2

(* The loops "while (max_lower > 0)": the first value at which to stop.    *)
LowerUntil(stops) == Max({0} \union stops)

(* The best the opponents can bid: the most tricks of any denomination,    *)
(* and the highest denomination with so many.                              *)
TuMax(side) == Max({SideTricks(table, side, denom) : denom \in Denoms})
DenomMax(side) ==
  Min({denom \in Denoms : SideTricks(table, side, denom) = TuMax(side)})

(* A lowered contract must leave the opponents' sacrifices, in their best  *)
(* denomination and, when they open, in the same one, too expensive.       *)
Gain(i) == IF best[i].score >= 0 THEN best[i].score ELSE -best[i].score

Cost(ut) == -rawscore(-1, ut, VulnerDefSide(best[0].score > 0))

(* Mutant of Deterred: a contract is lowered whatever sacrifices cost.     *)
LoweredFreely(i, tricks, denom, tu_max, denom_max) == tricks - tu_max

Deterred(i, tricks, denom, tu_max, denom_max) ==
  LET above == denom_max < denom
  IN LowerUntil({m \in 1..(tricks - tu_max - (IF above THEN 1 ELSE 0)) :
                   Gain(i) < Cost(tricks - m - tu_max + (IF above THEN 0 ELSE 1))})

Unopposed(i, tricks, max_lower, opp_tricks) ==
  LowerUntil({m \in 1..max_lower :
    best[i].score >= 0 \/ Gain(i) <= Cost(tricks - m - opp_tricks)})

MaxLower(i, contract) ==
  LET opponents == 1 - Declares(i)
  IN Unopposed(i, contract.tricks,
               Deterred(i, contract.tricks, contract.denom, TuMax(opponents),
                        DenomMax(opponents)),
               SideTricks(table, opponents, contract.denom))

Make(i, contract) ==
  LET level == contract.tricks - 6
      over == CalcOverTricks(Smaller(max_low[Kind(contract.denom)][level],
                                     MaxLower(i, contract)), level)
  IN [denom |-> contract.denom, level |-> level - over, over_tricks |-> over,
      under_tricks |-> 0, seats |-> SideSeats(Declares(i), contract.denom)]

Written(i) ==
  IF best[i].sacut > 0 THEN Sacrifices(i)
  ELSE [m \in DOMAIN found[i] |-> Make(i, found[i][m])]

(* Contracts below the highest one the other side declares in its own list *)
(* are dropped, when both sides have such a one.                           *)
Rank(c) == NumberOf(c.level + c.over_tricks, c.denom)

Own(i, written) == {m \in DOMAIN written[i] : written[i][m].seats % 2 = i}

Dominating(i, written) == Max({Rank(written[i][m]) : m \in Own(i, written)})

Undominated(written) ==
  IF best[0].score = 0 \/ \E i \in Sides : Own(i, written) = {} THEN written
  ELSE [i \in Sides |->
          SelectSeq(written[i], LAMBDA c : Rank(c) >= Dominating(1 - i, written))]

(* What is written when neither side can make anything.                    *)
NoContract ==
  [denom |-> 0, level |-> 0, over_tricks |-> 0, under_tricks |-> 0, seats |-> 0]

Announce ==
  /\ pc = "announcing"
  /\ pc' = "returned"
  /\ \E written \in {[i \in Sides |-> IF best[0].score = 0 THEN <<NoContract>>
                                     ELSE Written(i)]} :
       \E contracts \in {Undominated(written)} :
         sidesRes' = [i \in Sides |-> [score |-> best[i].score,
                                      contracts |-> contracts[i]]]
  /\ UNCHANGED <<table, vulnerable, opener, current, once, par, found, best>>

-----------------------------------------------------------------------------
(* What the text functions add: the levels that Par lists for a contract   *)
(* (CalcMultiContracts); that it prints all of a side's contracts as       *)
(* doubled when the first is a sacrifice, and none when nobody can make    *)
(* anything; and the flag of ConvertToSidesTextFormat, which is not        *)
(* written in that case.                                                   *)
Levels(c) ==
  LET top == c.level + c.over_tricks
  IN IF c.over_tricks \in 1..OverCap[top] THEN c.level..top ELSE {top}

Listed(i, c) ==
  [levels |-> Levels(c), denom |-> c.denom, seats |-> c.seats,
   doubled |-> sidesRes[i].contracts[1].under_tricks > 0]

Listing(i) ==
  IF sidesRes[0].score = 0 THEN {}
  ELSE {Listed(i, sidesRes[i].contracts[m]) : m \in DOMAIN sidesRes[i].contracts}

Equal ==
  /\ sidesRes[0].score = -sidesRes[1].score
  /\ sidesRes[0].contracts = sidesRes[1].contracts

Init ==
  /\ pc = "improving"
  /\ opener = 0
  /\ current = 0
  /\ once = FALSE
  /\ par = NoPar
  /\ found = [i \in Sides |-> <<>>]
  /\ best = [i \in Sides |-> [score |-> 0, sacut |-> 0]]
  /\ sidesRes = <<>>

Next == Improve \/ Record \/ NextOpener \/ Announce
=============================================================================
