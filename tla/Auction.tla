------------------------------- MODULE Auction -------------------------------
(***************************************************************************)
(* What the par functions promise, apart from how they compute it.         *)
(* doc/dll-description.md and the header (dll.h) call "par" the score when *)
(* both sides know all four hands and bid as well as they can.  Here this  *)
(* is a game: the four players call in turn, each bids higher or passes,   *)
(* three passes end it, and the last contract is scored with the number of *)
(* tricks the double dummy table says its declarer takes, doubled when it  *)
(* goes down.  The player who names a contract declares it.  Backward      *)
(* induction over the contracts gives the score of the game and which      *)
(* contracts can stand.                                                    *)
(*                                                                         *)
(* A table gives for each denomination 0 to 4 (no trump, spades, hearts,   *)
(* diamonds, clubs: the order of par.cpp) and each hand 0 to 3 (North,     *)
(* East, South, West) the tricks of that hand as declarer.  Side 0 is      *)
(* North-South.  Contracts are numbered 1 (1C) to 35 (7NT) as in           *)
(* dealer_par.cpp, 0 being a pass.                                         *)
(***************************************************************************)
EXTENDS Integers, Sequences, FiniteSets, SequencesExt, FiniteSetsExt

Hands == 0..3
Sides == 0..1
Denoms == 0..4
Numbers == 1..35
Vulnerabilities == 0..3

Larger(a, b) == IF a >= b THEN a ELSE b
Smaller(a, b) == IF a <= b THEN a ELSE b

SideOf(hand) == hand % 2
LevelOf(no) == ((no - 1) \div 5) + 1
DenomOf(no) == 4 - ((no - 1) % 5)
NumberOf(level, denom) == 5 * (level - 1) + 5 - denom

(* vulnerable 0: none, 1: both, 2: North-South, 3: East-West.              *)
IsVul(vulnerable, side) == vulnerable = 1 \/ vulnerable = 2 + side

(* The most tricks a side takes in a denomination.                         *)
SideTricks(table, side, denom) ==
  Larger(table[denom][side], table[denom][side + 2])

(* Both partners play as well as the better of the two: with such a table  *)
(* it only matters which side opens, not which player.                     *)
Shared(table) ==
  [denom \in Denoms |-> [hand \in Hands |-> SideTricks(table, SideOf(hand), denom)]]

-----------------------------------------------------------------------------
(* The score, by the laws of duplicate bridge.                             *)
TrickPoints(denom, over) ==
  IF denom = 0 THEN 10 + 30 * over
  ELSE IF denom \in {1, 2} THEN 30 * over ELSE 20 * over

GameBonus(points, vul) == IF points < 100 THEN 50 ELSE IF vul THEN 500 ELSE 300

SlamBonus(level, vul) ==
  IF level = 7 THEN (IF vul THEN 1500 ELSE 1000)
  ELSE IF level = 6 THEN (IF vul THEN 750 ELSE 500) ELSE 0

MakingPoints(no, tricks, vul) ==
  TrickPoints(DenomOf(no), tricks - 6)
    + GameBonus(TrickPoints(DenomOf(no), LevelOf(no)), vul)
    + SlamBonus(LevelOf(no), vul)

(* Doubled undertricks: 100, 200, 200 and then 300 each; 200 and then 300  *)
(* each when vulnerable.                                                   *)
Penalty(down, vul) ==
  IF vul THEN 200 + 300 * (down - 1)
  ELSE 100 + 200 * Smaller(down - 1, 2) + 300 * Larger(down - 3, 0)

(* The score of a contract for North-South.                                *)
Payoff(table, vulnerable, no, hand) ==
  LET tricks == table[DenomOf(no)][hand]
      vul == IsVul(vulnerable, SideOf(hand))
      own == IF tricks >= LevelOf(no) + 6
             THEN MakingPoints(no, tricks, vul)
             ELSE -Penalty(LevelOf(no) + 6 - tricks, vul)
  IN IF SideOf(hand) = 0 THEN own ELSE -own

-----------------------------------------------------------------------------
(* The game.  "best" holds for each hand the best score it can reach by    *)
(* bidding above the contracts not yet considered, and Prefers chooses for *)
(* a player between a score and that.                                      *)
Unreachable(hand) == IF SideOf(hand) = 0 THEN -100000 ELSE 100000

Prefers(best, hand, score) ==
  IF SideOf(hand) = 0 THEN Larger(score, best[hand % 4]) ELSE Smaller(score, best[hand % 4])

(* What a contract is worth once named: the next three players may each    *)
(* bid on, and it is scored when all three pass.                           *)
Worth(best, hand, payoff) ==
  Prefers(best, hand + 1, Prefers(best, hand + 2, Prefers(best, hand + 3, payoff)))

Worths(table, vulnerable, best, no) ==
  [hand \in Hands |-> Worth(best, hand, Payoff(table, vulnerable, no, hand))]

Consider(game, worths) ==
  [best |-> [hand \in Hands |-> Prefers(game.best, hand, worths[hand])],
   worth |-> <<worths>> \o game.worth]

Above(table, vulnerable, game, no) ==
  {Consider(game, worths) : worths \in {Worths(table, vulnerable, game.best, no)}}

(* worth[no][hand] is the score the auction ends with after hand names     *)
(* contract no, best[hand] what hand can reach by an opening bid.  (The    *)
(* sets with one element make TLC evaluate each stage once.)               *)
Game(table, vulnerable) ==
  LET from[no \in 1..36] ==
        IF no = 36
        THEN {[best |-> [hand \in Hands |-> Unreachable(hand)], worth |-> <<>>]}
        ELSE UNION {Above(table, vulnerable, game, no) : game \in from[no + 1]}
  IN CHOOSE game \in from[1] : TRUE

(* The score of the whole auction when the given hand deals.               *)
ParScore(game, dealer) ==
  Prefers(game.best, dealer,
    Prefers(game.best, dealer + 1,
      Prefers(game.best, dealer + 2, Prefers(game.best, dealer + 3, 0))))

(* A contract is par when it scores par and nobody gains by bidding on.    *)
IsPar(table, vulnerable, game, no, hand, score) ==
  /\ no \in Numbers
  /\ Payoff(table, vulnerable, no, hand) = score
  /\ game.worth[no][hand] = score

(* No opponent has a contract above this one that is better for it as it   *)
(* stands, even if nobody bids after that.                                 *)
Stands(table, vulnerable, no, hand, score) ==
  \A over \in (no + 1)..35, other \in Hands :
    SideOf(other) # SideOf(hand) =>
      IF SideOf(other) = 0 THEN Payoff(table, vulnerable, over, other) <= score
      ELSE Payoff(table, vulnerable, over, other) >= score

(* The two sides can make at most one contract of a denomination's level   *)
(* between them: 13 tricks or, when the opening lead gains one, 14.        *)
Cold(table) ==
  \A denom \in Denoms :
    SideTricks(table, 0, denom) + SideTricks(table, 1, denom) <= 14
=============================================================================
