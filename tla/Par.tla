--------------------------------- MODULE Par ---------------------------------
(***************************************************************************)
(* The par functions called on one double dummy table: SidesParBin, then   *)
(* DealerParBin for one dealer after another.  Both are pure computations  *)
(* on the same table, by different authors' algorithms; Auction says what  *)
(* both should compute.                                                    *)
(***************************************************************************)
EXTENDS SidesPar, DealerPar

CONSTANTS Tables        \* the tables the functions are called with

ASSUME TablesAssumption ==
  \A t \in Tables : t \in [Denoms -> [Hands -> 0..13]]

VARIABLE dealerRes      \* the results of DealerParBin, from North's on

vars == <<table, vulnerable, pc, opener, current, once, par, found, best,
          sidesRes, dealerRes>>

-----------------------------------------------------------------------------
(* The candidates, the undertricks of their cheapest sacrifice and how     *)
(* many of them a sacrifice may cost: the sacrifice is worth it when the   *)
(* undertricks do not exceed the target.                                   *)
Target(row, side) ==
  DOWN_TARGET(row.no, IsVul(vulnerable, side), IsVul(vulnerable, 1 - side))

WorthIt(rows, downs, side) ==
  {n \in DOMAIN rows : downs[n] <= Target(rows[n], side)}

BestDownOf(rows, downs, side) ==
  Max({0} \union {downs[n] : n \in WorthIt(rows, downs, side)})

BestPlus(rows, downs, side) ==
  Max({0} \union {rows[n].score : n \in (DOMAIN rows) \ WorthIt(rows, downs, side)})

(* The primacy side bids the contracts with the best score ...             *)
Bids(rows, downs, side) ==
  LET chosen == SetToSortSeq({n \in (DOMAIN rows) \ WorthIt(rows, downs, side) :
                                rows[n].score = BestPlus(rows, downs, side)}, <)
  IN [m \in DOMAIN chosen |->
        Bid(table, side, rows[chosen[m]],
            Target(rows[chosen[m]], side) - downs[chosen[m]])]

(* ... or collects the penalty for the sacrifices over the highest         *)
(* contract that is worth one.                                             *)
Penalties(rows, downs, side, dealer, list) ==
  LET n == Min(WorthIt(rows, downs, side))
      down == BestDownOf(rows, downs, side)
  IN IF downs[n] = down
     THEN Sacrificing(table, side, rows[n], dealer, list, down) ELSE <<>>

Result(rows, downs, side, dealer, list) ==
  LET sac == Doubled(IsVul(vulnerable, 1 - side), BestDownOf(rows, downs, side))
      plus == BestPlus(rows, downs, side)
      bids == WorthIt(rows, downs, side) = {} \/ plus > sac
      score == IF bids THEN plus ELSE sac
  IN [score |-> IF side = 0 THEN score ELSE -score,
      contracts |-> IF bids THEN Bids(rows, downs, side)
                    ELSE Penalties(rows, downs, side, dealer, list)]

(* DealerParBin sets the score of a deal that is passed out, DealerPar     *)
(* leaves it as it was.                                                    *)
PassedOut == [score |-> 0, contracts |-> <<>>]

-----------------------------------------------------------------------------
(* DealerParBin reads the text back.  It takes all contracts for           *)
(* sacrifices if the first has a star, and finds the undertricks at the    *)
(* place where a text with a star has them; in one without, the end of the *)
(* string is there, and '\0' - '0' is -48.                                 *)
Terminator == -48

Seats(c) == IF Cardinality(c.bidders) = 2 THEN 4 + SideOf(Min(c.bidders))
            ELSE Min(c.bidders)

ReadBack(c, first) ==
  [denom |-> DenomOf(c.no), level |-> LevelOf(c.no), seats |-> Seats(c),
   under_tricks |-> IF first.form # "starred" THEN 0
                    ELSE IF c.form = "starred" THEN -c.delta ELSE Terminator,
   over_tricks |-> IF first.form # "starred" /\ c.delta > 0 THEN c.delta ELSE 0]

Binary(text) ==
  LET sorted == SortSeq(text, LAMBDA a, b : DenomOf(a.no) < DenomOf(b.no))
  IN [m \in DOMAIN text |-> ReadBack(sorted[m], text[1])]

Answer(result) == [score |-> result.score, text |-> result.contracts,
                   binary |-> Binary(result.contracts)]

DealerParBin(dealer) ==
  /\ pc = "returned"
  /\ dealer = Len(dealerRes)
  /\ \E list \in {List(table, vulnerable)} :
       \E side \in {Primacy(table, list, dealer)} :
         IF side = -1
         THEN dealerRes' = Append(dealerRes, Answer(PassedOut))
         ELSE \E rows \in {Candidates(list[side])} :
                \E downs \in {[n \in DOMAIN rows |->
                                 BestDown(table, side, rows[n], dealer, list)]} :
                  dealerRes' =
                    Append(dealerRes, Answer(Result(rows, downs, side, dealer, list)))
  /\ UNCHANGED <<table, vulnerable, pc, opener, current, once, par, found, best, sidesRes>>

ParInit ==
  /\ Init
  /\ table \in Tables
  /\ vulnerable \in Vulnerabilities
  /\ dealerRes = <<>>

Computing == Next /\ UNCHANGED dealerRes

ParNext == Computing \/ \E dealer \in Hands : DealerParBin(dealer)

(* The computations run to their end on the caller's thread.               *)
ParSpec == ParInit /\ [][ParNext]_vars /\ WF_vars(Computing)

-----------------------------------------------------------------------------
(* The types of the loop and of the results: levels and undertricks of     *)
(* every contract are such as the laws allow.                              *)
ResultsTyped ==
  \A i \in DOMAIN sidesRes : \A m \in DOMAIN sidesRes[i].contracts :
    LET c == sidesRes[i].contracts[m]
    IN /\ c.level + c.over_tricks \in 0..7
       /\ c.under_tricks \in 0..13
       /\ c.seats \in 0..5

TypeOK ==
  /\ table \in Tables /\ vulnerable \in Vulnerabilities
  /\ pc \in {"improving", "announcing", "returned"}
  /\ opener \in Sides /\ current \in 0..1 /\ once \in BOOLEAN
  /\ par.denom \in (-1)..4 /\ par.tricks \in 6..13 /\ par.sacut \in 0..13
  /\ \A i \in Sides : Len(found[i]) <= 5
  /\ ResultsTyped
  /\ Len(dealerRes) <= 4

(* The score of sidesRes[1] is written in East-West's view, as the example *)
(* of doc/dll-description.md:1100 has it; dll.h:334 says that every score  *)
(* of a ParResultsMaster has North-South's sign.                           *)
AsNorthSouth(i, score) == IF i = 0 THEN score ELSE -score

(* Every level Par lists is a contract that scores par and that nobody     *)
(* gains by outbidding, and it is doubled when it goes down; a sacrifice   *)
(* states its undertricks.                                                 *)
LevelIsPar(game, no, hand, score) ==
  /\ IsPar(Shared(table), vulnerable, game, no, hand, score)
  /\ Stands(Shared(table), vulnerable, no, hand, score)

Down(level, denom, side) == Larger(0, level + 6 - SideTricks(table, side, denom))

ListedIsPar(game, i, listed) ==
  \A level \in listed.levels :
    /\ LevelIsPar(game, NumberOf(level, listed.denom), listed.seats % 2,
                  AsNorthSouth(i, sidesRes[i].score))
    /\ listed.doubled <=> Down(level, listed.denom, listed.seats % 2) > 0

SideIsPar(game, i) ==
  /\ AsNorthSouth(i, sidesRes[i].score) = ParScore(game, i)
  /\ Listing(i) = {} => sidesRes[i].score = 0
  /\ \A listed \in Listing(i) : ListedIsPar(game, i, listed)
  /\ \A m \in DOMAIN sidesRes[i].contracts :
       LET c == sidesRes[i].contracts[m]
       IN sidesRes[i].score # 0 =>
            c.under_tricks = Down(c.level, c.denom, c.seats % 2)

(* The turns the two sides take in SidesParBin (par.cpp:258-424), each     *)
(* looking no further than the next gain, end where the game ends: the     *)
(* score is par whoever opens, every contract listed is par, and "equal"   *)
(* is not set when it matters who opens.  Each side's score is taken with  *)
(* its own sign (AsNorthSouth).  For tables that are not cold the loop can *)
(* miss the best opening.                                                  *)
SidesParIsPar ==
  pc = "returned" /\ dealerRes = <<>> /\ Cold(table) =>
    \E game \in {Game(Shared(table), vulnerable)} :
      /\ \A i \in Sides : SideIsPar(game, i)
      /\ sidesRes[0].score # 0 => (Equal => ParScore(game, 0) = ParScore(game, 1))

(* The parts of a contract that DealerParBin reads at the same places in   *)
(* every text, and those it looks for after a star or a plus sign.         *)
ReadsContract(c, text) ==
  /\ c.denom = DenomOf(text.no)
  /\ c.level = LevelOf(text.no)
  /\ c.seats = Seats(text)

ReadsTricks(c, text) ==
  /\ c.over_tricks = Larger(0, text.delta)
  /\ c.under_tricks = Larger(0, -text.delta)

(* sacrifice_as_text (dealer_par.cpp:639) writes no star, as in 2S-E-1. *)
StarLeftOut(texts) == \E n \in DOMAIN texts : texts[n].form = "bare"

BinaryAgrees(texts, binary) ==
  /\ Len(binary) = Len(texts)
  /\ \A m \in DOMAIN binary : \E n \in DOMAIN texts :
       /\ ReadsContract(binary[m], texts[n])
       /\ StarLeftOut(texts) \/ ReadsTricks(binary[m], texts[n])

DealerIsPar(game, dealer, result) ==
  /\ result.score = ParScore(game, dealer)
  /\ result.score # 0 => result.text # <<>>
  /\ \A m \in DOMAIN result.text : \A hand \in result.text[m].bidders :
       IsPar(table, vulnerable, game, result.text[m].no, hand, result.score)
  /\ BinaryAgrees(result.text, result.binary)

(* The thresholds of DealerPar (dealer_par.cpp:209-293), its tables and    *)
(* its order of the players compute the game's score for every dealer, on  *)
(* every table, also when both sides can make the same contract; and the   *)
(* contracts it lists are par.  In binary they have the same denomination, *)
(* level and seats, and, when no text leaves out its star, the same over-  *)
(* and undertricks; BinaryIsText is about the texts that do.               *)
DealerParIsPar ==
  dealerRes # <<>> =>
    \E game \in {Game(table, vulnerable)} :
      DealerIsPar(game, Len(dealerRes) - 1, dealerRes[Len(dealerRes)])

(* What the documentation says of DealerParBin (par.cpp:1255-1271): its    *)
(* results are those of DealerPar in binary (dll-description.md:1086),     *)
(* where under_tricks is 0 for a contract that is made and 1-13 for a      *)
(* sacrifice (dll.h:323).  Expected to be violated: a sacrifice written    *)
(* without a star is read as made, or, after one with a star, its          *)
(* undertricks are read from the end of the text.                          *)
BinaryIsText ==
  dealerRes # <<>> =>
    LET result == dealerRes[Len(dealerRes)]
    IN \A m \in DOMAIN result.binary : \E n \in DOMAIN result.text :
         /\ ReadsContract(result.binary[m], result.text[n])
         /\ ReadsTricks(result.binary[m], result.text[n])

(* The loop without a bound (par.cpp:270) ends: the sides run out of       *)
(* improvements and the loop runs out of denominations.                    *)
SidesParReturns == <>(pc = "returned")
=============================================================================
