---------------------------- MODULE PlayAnalyser ----------------------------
(***************************************************************************)
(* AnalysePlayBin (library/src/play_analyser.cpp): the declarer's double   *)
(* dummy result before the first card of a trace and after each of them.   *)
(*                                                                         *)
(* The first result is a solve of the deal.  Every later one is an         *)
(* analyse_later_board that moves one card on the position and searches a  *)
(* window that begins at a hint; the hint is a bound the analyser derives  *)
(* from the result before.  Meanwhile the analyser keeps its own account   *)
(* of the winner of the trick, the hand to play and the declarer's tricks. *)
(*                                                                         *)
(* The cards of the trace are chosen when they are read.  They follow suit *)
(* or are not held at all: the code does not look for revokes.             *)
(***************************************************************************)
EXTENDS DoubleDummy

CONSTANTS
  Deals,      \* the deals: functions from Hands to sets of cards
  Trumps,     \* the trump suits, with one that is no suit
  MaxCurrent, \* bound: cards already played to the first trick
  Numbers     \* bound: the values of play.number

DealtTricks(deal) == Cardinality(deal[0])

(* What board_range_checks and board_value_checks let through, of deals    *)
(* that are not settled without a search.                                  *)
ASSUME DealsAssumption ==
  /\ \A deal \in Deals :
       /\ deal \in [Hands -> SUBSET Cards] /\ DealtTricks(deal) > 1
       /\ \A h \in Hands : Cardinality(deal[h]) = DealtTricks(deal)
       /\ \A h, g \in Hands : h # g => deal[h] \cap deal[g] = {}
  /\ MaxCurrent \in 0..3 /\ Numbers \subseteq Nat

VARIABLES
  trump,      \* dl.trump
  current,    \* dl.currentTrickSuit and currentTrickRank
  number,     \* play.number
  numTricks,  \* numTricks
  pos,        \* lookAheadPos: the position of the search
  remain,     \* dl.remainCards
  first,      \* dl.first
  score,      \* fut.score[0]
  tricks,     \* solvedp->tricks, -1 where nothing was written
  solved,     \* solvedp->number
  at,         \* [trick, card]: the loop counters
  win,        \* [card, player]: best_card, best_suit and best_player
  declarer,   \* running_declarer
  left,       \* running_remainder
  player,     \* running_player
  side,       \* running_side: 1 when the side that led first is to play
  move, hint, hintDir,
  taken,      \* history: the tricks declarer has taken on pos
  played,     \* history: the cards of the trace played on pos
  pc          \* "solve", "card", "later", "done", "fault"

call == <<trump, current, number, numTricks>>
account == <<remain, first, win, declarer, left, player, side, hint, hintDir>>
history == <<taken, played>>
vars == <<call, account, history, pos, score, tricks, solved, at, move, pc>>

NoCard == <<0, 0>>

(* Hand 0 leads, so declarer is one of 1 and 3. *)
Declares(h) == Partners(h, 1)

(* The positions after n legal cards of the first trick. *)
Openings(deal, t, n) ==
  LET after(S) == UNION {{PlayCard(p, c, t) : c \in Legal(p)} : p \in S}
      none     == {[hands |-> deal, first |-> 0, trick |-> <<>>]}
  IN  CASE n = 0 -> none
        [] n = 1 -> after(none)
        [] n = 2 -> after(after(none))
        [] n = 3 -> after(after(after(none)))

Init ==
  /\ trump \in Trumps
  /\ \E deal \in Deals, n \in 0..MaxCurrent :
       /\ pos \in Openings(deal, trump, n)
       /\ numTricks = DealtTricks(deal)
  /\ current = pos.trick
  /\ number \in Numbers
  /\ remain = pos.hands
  /\ first = 0 /\ player = 0 /\ side = 1
  /\ score = 0
  /\ tricks = [i \in 0..(4 * numTricks) |-> (-1)]
  /\ solved = 0
  /\ at = [trick |-> 1, card |-> 1]
  /\ win = [card |-> NoCard, player |-> 0]
  /\ declarer = 0 /\ left = numTricks
  /\ move = NoCard /\ hint = 0 /\ hintDir = 0
  /\ taken = 0 /\ played = 0
  /\ pc = "solve"

-----------------------------------------------------------------------------
(* The bounds of the loops. *)

(* The last card that is looked at is not one of the last trick, where     *)
(* every card is forced.                                                   *)
LastCard ==
  IF (number + 3) \div 4 >= numTricks
  THEN [trick |-> numTricks - 1, card |-> 4]
  ELSE [trick |-> (number + 3) \div 4, card |-> ((number + 3) % 4) + 1]

More ==
  \/ at.trick < LastCard.trick
  \/ at.trick = LastCard.trick /\ at.card <= LastCard.card

(* Mutant of After: a trick has a fifth card. *)
AfterLate(a) == IF a.card > 4 THEN [trick |-> a.trick + 1, card |-> 1]
                ELSE [a EXCEPT !.card = @ + 1]

After(a) == IF a.card = 4 THEN [trick |-> a.trick + 1, card |-> 1]
            ELSE [a EXCEPT !.card = @ + 1]

UsingCurrent == at.trick = 1 /\ at.card <= Len(current)

(* offset + card *)
Place == 4 * (at.trick - 1) - Len(current) + at.card

-----------------------------------------------------------------------------
(* The account of the play. *)

(* Mutant of Takes: a trump of any rank takes the trick. *)
TakesByAnyTrump(c) ==
  \/ at.card = 1
  \/ Suit(c) = trump
  \/ /\ Suit(win.card) # trump
     /\ Suit(c) = Suit(win.card) /\ Rank(c) > Rank(win.card)

(* The card c is the best of the trick so far. *)
Takes(c) ==
  \/ at.card = 1
  \/ /\ Suit(c) = trump
     /\ Suit(win.card) # trump \/ Rank(c) > Rank(win.card)
  \/ /\ Suit(c) # trump /\ Suit(win.card) # trump
     /\ Suit(c) = Suit(win.card) /\ Rank(c) > Rank(win.card)

(* Mutant of TrackInside: running_side is not switched. *)
TrackInsideOneSided ==
  /\ player' = (player + 1) % 4
  /\ hint' = left - score /\ hintDir' = 0
  /\ UNCHANGED <<first, declarer, left, side>>

(* A card in the middle of a trick: the other side takes at least what the *)
(* score left it.                                                          *)
TrackInside ==
  /\ player' = (player + 1) % 4
  /\ side' = 1 - side
  /\ hint' = left - score /\ hintDir' = 0
  /\ UNCHANGED <<first, declarer, left>>

(* Mutant of TrackFull: the hint of the side that stays on lead is its old *)
(* score.                                                                  *)
TrackFullHighHint ==
  /\ declarer' = declarer + (IF Declares(win'.player) THEN 1 ELSE 0)
  /\ left' = left - 1
  /\ IF Partners(first, win'.player)
     THEN hintDir' = 0 /\ hint' = left - score
     ELSE hintDir' = 1 /\ hint' = score - 1
  /\ first' = win'.player /\ player' = win'.player
  /\ side' = IF Declares(win'.player) THEN 0 ELSE 1

(* The fourth card of a trick: a lower bound if the side that led wins it  *)
(* and an upper bound otherwise.                                           *)
TrackFull ==
  /\ declarer' = declarer + (IF Declares(win'.player) THEN 1 ELSE 0)
  /\ left' = left - 1
  /\ IF Partners(first, win'.player)
     THEN hintDir' = 0 /\ hint' = left' - score
     ELSE hintDir' = 1 /\ hint' = score - 1
  /\ first' = win'.player /\ player' = win'.player
  /\ side' = IF Declares(win'.player) THEN 0 ELSE 1

Track(c) ==
  /\ win' = IF Takes(c)
            THEN [card |-> c, player |-> IF at.card = 1 THEN first ELSE player]
            ELSE win
  /\ IF at.card = 4 THEN TrackFull ELSE TrackInside

-----------------------------------------------------------------------------
(* The solve of the deal. *)
Solve ==
  /\ pc = "solve"
  /\ score' = Value(pos, trump)
  /\ tricks' = [tricks EXCEPT ![0] =
                  IF Len(current) % 2 = 0 THEN numTricks - score' ELSE score']
  /\ pc' = "card"
  /\ UNCHANGED <<call, account, history, pos, solved, at, move>>

(* A card of the current trick of the deal is on the position already. *)
ReadCurrent ==
  /\ pc = "card" /\ More /\ UsingCurrent
  /\ Track(current[at.card])
  /\ at' = After(at)
  /\ UNCHANGED <<call, history, remain, pos, score, tricks, solved, move, pc>>

ReadCard ==
  /\ pc = "card" /\ More /\ ~UsingCurrent
  /\ \E c \in Legal(pos) :
       /\ c \in remain[player]
       /\ remain' = [remain EXCEPT ![player] = @ \ {c}]
       /\ Track(c)
       /\ move' = c
  /\ pc' = "later"
  /\ UNCHANGED <<call, history, pos, score, tricks, solved, at>>

(* RETURN_PLAY_FAULT: the card is not held. *)
ReadFault ==
  /\ pc = "card" /\ More /\ ~UsingCurrent
  /\ UNION {pos.hands[h] : h \in Hands} \ remain[player] # {}
  /\ pc' = "fault"
  /\ UNCHANGED <<call, account, history, pos, score, tricks, solved, at, move>>

-----------------------------------------------------------------------------
(* analyse_later_board *)

Moved == PlayCard(pos, move, trump)

(* The tricks of the side that the analyser says is to play. *)
Later ==
  LET value == Value(Moved, trump)
  IN  IF Partners(ToPlay(Moved), (first + Len(Moved.trick)) % 4)
      THEN value ELSE TricksLeft(Moved) - value

OneTrickLeft == TricksLeft(Moved) = 1 /\ Moved.trick = <<>>

(* The last trick is evaluated; a window that begins at its hint does not  *)
(* return a value beyond it (SearchWindows).                               *)
LaterScore ==
  IF OneTrickLeft THEN Later
  ELSE IF hintDir = 0
       THEN IF Later < hint THEN hint ELSE Later
       ELSE IF Later > hint THEN hint ELSE Later

AnalyseLater ==
  /\ pc = "later"
  /\ pos' = Moved
  /\ score' = LaterScore
  /\ tricks' = [tricks EXCEPT ![Place] =
                  declarer + IF side = 1 THEN left - score' ELSE score']
  /\ at' = After(at)
  /\ taken' = IF Moved.trick = <<>> /\ Declares(Moved.first)
              THEN taken + 1 ELSE taken
  /\ played' = played + 1
  /\ pc' = "card"
  /\ UNCHANGED <<call, account, solved, move>>

(* Mutant of Finish: the last trick counts as analysed. *)
FinishUncapped ==
  /\ pc = "card" /\ ~More
  /\ solved' = number + 1 - Len(current)
  /\ pc' = "done"
  /\ UNCHANGED <<call, account, history, pos, score, tricks, at, move>>

Finish ==
  /\ pc = "card" /\ ~More
  /\ solved' = 4 * LastCard.trick + LastCard.card - 3 - Len(current)
  /\ pc' = "done"
  /\ UNCHANGED <<call, account, history, pos, score, tricks, at, move>>

Next == Solve \/ ReadCurrent \/ ReadCard \/ ReadFault \/ AnalyseLater \/ Finish

Spec == Init /\ [][Next]_vars /\ WF_vars(Next)

-----------------------------------------------------------------------------
(* Every variable has its type. *)
TypeOK ==
  /\ trump \in Trumps /\ number \in Numbers /\ Len(current) \in 0..3
  /\ first \in Hands /\ player \in Hands /\ side \in {0, 1}
  /\ score \in 0..numTricks /\ left \in 1..numTricks
  /\ declarer \in 0..numTricks
  /\ DOMAIN tricks = 0..(4 * numTricks)
  /\ \A i \in DOMAIN tricks : tricks[i] \in -1..numTricks
  /\ at \in [trick : 1..numTricks, card : 1..4]
  /\ hint \in -1..numTricks /\ hintDir \in {0, 1}
  /\ pc \in {"solve", "card", "later", "done", "fault"}

(* The analyser and the search agree, whenever a card of the trace is      *)
(* read, on the hands, on who is to play and on the tricks that are left   *)
(* (play_analyser.cpp:134-205 and make_0 to make_3 each keep them).        *)
AccountAgrees ==
  pc = "card" /\ ~UsingCurrent =>
    /\ remain = pos.hands /\ player = ToPlay(pos) /\ first = pos.first
    /\ left = TricksLeft(pos) /\ declarer = taken
    /\ side = IF Declares(player) THEN 0 ELSE 1

(* The hint of a search is a bound of its value on the side hintDir says,  *)
(* as analyse_later_board takes for granted (solver_if.cpp:904-913).       *)
HintIsABound ==
  pc = "later" /\ ~OneTrickLeft =>
    IF hintDir = 0 THEN hint <= Later ELSE Later <= hint

(* The result after any number of cards is what declarer takes of all the  *)
(* tricks if the play is perfect from there on                             *)
(* (doc/dll-description.md:1155), and when the trace ends all of the       *)
(* results that are announced were written, and no other.                  *)
TraceIsRight ==
  /\ pc \in {"card", "done"} =>
       tricks[played] = taken + IF Declares(ToPlay(pos)) THEN Value(pos, trump)
                                ELSE TricksLeft(pos) - Value(pos, trump)
  /\ pc = "done" /\ solved >= 1 =>
       {i \in DOMAIN tricks : tricks[i] >= 0} = 0..(solved - 1)

=============================================================================
