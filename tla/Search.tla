------------------------------- MODULE Search -------------------------------
(***************************************************************************)
(* The alpha-beta search, ab_search and ab_search_0 to ab_search_3, with   *)
(* make and undo, move generation and the entries of a transposition       *)
(* table: can the side to play reach "target" tricks?                      *)
(*                                                                         *)
(* An activation of ab_search_<k> is a frame of "stack"; k is the number   *)
(* of cards in the trick when it was entered. What the code keeps in       *)
(* arrays by depth (win_ranks, lowest_win, first, moveList, winners) is in *)
(* the frame. "ret" is the result of the activation that was just left.    *)
(*                                                                         *)
(* Several searches run one after the other on one table, as the windows   *)
(* of one solve and the repeats for another leader do.                     *)
(***************************************************************************)
EXTENDS Estimates, MoveSort

CONSTANTS
  Boards,   \* [hands, first, trick, trump, asks, early]: a deal, a sequence of
            \* asks [turn, target, again], and the depth from which on the
            \* table is asked before the estimates are made (20 in the code)
  Orders    \* move weights: [suit, rank] are the factors of a sum

(* What a board is. *)
ASSUME BoardsAssumption ==
  \A b \in Boards :
    /\ b.hands \in [Hands -> SUBSET Cards]
    /\ b.first \in Hands
    /\ b.trick \in Seq(Cards) /\ Len(b.trick) < 4
    /\ b.asks \in Seq([turn : Nat, target : Nat, again : BOOLEAN])

VARIABLES
  board, order,          \* chosen at the start
  asks,                  \* asks still to come
  pos, best, second,     \* look-ahead position; winner and second_best
  won, target, max,      \* tricks_max, the goal, hands of node type MAXNODE
  forbidden, found,      \* forbidden_moves, best_move(ini_depth)
  stack, ret,
  table                  \* from keys to bounds on the tricks of hands 0 and 2

vars == <<board, order, asks, pos, best, second, won, target, max,
          forbidden, found, stack, ret, table>>

None == [none |-> TRUE]
Front2(s) == SubSeq(s, 1, Len(s) - 1)
Frame == stack[Len(stack)]
IsRoot == Len(stack) = 1
Rel(f) == Len(f.trick)
Mover(f) == (f.first + Rel(f)) % 4
Success(f) == Mover(f) \in max
Depth(p) == 4 * (TricksLeft(p) - 1) - Len(p.trick)

Node == [hands |-> pos.hands, first |-> pos.first, trick |-> pos.trick,
         best |-> best, second |-> second, won |-> won, target |-> target,
         max |-> max, trump |-> board.trump]

-----------------------------------------------------------------------------
(* MoveGen0, MoveGen123: of cards that only cards gone in earlier tricks   *)
(* separate, one stands for all: the highest, with the others as sequence. *)
Moves(p) ==
  LET held   == UNION {p.hands[h] : h \in Hands \ {ToPlay(p)}} \cup Range(p.trick)
      Below(c, d) == /\ Suit(d) = Suit(c) /\ Rank(d) < Rank(c)
                    /\ \A e \in held : Suit(e) = Suit(c) => Rank(e) \notin Rank(d)..Rank(c)
      heads  == {c \in Legal(p) : ~ \E d \in Legal(p) : Below(d, c)}
  IN  {[card |-> c, sequence |-> {d \in Legal(p) : Below(c, d)}] : c \in heads}

(* The heuristic weights order the moves; any order must do. *)
InOrder(ms) ==
  MergeSort(SetToSeq(ms),
            [m \in ms |-> order.suit * Suit(m.card) + order.rank * Rank(m.card)])

-----------------------------------------------------------------------------
(* The table. A key stands for every position with the same leader, the    *)
(* same suit lengths and the same owners of the top cards of each suit,    *)
(* down to the lowest card that the result was won by.                     *)

SuitCards(hands, s) == {c \in UNION {hands[h] : h \in Hands} : Suit(c) = s}
Owners(hands, s, k) == [i \in 1..k |-> RelRank(hands, s, i).hand]
Lowest(win, s) == Min({Rank(c) : c \in {d \in win : Suit(d) = s}} \cup {15})
LeastWin(hands, win, s) ==
  Cardinality({c \in SuitCards(hands, s) : Rank(c) >= Lowest(win, s)})

Key(p, win) ==
  [tricks |-> TricksLeft(p) - 1, hand |-> p.first,
   lengths |-> [h \in Hands |-> [s \in AllSuits |-> Length(p, h, s)]],
   owners |-> [s \in AllSuits |-> Owners(p.hands, s, LeastWin(p.hands, win, s))]]

Matches(k, p) ==
  /\ k.tricks = TricksLeft(p) - 1 /\ k.hand = p.first
  /\ \A h \in Hands, s \in AllSuits : k.lengths[h][s] = Length(p, h, s)
  /\ \A s \in AllSuits : k.owners[s] = Owners(p.hands, s, Len(k.owners[s]))

(* Bounds are on the tricks of hands 0 and 2, whoever maximises. *)
Limit == IF 0 \in max THEN target - won - 1
         ELSE TricksLeft(pos) - (target - won)

Deciding == {k \in DOMAIN table : /\ Matches(k, pos)
                                 /\ (table[k].lower > Limit \/ table[k].upper <= Limit)}
Retrieved(k) ==
  [value |-> (table[k].lower > Limit) = (0 \in max),
   win |-> UNION {{Card(s, RelRank(pos.hands, s, i)) : i \in 1..Len(k.owners[s])} :
                    s \in AllSuits}]

(* Mutant of Bounds: the two sides' goals add up to the tricks left. *)
NoOvertrick(p, value) ==
  LET left == TricksLeft(p)
      ns   == IF 0 \in max THEN target - won ELSE left - (target - won)
  IN  IF value = (0 \in max) THEN [lower |-> ns, upper |-> left]
      ELSE [lower |-> 0, upper |-> ns - 1]
Bounds(p, value) ==
  LET left == TricksLeft(p)
      ns   == IF 0 \in max THEN target - won ELSE left - (target - won) + 1
  IN  IF value = (0 \in max) THEN [lower |-> ns, upper |-> left]
      ELSE [lower |-> 0, upper |-> ns - 1]

(* create_or_update: bounds under one key are tightened. *)
Add(p, value, win) ==
  LET k == Key(p, win)
      b == Bounds(p, value)
      old == IF k \in DOMAIN table THEN table[k] ELSE b
  IN  table' = (k :> [lower |-> Two(b.lower, old.lower),
                      upper |-> Min({b.upper, old.upper})]) @@ table

-----------------------------------------------------------------------------
(* Entering and leaving an activation.                                     *)

(* InitWinners looks cards of the current trick up in a table made for the *)
(* cards left, which gives them to hand 0.                                 *)
AtStart(p) == [p.hands EXCEPT ![0] = @ \cup Range(p.trick)]

Call(p) == [first |-> p.first, trick |-> p.trick, entered |-> FALSE,
            moves |-> <<>>, made |-> None, win |-> {}, low |-> [s \in AllSuits |-> 0],
            makeWin |-> {}, saved |-> None]

(* The activation returns; the caller, if any, finds its result in ret. *)
Leave(value, win) ==
  /\ stack' = Front2(stack)
  /\ ret' = [value |-> value, win |-> win]

(* solve_board, solve_same_board: the next search, by "turn" hands further *)
(* on. With "again" the best move of the search before is forbidden.       *)
Ask ==
  /\ stack = <<>> /\ asks # <<>>
  /\ LET a == Head(asks)
         p == [hands |-> board.hands, trick |-> board.trick,
               first |-> (board.first + a.turn) % 4]
         root == Call(p)
     IN  /\ asks' = Tail(asks)
         /\ pos' = p /\ won' = 0 /\ target' = a.target
         /\ best' = [s \in AllSuits |-> RelRank(AtStart(p), s, 1)]
         /\ second' = [s \in AllSuits |-> RelRank(AtStart(p), s, 2)]
         /\ max' = {h \in Hands : Partners(h, ToPlay(p))}
         /\ forbidden' = IF a.again THEN forbidden \cup found ELSE {}
         /\ found' = {}
         /\ stack' = <<root>> /\ ret' = None
  /\ UNCHANGED <<board, order, table>>

(* The node is settled without moves: the target is reached or out of      *)
(* reach, one trick is left, or an estimate decides.                       *)
LeadSettles ==
  LET left == TricksLeft(pos)
      Final(e) == [value |-> won + (IF e.hand \in max THEN 1 ELSE 0) >= target,
                   win |-> e.win]
      Estimate(quick, later) ==
        IF quick.cut THEN {[value |-> (pos.first \in max) = quick.wins, win |-> quick.win]}
        ELSE IF later.cut THEN {[value |-> pos.first \notin max, win |-> later.win]}
        ELSE {}
  IN  IF won >= target THEN {[value |-> TRUE, win |-> {}]}
      ELSE IF won + left < target THEN {[value |-> FALSE, win |-> {}]}
      ELSE IF left = 1 THEN {Final(Evaluate(Node))}
      ELSE UNION {Estimate(q, l) : q \in {QuickTricks(Node)}, l \in {LaterTricks(Node)}}

Settles ==
  IF IsRoot THEN {}
  ELSE CASE Rel(Frame) = 0 -> LeadSettles
         [] Rel(Frame) = 1 ->
              LET q == QuickTricksSecondHand(Node)
              IN  IF q.cut THEN {[value |-> Success(Frame), win |-> q.win]} ELSE {}
         [] OTHER -> {}

Entering == stack # <<>> /\ ret = None /\ ~Frame.entered
AsksTable == ~IsRoot /\ Rel(Frame) = 0
AsksEarly == AsksTable /\ Depth(pos) >= board.early

Answered(r) == Leave(r.value, r.win)
               /\ UNCHANGED <<board, order, asks, pos, best, second, won, target,
                              max, forbidden, found, table>>

(* apply_ab_tt_lookup, before the estimates high in the tree and after     *)
(* them further down; "deciding" are the entries that decide the node.     *)
LookupEarly(deciding) ==
  /\ AsksEarly
  /\ \E k \in deciding : Answered(Retrieved(k))

Settle(deciding, settles) ==
  /\ AsksEarly => deciding = {}
  /\ \E r \in settles : Answered(r)

LookupLate(deciding, settles) ==
  /\ ~AsksEarly /\ settles = {}
  /\ \E k \in deciding : Answered(Retrieved(k))

(* Purge: forbidden moves are dropped from the list of the first node. *)
Generate(deciding, settles) ==
  /\ settles = {} /\ deciding = {}
  /\ LET ms == {m \in Moves(pos) : IsRoot => m.card \notin forbidden}
     IN  stack' = [stack EXCEPT ![Len(stack)].entered = TRUE,
                                ![Len(stack)].moves = InOrder(ms)]
  /\ UNCHANGED <<board, order, asks, pos, best, second, won, target, max,
                 forbidden, found, ret, table>>

(* The head of ab_search to ab_search_3. *)
Enter ==
  /\ Entering
  /\ \E deciding \in {IF AsksTable THEN Deciding ELSE {}}, settles \in {Settles} :
       \/ LookupEarly(deciding)
       \/ Settle(deciding, settles)
       \/ LookupLate(deciding, settles)
       \/ Generate(deciding, settles)
-----------------------------------------------------------------------------
(* The loop over the moves.                                                *)

(* Mutant of LowestWin: the card that failed is not compared. *)
UnlessLow(f) ==
  LET s == Suit(f.made.card)
  IN  IF f.made # None /\ f.low[s] = 0
      THEN [f.low EXCEPT ![s] = Lowest(f.win, s)] ELSE f.low

(* MakeNext: when the last move failed and its card is lower than all that *)
(* the results so far were won by, lower cards of its suit fail as well.   *)
LowestWin(f) ==
  LET s == Suit(f.made.card)
      r == Lowest(f.win, s)
  IN  IF f.made # None /\ f.low[s] = 0 /\ Rank(f.made.card) < r
      THEN [f.low EXCEPT ![s] = r] ELSE f.low
Live(f) == LET low == LowestWin(f)
           IN  {i \in DOMAIN f.moves :
                  Rank(f.moves[i].card) >= low[Suit(f.moves[i].card)]}

InLoop == stack # <<>> /\ Frame.entered

(* Mutant of TrickCards: no card when the last hand did not follow. *)
IfLastFollows(m) ==
  LET trick == Append(pos.trick, m.card)
      w     == Winner(trick, board.trump)
  IN  IF Suit(trick[w]) # Suit(m.card) THEN {} ELSE {trick[w]} \cup m.sequence

(* trickCards of make_3: the card that wins the trick, with its sequence,  *)
(* unless nobody else played its suit.                                     *)
TrickCards(m) ==
  LET trick == Append(pos.trick, m.card)
      w     == Winner(trick, board.trump)
      by    == Len(stack) - (4 - w)
      same  == {i \in 1..4 : Suit(trick[i]) = Suit(trick[w])}
  IN  IF Cardinality(same) < 2 THEN {}
      ELSE {trick[w]} \cup IF w = 4 THEN m.sequence
                           ELSE IF by >= 1 THEN stack[by].made.sequence ELSE {}

(* Mutant of Played: only the suit that was led. *)
SuitLed(c) == IF Len(pos.trick) = 3 THEN {Suit(pos.trick[1])} ELSE {}
(* The suits whose winner and second_best the last card of a trick renews. *)
Played(c) ==
  IF Len(pos.trick) = 3 THEN {Suit(d) : d \in Range(pos.trick) \cup {c}} ELSE {}

(* make_0 to make_3, and the call of the next activation. *)
Make ==
  /\ InLoop /\ ret = None /\ Live(Frame) # {}
  /\ LET f == Frame
         next == Min(Live(f))
         m == f.moves[next]
         p == PlayCard(pos, m.card, board.trump)
         full == Rel(f) = 3
         played == Played(m.card)
         g == [f EXCEPT !.moves = SubSeq(@, next + 1, Len(@)), !.low = LowestWin(f),
                        !.made = m,
                        !.makeWin = IF full THEN TrickCards(m) ELSE {},
                        !.saved = [s \in played |-> <<best[s], second[s]>>]]
     IN  /\ pos' = p
         /\ best' = [s \in AllSuits |-> IF s \in played THEN RelRank(p.hands, s, 1) ELSE best[s]]
         /\ second' = [s \in AllSuits |-> IF s \in played THEN RelRank(p.hands, s, 2) ELSE second[s]]
         /\ won' = IF full /\ p.first \in max THEN won + 1 ELSE won
         /\ stack' = Append(Front2(stack) \o <<g>>, Call(p))
  /\ UNCHANGED <<board, order, asks, target, max, forbidden, found, ret, table>>

(* undo_0 to undo_3. *)
Undone(f) == [hands |-> [pos.hands EXCEPT ![Mover(f)] = @ \cup {f.made.card}],
              first |-> f.first, trick |-> f.trick]
(* Mutant of Undo: second_best is not restored. *)
UndoBest(f) ==
  /\ pos' = Undone(f)
  /\ best' = [s \in AllSuits |-> IF s \in DOMAIN f.saved THEN f.saved[s][1] ELSE best[s]]
  /\ won' = IF Rel(f) = 3 /\ pos.first \in max THEN won - 1 ELSE won
  /\ UNCHANGED second
Undo(f) ==
  /\ pos' = Undone(f)
  /\ best' = [s \in AllSuits |-> IF s \in DOMAIN f.saved THEN f.saved[s][1] ELSE best[s]]
  /\ second' = [s \in AllSuits |-> IF s \in DOMAIN f.saved THEN f.saved[s][2] ELSE second[s]]
  /\ won' = IF Rel(f) = 3 /\ pos.first \in max THEN won - 1 ELSE won

StoreUnlessRoot(p, value, win) ==
  IF AsksTable THEN Add(p, value, win) ELSE UNCHANGED table

(* The move makes the goal of the side to play: the node has its value. *)
CutOff ==
  /\ InLoop /\ ret # None /\ ret.value = Success(Frame)
  /\ LET win == ret.win \cup Frame.makeWin
     IN  Leave(ret.value, win) /\ StoreUnlessRoot(Undone(Frame), ret.value, win)
  /\ Undo(Frame)
  /\ found' = IF IsRoot THEN {Frame.made.card} ELSE found
  /\ UNCHANGED <<board, order, asks, target, max, forbidden>>

Failed ==
  /\ InLoop /\ ret # None /\ ret.value # Success(Frame)
  /\ Undo(Frame)
  /\ stack' = [stack EXCEPT ![Len(stack)].win = @ \cup ret.win \cup Frame.makeWin]
  /\ ret' = None
  /\ UNCHANGED <<board, order, asks, target, max, forbidden, found, table>>

Exhausted ==
  /\ InLoop /\ ret = None /\ Live(Frame) = {}
  /\ Leave(~Success(Frame), Frame.win)
  /\ StoreUnlessRoot(pos, ~Success(Frame), Frame.win)
  /\ UNCHANGED <<board, order, asks, pos, best, second, won, target, max,
                 forbidden, found>>

Stop == stack = <<>> /\ asks = <<>> /\ UNCHANGED vars

Init ==
  /\ board \in Boards /\ order \in Orders
  /\ asks = board.asks
  /\ pos = [hands |-> board.hands, first |-> board.first, trick |-> board.trick]
  /\ best = [s \in AllSuits |-> NoOne] /\ second = [s \in AllSuits |-> NoOne]
  /\ won = 0 /\ target = 0 /\ max = {} /\ forbidden = {} /\ found = {}
  /\ stack = <<>> /\ ret = None /\ table = <<>>

Next == \/ Ask \/ Enter \/ Make \/ CutOff \/ Failed \/ Exhausted \/ Stop

Spec == Init /\ [][Next]_vars
-----------------------------------------------------------------------------
TypeOK ==
  /\ order \in Orders /\ won \in Nat /\ target \in Nat /\ max \subseteq Hands
  /\ best \in [AllSuits -> [hand : -1..3, rank : 0..14]]
  /\ second \in [AllSuits -> [hand : -1..3, rank : 0..14]]
  /\ pos.first \in Hands /\ Len(pos.trick) < 4
  /\ \A i \in 1..Len(stack) :
       /\ stack[i].first \in Hands /\ Len(stack[i].trick) < 4
       /\ stack[i].low \in [AllSuits -> 0..15]
  /\ ret = None \/ (ret.value \in BOOLEAN /\ \A c \in ret.win : Suit(c) \in AllSuits)
  /\ \A k \in DOMAIN table : 0 <= table[k].lower /\ table[k].lower <= table[k].upper

Restored ==
  stack = <<>> /\ ret # None =>
    /\ pos.hands = board.hands /\ pos.trick = board.trick
    /\ won = 0 /\ ToPlay(pos) \in max
    /\ \A s \in AllSuits : /\ best[s] = RelRank(AtStart(pos), s, 1)
                           /\ second[s] = RelRank(AtStart(pos), s, 2)

(* The cards held when the trick of a position began. *)
TrickStart(p) ==
  [h \in Hands |-> p.hands[h] \cup
     {p.trick[i] : i \in {j \in 1..Len(p.trick) : (p.first + j - 1) % 4 = h}}]
DealTrick == Len(pos.trick) >= Len(board.trick) /\ board.trick # <<>>
             /\ SubSeq(pos.trick, 1, Len(board.trick)) = board.trick
WinnersAgree ==
  ret # None \/ stack # <<>> =>
    \A s \in AllSuits :
      \/ /\ best[s] = RelRank(TrickStart(pos), s, 1)
         /\ second[s] = RelRank(TrickStart(pos), s, 2)
      \/ DealTrick /\ \E c \in Range(board.trick) : Suit(c) = s

(* undo is exact: when a search returns, the position, the tricks and the  *)
(* top cards are those it was given, however it was left (make, undo and   *)
(* the loop exits of ab_search to ab_search_3).  On the way, the           *)
(* incrementally kept winner and second_best are those of the cards held   *)
(* when the trick began, wherever an estimate may read them; only in a     *)
(* trick that the deal began is the owner of a card on the table wrong.    *)
PositionKept == Restored /\ WinnersAgree
=============================================================================
