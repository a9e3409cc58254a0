--------------------------- MODULE SearchWindows ---------------------------
(***************************************************************************)
(* The second half of solve_board_internal (library/src/solver_if.cpp),    *)
(* with solve_same_board and analyse_later_board: how the answer of a call *)
(* is put together from null-window searches.                              *)
(*                                                                         *)
(* ab_search(guess) only says whether the side to play can take guess      *)
(* tricks, and leaves in best_move(ini_depth) the first move of its list   *)
(* that does.  value[m] stands for what it computes: the tricks the side   *)
(* takes after move m.  The list is generated anew by every search; its    *)
(* order is that of the position (base) when best_move was reset, and may  *)
(* be any order when a hint from an earlier search is left in it.          *)
(* An order gives every move its place in the list.                        *)
(***************************************************************************)
EXTENDS Integers, Sequences, FiniteSets

CONSTANTS
  Moves,      \* the moves a root may have, one of each group of equals
  Values,     \* bound: the values a move may have
  Targets,    \* bound: the targets of the calls
  Hints,      \* bound: the hints of the repeat solves
  Null        \* no move

ASSUME MovesAssumption ==
  /\ IsFiniteSet(Moves) /\ Moves # {}
  /\ Null \notin Moves

ASSUME ValuesAssumption ==
  /\ Values \subseteq 0..13
  /\ Targets \subseteq 1..13
  /\ Hints \subseteq -1..13

VARIABLES
  value,      \* the tricks each move of the root is worth
  base,       \* the order of the list without a hint
  request,    \* [kind, n]: what is asked, see Requests
  pc,         \* "start", "window", "closed", "others", "stats", "done"
  lower, upper, guess,
  order,      \* the order of the list of the last search
  best,       \* best_move(ini_depth), Null when its rank is 0
  mv,         \* mv: the best move of the last successful search
  forbidden,  \* forbidden_moves()
  answer,     \* futp's suit, rank and score, a sequence of [move, score]
  cards       \* futp->cards

vars == <<value, base, request, pc, lower, upper, guess, order, best, mv,
          forbidden, answer, cards>>

(* The moves of the root. *)
Listed == DOMAIN value
NoMoves == Cardinality(Listed)
Orders == {o \in [Listed -> 1..NoMoves] :
             \A m, n \in Listed : o[m] = o[n] => m = n}

IsMax(x, S) == (\E m \in S : value[m] = x) /\ (\A m \in S : value[m] <= x)

(* What is asked:                                                          *)
(*   single       mode 0 and one move                                      *)
(*   all          solutions 3                                              *)
(*   zero         target 0; n is solutions                                 *)
(*   best         target -1; n is solutions                                *)
(*   target1,     target n with solutions 1 or 2                           *)
(*   target2                                                               *)
(*   same         solve_same_board with hint n                             *)
(*   least, most  analyse_later_board with hint n and hintDir 0 or 1       *)
Requests ==
  [kind : {"single", "all"}, n : {0}] \union
  [kind : {"zero", "best"}, n : {1, 2}] \union
  [kind : {"target1", "target2"}, n : Targets] \union
  [kind : {"same", "most"}, n : Hints \ {-1}] \union
  [kind : {"least"}, n : Hints]

Targeted == request.kind \in {"target1", "target2"}

(* What a caller may ask: mode 0 looks for a single move, and the hints of *)
(* analyse_later_board bound the value from the side they say              *)
(* (PlayAnalyser: HintIsABound); a lower bound may be -1.                  *)
MayAsk(r) ==
  /\ r.kind = "single" => NoMoves = 1
  /\ r.kind = "least" => \E m \in Listed : value[m] >= r.n
  /\ r.kind = "most" => \A m \in Listed : value[m] <= r.n

Init ==
  /\ value \in UNION {[S -> Values] : S \in (SUBSET Moves) \ {{}}}
  /\ base \in Orders
  /\ request \in Requests
  /\ MayAsk(request)
  /\ pc = "start"
  /\ lower = 0 /\ upper = 13 /\ guess = 7
  /\ order = base
  /\ best \in Listed \union {Null}
  /\ mv = Null
  /\ forbidden = {}
  /\ answer = <<>> /\ cards = 0

-----------------------------------------------------------------------------
(* Searches and lists *)

(* The search with guess g over the moves not in ban, listed in order o,   *)
(* succeeds with m, or fails.                                              *)
Succeeds(g, ban, o, m) ==
  /\ m \notin ban
  /\ value[m] >= g
  /\ \A n \in Listed \ ban : o[n] < o[m] => value[n] < g

Fails(g, ban) == \A n \in Listed \ ban : value[n] < g

(* The order of the list of a search that finds the hint h. *)
ListOrders(h) == IF h = Null THEN {base} ELSE Orders

(* The moves of S as make_next_simple enumerates them from a rewound list. *)
Listings(S) ==
  {s \in [1..Cardinality(S) -> S] :
     \A i, j \in DOMAIN s : i < j => order[s[i]] < order[s[j]]}

Scored(s, score) == [i \in DOMAIN s |-> [move |-> s[i], score |-> score]]

Bookkeeping == <<value, base, request>>

(* The answer is every move of the list, with one score. *)
AnswerAllMoves(score) ==
  \E s \in Listings(Listed) : answer' = Scored(s, score)

-----------------------------------------------------------------------------
(* The calls that need no search. *)

Single ==
  /\ pc = "start" /\ request.kind = "single"
  /\ AnswerAllMoves(-2)
  /\ cards' = 1
  /\ pc' = "done"
  /\ UNCHANGED <<Bookkeeping, lower, upper, guess, order, best, mv, forbidden>>

TargetZero ==
  /\ pc = "start" /\ request.kind = "zero"
  /\ AnswerAllMoves(0)
  /\ cards' = IF request.n = 1 THEN 1 ELSE NoMoves
  /\ pc' = "done"
  /\ UNCHANGED <<Bookkeeping, lower, upper, guess, order, best, mv, forbidden>>

-----------------------------------------------------------------------------
(* Windows: the tricks of the side to play are within lower..upper. *)

(* solve_board_internal begins at 7, or at 6 for East and West;            *)
(* solve_same_board and analyse_later_board begin at their hint.           *)
OpenWindow ==
  /\ pc = "start"
  /\ \/ /\ request.kind \in {"all", "best"}
        /\ guess' \in {6, 7}
        /\ UNCHANGED <<lower, upper>>
     \/ /\ request.kind = "same"
        /\ guess' = request.n
        /\ UNCHANGED <<lower, upper>>
     \/ /\ request.kind = "least"
        /\ guess' = request.n
        /\ lower' = request.n
        /\ UNCHANGED upper
     \/ /\ request.kind = "most"
        /\ guess' = request.n
        /\ upper' = request.n
        /\ UNCHANGED lower
  /\ pc' = "window"
  /\ UNCHANGED <<Bookkeeping, order, best, mv, forbidden, answer, cards>>

(* Mutant of Hint: best_move is not reset before the searches of a window. *)
HintKept == best

(* reset_best_moves_lite comes before every search of a window but those   *)
(* of solve_same_board.                                                    *)
Hint == IF request.kind = "same" THEN best ELSE Null

(* Mutant of Narrow: a success proves one trick less than its guess. *)
NarrowSlowly(success) ==
  IF success
  THEN lower' = guess - 1 /\ guess' = guess + 1 /\ UNCHANGED upper
  ELSE upper' = guess - 1 /\ guess' = guess - 1 /\ UNCHANGED lower

(* Mutant of Narrow: a success excludes its guess (++guess for guess++). *)
NarrowPast(success) ==
  IF success
  THEN lower' = guess + 1 /\ guess' = guess + 1 /\ UNCHANGED upper
  ELSE upper' = guess - 1 /\ guess' = guess - 1 /\ UNCHANGED lower

(* Mutant of Narrow: a failure excludes nothing. *)
NarrowNever(success) ==
  IF success
  THEN lower' = guess /\ guess' = guess + 1 /\ UNCHANGED upper
  ELSE upper' = guess /\ guess' = guess - 1 /\ UNCHANGED lower

Narrow(success) ==
  IF success
  THEN lower' = guess /\ guess' = guess + 1 /\ UNCHANGED upper
  ELSE upper' = guess - 1 /\ guess' = guess - 1 /\ UNCHANGED lower

SearchWindow ==
  /\ pc = "window"
  /\ order' \in ListOrders(Hint)
  /\ \/ \E m \in Listed :
          /\ Succeeds(guess, forbidden, order', m)
          /\ best' = m /\ mv' = m
          /\ Narrow(TRUE)
     \/ /\ Fails(guess, forbidden)
        /\ best' = Hint /\ UNCHANGED mv
        /\ Narrow(FALSE)
  /\ pc' = IF lower' < upper' THEN "window" ELSE "closed"
  /\ UNCHANGED <<Bookkeeping, forbidden, answer, cards>>

(* The repeat solves return the bound; analyse_later_board sets no cards.  *)
CloseRepeat ==
  /\ pc = "closed" /\ request.kind \in {"same", "least", "most"}
  /\ answer' = <<[move |-> Null, score |-> lower]>>
  /\ cards' = IF request.kind = "same" THEN 1 ELSE cards
  /\ pc' = "done"
  /\ UNCHANGED <<Bookkeeping, lower, upper, guess, order, best, mv, forbidden>>

(* target -1: no trick for any move, or the best move. *)
CloseBestZero ==
  /\ pc = "closed" /\ request.kind = "best" /\ lower = 0
  /\ AnswerAllMoves(0)
  /\ cards' = IF request.n = 1 THEN 1 ELSE NoMoves
  /\ best' = mv
  /\ pc' = "stats"
  /\ UNCHANGED <<Bookkeeping, lower, upper, guess, order, mv, forbidden>>

CloseBest ==
  /\ pc = "closed" /\ request.kind = "best" /\ lower > 0
  /\ answer' = <<[move |-> mv, score |-> lower]>>
  /\ cards' = 1
  /\ best' = mv
  /\ pc' = IF request.n = 2 THEN "others" ELSE "stats"
  /\ UNCHANGED <<Bookkeeping, lower, upper, guess, order, mv, forbidden>>

(* Mutant of CloseAll: the best move is not forbidden in the next window. *)
CloseAllUnforbidden ==
  /\ pc = "closed" /\ request.kind = "all" /\ lower > 0
  /\ answer' = Append(answer, [move |-> mv, score |-> lower])
  /\ cards' = NoMoves
  /\ best' = mv
  /\ guess' = lower /\ lower' = 0
  /\ pc' = IF Len(answer') = NoMoves THEN "stats" ELSE "window"
  /\ UNCHANGED <<Bookkeeping, upper, order, mv, forbidden>>

(* solutions 3: the best move that is left; the next window begins at its  *)
(* score, which is also its upper bound.                                   *)
CloseAll ==
  /\ pc = "closed" /\ request.kind = "all" /\ lower > 0
  /\ answer' = Append(answer, [move |-> mv, score |-> lower])
  /\ cards' = NoMoves
  /\ best' = mv
  /\ forbidden' = forbidden \union {mv}
  /\ guess' = lower /\ lower' = 0
  /\ pc' = IF Len(answer') = NoMoves THEN "stats" ELSE "window"
  /\ UNCHANGED <<Bookkeeping, upper, order, mv>>

(* None of the moves left takes a trick. *)
CloseAllZero ==
  /\ pc = "closed" /\ request.kind = "all" /\ lower = 0
  /\ \E s \in Listings(Listed \ forbidden) : answer' = answer \o Scored(s, 0)
  /\ cards' = NoMoves
  /\ pc' = "stats"
  /\ UNCHANGED <<Bookkeeping, lower, upper, guess, order, best, mv, forbidden>>

-----------------------------------------------------------------------------
(* target >= 1: one search. *)

SearchTarget ==
  /\ pc = "start" /\ Targeted
  /\ order' \in ListOrders(best)
  /\ \/ \E m \in Listed :
          /\ Succeeds(request.n, forbidden, order', m)
          /\ best' = m
          /\ answer' = <<[move |-> m, score |-> request.n]>>
          /\ cards' = 1
          /\ pc' = IF request.kind = "target2" THEN "others" ELSE "stats"
     \/ /\ Fails(request.n, forbidden)
        /\ answer' = <<[move |-> Null,
                        score |-> IF request.n > 1 THEN -1 ELSE 0]>>
        /\ cards' = 0
        /\ pc' = "stats"
        /\ UNCHANGED best
  /\ UNCHANGED <<Bookkeeping, lower, upper, guess, mv, forbidden>>

-----------------------------------------------------------------------------
(* solutions 2: other moves with the score of the first. *)

(* The moves up to and including best_move in the list of the last search. *)
Passed == {m \in Listed \ forbidden : order[m] <= order[best]}

(* Mutant of SearchOthers: the search asks for one trick more. *)
SearchBetterOthers ==
  /\ pc = "others" /\ Len(answer) < NoMoves
  /\ forbidden' = forbidden \union Passed
  /\ order' \in ListOrders(best)
  /\ \/ \E m \in Listed :
          /\ Succeeds(answer[1].score + 1, forbidden', order', m)
          /\ best' = m
          /\ answer' = Append(answer, [move |-> m, score |-> answer[1].score])
          /\ cards' = Len(answer')
          /\ UNCHANGED pc
     \/ /\ Fails(answer[1].score + 1, forbidden')
        /\ pc' = "stats"
        /\ UNCHANGED <<best, answer, cards>>
  /\ UNCHANGED <<Bookkeeping, lower, upper, guess, mv>>

SearchOthers ==
  /\ pc = "others" /\ Len(answer) < NoMoves
  /\ forbidden' = forbidden \union Passed
  /\ order' \in ListOrders(best)
  /\ \/ \E m \in Listed :
          /\ Succeeds(answer[1].score, forbidden', order', m)
          /\ best' = m
          /\ answer' = Append(answer, [move |-> m, score |-> answer[1].score])
          /\ cards' = Len(answer')
          /\ UNCHANGED pc
     \/ /\ Fails(answer[1].score, forbidden')
        /\ pc' = "stats"
        /\ UNCHANGED <<best, answer, cards>>
  /\ UNCHANGED <<Bookkeeping, lower, upper, guess, mv>>

OthersExhausted ==
  /\ pc = "others" /\ Len(answer) >= NoMoves
  /\ pc' = "stats"
  /\ UNCHANGED <<Bookkeeping, lower, upper, guess, order, best, mv, forbidden,
                 answer, cards>>

-----------------------------------------------------------------------------
(* The end of a call, and the next one. *)

(* Mutant of Stats: the moves stay forbidden. *)
StatsForbidden ==
  /\ pc = "stats"
  /\ pc' = "done"
  /\ UNCHANGED <<Bookkeeping, lower, upper, guess, order, best, mv, forbidden,
                 answer, cards>>

Stats ==
  /\ pc = "stats"
  /\ forbidden' = {}
  /\ pc' = "done"
  /\ UNCHANGED <<Bookkeeping, lower, upper, guess, order, best, mv, answer, cards>>

(* solve_same_board on the context of a solve or of another repeat: it     *)
(* finds the best move and the forbidden moves of the call before it.      *)
Repeat ==
  /\ pc = "done" /\ request.kind \notin {"least", "most"}
  /\ request' \in [kind : {"same"}, n : Hints \ {-1}]
  /\ pc' = "start"
  /\ lower' = 0 /\ upper' = 13 /\ guess' = 7
  /\ order' = base /\ mv' = Null
  /\ answer' = <<>> /\ cards' = 0
  /\ UNCHANGED <<value, base, best, forbidden>>

Step ==
  \/ Single \/ TargetZero
  \/ OpenWindow \/ SearchWindow
  \/ CloseRepeat \/ CloseBestZero \/ CloseBest \/ CloseAll \/ CloseAllZero
  \/ SearchTarget
  \/ SearchOthers \/ OthersExhausted
  \/ Stats

Next == Step \/ Repeat

Spec == Init /\ [][Next]_vars /\ WF_vars(Step)

-----------------------------------------------------------------------------
Entries == [move : Moves \union {Null}, score : -2..13]

(* Every variable has its type. *)
TypeOK ==
  /\ Listed \subseteq Moves /\ value \in [Listed -> 0..13]
  /\ base \in Orders /\ order \in Orders
  /\ request \in Requests
  /\ pc \in {"start", "window", "closed", "others", "stats", "done"}
  /\ lower \in -1..13 /\ upper \in 0..13 /\ guess \in -1..14
  /\ best \in Listed \union {Null} /\ mv \in Listed \union {Null}
  /\ forbidden \subseteq Listed
  /\ answer \in Seq(Entries)
  /\ cards \in 0..NoMoves

(* The cards that are returned: the first futp->cards of the arrays. *)
Returned == {answer[i] : i \in 1..cards}
ReturnedMoves == {e.move : e \in Returned}
NoneTwice ==
  \A i, j \in 1..cards : answer[i].move = answer[j].move => i = j

(* A window never excludes the value it is looking for                     *)
(* (solver_if.cpp:349-376, 461-486, 731-760, 906-945).                     *)
WindowBrackets ==
  pc \in {"window", "closed"} /\ Listed \ forbidden # {} =>
    /\ \A m \in Listed \ forbidden : value[m] <= upper
    /\ \E m \in Listed \ forbidden : value[m] >= lower

(* A closed window gives the value of the position: the hint, the parity   *)
(* of the first guess and the direction do not matter                      *)
(* (solve_same_board, analyse_later_board).                                *)
RepeatScoreIsRight ==
  pc = "done" /\ request.kind \in {"same", "least", "most"} =>
    IsMax(answer[1].score, Listed)

(* solutions 3 returns every card once, with its own score, in descending  *)
(* order of scores (doc/dll-description.md, solutions 3).                  *)
AllReturned ==
  /\ cards = NoMoves /\ Len(answer) = NoMoves
  /\ ReturnedMoves = Listed
  /\ \A e \in Returned : e.score = value[e.move]
  /\ \A i, j \in 1..cards : i < j => answer[i].score >= answer[j].score

(* target -1 returns one best card, or with solutions 2 exactly the best   *)
(* cards, each once, with the best score.                                  *)
BestReturned ==
  /\ \A e \in Returned : e.score = value[e.move] /\ IsMax(e.score, Listed)
  /\ NoneTwice
  /\ IF request.n = 1 THEN cards = 1
     ELSE \A m \in Listed : IsMax(value[m], Listed) => m \in ReturnedMoves

(* A target out of reach with solutions 2: doc/dll-description.md:836 says *)
(* that one card is returned with the score, the code returns none         *)
(* (solver_if.cpp:552).  Nothing is claimed about the cards of this case.  *)
OneCardPromised ==
  request.kind = "target2" /\ \A m \in Listed : value[m] < request.n

(* A reachable target returns one card that reaches it, or with solutions  *)
(* 2 exactly the cards that do, each once, with the target as its score.   *)
(* An unreachable one returns score -1, or 0 when there is no trick at     *)
(* all, and with solutions 1 no card.                                      *)
TargetReturned ==
  IF \E m \in Listed : value[m] >= request.n
  THEN /\ \A e \in Returned :
            e.score = request.n /\ value[e.move] >= request.n
       /\ NoneTwice
       /\ IF request.kind = "target1" THEN cards = 1
          ELSE \A m \in Listed :
                 value[m] >= request.n => m \in ReturnedMoves
  ELSE /\ OneCardPromised \/ cards = 0
       /\ answer[1].score = 0 => IsMax(0, Listed)
       /\ answer[1].score \in {-1, 0}

AllCards == pc = "done" /\ request.kind = "all" => AllReturned
BestCards == pc = "done" /\ request.kind = "best" => BestReturned
TargetCards == pc = "done" /\ Targeted => TargetReturned

(* Every kind of request returns the cards it asks for, with their scores, *)
(* and no others: closing the windows, forbidding what was found, and      *)
(* reordering the moves in between loses none.  The one exception is the   *)
(* number of cards for a target out of reach with solutions 2, where the   *)
(* code and its document disagree (OneCardPromised).                       *)
AnswersAreRight == AllCards /\ BestCards /\ TargetCards

(* Every call returns (solver_if.cpp, the loops over lowerbound and        *)
(* upperbound, mno, and ind).                                              *)
Terminates == []<>(pc = "done")
=============================================================================
