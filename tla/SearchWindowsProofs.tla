------------------------ MODULE SearchWindowsProofs ------------------------
(***************************************************************************)
(* For every set of moves, every list order and every value of the moves:  *)
(* the windows of null-window searches never exclude the value they look   *)
(* for, a closed window of solve_same_board or analyse_later_board is that *)
(* value, and solutions 1, 2 and 3 return the cards they ask for.          *)
(*                                                                         *)
(* IInv is the inductive invariant of the windows.  AInv is that of the    *)
(* answers; it has a part for every place of the code and rests on IInv.   *)
(***************************************************************************)
EXTENDS SearchWindows, FiniteSetTheorems, SequenceTheorems,
        TLAPS

RepeatKinds == {"same", "least", "most"}

(* The part of the types the windows need.  lower, upper and guess stay    *)
(* integers even if every move is forbidden.                               *)
Shape ==
  /\ Listed # {} /\ value \in [Listed -> 0..13]
  /\ request \in Requests
  /\ pc \in {"start", "window", "closed", "others", "stats", "done"}
  /\ lower \in Int /\ upper \in Int /\ guess \in Int

(* A call begins with an open window, no forbidden moves and an honest     *)
(* hint.                                                                   *)
Starts ==
  pc = "start" =>
    /\ lower = 0 /\ upper = 13
    /\ forbidden = {}
    /\ MayAsk(request)

(* Forbidden moves are gone when a call returns, and the repeat solves     *)
(* never forbid one.                                                       *)
Unforbidden ==
  pc = "done" \/ request.kind \in RepeatKinds => forbidden = {}

(* A window that is closed has no room left. *)
Closes == pc = "closed" => lower >= upper

(* What a repeat solve returns. *)
Returns ==
  pc = "done" /\ request.kind \in RepeatKinds =>
    /\ answer = <<[move |-> Null, score |-> lower]>>
    /\ \A m \in Listed : value[m] <= lower
    /\ \E m \in Listed : value[m] >= lower

(* No action but those of a repeat solve reaches these places. *)
Places == request.kind \in RepeatKinds => pc \notin {"others", "stats"}

IInv == Shape /\ Starts /\ Unforbidden /\ Places /\ Closes /\ WindowBrackets
          /\ Returns

LEMMA InitHolds == Init => IInv
<1> SUFFICES ASSUME Init PROVE IInv
  OBVIOUS
<1>1. PICK S \in (SUBSET Moves) \ {{}} : value \in [S -> Values]
  BY DEF Init
<1>2. Listed = S /\ value \in [Listed -> 0..13]
  BY <1>1, ValuesAssumption DEF Listed
<1>3. Listed # {}
  BY <1>1, <1>2
<1>4. request \in Requests /\ pc = "start" /\ lower = 0 /\ upper = 13 /\ guess = 7
  BY DEF Init
<1>5. Shape
  BY <1>2, <1>3, <1>4 DEF Shape
<1> QED
  BY <1>5 DEF Init, IInv, Starts, Unforbidden, Places, Closes, WindowBrackets,
              Returns

(* Only Init chooses the position, so a step keeps it. *)
LEMMA SearchKeepsBrackets ==
  ASSUME IInv, SearchWindow
  PROVE  IInv'
<1>1. /\ pc = "window" /\ forbidden' = forbidden /\ request' = request
      /\ value' = value /\ Listed' = Listed /\ pc' \in {"window", "closed"}
      /\ answer' = answer
  BY DEF SearchWindow, Bookkeeping, Listed
<1>2. /\ Listed # {} /\ value \in [Listed -> 0..13] /\ request \in Requests
      /\ lower \in Int /\ upper \in Int /\ guess \in Int
  BY DEF IInv, Shape
<1>3. Listed \ forbidden # {} =>
        /\ \A m \in Listed \ forbidden : value[m] <= upper
        /\ \E m \in Listed \ forbidden : value[m] >= lower
  BY <1>1 DEF IInv, WindowBrackets
<1>4. lower' \in Int /\ upper' \in Int /\ guess' \in Int
  BY <1>2 DEF SearchWindow, Narrow
<1>5. Listed \ forbidden # {} =>
        /\ \A m \in Listed \ forbidden : value[m] <= upper'
        /\ \E m \in Listed \ forbidden : value[m] >= lower'
  <2>1. CASE \E m \in Listed : Succeeds(guess, forbidden, order', m)
                               /\ Narrow(TRUE)
    <3>1. PICK m \in Listed : Succeeds(guess, forbidden, order', m)
                              /\ Narrow(TRUE)
      BY <2>1
    <3>2. lower' = guess /\ upper' = upper
      BY <3>1 DEF Narrow
    <3>3. m \in Listed \ forbidden /\ value[m] >= guess
      BY <3>1 DEF Succeeds
    <3> QED
      BY <3>2, <3>3, <1>3
  <2>2. CASE Fails(guess, forbidden) /\ Narrow(FALSE)
    <3>1. lower' = lower /\ upper' = guess - 1
      BY <2>2 DEF Narrow
    <3>2. \A m \in Listed \ forbidden : value[m] <= guess - 1
      BY <2>2, <1>2 DEF Fails
    <3> QED
      BY <3>1, <3>2, <1>3
  <2> QED
    BY <2>1, <2>2 DEF SearchWindow
<1>6. pc' = "closed" => lower' >= upper'
  BY <1>4 DEF SearchWindow
<1>7. Shape' /\ WindowBrackets' /\ Closes'
  BY <1>1, <1>2, <1>4, <1>5, <1>6 DEF Shape, WindowBrackets, Closes
<1> QED
  BY <1>1, <1>7 DEF IInv, Starts, Unforbidden, Places, Returns

LEMMA BoundsAreIntegers == \A t \in Targets \union Hints : t \in Int
<1>1. \A t \in Targets : t \in 1..13
  BY ValuesAssumption
<1>2. \A t \in Hints : t \in -1..13
  BY ValuesAssumption
<1> QED
  BY <1>1, <1>2

LEMMA OpenKeeps ==
  ASSUME IInv, OpenWindow
  PROVE  IInv'
<1>1. /\ pc = "start" /\ pc' = "window" /\ forbidden' = forbidden
      /\ request' = request /\ value' = value /\ Listed' = Listed
  BY DEF OpenWindow, Bookkeeping, Listed
<1>2. /\ Listed # {} /\ value \in [Listed -> 0..13] /\ request \in Requests
      /\ lower = 0 /\ upper = 13 /\ forbidden = {} /\ MayAsk(request)
  BY <1>1 DEF IInv, Shape, Starts
<1>3. request.n \in Int
  <2>1. CASE request \in [kind : {"single", "all"}, n : {0}]
    BY <2>1
  <2>2. CASE request \in [kind : {"zero", "best"}, n : {1, 2}]
    BY <2>2
  <2>3. CASE request \in [kind : {"target1", "target2"}, n : Targets]
    <3>1. request.n \in Targets
      BY <2>3
    <3> QED
      BY <3>1, BoundsAreIntegers
  <2>4. CASE \/ request \in [kind : {"same", "most"}, n : Hints \ {-1}]
             \/ request \in [kind : {"least"}, n : Hints]
    <3>1. request.n \in Hints
      BY <2>4
    <3> QED
      BY <3>1, BoundsAreIntegers
  <2> QED
    BY <1>2, <2>1, <2>2, <2>3, <2>4 DEF Requests
<1>4. lower' \in Int /\ upper' \in Int /\ guess' \in Int
  BY <1>2, <1>3 DEF OpenWindow
<1>5. /\ \A m \in Listed : value[m] <= upper'
      /\ \E m \in Listed : value[m] >= lower'
  <2>1. CASE request.kind = "least" /\ lower' = request.n /\ upper' = upper
    BY <2>1, <1>2 DEF MayAsk
  <2>2. CASE request.kind = "most" /\ upper' = request.n /\ lower' = lower
    BY <2>2, <1>2 DEF MayAsk
  <2>3. CASE lower' = lower /\ upper' = upper
    BY <2>3, <1>2
  <2> QED
    BY <2>1, <2>2, <2>3 DEF OpenWindow
<1>6. Shape' /\ WindowBrackets'
  BY <1>1, <1>2, <1>4, <1>5 DEF Shape, WindowBrackets
<1> QED
  BY <1>1, <1>2, <1>6 DEF IInv, Starts, Unforbidden, Places, Closes, Returns

LEMMA CloseRepeatKeeps ==
  ASSUME IInv, CloseRepeat
  PROVE  IInv'
<1>1. /\ pc = "closed" /\ pc' = "done" /\ request.kind \in RepeatKinds
      /\ forbidden' = forbidden /\ request' = request
      /\ value' = value /\ Listed' = Listed
      /\ lower' = lower /\ upper' = upper /\ guess' = guess
      /\ answer' = <<[move |-> Null, score |-> lower]>>
  BY DEF CloseRepeat, Bookkeeping, Listed, RepeatKinds
<1>2. forbidden = {} /\ lower >= upper
  BY <1>1 DEF IInv, Unforbidden, Closes
<1>3. /\ Listed # {} /\ value \in [Listed -> 0..13]
      /\ lower \in Int /\ upper \in Int
      /\ \A m \in Listed : value[m] <= upper
      /\ \E m \in Listed : value[m] >= lower
  BY <1>1, <1>2 DEF IInv, Shape, WindowBrackets
<1>4. \A m \in Listed : value[m] <= lower
  BY <1>2, <1>3
<1> QED
  BY <1>1, <1>2, <1>3, <1>4 DEF IInv, Shape, Starts, Unforbidden, Places, Closes,
        WindowBrackets, Returns

LEMMA CloseAllKeeps ==
  ASSUME IInv, CloseAll
  PROVE  IInv'
<1>1. /\ pc = "closed" /\ pc' \in {"window", "stats"} /\ request.kind = "all"
      /\ forbidden' = forbidden \union {mv} /\ request' = request
      /\ value' = value /\ Listed' = Listed
      /\ lower' = 0 /\ upper' = upper /\ guess' = lower
  BY DEF CloseAll, Bookkeeping, Listed
<1>2. Shape'
  BY <1>1 DEF IInv, Shape
<1>3. WindowBrackets'
  BY <1>1 DEF IInv, Shape, WindowBrackets
<1> QED
  BY <1>1, <1>2, <1>3 DEF IInv, Starts, Unforbidden, Places, Closes, Returns,
        RepeatKinds

(* The remaining steps leave the windows.                                  *)
LEMMA OthersKeep ==
  ASSUME IInv,
         \/ Single \/ TargetZero \/ CloseBestZero \/ CloseBest \/ CloseAllZero
         \/ SearchTarget \/ SearchOthers \/ OthersExhausted \/ Stats
  PROVE  IInv'
<1>1. /\ request' = request /\ value' = value /\ Listed' = Listed
      /\ lower' = lower /\ upper' = upper /\ guess' = guess
      /\ pc' \in {"others", "stats", "done"}
  BY DEF Single, TargetZero, CloseBestZero, CloseBest, CloseAllZero,
         SearchTarget, SearchOthers, OthersExhausted, Stats, Bookkeeping, Listed
<1>2. request.kind \notin RepeatKinds
  BY DEF IInv, Places, Single, TargetZero, CloseBestZero, CloseBest,
         CloseAllZero, SearchTarget, SearchOthers, OthersExhausted, Stats,
         Targeted, RepeatKinds
<1>3. pc' = "done" => forbidden' = {}
  BY DEF IInv, Starts, Single, TargetZero, CloseBestZero, CloseBest,
         CloseAllZero, SearchTarget, SearchOthers, OthersExhausted, Stats
<1> QED
  BY <1>1, <1>2, <1>3 DEF IInv, Shape, Starts, Unforbidden, Places, Closes,
        WindowBrackets, Returns

LEMMA RepeatKeeps ==
  ASSUME IInv, Repeat
  PROVE  IInv'
<1>1. /\ pc = "done" /\ pc' = "start" /\ forbidden' = forbidden
      /\ request' \in [kind : {"same"}, n : Hints \ {-1}]
      /\ value' = value /\ Listed' = Listed
      /\ lower' = 0 /\ upper' = 13 /\ guess' = 7
  BY DEF Repeat, Listed
<1>2. forbidden = {}
  BY <1>1 DEF IInv, Unforbidden
<1>3. request' \in Requests /\ request'.kind = "same"
  BY <1>1 DEF Requests
<1>4. MayAsk(request)'
  BY <1>3 DEF MayAsk
<1>5. Shape'
  BY <1>1, <1>3 DEF IInv, Shape
<1> QED
  BY <1>1, <1>2, <1>3, <1>4, <1>5 DEF IInv, Starts, Unforbidden, Places, Closes,
        WindowBrackets, Returns

LEMMA StutterKeeps ==
  ASSUME IInv, UNCHANGED vars
  PROVE  IInv'
BY DEF IInv, Shape, Starts, Unforbidden, Places, Closes, WindowBrackets,
       Returns, MayAsk, Listed, NoMoves, vars

THEOREM WindowsInvariant == Spec => []IInv
<1>1. Init => IInv
  BY InitHolds
<1>2. IInv /\ [Next]_vars => IInv'
  BY SearchKeepsBrackets, OpenKeeps, CloseRepeatKeeps, CloseAllKeeps,
     OthersKeep, RepeatKeeps, StutterKeeps DEF Next, Step
<1> QED
  BY <1>1, <1>2, PTL DEF Spec

(* WindowBrackets: at no point of the loops over lowerbound and upperbound *)
(* is the value of the best move that is left outside of the window.       *)
THEOREM WindowsAlwaysBracket == Spec => []WindowBrackets
BY WindowsInvariant, PTL DEF IInv

(* RepeatScoreIsRight: solve_same_board and analyse_later_board return the *)
(* value of the position, whatever hint they start from and whatever the   *)
(* call before them left in best_move and the forbidden moves.             *)
THEOREM RepeatsAreRight == Spec => []RepeatScoreIsRight
<1>1. IInv => RepeatScoreIsRight
  <2> SUFFICES ASSUME IInv, pc = "done", request.kind \in RepeatKinds
               PROVE  IsMax(answer[1].score, Listed)
    BY DEF RepeatScoreIsRight, RepeatKinds
  <2>1. answer[1].score = lower
    BY DEF IInv, Returns
  <2>2. /\ \A m \in Listed : value[m] <= lower
        /\ \E m \in Listed : value[m] >= lower
    BY DEF IInv, Returns
  <2>3. lower \in Int /\ value \in [Listed -> 0..13]
    BY DEF IInv, Shape
  <2> QED
    BY <2>1, <2>2, <2>3 DEF IsMax
<1> QED
  BY WindowsInvariant, <1>1, PTL

-----------------------------------------------------------------------------
(* The answers.  A part of the invariant for every place of the code.      *)

Searching == pc \in {"window", "closed"}

(* A call finds an empty answer, and the order of the position. *)
Fresh ==
  pc = "start" => answer = <<>> /\ cards = 0 /\ order = base /\ mv = Null

(* Only these requests open a window. *)
Served ==
  Searching => request.kind \in RepeatKinds \union {"all", "best"}

(* m is the first of the moves that are left to take g tricks. *)
First(m, g) ==
  /\ m \in Listed \ forbidden /\ value[m] >= g
  /\ \A n \in Listed \ forbidden : order[n] < order[m] => value[n] < g

(* The lower bound of a window is the work of mv. *)
Leads ==
  Searching /\ request.kind \in {"all", "best"} =>
    /\ order = base
    /\ lower >= 0 /\ guess >= 0
    /\ lower > 0 => First(mv, lower)
    /\ request.kind = "best" => forbidden = {}

Found == {answer[i].move : i \in 1..Len(answer)}
Distinct ==
  \A i, j \in 1..Len(answer) : answer[i].move = answer[j].move => i = j

(* solutions 3, between two windows: the answer is what is forbidden, with *)
(* scores no move that is left can beat.                                   *)
Collects ==
  Searching /\ request.kind = "all" =>
    /\ Len(answer) < NoMoves
    /\ forbidden = Found /\ Distinct
    /\ \A i \in 1..Len(answer) : answer[i].score = value[answer[i].move]
    /\ \A i, j \in 1..Len(answer) : i < j => answer[i].score >= answer[j].score
    /\ \A i \in 1..Len(answer) : \A m \in Listed \ forbidden :
         value[m] <= answer[i].score

Score == answer[1].score

(* solutions 2, between two searches: the moves that take the score are    *)
(* answered, or left and not before best_move in the list.                 *)
Matches ==
  pc = "others" =>
    /\ \/ request.kind = "best" /\ request.n = 2 /\ IsMax(Score, Listed)
       \/ request.kind = "target2" /\ request.n = Score
    /\ Len(answer) >= 1 /\ cards = Len(answer)
    /\ Distinct /\ Found \subseteq Listed
    /\ \A i \in 1..Len(answer) :
         answer[i].score = Score /\ value[answer[i].move] >= Score
    /\ \A m \in forbidden : value[m] >= Score => m \in Found
    /\ Found \subseteq forbidden \union {best}
    /\ best \in Found
    /\ First(best, Score)

Completes ==
  pc \in {"stats", "done"} =>
    /\ request.kind = "all" => AllReturned
    /\ request.kind = "best" => BestReturned
    /\ Targeted => TargetReturned

AInv == TypeOK /\ Fresh /\ Served /\ Leads /\ Collects /\ Matches /\ Completes

-----------------------------------------------------------------------------
(* Facts about requests, listings and answers. *)

LEMMA RequestBounds ==
  ASSUME NEW r \in Requests
  PROVE  /\ r.n \in -1..13
         /\ r.kind \in {"same", "most"} => r.n \in 0..13
         /\ r.kind \in {"target1", "target2"} => r.n \in 1..13
         /\ r.kind = "best" => r.n \in {1, 2}
         /\ r.kind \in RepeatKinds \union
              {"single", "all", "zero", "best", "target1", "target2"}
<1>1. \A t \in Targets : t \in 1..13
  BY ValuesAssumption
<1>2. \A t \in Hints : t \in -1..13
  BY ValuesAssumption
<1>3. CASE r \in [kind : {"single", "all"}, n : {0}]
  BY <1>3
<1>4. CASE r \in [kind : {"zero", "best"}, n : {1, 2}]
  BY <1>4
<1>5. CASE r \in [kind : {"target1", "target2"}, n : Targets]
  <2>1. r.n \in Targets /\ r.kind \in {"target1", "target2"}
    BY <1>5
  <2> QED
    BY <2>1, <1>1
<1>6. CASE r \in [kind : {"same", "most"}, n : Hints \ {-1}]
  <2>1. r.n \in Hints /\ r.n # -1 /\ r.kind \in {"same", "most"}
    BY <1>6
  <2>2. r.n \in 0..13
    BY <2>1, <1>2
  <2> QED
    BY <2>1, <2>2 DEF RepeatKinds
<1>7. CASE r \in [kind : {"least"}, n : Hints]
  <2>1. r.n \in Hints /\ r.kind = "least"
    BY <1>7
  <2> QED
    BY <2>1, <1>2 DEF RepeatKinds
<1> QED
  BY <1>3, <1>4, <1>5, <1>6, <1>7 DEF Requests

LEMMA ListedIsFinite ==
  ASSUME Listed \subseteq Moves, Listed # {}
  PROVE  IsFiniteSet(Listed) /\ NoMoves \in Nat /\ NoMoves >= 1
<1>1. IsFiniteSet(Listed)
  BY FS_Subset, MovesAssumption
<1>2. Cardinality(Listed) \in Nat /\ Cardinality(Listed) # 0
  BY <1>1, FS_CardinalityType, FS_EmptySet
<1> QED
  BY <1>1, <1>2 DEF NoMoves

(* An enumeration with as many entries as moves has all of them. *)
LEMMA ListingIsBijection ==
  ASSUME TypeOK, NEW S \in SUBSET Listed, IsFiniteSet(S), NEW s \in Listings(S)
  PROVE  /\ Cardinality(S) \in Nat
         /\ s \in [1..Cardinality(S) -> S]
         /\ \A i, j \in 1..Cardinality(S) : s[i] = s[j] => i = j
         /\ \A m \in S : \E i \in 1..Cardinality(S) : s[i] = m
<1> DEFINE n == Cardinality(S)
<1>1. n \in Nat
  BY FS_CardinalityType
<1>2. s \in [1..n -> S]
  BY DEF Listings
<1>3. \A i, j \in 1..n : i < j => order[s[i]] < order[s[j]]
  BY <1>2 DEF Listings
<1>4. \A i \in 1..n : order[s[i]] \in Int
  BY <1>2 DEF TypeOK, Orders
<1>5. \A i, j \in 1..n : s[i] = s[j] => i = j
  <2> SUFFICES ASSUME NEW i \in 1..n, NEW j \in 1..n, s[i] = s[j], i # j
               PROVE  FALSE
    OBVIOUS
  <2>1. i < j \/ j < i
    BY <1>1
  <2> QED
    BY <2>1, <1>3, <1>4
<1>6. s \in Injection(1..n, S)
  BY <1>2, <1>5 DEF Injection, IsInjective
<1>7. IsFiniteSet(1..n) /\ Cardinality(1..n) = n
  BY <1>1, FS_Interval
<1>8. s \in Surjection(1..n, S)
  BY <1>6, <1>7, FS_Injection
<1>9. \A m \in S : \E i \in 1..n : s[i] = m
  BY <1>8 DEF Surjection
<1> QED
  BY <1>1, <1>2, <1>5, <1>9

LEMMA ScoredFacts ==
  ASSUME NEW S \in SUBSET Moves, NEW n \in Nat, NEW s \in [1..n -> S],
         NEW x \in -2..13
  PROVE  /\ Scored(s, x) \in Seq(Entries)
         /\ Len(Scored(s, x)) = n
         /\ \A i \in 1..n : Scored(s, x)[i] = [move |-> s[i], score |-> x]
<1>1. \A i \in 1..n : [move |-> s[i], score |-> x] \in Entries
  BY DEF Entries
<1>2. Scored(s, x) = [i \in 1..n |-> [move |-> s[i], score |-> x]]
  BY DEF Scored
<1> QED
  BY <1>1, <1>2

(* AnswerAllMoves is an answer with every move once. *)
LEMMA AllMovesAnswered ==
  ASSUME TypeOK, Listed # {}, NEW x \in -2..13, AnswerAllMoves(x)
  PROVE  /\ answer' \in Seq(Entries) /\ Len(answer') = NoMoves
         /\ \A i \in 1..NoMoves :
              answer'[i].move \in Listed /\ answer'[i].score = x
         /\ \A i, j \in 1..NoMoves :
              answer'[i].move = answer'[j].move => i = j
         /\ \A m \in Listed : \E i \in 1..NoMoves : answer'[i].move = m
<1>1. Listed \subseteq Moves
  BY DEF TypeOK
<1>2. IsFiniteSet(Listed) /\ NoMoves \in Nat
  BY <1>1, ListedIsFinite
<1>3. PICK s \in Listings(Listed) : answer' = Scored(s, x)
  BY DEF AnswerAllMoves
<1>4. /\ s \in [1..NoMoves -> Listed]
      /\ \A i, j \in 1..NoMoves : s[i] = s[j] => i = j
      /\ \A m \in Listed : \E i \in 1..NoMoves : s[i] = m
  BY <1>2, ListingIsBijection DEF NoMoves
<1>5. /\ answer' \in Seq(Entries) /\ Len(answer') = NoMoves
      /\ \A i \in 1..NoMoves : answer'[i] = [move |-> s[i], score |-> x]
  <2>1. /\ Listed \in SUBSET Moves /\ NoMoves \in Nat
        /\ s \in [1..NoMoves -> Listed]
    BY <1>1, <1>2, <1>4
  <2>2. /\ Scored(s, x) \in Seq(Entries) /\ Len(Scored(s, x)) = NoMoves
        /\ \A i \in 1..NoMoves : Scored(s, x)[i] = [move |-> s[i], score |-> x]
    BY ONLY <2>1, x \in -2..13, ScoredFacts
  <2> QED
    BY <2>2, <1>3
<1>6. \A i \in 1..NoMoves : answer'[i].move = s[i] /\ answer'[i].score = x
  BY <1>5
<1> QED
  BY <1>4, <1>5, <1>6

LEMMA AppendFacts ==
  ASSUME NEW s \in Seq(Entries), NEW e \in Entries
  PROVE  /\ Append(s, e) \in Seq(Entries)
         /\ Len(s) \in Nat
         /\ Len(Append(s, e)) = Len(s) + 1
         /\ \A i \in 1..Len(s) : Append(s, e)[i] = s[i]
         /\ Append(s, e)[Len(s) + 1] = e
OBVIOUS

LEMMA SingleFacts ==
  ASSUME NEW e \in Entries
  PROVE  <<e>> \in Seq(Entries) /\ Len(<<e>>) = 1 /\ <<e>>[1] = e
OBVIOUS

-----------------------------------------------------------------------------
(* The first state, and the types after each step. *)

LEMMA InitAnswers == Init => AInv
<1> SUFFICES ASSUME Init PROVE AInv
  OBVIOUS
<1>1. PICK S \in (SUBSET Moves) \ {{}} : value \in [S -> Values]
  BY DEF Init
<1>2. Listed = S /\ value \in [Listed -> 0..13] /\ Listed \subseteq Moves
  BY <1>1, ValuesAssumption DEF Listed
<1>3. NoMoves \in Nat
  BY <1>1, <1>2, ListedIsFinite
<1>4. TypeOK
  BY <1>2, <1>3 DEF Init, TypeOK
<1> QED
  BY <1>4 DEF Init, AInv, Fresh, Served, Leads, Collects, Matches, Completes,
              Searching

(* What no step changes. *)
LEMMA PositionKept ==
  ASSUME Next \/ UNCHANGED vars
  PROVE  /\ value' = value /\ base' = base /\ Listed' = Listed
         /\ NoMoves' = NoMoves /\ Orders' = Orders
         /\ request' # request => Repeat
<1>1. value' = value /\ base' = base /\ (request' # request => Repeat)
  BY DEF Next, Step, Repeat, Single, TargetZero, OpenWindow, SearchWindow,
         CloseRepeat, CloseBestZero, CloseBest, CloseAll, CloseAllZero,
         SearchTarget, SearchOthers, OthersExhausted, Stats, Bookkeeping, vars
<1> QED
  BY <1>1 DEF Listed, NoMoves, Orders

LEMMA ListOrdersTyped ==
  ASSUME TypeOK, NEW h, NEW o \in ListOrders(h)
  PROVE  o \in Orders
BY DEF TypeOK, ListOrders

(* Some move is left wherever a window is searched. *)
LEMMA SomeMoveIsLeft ==
  ASSUME IInv, AInv, Searching
  PROVE  Listed \ forbidden # {}
<1>1. Listed # {} /\ forbidden \subseteq Listed /\ answer \in Seq(Entries)
  BY DEF IInv, Shape, AInv, TypeOK
<1>2. CASE request.kind \in RepeatKinds \/ request.kind = "best"
  <2>1. forbidden = {}
    BY <1>2 DEF IInv, Unforbidden, AInv, Leads, RepeatKinds
  <2> QED
    BY <1>1, <2>1
<1>3. CASE request.kind = "all"
  <2>1. Len(answer) < NoMoves /\ forbidden = Found /\ Distinct
    BY <1>3 DEF AInv, Collects
  <2>2. SUFFICES ASSUME forbidden = Listed PROVE FALSE
    BY <1>1
  <2> DEFINE n == Len(answer)
             f == [i \in 1..n |-> answer[i].move]
  <2>3. n \in Nat
    BY <1>1
  <2>4. f \in Surjection(1..n, Listed)
    BY <2>1, <2>2 DEF Found, Surjection
  <2> HIDE DEF n, f
  <2>5. IsFiniteSet(1..n) /\ Cardinality(1..n) = n
    BY <2>3, FS_Interval
  <2>6. Cardinality(Listed) <= n
    BY <2>4, <2>5, FS_Surjection
  <2>7. NoMoves \in Nat
    BY <1>1, ListedIsFinite DEF AInv, TypeOK
  <2> QED
    BY <2>1, <2>3, <2>6, <2>7 DEF NoMoves, n
<1> QED
  BY <1>2, <1>3 DEF AInv, Served

(* The window of a search lies within the tricks of a deal. *)
LEMMA WindowTyped ==
  ASSUME IInv, AInv, SearchWindow
  PROVE  /\ lower' \in -1..13 /\ upper' \in 0..13 /\ guess' \in -1..14
         /\ request.kind \in {"all", "best"} => lower' >= 0 /\ guess' >= 0
<1>1. /\ lower \in -1..13 /\ upper \in 0..13 /\ guess \in -1..14
      /\ value \in [Listed -> 0..13]
  BY DEF AInv, TypeOK
<1>2. pc = "window" /\ Searching
  BY DEF SearchWindow, Searching
<1>3. PICK m \in Listed \ forbidden : value[m] <= upper /\ value[m] >= lower
  BY <1>2, SomeMoveIsLeft DEF IInv, WindowBrackets
<1>4. \A n \in Listed \ forbidden : value[n] <= upper
  BY <1>2, SomeMoveIsLeft DEF IInv, WindowBrackets
<1>5. request.kind \in {"all", "best"} => lower >= 0 /\ guess >= 0
  BY <1>2 DEF AInv, Leads
<1>6. CASE \E n \in Listed : Succeeds(guess, forbidden, order', n)
                             /\ Narrow(TRUE)
  <2>1. PICK n \in Listed : Succeeds(guess, forbidden, order', n)
                            /\ Narrow(TRUE)
    BY <1>6
  <2>2. lower' = guess /\ guess' = guess + 1 /\ upper' = upper
    BY <2>1 DEF Narrow
  <2>3. guess <= upper
    BY <2>1, <1>1, <1>4 DEF Succeeds
  <2> QED
    BY <2>2, <2>3, <1>1, <1>5
<1>7. CASE Fails(guess, forbidden) /\ Narrow(FALSE)
  <2>1. upper' = guess - 1 /\ guess' = guess - 1 /\ lower' = lower
    BY <1>7 DEF Narrow
  <2>2. value[m] < guess /\ value[m] \in 0..13
    BY <1>7, <1>3, <1>1 DEF Fails
  <2>3. guess >= 1 /\ guess - 1 \in 0..13
    BY <2>2, <1>1
  <2> QED
    BY <2>1, <2>3, <1>1, <1>5
<1> QED
  BY <1>6, <1>7 DEF SearchWindow

LEMMA ScoreTyped ==
  ASSUME AInv, pc = "others"
  PROVE  Score \in 0..13 /\ answer # <<>> /\ best \in Listed
<1>1. answer \in Seq(Entries) /\ Len(answer) >= 1
  BY DEF AInv, TypeOK, Matches
<1>2. request \in Requests /\ value \in [Listed -> 0..13]
  BY DEF AInv, TypeOK
<1>3. best \in Listed
  BY DEF AInv, Matches, First
<1>4. Score \in 0..13
  <2>1. CASE request.kind = "target2" /\ request.n = Score
    BY <2>1, <1>2, RequestBounds
  <2>2. CASE IsMax(Score, Listed)
    BY <2>2, <1>2 DEF IsMax
  <2> QED
    BY <2>1, <2>2 DEF AInv, Matches
<1> QED
  BY <1>1, <1>3, <1>4

LEMMA SearchOthersTyped ==
  ASSUME IInv, AInv, SearchOthers
  PROVE  TypeOK'
<1>1. TypeOK /\ pc = "others" /\ Len(answer) < NoMoves
  BY DEF AInv, SearchOthers
<1>2. NoMoves \in Nat
  BY <1>1, ListedIsFinite DEF IInv, Shape, TypeOK
<1>3. Score \in 0..13 /\ answer \in Seq(Entries)
  BY <1>1, ScoreTyped DEF TypeOK
<1>4. order' \in Orders
  BY <1>1, ListOrdersTyped DEF SearchOthers
<1>5. forbidden' \subseteq Listed
  BY <1>1 DEF SearchOthers, Passed, TypeOK
<1>6. /\ best' \in Listed \union {Null} /\ answer' \in Seq(Entries)
      /\ cards' \in 0..NoMoves /\ pc' \in {"others", "stats"}
  <2>1. CASE \E m \in Listed :
               /\ best' = m
               /\ answer' = Append(answer, [move |-> m, score |-> answer[1].score])
               /\ cards' = Len(answer') /\ pc' = pc
    <3>1. PICK m \in Listed :
               /\ best' = m
               /\ answer' = Append(answer, [move |-> m, score |-> answer[1].score])
               /\ cards' = Len(answer') /\ pc' = pc
      BY <2>1
    <3>2. [move |-> m, score |-> answer[1].score] \in Entries
      BY <1>1, <1>3 DEF Entries, Score, TypeOK
    <3> QED
      BY <3>1, <3>2, <1>1, <1>2, <1>3, AppendFacts
  <2>2. CASE pc' = "stats" /\ best' = best /\ answer' = answer /\ cards' = cards
    BY <2>2, <1>1 DEF TypeOK
  <2> QED
    BY <2>1, <2>2 DEF SearchOthers
<1>7. Listed' = Listed /\ NoMoves' = NoMoves /\ Orders' = Orders /\ base' = base
      /\ value' = value
  BY PositionKept DEF Next, Step
<1>8. /\ lower' = lower /\ upper' = upper /\ guess' = guess
      /\ mv' = mv /\ request' = request
  BY DEF SearchOthers, Bookkeeping
<1> QED
  BY <1>1, <1>4, <1>5, <1>6, <1>7, <1>8 DEF TypeOK

-----------------------------------------------------------------------------
(* The steps that keep the answer, or give one that needs no search. *)

LEMMA NoSearchAnswers ==
  ASSUME IInv, AInv, Single \/ TargetZero
  PROVE  AInv'
<1>1. /\ pc' = "done" /\ request' = request /\ request.kind \in {"single", "zero"}
      /\ lower' = lower /\ upper' = upper /\ guess' = guess /\ order' = order
      /\ best' = best /\ mv' = mv /\ forbidden' = forbidden
  BY DEF Single, TargetZero, Bookkeeping
<1>2. value' = value /\ base' = base /\ Listed' = Listed /\ NoMoves' = NoMoves
      /\ Orders' = Orders
  BY PositionKept DEF Next, Step
<1>3. TypeOK /\ Listed # {} /\ NoMoves \in Nat /\ NoMoves >= 1
  BY ListedIsFinite DEF IInv, Shape, AInv, TypeOK
<1>4. answer' \in Seq(Entries) /\ cards' \in 0..NoMoves
  BY <1>3, AllMovesAnswered DEF Single, TargetZero
<1>5. TypeOK'
  BY <1>1, <1>2, <1>3, <1>4 DEF TypeOK
<1> QED
  BY <1>1, <1>5 DEF AInv, Fresh, Served, Leads, Collects, Matches, Completes,
                    Searching, Targeted

LEMMA OpenAnswers ==
  ASSUME IInv, AInv, OpenWindow
  PROVE  AInv'
<1>1. /\ pc = "start" /\ pc' = "window" /\ request' = request
      /\ order' = order /\ best' = best /\ mv' = mv /\ forbidden' = forbidden
      /\ answer' = answer /\ cards' = cards
      /\ request.kind \in RepeatKinds \union {"all", "best"}
  BY DEF OpenWindow, Bookkeeping, RepeatKinds
<1>2. value' = value /\ base' = base /\ Listed' = Listed /\ NoMoves' = NoMoves
      /\ Orders' = Orders
  BY PositionKept DEF Next, Step
<1>3. TypeOK /\ Listed # {} /\ NoMoves \in Nat /\ NoMoves >= 1
  BY ListedIsFinite DEF IInv, Shape, AInv, TypeOK
<1>4. /\ lower = 0 /\ upper = 13 /\ forbidden = {} /\ answer = <<>>
      /\ order = base
  BY <1>1 DEF IInv, Starts, AInv, Fresh
<1>5. /\ request.n \in -1..13
      /\ request.kind \in {"same", "most"} => request.n \in 0..13
  BY <1>3, RequestBounds DEF TypeOK
<1>6. /\ lower' \in -1..13 /\ upper' \in 0..13 /\ guess' \in -1..14
      /\ request.kind \in {"all", "best"} => lower' = 0 /\ guess' \in {6, 7}
  BY <1>4, <1>5 DEF OpenWindow
<1>7. TypeOK'
  BY <1>1, <1>2, <1>3, <1>6 DEF TypeOK
<1>8. Leads'
  BY <1>1, <1>2, <1>4, <1>6 DEF Leads
<1>9. Len(answer') = 0 /\ Found' = {}
  BY <1>1, <1>4 DEF Found
<1>10. Collects'
  BY <1>1, <1>2, <1>3, <1>4, <1>9 DEF Collects, Distinct
<1> QED
  BY <1>1, <1>7, <1>8, <1>10 DEF AInv, Fresh, Served, Matches, Completes,
                                 Searching

LEMMA SearchAnswers ==
  ASSUME IInv, AInv, SearchWindow
  PROVE  AInv'
<1>1. /\ pc = "window" /\ pc' \in {"window", "closed"} /\ request' = request
      /\ forbidden' = forbidden /\ answer' = answer /\ cards' = cards
      /\ Searching /\ Searching'
  BY DEF SearchWindow, Bookkeeping, Searching
<1>2. value' = value /\ base' = base /\ Listed' = Listed /\ NoMoves' = NoMoves
      /\ Orders' = Orders
  BY PositionKept DEF Next, Step
<1>3. TypeOK /\ order' \in ListOrders(Hint) /\ order' \in Orders
  BY ListOrdersTyped DEF AInv, TypeOK, SearchWindow
<1>4. /\ lower' \in -1..13 /\ upper' \in 0..13 /\ guess' \in -1..14
      /\ request.kind \in {"all", "best"} => lower' >= 0 /\ guess' >= 0
  BY WindowTyped
<1>5. best' \in Listed \union {Null} /\ mv' \in Listed \union {Null}
  BY <1>3 DEF SearchWindow, Hint, TypeOK
<1>6. TypeOK'
  BY <1>1, <1>2, <1>3, <1>4, <1>5 DEF TypeOK
<1>7. Leads'
  <2> SUFFICES ASSUME request.kind \in {"all", "best"}
               PROVE  /\ order' = base'
                      /\ lower' > 0 => First(mv, lower)'
                      /\ request.kind = "best" => forbidden = {}
    BY <1>1, <1>4 DEF Leads
  <2>1. order' = base
    BY <1>3 DEF ListOrders, Hint
  <2>2. /\ order = base
        /\ lower > 0 => First(mv, lower)
        /\ request.kind = "best" => forbidden = {}
    BY <1>1 DEF AInv, Leads
  <2>3. CASE \E m \in Listed : /\ Succeeds(guess, forbidden, order', m)
                               /\ mv' = m /\ Narrow(TRUE)
    <3>1. PICK m \in Listed : /\ Succeeds(guess, forbidden, order', m)
                              /\ mv' = m /\ Narrow(TRUE)
      BY <2>3
    <3>2. lower' = guess
      BY <3>1 DEF Narrow
    <3>3. First(mv, lower)'
      BY <3>1, <3>2, <1>1, <1>2 DEF Succeeds, First
    <3> QED
      BY <2>1, <2>2, <3>3, <1>2
  <2>4. CASE mv' = mv /\ Narrow(FALSE)
    <3>1. lower' = lower
      BY <2>4 DEF Narrow
    <3>2. lower > 0 => First(mv, lower)'
      BY <2>1, <2>2, <2>4, <3>1, <1>1, <1>2 DEF First
    <3> QED
      BY <2>1, <2>2, <3>1, <3>2, <1>2
  <2> QED
    BY <2>3, <2>4 DEF SearchWindow
<1>8. Collects'
  BY <1>1, <1>2 DEF AInv, Collects, Found, Distinct
<1>9. Served'
  BY <1>1 DEF AInv, Served
<1> QED
  BY <1>1, <1>6, <1>7, <1>8, <1>9 DEF AInv, Fresh, Matches, Completes

LEMMA CloseRepeatAnswers ==
  ASSUME IInv, AInv, CloseRepeat
  PROVE  AInv'
<1>1. /\ pc' = "done" /\ request' = request /\ request.kind \in RepeatKinds
      /\ lower' = lower /\ upper' = upper /\ guess' = guess /\ order' = order
      /\ best' = best /\ mv' = mv /\ forbidden' = forbidden
      /\ answer' = <<[move |-> Null, score |-> lower]>>
  BY DEF CloseRepeat, Bookkeeping, RepeatKinds
<1>2. value' = value /\ base' = base /\ Listed' = Listed /\ NoMoves' = NoMoves
      /\ Orders' = Orders
  BY PositionKept DEF Next, Step
<1>3. TypeOK /\ NoMoves \in Nat /\ NoMoves >= 1
  BY ListedIsFinite DEF IInv, Shape, AInv, TypeOK
<1>4. cards' \in 0..NoMoves
  BY <1>3 DEF CloseRepeat, TypeOK
<1>5. [move |-> Null, score |-> lower] \in Entries
  BY <1>3 DEF Entries, TypeOK
<1>6. TypeOK'
  BY <1>1, <1>2, <1>3, <1>4, <1>5, SingleFacts DEF TypeOK
<1> QED
  BY <1>1, <1>6 DEF AInv, Fresh, Served, Leads, Collects, Matches, Completes,
                    Searching, Targeted, RepeatKinds

LEMMA StatsAnswers ==
  ASSUME IInv, AInv, Stats
  PROVE  AInv'
<1>1. /\ pc = "stats" /\ pc' = "done" /\ forbidden' = {} /\ request' = request
      /\ lower' = lower /\ upper' = upper /\ guess' = guess /\ order' = order
      /\ best' = best /\ mv' = mv /\ answer' = answer /\ cards' = cards
  BY DEF Stats, Bookkeeping
<1>2. value' = value /\ base' = base /\ Listed' = Listed /\ NoMoves' = NoMoves
      /\ Orders' = Orders
  BY PositionKept DEF Next, Step
<1>3. TypeOK'
  BY <1>1, <1>2 DEF AInv, TypeOK
<1>4. AllReturned' = AllReturned /\ BestReturned' = BestReturned
      /\ TargetReturned' = TargetReturned
  BY <1>1, <1>2 DEF AllReturned, BestReturned, TargetReturned,
                    OneCardPromised, Returned,
                    ReturnedMoves, NoneTwice, IsMax
<1>5. Completes'
  BY <1>1, <1>4 DEF AInv, Completes, Targeted
<1> QED
  BY <1>1, <1>3, <1>5 DEF AInv, Fresh, Served, Leads, Collects, Matches,
                          Searching

LEMMA RepeatAnswers ==
  ASSUME IInv, AInv, Repeat
  PROVE  AInv'
<1>1. /\ pc' = "start" /\ request' \in [kind : {"same"}, n : Hints \ {-1}]
      /\ lower' = 0 /\ upper' = 13 /\ guess' = 7 /\ order' = base /\ mv' = Null
      /\ answer' = <<>> /\ cards' = 0 /\ best' = best /\ forbidden' = forbidden
  BY DEF Repeat
<1>2. value' = value /\ base' = base /\ Listed' = Listed /\ NoMoves' = NoMoves
      /\ Orders' = Orders
  BY PositionKept DEF Next
<1>3. TypeOK /\ NoMoves \in Nat
  BY ListedIsFinite DEF IInv, Shape, AInv, TypeOK
<1>4. request' \in Requests
  BY <1>1 DEF Requests
<1>5. TypeOK'
  BY <1>1, <1>2, <1>3, <1>4 DEF TypeOK
<1> QED
  BY <1>1, <1>2, <1>5 DEF AInv, Fresh, Served, Leads, Collects, Matches,
                          Completes, Searching

LEMMA StutterAnswers ==
  ASSUME AInv, UNCHANGED vars
  PROVE  AInv'
BY DEF AInv, TypeOK, Fresh, Served, Leads, Collects, Matches, Completes,
       Searching, First, Found, Distinct, Score, AllReturned, BestReturned,
       TargetReturned, OneCardPromised, Returned, ReturnedMoves, NoneTwice,
       IsMax, Targeted,
       Listed, NoMoves, Orders, vars

-----------------------------------------------------------------------------
(* The steps that close a window. *)

(* A closed window over moves that are left is the value of the best of    *)
(* them.                                                                   *)
LEMMA ClosedOnValue ==
  ASSUME IInv, AInv, pc = "closed", request.kind \in {"all", "best"}
  PROVE  /\ lower \in 0..13
         /\ \A m \in Listed \ forbidden : value[m] <= lower
         /\ lower > 0 => First(mv, lower) /\ value[mv] = lower
         /\ value \in [Listed -> 0..13]
<1>1. Searching
  BY DEF Searching
<1>2. /\ lower >= upper /\ \A m \in Listed \ forbidden : value[m] <= upper
      /\ value \in [Listed -> 0..13]
  BY <1>1, SomeMoveIsLeft DEF IInv, Shape, Closes, WindowBrackets
<1>3. lower \in -1..13 /\ upper \in 0..13 /\ lower >= 0
  BY <1>1 DEF AInv, TypeOK, Leads
<1>4. lower > 0 => First(mv, lower)
  BY <1>1 DEF AInv, Leads
<1>5. \A m \in Listed \ forbidden : value[m] <= lower
  BY <1>2, <1>3
<1>6. lower > 0 => value[mv] = lower
  BY <1>2, <1>3, <1>4, <1>5 DEF First
<1> QED
  BY <1>2, <1>3, <1>4, <1>5, <1>6

(* What the steps of this section leave alone. *)
LEMMA CloseKeeps ==
  ASSUME AInv, CloseBestZero \/ CloseBest \/ CloseAll \/ CloseAllZero
  PROVE  /\ pc = "closed" /\ Searching
         /\ request' = request /\ upper' = upper
         /\ order' = order /\ mv' = mv /\ value' = value /\ base' = base
         /\ Listed' = Listed /\ NoMoves' = NoMoves /\ Orders' = Orders
         /\ pc' \in {"others", "stats", "window"}
<1>1. value' = value /\ base' = base /\ Listed' = Listed /\ NoMoves' = NoMoves
      /\ Orders' = Orders
  BY PositionKept DEF Next, Step
<1> QED
  BY <1>1 DEF CloseBestZero, CloseBest, CloseAll, CloseAllZero, Bookkeeping,
              Searching

LEMMA CloseBestZeroAnswers ==
  ASSUME IInv, AInv, CloseBestZero
  PROVE  AInv'
<1>1. /\ pc = "closed" /\ request.kind = "best" /\ lower = 0
      /\ AnswerAllMoves(0) /\ best' = mv /\ pc' = "stats"
      /\ cards' = IF request.n = 1 THEN 1 ELSE NoMoves
      /\ lower' = lower /\ guess' = guess /\ forbidden' = forbidden
  BY DEF CloseBestZero
<1>2. TypeOK /\ Listed # {} /\ NoMoves \in Nat /\ NoMoves >= 1
  BY ListedIsFinite DEF IInv, Shape, AInv, TypeOK
<1>3. /\ answer' \in Seq(Entries)
      /\ \A i \in 1..NoMoves :
           answer'[i].move \in Listed /\ answer'[i].score = 0
      /\ \A i, j \in 1..NoMoves : answer'[i].move = answer'[j].move => i = j
      /\ \A m \in Listed : \E i \in 1..NoMoves : answer'[i].move = m
  <2>1. 0 \in -2..13
    OBVIOUS
  <2>2. AnswerAllMoves(0)
    BY <1>1
  <2> QED
    BY <1>2, <2>1, <2>2, AllMovesAnswered
<1>4. TypeOK'
  BY <1>1, <1>2, <1>3, CloseKeeps DEF TypeOK
<1>5. \A m \in Listed : value[m] = 0
  <2>1. forbidden = {}
    BY <1>1 DEF AInv, Leads, Searching
  <2> QED
    BY <2>1, <1>1, ClosedOnValue
<1>6. cards' \in 1..NoMoves /\ request' = request
  BY <1>1, <1>2, CloseKeeps
<1>7. IsMax(0, Listed)'
  BY <1>2, <1>5, CloseKeeps DEF IsMax
<1>8. BestReturned'
  <2>1. \A e \in Returned' : e.score = value'[e.move] /\ e.score = 0
    BY <1>2, <1>3, <1>5, <1>6, CloseKeeps DEF Returned
  <2>2. \A e \in Returned' : IsMax(e.score, Listed)'
    BY <2>1, <1>7 DEF IsMax
  <2>3. NoneTwice'
    BY <1>2, <1>3, <1>6 DEF NoneTwice
  <2>4. request'.n = 1 => cards' = 1
    BY <1>1, <1>6
  <2>5. request'.n # 1 => Listed' \subseteq ReturnedMoves'
    <3> SUFFICES ASSUME request'.n # 1, NEW m \in Listed
                 PROVE  m \in ReturnedMoves'
      BY CloseKeeps
    <3>1. PICK i \in 1..NoMoves : answer'[i].move = m
      BY <1>3
    <3> QED
      BY <3>1, <1>1, <1>6 DEF ReturnedMoves, Returned
  <2> QED
    BY <2>1, <2>2, <2>3, <2>4, <2>5 DEF BestReturned
<1> QED
  BY <1>1, <1>4, <1>8, CloseKeeps DEF AInv, Fresh, Served, Leads, Collects,
     Matches, Completes, Searching, Targeted

(* An answer of one entry. *)
OneEntryAnswers ==
  \A m, x :
    /\ m \in Listed /\ x \in 0..13 /\ answer = <<[move |-> m, score |-> x]>>
    /\ cards = 1 /\ Listed \subseteq Moves
    => /\ answer \in Seq(Entries) /\ Len(answer) = 1
       /\ Score = x /\ answer[1].move = m
       /\ Found = {m} /\ Distinct /\ NoneTwice
       /\ Returned = {[move |-> m, score |-> x]} /\ ReturnedMoves = {m}

LEMMA OneEntry == OneEntryAnswers
<1> SUFFICES ASSUME NEW m \in Listed, NEW x \in 0..13, cards = 1,
                    answer = <<[move |-> m, score |-> x]>>,
                    Listed \subseteq Moves
             PROVE  /\ answer \in Seq(Entries) /\ Len(answer) = 1
                    /\ Score = x /\ answer[1].move = m
                    /\ Found = {m} /\ Distinct /\ NoneTwice
                    /\ Returned = {[move |-> m, score |-> x]}
                    /\ ReturnedMoves = {m}
  BY DEF OneEntryAnswers
<1>1. [move |-> m, score |-> x] \in Entries
  BY DEF Entries
<1>2. answer \in Seq(Entries) /\ Len(answer) = 1
      /\ answer[1] = [move |-> m, score |-> x]
  BY <1>1, SingleFacts
<1>3. Returned = {[move |-> m, score |-> x]}
  BY <1>2 DEF Returned
<1>4. ReturnedMoves = {m}
  BY <1>3 DEF ReturnedMoves
<1>5. Found = {m} /\ Distinct /\ NoneTwice
  BY <1>2 DEF Found, Distinct, NoneTwice
<1> QED
  BY <1>2, <1>3, <1>4, <1>5 DEF Score

LEMMA OneEntryNext == OneEntryAnswers'
BY OneEntry, PTL

LEMMA CloseBestAnswers ==
  ASSUME IInv, AInv, CloseBest
  PROVE  AInv'
<1>1. /\ pc = "closed" /\ request.kind = "best" /\ lower > 0
      /\ answer' = <<[move |-> mv, score |-> lower]>> /\ cards' = 1
      /\ best' = mv /\ pc' = IF request.n = 2 THEN "others" ELSE "stats"
      /\ lower' = lower /\ guess' = guess /\ forbidden' = forbidden
  BY DEF CloseBest
<1>2. TypeOK /\ Listed # {} /\ NoMoves \in Nat /\ NoMoves >= 1
  BY ListedIsFinite DEF IInv, Shape, AInv, TypeOK
<1>3. forbidden = {}
  BY <1>1 DEF AInv, Leads, Searching
<1>4. /\ lower \in 0..13 /\ First(mv, lower) /\ value[mv] = lower
      /\ \A m \in Listed : value[m] <= lower
  BY <1>1, <1>3, ClosedOnValue
<1>5. mv \in Listed
  BY <1>4 DEF First
<1>6. /\ answer' \in Seq(Entries) /\ Len(answer') = 1
      /\ Score' = lower /\ answer'[1].move = mv
      /\ Found' = {mv} /\ Distinct' /\ NoneTwice'
      /\ Returned' = {[move |-> mv, score |-> lower]} /\ ReturnedMoves' = {mv}
  <2>1. mv \in Listed' /\ Listed' \subseteq Moves
    BY <1>2, <1>5, CloseKeeps DEF TypeOK
  <2> QED
    BY <2>1, <1>1, <1>4, OneEntryNext DEF OneEntryAnswers
<1>7. TypeOK'
  BY <1>1, <1>2, <1>6, CloseKeeps DEF TypeOK
<1>8. IsMax(lower, Listed) /\ \A x : IsMax(x, Listed)' <=> IsMax(x, Listed)
  BY <1>4, <1>5, CloseKeeps DEF IsMax
<1>9. request.n = 2 => Matches'
  <2>1. First(mv, lower)' /\ best' = mv
    BY <1>1, <1>4, CloseKeeps DEF First
  <2>2. First(best, Score)'
    BY <2>1, <1>1, <1>6, CloseKeeps DEF First
  <2>3. IsMax(Score, Listed)'
    BY <1>6, <1>8 DEF IsMax
  <2>4. \A i \in 1..Len(answer') :
           answer'[i].score = Score' /\ value'[answer'[i].move] >= Score'
    BY <1>4, <1>6, CloseKeeps DEF Score
  <2> QED
    BY <2>2, <2>3, <2>4, <1>1, <1>3, <1>5, <1>6, CloseKeeps DEF Matches
<1>10. request.n # 2 => BestReturned'
  <2>1. request.n \in {1, 2}
    BY <1>1, <1>2, RequestBounds DEF TypeOK
  <2>2. \A e \in Returned' : e.score = value'[e.move] /\ IsMax(e.score, Listed)'
    BY <1>4, <1>6, <1>8, CloseKeeps DEF IsMax
  <2> QED
    BY <2>1, <2>2, <1>1, <1>6, CloseKeeps DEF BestReturned
<1> QED
  BY <1>1, <1>2, <1>7, <1>9, <1>10, CloseKeeps DEF AInv, Fresh, Served, Leads,
     Collects, Matches, Completes, Searching, Targeted

(* The answer of solutions 3 grows by the best move that is left. *)
LEMMA GrownAnswer ==
  ASSUME IInv, AInv, CloseAll
  PROVE  /\ answer' \in Seq(Entries) /\ Len(answer') = Len(answer) + 1
         /\ Len(answer) \in Nat /\ Len(answer') <= NoMoves
         /\ \A i \in 1..Len(answer) : answer'[i] = answer[i]
         /\ answer'[Len(answer')] = [move |-> mv, score |-> lower]
         /\ forbidden' = Found' /\ Distinct'
         /\ \A i \in 1..Len(answer') : answer'[i].score = value[answer'[i].move]
         /\ \A i, j \in 1..Len(answer') :
              i < j => answer'[i].score >= answer'[j].score
         /\ \A i \in 1..Len(answer') : \A m \in Listed \ forbidden' :
              value[m] <= answer'[i].score
<1>1. /\ pc = "closed" /\ request.kind = "all" /\ lower > 0
      /\ answer' = Append(answer, [move |-> mv, score |-> lower])
      /\ forbidden' = forbidden \union {mv}
  BY DEF CloseAll
<1>2. TypeOK /\ NoMoves \in Nat
  BY ListedIsFinite DEF IInv, Shape, AInv, TypeOK
<1>3. /\ lower \in 0..13 /\ First(mv, lower) /\ value[mv] = lower
      /\ \A m \in Listed \ forbidden : value[m] <= lower
      /\ value \in [Listed -> 0..13]
  BY <1>1, ClosedOnValue
<1>4. mv \in Listed \ forbidden
  BY <1>3 DEF First
<1>5. /\ Len(answer) < NoMoves
      /\ forbidden = Found /\ Distinct
      /\ \A i \in 1..Len(answer) : answer[i].score = value[answer[i].move]
      /\ \A i, j \in 1..Len(answer) : i < j => answer[i].score >= answer[j].score
      /\ \A i \in 1..Len(answer) : \A m \in Listed \ forbidden :
           value[m] <= answer[i].score
  BY <1>1 DEF AInv, Collects, Searching
<1>6. [move |-> mv, score |-> lower] \in Entries
  BY <1>2, <1>3, <1>4 DEF Entries, TypeOK
<1> DEFINE k == Len(answer)
           e == [move |-> mv, score |-> lower]
<1>7. /\ answer' \in Seq(Entries) /\ k \in Nat /\ Len(answer') = k + 1
      /\ \A i \in 1..k : answer'[i] = answer[i]
      /\ answer'[k + 1] = e
  BY <1>1, <1>2, <1>6, AppendFacts DEF TypeOK
<1>8. \A i \in 1..k : answer[i].move \in forbidden
  BY <1>5 DEF Found
<1>9. e.move = mv /\ e.score = lower
  OBVIOUS
<1>10. \A i \in 1..(k + 1) : i \in 1..k \/ i = k + 1
  BY <1>7
<1>11. forbidden' = Found'
  <2>1. Found' = {answer'[i].move : i \in 1..(k + 1)}
    BY <1>7 DEF Found
  <2>2. {answer'[i].move : i \in 1..(k + 1)} =
          {answer[i].move : i \in 1..k} \union {mv}
    BY <1>7, <1>9, <1>10
  <2> QED
    BY <2>1, <2>2, <1>1, <1>5 DEF Found
<1>12. Distinct'
  <2>1. \A i \in 1..k : answer'[i].move # mv
    BY <1>4, <1>7, <1>8
  <2>2. \A i, j \in 1..(k + 1) : answer'[i].move = answer'[j].move => i = j
    BY <2>1, <1>5, <1>7, <1>9, <1>10 DEF Distinct
  <2> QED
    BY <2>2, <1>7 DEF Distinct
<1>13. \A i \in 1..(k + 1) : answer'[i].score = value[answer'[i].move]
  BY <1>3, <1>5, <1>7, <1>9, <1>10
<1>14. \A i \in 1..k : answer'[i].score >= lower
  BY <1>3, <1>4, <1>5, <1>7
<1>15. \A i, j \in 1..(k + 1) : i < j => answer'[i].score >= answer'[j].score
  <2> SUFFICES ASSUME NEW i \in 1..(k + 1), NEW j \in 1..(k + 1), i < j
               PROVE  answer'[i].score >= answer'[j].score
    OBVIOUS
  <2>1. i \in 1..k
    BY <1>7
  <2>2. CASE j \in 1..k
    BY <2>1, <2>2, <1>5, <1>7
  <2>3. CASE j = k + 1
    BY <2>1, <2>3, <1>7, <1>9, <1>14
  <2> QED
    BY <2>2, <2>3, <1>10
<1>16. \A i \in 1..(k + 1) : \A m \in Listed \ forbidden' :
         value[m] <= answer'[i].score
  <2> SUFFICES ASSUME NEW i \in 1..(k + 1), NEW m \in Listed \ forbidden'
               PROVE  value[m] <= answer'[i].score
    OBVIOUS
  <2>1. m \in Listed \ forbidden
    BY <1>1
  <2>2. CASE i \in 1..k
    BY <2>1, <2>2, <1>5, <1>7
  <2>3. CASE i = k + 1
    BY <2>1, <2>3, <1>3, <1>7, <1>9
  <2> QED
    BY <2>2, <2>3, <1>10
<1>17. k + 1 <= NoMoves
  BY <1>2, <1>5, <1>7
<1> HIDE DEF k
<1> QED
  BY <1>7, <1>11, <1>12, <1>13, <1>15, <1>16, <1>17 DEF k

LEMMA CloseAllAnswers ==
  ASSUME IInv, AInv, CloseAll
  PROVE  AInv'
<1>1. /\ pc = "closed" /\ request.kind = "all" /\ lower > 0
      /\ cards' = NoMoves /\ best' = mv
      /\ forbidden' = forbidden \union {mv}
      /\ guess' = lower /\ lower' = 0
      /\ pc' = IF Len(answer') = NoMoves THEN "stats" ELSE "window"
      /\ request' = request /\ upper' = upper
  BY CloseKeeps DEF CloseAll
<1>2. TypeOK /\ NoMoves \in Nat
  BY ListedIsFinite DEF IInv, Shape, AInv, TypeOK
<1>3. lower \in 0..13 /\ mv \in Listed
  BY <1>1, ClosedOnValue DEF First
<1>4. TypeOK'
  BY <1>1, <1>2, <1>3, GrownAnswer, CloseKeeps DEF TypeOK
<1>5. order' = base' /\ lower' >= 0 /\ guess' >= 0
  BY <1>1, <1>3, CloseKeeps DEF AInv, Leads
<1>6. Leads'
  BY <1>1, <1>5 DEF Leads
<1>7. Collects'
  <2> SUFFICES ASSUME Searching' PROVE Len(answer') < NoMoves
    BY GrownAnswer, CloseKeeps DEF Collects
  <2>1. Len(answer') # NoMoves
    BY <1>1 DEF Searching
  <2> QED
    BY <2>1, <1>2, GrownAnswer
<1>8. Len(answer') = NoMoves => AllReturned'
  <2> SUFFICES ASSUME Len(answer') = NoMoves PROVE AllReturned'
    OBVIOUS
  <2>1. Found' = Listed
    <3> DEFINE f == [i \in 1..NoMoves |-> answer'[i].move]
    <3>1. \A i \in 1..NoMoves : answer'[i].move \in Listed
      BY <1>1, <1>2, <1>3, GrownAnswer DEF Found, TypeOK
    <3>2. f \in Injection(1..NoMoves, Listed)
      BY <3>1, GrownAnswer DEF Distinct, Injection, IsInjective
    <3>3. \A i \in 1..NoMoves : f[i] = answer'[i].move
      OBVIOUS
    <3> HIDE DEF f
    <3>4. IsFiniteSet(1..NoMoves) /\ Cardinality(1..NoMoves) = NoMoves
      BY <1>2, FS_Interval
    <3>5. IsFiniteSet(Listed) /\ Cardinality(Listed) = NoMoves
      BY <1>2, ListedIsFinite DEF IInv, Shape, TypeOK, NoMoves
    <3>6. f \in Surjection(1..NoMoves, Listed)
      BY <3>2, <3>4, <3>5, FS_Injection
    <3>7. \A m \in Listed : \E i \in 1..NoMoves : f[i] = m
      BY <3>6 DEF Surjection
    <3> QED
      BY <3>1, <3>3, <3>7 DEF Found
  <2>2. ReturnedMoves' = Found'
    BY <1>1, CloseKeeps DEF ReturnedMoves, Returned, Found
  <2>3. \A e \in Returned' : e.score = value'[e.move]
    BY <1>1, GrownAnswer, CloseKeeps DEF Returned
  <2> QED
    BY <2>1, <2>2, <2>3, <1>1, GrownAnswer, CloseKeeps DEF AllReturned
<1> QED
  BY <1>1, <1>4, <1>6, <1>7, <1>8, CloseKeeps DEF AInv, Fresh, Served,
     Matches, Completes, Searching, Targeted

LEMMA ForbiddenCounted ==
  ASSUME IInv, AInv, Searching, request.kind = "all"
  PROVE  /\ IsFiniteSet(Listed \ forbidden)
         /\ Cardinality(Listed \ forbidden) = NoMoves - Len(answer)
         /\ Len(answer) \in Nat
<1>1. /\ forbidden = Found /\ Distinct /\ answer \in Seq(Entries)
      /\ forbidden \subseteq Listed
  BY DEF AInv, Collects, TypeOK
<1>2. IsFiniteSet(Listed) /\ NoMoves \in Nat /\ Cardinality(Listed) = NoMoves
  BY ListedIsFinite DEF IInv, Shape, AInv, TypeOK, NoMoves
<1> DEFINE k == Len(answer)
           f == [i \in 1..k |-> answer[i].move]
<1>3. k \in Nat
  BY <1>1
<1>4. f \in Surjection(1..k, forbidden) /\ f \in Injection(1..k, forbidden)
  BY <1>1 DEF Found, Distinct, Surjection, Injection, IsInjective
<1> HIDE DEF k, f
<1>5. IsFiniteSet(1..k) /\ Cardinality(1..k) = k
  BY <1>3, FS_Interval
<1>6. Cardinality(forbidden) = k
  BY <1>4, <1>5, FS_Surjection
<1>7. /\ IsFiniteSet(Listed \ forbidden)
      /\ Cardinality(Listed \ forbidden) =
           Cardinality(Listed) - Cardinality(Listed \intersect forbidden)
  BY <1>2, FS_Difference
<1>8. Listed \intersect forbidden = forbidden
  BY <1>1
<1> QED
  BY <1>2, <1>3, <1>6, <1>7, <1>8 DEF k

LEMMA CloseAllZeroAnswers ==
  ASSUME IInv, AInv, CloseAllZero
  PROVE  AInv'
<1>1. /\ pc = "closed" /\ request.kind = "all" /\ lower = 0
      /\ cards' = NoMoves /\ pc' = "stats"
      /\ lower' = lower /\ guess' = guess /\ best' = best
      /\ forbidden' = forbidden
  BY DEF CloseAllZero
<1>2. PICK s \in Listings(Listed \ forbidden) : answer' = answer \o Scored(s, 0)
  BY DEF CloseAllZero
<1>3. TypeOK /\ NoMoves \in Nat
  BY ListedIsFinite DEF IInv, Shape, AInv, TypeOK
<1>4. Searching
  BY <1>1 DEF Searching
<1>5. /\ \A m \in Listed \ forbidden : value[m] <= 0
      /\ value \in [Listed -> 0..13]
  BY <1>1, ClosedOnValue
<1>6. /\ forbidden = Found /\ Distinct
      /\ \A i \in 1..Len(answer) : answer[i].score = value[answer[i].move]
      /\ \A i, j \in 1..Len(answer) : i < j => answer[i].score >= answer[j].score
      /\ \A i \in 1..Len(answer) : \A m \in Listed \ forbidden :
           value[m] <= answer[i].score
      /\ answer \in Seq(Entries) /\ forbidden \subseteq Listed
  BY <1>1, <1>4 DEF AInv, Collects, TypeOK
<1> DEFINE k == Len(answer)
           q == Cardinality(Listed \ forbidden)
           t == Scored(s, 0)
<1>7. k \in Nat /\ q = NoMoves - k /\ IsFiniteSet(Listed \ forbidden)
  BY <1>1, <1>4, ForbiddenCounted
<1>8. /\ q \in Nat /\ s \in [1..q -> Listed \ forbidden]
      /\ \A m \in Listed \ forbidden : \E i \in 1..q : s[i] = m
  BY <1>3, <1>7, ListingIsBijection
<1> HIDE DEF q
<1>9. /\ t \in Seq(Entries) /\ Len(t) = q
      /\ \A i \in 1..q : t[i] = [move |-> s[i], score |-> 0]
  <2>1. Listed \ forbidden \in SUBSET Moves /\ 0 \in -2..13
    BY <1>3 DEF TypeOK
  <2>2. q \in Nat /\ s \in [1..q -> Listed \ forbidden]
    BY <1>8
  <2>3. \A i \in 1..q : [move |-> s[i], score |-> 0] \in Entries
    BY <2>1, <2>2 DEF Entries
  <2>4. t = [i \in 1..q |-> [move |-> s[i], score |-> 0]]
    BY <2>2 DEF Scored
  <2> QED
    BY <2>2, <2>3, <2>4
<1> HIDE DEF k, t
<1>10. /\ answer' \in Seq(Entries) /\ Len(answer') = NoMoves
       /\ \A i \in 1..k : answer'[i] = answer[i]
       /\ \A i \in 1..q : answer'[k + i] = t[i]
  <2>1. /\ answer \o t \in Seq(Entries)
        /\ Len(answer \o t) = k + q
        /\ \A i \in 1..k : (answer \o t)[i] = answer[i]
        /\ \A i \in 1..q : (answer \o t)[k + i] = t[i]
    <3>1. /\ answer \o t \in Seq(Entries)
          /\ Len(answer \o t) = k + q
          /\ \A i \in 1..(k + q) :
               (answer \o t)[i] = IF i <= k THEN answer[i] ELSE t[i - k]
      BY <1>6, <1>9, ConcatProperties DEF k
    <3>2. \A i \in 1..k : i \in 1..(k + q) /\ i <= k
      BY <1>7, <1>8
    <3>3. \A i \in 1..q : k + i \in 1..(k + q) /\ ~(k + i <= k) /\ (k + i) - k = i
      BY <1>7, <1>8
    <3> QED
      BY <3>1, <3>2, <3>3
  <2>2. k + q = NoMoves
    BY <1>3, <1>7, <1>8
  <2> QED
    BY <2>1, <2>2, <1>2 DEF t
<1>11. \A i \in 1..NoMoves : i \in 1..k \/ \E j \in 1..q : i = k + j
  <2> SUFFICES ASSUME NEW i \in 1..NoMoves, i \notin 1..k
               PROVE  \E j \in 1..q : i = k + j
    OBVIOUS
  <2>1. i - k \in 1..q /\ i = k + (i - k)
    BY <1>3, <1>7
  <2> QED
    BY <2>1
<1>12. \A j \in 1..q : answer'[k + j].move = s[j] /\ answer'[k + j].score = 0
  BY <1>9, <1>10
<1>13. \A i \in 1..k : answer[i].move \in Listed
  BY <1>6 DEF Found, k
<1>14. \A j \in 1..q : s[j] \in Listed \ forbidden /\ value[s[j]] = 0
  <2>1. \A m \in Listed \ forbidden : value[m] = 0
    BY <1>5
  <2> QED
    BY <2>1, <1>8
<1>15. \A i \in 1..NoMoves : /\ answer'[i].move \in Listed
                             /\ answer'[i].score = value[answer'[i].move]
  <2> SUFFICES ASSUME NEW i \in 1..NoMoves
               PROVE  /\ answer'[i].move \in Listed
                      /\ answer'[i].score = value[answer'[i].move]
    OBVIOUS
  <2>1. CASE i \in 1..k
    BY <2>1, <1>6, <1>10, <1>13 DEF k
  <2>2. CASE \E j \in 1..q : i = k + j
    BY <2>2, <1>12, <1>14
  <2> QED
    BY <2>1, <2>2, <1>11
<1>16. \A m \in Listed : \E i \in 1..NoMoves : answer'[i].move = m
  <2> SUFFICES ASSUME NEW m \in Listed
               PROVE  \E i \in 1..NoMoves : answer'[i].move = m
    OBVIOUS
  <2>1. CASE m \in forbidden
    <3>1. PICK i \in 1..k : answer[i].move = m
      BY <2>1, <1>6 DEF Found, k
    <3>2. i \in 1..NoMoves
      BY <3>1, <1>3, <1>7, <1>8
    <3> QED
      BY <3>1, <3>2, <1>10
  <2>2. CASE m \notin forbidden
    <3>1. PICK j \in 1..q : s[j] = m
      BY <2>2, <1>8
    <3>2. k + j \in 1..NoMoves
      BY <3>1, <1>3, <1>7, <1>8
    <3> QED
      BY <3>1, <3>2, <1>12
  <2> QED
    BY <2>1, <2>2
<1>17. \A i, j \in 1..NoMoves : i < j => answer'[i].score >= answer'[j].score
  <2> SUFFICES ASSUME NEW i \in 1..NoMoves, NEW j \in 1..NoMoves, i < j
               PROVE  answer'[i].score >= answer'[j].score
    OBVIOUS
  <2>1. CASE j \in 1..k
    <3>1. i \in 1..k
      BY <2>1, <1>7
    <3> QED
      BY <2>1, <3>1, <1>6, <1>10 DEF k
  <2>2. CASE \E l \in 1..q : j = k + l
    <3>1. answer'[j].score = 0
      BY <2>2, <1>12
    <3>2. answer'[i].score \in 0..13
      BY <1>5, <1>15
    <3> QED
      BY <3>1, <3>2
  <2> QED
    BY <2>1, <2>2, <1>11
<1>18. TypeOK'
  BY <1>1, <1>3, <1>10, CloseKeeps DEF TypeOK
<1>19. AllReturned'
  <2>1. ReturnedMoves' = {answer'[i].move : i \in 1..NoMoves}
    BY <1>1, CloseKeeps DEF ReturnedMoves, Returned
  <2>2. ReturnedMoves' = Listed'
    BY <2>1, <1>15, <1>16, CloseKeeps
  <2>3. \A e \in Returned' : e.score = value'[e.move]
    BY <1>1, <1>15, CloseKeeps DEF Returned
  <2> QED
    BY <2>2, <2>3, <1>1, <1>10, <1>17, CloseKeeps DEF AllReturned
<1> QED
  BY <1>1, <1>18, <1>19, CloseKeeps DEF AInv, Fresh, Served, Leads, Collects,
     Matches, Completes, Searching, Targeted

-----------------------------------------------------------------------------
(* Targets, and the other moves of solutions 2. *)

LEMMA SearchTargetAnswers ==
  ASSUME IInv, AInv, SearchTarget
  PROVE  AInv'
<1>1. /\ pc = "start" /\ Targeted /\ request' = request
      /\ request.kind \in {"target1", "target2"}
      /\ lower' = lower /\ upper' = upper /\ guess' = guess /\ mv' = mv
      /\ forbidden' = forbidden
  BY DEF SearchTarget, Bookkeeping, Targeted
<1>2. value' = value /\ base' = base /\ Listed' = Listed /\ NoMoves' = NoMoves
      /\ Orders' = Orders
  BY PositionKept DEF Next, Step
<1>3. TypeOK /\ Listed # {} /\ NoMoves \in Nat /\ NoMoves >= 1
      /\ value \in [Listed -> 0..13]
  BY ListedIsFinite DEF IInv, Shape, AInv, TypeOK
<1>4. forbidden = {}
  BY <1>1 DEF IInv, Starts
<1>5. request.n \in 1..13
  BY <1>1, <1>3, RequestBounds DEF TypeOK
<1>6. order' \in Orders
  BY <1>3, ListOrdersTyped DEF SearchTarget
<1>7. CASE \E m \in Listed :
             /\ Succeeds(request.n, forbidden, order', m)
             /\ best' = m /\ cards' = 1
             /\ answer' = <<[move |-> m, score |-> request.n]>>
             /\ pc' = IF request.kind = "target2" THEN "others" ELSE "stats"
  <2>1. PICK m \in Listed :
             /\ Succeeds(request.n, forbidden, order', m)
             /\ best' = m /\ cards' = 1
             /\ answer' = <<[move |-> m, score |-> request.n]>>
             /\ pc' = IF request.kind = "target2" THEN "others" ELSE "stats"
    BY <1>7
  <2>2. /\ answer' \in Seq(Entries) /\ Len(answer') = 1
        /\ Score' = request.n /\ answer'[1].move = m
        /\ Found' = {m} /\ Distinct' /\ NoneTwice'
        /\ Returned' = {[move |-> m, score |-> request.n]}
        /\ ReturnedMoves' = {m}
    <3>1. m \in Listed' /\ Listed' \subseteq Moves /\ request.n \in 0..13
      BY <1>2, <1>3, <1>5 DEF TypeOK
    <3> QED
      BY <2>1, <3>1, OneEntryNext DEF OneEntryAnswers
  <2>3. TypeOK'
    BY <1>1, <1>2, <1>3, <1>6, <2>1, <2>2 DEF TypeOK
  <2>4. value[m] >= request.n
    BY <2>1 DEF Succeeds
  <2>5. request.kind = "target2" => Matches'
    <3>1. First(best, Score)'
      BY <2>1, <2>2, <1>2, <1>4, <1>1 DEF First, Succeeds
    <3>2. \A i \in 1..Len(answer') :
             answer'[i].score = Score' /\ value'[answer'[i].move] >= Score'
      BY <1>2, <2>2, <2>4 DEF Score
    <3> QED
      BY <3>1, <3>2, <1>1, <1>2, <1>4, <2>1, <2>2 DEF Matches
  <2>6. request.kind = "target1" => TargetReturned'
    BY <1>1, <1>2, <2>1, <2>2, <2>4 DEF TargetReturned
  <2> QED
    BY <1>1, <2>1, <2>3, <2>5, <2>6 DEF AInv, Fresh, Served, Leads, Collects,
       Matches, Completes, Searching, Targeted
<1>8. CASE /\ Fails(request.n, forbidden)
           /\ answer' = <<[move |-> Null,
                           score |-> IF request.n > 1 THEN -1 ELSE 0]>>
           /\ cards' = 0 /\ pc' = "stats" /\ best' = best
  <2> DEFINE x == IF request.n > 1 THEN -1 ELSE 0
  <2>1. [move |-> Null, score |-> x] \in Entries /\ x \in {-1, 0}
    BY DEF Entries
  <2>2. /\ answer' \in Seq(Entries) /\ answer'[1].score = x
    BY <1>8, <2>1, SingleFacts
  <2>3. TypeOK'
    BY <1>1, <1>2, <1>3, <1>6, <1>8, <2>2 DEF TypeOK
  <2>4. \A m \in Listed : value[m] < request.n
    BY <1>4, <1>8 DEF Fails
  <2>5. x = 0 => IsMax(0, Listed)
    <3> SUFFICES ASSUME x = 0 PROVE IsMax(0, Listed)
      OBVIOUS
    <3>1. request.n = 1
      BY <1>5
    <3>2. \A m \in Listed : value[m] = 0
      BY <1>3, <2>4, <3>1
    <3> QED
      BY <3>2, <1>3 DEF IsMax
  <2>6. ~ \E m \in Listed' : value'[m] >= request'.n
    BY <1>1, <1>2, <1>3, <1>5, <2>4
  <2>7. answer'[1].score = 0 => IsMax(0, Listed)'
    BY <1>2, <2>2, <2>5 DEF IsMax
  <2>8. answer'[1].score \in {-1, 0}
    BY <2>1, <2>2
  <2>9. TargetReturned'
    BY <1>8, <2>6, <2>7, <2>8 DEF TargetReturned
  <2> QED
    BY <1>1, <1>8, <2>3, <2>9 DEF AInv, Fresh, Served, Leads, Collects,
       Matches, Completes, Searching, Targeted
<1> QED
  BY <1>7, <1>8 DEF SearchTarget

(* What solutions 2 ends with: every move that takes the score is found.   *)
LEMMA MatchedAll ==
  ASSUME IInv, AInv, pc = "others",
         \A m \in Listed : value[m] >= Score => m \in Found
  PROVE  /\ request.kind = "best" => BestReturned
         /\ Targeted => TargetReturned
         /\ request.kind # "all"
<1>1. /\ \/ request.kind = "best" /\ request.n = 2 /\ IsMax(Score, Listed)
         \/ request.kind = "target2" /\ request.n = Score
      /\ Len(answer) >= 1 /\ cards = Len(answer)
      /\ Distinct /\ Found \subseteq Listed
      /\ \A i \in 1..Len(answer) :
           answer[i].score = Score /\ value[answer[i].move] >= Score
      /\ value \in [Listed -> 0..13]
  BY DEF AInv, Matches, TypeOK
<1>2. Score \in 0..13
  BY ScoreTyped
<1>3. ReturnedMoves = Found /\ NoneTwice
  BY <1>1 DEF ReturnedMoves, Returned, Found, NoneTwice, Distinct
<1>4. \A e \in Returned : e.score = Score /\ value[e.move] >= Score
                          /\ e.move \in Listed
  BY <1>1, <1>3 DEF Returned, ReturnedMoves
<1>5. CASE request.kind = "best" /\ request.n = 2 /\ IsMax(Score, Listed)
  <2>1. \A m \in Listed : value[m] <= Score
    BY <1>5 DEF IsMax
  <2>2. \A e \in Returned : e.score = value[e.move]
    BY <1>1, <1>2, <1>4, <2>1
  <2>3. \A e \in Returned : IsMax(e.score, Listed)
    BY <1>4, <1>5
  <2>4. \A m \in Listed : IsMax(value[m], Listed) => m \in ReturnedMoves
    <3> SUFFICES ASSUME NEW m \in Listed, IsMax(value[m], Listed)
                 PROVE  m \in ReturnedMoves
      OBVIOUS
    <3>1. PICK n \in Listed : value[n] = Score
      BY <1>5 DEF IsMax
    <3>2. value[m] >= Score
      BY <1>1, <1>2, <3>1 DEF IsMax
    <3> QED
      BY <3>2, <1>3
  <2>5. BestReturned
    BY <1>3, <1>5, <2>2, <2>3, <2>4 DEF BestReturned
  <2> QED
    BY <1>5, <2>5 DEF Targeted
<1>6. CASE request.kind = "target2" /\ request.n = Score
  <2>1. \E m \in Listed : value[m] >= request.n
    <3>1. answer[1].move \in Found /\ value[answer[1].move] >= Score
      BY <1>1 DEF Found
    <3> QED
      BY <3>1, <1>1, <1>6
  <2>2. TargetReturned
    BY <2>1, <1>3, <1>4, <1>6 DEF TargetReturned
  <2> QED
    BY <1>6, <2>2
<1> QED
  BY <1>1, <1>5, <1>6

LEMMA ReturnedKept ==
  ASSUME value' = value, Listed' = Listed, NoMoves' = NoMoves,
         request' = request, answer' = answer, cards' = cards
  PROVE  /\ AllReturned' = AllReturned /\ BestReturned' = BestReturned
         /\ TargetReturned' = TargetReturned /\ Targeted' = Targeted
BY DEF AllReturned, BestReturned, TargetReturned, OneCardPromised, Returned,
       ReturnedMoves, NoneTwice, IsMax, Targeted

(* The moves that are passed over and take the score are answered.         *)
LEMMA PassedAreFound ==
  ASSUME IInv, AInv, pc = "others"
  PROVE  /\ best \in Passed
         /\ \A m \in forbidden \union Passed : value[m] >= Score => m \in Found
         /\ Found \subseteq forbidden \union Passed
<1>1. /\ \A m \in forbidden : value[m] >= Score => m \in Found
      /\ Found \subseteq forbidden \union {best}
      /\ best \in Found /\ First(best, Score)
  BY DEF AInv, Matches
<1>2. /\ order \in [Listed -> 1..NoMoves] /\ value \in [Listed -> 0..13]
      /\ \A m, n \in Listed : order[m] = order[n] => m = n
      /\ NoMoves \in Nat
  BY ListedIsFinite DEF IInv, Shape, AInv, TypeOK, Orders
<1>3. best \in Listed \ forbidden
  BY <1>1 DEF First
<1>4. best \in Passed
  BY <1>2, <1>3 DEF Passed
<1>5. \A m \in Passed : value[m] >= Score => m = best
  <2> SUFFICES ASSUME NEW m \in Passed, value[m] >= Score, m # best
               PROVE  FALSE
    OBVIOUS
  <2>1. m \in Listed \ forbidden /\ order[m] <= order[best]
    BY DEF Passed
  <2>2. order[m] < order[best]
    BY <2>1, <1>2, <1>3
  <2>3. value[m] < Score
    BY <2>1, <2>2, <1>1 DEF First
  <2>4. Score \in 0..13 /\ value[m] \in 0..13
    BY <2>1, <1>2, ScoreTyped
  <2> QED
    BY <2>3, <2>4
<1> QED
  BY <1>1, <1>4, <1>5

LEMMA SearchOthersAnswers ==
  ASSUME IInv, AInv, SearchOthers
  PROVE  AInv'
<1>1. /\ pc = "others" /\ Len(answer) < NoMoves
      /\ forbidden' = forbidden \union Passed /\ request' = request
  BY DEF SearchOthers, Bookkeeping
<1>2. value' = value /\ base' = base /\ Listed' = Listed /\ NoMoves' = NoMoves
      /\ Orders' = Orders
  BY PositionKept DEF Next, Step
<1>3. TypeOK'
  BY SearchOthersTyped
<1>4. /\ best \in Passed
      /\ \A m \in forbidden' : value[m] >= Score => m \in Found
      /\ Found \subseteq forbidden'
  BY <1>1, PassedAreFound
<1>5. CASE \E m \in Listed :
             /\ Succeeds(Score, forbidden', order', m)
             /\ best' = m /\ pc' = pc
             /\ answer' = Append(answer, [move |-> m, score |-> Score])
             /\ cards' = Len(answer')
  <2>1. PICK m \in Listed :
             /\ Succeeds(Score, forbidden', order', m)
             /\ best' = m /\ pc' = pc
             /\ answer' = Append(answer, [move |-> m, score |-> Score])
             /\ cards' = Len(answer')
    BY <1>5
  <2>2. /\ m \notin forbidden' /\ value[m] >= Score
        /\ \A n \in Listed \ forbidden' : order'[n] < order'[m] => value[n] < Score
    BY <2>1 DEF Succeeds
  <2>3. /\ \/ request.kind = "best" /\ request.n = 2 /\ IsMax(Score, Listed)
           \/ request.kind = "target2" /\ request.n = Score
        /\ Len(answer) >= 1
        /\ Distinct /\ Found \subseteq Listed
        /\ \A i \in 1..Len(answer) :
             answer[i].score = Score /\ value[answer[i].move] >= Score
        /\ answer \in Seq(Entries)
    BY <1>1 DEF AInv, Matches, TypeOK
  <2>4. [move |-> m, score |-> Score] \in Entries
    BY <1>1, ScoreTyped DEF AInv, TypeOK, Entries
  <2> DEFINE k == Len(answer)
             e == [move |-> m, score |-> Score]
  <2>5. /\ answer' \in Seq(Entries) /\ k \in Nat /\ Len(answer') = k + 1
        /\ \A i \in 1..k : answer'[i] = answer[i]
        /\ answer'[k + 1] = e
    BY <2>1, <2>3, <2>4, AppendFacts
  <2>6. e.move = m /\ e.score = Score
    OBVIOUS
  <2>7. \A i \in 1..(k + 1) : i \in 1..k \/ i = k + 1
    BY <2>5
  <2>8. Score' = Score
    BY <2>3, <2>5 DEF Score
  <2>9. Found' = Found \union {m}
    <3>1. Found' = {answer'[i].move : i \in 1..(k + 1)}
      BY <2>5 DEF Found
    <3>2. {answer'[i].move : i \in 1..(k + 1)} =
            {answer[i].move : i \in 1..k} \union {m}
      BY <2>5, <2>6, <2>7
    <3> QED
      BY <3>1, <3>2 DEF Found
  <2>10. Distinct'
    <3>1. \A i \in 1..k : answer'[i].move # m
      BY <1>4, <2>2, <2>5 DEF Found
    <3>2. \A i, j \in 1..(k + 1) : answer'[i].move = answer'[j].move => i = j
      BY <3>1, <2>3, <2>5, <2>6, <2>7 DEF Distinct
    <3> QED
      BY <3>2, <2>5 DEF Distinct
  <2>11. \A i \in 1..(k + 1) :
           answer'[i].score = Score /\ value[answer'[i].move] >= Score
    BY <2>2, <2>3, <2>5, <2>6, <2>7
  <2>12. First(best, Score)'
    BY <2>1, <2>2, <2>8, <1>2 DEF First
  <2>13. IsMax(Score, Listed) => IsMax(Score, Listed)'
    BY <2>8, <1>2 DEF IsMax
  <2> HIDE DEF k, e
  <2>14. Len(answer') >= 1 /\ cards' = Len(answer')
    BY <2>1, <2>3, <2>5 DEF k
  <2>15. Matches'
    <3>1. \/ request'.kind = "best" /\ request'.n = 2 /\ IsMax(Score, Listed)'
          \/ request'.kind = "target2" /\ request'.n = Score'
      BY <1>1, <2>3, <2>8, <2>13
    <3>2. \A n \in forbidden' : value'[n] >= Score' => n \in Found'
      BY <1>2, <1>4, <2>8, <2>9
    <3>3. Found' \subseteq forbidden' \union {best'} /\ best' \in Found'
      BY <1>4, <2>1, <2>9
    <3>4. Found' \subseteq Listed'
      BY <1>2, <2>3, <2>9
    <3>5. \A i \in 1..Len(answer') :
            answer'[i].score = Score' /\ value'[answer'[i].move] >= Score'
      BY <1>2, <2>5, <2>8, <2>11
    <3> QED
      BY <3>1, <3>2, <3>3, <3>4, <3>5, <2>10, <2>12, <2>14 DEF Matches
  <2> QED
    BY <1>1, <1>3, <2>1, <2>15 DEF AInv, Fresh, Served, Leads, Collects,
       Completes, Searching
<1>6. CASE /\ Fails(Score, forbidden')
           /\ pc' = "stats" /\ best' = best /\ answer' = answer /\ cards' = cards
  <2>1. \A m \in Listed \ forbidden' : value[m] < Score
    BY <1>6 DEF Fails
  <2>2. \A m \in Listed : value[m] >= Score => m \in Found
    BY <1>1, <1>4, <2>1, ScoreTyped DEF AInv, TypeOK
  <2>3. /\ request.kind = "best" => BestReturned
        /\ Targeted => TargetReturned
        /\ request.kind # "all"
    BY <1>1, <2>2, MatchedAll
  <2>4. Completes'
    BY <1>1, <1>2, <1>6, <2>3, ReturnedKept DEF Completes
  <2> QED
    BY <1>3, <1>6, <2>4 DEF AInv, Fresh, Served, Leads, Collects, Matches,
       Searching
<1> QED
  BY <1>5, <1>6 DEF SearchOthers, Score

LEMMA OthersExhaustedAnswers ==
  ASSUME IInv, AInv, OthersExhausted
  PROVE  AInv'
<1>1. /\ pc = "others" /\ Len(answer) >= NoMoves /\ pc' = "stats"
      /\ request' = request /\ answer' = answer /\ cards' = cards
      /\ lower' = lower /\ upper' = upper /\ guess' = guess /\ order' = order
      /\ best' = best /\ mv' = mv /\ forbidden' = forbidden
  BY DEF OthersExhausted, Bookkeeping
<1>2. value' = value /\ base' = base /\ Listed' = Listed /\ NoMoves' = NoMoves
      /\ Orders' = Orders
  BY PositionKept DEF Next, Step
<1>3. TypeOK'
  BY <1>1, <1>2 DEF AInv, TypeOK
<1>4. Distinct /\ Found \subseteq Listed /\ answer \in Seq(Entries)
  BY <1>1 DEF AInv, Matches, TypeOK
<1>5. IsFiniteSet(Listed) /\ NoMoves \in Nat /\ Cardinality(Listed) = NoMoves
  BY ListedIsFinite DEF IInv, Shape, AInv, TypeOK, NoMoves
<1>6. Listed \subseteq Found
  <2> DEFINE k == Len(answer)
             f == [i \in 1..k |-> answer[i].move]
  <2>1. k \in Nat
    BY <1>4
  <2>2. f \in Injection(1..k, Listed)
    BY <1>4 DEF Found, Distinct, Injection, IsInjective
  <2>3. \A i \in 1..k : f[i] = answer[i].move
    OBVIOUS
  <2> HIDE DEF f, k
  <2>4. IsFiniteSet(1..k) /\ Cardinality(1..k) = k
    BY <2>1, FS_Interval
  <2>5. k <= NoMoves
    BY <2>2, <2>4, <1>5, FS_Injection
  <2>6. k = NoMoves
    BY <2>1, <2>5, <1>1, <1>5 DEF k
  <2>7. f \in Surjection(1..k, Listed)
    BY <2>2, <2>4, <2>6, <1>5, FS_Injection
  <2>8. \A m \in Listed : \E i \in 1..k : f[i] = m
    BY <2>7 DEF Surjection
  <2> QED
    BY <2>3, <2>8 DEF Found, k
<1>7. /\ request.kind = "best" => BestReturned
      /\ Targeted => TargetReturned
      /\ request.kind # "all"
  BY <1>1, <1>6, MatchedAll
<1>8. Completes'
  BY <1>1, <1>2, <1>7, ReturnedKept DEF Completes
<1> QED
  BY <1>1, <1>3, <1>8 DEF AInv, Fresh, Served, Leads, Collects, Matches,
     Searching

THEOREM AnswersInvariant == Spec => [](IInv /\ AInv)
<1>1. Init => IInv /\ AInv
  BY InitHolds, InitAnswers
<1>2. IInv /\ AInv /\ [Next]_vars => AInv'
  BY NoSearchAnswers, OpenAnswers, SearchAnswers, CloseRepeatAnswers,
     CloseBestZeroAnswers, CloseBestAnswers, CloseAllAnswers,
     CloseAllZeroAnswers, SearchTargetAnswers, SearchOthersAnswers,
     OthersExhaustedAnswers, StatsAnswers, RepeatAnswers, StutterAnswers
     DEF Next, Step
<1> QED
  BY <1>1, <1>2, WindowsInvariant, PTL DEF Spec

(* TypeOK: the variables of a call keep their types; in particular a       *)
(* window never leaves the tricks of a deal and the answer has no more     *)
(* cards than the root has moves.                                          *)
THEOREM TypesKept == Spec => []TypeOK
BY AnswersInvariant, PTL DEF AInv

(* AnswersAreRight: for every set of moves, every value of them and every  *)
(* order of their list, solutions 1, 2 and 3 return the cards they ask     *)
(* for, each once, with their scores, and no others; how many cards come   *)
(* with a target out of reach and solutions 2 is left open.                *)
THEOREM AnswersAlwaysRight == Spec => []AnswersAreRight
<1>1. IInv /\ AInv => AnswersAreRight
  BY DEF AInv, Completes, AnswersAreRight, AllCards, BestCards, TargetCards
<1> QED
  BY <1>1, AnswersInvariant, PTL
=============================================================================
