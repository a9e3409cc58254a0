-------------------------------- MODULE Batch --------------------------------
(***************************************************************************)
(* The batch entry points: tables of one deal and of many                  *)
(* (library/src/calc_tables.cpp, calc_dd_table.cpp) and lists of boards    *)
(* (solve_board.cpp).  Each spreads its request into numbered boards, lets *)
(* parallel_all_boards_n process them, on the threads of the pool or on    *)
(* the caller's own, and puts what came back where the caller looks for    *)
(* it.  The pool is BatchCall, which BoardPool implements: boards are      *)
(* begun in any order, several at a time.                                  *)
(*                                                                         *)
(* A table takes four searches of a board, one for each leader.  Only the  *)
(* first names the deal; the repeats go on from the position that the last *)
(* solve in their context left there.                                      *)
(***************************************************************************)
EXTENDS Integers, Sequences, FiniteSets

CONSTANTS
  Deals,          \* the cards of a request's boards and tables
  Faulty,         \* deals solve_board answers with an error code
  Unreadable,     \* deals whose PBN text convert_from_pbn rejects
  Value,          \* [deal -> [trump -> [leader -> tricks of its side]]]
  DDS_STRAINS,
  MAXNOOFTABLES,
  MaxThreads,     \* threads of the pool
  MaxThrows,      \* bound: the exceptions of one call
  MaxTables,      \* bound: the deals of one call
  Requests        \* bound: the calls clients make, [1..n -> sets of requests]

Hands == 0..3
Strains == 0..(DDS_STRAINS - 1)
Tricks == 0..13
MAXNOOFBOARDS == MAXNOOFTABLES * DDS_STRAINS

(* The entry points:                                                       *)
(*   table    CalcDDtableN, one table              (pbn: CalcDDtablePBNN)  *)
(*   context  calc_dd_table, in a context of the caller's                  *)
(*   tables   CalcAllTablesN                     (pbn: CalcAllTablesPBNN)  *)
(*   tablesX  CalcAllTablesX                     (pbn: CalcAllTablesPBNX)  *)
(*   solve    SolveAllBoardsBinN                   (pbn: SolveAllBoardsN)  *)
(*   seq      SolveAllBoardsBinSeq               (pbn: SolveAllBoardsSeq)  *)
(*   chunks   SolveAllChunksBin                    (pbn: SolveAllChunks)   *)
TableEntries == {"table", "context", "tables", "tablesX"}
SolveEntries == {"solve", "seq", "chunks"}

RequestSet ==
  [entry : TableEntries \union SolveEntries, pbn : BOOLEAN, deals : Seq(Deals),
   filter : SUBSET Strains,   \* strains left out: trumpFilter not 0
   mode : {-1, 0},            \* -1: no par
   par : BOOLEAN,             \* did the caller give room for the pars?
   threads : 1..MaxThreads,
   chunkSize : {0, 1}]

ASSUME SizesAssumption ==
  /\ DDS_STRAINS \in Nat \ {0}
  /\ MAXNOOFTABLES \in Nat \ {0}
  /\ MaxThreads \in Nat \ {0}
  /\ MaxTables \in Nat
  /\ MaxThrows \in Nat

ASSUME DealsAssumption ==
  /\ Deals # {}
  /\ Faulty \subseteq Deals
  /\ Unreadable \subseteq Deals
  /\ Value \in [Deals -> [Strains -> [Hands -> Tricks]]]

(* A table of one deal is asked for one deal and all strains. *)
ASSUME RequestsAssumption ==
  /\ Requests \in Seq(SUBSET RequestSet)
  /\ \A k \in DOMAIN Requests : \A r \in Requests[k] :
       /\ Len(r.deals) <= MaxTables
       /\ r.entry \in {"table", "context"} => Len(r.deals) = 1 /\ r.filter = {}

VARIABLES
  phase, batch, started, active, reports, result,  \* the call of the pool
  call,      \* the request being served, or served last
  calls,     \* requests so far
  answer,    \* what the entry point returned, "pending" until it does
  boards,    \* bo.deals: [0..n-1 -> [deal, trump]]
  busy,      \* [Threads -> what its process_board is doing]
  position,  \* [Threads -> the board last loaded into the thread's context]
  scores,    \* solved.solved_board: [board -> [leader -> score]]
  counted,   \* no_of_boards of the results
  results,   \* the caller's tables: [m -> [strain -> [declarer -> tricks]]]
  pars       \* the caller's pars: [m -> the table the par was computed from]

pool == <<phase, batch, started, active, reports, result>>
outputs == <<counted, results, pars>>
vars == <<pool, call, calls, answer, boards, busy, position, scores, outputs>>

NoFault == "no_fault"
Unknown == "unknown_fault"
Thrown == "thrown"
DealFault == "deal_fault"

Call == INSTANCE BatchCall WITH
  Clients <- {"caller"},
  MaxCount <- MaxTables * DDS_STRAINS,
  RETURN_NO_FAULT <- NoFault,
  RETURN_UNKNOWN_FAULT <- Unknown,
  FaultCodes <- {DealFault}

c == "caller"

(* Each thread has one context for life (worker_solver_context): the       *)
(* caller's is 0, the pool's are 1, 2, ...; a context given by the caller  *)
(* of calc_dd_table comes after them.                                      *)
Given == MaxThreads + 1
Threads == 0..Given

None == -1
Idle == [board |-> None, first |-> 0, fut |-> 0]
NoScores == [first \in Hands |-> None]
BoardNumbers == 0..(MaxTables * DDS_STRAINS - 1)
TableNumbers == 0..(MaxTables - 1)
NoTable == [strain \in Strains |-> [hand \in Hands |-> None]]
NoRequest == [entry |-> "none"]
NoPosition == [deal |-> "none"]

Init ==
  /\ Call!Init
  /\ call = NoRequest
  /\ calls = 0
  /\ answer = NoFault
  /\ boards = <<>>
  /\ busy = [t \in Threads |-> Idle]
  /\ position = [t \in Threads |-> NoPosition]
  /\ scores = [b \in BoardNumbers |-> NoScores]
  /\ counted = 0
  /\ results = [m \in TableNumbers |-> NoTable]
  /\ pars = [m \in TableNumbers |-> NoTable]

-----------------------------------------------------------------------------
(* Refusing a request *)

Included(r) == Strains \ r.filter
BoardCount(r) ==
  IF r.entry \in SolveEntries THEN Len(r.deals)
  ELSE Cardinality(Included(r)) * Len(r.deals)

CannotRead(r) == r.pbn /\ \E k \in DOMAIN r.deals : r.deals[k] \in Unreadable
WantsPar(r) == r.mode = 0 /\ Included(r) = Strains

(* Mutant of TooManyTables: the strains are forgotten. *)
TooManyDeals(r) == Len(r.deals) > MAXNOOFTABLES * DDS_STRAINS

(* CalcAllTablesN holds its tables in arrays: count * no_of_tables boards. *)
TooManyTables(r) == Cardinality(Included(r)) * Len(r.deals) > MAXNOOFTABLES * DDS_STRAINS

(* The code a request is refused with, the first that applies. *)
Refusal(r) ==
  CASE r.entry \in {"table", "context"} ->
         IF CannotRead(r) THEN "pbn_fault" ELSE NoFault
    [] r.entry = "tables" ->
         IF CannotRead(r) THEN "pbn_fault"
         ELSE IF Included(r) = {} THEN "no_suit"
         ELSE IF TooManyTables(r) THEN "too_many_tables" ELSE NoFault
    [] r.entry = "tablesX" ->
         IF r.deals = <<>> THEN NoFault
         ELSE IF CannotRead(r) THEN "pbn_fault"
         ELSE IF Included(r) = {} THEN "no_suit"
         ELSE IF WantsPar(r) /\ ~r.par THEN Unknown ELSE NoFault
    [] OTHER ->
         IF r.entry = "chunks" /\ r.chunkSize < 1 THEN "chunk_size"
         ELSE IF Len(r.deals) > MAXNOOFBOARDS THEN "too_many_boards"
         ELSE IF CannotRead(r) THEN "pbn_fault" ELSE NoFault

NewCall(r) ==
  /\ phase[c] = "idle"
  /\ calls < Len(Requests)
  /\ r \in Requests[calls + 1]
  /\ calls' = calls + 1
  /\ call' = r

(* resp->no_of_boards is cleared once the filter and the number of tables  *)
(* were accepted; a refusal leaves everything as it was.                   *)
Refuse(r) ==
  /\ NewCall(r)
  /\ Refusal(r) # NoFault
  /\ answer' = Refusal(r)
  /\ boards' = <<>>
  /\ UNCHANGED <<pool, busy, position, scores, outputs>>

-----------------------------------------------------------------------------
(* Numbering the boards *)

(* The strains of a table go from no trump down to spades. *)
Strain(included, index) ==
  CHOOSE s \in included :
    Cardinality({t \in included : t > s}) = index

(* For each table, the boards of its strains follow each other. *)
BoardsOf(r) ==
  LET count == Cardinality(Included(r))
  IN  [k \in 0..(BoardCount(r) - 1) |->
         IF r.entry \in SolveEntries THEN [deal |-> r.deals[k + 1], trump |-> 0]
         ELSE [deal |-> r.deals[(k \div count) + 1],
               trump |-> Strain(Included(r), k % count)]]

(* CalcAllTablesN sets no_of_boards to lastIndex + 1, which is one board   *)
(* that was never filled when there are no tables: it holds anything.      *)
Filled(r) ==
  IF r.entry = "tables" /\ r.deals = <<>>
  THEN {[k \in {0} |-> [deal |-> deal, trump |-> trump]] :
          deal \in Deals, trump \in Strains}
  ELSE {BoardsOf(r)}

(* Does the call run on the caller's thread alone? *)
Inline(r, n) == r.entry \in {"context", "seq"} \/ r.threads = 1 \/ n = 1

(* Mutant of Cleared: the answers of the call before stay. *)
KeptScores == scores

(* cards = 0 marks the boards without an answer. *)
Cleared == [b \in BoardNumbers |-> NoScores]

Begin(r) ==
  /\ NewCall(r)
  /\ Refusal(r) = NoFault
  /\ boards' \in Filled(r)
  /\ LET n == Cardinality(DOMAIN boards')
     IN  /\ n > 0
         /\ Call!Begin(c)
         /\ batch'[c] = 0..(n - 1)
         /\ phase'[c] = IF Inline(r, n) THEN "inline" ELSE "pool"
  /\ answer' = "pending"
  /\ scores' = Cleared
  /\ counted' = IF r.entry = "tables" THEN 0 ELSE counted
  /\ UNCHANGED <<busy, position, results, pars>>

(* Nothing to do: CalcAllTablesX without deals, a list without boards. *)
BeginEmpty(r) ==
  /\ NewCall(r)
  /\ Refusal(r) = NoFault
  /\ BoardCount(r) = 0
  /\ r.entry # "tables"
  /\ Call!EmptyCall(c)
  /\ answer' = NoFault
  /\ boards' = <<>>
  /\ scores' = IF r.entry = "tablesX" THEN scores ELSE Cleared
  /\ counted' = IF r.entry = "tablesX" THEN counted ELSE 0
  /\ UNCHANGED <<busy, position, results, pars>>

-----------------------------------------------------------------------------
(* Processing one board *)

(* The thread that may take board b next: the caller's own takes them in   *)
(* the order of the list and stops at the first error.                     *)
MayTake(t, b) ==
  IF phase[c] = "inline"
  THEN /\ t = IF call.entry = "context" THEN Given ELSE 0
       /\ reports[c] = <<>>
       /\ b = Cardinality(started[c])
  ELSE t \in 1..call.threads /\ t <= Cardinality(batch[c])

Take(t, b) ==
  /\ phase[c] # "idle"
  /\ busy[t] = Idle
  /\ b \in batch[c] \ started[c]
  /\ MayTake(t, b)
  /\ Call!Start(c)
  /\ started' = [started EXCEPT ![c] = @ \union {b}]
  /\ busy' = [busy EXCEPT ![t] = [board |-> b, first |-> 0, fut |-> 0]]
  /\ UNCHANGED <<call, calls, answer, boards, position, scores, outputs>>

Ends(t, outcome) ==
  /\ Call!End(c)
  /\ active' = [active EXCEPT ![c] = @ \ {busy[t].board}]
  /\ reports' = [reports EXCEPT
       ![c] = IF outcome = NoFault THEN @ ELSE Append(@, outcome)]
  /\ busy' = [busy EXCEPT ![t] = Idle]
  /\ UNCHANGED <<call, calls, answer, boards, outputs>>

(* Mutant of Context: one context serves every thread. *)
SharedContext(t) == 0

(* The context a thread works in. *)
Context(t) == t

Records(t, first, score) ==
  scores' = [scores EXCEPT ![busy[t].board][first] = score]

(* solve_board loads the deal into the context and searches it. *)
Solve(t) ==
  /\ busy[t] # Idle
  /\ busy[t].first = 0
  /\ LET board == boards[busy[t].board]
         score == Value[board.deal][board.trump][0]
     IN  /\ board.deal \notin Faulty
         /\ position' = [position EXCEPT ![Context(t)] = board]
         /\ Records(t, 0, score)
         /\ IF call.entry \in SolveEntries THEN Ends(t, NoFault)
            ELSE /\ busy' = [busy EXCEPT ![t].first = 1, ![t].fut = score]
                 /\ UNCHANGED <<pool, call, calls, answer, boards, outputs>>

(* The solve returns an error code, or it throws, or a repeat does.        *)
(* Whatever that leaves in the context, its next board begins with a solve *)
(* of its own.                                                             *)
SolveFails(t) ==
  /\ busy[t] # Idle
  /\ \/ /\ busy[t].first = 0
        /\ boards[busy[t].board].deal \in Faulty
        /\ Ends(t, DealFault)
     \/ /\ Cardinality({i \in DOMAIN reports[c] : reports[c][i] = Thrown}) < MaxThrows
        /\ Ends(t, Thrown)
  /\ UNCHANGED <<position, scores>>

(* Mutant of HintFor: the tricks of the other side are counted from one.   *)
HintPlusOne(first, fut) == IF first = 2 THEN fut ELSE 14 - fut

(* The hint of a repeat, from the score of the leader before. *)
HintFor(first, fut) == IF first = 2 THEN fut ELSE 13 - fut

(* solve_same_board searches the position in the context from its hint.    *)
(* Its loop finds the value from every possible score (SearchWindows).     *)
SameBoardScores(board, first, hint) ==
  IF hint \in Tricks THEN {Value[board.deal][board.trump][first]} ELSE Tricks

Repeat(t) ==
  LET first == busy[t].first
  IN  /\ busy[t] # Idle
      /\ first > 0
      /\ \E score \in SameBoardScores(position[Context(t)], first,
                                      HintFor(first, busy[t].fut)) :
           /\ Records(t, first, score)
           /\ IF first = 3 THEN Ends(t, NoFault)
              ELSE /\ busy' = [busy EXCEPT ![t].first = first + 1, ![t].fut = score]
                   /\ UNCHANGED <<pool, call, calls, answer, boards, outputs>>
      /\ UNCHANGED position

-----------------------------------------------------------------------------
(* Delivering the results *)

(* The declarer against whom a hand leads is the one on its right. *)
rho == [hand \in Hands |-> (hand + 3) % 4]

(* The boards of table m, index = m * count + strainIndex. *)
BoardsOfTable(r, m) ==
  LET count == Cardinality(Included(r))
  IN  (m * count)..(m * count + count - 1)

(* Mutant of OtherRow: the table is cleared before it is filled. *)
ClearedRow(m, strain) == NoTable[strain]

(* The rows no board was solved for stay as they were. *)
OtherRow(m, strain) == results[m][strain]

(* The table m: each board fills the row of its trump. *)
FilledTable(m) ==
  [strain \in Strains |->
     IF \E b \in BoardsOfTable(call, m) : boards[b].trump = strain
     THEN LET b == CHOOSE b \in BoardsOfTable(call, m) : boards[b].trump = strain
          IN  [declarer \in Hands |->
                 13 - scores[b][CHOOSE first \in Hands : rho[first] = declarer]]
     ELSE OtherRow(m, strain)]

Asked(r) == 0..(Len(r.deals) - 1)

(* Mutant of ParTable: the pars come before the results. *)
StaleTable(m) == results[m]

(* The table Par is given. *)
ParTable(m) == results'[m]

(* The verdict of the pool reaches the caller; CalcAllTablesX lets no      *)
(* exception through.  Only after a success are the results filled in, and *)
(* then the pars computed from them.                                       *)
Deliver ==
  /\ answer = "pending"
  /\ Call!Finish(c) \/ Call!Abort(c)
  /\ answer' = IF call.entry = "tablesX" /\ result'[c] = Thrown THEN Unknown
               ELSE result'[c]
  /\ IF result'[c] # NoFault THEN UNCHANGED outputs
     ELSE IF call.entry \in SolveEntries
     THEN /\ counted' = Cardinality(DOMAIN boards)
          /\ UNCHANGED <<results, pars>>
     ELSE /\ counted' = IF call.entry = "tables"
                        THEN counted + 4 * Cardinality(DOMAIN boards) ELSE counted
          /\ results' = [m \in TableNumbers |->
               IF m \in Asked(call) THEN FilledTable(m) ELSE results[m]]
          /\ pars' = [m \in TableNumbers |->
               IF /\ m \in Asked(call)
                  /\ call.entry \in {"tables", "tablesX"}
                  /\ WantsPar(call)
               THEN ParTable(m) ELSE pars[m]]
  /\ UNCHANGED <<call, calls, boards, busy, position, scores>>

Next ==
  \/ \E r \in UNION {Requests[k] : k \in DOMAIN Requests} : Refuse(r) \/ Begin(r) \/ BeginEmpty(r)
  \/ \E t \in Threads, b \in BoardNumbers : Take(t, b)
  \/ \E t \in Threads : Solve(t) \/ SolveFails(t) \/ Repeat(t)
  \/ Deliver

Spec == Init /\ [][Next]_vars

-----------------------------------------------------------------------------
(* Properties *)

Scores == [Hands -> Tricks \union {None}]
Tables == [Strains -> [Hands -> Tricks \union {None}]]
Boards == [deal : Deals, trump : Strains]
Codes == {NoFault, Unknown, Thrown, DealFault, "pending", "pbn_fault", "no_suit",
          "too_many_tables", "too_many_boards", "chunk_size"}

(* Every board that is being processed belongs to one thread, and the      *)
(* boards of a call fit the arrays of its entry point (MAXNOOFBOARDS).     *)
TypeOK ==
  /\ calls \in 0..Len(Requests)
  /\ call \in IF calls = 0 THEN {NoRequest} ELSE Requests[calls]
  /\ answer \in Codes
  /\ DOMAIN boards \subseteq BoardNumbers /\ \A b \in DOMAIN boards : boards[b] \in Boards
  /\ calls > 0 /\ call.entry # "tablesX" => DOMAIN boards \subseteq 0..(MAXNOOFBOARDS - 1)
  /\ busy \in [Threads -> [board : BoardNumbers \union {None}, first : Hands, fut : Tricks]]
  /\ position \in [Threads -> Boards \union {NoPosition}]
  /\ scores \in [BoardNumbers -> Scores]
  /\ counted \in Nat
  /\ results \in [TableNumbers -> Tables]
  /\ pars \in [TableNumbers -> Tables]
  /\ active[c] = {busy[t].board : t \in {u \in Threads : busy[u] # Idle}}

(* What a declarer takes: the rest of what the hand on the left of the     *)
(* declarer takes with its partner when it leads.                          *)
DoubleDummy(deal) ==
  [strain \in Strains |-> [declarer \in Hands |->
     13 - Value[deal][strain][(declarer + 1) % 4]]]

(* Pars are computed from complete tables of their own deals, and a legacy *)
(* call has room for them (par_results[MAXNOOFTABLES]).                    *)
ParsAreRight ==
  call.entry \in {"tables", "tablesX"} /\ WantsPar(call) =>
    /\ call.entry = "tables" => Len(call.deals) <= MAXNOOFTABLES
    /\ \A m \in Asked(call) : pars[m] = DoubleDummy(call.deals[m + 1])

(* A table calculation that succeeds gives, for each of its deals and each *)
(* strain the filter lets through, the tricks of every declarer, whichever *)
(* entry point, thread and order they were computed by, and pars that were *)
(* computed from those tables.                                             *)
TablesAreRight ==
  call # NoRequest /\ answer = NoFault /\ call.entry \in TableEntries =>
    /\ ParsAreRight
    /\ \A m \in Asked(call), strain \in Included(call) :
         results[m][strain] = DoubleDummy(call.deals[m + 1])[strain]

(* The boards a list call counts are all solved, and after a call that     *)
(* failed half-way, every board that shows an answer (cards is not 0)      *)
(* shows its own, not one of an earlier call.                              *)
SolvesAreRight ==
  call # NoRequest /\ Refusal(call) = NoFault /\ call.entry \in SolveEntries =>
      /\ (answer = NoFault =>
            /\ counted = Len(call.deals)
            /\ \A b \in Asked(call) : scores[b][0] # None)
      /\ \A b \in BoardNumbers :
           scores[b][0] # None =>
             b \in Asked(call) /\ scores[b][0] = Value[call.deals[b + 1]][0][0]

(* A caller's tables change only when the call succeeds, and only in the   *)
(* rows it asked for: a call that fails, or was refused, and the strains   *)
(* that were filtered out, leave what an earlier call put there.           *)
OnlyAskedRowsChange ==
  [][\A m \in TableNumbers, strain \in Strains :
       results'[m][strain] # results[m][strain] =>
         /\ answer' = NoFault
         /\ m \in Asked(call)
         /\ strain \in Included(call)]_vars

=============================================================================
