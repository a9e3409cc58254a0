--------------------------- MODULE SolverContext ---------------------------
(***************************************************************************)
(* One SolverContext and the ThreadData behind it, over a sequence of      *)
(* calls: solve_board_internal (library/src/solver_if.cpp), the repeat     *)
(* solves of solve_same_board and analyse_later_board, and the operations  *)
(* on the transposition table (solver_context/solver_context.cpp).         *)
(*                                                                         *)
(* A context is used by one thread at a time: a caller's own, or the       *)
(* thread_local one of a pool worker, which serves whatever boards the     *)
(* dispatcher hands it, batch after batch.  What can go wrong is state     *)
(* that survives one call and is stale in the next.  The model therefore   *)
(* keeps, of every cached structure, the deal or trump it was built from,  *)
(* and calls a search exact when all of them are those of the call.        *)
(*                                                                         *)
(* Entries of the table are keyed by suit lengths and relative ranks, so   *)
(* they stay true for another deal; they hold for one trump suit only.     *)
(***************************************************************************)
EXTENDS Integers

CONSTANTS
  Deals,          \* remainCards of the calls, non-empty hands
  Trumps,         \* trump arguments
  ShortDeals,     \* the deals of at most four cards
  Similar,        \* pairs <<new, old>> that pass the SIMILARDEALLIMIT test
  Sizes,          \* bound: megabyte arguments
  DefaultMB,      \* [kind -> [def, max]]: the THREADMEM_* constants
  EnvDefault,     \* DDS_TT_DEFAULT_MB, 0 when unset
  EnvLimit,       \* DDS_TT_LIMIT_MB, 0 when unset
  Null            \* empty hands, no table, no tables of ranks

ASSUME DealsAssumption ==
  /\ Null \notin Deals
  /\ ShortDeals \subseteq Deals
  /\ Similar \subseteq Deals \X Deals
  /\ 0 \in Trumps

Kinds == {"small", "large"}

ASSUME SizesAssumption ==
  /\ Sizes \subseteq Nat
  /\ DefaultMB \in [Kinds -> [def : Nat \ {0}, max : Nat \ {0}]]
  /\ EnvDefault \in Nat
  /\ EnvLimit \in Nat

Entries == [trump : Trumps, exact : BOOLEAN]
Tables == [kind : Kinds, aggr : Deals \union {Null}, entries : SUBSET Entries,
           def : Nat, max : Nat]

ASSUME NullAssumption == Null \notin Tables

VARIABLES
  suit,     \* thrp->suit: the deal last counted, Null at first
  trump,    \* thrp->trump
  pos,      \* lookAheadPos: [deal, played], played when cards were made on it
  rel,      \* the deal thrp->rel was computed from
  flag,     \* analysisFlag
  tt,       \* the table: Null or [kind, aggr, entries, def, max], where aggr
            \* is the deal of its init(), Null when it had none
  cfg,      \* SolverConfig: [kind, def, max]
  chain,    \* what the caller may do next: <<"free">>: anything; <<"same", n>>:
            \* n repeat solves; <<"play">> and <<"later">>: the first and the
            \* later solves of AnalysePlayBin, in a context of its own
  last,     \* the last call: [asked, trump, mode, fresh, searched, exact]
  disturbed \* has a step happened that AnswersTheDealAsked exempts?  Only
            \* written, read by no guard

vars == <<suit, trump, pos, rel, flag, tt, cfg, chain, last, disturbed>>

Least(a, b) == IF a <= b THEN a ELSE b
Greatest(a, b) == IF a >= b THEN a ELSE b

NoCall == [asked |-> Null, trump |-> 0, mode |-> 1, fresh |-> FALSE,
           searched |-> FALSE, exact |-> FALSE]

Init ==
  /\ suit = Null /\ trump = 0
  /\ pos = [deal |-> Null, played |-> FALSE]
  /\ rel = Null
  /\ flag = FALSE
  /\ tt = Null
  /\ \E kind \in Kinds, def \in Sizes, max \in Sizes :
       cfg = [kind |-> kind, def |-> def, max |-> max]
  /\ chain \in {<<"free">>, <<"play">>}
  /\ last = NoCall
  /\ disturbed = FALSE

-----------------------------------------------------------------------------
(* The table *)

(* SearchContext::trans_table: sizes from the configuration, from the      *)
(* built-in constants when either is missing, overridden by the            *)
(* environment, and a maximum that is never below the default.             *)
Create(config) ==
  LET chosen == IF config.def <= 0 \/ config.max <= 0
                THEN DefaultMB[config.kind]
                ELSE [def |-> config.def, max |-> config.max]
      def == IF EnvDefault > 0 THEN EnvDefault ELSE chosen.def
      max == IF EnvLimit > 0 THEN Least(chosen.max, EnvLimit) ELSE chosen.max
  IN  [kind |-> config.kind, aggr |-> Null, entries |-> {},
       def |-> def, max |-> Greatest(max, def)]

Ensure(table) == IF table = Null THEN Create(cfg) ELSE table

(* reset_memory forgets the entries, init recomputes the rank tables. *)
ResetMemory(table) == [Ensure(table) EXCEPT !.entries = {}]
InitTables(table, deal) == [Ensure(table) EXCEPT !.aggr = deal]

(* Is everything the search for (deal, t) consults what it should be? *)
Exact(deal, t, position, ranks, table) ==
  /\ position.deal = deal
  /\ ranks = deal
  /\ table.aggr = deal
  /\ \A e \in table.entries : e.trump = t /\ e.exact

(* A search adds entries that are as good as what it consulted, or none. *)
Remember(table, t, exact) ==
  \/ tt' = table
  \/ tt' = [table EXCEPT !.entries = @ \union {[trump |-> t, exact |-> exact]}]

-----------------------------------------------------------------------------
(* solve_board_internal *)

(* board_value_checks fails, after thrp->suit and thrp->trump took the     *)
(* values of the call.                                                     *)
Rejected(deal, t) ==
  /\ suit' = deal
  /\ trump' = t
  /\ disturbed' = TRUE
  /\ last' = NoCall
  /\ UNCHANGED <<pos, rel, flag, tt, cfg>>

(* At most four cards: the result is read off the call's own deal; the     *)
(* accounting at SOLVER_DONE creates the table.                            *)
LastTrick(deal, t) ==
  /\ deal \in ShortDeals
  /\ suit' = deal
  /\ trump' = t
  /\ tt' = Ensure(tt)
  /\ last' = NoCall
  /\ UNCHANGED <<pos, rel, flag, cfg, disturbed>>

NewDeal(deal) == suit # deal
SimilarDeal(deal) == NewDeal(deal) /\ <<deal, suit>> \in Similar

(* A deal similar to one of at most four cards: that call counted its      *)
(* trump suit and left the entries of another in the table.                *)
AfterShort(deal) == SimilarDeal(deal) /\ suit \in ShortDeals

(* Mutant of MustReset: only the trump suit is looked at. *)
MustResetForTrump(deal, t, mode) == mode # 2 /\ t # trump

MustReset(deal, t, mode) ==
  /\ mode # 2
  /\ \/ NewDeal(deal) /\ ~SimilarDeal(deal)
     \/ t # trump

(* SetDealTables initialises the table for a new deal. *)
LoadDeal(deal, table) ==
  IF NewDeal(deal) THEN InitTables(table, deal) ELSE Ensure(table)

(* The main path.  It ends in a search, or in one of the two answers that  *)
(* need none (a single move in mode 0, target 0).                          *)
Solved(deal, t, mode, searched) ==
  LET reset == IF MustReset(deal, t, mode) THEN ResetMemory(tt) ELSE tt
      table == LoadDeal(deal, reset)
      position == IF NewDeal(deal) \/ flag
                  THEN [deal |-> deal, played |-> FALSE] ELSE pos
      ranks == IF NewDeal(deal) THEN deal ELSE rel
      exact == Exact(deal, t, position, ranks, table) /\ ~position.played
  IN  /\ deal \notin ShortDeals
      /\ suit' = deal
      /\ trump' = t
      /\ pos' = position
      /\ rel' = ranks
      /\ flag' = FALSE
      /\ last' = [asked |-> deal, trump |-> t, mode |-> mode,
                  fresh |-> NewDeal(deal) /\ ~SimilarDeal(deal),
                  searched |-> searched, exact |-> exact]
      /\ disturbed' = (disturbed \/ AfterShort(deal))
      /\ IF searched THEN Remember(table, t, exact) ELSE tt' = table
      /\ UNCHANGED cfg

(* The caller of mode 2 answers for the reuse of the table                 *)
(* (doc/dll-description.md:862): the last call had the same trump suit and *)
(* was one that uses the table.                                            *)
MayAsk(t, mode) == mode = 2 => t = trump /\ suit \notin ShortDeals

SolveBoard ==
  /\ chain = <<"free">>
  /\ \E deal \in Deals, t \in Trumps, mode \in 0..2 :
       /\ MayAsk(t, mode)
       /\ \/ Rejected(deal, t)
          \/ LastTrick(deal, t)
          \/ \E searched \in BOOLEAN : Solved(deal, t, mode, searched)
  /\ UNCHANGED chain

(* calc_single_common_internal: a solve for the first leader, then three   *)
(* repeats; a failure ends it.  Tables are computed from full hands.       *)
CalcBoard ==
  /\ chain = <<"free">>
  /\ \E deal \in Deals \ ShortDeals, t \in Trumps :
       \/ Rejected(deal, t) /\ UNCHANGED chain
       \/ Solved(deal, t, 1, TRUE) /\ chain' = <<"same", 3>>

(* solve_same_board: nothing is reloaded. *)
SolveSame ==
  /\ chain[1] = "same"
  /\ LET exact == Exact(suit, trump, pos, rel, Ensure(tt)) /\ ~pos.played
     IN  /\ Remember(Ensure(tt), trump, exact)
         /\ last' = [last EXCEPT !.searched = TRUE, !.exact = exact]
  /\ chain' = IF chain[2] = 1 THEN <<"free">> ELSE <<"same", chain[2] - 1>>
  /\ UNCHANGED <<suit, trump, pos, rel, flag, cfg, disturbed>>

(* AnalysePlayBin: the first solve of its own context (a deal of at most   *)
(* four cards has no later one), ...                                       *)
AnalyseFirst ==
  /\ chain = <<"play">>
  /\ \E deal \in Deals \ ShortDeals, t \in Trumps :
       Solved(deal, t, 1, TRUE)
  /\ chain' = <<"later">>

(* Mutant of AnalyseLater: the searches after the first begin with a table *)
(* of their own.                                                           *)
AnalyseLaterCold ==
  /\ chain = <<"later">>
  /\ pos' = [pos EXCEPT !.played = TRUE]
  /\ flag' = TRUE
  /\ LET exact == Exact(suit, trump, pos, rel, Create(cfg))
     IN  /\ Remember(Create(cfg), trump, exact)
         /\ last' = [last EXCEPT !.searched = TRUE, !.exact = exact]
  /\ UNCHANGED <<suit, trump, rel, cfg, chain, disturbed>>

(* ... then analyse_later_board, which makes the played card on the        *)
(* position and searches on.                                               *)
AnalyseLater ==
  /\ chain = <<"later">>
  /\ pos' = [pos EXCEPT !.played = TRUE]
  /\ flag' = TRUE
  /\ LET exact == Exact(suit, trump, pos, rel, Ensure(tt))
     IN  /\ Remember(Ensure(tt), trump, exact)
         /\ last' = [last EXCEPT !.searched = TRUE, !.exact = exact]
  /\ UNCHANGED <<suit, trump, rel, cfg, chain, disturbed>>

-----------------------------------------------------------------------------
(* Operations on the context between solves *)

ThreadVars == <<suit, trump, pos, rel, chain>>

ResetForSolve ==
  /\ chain = <<"free">>
  /\ tt' = IF tt = Null THEN Null ELSE ResetMemory(tt)
  /\ flag' = FALSE
  /\ last' = NoCall
  /\ UNCHANGED <<ThreadVars, cfg, disturbed>>

(* clear_tt and dispose_trans_table *)
ClearTT ==
  /\ chain = <<"free">>
  /\ tt' = Null
  /\ last' = NoCall
  /\ disturbed' = TRUE
  /\ UNCHANGED <<ThreadVars, flag, cfg>>

(* Mutant of Resize: the maximum may end below the default. *)
ResizeUnordered(table, def, max) == [table EXCEPT !.def = def, !.max = max]

Resize(table, def, max) ==
  [table EXCEPT !.def = def, !.max = Greatest(max, def)]

(* resize_tt does nothing when there is no table. *)
ResizeTT ==
  /\ chain = <<"free">>
  /\ \E def \in Sizes, max \in Sizes :
       tt' = IF tt = Null THEN Null ELSE Resize(tt, def, max)
  /\ last' = NoCall
  /\ UNCHANGED <<ThreadVars, flag, cfg, disturbed>>

ConfigureTT ==
  /\ chain = <<"free">>
  /\ \E kind \in Kinds, def \in Sizes, max \in Sizes :
       LET capped == IF EnvLimit > 0 THEN Least(max, EnvLimit) ELSE max
           config == [kind |-> kind, def |-> def, max |-> Greatest(capped, def)]
       IN  /\ cfg' = config
           /\ \/ tt = Null /\ tt' = Null /\ UNCHANGED disturbed
              \/ tt # Null /\ tt.kind = kind
                 /\ tt' = Resize(tt, config.def, config.max)
                 /\ UNCHANGED disturbed
              \/ tt # Null /\ tt.kind # kind
                 /\ tt' = Create(config)
                 /\ disturbed' = TRUE
  /\ last' = NoCall
  /\ UNCHANGED <<ThreadVars, flag>>

Next ==
  \/ SolveBoard \/ CalcBoard \/ SolveSame \/ AnalyseFirst \/ AnalyseLater
  \/ ResetForSolve \/ ClearTT \/ ResizeTT \/ ConfigureTT

Spec == Init /\ [][Next]_vars

-----------------------------------------------------------------------------
Calls == [asked : Deals \union {Null}, trump : Trumps, mode : 0..2,
          fresh : BOOLEAN, searched : BOOLEAN, exact : BOOLEAN]
Chains == {<<"free">>, <<"play">>, <<"later">>} \union ({"same"} \X (1..3))

(* Every variable has its type, and the table's maximum is not below its   *)
(* default, which the page allocation relies on.                           *)
TypeOK ==
  /\ suit \in Deals \union {Null}
  /\ trump \in Trumps
  /\ pos \in [deal : Deals \union {Null}, played : BOOLEAN]
  /\ rel \in Deals \union {Null}
  /\ flag \in BOOLEAN
  /\ tt \in Tables \union {Null}
  /\ tt # Null => tt.def <= tt.max
  /\ cfg \in [kind : Kinds, def : Nat, max : Nat]
  /\ chain \in Chains
  /\ last \in Calls
  /\ disturbed \in BOOLEAN

(* A search answers the deal and trump of its call, whatever calls the     *)
(* context served before: the position, the rank tables, the table's own   *)
(* tables and every entry in it belong to what was asked                   *)
(* (solver_if.cpp:106-226).  Three things void it: a call that was         *)
(* rejected, a table that was dropped, and a deal similar to one of at     *)
(* most four cards right after it.                                         *)
AnswersTheDealAsked == ~disturbed /\ last.searched => last.exact

(* A call with a new deal that is not similar to the last one finds        *)
(* everything rebuilt, even after rejected calls and disposed tables       *)
(* (solver_if.cpp:202-226): stale state survives only on the other paths.  *)
NewDealHeals ==
  last.searched /\ last.fresh /\ last.mode # 2 => last.exact

(* Everything a search on the last deal counted consults belongs to it.    *)
Loaded ==
  /\ pos.deal = suit
  /\ rel = suit
  /\ tt # Null /\ tt.aggr = suit

(* The strengthening that makes AnswersTheDealAsked inductive as long as   *)
(* nothing disturbed the context.                                          *)
LoadedOK == suit \in Deals \ ShortDeals => Loaded

EntriesOK ==
  tt # Null =>
    \A e \in tt.entries : e.exact /\ (suit \notin ShortDeals => e.trump = trump)

ChainOK ==
  /\ chain[1] \in {"same", "later"} => suit \in Deals \ ShortDeals
  /\ pos.played => chain[1] = "later"

(* The strengthening of NewDealHeals: the repeats of a fresh solve find    *)
(* what it built.                                                          *)
RepeatsOK ==
  chain[1] \in {"same", "later"} /\ last.fresh /\ last.mode # 2 =>
    /\ Loaded
    /\ \A e \in tt.entries : e.exact /\ e.trump = trump
    /\ chain[1] = "same" => ~pos.played

=============================================================================
