------------------------ MODULE SolverContextProofs ------------------------
(***************************************************************************)
(* Theorems about SolverContext: its types; that a deal unlike the last    *)
(* one heals a context whatever happened to it; and that as long as        *)
(* nothing disturbs the context every search answers the deal and trump of *)
(* its call, for any deals, trump suits, similarity and memory sizes.      *)
(***************************************************************************)
EXTENDS SolverContext, TLAPS

-----------------------------------------------------------------------------
(* Tables *)

TableOK(table) == table \in Tables /\ table.def <= table.max
Configs == [kind : Kinds, def : Nat, max : Nat]

(* A new table is well formed, empty, and has no rank tables. *)
LEMMA CreateType ==
  ASSUME NEW config \in Configs
  PROVE  /\ TableOK(Create(config))
         /\ Create(config).aggr = Null
         /\ Create(config).entries = {}
<1> DEFINE chosen == IF config.def <= 0 \/ config.max <= 0
                     THEN DefaultMB[config.kind]
                     ELSE [def |-> config.def, max |-> config.max]
           def == IF EnvDefault > 0 THEN EnvDefault ELSE chosen.def
           max == IF EnvLimit > 0 THEN Least(chosen.max, EnvLimit)
                  ELSE chosen.max
<1>1. config.kind \in Kinds /\ config.def \in Nat /\ config.max \in Nat
  BY DEF Configs
<1>2. chosen.def \in Nat /\ chosen.max \in Nat
  BY <1>1, SizesAssumption
<1>3. def \in Nat /\ max \in Nat
  BY <1>2, SizesAssumption DEF Least
<1>4. Greatest(max, def) \in Nat /\ def <= Greatest(max, def)
  BY <1>3 DEF Greatest
<1> HIDE DEF def, max
<1>5. Create(config) = [kind |-> config.kind, aggr |-> Null, entries |-> {},
                        def |-> def, max |-> Greatest(max, def)]
  BY DEF Create, def, max
<1>6. QED
  BY <1>1, <1>3, <1>4, <1>5 DEF TableOK, Tables

(* The table a call finds or creates. *)
LEMMA EnsureType ==
  ASSUME TypeOK, NEW table \in Tables \union {Null},
         table # Null => TableOK(table)
  PROVE  /\ TableOK(Ensure(table))
         /\ table # Null => Ensure(table) = table
         /\ table = Null => Ensure(table).entries = {}
  BY CreateType DEF Ensure, TypeOK, Configs

LEMMA ResetType ==
  ASSUME TypeOK, NEW table \in Tables \union {Null},
         table # Null => TableOK(table)
  PROVE  /\ TableOK(ResetMemory(table))
         /\ ResetMemory(table).entries = {}
         /\ ResetMemory(table).aggr = Ensure(table).aggr
  BY EnsureType DEF ResetMemory, TableOK, Tables

LEMMA InitTablesType ==
  ASSUME TypeOK, NEW table \in Tables \union {Null}, NEW deal \in Deals,
         table # Null => TableOK(table)
  PROVE  /\ TableOK(InitTables(table, deal))
         /\ InitTables(table, deal).entries = Ensure(table).entries
         /\ InitTables(table, deal).aggr = deal
  BY EnsureType DEF InitTables, TableOK, Tables

(* What a search leaves in the table. *)
LEMMA RememberType ==
  ASSUME NEW table, TableOK(table), NEW t \in Trumps, NEW exact \in BOOLEAN,
         Remember(table, t, exact)
  PROVE  /\ TableOK(tt')
         /\ tt'.aggr = table.aggr
         /\ \A e \in tt'.entries :
              e \in table.entries \/ (e.trump = t /\ e.exact = exact)
<1>1. CASE tt' = table
  BY <1>1 DEF TableOK
<1>2. CASE tt' = [table EXCEPT !.entries =
                    @ \union {[trump |-> t, exact |-> exact]}]
  <2> DEFINE added == [trump |-> t, exact |-> exact]
  <2>1. added \in Entries /\ added.trump = t /\ added.exact = exact
    BY DEF Entries
  <2> HIDE DEF added
  <2>2. tt' = [table EXCEPT !.entries = @ \union {added}]
    BY <1>2 DEF added
  <2>3. tt'.entries = table.entries \union {added}
    BY <2>2 DEF TableOK, Tables
  <2>4. TableOK(tt') /\ tt'.aggr = table.aggr
    BY <2>1, <2>2 DEF TableOK, Tables
  <2>5. QED
    BY <2>1, <2>3, <2>4
<1>3. QED
  BY <1>1, <1>2 DEF Remember

LEMMA ExactBoolean ==
  ASSUME NEW deal, NEW t, NEW position, NEW ranks, NEW table
  PROVE  Exact(deal, t, position, ranks, table) \in BOOLEAN
  BY DEF Exact

-----------------------------------------------------------------------------
(* The main path of solve_board_internal, with its LET names spelled out. *)

LoadedTable(deal, t, mode) ==
  LoadDeal(deal, IF MustReset(deal, t, mode) THEN ResetMemory(tt) ELSE tt)
LoadedPos(deal) ==
  IF NewDeal(deal) \/ flag THEN [deal |-> deal, played |-> FALSE] ELSE pos
LoadedRanks(deal) == IF NewDeal(deal) THEN deal ELSE rel
SolveIsExact(deal, t, mode) ==
  /\ Exact(deal, t, LoadedPos(deal), LoadedRanks(deal),
           LoadedTable(deal, t, mode))
  /\ ~LoadedPos(deal).played

LEMMA SolvedSteps ==
  ASSUME NEW deal, NEW t, NEW mode, NEW searched \in BOOLEAN,
         Solved(deal, t, mode, searched)
  PROVE  /\ deal \notin ShortDeals
         /\ suit' = deal /\ trump' = t
         /\ pos' = LoadedPos(deal) /\ rel' = LoadedRanks(deal)
         /\ flag' = FALSE /\ cfg' = cfg
         /\ last' = [asked |-> deal, trump |-> t, mode |-> mode,
                     fresh |-> NewDeal(deal) /\ ~SimilarDeal(deal),
                     searched |-> searched,
                     exact |-> SolveIsExact(deal, t, mode)]
         /\ \/ tt' = LoadedTable(deal, t, mode)
            \/ Remember(LoadedTable(deal, t, mode), t,
                        SolveIsExact(deal, t, mode))
  BY DEF Solved, LoadedTable, LoadedPos, LoadedRanks, SolveIsExact

LEMMA LoadedTableType ==
  ASSUME TypeOK, NEW deal \in Deals, NEW t, NEW mode
  PROVE  /\ TableOK(LoadedTable(deal, t, mode))
         /\ NewDeal(deal) => LoadedTable(deal, t, mode).aggr = deal
         /\ MustReset(deal, t, mode) =>
              LoadedTable(deal, t, mode).entries = {}
         /\ ~MustReset(deal, t, mode) /\ tt # Null =>
              LoadedTable(deal, t, mode).entries = tt.entries
         /\ tt = Null => LoadedTable(deal, t, mode).entries = {}
         /\ ~NewDeal(deal) /\ tt # Null =>
              LoadedTable(deal, t, mode).aggr = tt.aggr
<1>1. tt \in Tables \union {Null} /\ (tt # Null => TableOK(tt))
  BY DEF TypeOK, TableOK
<1>2. CASE MustReset(deal, t, mode)
  <2>1. /\ TableOK(ResetMemory(tt)) /\ ResetMemory(tt).entries = {}
        /\ ResetMemory(tt).aggr = Ensure(tt).aggr
    BY <1>1, ResetType
  <2>2. LoadedTable(deal, t, mode) = LoadDeal(deal, ResetMemory(tt))
    BY <1>2 DEF LoadedTable
  <2>3. ResetMemory(tt) \in Tables /\ ResetMemory(tt) # Null
    BY <2>1, NullAssumption DEF TableOK
  <2>4. Ensure(ResetMemory(tt)) = ResetMemory(tt)
    BY <2>3 DEF Ensure
  <2>5. CASE NewDeal(deal)
    BY <1>2, <2>1, <2>2, <2>3, <2>4, <2>5, InitTablesType DEF LoadDeal
  <2>6. CASE ~NewDeal(deal)
    <3>1. LoadedTable(deal, t, mode) = ResetMemory(tt)
      BY <2>2, <2>4, <2>6 DEF LoadDeal
    <3>2. tt # Null => Ensure(tt) = tt
      BY DEF Ensure
    <3>3. QED
      BY <1>2, <2>1, <2>6, <3>1, <3>2
  <2>7. QED
    BY <2>5, <2>6
<1>3. CASE ~MustReset(deal, t, mode)
  <2>1. LoadedTable(deal, t, mode) = LoadDeal(deal, tt)
    BY <1>3 DEF LoadedTable
  <2>2. /\ TableOK(Ensure(tt)) /\ (tt # Null => Ensure(tt) = tt)
        /\ tt = Null => Ensure(tt).entries = {}
    BY <1>1, EnsureType
  <2>3. CASE NewDeal(deal)
    BY <1>1, <1>3, <2>1, <2>2, <2>3, InitTablesType DEF LoadDeal
  <2>4. CASE ~NewDeal(deal)
    BY <1>3, <2>1, <2>2, <2>4 DEF LoadDeal
  <2>5. QED
    BY <2>3, <2>4
<1>4. QED
  BY <1>2, <1>3

-----------------------------------------------------------------------------
(* Types *)

(* TypeOK without what the caller does next. *)
ThreadType ==
  /\ suit \in Deals \union {Null} /\ trump \in Trumps
  /\ pos \in [deal : Deals \union {Null}, played : BOOLEAN]
  /\ rel \in Deals \union {Null} /\ flag \in BOOLEAN
  /\ disturbed \in BOOLEAN
TableType == tt \in Tables \union {Null} /\ (tt # Null => TableOK(tt))
CoreType == ThreadType /\ TableType /\ cfg \in Configs /\ last \in Calls

LEMMA TypeParts == TypeOK <=> CoreType /\ chain \in Chains
  BY DEF TypeOK, CoreType, ThreadType, TableType, Configs, TableOK

LEMMA TypeParts2 == TypeOK' <=> CoreType' /\ chain' \in Chains
  BY DEF TypeOK, CoreType, ThreadType, TableType, Configs, TableOK, Tables,
         Entries, Calls, Chains

LEMMA NoCallType == NoCall \in Calls
  BY DealsAssumption DEF NoCall, Calls

LEMMA SolvedType ==
  ASSUME TypeOK, NEW deal \in Deals, NEW t \in Trumps, NEW mode \in 0..2,
         NEW searched \in BOOLEAN, Solved(deal, t, mode, searched)
  PROVE  CoreType' /\ tt' # Null
<1>0. /\ suit' = deal /\ trump' = t
      /\ pos' = LoadedPos(deal) /\ rel' = LoadedRanks(deal)
      /\ flag' = FALSE /\ cfg' = cfg
      /\ last' = [asked |-> deal, trump |-> t, mode |-> mode,
                  fresh |-> NewDeal(deal) /\ ~SimilarDeal(deal),
                  searched |-> searched,
                  exact |-> SolveIsExact(deal, t, mode)]
  BY DEF Solved, LoadedTable, LoadedPos, LoadedRanks, SolveIsExact
<1>1. TableOK(LoadedTable(deal, t, mode))
  BY LoadedTableType
<1>2. SolveIsExact(deal, t, mode) \in BOOLEAN
  BY ExactBoolean DEF SolveIsExact
<1>3. TableOK(tt')
  <2>1. CASE tt' = LoadedTable(deal, t, mode)
    BY <1>1, <2>1 DEF TableOK
  <2>2. CASE Remember(LoadedTable(deal, t, mode), t, SolveIsExact(deal, t, mode))
    BY <1>1, <1>2, <2>2, RememberType
  <2>3. QED
    BY <2>1, <2>2, SolvedSteps
<1>4. TableType' /\ tt' # Null
  BY <1>3, NullAssumption DEF TableType, TableOK, Tables, Entries
<1>5. ThreadType'
  <2>1. LoadedPos(deal) \in [deal : Deals \union {Null}, played : BOOLEAN]
    BY DEF LoadedPos, TypeOK
  <2>2. LoadedRanks(deal) \in Deals \union {Null}
    BY DEF LoadedRanks, TypeOK
  <2>3. disturbed' = (disturbed \/ AfterShort(deal))
    BY DEF Solved
  <2>4. disturbed' \in BOOLEAN
    BY <2>3 DEF TypeOK, AfterShort, SimilarDeal, NewDeal
  <2>5. QED
    BY <1>0, <2>1, <2>2, <2>4 DEF ThreadType
<1>6. last' \in Calls
  <2>1. (NewDeal(deal) /\ ~SimilarDeal(deal)) \in BOOLEAN
    BY DEF NewDeal, SimilarDeal
  <2>2. QED
    BY <1>0, <1>2, <2>1 DEF Calls
<1>7. cfg' \in Configs
  BY <1>0 DEF TypeOK, Configs
<1>8. QED
  BY <1>4, <1>5, <1>6, <1>7 DEF CoreType, Configs, Calls, Tables, Entries

LEMMA RejectedType ==
  ASSUME TypeOK, NEW deal \in Deals, NEW t \in Trumps, Rejected(deal, t)
  PROVE  CoreType'
<1>1. ThreadType'
  BY DEF Rejected, TypeOK, ThreadType
<1>2. TableType' /\ cfg' \in Configs
  BY DEF Rejected, TypeOK, TableType, TableOK, Configs
<1>3. last' \in Calls
  BY NoCallType DEF Rejected
<1>4. QED
  BY <1>1, <1>2, <1>3 DEF CoreType, Configs, Calls

LEMMA LastTrickType ==
  ASSUME TypeOK, NEW deal \in Deals, NEW t \in Trumps, LastTrick(deal, t)
  PROVE  CoreType'
<1>1. ThreadType'
  BY DEF LastTrick, TypeOK, ThreadType
<1>2. TableOK(Ensure(tt))
  BY EnsureType DEF TypeOK, TableOK
<1>3. TableType'
  BY <1>2 DEF LastTrick, TableType, TableOK
<1>4. last' \in Calls /\ cfg' \in Configs
  BY NoCallType DEF LastTrick, TypeOK, Configs
<1>5. QED
  BY <1>1, <1>3, <1>4 DEF CoreType, Configs, Calls

(* A repeat solve: the table found or created, and what it remembers. *)
LEMMA RepeatType ==
  ASSUME TypeOK, NEW exact \in BOOLEAN, Remember(Ensure(tt), trump, exact)
  PROVE  TableType' /\ tt' # Null
<1>1. TableOK(Ensure(tt)) /\ trump \in Trumps
  BY EnsureType DEF TypeOK, TableOK
<1>2. TableOK(tt')
  BY <1>1, RememberType
<1>3. QED
  BY <1>2, NullAssumption DEF TableType, TableOK

LEMMA SolveSameType ==
  ASSUME TypeOK, SolveSame
  PROVE  TypeOK'
<1> DEFINE exact == Exact(suit, trump, pos, rel, Ensure(tt)) /\ ~pos.played
<1>1. exact \in BOOLEAN
  BY ExactBoolean
<1>2. /\ Remember(Ensure(tt), trump, exact)
      /\ last' = [last EXCEPT !.searched = TRUE, !.exact = exact]
  BY DEF SolveSame
<1> HIDE DEF exact
<1>3. TableType'
  BY <1>1, <1>2, RepeatType
<1>4. ThreadType' /\ cfg' \in Configs
  BY DEF SolveSame, TypeOK, ThreadType, Configs
<1>5. last' \in Calls
  BY <1>1, <1>2 DEF TypeOK, Calls
<1>6. chain' \in Chains
  <2>1. chain \in Chains /\ chain[1] = "same"
    BY DEF SolveSame, TypeOK
  <2>2. chain[2] \in 1..3
    BY <2>1 DEF Chains
  <2>3. QED
    BY <2>2 DEF SolveSame, Chains
<1>7. QED
  BY <1>3, <1>4, <1>5, <1>6, TypeParts2 DEF CoreType, Configs, Calls

LEMMA AnalyseLaterType ==
  ASSUME TypeOK, AnalyseLater
  PROVE  TypeOK'
<1> DEFINE exact == Exact(suit, trump, pos, rel, Ensure(tt))
<1>1. exact \in BOOLEAN
  BY ExactBoolean
<1>2. /\ Remember(Ensure(tt), trump, exact)
      /\ last' = [last EXCEPT !.searched = TRUE, !.exact = exact]
  BY DEF AnalyseLater
<1> HIDE DEF exact
<1>3. TableType'
  BY <1>1, <1>2, RepeatType
<1>4. ThreadType' /\ cfg' \in Configs /\ chain' \in Chains
  BY DEF AnalyseLater, TypeOK, ThreadType, Configs, Chains
<1>5. last' \in Calls
  BY <1>1, <1>2 DEF TypeOK, Calls
<1>6. QED
  BY <1>3, <1>4, <1>5, TypeParts2 DEF CoreType, Configs, Calls

LEMMA SolveType ==
  ASSUME TypeOK, SolveBoard \/ CalcBoard \/ AnalyseFirst
  PROVE  TypeOK'
<1>1. CASE SolveBoard
  <2>1. PICK deal \in Deals, t \in Trumps, mode \in 0..2 :
          \/ Rejected(deal, t)
          \/ LastTrick(deal, t)
          \/ \E searched \in BOOLEAN : Solved(deal, t, mode, searched)
    BY <1>1 DEF SolveBoard
  <2>2. CoreType'
    BY <2>1, RejectedType, LastTrickType, SolvedType
  <2>3. chain' \in Chains
    BY <1>1 DEF SolveBoard, TypeOK
  <2>4. QED
    BY <2>2, <2>3, TypeParts2
<1>2. CASE CalcBoard
  <2>1. PICK deal \in Deals \ ShortDeals, t \in Trumps :
          \/ Rejected(deal, t) /\ UNCHANGED chain
          \/ Solved(deal, t, 1, TRUE) /\ chain' = <<"same", 3>>
    BY <1>2 DEF CalcBoard
  <2>2. CoreType'
    <3>1. 1 \in 0..2 /\ deal \in Deals
      OBVIOUS
    <3>2. CASE Rejected(deal, t)
      BY <3>1, <3>2, RejectedType
    <3>3. CASE Solved(deal, t, 1, TRUE)
      BY <3>1, <3>3, SolvedType
    <3>4. QED
      BY <2>1, <3>2, <3>3
  <2>3. chain' \in Chains
    <3>1. <<"same", 3>> \in {"same"} \X (1..3)
      OBVIOUS
    <3>2. QED
      BY <2>1, <3>1 DEF Chains, TypeOK
  <2>4. QED
    BY <2>2, <2>3, TypeParts2
<1>3. CASE AnalyseFirst
  <2>1. PICK deal \in Deals \ ShortDeals, t \in Trumps :
          Solved(deal, t, 1, TRUE)
    BY <1>3 DEF AnalyseFirst
  <2>2. CoreType'
    <3>1. 1 \in 0..2 /\ deal \in Deals
      OBVIOUS
    <3>2. QED
      BY <2>1, <3>1, SolvedType
  <2>3. chain' \in Chains
    BY <1>3 DEF AnalyseFirst, Chains
  <2>4. QED
    BY <2>2, <2>3, TypeParts2
<1>4. QED
  BY <1>1, <1>2, <1>3

LEMMA ResizeType ==
  ASSUME NEW table \in Tables, NEW def \in Nat, NEW max \in Nat
  PROVE  TableOK(Resize(table, def, max))
<1>1. Greatest(max, def) \in Nat /\ def <= Greatest(max, def)
  BY DEF Greatest
<1>2. QED
  BY <1>1 DEF Resize, TableOK, Tables

LEMMA OperationsType ==
  ASSUME TypeOK, ResetForSolve \/ ClearTT \/ ResizeTT
  PROVE  TypeOK'
<1>1. CASE ResetForSolve
  <2>1. tt # Null => TableOK(ResetMemory(tt))
    BY ResetType DEF TypeOK, TableOK
  <2>2. TableType'
    BY <1>1, <2>1 DEF ResetForSolve, TableType, TableOK
  <2>3. QED
    BY <1>1, <2>2, NoCallType, TypeParts2
    DEF ResetForSolve, ThreadVars, TypeOK, CoreType, ThreadType, Configs
<1>2. CASE ClearTT
  BY <1>2, NoCallType DEF ClearTT, ThreadVars, TypeOK
<1>3. CASE ResizeTT
  <2>1. PICK def \in Sizes, max \in Sizes :
          tt' = IF tt = Null THEN Null ELSE Resize(tt, def, max)
    BY <1>3 DEF ResizeTT
  <2>2. TableType'
    BY <2>1, ResizeType, SizesAssumption DEF TypeOK, TableType, TableOK
  <2>3. QED
    BY <1>3, <2>2, NoCallType, TypeParts2
    DEF ResizeTT, ThreadVars, TypeOK, CoreType, ThreadType, Configs
<1>4. QED
  BY <1>1, <1>2, <1>3

LEMMA ConfigureTTType ==
  ASSUME TypeOK, ConfigureTT
  PROVE  TypeOK'
<1>1. PICK kind \in Kinds, def \in Sizes, max \in Sizes :
        LET capped == IF EnvLimit > 0 THEN Least(max, EnvLimit) ELSE max
            config == [kind |-> kind, def |-> def,
                       max |-> Greatest(capped, def)]
        IN  /\ cfg' = config
            /\ \/ tt = Null /\ tt' = Null /\ UNCHANGED disturbed
               \/ tt # Null /\ tt.kind = kind
                  /\ tt' = Resize(tt, config.def, config.max)
                  /\ UNCHANGED disturbed
               \/ tt # Null /\ tt.kind # kind
                  /\ tt' = Create(config)
                  /\ disturbed' = TRUE
  BY DEF ConfigureTT
<1> DEFINE capped == IF EnvLimit > 0 THEN Least(max, EnvLimit) ELSE max
           top == Greatest(capped, def)
           config == [kind |-> kind, def |-> def, max |-> top]
<1>2. def \in Nat /\ max \in Nat
  BY SizesAssumption
<1>3. top \in Nat
  BY <1>2, SizesAssumption DEF Least, Greatest
<1>4. /\ cfg' = config
      /\ \/ tt' = Null
         \/ tt # Null /\ tt' = Resize(tt, def, top)
         \/ tt' = Create(config)
  BY <1>1
<1> HIDE DEF top
<1>5. config \in Configs
  BY <1>2, <1>3 DEF Configs
<1> HIDE DEF config
<1>6. TableType'
  <2>1. CASE tt' = Null
    BY <2>1 DEF TableType
  <2>2. CASE tt # Null /\ tt' = Resize(tt, def, top)
    BY <1>2, <1>3, <2>2, ResizeType DEF TypeOK, TableType, TableOK
  <2>3. CASE tt' = Create(config)
    BY <1>5, <2>3, CreateType DEF TableType, TableOK
  <2>4. QED
    BY <1>4, <2>1, <2>2, <2>3
<1>7. ThreadType' /\ chain' \in Chains /\ last' \in Calls
  <2>1. disturbed' \in BOOLEAN
    BY <1>1 DEF TypeOK
  <2>2. UNCHANGED <<ThreadVars, flag>> /\ last' = NoCall
    BY DEF ConfigureTT
  <2>3. QED
    BY <2>1, <2>2, NoCallType DEF ThreadVars, TypeOK, ThreadType
<1>8. QED
  BY <1>4, <1>5, <1>6, <1>7, TypeParts2 DEF CoreType, Configs, Calls

LEMMA InitType == Init => TypeOK
<1> SUFFICES ASSUME Init PROVE TypeOK
  OBVIOUS
<1>1. ThreadType
  BY DealsAssumption DEF Init, ThreadType
<1>2. TableType /\ chain \in Chains /\ last \in Calls
  BY NoCallType DEF Init, TableType, Chains
<1>3. cfg \in Configs
  BY SizesAssumption DEF Init, Configs
<1>4. QED
  BY <1>1, <1>2, <1>3, TypeParts DEF CoreType

LEMMA StepType == TypeOK /\ [Next]_vars => TypeOK'
<1>1. ASSUME TypeOK, Next PROVE TypeOK'
  BY <1>1, SolveType, SolveSameType, AnalyseLaterType, OperationsType,
     ConfigureTTType DEF Next
<1>2. ASSUME TypeOK, UNCHANGED vars PROVE TypeOK'
  BY <1>2 DEF vars, TypeOK
<1>3. QED
  BY <1>1, <1>2

(* Every variable keeps its type, and the table's default stays within its *)
(* maximum, whatever is called on the context.                             *)
THEOREM TypeCorrect == Spec => []TypeOK
  BY InitType, StepType, PTL DEF Spec

-----------------------------------------------------------------------------
(* A solve that consults only what belongs to its call is exact and leaves *)
(* everything as a repeat of it needs it.                                  *)
LEMMA SolvedIsExact ==
  ASSUME TypeOK, NEW deal \in Deals, NEW t \in Trumps, NEW mode \in 0..2,
         NEW searched \in BOOLEAN, Solved(deal, t, mode, searched),
         LoadedPos(deal).deal = deal, ~LoadedPos(deal).played,
         LoadedRanks(deal) = deal,
         LoadedTable(deal, t, mode).aggr = deal,
         \A e \in LoadedTable(deal, t, mode).entries : e.trump = t /\ e.exact
  PROVE  /\ last'.exact
         /\ suit' = deal /\ trump' = t
         /\ Loaded' /\ ~pos'.played
         /\ \A e \in tt'.entries : e.exact /\ e.trump = trump'
<1>1. SolveIsExact(deal, t, mode)
  BY DEF SolveIsExact, Exact
<1>2. /\ suit' = deal /\ trump' = t
      /\ pos' = LoadedPos(deal) /\ rel' = LoadedRanks(deal)
      /\ last'.exact = SolveIsExact(deal, t, mode)
  BY DEF Solved, LoadedTable, LoadedPos, LoadedRanks, SolveIsExact
<1>3. TableOK(LoadedTable(deal, t, mode))
  BY LoadedTableType
<1>4. SolveIsExact(deal, t, mode) = TRUE
  BY <1>1, ExactBoolean DEF SolveIsExact
<1>5. \/ tt' = LoadedTable(deal, t, mode)
      \/ Remember(LoadedTable(deal, t, mode), t, TRUE)
  <2>1. \/ tt' = LoadedTable(deal, t, mode)
        \/ Remember(LoadedTable(deal, t, mode), t, SolveIsExact(deal, t, mode))
    BY SolvedSteps
  <2>2. QED
    BY <1>4, <2>1, Zenon
<1>6. /\ tt'.aggr = deal
      /\ \A e \in tt'.entries : e.exact /\ e.trump = t
  BY <1>3, <1>5, RememberType
<1>7. tt' # Null
  BY SolvedType
<1>8. QED
  BY <1>1, <1>2, <1>6, <1>7 DEF Loaded

(* A repeat of a solve on a context that has everything loaded. *)
LEMMA RepeatIsExact ==
  ASSUME TypeOK, Loaded,
         \A e \in tt.entries : e.exact /\ e.trump = trump
  PROVE  Exact(suit, trump, pos, rel, Ensure(tt))
<1>1. Ensure(tt) = tt
  BY DEF Ensure, Loaded
<1>2. QED
  BY <1>1 DEF Exact, Loaded

LEMMA RepeatKeeps ==
  ASSUME TypeOK, Loaded,
         \A e \in tt.entries : e.exact /\ e.trump = trump,
         Remember(Ensure(tt), trump, TRUE)
  PROVE  /\ tt' # Null /\ tt'.aggr = suit
         /\ \A e \in tt'.entries : e.exact /\ e.trump = trump
<1>1. Ensure(tt) = tt
  BY DEF Ensure, Loaded
<1>2. tt' # Null
  BY RepeatType
<1>3. TableOK(tt) /\ trump \in Trumps /\ Remember(tt, trump, TRUE)
  BY <1>1 DEF Loaded, TypeOK, TableOK
<1>4. QED
  BY <1>2, <1>3, RememberType DEF Loaded

(* A solve of a new deal unlike the last one, in mode 0 or 1. *)
LEMMA FreshSolve ==
  ASSUME TypeOK, NEW deal \in Deals, NEW t \in Trumps, NEW mode \in 0..2,
         NEW searched \in BOOLEAN, Solved(deal, t, mode, searched),
         NewDeal(deal), MustReset(deal, t, mode)
  PROVE  /\ last'.exact
         /\ suit' = deal /\ trump' = t
         /\ Loaded' /\ ~pos'.played
         /\ \A e \in tt'.entries : e.exact /\ e.trump = trump'
<1>1. LoadedPos(deal).deal = deal /\ ~LoadedPos(deal).played
  BY DEF LoadedPos
<1>2. LoadedRanks(deal) = deal
  BY DEF LoadedRanks
<1>3. /\ LoadedTable(deal, t, mode).aggr = deal
      /\ LoadedTable(deal, t, mode).entries = {}
  BY LoadedTableType
<1>4. QED
  BY <1>1, <1>2, <1>3, SolvedIsExact

-----------------------------------------------------------------------------
(* NewDealHeals *)

HealInv == TypeOK /\ NewDealHeals /\ RepeatsOK

LEMMA SolvedHeals ==
  ASSUME TypeOK, NEW deal \in Deals, NEW t \in Trumps, NEW mode \in 0..2,
         NEW searched \in BOOLEAN, Solved(deal, t, mode, searched)
  PROVE  NewDealHeals' /\ RepeatsOK'
<1>1. /\ last'.fresh = (NewDeal(deal) /\ ~SimilarDeal(deal))
      /\ last'.mode = mode
  BY DEF Solved
<1>2. CASE last'.fresh /\ last'.mode # 2
  <2>1. NewDeal(deal) /\ MustReset(deal, t, mode)
    BY <1>1, <1>2 DEF MustReset
  <2>2. QED
    BY <2>1, FreshSolve DEF NewDealHeals, RepeatsOK, Loaded
<1>3. CASE ~(last'.fresh /\ last'.mode # 2)
  BY <1>3 DEF NewDealHeals, RepeatsOK
<1>4. QED
  BY <1>2, <1>3

LEMMA NoCallHeals ==
  ASSUME last' = NoCall
  PROVE  NewDealHeals' /\ RepeatsOK'
  BY DEF NoCall, NewDealHeals, RepeatsOK

LEMMA RepeatHeals ==
  ASSUME HealInv, SolveSame \/ AnalyseLater
  PROVE  NewDealHeals' /\ RepeatsOK'
<1> USE DEF HealInv
<1>1. last \in Calls
  BY DEF TypeOK
<1>2. last'.fresh = last.fresh /\ last'.mode = last.mode
  BY <1>1 DEF SolveSame, AnalyseLater, Calls
<1>3. CASE ~(last.fresh /\ last.mode # 2)
  BY <1>2, <1>3 DEF NewDealHeals, RepeatsOK
<1>4. CASE last.fresh /\ last.mode # 2
  <2>1. chain[1] \in {"same", "later"}
    BY DEF SolveSame, AnalyseLater
  <2>2. /\ Loaded
        /\ \A e \in tt.entries : e.exact /\ e.trump = trump
        /\ chain[1] = "same" => ~pos.played
    BY <1>4, <2>1 DEF RepeatsOK
  <2>3. Exact(suit, trump, pos, rel, Ensure(tt))
    BY <2>2, RepeatIsExact
  <2>4. CASE SolveSame
    <3>1. ~pos.played
      BY <2>2, <2>4 DEF SolveSame
    <3>2. /\ Remember(Ensure(tt), trump, TRUE)
          /\ last' = [last EXCEPT !.searched = TRUE, !.exact = TRUE]
      <4>1. (Exact(suit, trump, pos, rel, Ensure(tt)) /\ ~pos.played) = TRUE
        BY <2>3, <3>1
      <4>2. QED
        BY <2>4, <4>1 DEF SolveSame
    <3>3. last'.exact
      BY <1>1, <3>2 DEF Calls
    <3>4. /\ tt' # Null /\ tt'.aggr = suit
          /\ \A e \in tt'.entries : e.exact /\ e.trump = trump
      BY <2>2, <3>2, RepeatKeeps
    <3>5. UNCHANGED <<suit, trump, pos, rel>>
      BY <2>4 DEF SolveSame
    <3>6. QED
      BY <2>2, <3>1, <3>3, <3>4, <3>5 DEF NewDealHeals, RepeatsOK, Loaded
  <2>5. CASE AnalyseLater
    <3>1. /\ Remember(Ensure(tt), trump, TRUE)
          /\ last' = [last EXCEPT !.searched = TRUE, !.exact = TRUE]
      <4>1. Exact(suit, trump, pos, rel, Ensure(tt)) = TRUE
        BY <2>3, ExactBoolean
      <4>2. QED
        BY <2>5, <4>1 DEF AnalyseLater
    <3>2. last'.exact
      BY <1>1, <3>1 DEF Calls
    <3>3. /\ tt' # Null /\ tt'.aggr = suit
          /\ \A e \in tt'.entries : e.exact /\ e.trump = trump
      BY <2>2, <3>1, RepeatKeeps
    <3>4. UNCHANGED <<suit, trump, rel, chain>> /\ pos'.deal = pos.deal
      BY <2>5 DEF AnalyseLater, TypeOK
    <3>5. chain'[1] # "same"
      BY <2>5, <3>4 DEF AnalyseLater
    <3>6. QED
      BY <2>2, <3>2, <3>3, <3>4, <3>5 DEF NewDealHeals, RepeatsOK, Loaded
  <2>6. QED
    BY <2>4, <2>5
<1>5. QED
  BY <1>3, <1>4

LEMMA HealStep ==
  ASSUME HealInv, Next
  PROVE  NewDealHeals' /\ RepeatsOK'
<1> USE DEF HealInv
<1>1. CASE SolveBoard
  <2>1. PICK deal \in Deals, t \in Trumps, mode \in 0..2 :
          \/ Rejected(deal, t)
          \/ LastTrick(deal, t)
          \/ \E searched \in BOOLEAN : Solved(deal, t, mode, searched)
    BY <1>1 DEF SolveBoard
  <2>2. QED
    BY <2>1, SolvedHeals, NoCallHeals DEF Rejected, LastTrick
<1>2. CASE CalcBoard \/ AnalyseFirst
  <2>1. PICK deal \in Deals \ ShortDeals, t \in Trumps :
          Rejected(deal, t) \/ Solved(deal, t, 1, TRUE)
    BY <1>2 DEF CalcBoard, AnalyseFirst
  <2>2. deal \in Deals /\ 1 \in 0..2
    OBVIOUS
  <2>3. CASE Rejected(deal, t)
    BY <2>3, NoCallHeals DEF Rejected
  <2>4. CASE Solved(deal, t, 1, TRUE)
    BY <2>2, <2>4, SolvedHeals
  <2>5. QED
    BY <2>1, <2>3, <2>4
<1>3. CASE SolveSame \/ AnalyseLater
  BY <1>3, RepeatHeals
<1>4. CASE ResetForSolve \/ ClearTT \/ ResizeTT \/ ConfigureTT
  BY <1>4, NoCallHeals DEF ResetForSolve, ClearTT, ResizeTT, ConfigureTT
<1>5. QED
  BY <1>1, <1>2, <1>3, <1>4 DEF Next

(* A new deal unlike the last one is answered from structures built for    *)
(* it, whatever was rejected, cleared or reconfigured before.              *)
THEOREM NewDealAlwaysHeals == Spec => []NewDealHeals
<1>1. Init => HealInv
  <2>1. Init => TypeOK
    BY InitType
  <2>2. Init => NewDealHeals /\ RepeatsOK
    BY DEF Init, NoCall, NewDealHeals, RepeatsOK
  <2>3. QED
    BY <2>1, <2>2 DEF HealInv
<1>2. HealInv /\ [Next]_vars => HealInv'
  <2>1. CASE Next
    BY <2>1, HealStep, StepType DEF HealInv
  <2>2. CASE UNCHANGED vars
    BY <2>2, StepType DEF vars, HealInv, NewDealHeals, RepeatsOK, Loaded
  <2>3. QED
    BY <2>1, <2>2
<1>3. HealInv => NewDealHeals
  BY DEF HealInv
<1>4. QED
  BY <1>1, <1>2, <1>3, PTL DEF Spec

-----------------------------------------------------------------------------
(* AnswersTheDealAsked *)

AnswerParts == LoadedOK /\ EntriesOK /\ ChainOK /\ AnswersTheDealAsked

(* What the reuse of a context relies on holds until something disturbs it. *)
AnswerInv == TypeOK /\ (~disturbed => AnswerParts)

(* What has disturbed a context is not forgotten. *)
LEMMA DisturbedStays ==
  ASSUME TypeOK, Next, ~disturbed'
  PROVE  ~disturbed
<1>0. ASSUME NEW deal, NEW t, NEW mode, NEW searched,
             Rejected(deal, t) \/ Solved(deal, t, mode, searched)
      PROVE  ~disturbed
  <2>1. disturbed' \/ disturbed' = (disturbed \/ AfterShort(deal))
    BY <1>0 DEF Rejected, Solved
  <2>2. QED
    BY <2>1 DEF TypeOK, AfterShort, SimilarDeal, NewDeal
<1>1. CASE SolveBoard
  <2>1. PICK deal \in Deals, t \in Trumps, mode \in 0..2 :
          \/ Rejected(deal, t)
          \/ LastTrick(deal, t)
          \/ \E searched \in BOOLEAN : Solved(deal, t, mode, searched)
    BY <1>1 DEF SolveBoard
  <2>2. QED
    BY <1>0, <2>1 DEF LastTrick
<1>2. CASE CalcBoard \/ AnalyseFirst
  <2>1. PICK deal, t : Rejected(deal, t) \/ Solved(deal, t, 1, TRUE)
    BY <1>2 DEF CalcBoard, AnalyseFirst
  <2>2. QED
    BY <1>0, <2>1
<1>3. CASE SolveSame \/ AnalyseLater
  BY <1>3 DEF SolveSame, AnalyseLater
<1>4. CASE ResetForSolve \/ ClearTT \/ ResizeTT
  BY <1>4 DEF ResetForSolve, ClearTT, ResizeTT
<1>5. CASE ConfigureTT
  BY <1>5 DEF ConfigureTT
<1>6. QED
  BY <1>1, <1>2, <1>3, <1>4, <1>5 DEF Next

LEMMA SolvedAnswers ==
  ASSUME TypeOK, AnswerParts, ~disturbed', chain[1] \notin {"later"},
         NEW deal \in Deals, NEW t \in Trumps, NEW mode \in 0..2,
         NEW searched \in BOOLEAN, Solved(deal, t, mode, searched),
         MayAsk(t, mode)
  PROVE  /\ last'.exact
         /\ suit' = deal /\ trump' = t /\ deal \notin ShortDeals
         /\ Loaded' /\ ~pos'.played
         /\ \A e \in tt'.entries : e.exact /\ e.trump = trump'
<1> USE DEF AnswerParts
<1>0. ~AfterShort(deal)
  BY DEF Solved
<1>1. deal \notin ShortDeals /\ ~pos.played
  BY DEF Solved, ChainOK
<1>2. CASE NewDeal(deal)
  <2>1. LoadedPos(deal).deal = deal /\ ~LoadedPos(deal).played
    BY <1>2 DEF LoadedPos
  <2>2. LoadedRanks(deal) = deal /\ LoadedTable(deal, t, mode).aggr = deal
    BY <1>2, LoadedTableType DEF LoadedRanks
  <2>3. \A e \in LoadedTable(deal, t, mode).entries : e.trump = t /\ e.exact
    <3>1. CASE MustReset(deal, t, mode) \/ tt = Null
      BY <3>1, LoadedTableType
    <3>2. CASE ~MustReset(deal, t, mode) /\ tt # Null
      <4>1. t = trump /\ suit \notin ShortDeals
        BY <1>0, <1>2, <3>2 DEF MustReset, MayAsk, SimilarDeal, AfterShort
      <4>2. LoadedTable(deal, t, mode).entries = tt.entries
        BY <3>2, LoadedTableType
      <4>3. QED
        BY <3>2, <4>1, <4>2 DEF EntriesOK
    <3>3. QED
      BY <3>1, <3>2
  <2>4. QED
    BY <1>1, <2>1, <2>2, <2>3, SolvedIsExact
<1>3. CASE ~NewDeal(deal)
  <2>1. suit = deal /\ Loaded
    BY <1>1, <1>3 DEF NewDeal, LoadedOK
  <2>2. LoadedPos(deal).deal = deal /\ ~LoadedPos(deal).played
    BY <1>1, <1>3, <2>1 DEF LoadedPos, Loaded
  <2>3. LoadedRanks(deal) = deal /\ LoadedTable(deal, t, mode).aggr = deal
    BY <1>3, <2>1, LoadedTableType DEF LoadedRanks, Loaded
  <2>4. \A e \in LoadedTable(deal, t, mode).entries : e.trump = t /\ e.exact
    <3>1. CASE MustReset(deal, t, mode)
      BY <3>1, LoadedTableType
    <3>2. CASE ~MustReset(deal, t, mode)
      <4>1. t = trump
        BY <3>2 DEF MustReset, MayAsk
      <4>2. LoadedTable(deal, t, mode).entries = tt.entries
        BY <2>1, <3>2, LoadedTableType DEF Loaded
      <4>3. QED
        BY <1>1, <2>1, <4>1, <4>2 DEF EntriesOK, Loaded
    <3>3. QED
      BY <3>1, <3>2
  <2>5. QED
    BY <1>1, <2>2, <2>3, <2>4, SolvedIsExact
<1>4. QED
  BY <1>2, <1>3

LEMMA SolveBoardAnswers ==
  ASSUME TypeOK, AnswerParts, ~disturbed', SolveBoard
  PROVE  AnswerParts'
<1>0. chain = <<"free">> /\ chain' = chain
  BY DEF SolveBoard
<1>1. PICK deal \in Deals, t \in Trumps, mode \in 0..2 :
        /\ MayAsk(t, mode)
        /\ \/ Rejected(deal, t)
           \/ LastTrick(deal, t)
           \/ \E searched \in BOOLEAN : Solved(deal, t, mode, searched)
  BY DEF SolveBoard
<1>2. CASE LastTrick(deal, t)
  <2>1. suit' \in ShortDeals /\ pos' = pos /\ ~last'.searched
    BY <1>2 DEF LastTrick, NoCall
  <2>2. LoadedOK' /\ ChainOK' /\ AnswersTheDealAsked'
    BY <1>0, <2>1 DEF LoadedOK, ChainOK, AnswersTheDealAsked, AnswerParts
  <2>3. EntriesOK'
    <3>1. tt # Null => tt' = tt
      BY <1>2 DEF LastTrick, Ensure
    <3>2. tt = Null => tt'.entries = {}
      BY <1>2, EnsureType DEF LastTrick, TypeOK
    <3>3. QED
      BY <2>1, <3>1, <3>2 DEF EntriesOK, AnswerParts
  <2>4. QED
    BY <2>2, <2>3 DEF AnswerParts
<1>3. CASE \E searched \in BOOLEAN : Solved(deal, t, mode, searched)
  <2>1. PICK searched \in BOOLEAN : Solved(deal, t, mode, searched)
    BY <1>3
  <2>2. /\ last'.exact /\ Loaded' /\ ~pos'.played
        /\ suit' = deal /\ deal \notin ShortDeals
        /\ \A e \in tt'.entries : e.exact /\ e.trump = trump'
    BY <1>0, <1>1, <2>1, SolvedAnswers
  <2>3. QED
    BY <1>0, <2>2 DEF AnswerParts, LoadedOK, EntriesOK, ChainOK,
                      AnswersTheDealAsked
<1>4. QED
  BY <1>1, <1>2, <1>3 DEF Rejected

LEMMA FirstSolveAnswers ==
  ASSUME TypeOK, AnswerParts, ~disturbed', CalcBoard \/ AnalyseFirst
  PROVE  AnswerParts'
<1>1. PICK deal \in Deals \ ShortDeals, t \in Trumps :
        Solved(deal, t, 1, TRUE)
  BY DEF CalcBoard, AnalyseFirst, Rejected
<1>2. /\ deal \in Deals /\ 1 \in 0..2 /\ MayAsk(t, 1)
      /\ chain[1] \notin {"later"}
  <2>1. chain = <<"free">> \/ chain = <<"play">>
    BY DEF CalcBoard, AnalyseFirst
  <2>2. chain[1] \notin {"later"}
    BY <2>1
  <2>3. MayAsk(t, 1)
    BY DEF MayAsk
  <2>4. QED
    BY <2>2, <2>3
<1>3. /\ last'.exact /\ Loaded' /\ ~pos'.played
      /\ suit' = deal /\ deal \notin ShortDeals
      /\ \A e \in tt'.entries : e.exact /\ e.trump = trump'
  BY <1>1, <1>2, SolvedAnswers
<1>4. QED
  BY <1>2, <1>3 DEF AnswerParts, LoadedOK, EntriesOK, ChainOK,
                    AnswersTheDealAsked

LEMMA RepeatAnswers ==
  ASSUME TypeOK, AnswerParts, ~disturbed', SolveSame \/ AnalyseLater
  PROVE  AnswerParts'
<1> USE DEF AnswerParts
<1>1. /\ suit \in Deals \ ShortDeals /\ Loaded
      /\ \A e \in tt.entries : e.exact /\ e.trump = trump
  BY DEF SolveSame, AnalyseLater, ChainOK, LoadedOK, EntriesOK, Loaded
<1>2. Exact(suit, trump, pos, rel, Ensure(tt))
  BY <1>1, RepeatIsExact
<1>3. last \in Calls
  BY DEF TypeOK
<1>4. CASE SolveSame
  <2>1. chain[1] = "same" /\ ~pos.played
    BY <1>4 DEF SolveSame, ChainOK
  <2>2. (Exact(suit, trump, pos, rel, Ensure(tt)) /\ ~pos.played) = TRUE
    BY <1>2, <2>1
  <2>3. /\ Remember(Ensure(tt), trump, TRUE)
        /\ last' = [last EXCEPT !.searched = TRUE, !.exact = TRUE]
    BY <1>4, <2>2 DEF SolveSame
  <2>4. last'.exact
    BY <1>3, <2>3 DEF Calls
  <2>5. /\ tt' # Null /\ tt'.aggr = suit
        /\ \A e \in tt'.entries : e.exact /\ e.trump = trump
    BY <1>1, <2>3, RepeatKeeps
  <2>6. UNCHANGED <<suit, trump, pos, rel>>
    BY <1>4 DEF SolveSame
  <2>7. QED
    BY <1>1, <2>1, <2>4, <2>5, <2>6
    DEF LoadedOK, Loaded, EntriesOK, ChainOK, AnswersTheDealAsked
<1>5. CASE AnalyseLater
  <2>1. Exact(suit, trump, pos, rel, Ensure(tt)) = TRUE
    BY <1>2, ExactBoolean
  <2>2. /\ Remember(Ensure(tt), trump, TRUE)
        /\ last' = [last EXCEPT !.searched = TRUE, !.exact = TRUE]
    BY <1>5, <2>1 DEF AnalyseLater
  <2>3. last'.exact
    BY <1>3, <2>2 DEF Calls
  <2>4. /\ tt' # Null /\ tt'.aggr = suit
        /\ \A e \in tt'.entries : e.exact /\ e.trump = trump
    BY <1>1, <2>2, RepeatKeeps
  <2>5. UNCHANGED <<suit, trump, rel, chain>> /\ pos'.deal = pos.deal
    BY <1>5 DEF AnalyseLater, TypeOK
  <2>6. chain[1] = "later"
    BY <1>5 DEF AnalyseLater
  <2>7. QED
    BY <1>1, <2>3, <2>4, <2>5, <2>6
    DEF LoadedOK, Loaded, EntriesOK, ChainOK, AnswersTheDealAsked
<1>6. QED
  BY <1>4, <1>5

(* The operations keep the deal of the rank tables and add no entries. *)
LEMMA OperationAnswers ==
  ASSUME TypeOK, AnswerParts, ~disturbed',
         ResetForSolve \/ ClearTT \/ ResizeTT \/ ConfigureTT
  PROVE  AnswerParts'
<1> USE DEF AnswerParts
<1>1. /\ UNCHANGED ThreadVars
      /\ ~last'.searched
  BY DEF ResetForSolve, ClearTT, ResizeTT, ConfigureTT, NoCall
<1>2. /\ tt = Null => tt' = Null
      /\ tt # Null => /\ tt' # Null
                      /\ tt'.aggr = tt.aggr
                      /\ tt'.entries \subseteq tt.entries
  <2>1. ASSUME tt # Null, NEW def \in Nat, NEW max \in Nat
        PROVE  /\ Resize(tt, def, max) # Null
               /\ Resize(tt, def, max).aggr = tt.aggr
               /\ Resize(tt, def, max).entries = tt.entries
    <3>1. tt \in Tables
      BY <2>1 DEF TypeOK
    <3>2. Resize(tt, def, max) # Null
      BY <2>1, <3>1, ResizeType, NullAssumption DEF TableOK
    <3>3. QED
      BY <3>1, <3>2 DEF Resize, Tables
  <2>2. CASE ResetForSolve
    <3>1. tt # Null => /\ TableOK(ResetMemory(tt))
                       /\ ResetMemory(tt).entries = {}
                       /\ ResetMemory(tt).aggr = tt.aggr
      BY ResetType DEF TypeOK, TableOK, Ensure
    <3>2. QED
      BY <2>2, <3>1, NullAssumption DEF ResetForSolve, TableOK
  <2>3. CASE ClearTT
    BY <2>3 DEF ClearTT
  <2>4. CASE ResizeTT
    BY <2>1, <2>4, SizesAssumption DEF ResizeTT
  <2>5. CASE ConfigureTT
    <3>1. PICK kind \in Kinds, def \in Sizes, max \in Sizes :
            LET capped == IF EnvLimit > 0 THEN Least(max, EnvLimit) ELSE max
                config == [kind |-> kind, def |-> def,
                           max |-> Greatest(capped, def)]
            IN  /\ cfg' = config
                /\ \/ tt = Null /\ tt' = Null
                   \/ tt # Null /\ tt.kind = kind
                      /\ tt' = Resize(tt, config.def, config.max)
                   \/ tt' = Create(config) /\ disturbed' = TRUE
      BY <2>5 DEF ConfigureTT
    <3> DEFINE top ==
          Greatest(IF EnvLimit > 0 THEN Least(max, EnvLimit) ELSE max, def)
    <3>2. def \in Nat /\ top \in Nat
      BY SizesAssumption DEF Least, Greatest
    <3>3. \/ tt = Null /\ tt' = Null
          \/ tt # Null /\ tt' = Resize(tt, def, top)
      BY <3>1
    <3> HIDE DEF top
    <3>4. QED
      BY <2>1, <3>2, <3>3
  <2>6. QED
    BY <2>2, <2>3, <2>4, <2>5
<1>3. QED
  BY <1>1, <1>2
  DEF ThreadVars, LoadedOK, Loaded, EntriesOK, ChainOK, AnswersTheDealAsked

(* Until a call is rejected, a table dropped or a deal similar to one of   *)
(* at most four cards solved right after it, every search consults only    *)
(* what belongs to the deal and trump of its call.                         *)
THEOREM ReuseAnswersTheDealAsked == Spec => []AnswersTheDealAsked
<1>1. Init => AnswerInv
  <2> SUFFICES ASSUME Init PROVE AnswerInv
    OBVIOUS
  <2>1. TypeOK
    BY InitType
  <2>2. AnswerParts
    BY DealsAssumption
    DEF Init, NoCall, AnswerParts, LoadedOK, EntriesOK, ChainOK,
        AnswersTheDealAsked
  <2>3. QED
    BY <2>1, <2>2 DEF AnswerInv
<1>2. AnswerInv /\ [Next]_vars => AnswerInv'
  <2> SUFFICES ASSUME AnswerInv, [Next]_vars PROVE AnswerInv'
    OBVIOUS
  <2>1. TypeOK'
    BY StepType DEF AnswerInv
  <2>2. CASE Next /\ ~disturbed'
    <3>1. TypeOK /\ AnswerParts
      BY <2>2, DisturbedStays DEF AnswerInv
    <3>2. AnswerParts'
      BY <2>2, <3>1, SolveBoardAnswers, FirstSolveAnswers, RepeatAnswers,
         OperationAnswers DEF Next
    <3>3. QED
      BY <2>1, <3>2 DEF AnswerInv
  <2>3. CASE UNCHANGED vars
    BY <2>1, <2>3 DEF vars, AnswerInv, AnswerParts, LoadedOK, Loaded,
       EntriesOK, ChainOK, AnswersTheDealAsked
  <2>4. CASE disturbed'
    BY <2>1, <2>4 DEF AnswerInv
  <2>5. QED
    BY <2>2, <2>3, <2>4
<1>3. AnswerInv => AnswersTheDealAsked
  BY DEF AnswerInv, AnswerParts, AnswersTheDealAsked
<1>4. QED
  BY <1>1, <1>2, <1>3, PTL DEF Spec

=============================================================================
