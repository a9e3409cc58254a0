------------------------------- MODULE Tables -------------------------------
(***************************************************************************)
(* A transposition table of either kind in the hands of one solver         *)
(* context: the lookups and additions of a search (ab_search.cpp), and     *)
(* what the context does to its table between searches                     *)
(* (solver_context.cpp, solver_if.cpp).                                    *)
(*                                                                         *)
(* A node of the search looks its position up.  When the table does not    *)
(* answer it stays open while the nodes below it, of lower tricks, do the  *)
(* same, and at its end it may add what it found.  By then the table may   *)
(* have been harvested or reset by a node below.                           *)
(***************************************************************************)
EXTENDS TableLarge, TableSmall

CONSTANTS
  Deals, Value, Limits,
  Kinds,             \* the kinds of table a context may have, at first and later
  LargeLimits,       \* [def, max] in pages, as a large table is created with
  SmallLimits,       \* [max] in bytes, as a small one is
  Resizes,           \* [kind -> limits that resize_tt may set]
  Allocations,       \* sets of allocations that the system may grant
  MaxHits            \* bound: hits of one table between resets

VARIABLES
  deal,     \* what is being solved
  tt,       \* the table of the context
  open,     \* nodes of the search that looked up and did not return yet
  answer,   \* the last operation, and what it said
  strayed   \* an entry was added to a block of another distribution

vars == <<deal, tt, open, answer, strayed>>

Meets(d) == DOMAIN Value[d]

ASSUME ValueAssumption ==
  \A d \in Deals :
    /\ Limits[d] \subseteq Int
    /\ \A p \in Meets(d) :
         /\ p.trick \in 1..(TtTricks - 1) /\ p.hand \in Hands
         /\ p.dist \in DOMAIN HashOf /\ p.dist \in Nat
         /\ \A s \in Suits : p.order[s] \in Seq(0..3)
         /\ Value[d][p] \in 0..(p.trick + 1)

ASSUME LimitsAssumption ==
  /\ Kinds \subseteq {"large", "small"}
  /\ \A limits \in {LargeLimits} \union Resizes["large"] :
       /\ limits.def \in Nat \ {0} /\ limits.max \in Nat
       /\ limits.def <= limits.max /\ limits.max <= Cardinality(PageIds)
  /\ \A limits \in {SmallLimits} \union Resizes["small"] : limits.max \in Nat

Nothing == [says |-> "miss"]

Create(kind) ==
  IF kind = "large" THEN NewLarge(LargeLimits) ELSE NewSmall(SmallLimits)

Reset(t) == IF t.kind = "large" THEN ResetLarge(t) ELSE ResetSmall(t)

(* What a lookup would say, and the table after it. *)
Consult(t, p, limit, granted) ==
  IF t.kind = "large" THEN LookupLarge(t, p, limit, "page" \in granted)
  ELSE LookupSmall(t, p, limit)

Init ==
  /\ deal \in Deals
  /\ \E kind \in Kinds : tt = Create(kind)
  /\ open = <<>>
  /\ answer = Nothing
  /\ strayed = FALSE

Top == open[Len(open)]

Working == tt.kind = "large" => ~tt.crashed

(* apply_ab_tt_lookup, from the node of a lower trick than the open ones. *)
Lookup(p, limit, granted) ==
  /\ Working
  /\ open # <<>> => p.trick < Top.trick
  /\ \E r \in {Consult(tt, p, limit, granted)} :
        /\ r.t.kind = "large" => r.t.time <= MaxHits
        /\ tt' = r.t
        /\ answer' = [says |-> r.says, pos |-> p, limit |-> limit]
        /\ open' = IF r.says = "miss" THEN Append(open, p) ELSE open
  /\ UNCHANGED <<deal, strayed>>

(* What a search may have found out: that every position with these owners *)
(* of the highest cards has more than limit tricks, or that none has.      *)
Proves(p, lens, limit) ==
  LET alike == {q \in Meets(deal) : /\ SamePlace(p, q)
                                    /\ Fits(Pattern(p.order, lens), q.order)}
  IN  \A q \in alike : (Value[deal][q] > limit) = (Value[deal][p] > limit)

Lens(p) == {l \in [Suits -> 0..2] : \A s \in Suits : l[s] <= Len(p.order[s])}

(* The bounds of the new entry (ab_search.cpp): limit + 1 up to all        *)
(* tricks, or none up to limit.                                            *)
Add(lens, limit, granted) ==
  /\ Working
  /\ open # <<>>
  /\ Proves(Top, lens, limit)
  /\ LET wins == Value[deal][Top] > limit
         lo == IF wins THEN limit + 1 ELSE 0
         hi == IF wins THEN Top.trick + 1 ELSE limit
     IN IF tt.kind = "large"
        THEN /\ tt' = AddLarge(tt, Top, lens, lo, hi)
             /\ strayed' = (strayed \/ Misfiles(tt, Top))
        ELSE /\ tt' = AddSmall(tt, Top, lens, lo, hi, granted)
             /\ UNCHANGED strayed
  /\ answer' = [says |-> "added", pos |-> Top, limit |-> limit]
  /\ open' = SubSeq(open, 1, Len(open) - 1)
  /\ UNCHANGED deal

(* A node that is decided by other means returns without an addition. *)
Return ==
  /\ open # <<>>
  /\ open' = SubSeq(open, 1, Len(open) - 1)
  /\ answer' = Nothing
  /\ UNCHANGED <<deal, tt, strayed>>

(* solve_board_internal resets the table for a deal that is not similar to *)
(* the last, for another trump suit, and after too many nodes.             *)
NewDeal(d) ==
  /\ Working
  /\ open = <<>>
  /\ deal' = d
  /\ tt' = Reset(tt)
  /\ answer' = Nothing
  /\ strayed' = FALSE
  /\ UNCHANGED open

(* Limits that leave room for what is in use, and do not make a reset free *)
(* pages while pool_ is not the last of them: the others are left out.     *)
LeavesRoom(t, limits) ==
  IF t.kind = "large"
  THEN /\ t.pages <= limits.max
       /\ t.pages <= limits.def \/ t.at = Len(t.chain)
  ELSE t.alloc <= limits.max \/ t.alloc = InitMem

(* resize_tt, also by configure_tt with the same kind. *)
Resize(limits) ==
  /\ Working
  /\ open = <<>>
  /\ LeavesRoom(tt, limits)
  /\ tt' = IF tt.kind = "large" THEN ResizeLarge(tt, limits)
           ELSE ResizeSmall(tt, limits)
  /\ answer' = Nothing
  /\ UNCHANGED <<deal, open, strayed>>

(* clear_tt, or configure_tt with another kind: the old table returns all  *)
(* its memory, and one of the configured kind is created when it is needed.*)
Replace(kind) ==
  /\ open = <<>>
  /\ tt' = Create(kind)
  /\ answer' = Nothing
  /\ strayed' = FALSE
  /\ UNCHANGED <<deal, open>>

Next ==
  \/ \E p \in Meets(deal), limit \in Limits[deal], granted \in Allocations :
       Lookup(p, limit, granted)
  \/ \E l \in [Suits -> 0..2], limit \in Limits[deal], granted \in Allocations :
       /\ open # <<>>
       /\ l \in Lens(Top)
       /\ Add(l, limit, granted)
  \/ Return
  \/ \E d \in Deals : NewDeal(d)
  \/ \E limits \in Resizes[tt.kind] : Resize(limits)
  \/ \E kind \in Kinds : Replace(kind)

Spec == Init /\ [][Next]_vars

-----------------------------------------------------------------------------
(* The type of every variable, and of the parts of a table that the other  *)
(* properties do not speak of.                                             *)
TypeOK ==
  /\ deal \in Deals
  /\ \A i \in DOMAIN open : open[i] \in Meets(deal)
  /\ answer.says \in {"miss", "lower", "upper", "added"}
  /\ strayed \in BOOLEAN
  /\ tt.kind \in {"large", "small"}
  /\ tt.kind = "large" =>
       /\ \A c \in Cells : tt.seen[c] \in Blocks \union {NoBlock}
       /\ \A c \in Cells, h \in Hashes :
            /\ Len(tt.root[c][h].list) <= DistsPerEntry
            /\ tt.root[c][h].write <= DistsPerEntry
       /\ \A b \in Blocks : /\ Len(tt.block[b].match) <= BlocksPerEntry
                            /\ tt.block[b].write <= Len(tt.block[b].match)

(* What the table promises, with the last answer as the search saw it.     *)
(* Once an entry has strayed into the block of another distribution        *)
(* nothing is promised until the next reset.                               *)
Promised ==
  INSTANCE TransTable WITH
    answer <- IF strayed \/ answer.says \notin {"lower", "upper"}
              THEN Nothing ELSE answer

(* A table of either kind implements TransTable: every answer is true of   *)
(* the position that was looked up, through full lists, overwritten and    *)
(* tightened entries, harvests, exhausted memory, resets below open nodes, *)
(* and changes of size and kind.                                           *)
KeepsItsPromise == Promised!Spec

(* An entry just added answers the question it was added for, unless the   *)
(* table was reset below its node or by the addition itself, or the block  *)
(* of its node was taken away meanwhile.                                   *)
AddIsFound ==
  answer.says = "added" =>
    \/ Consult(tt, answer.pos, answer.limit, {}).says # "miss"
    \/ IF tt.kind = "large"
       THEN \/ tt.seen[<<answer.pos.trick, answer.pos.hand>>] = NoBlock
            \/ <<<<answer.pos.trick, answer.pos.hand>>, answer.pos.dist>> \notin
                 OwnersOf(tt, tt.seen[<<answer.pos.trick, answer.pos.hand>>])
       ELSE tt.win = <<>>

FiledBlocks(c, h) ==
  {tt.root[c][h].list[i].block : i \in DOMAIN tt.root[c][h].list}

(* Every block of the large table is filed under one distribution at most, *)
(* lies in a page that is in use, below next_block_, and does not wait in  *)
(* the harvest to be handed out once more.                                 *)
OneOwner ==
  tt.kind = "large" =>
    /\ \A b \in Blocks : Cardinality(OwnersOf(tt, b)) <= 1
    /\ \A c \in Cells, h \in Hashes : \A b \in FiledBlocks(c, h) :
         /\ \E i \in 1..tt.at : /\ tt.chain[i] = b[1]
                               /\ b[2] < tt.used[b[1]]
         /\ tt.state = "harvest" =>
              \A i \in (tt.oldNo + 1)..Len(tt.old) : tt.old[i] # b

(* The pages of the large table: as many as pages_current_ counts, no more *)
(* than the maximum, none lost and no null page used; pool_ in the list,   *)
(* next_block_ in its page.                                                *)
PagesCounted ==
  tt.kind = "large" =>
    /\ ~tt.crashed
    /\ tt.lost = {}
    /\ tt.pages = Len(tt.chain)
    /\ tt.pages <= tt.max
    /\ tt.at \in 0..Len(tt.chain)
    /\ tt.at > 0 => tt.next = <<tt.chain[tt.at], tt.used[tt.chain[tt.at]]>>

(* The small table never writes outside its slabs or the five places of    *)
(* temp_win_, or over a node in use, and allocates within its limit.       *)
SlabsHold ==
  tt.kind = "small" =>
    /\ ~tt.overrun
    /\ tt.alloc <= tt.max \/ tt.alloc = InitMem

(* The memory of either table is what its counters say and has one owner:  *)
(* blocks, pages and slabs, through growth, harvest, failed allocations,   *)
(* resets and changes of size.                                             *)
MemoryAccounted == OneOwner /\ PagesCounted /\ SlabsHold
=============================================================================
