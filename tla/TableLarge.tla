----------------------------- MODULE TableLarge -----------------------------
(***************************************************************************)
(* The large transposition table (trans_table/trans_table_l.cpp) as        *)
(* operations on a record t:                                               *)
(*                                                                         *)
(*   def, max   pages_default_, pages_maximum_                             *)
(*   chain, at  the linked list of pages from head to tail, and the place  *)
(*              of pool_ in it (0: nullptr); the pages after it are        *)
(*              dormant                                                    *)
(*   pages      pages_current_                                             *)
(*   used       [page -> next_block_no_]                                   *)
(*   next       next_block_                                                *)
(*   state      mem_state_                                                 *)
(*   old, oldNo harvested_.list_ and harvested_.next_block_no_             *)
(*   from       <<harvest_trick_, harvest_hand_>>                          *)
(*   time       timestamp_                                                 *)
(*   root       tt_root_: [cell -> [hash -> [list, write]]], a list of     *)
(*              [dist, block], the first next_no_ of list_                 *)
(*   block      [block -> [match, write, read]]: the first next_match_no_  *)
(*              entries, next_write_no_, timestamp_read_                   *)
(*   seen       [cell -> last_block_seen_]                                 *)
(*   lost       pages that nothing points to any more                      *)
(*   crashed    a null page was dereferenced                               *)
(*                                                                         *)
(* A cell is <<trick, hand>>, a block <<page, index>>.  An entry is        *)
(* [pattern, lo, hi]: the pattern stands for xor_set_, mask_index_ and the *)
(* top sets and masks, whose fourth is never compared, since the lengths   *)
(* and twelve owners give the owner of a thirteenth card.                  *)
(***************************************************************************)
EXTENDS TableEntries, FiniteSets, SequencesExt

CONSTANTS
  HashKeys, HashOf,   \* hash8: [distributions -> 0..(HashKeys - 1)]
  PageIds,            \* bound: pages that may exist at once, naturals
  BlocksPerPage, DistsPerEntry, BlocksPerEntry,
  FirstHarvestTrick, HarvestAge

ASSUME LargeAssumption ==
  /\ PageIds \subseteq Nat /\ IsFiniteSet(PageIds)
  /\ {HashKeys, BlocksPerPage, DistsPerEntry, BlocksPerEntry} \subseteq Nat \ {0}
  /\ HashOf \in [DOMAIN HashOf -> 0..(HashKeys - 1)]
  /\ FirstHarvestTrick \in 0..(TtTricks - 1) /\ HarvestAge \in Nat

Cells == (0..(TtTricks - 1)) \X Hands
Hashes == 0..(HashKeys - 1)
Blocks == PageIds \X (0..(BlocksPerPage - 1))
NoBlock == <<>>
FirstHand == Min(Hands)

EmptyRoot == [c \in Cells |-> [h \in Hashes |-> [list |-> <<>>, write |-> 0]]]
NothingSeen == [c \in Cells |-> NoBlock]
RawBlock == [match |-> <<>>, write |-> 0, read |-> 0]

(* The constructor and make_tt; limits in pages (set_memory_default and    *)
(* set_memory_maximum).                                                    *)
NewLarge(limits) ==
  [kind |-> "large", def |-> limits.def, max |-> limits.max,
   chain |-> <<>>, at |-> 0, pages |-> 0,
   used |-> [p \in PageIds |-> 0], next |-> NoBlock,
   state |-> "pool", old |-> <<>>, oldNo |-> 0,
   from |-> <<0, FirstHand>>,
   time |-> 0, root |-> EmptyRoot,
   block |-> [b \in Blocks |-> RawBlock], seen |-> NothingSeen,
   lost |-> {}, crashed |-> FALSE]

ResizeLarge(t, limits) == [t EXCEPT !.def = limits.def, !.max = limits.max]

-----------------------------------------------------------------------------
(* Pages *)

PagesAfterPool(t) == {t.chain[i] : i \in (t.at + 1)..Len(t.chain)}

(* The loop that frees pages: one by one from pool_ towards the head, and  *)
(* nothing is left of the list behind pool_.                               *)
FreePages(t) ==
  LET n == t.pages - t.def
      left == t.at - n
  IN  CASE n <= 0   -> t
        [] n > t.at -> [t EXCEPT !.crashed = TRUE]
        [] OTHER    -> [t EXCEPT !.chain = SubSeq(t.chain, 1, left),
                                 !.at = left, !.pages = t.def,
                                 !.lost = @ \union PagesAfterPool(t)]

(* reset_memory: pool_ walks back to the head, every list is emptied.  The *)
(* contents of blocks that are filed nowhere are never read, nor is a past *)
(* harvest: the model forgets them here.                                   *)
Emptied(t) ==
  [t EXCEPT !.at = IF t.at = 0 THEN 0 ELSE 1,
            !.used = IF t.at = 0 THEN @ ELSE [@ EXCEPT ![t.chain[1]] = 0],
            !.next = IF t.at = 0 THEN NoBlock ELSE <<t.chain[1], 0>>,
            !.root = EmptyRoot, !.seen = NothingSeen,
            !.block = [b \in Blocks |-> RawBlock], !.old = <<>>, !.oldNo = 0,
            !.time = 0, !.state = "pool"]

ResetLarge(t) ==
  CASE t.at = 0                              -> t
    [] t.at > 0 /\ t.pages - t.def > t.at    -> FreePages(t)
    [] OTHER                                 -> Emptied(FreePages(t))

(* Hand out next_block_, counted on the page of pool_. *)
TakeNext(t) ==
  IF t.at = 0 THEN [t |-> [t EXCEPT !.crashed = TRUE], block |-> NoBlock]
  ELSE [t |-> [t EXCEPT !.used[t.chain[t.at]] = @ + 1,
                        !.next = <<t.next[1], t.next[2] + 1>>],
        block |-> t.next]

(* A page that becomes the one of pool_ hands out its first block. *)
FirstOfPage(t, page, chain, at, pages) ==
  [t |-> [t EXCEPT !.chain = chain, !.at = at, !.pages = pages,
                   !.used[page] = 1, !.next = <<page, 1>>],
   block |-> <<page, 0>>]

NewPage(t) ==
  CHOOSE p \in PageIds \ (t.lost \union {t.chain[i] : i \in DOMAIN t.chain}) :
    TRUE

-----------------------------------------------------------------------------
(* Harvesting *)

(* The cell after the one harvested last: the hands of a trick, and then   *)
(* the trick below.                                                        *)
NextCell(cell) ==
  LET later == {h \in Hands : h > cell[2]}
  IN  IF later # {} THEN <<cell[1], Min(later)>>
      ELSE <<IF cell[1] = 0 THEN FirstHarvestTrick ELSE cell[1] - 1, FirstHand>>

(* Mutant of Without: the harvested block stays in its list. *)
NotTaken(list, i) == list

(* The last element of a list moves into the gap of another.               *)
Without(list, i) ==
  [j \in 1..(Len(list) - 1) |-> IF j = i THEN list[Len(list)] ELSE list[j]]

(* Take the block of one place of a list when it is old, until a page is   *)
(* full.                                                                   *)
HarvestPlace(s, cell, hash, suit) ==
  LET l == s.root[cell][hash].list
      b == l[suit].block
      shorter == Without(l, suit)
  IN  IF \/ Len(s.old) = BlocksPerPage
         \/ s.time - s.block[b].read <= HarvestAge
      THEN s
      ELSE [s EXCEPT !.old = Append(@, b),
                     !.block[b] = [match |-> <<>>, write |-> 0, read |-> s.time],
                     !.root[cell][hash] = [list |-> shorter, write |-> Len(shorter)]]

(* A list from its end to its start, the lists of a cell in their order.   *)
HarvestList(t, cell, hash) ==
  LET n == Len(t.root[cell][hash].list)
  IN  FoldLeft(LAMBDA s, suit : HarvestPlace(s, cell, hash, suit), t,
               [i \in 1..n |-> n + 1 - i])

HarvestCell(t, cell) ==
  FoldLeft(LAMBDA s, hash : HarvestList(s, cell, hash), t,
           [i \in 1..HashKeys |-> i - 1])

HarvestOn(s) ==
  IF Len(s.old) = BlocksPerPage THEN s
  ELSE [HarvestCell(s, s.from) EXCEPT !.from = NextCell(s.from)]

(* harvest: start at the cell after the last one harvested, give up after  *)
(* one round. When it fails, the blocks it took are in no list any more;   *)
(* every caller resets the table then.                                     *)
Harvest(t) ==
  FoldLeft(LAMBDA s, i : HarvestOn(s), [t EXCEPT !.old = <<>>],
           [i \in 1..Cardinality((0..FirstHarvestTrick) \X Hands) |-> i])

FromHarvest(t) ==
  LET h == Harvest(t)
  IN  IF Len(h.old) = BlocksPerPage
      THEN [t |-> [h EXCEPT !.state = "harvest", !.oldNo = 1],
            block |-> h.old[1]]
      ELSE TakeNext(ResetLarge(h))

(* Mutant of MayGrow: no limit. *)
GrowsIfGranted(t, granted) == granted

(* A new page is allocated unless the maximum is there; it is an equality  *)
(* that is tested.                                                         *)
MayGrow(t, granted) == t.pages # t.max /\ granted

(* get_next_card_block, with the outcome of the system's allocation.  The  *)
(* first page is not optional: without it std::bad_alloc ends the search.  *)
GetNextCardBlock(t, granted) ==
  CASE t.at = 0 ->
         LET p == NewPage(t) IN FirstOfPage(t, p, <<p>>, 1, t.pages + 1)
    [] t.at > 0 /\ t.state = "harvest" ->
         IF t.oldNo = BlocksPerPage THEN FromHarvest(t)
         ELSE [t |-> [t EXCEPT !.oldNo = @ + 1], block |-> t.old[t.oldNo + 1]]
    [] t.at > 0 /\ t.state = "pool" /\ t.used[t.chain[t.at]] = BlocksPerPage ->
         CASE t.at < Len(t.chain) ->
                FirstOfPage(t, t.chain[t.at + 1], t.chain, t.at + 1, t.pages)
           [] t.at = Len(t.chain) /\ ~MayGrow(t, granted) ->
                FromHarvest(t)
           [] OTHER ->
                LET p == NewPage(t)
                IN FirstOfPage(t, p, Append(t.chain, p), t.at + 1, t.pages + 1)
    [] OTHER -> TakeNext(t)

-----------------------------------------------------------------------------
(* Lookup *)

Listed(list, dist) == \E i \in DOMAIN list : list[i].dist = dist
PlaceOf(list, dist) == CHOOSE i \in DOMAIN list : list[i].dist = dist

(* Mutant of ClearBlock: the entries of the last owner stay. *)
KeepMatches(t, b) == [t EXCEPT !.block[b].write = 0]

ClearBlock(t, b) ==
  [t EXCEPT !.block[b] = [match |-> <<>>, write |-> 0, read |-> @.read]]

(* The block that was got becomes that of the distribution. *)
File(got, cell, dist) ==
  LET hash == HashOf[dist]
      dp == got.t.root[cell][hash]
      entry == [dist |-> dist, block |-> got.block]
      filed == [list |-> [j \in 1..(Len(dp.list) + 1) |->
                            IF j = dp.write + 1 THEN entry ELSE dp.list[j]],
                write |-> dp.write + 1]
  IN  IF got.t.crashed THEN [t |-> got.t, block |-> NoBlock, empty |-> TRUE]
      ELSE [t |-> ClearBlock([got.t EXCEPT !.root[cell][hash] = filed,
                                           !.block[got.block].read = got.t.time],
                             got.block),
            block |-> got.block, empty |-> TRUE]

(* lookup_suit: the block of a distribution, made when there is none. A    *)
(* full list reuses the block of another distribution, whose time of last  *)
(* use it keeps.                                                           *)
LookupSuit(t, cell, dist, granted) ==
  LET hash == HashOf[dist]
      dp == t.root[cell][hash]
  IN CASE Listed(dp.list, dist) ->
            [t |-> t, block |-> dp.list[PlaceOf(dp.list, dist)].block,
             empty |-> FALSE]
       [] ~Listed(dp.list, dist) /\ Len(dp.list) = DistsPerEntry ->
            LET m == IF dp.write = DistsPerEntry THEN 0 ELSE dp.write
                b == dp.list[m + 1].block
                l == [dp.list EXCEPT ![m + 1].dist = dist]
            IN [t |-> ClearBlock([t EXCEPT !.root[cell][hash] =
                                    [list |-> l, write |-> m + 1]], b),
                block |-> b, empty |-> TRUE]
       [] OTHER -> File(GetNextCardBlock(t, granted), cell, dist)

(* lookup_cards: the newest entry that fits and decides the limit. *)
NewestFirst(e) ==
  Reverse(SubSeq(e.match, 1, e.write))
    \o Reverse(SubSeq(e.match, e.write + 1, Len(e.match)))

Decides(entry, order, limit) ==
  Fits(entry.pattern, order) /\ (entry.lo > limit \/ entry.hi <= limit)

LookupCards(t, b, order, limit) ==
  LET list == NewestFirst(t.block[b])
      hits == {i \in DOMAIN list : Decides(list[i], order, limit)}
  IN  IF hits = {} THEN [t |-> t, says |-> "miss"]
      ELSE [t |-> [t EXCEPT !.time = @ + 1, !.block[b].read = t.time + 1],
            says |-> IF list[Min(hits)].lo > limit THEN "lower" ELSE "upper"]

(* lookup remembers the block, whether it was new or not. *)
Remember(suit, p, limit) ==
  LET remembered == [suit.t EXCEPT !.seen[<<p.trick, p.hand>>] = suit.block]
  IN  CASE suit.t.crashed -> [t |-> suit.t, says |-> "miss"]
        [] ~suit.t.crashed /\ suit.empty -> [t |-> remembered, says |-> "miss"]
        [] OTHER -> LookupCards(remembered, suit.block, p.order, limit)

LookupLarge(t, p, limit, granted) ==
  Remember(LookupSuit(t, <<p.trick, p.hand>>, p.dist, granted), p, limit)

-----------------------------------------------------------------------------
(* Add *)

(* Mutant of BlockIsFull: one too many. *)
BlockIsOverfull(e) == Len(e.match) > BlocksPerEntry

BlockIsFull(e) == Len(e.match) = BlocksPerEntry

Tightened(match, entry) ==
  [match EXCEPT !.lo = IF entry.lo > @ THEN entry.lo ELSE @,
                !.hi = IF entry.hi < @ THEN entry.hi ELSE @]

(* create_or_update: tighten the entry of the same pattern, or append one, *)
(* or overwrite the oldest.                                                *)
CreateOrUpdate(e, entry) ==
  LET same == {i \in DOMAIN e.match : e.match[i].pattern = entry.pattern}
      full == BlockIsFull(e)
      at == IF full /\ e.write >= BlocksPerEntry THEN 0 ELSE e.write
  IN  IF same # {}
      THEN [e EXCEPT !.match[Min(same)] = Tightened(@, entry)]
      ELSE [e EXCEPT !.write = at + 1,
                     !.match = [j \in 1..(IF full THEN Len(@) ELSE Len(@) + 1) |->
                                  IF j = at + 1 THEN entry ELSE @[j]]]

(* add: into the block that the last lookup of this trick and hand         *)
(* remembered, whatever it holds by now; nowhere after a reset.            *)
AddLarge(t, p, lens, lo, hi) ==
  LET b == t.seen[<<p.trick, p.hand>>]
  IN  IF b = NoBlock THEN t
      ELSE [t EXCEPT !.block[b] = CreateOrUpdate(@,
              [pattern |-> Pattern(p.order, lens), lo |-> lo, hi |-> hi])]

-----------------------------------------------------------------------------
(* The distributions filed with a block: <<cell, distribution>>. *)
OwnersOf(t, b) ==
  UNION {UNION {{<<c, t.root[c][h].list[i].dist>> :
                   i \in {k \in DOMAIN t.root[c][h].list :
                            t.root[c][h].list[k].block = b}} :
                h \in Hashes} : c \in Cells}

(* Would an addition for p go into a block of another distribution? *)
Misfiles(t, p) ==
  LET b == t.seen[<<p.trick, p.hand>>]
  IN  b # NoBlock /\ OwnersOf(t, b) \ {<<<<p.trick, p.hand>>, p.dist>>} # {}
=============================================================================
