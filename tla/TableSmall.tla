----------------------------- MODULE TableSmall -----------------------------
(***************************************************************************)
(* The small transposition table (trans_table/trans_table_s.cpp) as        *)
(* operations on a record s.  For each trick and hand a binary tree of     *)
(* distributions; at each of its nodes a tree of four levels, one a suit,  *)
(* of winning cards; at its leaves the bounds.  All nodes come from slabs: *)
(*                                                                         *)
(*   max, maxIndex   maxmem_, max_index_          alloc    allocmem_       *)
(*   wSlab, wSize, wLimit   wcount_, win_set_size_, win_set_size_limit_    *)
(*   wBase           win_cards_, as <<slab, index>>; slab Temp: temp_win_  *)
(*   windex          windex_                                               *)
(*   nSlab, nSize, nLimit   ncount_, node_set_size_, node_set_size_limit_  *)
(*   nBase           the slab of node_cards_                               *)
(*   lenInd, lcount  len_set_ind_, lcount_                                 *)
(*   tree            [cell -> sequence of [dist, left, right, point]], the *)
(*                   nodes in the order they were made                     *)
(*   win             [place -> [prefix, next, nextWin, prev, node]]        *)
(*   node            [place -> [lo, hi]]                                   *)
(*   lengths         suit_lengths_                clear    clear_tt_flag_  *)
(*   overrun         a node was written outside its slab or over another   *)
(***************************************************************************)
EXTENDS TableEntries

CONSTANTS
  WInit, WSize,      \* indices of the first and of the later slabs of WinCards
  NInit, NSize,      \* the same of NodeCards
  LSize,             \* and of tree nodes, per trick and hand
  TempSize,          \* length of temp_win_
  SimilarMaxWinNodes,
  InitMem, WinMem, NodeMem, LenMem   \* bytes of the first slabs, of later ones

ASSUME SmallAssumption ==
  /\ {WInit, WSize, NInit, NSize, LSize} \subseteq Nat \ {0}
  /\ TempSize \in Nat /\ TempSize >= 5
  /\ {InitMem, WinMem, NodeMem, LenMem} \subseteq Nat \ {0}

Squares == (1..TtTricks) \X Hands
Null == <<>>
Temp == -1
Root == [dist |-> 0, left |-> 0, right |-> 0, point |-> Null]

(* init_tt: the first slabs, and in each tree a root for distribution 0. *)
InitTt(s) ==
  [s EXCEPT !.alloc = InitMem,
     !.wSlab = 0, !.wSize = 0, !.wLimit = WInit, !.wBase = <<0, 0>>,
     !.nSlab = 0, !.nSize = 0, !.nLimit = NInit, !.nBase = 0,
     !.lenInd = [c \in Squares |-> 1], !.lcount = [c \in Squares |-> 0],
     !.tree = [c \in Squares |-> <<Root>>], !.win = <<>>, !.node = <<>>,
     !.clear = FALSE, !.windex = -1]

(* make_tt; limits in bytes (set_memory_maximum). *)
NewSmall(limits) ==
  InitTt([kind |-> "small", max |-> limits.max,
          maxIndex |-> IF limits.max <= InitMem THEN 0
                       ELSE (limits.max - InitMem) \div WinMem,
          alloc |-> 0, wSlab |-> 0, wSize |-> 0, wLimit |-> 0,
          wBase |-> <<0, 0>>, windex |-> -1, nSlab |-> 0, nSize |-> 0,
          nLimit |-> 0, nBase |-> 0, lenInd |-> <<>>, lcount |-> <<>>,
          tree |-> <<>>, win |-> <<>>, node |-> <<>>,
          lengths |-> [k \in 1..TtTricks |-> 0],
          clear |-> FALSE, overrun |-> FALSE])

(* set_memory_maximum; max_index_ stays what make_tt computed. *)
ResizeSmall(s, limits) == [s EXCEPT !.max = limits.max]

(* reset_memory: wipe frees the later slabs, init_tt starts again. *)
ResetSmall(s) == InitTt(s)

-----------------------------------------------------------------------------
(* Slabs.  "granted" is the set of allocations the system would grant. *)

OnTempWin(s) ==
  [s EXCEPT !.windex = @ + 1, !.wSize = s.windex + 1,
            !.wBase = <<Temp, s.windex + 1>>, !.clear = TRUE]

AddWinSet(s, granted) ==
  LET more == [s EXCEPT !.wSlab = @ + 1, !.wLimit = WSize]
  IN CASE s.clear -> OnTempWin(s)
       [] ~s.clear /\ s.wSize < s.wLimit -> [s EXCEPT !.wSize = @ + 1]
       [] OTHER ->
            IF \/ s.alloc + WinMem > s.max
               \/ s.wSlab >= s.maxIndex
               \/ s.wSize > SimilarMaxWinNodes
            THEN OnTempWin(s)
            ELSE IF "win" \notin granted THEN OnTempWin(more)
            ELSE [more EXCEPT !.alloc = @ + WinMem, !.wSize = 0,
                              !.wBase = <<more.wSlab, 0>>]

AddNodeSet(s, granted) ==
  LET more == [s EXCEPT !.nSlab = @ + 1, !.nLimit = NSize]
  IN IF s.nSize < s.nLimit THEN [s EXCEPT !.nSize = @ + 1]
     ELSE IF s.alloc + NodeMem > s.max \/ s.nSlab >= s.maxIndex
     THEN [s EXCEPT !.clear = TRUE]
     ELSE IF "node" \notin granted THEN [more EXCEPT !.clear = TRUE]
     ELSE [more EXCEPT !.alloc = @ + NodeMem, !.nSize = 0, !.nBase = more.nSlab]

(* Mutant of LenSlabHasRoom: one node past the slab. *)
LenSlabHasOne(s, c) == s.lenInd[c] <= LSize

LenSlabHasRoom(s, c) == s.lenInd[c] < LSize

AddLenSet(s, c, granted) ==
  LET more == [s EXCEPT !.lcount[c] = @ + 1]
  IN IF LenSlabHasRoom(s, c) THEN [s EXCEPT !.lenInd[c] = @ + 1]
     ELSE IF s.alloc + LenMem > s.max \/ s.lcount[c] >= s.maxIndex
     THEN [s EXCEPT !.clear = TRUE]
     ELSE IF "len" \notin granted THEN [more EXCEPT !.clear = TRUE]
     ELSE [more EXCEPT !.alloc = @ + LenMem, !.lenInd[c] = 0]

With(f, place, x) ==
  [p \in DOMAIN f \union {place} |-> IF p = place THEN x ELSE f[p]]

(* &win_cards_[win_set_size_], and whether it may be written. *)
WinPlace(s) == <<s.wBase[1], s.wBase[2] + s.wSize>>

WinPlaceIsFree(s) ==
  LET w == WinPlace(s)
  IN  /\ w \notin DOMAIN s.win
      /\ CASE w[1] = Temp -> w[2] < TempSize
           [] w[1] = 0    -> w[2] <= WInit
           [] OTHER       -> w[2] <= WSize

NodePlace(s) == <<s.nBase, s.nSize>>

NodePlaceIsFree(s) ==
  /\ NodePlace(s) \notin DOMAIN s.node
  /\ s.nSize <= IF s.nBase = 0 THEN NInit ELSE NSize

-----------------------------------------------------------------------------
(* search_len_and_insert: Knuth's algorithm T *)

Child(n, key) == IF key < n.dist THEN n.left ELSE n.right

(* The node with this key, or the one below which it belongs. *)
WalkTree(tree, key) ==
  LET Walk[i \in DOMAIN tree] ==
        IF tree[i].dist = key \/ Child(tree[i], key) = 0 THEN i
        ELSE Walk[Child(tree[i], key)]
  IN  Walk[1]

InsertLen(s, c, key, granted) ==
  LET tree == s.tree[c]
      i == WalkTree(tree, key)
      new == Len(tree) + 1
      linked == IF key < tree[i].dist THEN [tree EXCEPT ![i].left = new]
                ELSE [tree EXCEPT ![i].right = new]
  IN  IF tree[i].dist = key THEN [s |-> s, at |-> i]
      ELSE [s |-> AddLenSet([s EXCEPT
                    !.tree[c] = Append(linked, [Root EXCEPT !.dist = key]),
                    !.overrun = @ \/ s.lenInd[c] > LSize], c, granted),
            at |-> new]

-----------------------------------------------------------------------------
(* build_path and update_sop *)

(* The alternative of a level that has this prefix. *)
Alternative(win, first, prefix) ==
  LET Look[w \in DOMAIN win \union {Null}] ==
        IF w = Null THEN Null
        ELSE IF win[w].prefix = prefix THEN w ELSE Look[win[w].next]
  IN  Look[first]

(* How far the path of this pattern exists. *)
ExistingPath(win, point, pattern) ==
  LET Down[k \in 0..4] ==
        IF k = 0 THEN [depth |-> 0, prev |-> Null, below |-> point]
        ELSE LET d == Down[k - 1]
                 w == Alternative(win, d.below, pattern[k])
             IN IF d.depth < k - 1 \/ w = Null THEN d
                ELSE [depth |-> k, prev |-> w, below |-> win[w].nextWin]
  IN  Down[4]

(* A new winning card becomes the first alternative below prev. *)
NewWin(s, c, at, prev, prefix, granted) ==
  LET w == WinPlace(s)
      first == IF prev = Null THEN s.tree[c][at].point ELSE s.win[prev].nextWin
      card == [prefix |-> prefix, next |-> first, nextWin |-> Null,
               prev |-> prev, node |-> Null]
      linked == IF prev = Null THEN [s EXCEPT !.tree[c][at].point = w]
                ELSE [s EXCEPT !.win[prev].nextWin = w]
  IN  [s |-> AddWinSet([linked EXCEPT !.overrun = @ \/ ~WinPlaceIsFree(s),
                                      !.win = With(@, w, card)], granted),
       prev |-> w]

(* The missing winning cards below the end of a path. *)
Extend(s, c, at, path, pattern, granted) ==
  LET Made[k \in 0..4] ==
        IF k <= path.depth THEN [s |-> s, prev |-> path.prev]
        ELSE NewWin(Made[k - 1].s, c, at, Made[k - 1].prev, pattern[k], granted)
  IN  Made[4]

(* Mutant of Tighten: the lower bound only. *)
TightenLow(s, n, lo, hi) == [s EXCEPT !.node[n].lo = IF lo > @ THEN lo ELSE @]

(* The bounds of an existing path are tightened. *)
Tighten(s, n, lo, hi) ==
  [s EXCEPT !.node[n].lo = IF lo > @ THEN lo ELSE @,
            !.node[n].hi = IF hi < @ THEN hi ELSE @]

NewNode(made, lo, hi, granted) ==
  AddNodeSet([made.s EXCEPT
               !.overrun = @ \/ ~NodePlaceIsFree(made.s),
               !.win[made.prev].node = NodePlace(made.s),
               !.node = With(@, NodePlace(made.s), [lo |-> lo, hi |-> hi])],
             granted)

Along(s, c, at, path, pattern, lo, hi, granted) ==
  IF path.depth = 4 THEN Tighten(s, s.win[path.prev].node, lo, hi)
  ELSE NewNode(Extend(s, c, at, path, pattern, granted), lo, hi, granted)

BuildPath(s, c, at, pattern, lo, hi, granted) ==
  Along(s, c, at, ExistingPath(s.win, s.tree[c][at].point, pattern),
        pattern, lo, hi, granted)

(* add and build_sop: under the lengths of the last lookup of this trick. *)
AddBelow(i, c, pattern, lo, hi, granted) ==
  BuildPath(i.s, c, i.at, pattern, lo, hi, granted)

AtLimit(s) == IF s.clear THEN ResetSmall(s) ELSE s

AddSmall(s, p, lens, lo, hi, granted) ==
  LET c == <<p.trick, p.hand>>
  IN  AtLimit(AddBelow(InsertLen(s, c, s.lengths[p.trick], granted), c,
                       Pattern(p.order, lens), lo, hi, granted))

-----------------------------------------------------------------------------
(* lookup and find_sop: in the order of the alternatives, back over prev   *)
(* when a level has no more of them.                                       *)
Verdict(n, limit) ==
  CASE n.lo > limit -> "lower"
    [] n.lo <= limit /\ n.hi <= limit -> "upper"
    [] OTHER -> "miss"

FindSop(s, point, order, limit) ==
  LET Go[x \in {"try", "skip"} \X (DOMAIN s.win \union {Null}) \X Int] ==
        LET w == s.win[x[2]]
            k == x[3]
            fits == x[1] = "try" /\ Covers(w.prefix, order[k])
            verdict == Verdict(s.node[w.node], limit)
            onward == IF w.next # Null THEN Go[<<"try", w.next, k>>]
                      ELSE Go[<<"skip", w.prev, k - 1>>]
        IN  IF x[2] = Null THEN "miss"
            ELSE IF ~fits THEN onward
            ELSE IF k < 4 THEN Go[<<"try", w.nextWin, k + 1>>]
            ELSE IF verdict = "miss" THEN onward ELSE verdict
  IN  Go[<<"try", point, 1>>]

LookupSmall(s, p, limit) ==
  LET c == <<p.trick, p.hand>>
      at == WalkTree(s.tree[c], p.dist)
      n == s.tree[c][at]
  IN  [t |-> [s EXCEPT !.lengths[p.trick] = p.dist],
       says |-> IF n.dist # p.dist \/ n.point = Null THEN "miss"
                ELSE FindSop(s, n.point, p.order, limit)]
=============================================================================
