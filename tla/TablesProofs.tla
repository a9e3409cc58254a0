---------------------------- MODULE TablesProofs ----------------------------
(***************************************************************************)
(* Both transposition tables tell their search only what is true, answer   *)
(* what was just added, and the memory of both always has one owner:       *)
(* KeepsItsPromise, AddIsFound and MemoryAccounted of Tables.              *)
(*                                                                         *)
(* The small table (SmallOK) first: its nodes never leave their slabs, and *)
(* what it says to its search is true.  SlabsOK is about where the next    *)
(* nodes go, LinksOK and Linked about links: the nodes of a tree of        *)
(* lengths have a larger index than their parents, an alternative of a     *)
(* winning card is an older card of the same level, and each card belongs  *)
(* to one node of one tree (own).  So every loop over links ends, and a    *)
(* path of four cards (a leaf) stands for one pattern of one distribution; *)
(* Claims says that its bounds are true, and its own.  Holds says that an  *)
(* entry just added is at the end of such a path, where a lookup finds it. *)
(*                                                                         *)
(* Then the large table: LargeOK says how its parts hang together between  *)
(* two operations: pages, lists, blocks and the harvest that is handed     *)
(* out; TellsTruth what its entries mean for the deal; DistsOnce that its  *)
(* lists name a distribution once, so that a lookup finds the block it was *)
(* added to.  Each part is carried through the operations in the order of  *)
(* the code (pages, harvest, getting a block, lookup, addition).           *)
(*                                                                         *)
(* Last, both tables through the steps of a context, with what a search    *)
(* that has nodes open relies on (Looking).                                *)
(***************************************************************************)
EXTENDS Tables, FoldLemmas, FiniteSetTheorems, SequenceTheorems

-----------------------------------------------------------------------------
(* What the entries of a block claim is true of every position of the      *)
(* distribution it is filed under that an entry fits.                      *)
True(d, e, c, dist) ==
  \A q \in Meets(d) :
    q.trick = c[1] /\ q.hand = c[2] /\ q.dist = dist /\ Fits(e.pattern, q.order)
      => e.lo <= Value[d][q] /\ Value[d][q] <= e.hi

(* The small table between operations: the next nodes are below the limits *)
(* of the last slabs, which have no node at or above them.                 *)
SmallFields ==
  {"kind", "max", "maxIndex", "alloc", "wSlab", "wSize", "wLimit", "wBase",
   "windex", "nSlab", "nSize", "nLimit", "nBase", "lenInd", "lcount", "tree",
   "win", "node", "lengths", "clear", "overrun"}

IsSmall(s) == s = [field \in SmallFields |-> s[field]]

Counted(s) ==
  /\ s.kind = "small" /\ ~s.overrun
  /\ s.max \in Nat /\ s.maxIndex \in Nat /\ s.alloc \in Nat
  /\ s.alloc <= s.max \/ s.alloc = InitMem

LensOK(s) == s.lenInd \in [Squares -> 0..LSize]

NodesOK(s) ==
  /\ s.nSlab \in Nat /\ s.nBase = s.nSlab /\ s.nSize \in Nat
  /\ s.nSize <= s.nLimit /\ s.nLimit = IF s.nSlab = 0 THEN NInit ELSE NSize
  /\ \A n \in DOMAIN s.node :
       /\ n \in Nat \X Nat
       /\ n[1] < s.nSlab \/ (n[1] = s.nSlab /\ n[2] < s.nSize)

WinsOK(s) ==
  /\ s.windex = -1
  /\ s.wSlab \in Nat /\ s.wBase = <<s.wSlab, 0>> /\ s.wSize \in Nat
  /\ s.wSize <= s.wLimit /\ s.wLimit = IF s.wSlab = 0 THEN WInit ELSE WSize
  /\ \A w \in DOMAIN s.win :
       /\ w \in Nat \X Nat
       /\ w[1] < s.wSlab \/ (w[1] = s.wSlab /\ w[2] < s.wSize)

SlabsOK(s) ==
  IsSmall(s) /\ Counted(s) /\ LensOK(s) /\ NodesOK(s) /\ WinsOK(s) /\ ~s.clear

(* After k new winning cards of an addition, with the table at its limit:  *)
(* they go to temp_win_ from then on, two places apart.                    *)
TempOK(s, k) ==
  /\ s.clear /\ s.windex \in 0..(k - 1)
  /\ s.wBase = <<Temp, s.windex>> /\ s.wSize = s.windex
  /\ \A w \in DOMAIN s.win :
       w \in Nat \X Nat \/ (w[1] = Temp /\ w[2] \in 0..(2 * s.windex - 1))

MidAdd(s, k) ==
  /\ IsSmall(s) /\ Counted(s) /\ LensOK(s) /\ NodesOK(s)
  /\ WinsOK(s) \/ TempOK(s, k)

(* The links. *)

Links == (Int \X Int) \union {Null}
TreeNodes == [dist : Nat, left : Nat, right : Nat, point : Links]
WinCards == [prefix : Seq(0..3), next : Links, nextWin : Links, prev : Links,
             node : Links]
Bounds == [lo : Int, hi : Int]

TreeOK(tree) ==
  /\ tree \in Seq(TreeNodes) /\ tree # <<>>
  /\ \A i \in 1..Len(tree) : /\ tree[i].left = 0 \/ tree[i].left \in (i + 1)..Len(tree)
                             /\ tree[i].right = 0 \/ tree[i].right \in (i + 1)..Len(tree)

LinksOK(s) ==
  /\ DOMAIN s.tree = Squares /\ \A c \in Squares : TreeOK(s.tree[c])
  /\ s.win \in [DOMAIN s.win -> WinCards]
  /\ s.node \in [DOMAIN s.node -> Bounds]
  /\ DOMAIN s.lengths = 1..TtTricks

(* Places of the slabs, in the order in which they are used. *)
Older(v, w) == v[1] < w[1] \/ (v[1] = w[1] /\ v[2] < w[2])

(* own tells to which node of which tree of lengths a winning card belongs. *)
Owners(win) == [DOMAIN win -> Squares \X Nat]

PointsOK(tree, win, own) ==
  \A c \in Squares : \A i \in 1..Len(tree[c]) :
    LET p == tree[c][i].point
    IN  p # Null => p \in DOMAIN win /\ win[p].prev = Null /\ own[p] = <<c, i>>

OwnersOK(tree, own) ==
  \A w \in DOMAIN own : own[w][2] \in 1..Len(tree[own[w][1]])

CardsOK(win, own) ==
  \A w \in DOMAIN win :
    LET x == win[w]
    IN  /\ x.prev # Null => x.prev \in DOMAIN win /\ own[x.prev] = own[w]
        /\ x.next # Null => /\ x.next \in DOMAIN win /\ Older(x.next, w)
                            /\ win[x.next].prev = x.prev /\ own[x.next] = own[w]
        /\ x.nextWin # Null => x.nextWin \in DOMAIN win /\ win[x.nextWin].prev = w

Linked(s, own) ==
  /\ own \in Owners(s.win)
  /\ PointsOK(s.tree, s.win, own) /\ OwnersOK(s.tree, own) /\ CardsOK(s.win, own)

(* A card of the fourth level, and the pattern of its path. *)
Leaf(win, w) ==
  LET a == win[w].prev
      b == win[a].prev
      e == win[b].prev
  IN  a # Null /\ b # Null /\ e # Null /\ win[e].prev = Null

PathOf(win, w) ==
  LET a == win[w].prev
      b == win[a].prev
      e == win[b].prev
  IN  <<win[e].prefix, win[b].prefix, win[a].prefix, win[w].prefix>>

(* The entry of a leaf is true of the positions it stands for. *)
ClaimOf(d, s, own, w) ==
  LET n == s.node[s.win[w].node]
      o == own[w]
  IN  True(d, [pattern |-> PathOf(s.win, w), lo |-> n.lo, hi |-> n.hi],
           o[1], s.tree[o[1]][o[2]].dist)

(* For all leaves but one that is new and has no bounds yet. *)
Claims(d, s, own, new) ==
  /\ \A w \in DOMAIN s.win : Leaf(s.win, w) /\ w # new =>
       s.win[w].node \in DOMAIN s.node /\ ClaimOf(d, s, own, w)
  /\ \A v, w \in DOMAIN s.win :
       /\ Leaf(s.win, v) /\ v # new /\ Leaf(s.win, w) /\ w # new
       /\ s.win[v].node = s.win[w].node
       => v = w

(* Every loop over the alternatives of a level meets all of them, the      *)
(* newest first.                                                           *)
FirstOf(tree, win, own, w) ==
  IF win[w].prev = Null THEN tree[own[w][1]][own[w][2]].point
  ELSE win[win[w].prev].nextWin

Ordered(tree, win, own) ==
  /\ \A w \in DOMAIN win :
       LET f == FirstOf(tree, win, own, w) IN f # Null /\ (f = w \/ Older(w, f))
  /\ \A v, w \in DOMAIN win :
       own[v] = own[w] /\ win[v].prev = win[w].prev /\ Older(v, w)
         => win[w].next # Null /\ (win[w].next = v \/ Older(v, win[w].next))

PathsOK(d, s, own, new) ==
  /\ LinksOK(s) /\ Linked(s, own) /\ Claims(d, s, own, new)
  /\ Ordered(s.tree, s.win, own)

(* Only the tip of a path that is being made ends above the fourth level. *)
NoStumps(win, tip) ==
  \A w \in DOMAIN win : Leaf(win, w) \/ win[w].nextWin # Null \/ w = tip

(* The small table between operations. *)
SmallOK(d, s) ==
  /\ SlabsOK(s) /\ NoStumps(s.win, Null)
  /\ \E own : PathsOK(d, s, own, Null)

-----------------------------------------------------------------------------
(* Slabs.                                                                  *)

LEMMA SmallSizes ==
  /\ WInit \in Nat \ {0} /\ WSize \in Nat \ {0} /\ NInit \in Nat \ {0}
  /\ NSize \in Nat \ {0} /\ LSize \in Nat \ {0}
  /\ TempSize \in Nat /\ TempSize >= 5
  /\ InitMem \in Nat \ {0} /\ WinMem \in Nat \ {0}
  /\ NodeMem \in Nat \ {0} /\ LenMem \in Nat \ {0}
BY SmallAssumption

LEMMA SmallWith ==
  \A s, field, v : IsSmall(s) => IsSmall([s EXCEPT ![field] = v])
BY DEF IsSmall

LEMMA InitTtOK ==
  ASSUME NEW s, IsSmall(s), s.kind = "small", ~s.overrun,
         s.max \in Nat, s.maxIndex \in Nat
  PROVE  LET r == InitTt(s) IN SlabsOK(r)
<1> DEFINE r == InitTt(s)
           first == [s EXCEPT !.alloc = InitMem,
                       !.wSlab = 0, !.wSize = 0, !.wLimit = WInit,
                       !.wBase = <<0, 0>>, !.nSlab = 0, !.nSize = 0,
                       !.nLimit = NInit]
           second == [first EXCEPT !.nBase = 0,
                        !.lenInd = [c \in Squares |-> 1],
                        !.lcount = [c \in Squares |-> 0],
                        !.tree = [c \in Squares |-> <<Root>>], !.win = <<>>,
                        !.node = <<>>, !.clear = FALSE, !.windex = -1]
<1>0. IsSmall(r)
  <2>1. IsSmall(first)
    BY SmallWith, Zenon
  <2>2. r = second
    BY Zenon DEF InitTt
  <2> HIDE DEF first
  <2>3. IsSmall(second)
    BY <2>1, SmallWith, Zenon
  <2> QED
    BY <2>2, <2>3
<1>1. /\ r.kind = "small" /\ ~r.overrun /\ ~r.clear
      /\ r.max = s.max /\ r.maxIndex = s.maxIndex /\ r.alloc = InitMem
      /\ r.wSlab = 0 /\ r.wSize = 0 /\ r.wLimit = WInit /\ r.wBase = <<0, 0>>
      /\ r.windex = -1 /\ r.win = <<>>
      /\ r.nSlab = 0 /\ r.nSize = 0 /\ r.nLimit = NInit /\ r.nBase = 0
      /\ r.node = <<>> /\ r.lenInd = [c \in Squares |-> 1]
  BY DEF InitTt, IsSmall, SmallFields
<1> HIDE DEF r
<1>2. Counted(r)
  BY <1>1, SmallSizes DEF Counted
<1>3. LensOK(r)
  <2>1. 1 \in 0..LSize
    BY SmallSizes
  <2> QED
    BY <1>1, <2>1 DEF LensOK
<1>4. WinsOK(r)
  <2>1. DOMAIN <<>> = {}
    OBVIOUS
  <2> QED
    BY <1>1, <2>1, SmallSizes DEF WinsOK
<1>5. NodesOK(r)
  <2>1. DOMAIN <<>> = {}
    OBVIOUS
  <2> QED
    BY <1>1, <2>1, SmallSizes DEF NodesOK
<1>6. SlabsOK(r)
  BY <1>0, <1>1, <1>2, <1>3, <1>4, <1>5 DEF SlabsOK
<1> QED
  BY <1>6 DEF r

LEMMA AddLenSetOK ==
  ASSUME NEW k \in 0..4, NEW s, MidAdd(s, k), NEW c \in Squares, NEW granted
  PROVE  MidAdd(AddLenSet(s, c, granted), k)
<1> DEFINE r == AddLenSet(s, c, granted)
<1>1. /\ IsSmall(s) /\ Counted(s) /\ LensOK(s) /\ NodesOK(s)
      /\ WinsOK(s) \/ TempOK(s, k)
  BY DEF MidAdd
<1>2. IsSmall(r)
  BY <1>1, SmallWith DEF AddLenSet
<1>2a. /\ r.kind = s.kind /\ r.overrun = s.overrun
       /\ r.max = s.max /\ r.maxIndex = s.maxIndex
       /\ r.wSlab = s.wSlab /\ r.wSize = s.wSize /\ r.wLimit = s.wLimit
       /\ r.wBase = s.wBase /\ r.windex = s.windex /\ r.win = s.win
       /\ r.nSlab = s.nSlab /\ r.nSize = s.nSize /\ r.nLimit = s.nLimit
       /\ r.nBase = s.nBase /\ r.node = s.node
       /\ s.clear => r.clear
  BY <1>1 DEF AddLenSet, IsSmall, SmallFields
<1>3. \/ r.alloc = s.alloc
      \/ r.alloc = s.alloc + LenMem /\ ~(s.alloc + LenMem > s.max)
  BY <1>1 DEF AddLenSet, IsSmall, SmallFields
<1>4. \/ r.lenInd = s.lenInd
      \/ r.lenInd = [s.lenInd EXCEPT ![c] = @ + 1] /\ s.lenInd[c] < LSize
      \/ r.lenInd = [s.lenInd EXCEPT ![c] = 0]
  BY <1>1 DEF AddLenSet, IsSmall, SmallFields, LenSlabHasRoom
<1> HIDE DEF r
<1>5. Counted(r)
  BY <1>1, <1>2, <1>2a, <1>3, SmallSizes DEF Counted
<1>6. LensOK(r)
  <2>1. s.lenInd[c] \in 0..LSize
    BY <1>1 DEF LensOK
  <2>2. s.lenInd[c] < LSize => s.lenInd[c] + 1 \in 0..LSize
    BY <2>1, SmallSizes
  <2>3. 0 \in 0..LSize
    BY SmallSizes
  <2> QED
    BY <1>1, <1>4, <2>2, <2>3 DEF LensOK
<1>7. NodesOK(r)
  BY <1>1, <1>2a DEF NodesOK
<1>8. WinsOK(r) \/ TempOK(r, k)
  BY <1>1, <1>2a DEF WinsOK, TempOK
<1>9. MidAdd(r, k)
  BY <1>2, <1>5, <1>6, <1>7, <1>8 DEF MidAdd
<1> QED
  BY <1>9 DEF r

LEMMA NewSmallOK ==
  ASSUME NEW limits, limits.max \in Nat
  PROVE  SlabsOK(NewSmall(limits))
<1> DEFINE s == [kind |-> "small", max |-> limits.max,
          maxIndex |-> IF limits.max <= InitMem THEN 0
                       ELSE (limits.max - InitMem) \div WinMem,
          alloc |-> 0, wSlab |-> 0, wSize |-> 0, wLimit |-> 0,
          wBase |-> <<0, 0>>, windex |-> -1, nSlab |-> 0, nSize |-> 0,
          nLimit |-> 0, nBase |-> 0, lenInd |-> <<>>, lcount |-> <<>>,
          tree |-> <<>>, win |-> <<>>, node |-> <<>>,
          lengths |-> [k \in 1..TtTricks |-> 0],
          clear |-> FALSE, overrun |-> FALSE]
<1>1. IsSmall(s)
  BY DEF IsSmall, SmallFields
<1>2. s.maxIndex \in Nat
  <2>1. CASE limits.max <= InitMem
    BY <2>1
  <2>2. CASE ~(limits.max <= InitMem)
    <3>1. ASSUME NEW a \in Nat, NEW b \in Nat \ {0} PROVE a \div b \in Nat
      OBVIOUS
    <3>2. limits.max - InitMem \in Nat
      BY <2>2, SmallSizes
    <3>3. WinMem \in Nat \ {0}
      BY SmallSizes
    <3> DEFINE rest == limits.max - InitMem
    <3>4. s.maxIndex = rest \div WinMem
      BY <2>2
    <3> HIDE DEF rest, s
    <3>5. rest \in Nat
      BY <3>2 DEF rest
    <3>6. rest \div WinMem \in Nat
      BY ONLY <3>1, <3>3, <3>5
    <3> QED
      BY <3>4, <3>6
  <2> QED
    BY <2>1, <2>2
<1>3. s.kind = "small" /\ ~s.overrun /\ s.max \in Nat
  OBVIOUS
<1>4. NewSmall(limits) = InitTt(s)
  BY DEF NewSmall
<1> HIDE DEF s
<1> QED
  BY <1>1, <1>2, <1>3, <1>4, InitTtOK

LEMMA ResetSmallOK ==
  ASSUME NEW s, IsSmall(s), Counted(s)
  PROVE  SlabsOK(ResetSmall(s))
BY InitTtOK DEF ResetSmall, Counted

LEMMA ResizeSmallOK ==
  ASSUME NEW s, SlabsOK(s), NEW limits, limits.max \in Nat,
         s.alloc <= limits.max \/ s.alloc = InitMem
  PROVE  SlabsOK(ResizeSmall(s, limits))
<1> DEFINE r == ResizeSmall(s, limits)
<1>1. IsSmall(r)
  BY SmallWith DEF ResizeSmall, SlabsOK
<1>2. /\ r.kind = s.kind /\ r.overrun = s.overrun /\ r.clear = s.clear
      /\ r.max = limits.max /\ r.maxIndex = s.maxIndex /\ r.alloc = s.alloc
      /\ r.wSlab = s.wSlab /\ r.wSize = s.wSize /\ r.wLimit = s.wLimit
      /\ r.wBase = s.wBase /\ r.windex = s.windex /\ r.win = s.win
      /\ r.nSlab = s.nSlab /\ r.nSize = s.nSize /\ r.nLimit = s.nLimit
      /\ r.nBase = s.nBase /\ r.node = s.node /\ r.lenInd = s.lenInd
  BY DEF ResizeSmall, SlabsOK, IsSmall, SmallFields
<1> HIDE DEF r
<1>3. SlabsOK(r)
  BY <1>1, <1>2 DEF SlabsOK, Counted, LensOK, NodesOK, WinsOK
<1> QED
  BY <1>3 DEF r

LEMMA LookupSmallOK ==
  ASSUME NEW s, SlabsOK(s), NEW p, NEW limit
  PROVE  SlabsOK(LookupSmall(s, p, limit).t)
<1> DEFINE r == [s EXCEPT !.lengths[p.trick] = p.dist]
<1>1. IsSmall(r)
  BY SmallWith DEF SlabsOK
<1>2. /\ r.kind = s.kind /\ r.overrun = s.overrun /\ r.clear = s.clear
      /\ r.max = s.max /\ r.maxIndex = s.maxIndex /\ r.alloc = s.alloc
      /\ r.wSlab = s.wSlab /\ r.wSize = s.wSize /\ r.wLimit = s.wLimit
      /\ r.wBase = s.wBase /\ r.windex = s.windex /\ r.win = s.win
      /\ r.nSlab = s.nSlab /\ r.nSize = s.nSize /\ r.nLimit = s.nLimit
      /\ r.nBase = s.nBase /\ r.node = s.node /\ r.lenInd = s.lenInd
  BY DEF SlabsOK, IsSmall, SmallFields
<1>3. LookupSmall(s, p, limit).t = r
  BY DEF LookupSmall
<1> HIDE DEF r
<1> QED
  BY <1>1, <1>2, <1>3 DEF SlabsOK, Counted, LensOK, NodesOK, WinsOK

LEMMA InsertLenOK ==
  ASSUME NEW s, SlabsOK(s), NEW c \in Squares, NEW key, NEW granted
  PROVE  MidAdd(InsertLen(s, c, key, granted).s, 0)
<1> DEFINE i == WalkTree(s.tree[c], key)
<1>1. MidAdd(s, 0)
  BY DEF SlabsOK, MidAdd
<1>2. CASE s.tree[c][i].dist = key
  BY <1>1, <1>2 DEF InsertLen
<1>3. CASE s.tree[c][i].dist # key
  <2>1. PICK trees : InsertLen(s, c, key, granted).s
          = AddLenSet([s EXCEPT !.tree = trees,
                                !.overrun = @ \/ s.lenInd[c] > LSize], c, granted)
    <3> DEFINE tree == s.tree[c]
               linked == IF key < tree[i].dist
                         THEN [tree EXCEPT ![i].left = Len(tree) + 1]
                         ELSE [tree EXCEPT ![i].right = Len(tree) + 1]
               trees == [s.tree EXCEPT ![c] = Append(linked, [Root EXCEPT !.dist = key])]
    <3> WITNESS trees
    <3> QED
      BY <1>3 DEF InsertLen
  <2> DEFINE r == [s EXCEPT !.tree = trees, !.overrun = @ \/ s.lenInd[c] > LSize]
  <2>2. IsSmall(r)
    BY SmallWith DEF SlabsOK
  <2>3. /\ r.kind = s.kind /\ r.clear = s.clear
        /\ r.overrun = (s.overrun \/ s.lenInd[c] > LSize)
        /\ r.max = s.max /\ r.maxIndex = s.maxIndex /\ r.alloc = s.alloc
        /\ r.wSlab = s.wSlab /\ r.wSize = s.wSize /\ r.wLimit = s.wLimit
        /\ r.wBase = s.wBase /\ r.windex = s.windex /\ r.win = s.win
        /\ r.nSlab = s.nSlab /\ r.nSize = s.nSize /\ r.nLimit = s.nLimit
        /\ r.nBase = s.nBase /\ r.node = s.node /\ r.lenInd = s.lenInd
    BY DEF SlabsOK, IsSmall, SmallFields
  <2>4. ~(s.lenInd[c] > LSize)
    <3>1. s.lenInd[c] \in 0..LSize
      BY DEF SlabsOK, LensOK
    <3> QED
      BY <3>1, SmallSizes
  <2> HIDE DEF r
  <2>5. MidAdd(r, 0)
    BY <2>2, <2>3, <2>4 DEF SlabsOK, MidAdd, Counted, LensOK, NodesOK, WinsOK
  <2>6. MidAdd(AddLenSet(r, c, granted), 0)
    BY <2>5, AddLenSetOK
  <2> QED
    BY <2>1, <2>6 DEF r
<1> QED
  BY <1>2, <1>3

(* A winning card was written to WinPlace(s), and AddWinSet is yet to come. *)
Written(s, k) ==
  /\ IsSmall(s) /\ Counted(s) /\ LensOK(s) /\ NodesOK(s)
  /\ \/ /\ s.windex = -1
        /\ s.wSlab \in Nat /\ s.wBase = <<s.wSlab, 0>> /\ s.wSize \in Nat
        /\ s.wSize <= s.wLimit /\ s.wLimit = IF s.wSlab = 0 THEN WInit ELSE WSize
        /\ \A w \in DOMAIN s.win :
             /\ w \in Nat \X Nat
             /\ w[1] < s.wSlab \/ (w[1] = s.wSlab /\ w[2] <= s.wSize)
     \/ /\ s.clear /\ s.windex \in 0..(k - 1)
        /\ \A w \in DOMAIN s.win :
             w \in Nat \X Nat \/ (w[1] = Temp /\ w[2] \in 0..(2 * s.windex))

LEMMA OnTempWinOK ==
  ASSUME NEW k \in 0..3, NEW s, Written(s, k)
  PROVE  MidAdd(OnTempWin(s), k + 1)
<1> DEFINE r == OnTempWin(s)
<1>1. IsSmall(r)
  BY SmallWith DEF OnTempWin, Written
<1>2. /\ r.kind = s.kind /\ r.clear /\ r.overrun = s.overrun
      /\ r.max = s.max /\ r.maxIndex = s.maxIndex /\ r.alloc = s.alloc
      /\ r.windex = s.windex + 1 /\ r.wSize = s.windex + 1
      /\ r.wBase = <<Temp, s.windex + 1>> /\ r.win = s.win
      /\ r.nSlab = s.nSlab /\ r.nSize = s.nSize /\ r.nLimit = s.nLimit
      /\ r.nBase = s.nBase /\ r.node = s.node /\ r.lenInd = s.lenInd
  BY DEF OnTempWin, Written, IsSmall, SmallFields
<1> HIDE DEF r
<1>3. Counted(r) /\ LensOK(r) /\ NodesOK(r)
  BY <1>2 DEF Written, Counted, LensOK, NodesOK
<1>4. s.windex \in -1..(k - 1)
  BY DEF Written
<1>5. r.windex \in 0..k /\ 2 * r.windex - 1 = 2 * s.windex + 1
  BY <1>2, <1>4
<1>6. ASSUME NEW w \in DOMAIN r.win
      PROVE  w \in Nat \X Nat \/ (w[1] = Temp /\ w[2] \in 0..(2 * r.windex - 1))
  BY <1>2, <1>4, <1>5 DEF Written
<1>7. MidAdd(r, k + 1)
  BY <1>1, <1>2, <1>3, <1>5, <1>6 DEF MidAdd, TempOK
<1> QED
  BY <1>7 DEF r

LEMMA AddWinSetOK ==
  ASSUME NEW k \in 0..3, NEW s, Written(s, k), NEW granted
  PROVE  MidAdd(AddWinSet(s, granted), k + 1)
<1> DEFINE more == [s EXCEPT !.wSlab = @ + 1, !.wLimit = WSize]
           on == [s EXCEPT !.wSize = @ + 1]
           slab == [more EXCEPT !.alloc = @ + WinMem, !.wSize = 0,
                                !.wBase = <<more.wSlab, 0>>]
<1>1. CASE s.clear
  BY <1>1, OnTempWinOK DEF AddWinSet
<1>2. CASE ~s.clear
  <2>1. /\ s.windex = -1
        /\ s.wSlab \in Nat /\ s.wBase = <<s.wSlab, 0>> /\ s.wSize \in Nat
        /\ s.wSize <= s.wLimit /\ s.wLimit = IF s.wSlab = 0 THEN WInit ELSE WSize
        /\ \A w \in DOMAIN s.win :
             /\ w \in Nat \X Nat
             /\ w[1] < s.wSlab \/ (w[1] = s.wSlab /\ w[2] <= s.wSize)
    BY <1>2 DEF Written
  <2>2. CASE s.wSize < s.wLimit
    <3>1. IsSmall(on)
      BY SmallWith DEF Written
    <3>2. /\ on.kind = s.kind /\ on.overrun = s.overrun
          /\ on.max = s.max /\ on.maxIndex = s.maxIndex /\ on.alloc = s.alloc
          /\ on.windex = s.windex /\ on.wSize = s.wSize + 1
          /\ on.wSlab = s.wSlab /\ on.wLimit = s.wLimit
          /\ on.wBase = s.wBase /\ on.win = s.win
          /\ on.nSlab = s.nSlab /\ on.nSize = s.nSize /\ on.nLimit = s.nLimit
          /\ on.nBase = s.nBase /\ on.node = s.node /\ on.lenInd = s.lenInd
      BY DEF Written, IsSmall, SmallFields
    <3>3. AddWinSet(s, granted) = on
      BY <1>2, <2>2 DEF AddWinSet
    <3> HIDE DEF on
    <3>4. Counted(on) /\ LensOK(on) /\ NodesOK(on)
      BY <3>2 DEF Written, Counted, LensOK, NodesOK
    <3>5. WinsOK(on)
      <4>1. on.wSize <= on.wLimit /\ on.wSize \in Nat
        BY <2>1, <2>2, <3>2, SmallSizes
      <4>2. ASSUME NEW w \in DOMAIN on.win
            PROVE  /\ w \in Nat \X Nat
                   /\ w[1] < on.wSlab \/ (w[1] = on.wSlab /\ w[2] < on.wSize)
        BY <2>1, <3>2
      <4> QED
        BY <2>1, <3>2, <4>1, <4>2 DEF WinsOK
    <3> QED
      BY <3>1, <3>3, <3>4, <3>5 DEF MidAdd
  <2>3. CASE ~(s.wSize < s.wLimit)
    <3>1. IsSmall(more)
      BY SmallWith DEF Written
    <3>2. /\ more.kind = s.kind /\ more.overrun = s.overrun
          /\ more.clear = s.clear
          /\ more.max = s.max /\ more.maxIndex = s.maxIndex /\ more.alloc = s.alloc
          /\ more.windex = s.windex /\ more.wSize = s.wSize
          /\ more.wSlab = s.wSlab + 1 /\ more.wLimit = WSize
          /\ more.wBase = s.wBase /\ more.win = s.win
          /\ more.nSlab = s.nSlab /\ more.nSize = s.nSize /\ more.nLimit = s.nLimit
          /\ more.nBase = s.nBase /\ more.node = s.node /\ more.lenInd = s.lenInd
      BY DEF Written, IsSmall, SmallFields
    <3>3. \/ AddWinSet(s, granted) = OnTempWin(s)
          \/ AddWinSet(s, granted) = OnTempWin(more)
          \/ AddWinSet(s, granted) = slab /\ ~(s.alloc + WinMem > s.max)
      BY <1>2, <2>3 DEF AddWinSet
    <3>4. CASE AddWinSet(s, granted) = OnTempWin(s)
      BY <3>4, OnTempWinOK
    <3>5. CASE AddWinSet(s, granted) = slab /\ ~(s.alloc + WinMem > s.max)
      <4>1. IsSmall(slab)
        BY <3>1, SmallWith
      <4>2. /\ slab.kind = s.kind /\ slab.overrun = s.overrun
            /\ slab.max = s.max /\ slab.maxIndex = s.maxIndex
            /\ slab.alloc = s.alloc + WinMem
            /\ slab.windex = s.windex /\ slab.wSize = 0
            /\ slab.wSlab = s.wSlab + 1 /\ slab.wLimit = WSize
            /\ slab.wBase = <<s.wSlab + 1, 0>> /\ slab.win = s.win
            /\ slab.nSlab = s.nSlab /\ slab.nSize = s.nSize
            /\ slab.nLimit = s.nLimit
            /\ slab.nBase = s.nBase /\ slab.node = s.node /\ slab.lenInd = s.lenInd
        <5> HIDE DEF more
        <5> QED
          BY <3>1, <3>2 DEF IsSmall, SmallFields
      <4> HIDE DEF slab
      <4>3. Counted(slab) /\ LensOK(slab) /\ NodesOK(slab)
        BY <3>5, <4>2, SmallSizes DEF Written, Counted, LensOK, NodesOK
      <4>4. WinsOK(slab)
        <5>1. ASSUME NEW w \in DOMAIN slab.win
              PROVE  w \in Nat \X Nat /\ w[1] < slab.wSlab
          BY <2>1, <4>2
        <5> QED
          BY <2>1, <4>2, <5>1, SmallSizes DEF WinsOK
      <4> QED
        BY <3>5, <4>1, <4>3, <4>4 DEF MidAdd
    <3>6. CASE AddWinSet(s, granted) = OnTempWin(more)
      <4> HIDE DEF more
      <4>1. ASSUME NEW w \in DOMAIN more.win
            PROVE  w \in Nat \X Nat /\ w[1] < more.wSlab
        BY <2>1, <3>2
      <4> DEFINE r == OnTempWin(more)
      <4>2. IsSmall(r)
        BY <3>1, SmallWith DEF OnTempWin
      <4>3. /\ r.kind = s.kind /\ r.clear /\ r.overrun = s.overrun
            /\ r.max = s.max /\ r.maxIndex = s.maxIndex /\ r.alloc = s.alloc
            /\ r.windex = 0 /\ r.wSize = 0
            /\ r.wBase = <<Temp, 0>> /\ r.win = s.win
            /\ r.nSlab = s.nSlab /\ r.nSize = s.nSize /\ r.nLimit = s.nLimit
            /\ r.nBase = s.nBase /\ r.node = s.node /\ r.lenInd = s.lenInd
        BY <2>1, <3>1, <3>2 DEF OnTempWin, IsSmall, SmallFields
      <4> HIDE DEF r
      <4>4. Counted(r) /\ LensOK(r) /\ NodesOK(r)
        BY <4>3 DEF Written, Counted, LensOK, NodesOK
      <4>5. TempOK(r, k + 1)
        BY <2>1, <4>3 DEF TempOK
      <4> QED
        BY <3>6, <4>2, <4>4, <4>5 DEF MidAdd, r
    <3> QED
      BY <3>3, <3>4, <3>5, <3>6
  <2> QED
    BY <2>2, <2>3
<1> QED
  BY <1>1, <1>2

LEMMA PlaceFacts ==
  ASSUME NEW k \in 0..3, NEW s, MidAdd(s, k)
  PROVE  /\ WinPlaceIsFree(s)
         /\ WinsOK(s) => WinPlace(s) = <<s.wSlab, s.wSize>>
         /\ TempOK(s, k) => WinPlace(s) = <<Temp, 2 * s.windex>>
<1>1. CASE WinsOK(s)
  <2>1. WinPlace(s) = <<s.wSlab, s.wSize>> /\ s.wSlab \in Nat /\ s.windex = -1
    BY <1>1 DEF WinPlace, WinsOK
  <2>2. WinPlace(s) \notin DOMAIN s.win
    BY <1>1, <2>1 DEF WinsOK
  <2>3. (CASE WinPlace(s)[1] = Temp -> WinPlace(s)[2] < TempSize
           [] WinPlace(s)[1] = 0    -> WinPlace(s)[2] <= WInit
           [] OTHER                 -> WinPlace(s)[2] <= WSize)
    BY <1>1, <2>1 DEF WinsOK, Temp
  <2>4. ~ TempOK(s, k)
    BY <2>1 DEF TempOK
  <2> QED
    BY <2>1, <2>2, <2>3, <2>4 DEF WinPlaceIsFree
<1>2. CASE TempOK(s, k)
  <2>1. s.windex \in 0..(k - 1) /\ WinPlace(s) = <<Temp, 2 * s.windex>>
    BY <1>2 DEF WinPlace, TempOK
  <2>2. WinPlace(s) \notin DOMAIN s.win
    <3>1. SUFFICES ASSUME WinPlace(s) \in DOMAIN s.win PROVE FALSE
      OBVIOUS
    <3>2. ~(Temp \in Nat) /\ ~(2 * s.windex \in 0..(2 * s.windex - 1))
      BY <2>1 DEF Temp
    <3> QED
      BY <1>2, <2>1, <3>1, <3>2 DEF TempOK
  <2>3. 2 * s.windex < TempSize
    BY <2>1, SmallSizes
  <2>4. (CASE WinPlace(s)[1] = Temp -> WinPlace(s)[2] < TempSize
           [] WinPlace(s)[1] = 0    -> WinPlace(s)[2] <= WInit
           [] OTHER                 -> WinPlace(s)[2] <= WSize)
    BY <2>1, <2>3 DEF Temp
  <2>5. ~ WinsOK(s)
    BY <2>1 DEF WinsOK
  <2> QED
    BY <2>1, <2>2, <2>4, <2>5 DEF WinPlaceIsFree
<1> QED
  BY <1>1, <1>2 DEF MidAdd

LEMMA NewWinOK ==
  ASSUME NEW k \in 0..3, NEW s, MidAdd(s, k), NEW c, NEW at, NEW prev, NEW prefix,
         NEW granted
  PROVE  MidAdd(NewWin(s, c, at, prev, prefix, granted).s, k + 1)
<1> DEFINE w == WinPlace(s)
           first == IF prev = Null THEN s.tree[c][at].point ELSE s.win[prev].nextWin
           card == [prefix |-> prefix, next |-> first, nextWin |-> Null,
                    prev |-> prev, node |-> Null]
           linked == IF prev = Null THEN [s EXCEPT !.tree[c][at].point = w]
                     ELSE [s EXCEPT !.win[prev].nextWin = w]
           more == With(linked.win, w, card)
           r == [linked EXCEPT !.overrun = @ \/ ~WinPlaceIsFree(s), !.win = more]
<1>1. NewWin(s, c, at, prev, prefix, granted).s = AddWinSet(r, granted)
  BY DEF NewWin
<1> HIDE DEF w, card
<1>2. IsSmall(linked)
  BY SmallWith DEF MidAdd
<1>3. /\ linked.kind = s.kind /\ linked.overrun = s.overrun
      /\ linked.clear = s.clear
      /\ linked.max = s.max /\ linked.maxIndex = s.maxIndex
      /\ linked.alloc = s.alloc
      /\ linked.windex = s.windex /\ linked.wSize = s.wSize
      /\ linked.wSlab = s.wSlab /\ linked.wLimit = s.wLimit
      /\ linked.wBase = s.wBase
      /\ linked.nSlab = s.nSlab /\ linked.nSize = s.nSize
      /\ linked.nLimit = s.nLimit
      /\ linked.nBase = s.nBase /\ linked.node = s.node
      /\ linked.lenInd = s.lenInd
      /\ DOMAIN linked.win = DOMAIN s.win
  <2>1. CASE prev = Null
    BY <2>1 DEF MidAdd, IsSmall, SmallFields
  <2>2. CASE prev # Null
    BY <2>2 DEF MidAdd, IsSmall, SmallFields
  <2> QED
    BY <2>1, <2>2
<1> HIDE DEF linked
<1>4. DOMAIN more = {w} \union DOMAIN s.win
  BY <1>3 DEF With
<1> HIDE DEF more
<1>5. IsSmall(r)
  BY <1>2, SmallWith
<1>6. /\ r.kind = s.kind /\ r.overrun = (s.overrun \/ ~WinPlaceIsFree(s))
      /\ r.clear = s.clear
      /\ r.max = s.max /\ r.maxIndex = s.maxIndex /\ r.alloc = s.alloc
      /\ r.windex = s.windex /\ r.wSize = s.wSize
      /\ r.wSlab = s.wSlab /\ r.wLimit = s.wLimit
      /\ r.wBase = s.wBase /\ r.win = more
      /\ r.nSlab = s.nSlab /\ r.nSize = s.nSize /\ r.nLimit = s.nLimit
      /\ r.nBase = s.nBase /\ r.node = s.node /\ r.lenInd = s.lenInd
  BY <1>2, <1>3 DEF IsSmall, SmallFields
<1> HIDE DEF r
<1>7. Counted(r) /\ LensOK(r) /\ NodesOK(r)
  BY <1>6, PlaceFacts DEF MidAdd, Counted, LensOK, NodesOK
<1>8. CASE WinsOK(s)
  <2>1. w = <<s.wSlab, s.wSize>>
    BY <1>8, PlaceFacts DEF w
  <2>2. ASSUME NEW v \in DOMAIN r.win
        PROVE  /\ v \in Nat \X Nat
               /\ v[1] < r.wSlab \/ (v[1] = r.wSlab /\ v[2] <= r.wSize)
    <3>1. CASE v = w
      BY <1>6, <1>8, <2>1, <3>1 DEF WinsOK
    <3>2. CASE v \in DOMAIN s.win
      BY <1>6, <1>8, <3>2 DEF WinsOK
    <3> QED
      BY <1>4, <1>6, <3>1, <3>2
  <2> QED
    BY <1>1, <1>5, <1>6, <1>7, <1>8, <2>2, AddWinSetOK DEF WinsOK, Written
<1>9. CASE TempOK(s, k)
  <2>1. w = <<Temp, 2 * s.windex>> /\ s.windex \in 0..(k - 1)
    BY <1>9, PlaceFacts DEF w, TempOK
  <2>2. ASSUME NEW v \in DOMAIN r.win
        PROVE  v \in Nat \X Nat \/ (v[1] = Temp /\ v[2] \in 0..(2 * r.windex))
    <3>1. CASE v = w
      BY <1>6, <2>1, <3>1
    <3>2. CASE v \in DOMAIN s.win
      BY <1>6, <1>9, <2>1, <3>2 DEF TempOK
    <3> QED
      BY <1>4, <1>6, <3>1, <3>2
  <2> QED
    BY <1>1, <1>5, <1>6, <1>7, <1>9, <2>2, AddWinSetOK DEF TempOK, Written
<1> QED
  BY <1>8, <1>9 DEF MidAdd

-----------------------------------------------------------------------------
(* Lookups.                                                                *)

LEMMA Sizes4 == TtTricks \in Nat \ {0} /\ Hands \subseteq 0..3
BY EntriesAssumption

LEMMA NullIsNoPlace ==
  /\ \A n : n \in Int \X Int => n # Null
  /\ \A n : n \in Nat \X Nat => n # Null /\ n \in Int \X Int
BY DEF Null

LEMMA OldestIn ==
  ASSUME NEW S \in SUBSET (Nat \X Nat), S # {}
  PROVE  \E w \in S : \A v \in S : ~ Older(v, w)
<1> DEFINE A == {w[1] : w \in S}
<1>1. PICK a \in A : \A m \in A : a <= m
  <2>1. A \in SUBSET Nat /\ A # {}
    OBVIOUS
  <2> HIDE DEF A
  <2> QED
    BY <2>1, NatLeast
<1> DEFINE B == {w[2] : w \in {v \in S : v[1] = a}}
<1>2. PICK b \in B : \A m \in B : b <= m
  <2>1. B \in SUBSET Nat /\ B # {}
    OBVIOUS
  <2> HIDE DEF B
  <2> QED
    BY <2>1, NatLeast
<1>3. PICK w \in S : w[1] = a /\ w[2] = b
  OBVIOUS
<1>4. ASSUME NEW v \in S PROVE ~ Older(v, w)
  <2>1. v[1] \in Nat /\ v[2] \in Nat /\ w[1] \in Nat /\ w[2] \in Nat
    OBVIOUS
  <2>2. w[1] <= v[1]
    BY <1>1, <1>3
  <2>3. v[1] = w[1] => w[2] <= v[2]
    BY <1>2, <1>3
  <2> QED
    BY <2>1, <2>2, <2>3 DEF Older
<1> QED
  BY <1>4

(* The walk down a tree of lengths, step by step. *)
WalkSteps(tree, key, g) ==
  \A i \in 1..Len(tree) :
    g[i] = IF tree[i].dist = key \/ Child(tree[i], key) = 0 THEN i
           ELSE g[Child(tree[i], key)]

LEMMA WalkTreeSteps ==
  ASSUME NEW tree, TreeOK(tree), NEW key
  PROVE  /\ \E g : WalkTree(tree, key) = g[1] /\ WalkSteps(tree, key, g)
         /\ Len(tree) \in Nat /\ 1 \in 1..Len(tree)
         /\ \A i \in 1..Len(tree) : Child(tree[i], key) # 0 =>
              Child(tree[i], key) \in 1..Len(tree) /\ Child(tree[i], key) > i
<1> DEFINE n == Len(tree)
           D == 1..n
           F == {i \in D : tree[i].dist = key \/ Child(tree[i], key) = 0}
           res == [i \in D |-> i]
           succ == [i \in D |-> IF i \in F THEN i ELSE Child(tree[i], key)]
           R(g) == g = [i \in DOMAIN tree |->
                          IF tree[i].dist = key \/ Child(tree[i], key) = 0 THEN i
                          ELSE g[Child(tree[i], key)]]
           Walk == CHOOSE g : R(g)
<1>1. n \in Nat /\ 1 \in D /\ DOMAIN tree = D
  BY DEF TreeOK
<1>2. ASSUME NEW i \in D, i \notin F
      PROVE  Child(tree[i], key) \in D /\ Child(tree[i], key) > i
  BY <1>1, <1>2 DEF TreeOK, Child
<1>3. \E g \in [D -> D] : Goes(g, D, F, res, succ)
  <2>1. res \in [D -> D] /\ succ \in [D -> D] /\ D # {}
    BY <1>1, <1>2
  <2> HIDE DEF res, succ, F, D
  <2> QED
    BY <2>1, TailRecursion, Zenon
<1>4. \E g : R(g)
  <2>1. PICK g \in [D -> D] : Goes(g, D, F, res, succ)
    BY <1>3
  <2>2. \A i \in D : g[i] = IF tree[i].dist = key \/ Child(tree[i], key) = 0 THEN i
                            ELSE g[Child(tree[i], key)]
    BY <2>1 DEF Goes
  <2> QED
    BY <1>1, <2>2
<1>5. R(Walk)
  <2> HIDE DEF R
  <2> QED
    BY <1>4
<1>6. WalkTree(tree, key) = Walk[1]
  BY Zenon DEF WalkTree
<1> HIDE DEF Walk
<1>7. WalkSteps(tree, key, Walk)
  BY <1>1, <1>5 DEF WalkSteps
<1>8. \A i \in D : Child(tree[i], key) # 0 =>
        Child(tree[i], key) \in D /\ Child(tree[i], key) > i
  BY <1>1 DEF TreeOK, Child
<1> QED
  BY <1>1, <1>6, <1>7, <1>8

LEMMA WalkTreeIn ==
  ASSUME NEW tree, TreeOK(tree), NEW key
  PROVE  WalkTree(tree, key) \in 1..Len(tree)
<1> DEFINE n == Len(tree)
           D == 1..n
           F == {i \in D : tree[i].dist = key \/ Child(tree[i], key) = 0}
<1>1. PICK Walk : WalkTree(tree, key) = Walk[1] /\ WalkSteps(tree, key, Walk)
  BY WalkTreeSteps
<1>2. /\ n \in Nat /\ 1 \in D
      /\ \A i \in D : i \notin F => Child(tree[i], key) \in D /\ Child(tree[i], key) > i
  BY WalkTreeSteps
<1>3. ASSUME NEW i \in D
      PROVE  Walk[i] = IF i \in F THEN i ELSE Walk[Child(tree[i], key)]
  BY <1>1 DEF WalkSteps
<1> DEFINE Bad == {i \in D : Walk[i] \notin D}
<1>4. Bad = {}
  <2>1. SUFFICES ASSUME Bad # {} PROVE FALSE
    OBVIOUS
  <2>2. Max(Bad) \in Bad /\ \A i \in Bad : i <= Max(Bad)
    <3>1. Bad \in SUBSET (1..n)
      OBVIOUS
    <3> HIDE DEF Bad
    <3> QED
      BY <1>2, <2>1, <3>1, MaxOf
  <2>3. PICK i \in Bad : \A j \in Bad : j <= i
    BY <2>2
  <2>4. i \in D /\ i \notin F /\ Walk[i] = Walk[Child(tree[i], key)]
    BY <1>3, <2>3
  <2>5. Child(tree[i], key) \in Bad
    BY <1>2, <2>3, <2>4
  <2> QED
    BY <1>2, <2>3, <2>4, <2>5
<1> QED
  BY <1>1, <1>2, <1>4

(* A walk that ended at i goes the same way in a tree that may have grown   *)
(* at i.                                                                   *)
LEMMA WalkTreeTo ==
  ASSUME NEW tree, TreeOK(tree), NEW key, NEW grown, TreeOK(grown),
         NEW i, i = WalkTree(tree, key), NEW to \in 1..Len(grown), grown[to].dist = key,
         to = i \/ (tree[i].dist # key /\ Child(grown[i], key) = to),
         Len(tree) <= Len(grown),
         \A j \in 1..Len(tree) :
           /\ grown[j].dist = tree[j].dist
           /\ j # i => Child(grown[j], key) = Child(tree[j], key)
  PROVE  WalkTree(grown, key) = to
<1> DEFINE D == 1..Len(tree)
<1>1. PICK g : WalkTree(tree, key) = g[1] /\ WalkSteps(tree, key, g)
  BY WalkTreeSteps
<1>2. PICK h : WalkTree(grown, key) = h[1] /\ WalkSteps(grown, key, h)
  BY WalkTreeSteps
<1>3. /\ Len(tree) \in Nat /\ 1 \in D /\ Len(grown) \in Nat
      /\ \A j \in D : Child(tree[j], key) # 0 =>
           Child(tree[j], key) \in D /\ Child(tree[j], key) > j
      /\ \A j \in D : j \in 1..Len(grown)
  <2>1. /\ Len(tree) \in Nat /\ 1 \in D /\ Len(grown) \in Nat
        /\ \A j \in D : Child(tree[j], key) # 0 =>
             Child(tree[j], key) \in D /\ Child(tree[j], key) > j
    BY WalkTreeSteps
  <2> QED
    BY <2>1
<1>4. to # 0 /\ h[to] = to
  BY <1>2, <1>3 DEF WalkSteps
<1> DEFINE Bad == {j \in D : g[j] = i /\ h[j] # to}
<1>5. Bad = {}
  <2>1. SUFFICES ASSUME Bad # {} PROVE FALSE
    OBVIOUS
  <2>2. Max(Bad) \in Bad /\ \A j \in Bad : j <= Max(Bad)
    <3>1. Bad \in SUBSET (1..Len(tree))
      OBVIOUS
    <3> HIDE DEF Bad
    <3> QED
      BY <1>3, <2>1, <3>1, MaxOf
  <2>3. PICK j \in Bad : \A k \in Bad : k <= j
    BY <2>2
  <2>4. /\ j \in D /\ j \in 1..Len(grown) /\ g[j] = i /\ h[j] # to
        /\ grown[j].dist = tree[j].dist
    BY <1>3, <2>3
  <2>5. CASE j = i
    BY <1>2, <1>4, <2>4, <2>5 DEF WalkSteps
  <2>6. CASE j # i
    <3> DEFINE k == Child(tree[j], key)
    <3>1. tree[j].dist # key /\ k # 0 /\ g[k] = i
      BY <1>1, <2>4, <2>6 DEF WalkSteps
    <3>2. k \in D /\ k > j
      BY <1>3, <2>4, <3>1
    <3>3. h[k] = to
      BY <1>3, <2>3, <2>4, <3>1, <3>2
    <3>4. Child(grown[j], key) = k
      BY <2>4, <2>6
    <3>5. h[j] = h[k]
      BY <1>2, <2>4, <3>1, <3>4 DEF WalkSteps
    <3> QED
      BY <2>4, <3>3, <3>5
  <2> QED
    BY <2>5, <2>6
<1> QED
  BY <1>1, <1>2, <1>3, <1>5

(* The places that the loops over winning cards may reach. *)
Steps4(win) == DOMAIN win \union {Null}

LEMMA LinkFacts ==
  ASSUME NEW s, LinksOK(s), NEW own, Linked(s, own), NEW w \in DOMAIN s.win
  PROVE  /\ s.win[w] \in WinCards
         /\ s.win[w].next \in Steps4(s.win) /\ s.win[w].prev \in Steps4(s.win)
         /\ s.win[w].nextWin \in Steps4(s.win)
BY DEF LinksOK, Linked, CardsOK, Steps4

LEMMA AlternativeIn ==
  ASSUME NEW win, DOMAIN win \subseteq Nat \X Nat,
         \A w \in DOMAIN win : win[w].next \in Steps4(win),
         NEW A \in SUBSET DOMAIN win,
         \A w \in A : win[w].next # Null => win[w].next \in A /\ Older(win[w].next, w),
         NEW first \in A \union {Null}, NEW prefix
  PROVE  LET r == Alternative(win, first, prefix)
         IN  r = Null \/ (r \in A /\ win[r].prefix = prefix)
<1> DEFINE D == DOMAIN win \union {Null}
           F == {w \in D : w = Null \/ win[w].prefix = prefix}
           res == [w \in D |-> w]
           succ == [w \in D |-> IF w \in F THEN w ELSE win[w].next]
           R(g) == g = [w \in DOMAIN win \union {Null} |->
                          IF w = Null THEN Null
                          ELSE IF win[w].prefix = prefix THEN w ELSE g[win[w].next]]
           Look == CHOOSE g : R(g)
<1>1. \E g \in [D -> D] : Goes(g, D, F, res, succ)
  <2>1. res \in [D -> D] /\ succ \in [D -> D] /\ D # {}
    BY DEF Steps4
  <2> HIDE DEF res, succ, F, D
  <2> QED
    BY <2>1, TailRecursion, Zenon
<1>2. \E g : R(g)
  <2>1. PICK g \in [D -> D] : Goes(g, D, F, res, succ)
    BY <1>1
  <2>2. \A w \in D : g[w] = IF w = Null THEN Null
                            ELSE IF win[w].prefix = prefix THEN w ELSE g[win[w].next]
    BY <2>1 DEF Goes
  <2> QED
    BY <2>2
<1>3. R(Look)
  <2> HIDE DEF R
  <2> QED
    BY <1>2
<1>4. Alternative(win, first, prefix) = Look[first]
  BY Zenon DEF Alternative
<1> HIDE DEF Look
<1>5. /\ Look[Null] = Null
      /\ \A w \in A : Look[w] = IF w = Null THEN Null
                        ELSE IF win[w].prefix = prefix THEN w ELSE Look[win[w].next]
  BY <1>3
<1> DEFINE Good(v) == v = Null \/ (v \in A /\ win[v].prefix = prefix)
           Bad == {w \in A : ~ Good(Look[w])}
<1>6. Bad = {}
  <2>1. SUFFICES ASSUME Bad # {} PROVE FALSE
    OBVIOUS
  <2>2. PICK w \in Bad : \A v \in Bad : ~ Older(v, w)
    <3>1. Bad \in SUBSET (Nat \X Nat)
      OBVIOUS
    <3> HIDE DEF Bad
    <3> QED
      BY <2>1, <3>1, OldestIn
  <2>3. w # Null /\ win[w].prefix # prefix /\ Look[w] = Look[win[w].next]
    BY <1>5, <2>2
  <2>4. CASE win[w].next = Null
    BY <1>5, <2>2, <2>3, <2>4
  <2>5. CASE win[w].next # Null
    BY <2>2, <2>3, <2>5
  <2> QED
    BY <2>4, <2>5
<1> QED
  BY <1>4, <1>5, <1>6

-----------------------------------------------------------------------------
(* What find_sop says is true.                                             *)

(* Facts about the cards of a level from the oldest on: T of the search    *)
(* that comes to a card, K of the one that leaves it.                      *)
Chain(A, next, T, K) ==
  /\ A \in SUBSET (Nat \X Nat)
  /\ \A w \in A : next[w] # Null => next[w] \in A /\ Older(next[w], w)
  /\ \A w \in A : next[w] = Null \/ next[w] \in T => w \in K
  /\ \A w \in A : w \in K => w \in T

LEMMA ChainSound ==
  ASSUME NEW A, NEW next, NEW T, NEW K, Chain(A, next, T, K)
  PROVE  A \subseteq T
<1>0. /\ A \in SUBSET (Nat \X Nat)
      /\ \A w \in A : next[w] # Null => next[w] \in A /\ Older(next[w], w)
      /\ \A w \in A : next[w] = Null \/ next[w] \in T => w \in K
      /\ \A w \in A : w \in K => w \in T
  BY DEF Chain
<1> DEFINE Bad == A \ T
<1> SUFFICES ASSUME Bad # {} PROVE FALSE
  OBVIOUS
<1>1. PICK w \in Bad : \A v \in Bad : ~ Older(v, w)
  <2>1. Bad \in SUBSET (Nat \X Nat)
    BY <1>0
  <2> HIDE DEF Bad
  <2> QED
    BY <2>1, OldestIn
<1>2. next[w] = Null \/ next[w] \in T
  BY <1>0, <1>1
<1> QED
  BY <1>0, <1>1, <1>2

(* The cards of one node of a tree below one card, or of its first level.  *)
Kids(win, own, o, prev) == {w \in DOMAIN win : own[w] = o /\ win[w].prev = prev}

LEMMA KidsChain ==
  ASSUME NEW win, NEW own, CardsOK(win, own), NEW o, NEW prev
  PROVE  LET A == Kids(win, own, o, prev)
         IN  \A w \in A : win[w].next # Null =>
               win[w].next \in A /\ Older(win[w].next, w)
BY DEF CardsOK, Kids

LEMMA KidsBelow ==
  ASSUME NEW win, NEW own, CardsOK(win, own), NEW o, NEW w \in DOMAIN win,
         own[w] = o, win[w].nextWin # Null, w # Null
  PROVE  win[w].nextWin \in Kids(win, own, o, w)
BY DEF CardsOK, Kids

(* What a search for position p may be told. *)
Right(d, p, limit, says) ==
  /\ says \in {"miss", "lower", "upper"}
  /\ says = "lower" => Value[d][p] > limit
  /\ says = "upper" => Value[d][p] <= limit

(* The recursion of find_sop. *)
SopSteps(s, order, limit, g) ==
  \A m \in {"try", "skip"}, w \in Steps4(s.win), k \in Int :
    LET fits == m = "try" /\ Covers(s.win[w].prefix, order[k])
        verdict == Verdict(s.node[s.win[w].node], limit)
        onward == IF s.win[w].next # Null THEN g[<<"try", s.win[w].next, k>>]
                  ELSE g[<<"skip", s.win[w].prev, k - 1>>]
    IN  g[<<m, w, k>>] =
          IF w = Null THEN "miss"
          ELSE IF ~fits THEN onward
          ELSE IF k < 4 THEN g[<<"try", s.win[w].nextWin, k + 1>>]
          ELSE IF verdict = "miss" THEN onward ELSE verdict

LEMMA FindSopSteps ==
  ASSUME NEW s, NEW own, LinksOK(s), Linked(s, own), NEW point, NEW order,
         NEW limit
  PROVE  \E g : /\ FindSop(s, point, order, limit) = g[<<"try", point, 1>>]
                /\ SopSteps(s, order, limit, g)
<1> DEFINE Body(g, x) ==
             LET w == s.win[x[2]]
                 k == x[3]
                 fits == x[1] = "try" /\ Covers(w.prefix, order[k])
                 verdict == Verdict(s.node[w.node], limit)
                 onward == IF w.next # Null THEN g[<<"try", w.next, k>>]
                           ELSE g[<<"skip", w.prev, k - 1>>]
             IN  IF x[2] = Null THEN "miss"
                 ELSE IF ~fits THEN onward
                 ELSE IF k < 4 THEN g[<<"try", w.nextWin, k + 1>>]
                 ELSE IF verdict = "miss" THEN onward ELSE verdict
           R(g) == g = [x \in {"try", "skip"} \X (DOMAIN s.win \union {Null}) \X Int
                          |-> Body(g, x)]
           Go == CHOOSE g : R(g)
<1>1. FindSop(s, point, order, limit) = Go[<<"try", point, 1>>]
  BY Zenon DEF FindSop
<1> DEFINE D == {"try", "skip"} \X Steps4(s.win) \X Int
           W(x) == s.win[x[2]]
           V(x) == Verdict(s.node[W(x).node], limit)
           fit(x) == x[1] = "try" /\ Covers(W(x).prefix, order[x[3]])
           F == {x \in D : x[2] = Null \/ (fit(x) /\ ~(x[3] < 4) /\ V(x) # "miss")}
           res == [x \in D |-> IF x[2] = Null THEN "miss" ELSE V(x)]
           succ == [x \in D |->
                      IF x \in F THEN x
                      ELSE IF fit(x) /\ x[3] < 4 THEN <<"try", W(x).nextWin, x[3] + 1>>
                      ELSE IF W(x).next # Null THEN <<"try", W(x).next, x[3]>>
                      ELSE <<"skip", W(x).prev, x[3] - 1>>]
           T == {res[x] : x \in D}
<1>2. succ \in [D -> D]
  <2>1. ASSUME NEW x \in D PROVE succ[x] \in D
    <3>1. /\ x[1] \in {"try", "skip"} /\ x[2] \in Steps4(s.win) /\ x[3] \in Int
          /\ x = <<x[1], x[2], x[3]>>
      OBVIOUS
    <3>2. CASE x \in F
      BY <3>2, Zenon
    <3>3. CASE x \notin F
      <4>1. x[2] \in DOMAIN s.win
        BY <3>1, <3>3 DEF Steps4
      <4>2. /\ W(x).next \in Steps4(s.win) /\ W(x).prev \in Steps4(s.win)
            /\ W(x).nextWin \in Steps4(s.win)
        BY <4>1, LinkFacts
      <4>3. x[3] + 1 \in Int /\ x[3] - 1 \in Int
        BY <3>1
      <4>4. \/ succ[x] = <<"try", W(x).nextWin, x[3] + 1>>
            \/ succ[x] = <<"try", W(x).next, x[3]>>
            \/ succ[x] = <<"skip", W(x).prev, x[3] - 1>>
        BY <3>3, Zenon
      <4> HIDE DEF succ, W
      <4>5. CASE succ[x] = <<"try", W(x).nextWin, x[3] + 1>>
        BY <4>2, <4>3, <4>5
      <4>6. CASE succ[x] = <<"try", W(x).next, x[3]>>
        BY <3>1, <4>2, <4>6
      <4>7. CASE succ[x] = <<"skip", W(x).prev, x[3] - 1>>
        BY <4>2, <4>3, <4>7
      <4> QED
        BY <4>4, <4>5, <4>6, <4>7
    <3> QED
      BY <3>2, <3>3, Zenon
  <2>2. succ = [x \in D |-> succ[x]]
    OBVIOUS
  <2> HIDE DEF succ, D
  <2> QED
    BY <2>1, <2>2
<1>3. \E g \in [D -> T] : Goes(g, D, F, res, succ)
  <2>1. res \in [D -> T]
    OBVIOUS
  <2>2. T # {}
    <3>1. <<"try", Null, 1>> \in D
      BY DEF Steps4
    <3> HIDE DEF D, res
    <3> QED
      BY <3>1
  <2> HIDE DEF D, T, F, res, succ, R, Go, Body
  <2> QED
    BY <1>2, <2>1, <2>2, TailRecursion, Zenon
<1>4. \E g : R(g)
  <2>1. PICK g \in [D -> T] : Goes(g, D, F, res, succ)
    BY <1>3, Zenon
  <2>2. ASSUME NEW x \in D PROVE g[x] = Body(g, x)
    <3> DEFINE next == IF x \in F THEN x
                       ELSE IF fit(x) /\ x[3] < 4
                            THEN <<"try", W(x).nextWin, x[3] + 1>>
                       ELSE IF W(x).next # Null THEN <<"try", W(x).next, x[3]>>
                       ELSE <<"skip", W(x).prev, x[3] - 1>>
    <3>0. succ[x] = next /\ res[x] = IF x[2] = Null THEN "miss" ELSE V(x)
      BY Zenon
    <3>1. g[x] = IF x \in F THEN res[x] ELSE g[next]
      BY <2>1, <3>0, Zenon DEF Goes
    <3> HIDE DEF succ, res
    <3>2. CASE x[2] = Null
      BY <3>0, <3>1, <3>2, Zenon
    <3>3. CASE x[2] # Null /\ fit(x) /\ x[3] < 4
      BY <3>0, <3>1, <3>3, Zenon
    <3>4. CASE x[2] # Null /\ fit(x) /\ ~(x[3] < 4) /\ V(x) # "miss"
      BY <3>0, <3>1, <3>4, Zenon
    <3>5. CASE x[2] # Null /\ (~fit(x) \/ (~(x[3] < 4) /\ V(x) = "miss"))
      <4>1. x \notin F /\ ~(fit(x) /\ x[3] < 4)
        BY <3>5, Zenon
      <4>2. g[x] = IF W(x).next # Null THEN g[<<"try", W(x).next, x[3]>>]
                   ELSE g[<<"skip", W(x).prev, x[3] - 1>>]
        BY <3>1, <4>1, Zenon
      <4> QED
        BY <3>5, <4>2, Zenon
    <3> QED
      BY <3>2, <3>3, <3>4, <3>5
  <2>3. g = [x \in D |-> g[x]]
    <3> HIDE DEF D, T
    <3> QED
      BY <2>1, Zenon
  <2>4. R(g)
    <3>1. D = {"try", "skip"} \X (DOMAIN s.win \union {Null}) \X Int
      BY DEF Steps4
    <3> HIDE DEF Body, D
    <3> QED
      BY <2>2, <2>3, <3>1
  <2> QED
    BY <2>4, Zenon
<1>5. R(Go)
  <2> HIDE DEF R
  <2> QED
    BY <1>4
<1> HIDE DEF Go
<1>6. SopSteps(s, order, limit, Go)
  <2>1. ASSUME NEW m \in {"try", "skip"}, NEW w \in Steps4(s.win), NEW k \in Int
        PROVE  Go[<<m, w, k>>] = Body(Go, <<m, w, k>>)
    <3>1. <<m, w, k>> \in {"try", "skip"} \X (DOMAIN s.win \union {Null}) \X Int
      BY DEF Steps4
    <3> HIDE DEF Body
    <3> QED
      BY <1>5, <3>1
  <2> HIDE DEF R
  <2> QED
    BY <2>1 DEF SopSteps
<1> QED
  BY <1>1, <1>6

LEMMA FindSopRight ==
  ASSUME NEW d, NEW s, DOMAIN s.win \subseteq Nat \X Nat, NEW own,
         PathsOK(d, s, own, Null), NEW p \in Meets(d), Value[d][p] \in Int,
         NEW limit \in Int, NEW o, o[1] = <<p.trick, p.hand>>,
         s.tree[o[1]][o[2]].dist = p.dist,
         NEW point \in Kids(s.win, own, o, Null) \union {Null}
  PROVE  Right(d, p, limit, FindSop(s, point, p.order, limit))
<1> DEFINE win == s.win
           kids(w) == Kids(win, own, o, w)
           next == [w \in DOMAIN win |-> win[w].next]
           fits(w, k) == Covers(win[w].prefix, p.order[k])
           right(x) == Right(d, p, limit, x)
<1>0. /\ 0 \in Int /\ 1 \in Int /\ 2 \in Int /\ 3 \in Int /\ 4 \in Int
      /\ 5 \in Int /\ 5 = 4 + 1 /\ 4 = 3 + 1 /\ 3 = 2 + 1 /\ 2 = 1 + 1
      /\ 0 = 1 - 1 /\ 1 = 2 - 1 /\ 2 = 3 - 1 /\ 3 = 4 - 1
  OBVIOUS
<1>1. PICK g : /\ FindSop(s, point, p.order, limit) = g[<<"try", point, 1>>]
               /\ SopSteps(s, p.order, limit, g)
  BY FindSopSteps DEF PathsOK
<1>2. /\ CardsOK(win, own) /\ LinksOK(s) /\ Linked(s, own)
      /\ Claims(d, s, own, Null)
      /\ \A w \in DOMAIN win : w # Null
  BY NullIsNoPlace DEF PathsOK, Linked
<1> DEFINE on == [w \in DOMAIN win |-> [k \in Int |->
                   IF win[w].next # Null THEN g[<<"try", win[w].next, k>>]
                   ELSE g[<<"skip", win[w].prev, k - 1>>]]]
           verdict(w) == Verdict(s.node[win[w].node], limit)
<1>3. ASSUME NEW k \in Int
      PROVE  g[<<"try", Null, k>>] = "miss" /\ g[<<"skip", Null, k>>] = "miss"
  BY <1>1 DEF SopSteps, Steps4
<1>4. ASSUME NEW w \in DOMAIN win, NEW k \in Int
      PROVE  /\ g[<<"skip", w, k>>] = on[w][k]
             /\ ~fits(w, k) => g[<<"try", w, k>>] = on[w][k]
  <2>1. w \in Steps4(win) /\ w # Null
    BY <1>2 DEF Steps4
  <2> QED
    BY <1>1, <2>1 DEF SopSteps
<1>4a. ASSUME NEW w \in DOMAIN win, NEW k \in Int, NEW j \in Int, j = k + 1, k < 4,
              fits(w, k)
       PROVE  g[<<"try", w, k>>] = g[<<"try", win[w].nextWin, j>>]
  <2>1. w \in Steps4(win) /\ w # Null
    BY <1>2 DEF Steps4
  <2> QED
    BY <1>1, <1>4a, <2>1 DEF SopSteps
<1>4b. ASSUME NEW w \in DOMAIN win, fits(w, 4)
       PROVE  g[<<"try", w, 4>>] = IF verdict(w) = "miss" THEN on[w][4] ELSE verdict(w)
  <2>1. w \in Steps4(win) /\ w # Null /\ 4 \in Int /\ ~(4 < 4)
    BY <1>2 DEF Steps4
  <2> QED
    BY <1>1, <1>4b, <2>1 DEF SopSteps
<1>5. right("miss")
  BY DEF Right
<1> HIDE DEF right
<1>6. ASSUME NEW prev \in Steps4(win)
      PROVE  /\ kids(prev) \in SUBSET (Nat \X Nat)
             /\ kids(prev) \subseteq DOMAIN win
             /\ \A w \in kids(prev) : next[w] # Null =>
                  next[w] \in kids(prev) /\ Older(next[w], w)
             /\ \A w \in kids(prev) : win[w].prev = prev /\ own[w] = o
  <2>1. kids(prev) \subseteq DOMAIN win
    BY DEF Kids
  <2> QED
    BY <1>2, <2>1, KidsChain DEF Kids
<1>7. ASSUME NEW w \in DOMAIN win, own[w] = o, win[w].nextWin # Null
      PROVE  win[w].nextWin \in kids(w)
  BY <1>2, <1>7, KidsBelow
(* A level all of whose cards find true answers below. *)
<1>8. ASSUME NEW prev \in Steps4(win), NEW j \in Int, NEW k \in Int, j = k - 1,
             right(g[<<"skip", prev, j>>]),
             \A w \in kids(prev) : right(on[w][k]) => right(g[<<"try", w, k>>])
      PROVE  \A w \in kids(prev) \union {Null} : right(g[<<"try", w, k>>])
  <2> DEFINE A == kids(prev)
             T == {w \in A : right(g[<<"try", w, k>>])}
             K == {w \in A : right(on[w][k])}
  <2>1. ASSUME NEW w \in A, next[w] = Null \/ next[w] \in T PROVE w \in K
    <3>1. w \in DOMAIN win /\ win[w].prev = prev /\ next[w] = win[w].next
      BY <1>6, SMTT(20)
    <3>2. CASE next[w] = Null
      <4>1. on[w][k] = g[<<"skip", prev, j>>]
        BY <1>8, <3>1, <3>2, SMTT(20)
      <4> QED
        BY <1>8, <4>1
    <3>3. CASE next[w] # Null
      <4>1. on[w][k] = g[<<"try", next[w], k>>]
        BY <3>1, <3>3, SMTT(20)
      <4> QED
        BY <2>1, <3>3, <4>1
    <3> QED
      BY <3>2, <3>3
  <2>2. \A w \in A : w \in K => w \in T
    BY <1>8
  <2>3. A \in SUBSET (Nat \X Nat)
    BY <1>6
  <2>4. \A w \in A : next[w] # Null => next[w] \in A /\ Older(next[w], w)
    BY <1>6
  <2>5. A \subseteq T
    <3> HIDE DEF A, T, K, next
    <3>1. Chain(A, next, T, K)
      BY <2>1, <2>2, <2>3, <2>4 DEF Chain
    <3> QED
      BY <3>1, ChainSound
  <2> QED
    BY <1>3, <1>5, <2>5
<1> HIDE DEF next, on
<1> DEFINE Under(w, prev, k) == w \in kids(prev) /\ fits(w, k)
<1>9. ASSUME NEW a \in DOMAIN win, NEW b \in DOMAIN win, NEW e \in DOMAIN win,
             Under(a, Null, 1), Under(b, a, 2), Under(e, b, 3),
             right(g[<<"skip", e, 3>>])
      PROVE  \A w \in kids(e) \union {Null} : right(g[<<"try", w, 4>>])
  <2>1. ASSUME NEW w \in kids(e), right(on[w][4])
        PROVE  right(g[<<"try", w, 4>>])
    <3>1. w \in DOMAIN win /\ win[w].prev = e /\ own[w] = o
      BY <1>6 DEF Steps4
    <3>2. CASE ~fits(w, 4)
      <4>1. g[<<"try", w, 4>>] = on[w][4]
        BY <1>0, <1>4, <3>1, <3>2
      <4> QED
        BY <2>1, <4>1
    <3>3. CASE fits(w, 4) /\ verdict(w) = "miss"
      <4>1. g[<<"try", w, 4>>] = on[w][4]
        BY <1>4b, <3>1, <3>3
      <4> QED
        BY <2>1, <4>1
    <3>4. CASE fits(w, 4) /\ verdict(w) # "miss"
      <4>1. win[e].prev = b /\ win[b].prev = a /\ win[a].prev = Null
        BY <1>6, <1>9 DEF Steps4
      <4>2. Leaf(win, w) /\ w # Null
        BY <1>2, <3>1, <4>1 DEF Leaf
      <4>3. /\ PathOf(win, w)[1] = win[a].prefix /\ PathOf(win, w)[2] = win[b].prefix
            /\ PathOf(win, w)[3] = win[e].prefix /\ PathOf(win, w)[4] = win[w].prefix
        BY <3>1, <4>1 DEF PathOf
      <4>4. Fits(PathOf(win, w), p.order)
        BY <1>9, <3>4, <4>3 DEF Fits, Suits
      <4> DEFINE n == s.node[win[w].node]
                 entry == [pattern |-> PathOf(win, w), lo |-> n.lo, hi |-> n.hi]
      <4>5. win[w].node \in DOMAIN s.node /\ ClaimOf(d, s, own, w)
        BY <1>2, <3>1, <4>2 DEF Claims
      <4>6. n \in Bounds
        BY <1>2, <4>5 DEF LinksOK
      <4>7. True(d, entry, o[1], s.tree[o[1]][o[2]].dist)
        BY <3>1, <4>5 DEF ClaimOf
      <4>8. n.lo <= Value[d][p] /\ Value[d][p] <= n.hi
        BY <4>4, <4>7 DEF True
      <4>9. right(verdict(w))
        BY <4>6, <4>8 DEF Verdict, Bounds, Right, right
      <4>10. g[<<"try", w, 4>>] = verdict(w)
        BY <1>4b, <3>1, <3>4
      <4> QED
        BY <4>9, <4>10
    <3> QED
      BY <3>2, <3>3, <3>4
  <2> QED
    BY <1>0, <1>8, <1>9, <2>1 DEF Steps4
<1>10. ASSUME NEW a \in DOMAIN win, NEW b \in DOMAIN win,
              Under(a, Null, 1), Under(b, a, 2), right(g[<<"skip", b, 2>>])
       PROVE  \A w \in kids(b) \union {Null} : right(g[<<"try", w, 3>>])
  <2>1. ASSUME NEW w \in kids(b), right(on[w][3])
        PROVE  right(g[<<"try", w, 3>>])
    <3>1. w \in DOMAIN win /\ own[w] = o
      BY <1>6 DEF Steps4
    <3>2. CASE ~fits(w, 3)
      <4>1. g[<<"try", w, 3>>] = on[w][3]
        BY <1>0, <1>4, <3>1, <3>2
      <4> QED
        BY <2>1, <4>1
    <3>3. CASE fits(w, 3)
      <4>1. right(g[<<"skip", w, 3>>])
        <5>1. g[<<"skip", w, 3>>] = on[w][3]
          BY <1>0, <1>4, <3>1
        <5> QED
          BY <2>1, <5>1
      <4>2. win[w].nextWin \in kids(w) \union {Null}
        BY <1>7, <3>1
      <4>3. right(g[<<"try", win[w].nextWin, 4>>])
        BY <1>9, <1>10, <2>1, <3>1, <3>3, <4>1, <4>2
      <4>4. g[<<"try", w, 3>>] = g[<<"try", win[w].nextWin, 4>>]
        BY <1>0, <1>4a, <3>1, <3>3
      <4> QED
        BY <4>3, <4>4
    <3> QED
      BY <3>2, <3>3
  <2> QED
    BY <1>0, <1>8, <1>10, <2>1 DEF Steps4
<1>11. ASSUME NEW a \in DOMAIN win, Under(a, Null, 1), right(g[<<"skip", a, 1>>])
       PROVE  \A w \in kids(a) \union {Null} : right(g[<<"try", w, 2>>])
  <2>1. ASSUME NEW w \in kids(a), right(on[w][2])
        PROVE  right(g[<<"try", w, 2>>])
    <3>1. w \in DOMAIN win /\ own[w] = o
      BY <1>6 DEF Steps4
    <3>2. CASE ~fits(w, 2)
      <4>1. g[<<"try", w, 2>>] = on[w][2]
        BY <1>0, <1>4, <3>1, <3>2
      <4> QED
        BY <2>1, <4>1
    <3>3. CASE fits(w, 2)
      <4>1. right(g[<<"skip", w, 2>>])
        <5>1. g[<<"skip", w, 2>>] = on[w][2]
          BY <1>0, <1>4, <3>1
        <5> QED
          BY <2>1, <5>1
      <4>2. win[w].nextWin \in kids(w) \union {Null}
        BY <1>7, <3>1
      <4>3. right(g[<<"try", win[w].nextWin, 3>>])
        BY <1>10, <1>11, <2>1, <3>1, <3>3, <4>1, <4>2
      <4>4. g[<<"try", w, 2>>] = g[<<"try", win[w].nextWin, 3>>]
        BY <1>0, <1>4a, <3>1, <3>3
      <4> QED
        BY <4>3, <4>4
    <3> QED
      BY <3>2, <3>3
  <2> QED
    BY <1>0, <1>8, <1>11, <2>1 DEF Steps4
<1>12. \A w \in kids(Null) \union {Null} : right(g[<<"try", w, 1>>])
  <2>1. ASSUME NEW w \in kids(Null), right(on[w][1])
        PROVE  right(g[<<"try", w, 1>>])
    <3>1. w \in DOMAIN win /\ own[w] = o
      BY <1>6 DEF Steps4
    <3>2. CASE ~fits(w, 1)
      <4>1. g[<<"try", w, 1>>] = on[w][1]
        BY <1>0, <1>4, <3>1, <3>2
      <4> QED
        BY <2>1, <4>1
    <3>3. CASE fits(w, 1)
      <4>1. right(g[<<"skip", w, 1>>])
        <5>1. g[<<"skip", w, 1>>] = on[w][1]
          BY <1>0, <1>4, <3>1
        <5> QED
          BY <2>1, <5>1
      <4>2. win[w].nextWin \in kids(w) \union {Null}
        BY <1>7, <3>1
      <4>3. right(g[<<"try", win[w].nextWin, 2>>])
        BY <1>11, <2>1, <3>1, <3>3, <4>1, <4>2
      <4>4. g[<<"try", w, 1>>] = g[<<"try", win[w].nextWin, 2>>]
        BY <1>0, <1>4a, <3>1, <3>3
      <4> QED
        BY <4>3, <4>4
    <3> QED
      BY <3>2, <3>3
  <2>2. right(g[<<"skip", Null, 0>>])
    BY <1>0, <1>3, <1>5
  <2> QED
    BY <1>0, <1>8, <2>1, <2>2 DEF Steps4
<1> QED
  BY <1>0, <1>1, <1>12 DEF right

LEMMA LookupSmallRight ==
  ASSUME NEW d, NEW s, DOMAIN s.win \subseteq Nat \X Nat, NEW own,
         PathsOK(d, s, own, Null), NEW p \in Meets(d), Value[d][p] \in Int,
         NEW limit \in Int, <<p.trick, p.hand>> \in Squares
  PROVE  Right(d, p, limit, LookupSmall(s, p, limit).says)
<1> DEFINE c == <<p.trick, p.hand>>
           at == WalkTree(s.tree[c], p.dist)
           n == s.tree[c][at]
           o == <<c, at>>
<1>1. at \in 1..Len(s.tree[c])
  BY WalkTreeIn DEF PathsOK, LinksOK
<1>2. CASE n.dist # p.dist \/ n.point = Null
  BY <1>2 DEF LookupSmall, Right
<1>3. CASE n.dist = p.dist /\ n.point # Null
  <2>1. n.point \in Kids(s.win, own, o, Null)
    BY <1>1, <1>3, Zenon DEF PathsOK, Linked, PointsOK, Kids
  <2>2. LookupSmall(s, p, limit).says = FindSop(s, n.point, p.order, limit)
    BY <1>3 DEF LookupSmall
  <2>3. o[1] = <<p.trick, p.hand>> /\ s.tree[o[1]][o[2]].dist = p.dist
    BY <1>3
  <2> HIDE DEF o, n, at
  <2>4. Right(d, p, limit, FindSop(s, n.point, p.order, limit))
    BY <2>1, <2>3, FindSopRight
  <2> QED
    BY <2>2, <2>4
<1> QED
  BY <1>2, <1>3

(* What the paths are made of. *)
LEMMA PathsSame ==
  ASSUME NEW d, NEW s, NEW r, NEW own, NEW new, PathsOK(d, s, own, new),
         r.tree = s.tree, r.win = s.win, r.node = s.node,
         DOMAIN r.lengths = DOMAIN s.lengths
  PROVE  PathsOK(d, r, own, new)
<1>1. LinksOK(r) /\ Linked(r, own)
  BY DEF PathsOK, LinksOK, Linked
<1>2. Claims(d, r, own, new)
  BY DEF PathsOK, Claims, ClaimOf
<1> QED
  BY <1>1, <1>2, Zenon DEF PathsOK

LEMMA NoPaths ==
  ASSUME NEW d, NEW s, s.tree = [c \in Squares |-> <<Root>>], s.win = <<>>,
         s.node = <<>>, DOMAIN s.lengths = 1..TtTricks
  PROVE  \E own : PathsOK(d, s, own, Null)
<1>1. DOMAIN s.win = {} /\ DOMAIN s.node = {}
  OBVIOUS
<1>2. TreeOK(<<Root>>)
  BY DEF TreeOK, TreeNodes, Root, Links
<1>3. LinksOK(s)
  <2>1. s.win \in [DOMAIN s.win -> WinCards] /\ s.node \in [DOMAIN s.node -> Bounds]
    BY <1>1
  <2> QED
    BY <1>2, <2>1 DEF LinksOK
<1> DEFINE own == [w \in {} |-> w]
<1>4. own \in Owners(s.win) /\ DOMAIN own = {}
  BY <1>1 DEF Owners
<1>5. PointsOK(s.tree, s.win, own)
  <2>1. \A c \in Squares : \A i \in 1..Len(s.tree[c]) : s.tree[c][i] = Root
    OBVIOUS
  <2> QED
    BY <2>1 DEF PointsOK, Root
<1> HIDE DEF own
<1>6. Linked(s, own)
  BY <1>1, <1>4, <1>5 DEF Linked, OwnersOK, CardsOK
<1>7. Claims(d, s, own, Null)
  BY <1>1 DEF Claims
<1>8. Ordered(s.tree, s.win, own)
  BY <1>1 DEF Ordered
<1> QED
  BY <1>3, <1>6, <1>7, <1>8 DEF PathsOK

LEMMA InitTtPaths ==
  ASSUME NEW d, NEW s, IsSmall(s), DOMAIN s.lengths = 1..TtTricks
  PROVE  /\ \E own : PathsOK(d, InitTt(s), own, Null)
         /\ InitTt(s).win = <<>> /\ NoStumps(InitTt(s).win, Null)
<1> DEFINE r == InitTt(s)
<1>1. /\ r.tree = [c \in Squares |-> <<Root>>] /\ r.win = <<>> /\ r.node = <<>>
      /\ r.lengths = s.lengths
  BY DEF InitTt, IsSmall, SmallFields
<1> HIDE DEF r
<1>2. \E own : PathsOK(d, r, own, Null)
  BY <1>1, NoPaths
<1>3. NoStumps(r.win, Null)
  BY <1>1 DEF NoStumps
<1> QED
  BY <1>1, <1>2, <1>3 DEF r

LEMMA SmallWhenReset ==
  ASSUME NEW d, NEW s, IsSmall(s), Counted(s), DOMAIN s.lengths = 1..TtTricks
  PROVE  SmallOK(d, ResetSmall(s)) /\ ResetSmall(s).win = <<>>
BY ResetSmallOK, InitTtPaths DEF SmallOK, ResetSmall

LEMMA SmallWhenNew ==
  ASSUME NEW d, NEW limits, limits.max \in Nat
  PROVE  SmallOK(d, NewSmall(limits))
<1> DEFINE s == [kind |-> "small", max |-> limits.max,
          maxIndex |-> IF limits.max <= InitMem THEN 0
                       ELSE (limits.max - InitMem) \div WinMem,
          alloc |-> 0, wSlab |-> 0, wSize |-> 0, wLimit |-> 0,
          wBase |-> <<0, 0>>, windex |-> -1, nSlab |-> 0, nSize |-> 0,
          nLimit |-> 0, nBase |-> 0, lenInd |-> <<>>, lcount |-> <<>>,
          tree |-> <<>>, win |-> <<>>, node |-> <<>>,
          lengths |-> [k \in 1..TtTricks |-> 0],
          clear |-> FALSE, overrun |-> FALSE]
<1>1. IsSmall(s) /\ DOMAIN s.lengths = 1..TtTricks
  BY DEF IsSmall, SmallFields
<1>2. NewSmall(limits) = InitTt(s)
  BY DEF NewSmall
<1> HIDE DEF s
<1> QED
  BY <1>1, <1>2, InitTtPaths, NewSmallOK DEF SmallOK

LEMMA SmallWhenResized ==
  ASSUME NEW d, NEW s, SmallOK(d, s), NEW limits, limits.max \in Nat,
         s.alloc <= limits.max \/ s.alloc = InitMem
  PROVE  SmallOK(d, ResizeSmall(s, limits))
<1> DEFINE r == ResizeSmall(s, limits)
<1>1. SlabsOK(s)
  BY DEF SmallOK
<1>2. r.tree = s.tree /\ r.win = s.win /\ r.node = s.node /\ r.lengths = s.lengths
  BY <1>1 DEF ResizeSmall, SlabsOK, IsSmall, SmallFields
<1>3. SlabsOK(r)
  BY <1>1, ResizeSmallOK
<1> HIDE DEF r
<1>4. \E own : PathsOK(d, r, own, Null)
  BY <1>2, PathsSame DEF SmallOK
<1>5. SmallOK(d, r)
  BY <1>2, <1>3, <1>4 DEF SmallOK
<1> QED
  BY <1>5 DEF r

(* A lookup answers right, and leaves the table as it was but for the      *)

(* lengths of its trick.                                                   *)
LEMMA SmallLooksUp ==
  ASSUME NEW d, NEW s, SmallOK(d, s), NEW p \in Meets(d), Value[d][p] \in Int,
         NEW limit \in Int, <<p.trick, p.hand>> \in Squares
  PROVE  LET r == LookupSmall(s, p, limit)
         IN  /\ Right(d, p, limit, r.says)
             /\ r.t.kind = "small" /\ SmallOK(d, r.t)
             /\ r.t.lengths = [s.lengths EXCEPT ![p.trick] = p.dist]
             /\ DOMAIN s.lengths = 1..TtTricks
<1> DEFINE r == LookupSmall(s, p, limit)
<1>1. SlabsOK(s) /\ SlabsOK(r.t)
  BY LookupSmallOK DEF SmallOK
<1>2. PICK own : PathsOK(d, s, own, Null)
  BY DEF SmallOK
<1>3. DOMAIN s.win \subseteq Nat \X Nat
  BY <1>1 DEF SlabsOK, WinsOK
<1>4. Right(d, p, limit, r.says)
  BY <1>2, <1>3, LookupSmallRight
<1>5. r.t = [s EXCEPT !.lengths[p.trick] = p.dist]
  BY DEF LookupSmall
<1> HIDE DEF r
<1>6. /\ r.t.tree = s.tree /\ r.t.win = s.win /\ r.t.node = s.node
      /\ r.t.lengths = [s.lengths EXCEPT ![p.trick] = p.dist]
  BY <1>1, <1>5 DEF SlabsOK, IsSmall, SmallFields
<1>7. PathsOK(d, r.t, own, Null)
  BY <1>2, <1>6, PathsSame
<1>8. SmallOK(d, r.t) /\ r.t.kind = "small"
  BY <1>1, <1>6, <1>7 DEF SmallOK, SlabsOK, Counted
<1>9. DOMAIN s.lengths = 1..TtTricks
  BY <1>2 DEF PathsOK, LinksOK
<1> QED
  BY <1>4, <1>6, <1>8, <1>9 DEF r
-----------------------------------------------------------------------------
(* Additions: the walk to the node of the lengths, and along the path.     *)

LEMMA AddLenSetFrame ==
  ASSUME NEW s, IsSmall(s), NEW c, NEW granted
  PROVE  LET r == AddLenSet(s, c, granted)
         IN  /\ r.tree = s.tree /\ r.win = s.win /\ r.node = s.node
             /\ r.lengths = s.lengths
BY Zenon DEF AddLenSet, IsSmall, SmallFields

LEMMA AddWinSetFrame ==
  ASSUME NEW s, IsSmall(s), NEW granted
  PROVE  LET r == AddWinSet(s, granted)
         IN  /\ r.tree = s.tree /\ r.win = s.win /\ r.node = s.node
             /\ r.lengths = s.lengths /\ (s.clear => r.clear)
<1> DEFINE more == [s EXCEPT !.wSlab = @ + 1, !.wLimit = WSize]
           r == AddWinSet(s, granted)
           on == [s EXCEPT !.wSize = @ + 1]
           slab == [more EXCEPT !.alloc = @ + WinMem, !.wSize = 0,
                                !.wBase = <<more.wSlab, 0>>]
           Same(x) == /\ x.tree = s.tree /\ x.win = s.win /\ x.node = s.node
                      /\ x.lengths = s.lengths
<1>1. IsSmall(more) /\ Same(more) /\ Same(on)
  BY SmallWith DEF IsSmall, SmallFields
<1>2. ASSUME NEW x, IsSmall(x), Same(x)
      PROVE  Same(OnTempWin(x)) /\ OnTempWin(x).clear
  BY <1>2 DEF OnTempWin, IsSmall, SmallFields
<1>3. Same(slab)
  <2> HIDE DEF more
  <2> QED
    BY <1>1 DEF IsSmall, SmallFields
<1>4. /\ r \in {OnTempWin(s), OnTempWin(more), on, slab}
      /\ s.clear => r = OnTempWin(s)
  BY DEF AddWinSet
<1> HIDE DEF more, on, slab, r
<1>5. Same(s)
  OBVIOUS
<1>6. Same(r) /\ (s.clear => r.clear)
  BY <1>1, <1>2, <1>3, <1>4, <1>5
<1> QED
  BY <1>6 DEF r

LEMMA AddNodeSetFrame ==
  ASSUME NEW s, IsSmall(s), NEW granted
  PROVE  LET r == AddNodeSet(s, granted)
         IN  /\ r.tree = s.tree /\ r.win = s.win /\ r.node = s.node
             /\ r.lengths = s.lengths /\ (s.clear => r.clear)
BY Zenon DEF AddNodeSet, IsSmall, SmallFields

(* A tree of lengths with one more node. *)
LEMMA TreeGrows ==
  ASSUME NEW tree, TreeOK(tree), NEW i \in 1..Len(tree), NEW key \in Nat,
         NEW linked, \/ linked = [tree EXCEPT ![i].left = Len(tree) + 1]
                     \/ linked = [tree EXCEPT ![i].right = Len(tree) + 1]
  PROVE  LET r == Append(linked, [Root EXCEPT !.dist = key])
         IN  /\ TreeOK(r) /\ Len(r) = Len(tree) + 1
             /\ \A j \in 1..Len(tree) : /\ r[j].dist = tree[j].dist
                                        /\ r[j].point = tree[j].point
             /\ r[Len(tree) + 1].dist = key /\ r[Len(tree) + 1].point = Null
             /\ \A j \in 1..Len(tree) : r[j] = linked[j]
<1> DEFINE n == Len(tree)
           x == [Root EXCEPT !.dist = key]
           r == Append(linked, x)
<1>1. /\ tree \in Seq(TreeNodes) /\ n \in Nat
      /\ \A j \in 1..n : /\ tree[j] \in TreeNodes
                         /\ tree[j].left = 0 \/ tree[j].left \in (j + 1)..n
                         /\ tree[j].right = 0 \/ tree[j].right \in (j + 1)..n
  BY DEF TreeOK
<1>2. x \in TreeNodes /\ x.dist = key /\ x.left = 0 /\ x.right = 0 /\ x.point = Null
  BY DEF Root, TreeNodes, Links
<1>3. ASSUME NEW j \in 1..n
      PROVE  /\ linked[j] \in TreeNodes
             /\ linked[j].dist = tree[j].dist /\ linked[j].point = tree[j].point
             /\ linked[j].left \in {tree[j].left, n + 1}
             /\ linked[j].right \in {tree[j].right, n + 1}
  <2>1. /\ tree[j] \in TreeNodes /\ n + 1 \in Nat
        /\ tree[j].left \in Nat /\ tree[j].right \in Nat
    <3>1. tree[j] \in TreeNodes /\ n \in Nat
      BY <1>1
    <3> HIDE DEF n
    <3> QED
      BY ONLY <3>1 DEF TreeNodes
  <2>1a. DOMAIN tree = 1..n
    BY <1>1, LenProperties
  <2>2. \/ linked[j] = tree[j]
        \/ linked[j] = [tree[j] EXCEPT !.left = n + 1]
        \/ linked[j] = [tree[j] EXCEPT !.right = n + 1]
    BY <2>1a
  <2> HIDE DEF n
  <2> QED
    BY <2>1, <2>2 DEF TreeNodes
<1>4. linked \in Seq(TreeNodes) /\ Len(linked) = n
  <2>1. DOMAIN linked = 1..n
    BY <1>1
  <2>2. linked = [j \in 1..n |-> linked[j]]
    BY <2>1
  <2> HIDE DEF n
  <2>3. linked \in [1..n -> TreeNodes]
    BY <1>3, <2>2
  <2> QED
    BY <1>1, <2>1, <2>3, IsASeq, LenProperties
<1>5. /\ r \in Seq(TreeNodes) /\ Len(r) = n + 1
      /\ \A j \in 1..n : r[j] = linked[j]
      /\ r[n + 1] = x
  <2>1. x \in TreeNodes /\ linked \in Seq(TreeNodes) /\ Len(linked) = n
    BY <1>2, <1>4
  <2> HIDE DEF x, n
  <2> QED
    BY <2>1, AppendProperties
<1> HIDE DEF x, n, r
<1>6. TreeOK(r)
  <2>1. ASSUME NEW j \in 1..Len(r)
        PROVE  /\ r[j].left = 0 \/ r[j].left \in (j + 1)..Len(r)
               /\ r[j].right = 0 \/ r[j].right \in (j + 1)..Len(r)
    <3>1. CASE j \in 1..n
      <4>1. /\ r[j].left = 0 \/ r[j].left \in (j + 1)..n \/ r[j].left = n + 1
            /\ r[j].right = 0 \/ r[j].right \in (j + 1)..n \/ r[j].right = n + 1
        BY <1>1, <1>3, <1>5, <3>1
      <4> QED
        BY <1>1, <1>5, <3>1, <4>1
    <3>2. CASE j = n + 1
      BY <1>2, <1>5, <3>2
    <3> QED
      BY <1>1, <1>5, <3>1, <3>2
  <2>2. r # <<>>
    BY <1>1, <1>5
  <2> QED
    BY <1>5, <2>1, <2>2 DEF TreeOK
<1>7. /\ TreeOK(r) /\ Len(r) = n + 1
      /\ \A j \in 1..n : r[j].dist = tree[j].dist /\ r[j].point = tree[j].point
      /\ r[n + 1].dist = key /\ r[n + 1].point = Null
      /\ \A j \in 1..n : r[j] = linked[j]
  BY <1>2, <1>3, <1>5, <1>6
<1> QED
  BY <1>7 DEF r, n, x

LEMMA PathsGrow ==
  ASSUME NEW d, NEW s, NEW r, NEW own, PathsOK(d, s, own, Null),
         r.win = s.win, r.node = s.node, r.lengths = s.lengths,
         DOMAIN r.tree = Squares,
         \A c \in Squares :
           /\ TreeOK(r.tree[c]) /\ Len(s.tree[c]) <= Len(r.tree[c])
           /\ \A j \in 1..Len(s.tree[c]) : /\ r.tree[c][j].dist = s.tree[c][j].dist
                                           /\ r.tree[c][j].point = s.tree[c][j].point
           /\ \A j \in 1..Len(r.tree[c]) :
                j \notin 1..Len(s.tree[c]) => r.tree[c][j].point = Null
  PROVE  PathsOK(d, r, own, Null)
<1>1. /\ LinksOK(s) /\ own \in Owners(s.win) /\ PointsOK(s.tree, s.win, own)
      /\ OwnersOK(s.tree, own) /\ CardsOK(s.win, own) /\ Claims(d, s, own, Null)
  BY DEF PathsOK, Linked
<1>2. LinksOK(r)
  BY <1>1 DEF LinksOK
<1>3. PointsOK(r.tree, r.win, own)
  <2>1. SUFFICES ASSUME NEW c \in Squares, NEW i \in 1..Len(r.tree[c]),
                        r.tree[c][i].point # Null
                 PROVE  LET p == r.tree[c][i].point
                        IN  p \in DOMAIN r.win /\ r.win[p].prev = Null /\ own[p] = <<c, i>>
    BY DEF PointsOK
  <2>2. i \in 1..Len(s.tree[c]) /\ r.tree[c][i].point = s.tree[c][i].point
    BY <2>1
  <2> DEFINE p == s.tree[c][i].point
  <2>3. p # Null
    BY <2>1, <2>2
  <2>4. p \in DOMAIN s.win /\ s.win[p].prev = Null /\ own[p] = <<c, i>>
    <3>1. PointsOK(s.tree, s.win, own)
      BY <1>1
    <3> QED
      BY ONLY <2>2, <2>3, <3>1, c \in Squares DEF PointsOK
  <2> HIDE DEF p
  <2>5. r.tree[c][i].point = p /\ r.win = s.win
    BY <2>2 DEF p
  <2> QED
    BY <2>4, <2>5
<1>4. ASSUME NEW w \in DOMAIN own
      PROVE  /\ own[w][1] \in Squares
             /\ own[w][2] \in 1..Len(s.tree[own[w][1]])
             /\ own[w][2] \in 1..Len(r.tree[own[w][1]])
  <2>1. own[w] \in Squares \X Nat
    BY <1>1 DEF Owners
  <2>2. own[w][1] \in Squares /\ own[w][2] \in 1..Len(s.tree[own[w][1]])
    BY <1>1, <2>1 DEF OwnersOK
  <2>3. Len(s.tree[own[w][1]]) \in Nat /\ Len(r.tree[own[w][1]]) \in Nat
    BY <1>1, <1>2, <2>2 DEF LinksOK, TreeOK
  <2> QED
    BY <2>2, <2>3
<1>5. OwnersOK(r.tree, own)
  BY <1>4 DEF OwnersOK
<1>6. Claims(d, r, own, Null)
  <2>1. ASSUME NEW w \in DOMAIN s.win, ClaimOf(d, s, own, w)
        PROVE  ClaimOf(d, r, own, w)
    <3>1. w \in DOMAIN own
      BY <1>1 DEF Owners
    <3>2. r.tree[own[w][1]][own[w][2]].dist = s.tree[own[w][1]][own[w][2]].dist
      BY <1>4, <3>1
    <3> QED
      BY <2>1, <3>2, Zenon DEF ClaimOf
  <2> QED
    BY <1>1, <2>1 DEF Claims
<1>7. Ordered(r.tree, r.win, own)
  <2>1. \A w \in DOMAIN s.win :
          FirstOf(r.tree, r.win, own, w) = FirstOf(s.tree, s.win, own, w)
    <3>1. SUFFICES ASSUME NEW w \in DOMAIN s.win
                   PROVE  r.tree[own[w][1]][own[w][2]].point
                            = s.tree[own[w][1]][own[w][2]].point
      BY Zenon DEF FirstOf
    <3>2. w \in DOMAIN own
      BY <1>1 DEF Owners
    <3> QED
      BY <1>4, <3>2
  <2> QED
    BY <2>1 DEF PathsOK, Ordered
<1> QED
  BY <1>1, <1>2, <1>3, <1>5, <1>6, <1>7 DEF PathsOK, Linked

LEMMA InsertLenPaths ==
  ASSUME NEW d, NEW s, IsSmall(s), NEW own, PathsOK(d, s, own, Null),
         NEW c \in Squares, NEW key \in Nat, NEW granted
  PROVE  LET i == InsertLen(s, c, key, granted)
         IN  /\ PathsOK(d, i.s, own, Null)
             /\ i.at \in 1..Len(i.s.tree[c]) /\ i.s.tree[c][i.at].dist = key
             /\ WalkTree(i.s.tree[c], key) = i.at /\ i.s.win = s.win
<1> DEFINE tree == s.tree[c]
           i == WalkTree(tree, key)
<1>1. /\ DOMAIN s.tree = Squares /\ TreeOK(tree) /\ i \in 1..Len(tree)
      /\ \A b \in Squares : TreeOK(s.tree[b])
  BY WalkTreeIn DEF PathsOK, LinksOK
<1>2. CASE tree[i].dist = key
  BY <1>1, <1>2 DEF InsertLen
<1>3. CASE tree[i].dist # key
  <2> DEFINE linked == IF key < tree[i].dist THEN [tree EXCEPT ![i].left = Len(tree) + 1]
                       ELSE [tree EXCEPT ![i].right = Len(tree) + 1]
             grown == Append(linked, [Root EXCEPT !.dist = key])
             m == [s EXCEPT !.tree[c] = grown, !.overrun = @ \/ s.lenInd[c] > LSize]
             r == AddLenSet(m, c, granted)
  <2>1. InsertLen(s, c, key, granted) = [s |-> r, at |-> Len(tree) + 1]
    BY <1>3 DEF InsertLen
  <2>2. /\ TreeOK(grown) /\ Len(grown) = Len(tree) + 1
        /\ \A j \in 1..Len(tree) : /\ grown[j].dist = tree[j].dist
                                   /\ grown[j].point = tree[j].point
        /\ grown[Len(tree) + 1].dist = key /\ grown[Len(tree) + 1].point = Null
        /\ \A j \in 1..Len(tree) : grown[j] = linked[j]
    <3>1. \/ linked = [tree EXCEPT ![i].left = Len(tree) + 1]
          \/ linked = [tree EXCEPT ![i].right = Len(tree) + 1]
      OBVIOUS
    <3> HIDE DEF linked, i, tree
    <3> QED
      BY <1>1, <3>1, TreeGrows
  <2>2a. WalkTree(grown, key) = Len(tree) + 1
    <3> DEFINE n == Len(tree)
    <3>1. n \in Nat /\ DOMAIN tree = 1..n /\ tree[i] \in TreeNodes
      BY <1>1 DEF TreeOK
    <3>2. \A j \in 1..n : j # i => linked[j] = tree[j]
      BY <3>1
    <3>3. linked[i] = IF key < tree[i].dist THEN [tree[i] EXCEPT !.left = n + 1]
                      ELSE [tree[i] EXCEPT !.right = n + 1]
      BY <1>1, <3>1
    <3> HIDE DEF linked, grown, n
    <3>4. Child(linked[i], key) = n + 1
      <4>1. /\ linked[i].dist = tree[i].dist
            /\ key < tree[i].dist => linked[i].left = n + 1
            /\ ~(key < tree[i].dist) => linked[i].right = n + 1
        BY <3>1, <3>3 DEF TreeNodes
      <4> QED
        BY <4>1 DEF Child
    <3> HIDE DEF i, tree
    <3>5. /\ n + 1 \in 1..Len(grown) /\ n <= Len(grown) /\ grown[n + 1].dist = key
          /\ Child(grown[i], key) = n + 1 /\ n = Len(tree)
      BY <1>1, <2>2, <3>1, <3>4 DEF n
    <3>6. \A j \in 1..n :
            /\ grown[j].dist = tree[j].dist
            /\ j # i => Child(grown[j], key) = Child(tree[j], key)
      BY <2>2, <3>2 DEF n
    <3>7. TreeOK(tree) /\ TreeOK(grown) /\ i = WalkTree(tree, key)
      BY <1>1, <2>2 DEF i
    <3>8. WalkTree(grown, key) = n + 1
      <4> DEFINE to == n + 1
      <4>1. /\ to \in 1..Len(grown) /\ grown[to].dist = key /\ Child(grown[i], key) = to
            /\ Len(tree) <= Len(grown)
            /\ \A j \in 1..Len(tree) :
                 /\ grown[j].dist = tree[j].dist
                 /\ j # i => Child(grown[j], key) = Child(tree[j], key)
        BY <3>5, <3>6
      <4> HIDE DEF to
      <4> QED
        BY <1>3, <3>7, <4>1, WalkTreeTo DEF to
    <3> QED
      BY <3>8 DEF n
  <2> HIDE DEF grown
  <2>3. /\ IsSmall(m) /\ m.tree = [s.tree EXCEPT ![c] = grown] /\ m.win = s.win
        /\ m.node = s.node /\ m.lengths = s.lengths
    <3>1. IsSmall(m)
      BY SmallWith
    <3> QED
      BY <3>1 DEF IsSmall, SmallFields
  <2> HIDE DEF m
  <2>4. /\ r.tree = [s.tree EXCEPT ![c] = grown] /\ r.win = s.win
        /\ r.node = s.node /\ r.lengths = s.lengths
    BY <2>3, AddLenSetFrame
  <2> HIDE DEF r
  <2>5. r.tree[c] = grown
    BY <1>1, <2>4
  <2>6. Len(tree) \in Nat
    BY <1>1 DEF TreeOK
  <2>7. PathsOK(d, r, own, Null)
    <3>1. ASSUME NEW b \in Squares
          PROVE  /\ TreeOK(r.tree[b]) /\ Len(s.tree[b]) <= Len(r.tree[b])
                 /\ \A j \in 1..Len(s.tree[b]) :
                      /\ r.tree[b][j].dist = s.tree[b][j].dist
                      /\ r.tree[b][j].point = s.tree[b][j].point
                 /\ \A j \in 1..Len(r.tree[b]) :
                      j \notin 1..Len(s.tree[b]) => r.tree[b][j].point = Null
      <4>1. CASE b = c
        <5>1. ASSUME NEW j \in 1..(Len(tree) + 1), j \notin 1..Len(tree)
              PROVE  j = Len(tree) + 1
          <6> HIDE DEF tree
          <6> QED
            BY <2>6, <5>1
        <5> QED
          BY <2>2, <2>5, <2>6, <4>1, <5>1
      <4>2. CASE b # c
        <5>1. r.tree[b] = s.tree[b] /\ Len(s.tree[b]) \in Nat /\ TreeOK(s.tree[b])
          BY <1>1, <2>4, <4>2 DEF TreeOK
        <5> QED
          BY <5>1
      <4> QED
        BY <4>1, <4>2
    <3>2. DOMAIN r.tree = Squares
      BY <1>1, <2>4
    <3> QED
      BY <2>4, <3>1, <3>2, PathsGrow
  <2>8. Len(tree) + 1 \in 1..Len(r.tree[c]) /\ r.tree[c][Len(tree) + 1].dist = key
    <3> HIDE DEF tree
    <3> QED
      BY <2>2, <2>5, <2>6
  <2> QED
    BY <2>1, <2>2a, <2>4, <2>5, <2>7, <2>8
<1> QED
  BY <1>2, <1>3

(* The cards of the first k levels of a pattern's path.                    *)
Beneath(win, own, o, prevs, prefix) ==
  {w \in DOMAIN win : /\ own[w] = o /\ win[w].prev \in prevs
                      /\ win[w].prefix = prefix}

Upto(win, own, o, pattern, k) ==
  LET l1 == Beneath(win, own, o, {Null}, pattern[1])
      l2 == Beneath(win, own, o, l1, pattern[2])
      l3 == Beneath(win, own, o, l2, pattern[3])
      l4 == Beneath(win, own, o, l3, pattern[4])
  IN  IF k = 0 THEN {Null} ELSE IF k = 1 THEN l1 ELSE IF k = 2 THEN l2
      ELSE IF k = 3 THEN l3 ELSE l4

LEMMA UptoStep ==
  ASSUME NEW win, NEW own, NEW o, NEW pattern
  PROVE  /\ Upto(win, own, o, pattern, 0) = {Null}
         /\ \A k \in 0..3 : Upto(win, own, o, pattern, k + 1)
              = Beneath(win, own, o, Upto(win, own, o, pattern, k), pattern[k + 1])
<1>1. ASSUME NEW k \in 0..3
      PROVE  Upto(win, own, o, pattern, k + 1)
               = Beneath(win, own, o, Upto(win, own, o, pattern, k), pattern[k + 1])
  <2>1. CASE k = 0
    BY <2>1 DEF Upto
  <2>2. CASE k = 1
    BY <2>2 DEF Upto
  <2>3. CASE k = 2
    BY <2>3 DEF Upto
  <2>4. CASE k = 3
    BY <2>4 DEF Upto
  <2> QED
    BY <2>1, <2>2, <2>3, <2>4
<1>2. Upto(win, own, o, pattern, 0) = {Null}
  BY DEF Upto
<1> QED
  BY <1>1, <1>2

LEMMA UptoFacts ==
  ASSUME NEW win, NEW own, NEW o, NEW pattern, NEW k \in 1..4,
         NEW w \in Upto(win, own, o, pattern, k)
  PROVE  /\ w \in DOMAIN win /\ own[w] = o /\ win[w].prefix = pattern[k]
         /\ win[w].prev \in Upto(win, own, o, pattern, k - 1)
<1>1. k - 1 \in 0..3 /\ (k - 1) + 1 = k
  OBVIOUS
<1>2. Upto(win, own, o, pattern, k)
        = Beneath(win, own, o, Upto(win, own, o, pattern, k - 1), pattern[k])
  BY <1>1, UptoStep
<1> QED
  BY <1>2 DEF Beneath

(* The path of a card of the fourth level, and the levels before it.       *)
LEMMA UptoLeaf ==
  ASSUME NEW win, DOMAIN win \subseteq Nat \X Nat, NEW own, NEW o, NEW pattern,
         NEW k \in 1..4, NEW w \in Upto(win, own, o, pattern, k)
  PROVE  /\ Leaf(win, w) <=> k = 4
         /\ k = 4 => \A j \in Suits : PathOf(win, w)[j] = pattern[j]
<1> DEFINE U(j) == Upto(win, own, o, pattern, j)
<1>1. \A v \in DOMAIN win : v # Null
  BY NullIsNoPlace
<1>2. ASSUME NEW v \in U(1)
      PROVE  v # Null /\ win[v].prev = Null /\ win[v].prefix = pattern[1]
  BY <1>1, UptoFacts, UptoStep
<1>3. ASSUME NEW v \in U(2)
      PROVE  v # Null /\ win[v].prev \in U(1) /\ win[v].prefix = pattern[2]
  BY <1>1, UptoFacts
<1>4. ASSUME NEW v \in U(3)
      PROVE  v # Null /\ win[v].prev \in U(2) /\ win[v].prefix = pattern[3]
  BY <1>1, UptoFacts
<1>5. ASSUME NEW v \in U(4)
      PROVE  v # Null /\ win[v].prev \in U(3) /\ win[v].prefix = pattern[4]
  BY <1>1, UptoFacts
<1> HIDE DEF U
<1>6. CASE k = 1
  <2>1. w \in U(1)
    BY <1>6 DEF U
  <2> QED
    BY <1>2, <1>6, <2>1 DEF Leaf
<1>7. CASE k = 2
  <2>1. w \in U(2)
    BY <1>7 DEF U
  <2> QED
    BY <1>2, <1>3, <1>7, <2>1 DEF Leaf
<1>8. CASE k = 3
  <2>1. w \in U(3)
    BY <1>8 DEF U
  <2> QED
    BY <1>2, <1>3, <1>4, <1>8, <2>1 DEF Leaf
<1>9. CASE k = 4
  <2>1. w \in U(4)
    BY <1>9 DEF U
  <2> DEFINE a == win[w].prev
             b == win[a].prev
             e == win[b].prev
  <2>2. /\ a \in U(3) /\ b \in U(2) /\ e \in U(1)
    BY <1>3, <1>4, <1>5, <2>1
  <2>3. Leaf(win, w)
    BY <1>2, <1>3, <1>4, <2>2 DEF Leaf
  <2>4. PathOf(win, w) = <<pattern[1], pattern[2], pattern[3], pattern[4]>>
    BY <1>2, <1>3, <1>4, <1>5, <2>1, <2>2 DEF PathOf
  <2> QED
    BY <1>9, <2>3, <2>4 DEF Suits
<1> QED
  BY <1>6, <1>7, <1>8, <1>9

(* The four cards down to a last card, each with its prefix.               *)
LEMMA UptoPath ==
  ASSUME NEW win, NEW own, NEW o, NEW pattern, NEW order, Fits(pattern, order),
         NEW w \in Upto(win, own, o, pattern, 4)
  PROVE  \E w3, w2, w1 :
           /\ w \in Kids(win, own, o, w3) /\ Covers(win[w].prefix, order[4])
           /\ w3 \in Kids(win, own, o, w2) /\ Covers(win[w3].prefix, order[3])
           /\ w2 \in Kids(win, own, o, w1) /\ Covers(win[w2].prefix, order[2])
           /\ w1 \in Kids(win, own, o, Null) /\ Covers(win[w1].prefix, order[1])
<1>1. /\ 1..4 = Suits /\ 4 \in 1..4 /\ 3 \in 1..4 /\ 2 \in 1..4 /\ 1 \in 1..4
      /\ 4 - 1 = 3 /\ 3 - 1 = 2 /\ 2 - 1 = 1 /\ 1 - 1 = 0
  BY DEF Suits
<1>2. ASSUME NEW k \in 1..4, NEW u \in Upto(win, own, o, pattern, k)
      PROVE  /\ u \in Kids(win, own, o, win[u].prev) /\ Covers(win[u].prefix, order[k])
             /\ win[u].prev \in Upto(win, own, o, pattern, k - 1)
  <2>1. /\ u \in DOMAIN win /\ own[u] = o /\ win[u].prefix = pattern[k]
        /\ win[u].prev \in Upto(win, own, o, pattern, k - 1)
    BY UptoFacts
  <2> QED
    BY <1>1, <2>1 DEF Fits, Kids
<1>3. PICK w3 : w3 = win[w].prev
  OBVIOUS
<1>4. PICK w2 : w2 = win[w3].prev
  OBVIOUS
<1>5. PICK w1 : w1 = win[w2].prev
  OBVIOUS
<1>6. /\ w \in Kids(win, own, o, w3) /\ Covers(win[w].prefix, order[4])
      /\ w3 \in Upto(win, own, o, pattern, 3)
  BY <1>1, <1>2, <1>3
<1>7. /\ w3 \in Kids(win, own, o, w2) /\ Covers(win[w3].prefix, order[3])
      /\ w2 \in Upto(win, own, o, pattern, 2)
  BY <1>1, <1>2, <1>4, <1>6
<1>8. /\ w2 \in Kids(win, own, o, w1) /\ Covers(win[w2].prefix, order[2])
      /\ w1 \in Upto(win, own, o, pattern, 1)
  BY <1>1, <1>2, <1>5, <1>7
<1>9. /\ w1 \in Kids(win, own, o, win[w1].prev) /\ Covers(win[w1].prefix, order[1])
      /\ win[w1].prev \in Upto(win, own, o, pattern, 0)
  BY <1>1, <1>2, <1>8
<1>10. win[w1].prev = Null
  BY <1>9, UptoStep
<1> QED
  BY <1>6, <1>7, <1>8, <1>9, <1>10

(* A search for a position that the path of w fits finds an answer, at w   *)
(* if not before: it leaves every other path over the alternatives that    *)
(* are left, and w is still ahead.                                         *)
LEMMA FindSopFinds ==
  ASSUME NEW d, NEW s, DOMAIN s.win \subseteq Nat \X Nat, NEW own,
         PathsOK(d, s, own, Null), NoStumps(s.win, Null),
         NEW order, NEW pattern, Fits(pattern, order), NEW o,
         NEW w \in Upto(s.win, own, o, pattern, 4), NEW limit,
         Verdict(s.node[s.win[w].node], limit) # "miss"
  PROVE  LET point == s.tree[o[1]][o[2]].point
         IN  point # Null /\ FindSop(s, point, order, limit) # "miss"
<1> DEFINE win == s.win
           point == s.tree[o[1]][o[2]].point
           kids(u) == Kids(win, own, o, u)
           next == [u \in DOMAIN win |-> win[u].next]
           fits(u, k) == Covers(win[u].prefix, order[k])
           verdict(u) == Verdict(s.node[win[u].node], limit)
           said(x) == x # "miss"
<1>0. /\ 1 \in Int /\ 2 \in Int /\ 3 \in Int /\ 4 \in Int
      /\ 4 = 3 + 1 /\ 3 = 2 + 1 /\ 2 = 1 + 1
      /\ \A k \in 1..3 : k \in Int /\ k + 1 \in Int /\ k < 4 /\ k = (k + 1) - 1
  OBVIOUS
<1>1. PICK g : /\ FindSop(s, point, order, limit) = g[<<"try", point, 1>>]
               /\ SopSteps(s, order, limit, g)
  BY FindSopSteps DEF PathsOK
<1>2. /\ CardsOK(win, own) /\ LinksOK(s) /\ Linked(s, own)
      /\ PointsOK(s.tree, win, own) /\ Ordered(s.tree, win, own)
      /\ \A u \in DOMAIN win : u # Null
  BY NullIsNoPlace, SMTT(20) DEF PathsOK, Linked
<1> DEFINE on == [u \in DOMAIN win |-> [k \in Int |->
                   IF win[u].next # Null THEN g[<<"try", win[u].next, k>>]
                   ELSE g[<<"skip", win[u].prev, k - 1>>]]]
<1>3. ASSUME NEW u \in DOMAIN win, NEW k \in Int
      PROVE  /\ g[<<"skip", u, k>>] = on[u][k]
             /\ ~fits(u, k) => g[<<"try", u, k>>] = on[u][k]
  <2>1. u \in Steps4(win) /\ u # Null
    BY <1>2 DEF Steps4
  <2> QED
    BY <1>1, <2>1 DEF SopSteps
<1>3a. ASSUME NEW u \in DOMAIN win, NEW k \in Int, NEW j \in Int, j = k + 1, k < 4,
              fits(u, k)
       PROVE  g[<<"try", u, k>>] = g[<<"try", win[u].nextWin, j>>]
  <2>1. u \in Steps4(win) /\ u # Null
    BY <1>2, SMTT(20) DEF Steps4
  <2> QED
    BY <1>1, <1>3a, <2>1 DEF SopSteps
<1>3b. ASSUME NEW u \in DOMAIN win, fits(u, 4)
       PROVE  g[<<"try", u, 4>>] = IF verdict(u) = "miss" THEN on[u][4] ELSE verdict(u)
  <2>1. u \in Steps4(win) /\ u # Null /\ 4 \in Int /\ ~(4 < 4)
    BY <1>2 DEF Steps4
  <2> QED
    BY <1>1, <1>3b, <2>1 DEF SopSteps
<1>4. ASSUME NEW u \in DOMAIN win, NEW k \in Int
      PROVE  on[u][k] = IF win[u].next # Null THEN g[<<"try", win[u].next, k>>]
                        ELSE g[<<"skip", win[u].prev, k - 1>>]
  OBVIOUS
<1> HIDE DEF on, said
<1>5. ASSUME NEW prev
      PROVE  /\ kids(prev) \in SUBSET (Nat \X Nat)
             /\ kids(prev) \subseteq DOMAIN win
             /\ \A u \in kids(prev) : next[u] # Null =>
                  next[u] \in kids(prev) /\ Older(next[u], u)
             /\ \A u \in kids(prev) :
                  win[u].prev = prev /\ own[u] = o /\ next[u] = win[u].next
  <2>1. kids(prev) \subseteq DOMAIN win
    BY DEF Kids
  <2> QED
    BY <1>2, <2>1, KidsChain DEF Kids
<1> DEFINE passes(u, k) == said(on[u][k]) => said(g[<<"try", u, k>>])
(* Below a card whose other alternatives find an answer, every card does. *)
<1>6. ASSUME NEW prev, NEW j \in Int, NEW k \in Int, j = k - 1,
             said(g[<<"skip", prev, j>>]), \A u \in kids(prev) : passes(u, k)
      PROVE  \A u \in kids(prev) : said(g[<<"try", u, k>>])
  <2> DEFINE A == kids(prev)
             T == {u \in A : said(g[<<"try", u, k>>])}
             K == {u \in A : said(on[u][k])}
  <2>1. ASSUME NEW u \in A, next[u] = Null \/ next[u] \in T PROVE u \in K
    <3>1. u \in DOMAIN win /\ win[u].prev = prev /\ next[u] = win[u].next
      BY <1>5
    <3>2. CASE next[u] = Null
      <4>1. on[u][k] = g[<<"skip", prev, j>>]
        BY <1>4, <1>6, <3>1, <3>2
      <4> QED
        BY <1>6, <4>1
    <3>3. CASE next[u] # Null
      <4>1. on[u][k] = g[<<"try", next[u], k>>]
        BY <1>4, <3>1, <3>3
      <4> QED
        BY <2>1, <3>3, <4>1
    <3> QED
      BY <3>2, <3>3
  <2>2. \A u \in A : u \in K => u \in T
    BY <1>6
  <2>3. A \in SUBSET (Nat \X Nat)
    BY <1>5
  <2>4. \A u \in A : next[u] # Null => next[u] \in A /\ Older(next[u], u)
    BY <1>5
  <2>5. A \subseteq T
    <3> HIDE DEF A, T, K, next
    <3>1. Chain(A, next, T, K)
      BY <2>1, <2>2, <2>3, <2>4 DEF Chain
    <3> QED
      BY <3>1, ChainSound
  <2> QED
    BY <2>5
(* From a card that finds an answer back to the first of its level. *)
<1>7. ASSUME NEW prev, NEW k \in Int, \A u \in kids(prev) : passes(u, k),
             NEW v \in kids(prev), said(g[<<"try", v, k>>]),
             NEW first \in kids(prev), first = v \/ Older(v, first)
      PROVE  said(g[<<"try", first, k>>])
  <2> DEFINE Bad == {u \in kids(prev) : /\ u = v \/ Older(v, u)
                                        /\ ~said(g[<<"try", u, k>>])}
  <2>1. SUFFICES ASSUME Bad # {} PROVE FALSE
    BY <1>7
  <2>2. PICK u \in Bad : \A x \in Bad : ~ Older(x, u)
    <3>1. Bad \in SUBSET (Nat \X Nat)
      BY <1>5
    <3> HIDE DEF Bad
    <3> QED
      BY <2>1, <3>1, OldestIn
  <2>3. u \in kids(prev) /\ Older(v, u) /\ ~said(g[<<"try", u, k>>])
    BY <1>7, <2>2
  <2>4. /\ u \in DOMAIN win /\ v \in DOMAIN win /\ own[u] = own[v]
        /\ win[u].prev = win[v].prev /\ next[u] = win[u].next
    BY <1>5, <2>3, SMTT(20)
  <2>5. next[u] # Null /\ (next[u] = v \/ Older(v, next[u]))
    BY <1>2, <2>3, <2>4 DEF Ordered
  <2>6. next[u] \in kids(prev) /\ Older(next[u], u)
    BY <1>5, <2>3, <2>5
  <2>7. said(g[<<"try", next[u], k>>])
    BY <2>2, <2>5, <2>6
  <2>8. on[u][k] = g[<<"try", next[u], k>>]
    BY <1>4, <2>4, <2>5
  <2> QED
    BY <1>7, <2>3, <2>7, <2>8
<1> HIDE DEF next
(* The levels of cards. *)
<1> DEFINE below(S) == {u \in DOMAIN win : own[u] = o /\ win[u].prev \in S}
           l1 == below({Null})
           l2 == below(l1)
           l3 == below(l2)
           l4 == below(l3)
           level(k) == IF k = 1 THEN l1 ELSE IF k = 2 THEN l2
                       ELSE IF k = 3 THEN l3 ELSE l4
<1>8. /\ \A u : u \in l1 <=> u \in DOMAIN win /\ own[u] = o /\ win[u].prev = Null
      /\ \A u : u \in l2 <=> u \in DOMAIN win /\ own[u] = o /\ win[u].prev \in l1
      /\ \A u : u \in l3 <=> u \in DOMAIN win /\ own[u] = o /\ win[u].prev \in l2
      /\ \A u : u \in l4 <=> u \in DOMAIN win /\ own[u] = o /\ win[u].prev \in l3
  <2>1. ASSUME NEW S, NEW u
        PROVE  u \in below(S) <=> u \in DOMAIN win /\ own[u] = o /\ win[u].prev \in S
    OBVIOUS
  <2> HIDE DEF below
  <2> QED
    BY <2>1
<1> HIDE DEF l1, l2, l3, l4
<1>8a. /\ level(1) = l1 /\ level(2) = l2 /\ level(3) = l3 /\ level(4) = l4
       /\ level(1 + 1) = l2 /\ level(2 + 1) = l3 /\ level(3 + 1) = l4
  OBVIOUS
<1> HIDE DEF level
<1>9. ASSUME NEW k \in 1..3, NEW u \in level(k)
      PROVE  /\ u \in DOMAIN win /\ own[u] = o /\ kids(u) \subseteq level(k + 1)
             /\ win[u].nextWin \in kids(u)
  <2>0. (k = 1 /\ u \in l1) \/ (k = 2 /\ u \in l2) \/ (k = 3 /\ u \in l3)
    BY ONLY <1>8a, k \in 1..3, u \in level(k), SMTT(20)
  <2>1. ~ Leaf(win, u)
    BY <1>8, <2>0 DEF Leaf
  <2>2. u \in DOMAIN win /\ own[u] = o
    BY <1>8, <2>0
  <2>3. win[u].nextWin # Null
    BY <1>2, <2>1, <2>2 DEF NoStumps
  <2>4. kids(u) \subseteq level(k + 1)
    <3>1. kids(u) \subseteq {x \in DOMAIN win : own[x] = o /\ win[x].prev = u}
      BY DEF Kids
    <3> QED
      BY <1>8, <1>8a, <2>0, <3>1
  <2> QED
    BY <1>2, <2>2, <2>3, <2>4, KidsBelow
<1> DEFINE pass(k) == \A u \in level(k) : passes(u, k)
<1>10. pass(4)
  <2>1. SUFFICES ASSUME NEW u \in DOMAIN win PROVE passes(u, 4)
    BY <1>8, <1>8a
  <2>2. CASE ~fits(u, 4)
    BY <1>0, <1>3, <2>2
  <2>3. CASE fits(u, 4)
    BY <1>3b, <2>3 DEF said
  <2> QED
    BY <2>2, <2>3
<1>11. ASSUME NEW k \in 1..3, pass(k + 1) PROVE pass(k)
  <2>1. SUFFICES ASSUME NEW u \in level(k), said(on[u][k])
                 PROVE  said(g[<<"try", u, k>>])
    OBVIOUS
  <2>2. /\ u \in DOMAIN win /\ own[u] = o /\ kids(u) \subseteq level(k + 1)
        /\ win[u].nextWin \in kids(u)
    BY <1>9
  <2>3. CASE ~fits(u, k)
    BY <1>0, <1>3, <2>1, <2>2, <2>3
  <2>4. CASE fits(u, k)
    <3>1. said(g[<<"skip", u, k>>])
      BY <1>0, <1>3, <2>1, <2>2
    <3>2. \A v \in kids(u) : passes(v, k + 1)
      BY <1>11, <2>2
    <3>3. said(g[<<"try", win[u].nextWin, k + 1>>])
      BY <1>0, <1>6, <2>2, <3>1, <3>2
    <3>4. g[<<"try", u, k>>] = g[<<"try", win[u].nextWin, k + 1>>]
      BY <1>0, <1>3a, <2>2, <2>4
    <3> QED
      BY <3>3, <3>4
  <2> QED
    BY <2>3, <2>4
<1>12. pass(1) /\ pass(2) /\ pass(3)
  <2> HIDE DEF pass
  <2>1. pass(3)
    BY <1>0, <1>10, <1>11
  <2>2. pass(2)
    BY <1>0, <1>11, <2>1
  <2> QED
    BY <1>0, <1>11, <2>1, <2>2
<1>13. ASSUME NEW k \in 1..3, pass(k + 1), NEW u \in level(k), fits(u, k),
              NEW v \in kids(u), said(g[<<"try", v, k + 1>>])
       PROVE  said(g[<<"try", u, k>>])
  <2> DEFINE first == win[u].nextWin
  <2>1. /\ u \in DOMAIN win /\ kids(u) \subseteq level(k + 1) /\ first \in kids(u)
    BY <1>9
  <2>2. v \in DOMAIN win /\ win[v].prev = u /\ u # Null
    BY <1>2, <1>5, <2>1, SMTT(20)
  <2>3. first = v \/ Older(v, first)
    BY <1>2, <2>2 DEF Ordered, FirstOf
  <2>4. \A x \in kids(u) : passes(x, k + 1)
    BY <1>13, <2>1
  <2>5. said(g[<<"try", first, k + 1>>])
    BY <1>0, <1>7, <1>13, <2>1, <2>3, <2>4
  <2>6. g[<<"try", u, k>>] = g[<<"try", first, k + 1>>]
    <3>1. k \in Int /\ k + 1 \in Int /\ k < 4
      OBVIOUS
    <3> QED
      BY ONLY <1>3a, <1>13, <2>1, <3>1
  <2> QED
    BY <2>5, <2>6
(* The path. *)
<1>14. PICK w3, w2, w1 :
         /\ w \in kids(w3) /\ fits(w, 4) /\ w3 \in kids(w2) /\ fits(w3, 3)
         /\ w2 \in kids(w1) /\ fits(w2, 2) /\ w1 \in kids(Null) /\ fits(w1, 1)
  BY UptoPath
<1> HIDE DEF fits, passes, pass
<1>15. /\ w1 \in level(1) /\ w2 \in level(2) /\ w3 \in level(3)
       /\ kids(Null) \subseteq level(1)
  <2>1. \A u, v : u \in kids(v) <=> u \in DOMAIN win /\ own[u] = o /\ win[u].prev = v
    BY DEF Kids
  <2> HIDE DEF kids
  <2>2. \A u : u \in kids(Null) <=> u \in l1
    BY ONLY <1>8, <2>1
  <2>3. w1 \in l1
    BY ONLY <1>14, <2>2
  <2>4. w2 \in l2
    BY ONLY <1>8, <1>14, <2>1, <2>3
  <2>5. w3 \in l3
    BY ONLY <1>8, <1>14, <2>1, <2>4
  <2> QED
    BY ONLY <1>8a, <2>2, <2>3, <2>4, <2>5
<1>16. said(g[<<"try", w, 4>>])
  <2>1. w \in DOMAIN win
    BY <1>5, <1>14
  <2> QED
    BY <1>3b, <1>14, <2>1, Zenon DEF said
<1>17. said(g[<<"try", w3, 3>>])
  BY <1>0, <1>10, <1>13, <1>14, <1>15, <1>16
<1>18. said(g[<<"try", w2, 2>>])
  BY <1>0, <1>12, <1>13, <1>14, <1>15, <1>17
<1>19. said(g[<<"try", w1, 1>>])
  BY <1>0, <1>12, <1>13, <1>14, <1>15, <1>18, SMTT(20)
<1>20. point # Null /\ point \in kids(Null) /\ (point = w1 \/ Older(w1, point))
  <2>0. w1 \in DOMAIN win /\ own[w1] = o /\ win[w1].prev = Null
    BY <1>5, <1>14, SMTT(20)
  <2>1. point # Null /\ (point = w1 \/ Older(w1, point))
    BY <1>2, <2>0 DEF Ordered, FirstOf
  <2>2. o \in Squares \X Nat /\ o[2] \in 1..Len(s.tree[o[1]])
    BY <1>2, <2>0 DEF Linked, Owners, OwnersOK
  <2>3. o[1] \in Squares /\ o = <<o[1], o[2]>>
    BY <2>2
  <2>4. point \in DOMAIN win /\ win[point].prev = Null /\ own[point] = o
    BY <1>2, <2>1, <2>2, <2>3, Zenon DEF PointsOK
  <2> QED
    BY <2>1, <2>4 DEF Kids
<1>21. said(g[<<"try", point, 1>>])
  <2>1. \A u \in kids(Null) : passes(u, 1)
    BY <1>12, <1>15 DEF pass
  <2> QED
    BY <1>0, <1>7, <1>14, <1>19, <1>20, <2>1
<1> QED
  BY <1>1, <1>20, <1>21 DEF said

(* The recursions of build_path, step by step.                             *)
PathSteps(win, point, pattern, f) ==
  /\ f[0] = [depth |-> 0, prev |-> Null, below |-> point]
  /\ \A k \in 0..3 :
       LET w == Alternative(win, f[k].below, pattern[k + 1])
       IN  f[k + 1] = IF f[k].depth < k \/ w = Null THEN f[k]
                      ELSE [depth |-> k + 1, prev |-> w, below |-> win[w].nextWin]

LEMMA ExistingPathSteps ==
  ASSUME NEW win, NEW point, NEW pattern
  PROVE  \E f : /\ ExistingPath(win, point, pattern) = f[4]
                /\ PathSteps(win, point, pattern, f)
<1> DEFINE F(k, d) ==
             LET w == Alternative(win, d.below, pattern[k])
             IN  IF d.depth < k - 1 \/ w = Null THEN d
                 ELSE [depth |-> k, prev |-> w, below |-> win[w].nextWin]
           f0 == [depth |-> 0, prev |-> Null, below |-> point]
           f1 == F(1, f0)
           f2 == F(2, f1)
           f3 == F(3, f2)
           f4 == F(4, f3)
           f == [k \in 0..4 |-> IF k = 0 THEN f0 ELSE IF k = 1 THEN f1
                                ELSE IF k = 2 THEN f2 ELSE IF k = 3 THEN f3
                                ELSE f4]
           R(g) == g = [k \in 0..4 |-> IF k = 0 THEN f0 ELSE F(k, g[k - 1])]
           g == CHOOSE g : R(g)
<1>1. ExistingPath(win, point, pattern) = g[4]
  BY Zenon DEF ExistingPath
<1> HIDE DEF F, f0
<1>2. R(f)
  <2>1. ASSUME NEW k \in 0..4
        PROVE  f[k] = IF k = 0 THEN f0 ELSE F(k, f[k - 1])
    <3>1. k = 0 \/ k = 1 \/ k = 2 \/ k = 3 \/ k = 4
      OBVIOUS
    <3>2. f[0] = f0 /\ f[1] = f1 /\ f[2] = f2 /\ f[3] = f3 /\ f[4] = f4
      OBVIOUS
    <3> HIDE DEF f
    <3> QED
      BY <3>1, <3>2
  <2> QED
    BY <2>1
<1> HIDE DEF f
<1>3. R(g)
  BY <1>2
<1> HIDE DEF g
<1>4. g[0] = f0 /\ \A k \in 0..3 : g[k + 1] = F(k + 1, g[k])
  <2>1. g[0] = f0
    BY <1>3
  <2>2. ASSUME NEW k \in 0..3 PROVE g[k + 1] = F(k + 1, g[k])
    <3>1. k + 1 \in 0..4 /\ k + 1 # 0 /\ (k + 1) - 1 = k
      OBVIOUS
    <3>2. g[k + 1] = F(k + 1, g[(k + 1) - 1])
      BY <1>3, <3>1
    <3> QED
      BY <3>1, <3>2
  <2> QED
    BY <2>1, <2>2
<1>5. ASSUME NEW k \in 0..3
      PROVE  LET w == Alternative(win, g[k].below, pattern[k + 1])
             IN  g[k + 1] = IF g[k].depth < k \/ w = Null THEN g[k]
                      ELSE [depth |-> k + 1, prev |-> w, below |-> win[w].nextWin]
  <2>1. (k + 1) - 1 = k
    OBVIOUS
  <2> QED
    BY <1>4, <2>1 DEF F
<1>6. PathSteps(win, point, pattern, g)
  BY <1>4, <1>5 DEF PathSteps, f0
<1> QED
  BY <1>1, <1>6

LEMMA DepthOK ==
  ASSUME NEW win, NEW point, NEW pattern
  PROVE  ExistingPath(win, point, pattern).depth \in 0..4
<1>1. PICK f : /\ ExistingPath(win, point, pattern) = f[4]
               /\ PathSteps(win, point, pattern, f)
  BY ExistingPathSteps
<1>2. ASSUME NEW k \in 0..3, f[k].depth \in 0..4 PROVE f[k + 1].depth \in 0..4
  <2> DEFINE w == Alternative(win, f[k].below, pattern[k + 1])
  <2>1. \/ f[k + 1] = f[k]
        \/ f[k + 1] = [depth |-> k + 1, prev |-> w, below |-> win[w].nextWin]
    BY <1>1 DEF PathSteps
  <2> QED
    BY <1>2, <2>1
<1>3. f[0].depth \in 0..4
  BY <1>1 DEF PathSteps
<1>4. f[1].depth \in 0..4
  BY <1>2, <1>3
<1>5. f[2].depth \in 0..4
  BY <1>2, <1>4
<1>6. f[3].depth \in 0..4
  BY <1>2, <1>5
<1>7. f[4].depth \in 0..4
  BY <1>2, <1>6
<1> QED
  BY <1>1, <1>7

LEMMA ExistingPathIs ==
  ASSUME NEW s, LinksOK(s), DOMAIN s.win \subseteq Nat \X Nat,
         NEW own, Linked(s, own), NEW o,
         NEW point \in Kids(s.win, own, o, Null) \union {Null}, NEW pattern
  PROVE  LET path == ExistingPath(s.win, point, pattern)
         IN  /\ path.depth \in 0..4
             /\ path.prev \in Upto(s.win, own, o, pattern, path.depth)
<1> DEFINE win == s.win
           U(k) == Upto(win, own, o, pattern, k)
           On(x, k) == /\ x.depth \in 0..k /\ x.prev \in U(x.depth)
                       /\ x.below \in Kids(win, own, o, x.prev) \union {Null}
<1>1. PICK f : /\ ExistingPath(win, point, pattern) = f[4]
               /\ PathSteps(win, point, pattern, f)
  BY ExistingPathSteps
<1>2. CardsOK(win, own) /\ \A w \in DOMAIN win : w # Null
  BY NullIsNoPlace DEF Linked
<1>3. On(f[0], 0)
  BY <1>1, UptoStep DEF PathSteps
<1>4. ASSUME NEW k \in 0..3, On(f[k], k) PROVE On(f[k + 1], k + 1)
  <2> DEFINE x == f[k]
             w == Alternative(win, x.below, pattern[k + 1])
             A == Kids(win, own, o, x.prev)
  <2>1. f[k + 1] = IF x.depth < k \/ w = Null THEN x
                   ELSE [depth |-> k + 1, prev |-> w, below |-> win[w].nextWin]
    BY <1>1 DEF PathSteps
  <2>2. CASE x.depth < k \/ w = Null
    <3>1. x.depth \in 0..(k + 1) /\ f[k + 1] = x
      BY <1>4, <2>1, <2>2
    <3> QED
      BY <1>4, <3>1
  <2>3. CASE ~(x.depth < k) /\ w # Null
    <3>1. x.depth = k /\ x.prev \in U(k)
      BY <1>4, <2>3
    <3>2. w \in A /\ win[w].prefix = pattern[k + 1]
      <4>1. \A v \in DOMAIN win : win[v].next \in Steps4(win)
        BY LinkFacts
      <4>2. A \in SUBSET DOMAIN win
        BY DEF Kids
      <4>3. \A v \in A : win[v].next # Null =>
              win[v].next \in A /\ Older(win[v].next, v)
        BY <1>2, KidsChain
      <4>4. x.below \in A \union {Null}
        BY <1>4
      <4> DEFINE first == x.below
                 prefix == pattern[k + 1]
      <4> HIDE DEF A, x
      <4>5. LET r == Alternative(win, first, prefix)
            IN  r = Null \/ (r \in A /\ win[r].prefix = prefix)
        <5> HIDE DEF first, prefix
        <5> QED
          BY <4>1, <4>2, <4>3, <4>4, AlternativeIn DEF first
      <4> QED
        BY <2>3, <4>5
    <3>3. w \in DOMAIN win /\ own[w] = o /\ win[w].prev = x.prev /\ w # Null
      BY <1>2, <3>2 DEF Kids
    <3>4. w \in U(k + 1)
      BY <3>1, <3>2, <3>3, UptoStep DEF Beneath
    <3>5. win[w].nextWin \in Kids(win, own, o, w) \union {Null}
      BY <1>2, <3>3, KidsBelow
    <3>6. f[k + 1] = [depth |-> k + 1, prev |-> w, below |-> win[w].nextWin]
      BY <2>1, <2>3
    <3> HIDE DEF w, x
    <3> QED
      BY <3>4, <3>5, <3>6
  <2> QED
    BY <2>2, <2>3
<1> HIDE DEF On
<1>5. On(f[1], 1)
  BY <1>3, <1>4
<1>6. On(f[2], 2)
  BY <1>4, <1>5
<1>7. On(f[3], 3)
  BY <1>4, <1>6
<1>8. On(f[4], 4)
  BY <1>4, <1>7
<1> QED
  BY <1>1, <1>8 DEF On

LEMMA MidAddLater ==
  ASSUME NEW k \in 0..3, NEW s, MidAdd(s, k)
  PROVE  MidAdd(s, k + 1)
BY DEF MidAdd, TempOK

(* The cards that are made below the end of a path. *)
Extends(s, c, at, path, pattern, granted, f) ==
  /\ f[0] = [s |-> s, prev |-> path.prev]
  /\ \A k \in 0..3 :
       f[k + 1] = IF k + 1 <= path.depth THEN [s |-> s, prev |-> path.prev]
                  ELSE NewWin(f[k].s, c, at, f[k].prev, pattern[k + 1], granted)

LEMMA ExtendSteps ==
  ASSUME NEW s, NEW c, NEW at, NEW path, path.depth \in 0..4,
         NEW pattern, NEW granted
  PROVE  \E f : /\ Extend(s, c, at, path, pattern, granted) = f[4]
                /\ Extends(s, c, at, path, pattern, granted, f)
<1> DEFINE f0 == [s |-> s, prev |-> path.prev]
           F(k, d) == IF k <= path.depth THEN f0
                      ELSE NewWin(d.s, c, at, d.prev, pattern[k], granted)
           f1 == F(1, f0)
           f2 == F(2, f1)
           f3 == F(3, f2)
           f4 == F(4, f3)
           f == [k \in 0..4 |-> IF k = 0 THEN f0 ELSE IF k = 1 THEN f1
                                ELSE IF k = 2 THEN f2 ELSE IF k = 3 THEN f3
                                ELSE f4]
           R(g) == g = [k \in 0..4 |->
                          IF k <= path.depth THEN [s |-> s, prev |-> path.prev]
                          ELSE NewWin(g[k - 1].s, c, at, g[k - 1].prev, pattern[k],
                                      granted)]
           g == CHOOSE g : R(g)
<1>1. Extend(s, c, at, path, pattern, granted) = g[4]
  BY Zenon DEF Extend
<1>2. ASSUME NEW k \in 0..4, NEW h
      PROVE  (IF k <= path.depth THEN [s |-> s, prev |-> path.prev]
              ELSE NewWin(h[k - 1].s, c, at, h[k - 1].prev, pattern[k], granted))
               = IF k = 0 THEN f0 ELSE F(k, h[k - 1])
  BY path.depth \in 0..4
<1> HIDE DEF F, f0
<1>3. R(f)
  <2>1. ASSUME NEW k \in 0..4
        PROVE  f[k] = IF k = 0 THEN f0 ELSE F(k, f[k - 1])
    <3>1. k = 0 \/ k = 1 \/ k = 2 \/ k = 3 \/ k = 4
      OBVIOUS
    <3>2. f[0] = f0 /\ f[1] = f1 /\ f[2] = f2 /\ f[3] = f3 /\ f[4] = f4
      OBVIOUS
    <3> HIDE DEF f
    <3> QED
      BY <3>1, <3>2
  <2>2. ASSUME NEW k \in 0..4
        PROVE  f[k] = IF k <= path.depth THEN [s |-> s, prev |-> path.prev]
                      ELSE NewWin(f[k - 1].s, c, at, f[k - 1].prev, pattern[k],
                                  granted)
    <3> HIDE DEF f
    <3> QED
      BY <1>2, <2>1
  <2>3. DOMAIN f = 0..4
    OBVIOUS
  <2> QED
    BY <2>2
<1> HIDE DEF f
<1>4. R(g)
  BY <1>3, Zenon
<1> HIDE DEF g
<1>5. g[0] = [s |-> s, prev |-> path.prev]
  BY <1>4
<1>6. ASSUME NEW k \in 0..3
      PROVE  g[k + 1] = IF k + 1 <= path.depth THEN [s |-> s, prev |-> path.prev]
                  ELSE NewWin(g[k].s, c, at, g[k].prev, pattern[k + 1], granted)
  <2>1. k + 1 \in 0..4 /\ (k + 1) - 1 = k
    OBVIOUS
  <2> DEFINE j == k + 1
  <2>2. g[j] = IF j <= path.depth THEN [s |-> s, prev |-> path.prev]
               ELSE NewWin(g[j - 1].s, c, at, g[j - 1].prev, pattern[j], granted)
    <3> HIDE DEF j
    <3> QED
      BY <1>4, <2>1 DEF j
  <2> QED
    BY <2>1, <2>2
<1> QED
  BY <1>1, <1>5, <1>6 DEF Extends

LEMMA ExtendOK ==
  ASSUME NEW s, MidAdd(s, 0), NEW c, NEW at, NEW path, path.depth \in 0..4,
         NEW pattern, NEW granted, NEW f,
         Extends(s, c, at, path, pattern, granted, f)
  PROVE  \A k \in 0..4 : MidAdd(f[k].s, k)
<1>1. MidAdd(s, 0) /\ MidAdd(s, 1) /\ MidAdd(s, 2) /\ MidAdd(s, 3) /\ MidAdd(s, 4)
  <2>1. ASSUME NEW k \in 0..3, MidAdd(s, k) PROVE MidAdd(s, k + 1)
    BY <2>1, MidAddLater
  <2>2. MidAdd(s, 1)
    BY <2>1
  <2>3. MidAdd(s, 2)
    BY <2>1, <2>2
  <2>4. MidAdd(s, 3)
    BY <2>1, <2>3
  <2>5. MidAdd(s, 4)
    BY <2>1, <2>4
  <2> QED
    BY <2>2, <2>3, <2>4, <2>5
<1>2. ASSUME NEW k \in 0..3, MidAdd(f[k].s, k) PROVE MidAdd(f[k + 1].s, k + 1)
  <2>1. CASE k + 1 <= path.depth
    <3>1. f[k + 1].s = s
      BY <2>1 DEF Extends
    <3>2. k + 1 = 1 \/ k + 1 = 2 \/ k + 1 = 3 \/ k + 1 = 4
      OBVIOUS
    <3> QED
      BY <1>1, <3>1, <3>2
  <2>2. CASE ~(k + 1 <= path.depth)
    <3>1. f[k + 1] = NewWin(f[k].s, c, at, f[k].prev, pattern[k + 1], granted)
      BY <2>2 DEF Extends
    <3> QED
      BY <1>2, <3>1, NewWinOK
  <2> QED
    BY <2>1, <2>2
<1>3. MidAdd(f[0].s, 0)
  BY <1>1 DEF Extends
<1>4. MidAdd(f[1].s, 1)
  BY <1>2, <1>3
<1>5. MidAdd(f[2].s, 2)
  BY <1>2, <1>4
<1>6. MidAdd(f[3].s, 3)
  BY <1>2, <1>5
<1>7. MidAdd(f[4].s, 4)
  BY <1>2, <1>6
<1>8. \A k \in 0..4 : k = 0 \/ k = 1 \/ k = 2 \/ k = 3 \/ k = 4
  OBVIOUS
<1> QED
  BY <1>3, <1>4, <1>5, <1>6, <1>7, <1>8

(* The table at the end of an addition, when it is at its limit or goes on. *)
EndAdd(s) ==
  /\ IsSmall(s) /\ Counted(s) /\ LensOK(s)
  /\ ~s.clear => NodesOK(s) /\ WinsOK(s)

LEMMA NewNodeOK ==
  ASSUME NEW made, MidAdd(made.s, 4), NEW lo, NEW hi, NEW granted
  PROVE  EndAdd(NewNode(made, lo, hi, granted))
<1> DEFINE s == made.s
           n == NodePlace(s)
           node == With(s.node, n, [lo |-> lo, hi |-> hi])
           m == [s EXCEPT !.overrun = @ \/ ~NodePlaceIsFree(s),
                          !.win[made.prev].node = n, !.node = node]
           r == AddNodeSet(m, granted)
<1>1. NewNode(made, lo, hi, granted) = r
  BY DEF NewNode
<1>2. /\ IsSmall(s) /\ Counted(s) /\ LensOK(s) /\ NodesOK(s)
      /\ WinsOK(s) \/ TempOK(s, 4)
  BY DEF MidAdd
<1> HIDE DEF s
<1>3. n = <<s.nSlab, s.nSize>> /\ s.nSlab \in Nat /\ s.nSize \in Nat
  BY <1>2 DEF NodePlace, NodesOK
<1>4. NodePlaceIsFree(s)
  <2>1. s.nSize <= IF s.nBase = 0 THEN NInit ELSE NSize
    BY <1>2 DEF NodesOK
  <2>2. NodePlace(s) \notin DOMAIN s.node
    BY <1>2, <1>3 DEF NodesOK
  <2> QED
    BY <2>1, <2>2 DEF NodePlaceIsFree
<1> HIDE DEF n
<1>5. DOMAIN node = {n} \union DOMAIN s.node
  BY DEF With
<1> HIDE DEF node
<1>6. IsSmall(m)
  BY <1>2, SmallWith
<1>7. /\ m.kind = s.kind /\ m.overrun = (s.overrun \/ ~NodePlaceIsFree(s))
      /\ m.clear = s.clear
      /\ m.max = s.max /\ m.maxIndex = s.maxIndex /\ m.alloc = s.alloc
      /\ m.windex = s.windex /\ m.wSize = s.wSize
      /\ m.wSlab = s.wSlab /\ m.wLimit = s.wLimit
      /\ m.wBase = s.wBase /\ DOMAIN m.win = DOMAIN s.win
      /\ m.nSlab = s.nSlab /\ m.nSize = s.nSize /\ m.nLimit = s.nLimit
      /\ m.nBase = s.nBase /\ m.node = node /\ m.lenInd = s.lenInd
  BY <1>2 DEF IsSmall, SmallFields
<1> HIDE DEF m
<1>8. Counted(m) /\ LensOK(m) /\ (~m.clear => WinsOK(m))
  BY <1>2, <1>4, <1>7 DEF Counted, LensOK, WinsOK, TempOK
<1>9. ASSUME NEW v \in DOMAIN m.node
      PROVE  /\ v \in Nat \X Nat
             /\ v[1] < m.nSlab \/ (v[1] = m.nSlab /\ v[2] <= m.nSize)
  <2>1. CASE v = n
    BY <1>3, <1>7, <2>1
  <2>2. CASE v \in DOMAIN s.node
    BY <1>2, <1>7, <2>2 DEF NodesOK
  <2> QED
    BY <1>5, <1>7, <1>9, <2>1, <2>2
<1>10. /\ m.nSlab \in Nat /\ m.nBase = m.nSlab /\ m.nSize \in Nat
       /\ m.nSize <= m.nLimit
       /\ m.nLimit = IF m.nSlab = 0 THEN NInit ELSE NSize
  BY <1>2, <1>7 DEF NodesOK
<1> DEFINE on == [m EXCEPT !.nSize = @ + 1]
           more == [m EXCEPT !.nSlab = @ + 1, !.nLimit = NSize]
           slab == [more EXCEPT !.alloc = @ + NodeMem, !.nSize = 0,
                                !.nBase = more.nSlab]
<1>11. \/ r = on /\ m.nSize < m.nLimit
       \/ r = [m EXCEPT !.clear = TRUE]
       \/ r = [more EXCEPT !.clear = TRUE]
       \/ r = slab /\ ~(m.alloc + NodeMem > m.max)
  BY DEF AddNodeSet
<1> HIDE DEF r
<1>12. CASE r = on /\ m.nSize < m.nLimit
  <2>1. IsSmall(r)
    BY <1>6, <1>12, SmallWith
  <2>2. /\ r.kind = m.kind /\ r.overrun = m.overrun /\ r.clear = m.clear
        /\ r.max = m.max /\ r.maxIndex = m.maxIndex /\ r.alloc = m.alloc
        /\ r.windex = m.windex /\ r.wSize = m.wSize
        /\ r.wSlab = m.wSlab /\ r.wLimit = m.wLimit
        /\ r.wBase = m.wBase /\ r.win = m.win
        /\ r.nSlab = m.nSlab /\ r.nSize = m.nSize + 1 /\ r.nLimit = m.nLimit
        /\ r.nBase = m.nBase /\ r.node = m.node /\ r.lenInd = m.lenInd
    BY <1>6, <1>12 DEF IsSmall, SmallFields
  <2> HIDE DEF on
  <2>3. Counted(r) /\ LensOK(r) /\ (~r.clear => WinsOK(r))
    BY <1>8, <2>2 DEF Counted, LensOK, WinsOK
  <2>4. NodesOK(r)
    <3>1. r.nSize <= r.nLimit
      BY <1>10, <1>12, <2>2, SmallSizes
    <3>2. ASSUME NEW v \in DOMAIN r.node
          PROVE  /\ v \in Nat \X Nat
                 /\ v[1] < r.nSlab \/ (v[1] = r.nSlab /\ v[2] < r.nSize)
      BY <1>9, <1>10, <2>2
    <3> QED
      BY <1>10, <2>2, <3>1, <3>2 DEF NodesOK
  <2> QED
    BY <1>1, <2>1, <2>3, <2>4 DEF EndAdd
<1>13. CASE r = [m EXCEPT !.clear = TRUE] \/ r = [more EXCEPT !.clear = TRUE]
  <2>1. IsSmall(r)
    <3>1. IsSmall([m EXCEPT !.clear = TRUE])
      BY <1>6, SmallWith
    <3>2. IsSmall(more)
      BY <1>6, SmallWith
    <3> HIDE DEF more
    <3>3. IsSmall([more EXCEPT !.clear = TRUE])
      BY <3>2, SmallWith
    <3> QED
      BY <1>13, <3>1, <3>3
  <2>2. /\ r.kind = m.kind /\ r.overrun = m.overrun /\ r.clear
        /\ r.max = m.max /\ r.maxIndex = m.maxIndex /\ r.alloc = m.alloc
        /\ r.lenInd = m.lenInd
    BY <1>6, <1>13 DEF IsSmall, SmallFields
  <2>3. Counted(r) /\ LensOK(r)
    BY <1>8, <2>2 DEF Counted, LensOK
  <2> QED
    BY <1>1, <2>1, <2>2, <2>3 DEF EndAdd
<1>14. CASE r = slab /\ ~(m.alloc + NodeMem > m.max)
  <2>1. IsSmall(r)
    BY <1>6, <1>14, SmallWith
  <2>2. /\ r.kind = m.kind /\ r.overrun = m.overrun /\ r.clear = m.clear
        /\ r.max = m.max /\ r.maxIndex = m.maxIndex
        /\ r.alloc = m.alloc + NodeMem
        /\ r.windex = m.windex /\ r.wSize = m.wSize
        /\ r.wSlab = m.wSlab /\ r.wLimit = m.wLimit
        /\ r.wBase = m.wBase /\ r.win = m.win
        /\ r.nSlab = m.nSlab + 1 /\ r.nSize = 0 /\ r.nLimit = NSize
        /\ r.nBase = m.nSlab + 1 /\ r.node = m.node /\ r.lenInd = m.lenInd
    BY <1>6, <1>14 DEF IsSmall, SmallFields
  <2> HIDE DEF slab, more
  <2>3. Counted(r) /\ LensOK(r) /\ (~r.clear => WinsOK(r))
    BY <1>8, <1>14, <2>2, SmallSizes DEF Counted, LensOK, WinsOK
  <2>4. NodesOK(r)
    <3>1. ASSUME NEW v \in DOMAIN r.node
          PROVE  v \in Nat \X Nat /\ v[1] < r.nSlab
      BY <1>9, <1>10, <2>2
    <3> QED
      BY <1>10, <2>2, <3>1, SmallSizes DEF NodesOK
  <2> QED
    BY <1>1, <2>1, <2>3, <2>4 DEF EndAdd
<1> QED
  BY <1>11, <1>12, <1>13, <1>14

LEMMA TightenOK ==
  ASSUME NEW s, MidAdd(s, 0), NEW n, NEW lo, NEW hi
  PROVE  EndAdd(Tighten(s, n, lo, hi))
<1> DEFINE r == Tighten(s, n, lo, hi)
<1>1. IsSmall(s) /\ Counted(s) /\ LensOK(s) /\ NodesOK(s) /\ WinsOK(s)
  <2>1. ~ TempOK(s, 0)
    BY DEF TempOK
  <2> QED
    BY <2>1 DEF MidAdd
<1>2. IsSmall(r)
  BY <1>1, SmallWith DEF Tighten
<1>3. /\ r.kind = s.kind /\ r.overrun = s.overrun /\ r.clear = s.clear
      /\ r.max = s.max /\ r.maxIndex = s.maxIndex /\ r.alloc = s.alloc
      /\ r.windex = s.windex /\ r.wSize = s.wSize
      /\ r.wSlab = s.wSlab /\ r.wLimit = s.wLimit
      /\ r.wBase = s.wBase /\ r.win = s.win
      /\ r.nSlab = s.nSlab /\ r.nSize = s.nSize /\ r.nLimit = s.nLimit
      /\ r.nBase = s.nBase /\ DOMAIN r.node = DOMAIN s.node
      /\ r.lenInd = s.lenInd
  BY <1>1 DEF Tighten, IsSmall, SmallFields
<1> HIDE DEF r
<1>4. EndAdd(r)
  BY <1>1, <1>2, <1>3 DEF EndAdd, Counted, LensOK, NodesOK, WinsOK
<1> QED
  BY <1>4 DEF r

LEMMA AddSmallOK ==
  ASSUME NEW s, SlabsOK(s), NEW p, <<p.trick, p.hand>> \in Squares,
         NEW lens, NEW lo, NEW hi, NEW granted
  PROVE  SlabsOK(AddSmall(s, p, lens, lo, hi, granted))
<1> DEFINE c == <<p.trick, p.hand>>
           i == InsertLen(s, c, s.lengths[p.trick], granted)
           pattern == Pattern(p.order, lens)
           path == ExistingPath(i.s.win, i.s.tree[c][i.at].point, pattern)
           r == AddBelow(i, c, pattern, lo, hi, granted)
<1>1. MidAdd(i.s, 0)
  BY InsertLenOK
<1>2. path.depth \in 0..4
  BY DepthOK, Zenon
<1>3. AddSmall(s, p, lens, lo, hi, granted) = AtLimit(r)
  BY DEF AddSmall
<1>4. r = IF path.depth = 4
          THEN Tighten(i.s, i.s.win[path.prev].node, lo, hi)
          ELSE NewNode(Extend(i.s, c, i.at, path, pattern, granted), lo, hi, granted)
  BY DEF AddBelow, BuildPath, Along
<1> HIDE DEF i, path, pattern, r
<1>5. EndAdd(r)
  <2>1. CASE path.depth = 4
    BY <1>1, <1>4, <2>1, TightenOK
  <2>2. CASE path.depth # 4
    <3>1. MidAdd(Extend(i.s, c, i.at, path, pattern, granted).s, 4)
      <4>1. PICK f : /\ Extend(i.s, c, i.at, path, pattern, granted) = f[4]
                     /\ Extends(i.s, c, i.at, path, pattern, granted, f)
        BY <1>2, ExtendSteps
      <4> QED
        BY <1>1, <1>2, <4>1, ExtendOK
    <3> QED
      BY <1>4, <2>2, <3>1, NewNodeOK
  <2> QED
    BY <2>1, <2>2
<1>6. CASE r.clear
  BY <1>3, <1>5, <1>6, ResetSmallOK DEF EndAdd, AtLimit
<1>7. CASE ~r.clear
  BY <1>3, <1>5, <1>7 DEF EndAdd, AtLimit, SlabsOK
<1> QED
  BY <1>6, <1>7

-----------------------------------------------------------------------------
(* Additions: what they do to the paths.                                   *)

(* The path of a pattern exists up to its k-th card w. *)
Reached(d, s, own, o, dist, pattern, k, w) ==
  /\ PathsOK(d, s, own, IF k = 4 THEN w ELSE Null)
  /\ o[1] \in Squares /\ o[2] \in 1..Len(s.tree[o[1]])
  /\ s.tree[o[1]][o[2]].dist = dist
  /\ w \in Upto(s.win, own, o, pattern, k)
  /\ WalkTree(s.tree[o[1]], dist) = o[2]
  /\ NoStumps(s.win, IF k = 4 THEN Null ELSE w)

(* One card more, at a free place, as the first alternative below prev. *)
OneMore(win, more, w, card, prev) ==
  /\ w \notin DOMAIN win /\ w # Null /\ w \in Nat \X Nat
  /\ \A v \in DOMAIN win : Older(v, w) /\ v \in Nat \X Nat
  /\ DOMAIN more = DOMAIN win \union {w} /\ more[w] = card
  /\ \A v \in DOMAIN win :
       /\ more[v].prefix = win[v].prefix /\ more[v].next = win[v].next
       /\ more[v].prev = win[v].prev /\ more[v].node = win[v].node
       /\ more[v].nextWin = IF v = prev THEN w ELSE win[v].nextWin

LEMMA OneMoreIs ==
  ASSUME NEW win, win \in [DOMAIN win -> WinCards],
         \A v \in DOMAIN win : v \in Nat \X Nat,
         NEW w \in Nat \X Nat, \A v \in DOMAIN win : Older(v, w),
         NEW card \in WinCards, NEW prev \in DOMAIN win \union {Null},
         NEW linked, linked = IF prev = Null THEN win
                              ELSE [win EXCEPT ![prev].nextWin = w]
  PROVE  LET more == With(linked, w, card)
         IN  /\ OneMore(win, more, w, card, prev)
             /\ more \in [DOMAIN more -> WinCards]
<1> DEFINE more == With(linked, w, card)
<1>1. w \notin DOMAIN win /\ w # Null
  <2>1. w[1] \in Nat /\ w[2] \in Nat /\ ~ Older(w, w)
    BY DEF Older
  <2> QED
    BY <2>1, NullIsNoPlace
<1>2. w \in Links
  BY NullIsNoPlace DEF Links
<1>3. /\ DOMAIN linked = DOMAIN win
      /\ \A v \in DOMAIN win : linked[v] = IF v = prev THEN [win[v] EXCEPT !.nextWin = w]
                                           ELSE win[v]
  <2>1. \A v \in DOMAIN win : v # Null
    BY NullIsNoPlace
  <2>2. CASE prev = Null
    BY <2>1, <2>2
  <2>3. CASE prev # Null
    BY <2>3
  <2> QED
    BY <2>2, <2>3
<1>4. /\ DOMAIN more = DOMAIN win \union {w} /\ more[w] = card
      /\ \A v \in DOMAIN win : more[v] = linked[v]
  BY <1>1, <1>3 DEF With
<1>5. more = [v \in DOMAIN more |-> more[v]]
  BY DEF With
<1> HIDE DEF more
<1>6. ASSUME NEW v \in DOMAIN win
      PROVE  /\ more[v] \in WinCards
             /\ more[v].prefix = win[v].prefix /\ more[v].next = win[v].next
             /\ more[v].prev = win[v].prev /\ more[v].node = win[v].node
             /\ more[v].nextWin = IF v = prev THEN w ELSE win[v].nextWin
  <2>1. win[v] \in WinCards /\ more[v] = linked[v]
    BY <1>4
  <2>2. CASE v = prev
    BY <1>2, <1>3, <2>1, <2>2 DEF WinCards
  <2>3. CASE v # prev
    BY <1>3, <2>1, <2>3
  <2> QED
    BY <2>2, <2>3
<1>7. OneMore(win, more, w, card, prev)
  BY <1>1, <1>4, <1>6 DEF OneMore
<1>8. more \in [DOMAIN more -> WinCards]
  BY <1>4, <1>5, <1>6
<1> QED
  BY <1>7, <1>8 DEF more

(* The tree of the new card's node, which points to it when it is first. *)
Pointed(tree, r, c, at, prev, w) ==
  /\ DOMAIN r = Squares
  /\ \A b \in Squares :
       /\ TreeOK(r[b]) /\ Len(r[b]) = Len(tree[b])
       /\ \A j \in 1..Len(tree[b]) :
            /\ r[b][j].dist = tree[b][j].dist
            /\ r[b][j].left = tree[b][j].left /\ r[b][j].right = tree[b][j].right
            /\ r[b][j].point = IF prev = Null /\ b = c /\ j = at THEN w
                               ELSE tree[b][j].point

LEMMA PointedIs ==
  ASSUME NEW tree, DOMAIN tree = Squares, \A b \in Squares : TreeOK(tree[b]),
         NEW c \in Squares, NEW at \in 1..Len(tree[c]), NEW prev,
         NEW w \in Nat \X Nat,
         NEW r, r = IF prev = Null THEN [tree EXCEPT ![c][at].point = w] ELSE tree
  PROVE  Pointed(tree, r, c, at, prev, w)
<1> DEFINE n == Len(tree[c])
           x == [tree[c][at] EXCEPT !.point = w]
<1>0. w \in Links
  BY NullIsNoPlace DEF Links
<1>1. CASE prev # Null
  BY <1>1 DEF Pointed
<1>2. CASE prev = Null
  <2>1. /\ tree[c] \in Seq(TreeNodes) /\ n \in Nat /\ DOMAIN tree[c] = 1..n
        /\ tree[c] # <<>>
        /\ \A j \in 1..n : /\ tree[c][j] \in TreeNodes
                           /\ tree[c][j].left = 0 \/ tree[c][j].left \in (j + 1)..n
                           /\ tree[c][j].right = 0 \/ tree[c][j].right \in (j + 1)..n
    <3>1. tree[c] \in Seq(TreeNodes)
      BY DEF TreeOK
    <3> QED
      BY <3>1, LenProperties DEF TreeOK
  <2>2. /\ DOMAIN r = Squares /\ r[c] = [tree[c] EXCEPT ![at] = x]
        /\ \A b \in Squares : b # c => r[b] = tree[b]
    BY <1>2
  <2>3. /\ x \in TreeNodes /\ x.dist = tree[c][at].dist /\ x.left = tree[c][at].left
        /\ x.right = tree[c][at].right /\ x.point = w
    <3>1. tree[c][at] \in TreeNodes
      BY <2>1
    <3> QED
      BY <1>0, <3>1 DEF TreeNodes
  <2> HIDE DEF x, n
  <2>4. /\ r[c] \in Seq(TreeNodes) /\ Len(r[c]) = n
        /\ \A j \in 1..n : r[c][j] = IF j = at THEN x ELSE tree[c][j]
    <3>1. r[c] \in [1..n -> TreeNodes]
      BY <2>1, <2>2, <2>3
    <3>2. DOMAIN r[c] = 1..n
      BY <3>1
    <3> DEFINE q == r[c]
    <3>3. \A j \in 1..n : q[j] = IF j = at THEN x ELSE tree[c][j]
      BY <2>1, <2>2
    <3> HIDE DEF q
    <3>4. q \in [1..n -> TreeNodes] /\ DOMAIN q = 1..n /\ n \in Nat
      BY <2>1, <3>1, <3>2 DEF q
    <3>5. q \in Seq(TreeNodes)
      BY ONLY <3>4, IsASeq
    <3>6. Len(q) = n
      BY ONLY <3>4, <3>5, LenProperties
    <3> QED
      BY <3>3, <3>5, <3>6 DEF q
  <2>5. TreeOK(r[c])
    <3>1. \A j \in 1..n : r[c][j].left = tree[c][j].left /\ r[c][j].right = tree[c][j].right
      BY <2>3, <2>4
    <3>2. r[c] # <<>>
      <4>1. n # 0
        BY <2>1, EmptySeq DEF n
      <4> QED
        BY <2>4, <4>1, EmptySeq
    <3> QED
      BY <2>1, <2>4, <3>1, <3>2 DEF TreeOK
  <2>6. ASSUME NEW b \in Squares
        PROVE  /\ TreeOK(r[b]) /\ Len(r[b]) = Len(tree[b])
               /\ \A j \in 1..Len(tree[b]) :
                    /\ r[b][j].dist = tree[b][j].dist
                    /\ r[b][j].left = tree[b][j].left
                    /\ r[b][j].right = tree[b][j].right
                    /\ r[b][j].point = IF prev = Null /\ b = c /\ j = at THEN w
                                       ELSE tree[b][j].point
    <3>1. CASE b = c
      BY <1>2, <2>3, <2>4, <2>5, <3>1 DEF n
    <3>2. CASE b # c
      BY <2>2, <3>2
    <3> QED
      BY <3>1, <3>2
  <2>7. DOMAIN r = Squares
    BY <2>2
  <2> QED
    BY ONLY <2>6, <2>7 DEF Pointed
<1> QED
  BY <1>1, <1>2

(* Everything around a new card: the cards, the tree and their owners. *)
Grows(win, tree, own, c, at, prev, w, card, more, grown, own2) ==
  /\ own \in Owners(win) /\ PointsOK(tree, win, own)
  /\ OwnersOK(tree, own) /\ CardsOK(win, own)
  /\ c \in Squares /\ at \in 1..Len(tree[c]) /\ at \in Nat
  /\ prev \in DOMAIN win \union {Null} /\ (prev # Null => own[prev] = <<c, at>>)
  /\ card.next \in Kids(win, own, <<c, at>>, prev) \union {Null}
  /\ card.nextWin = Null /\ card.prev = prev
  /\ OneMore(win, more, w, card, prev)
  /\ Pointed(tree, grown, c, at, prev, w)
  /\ own2 = With(own, w, <<c, at>>)

LEMMA OneMoreLinked ==
  ASSUME NEW win, NEW tree, NEW own, NEW c, NEW at, NEW prev, NEW w, NEW card,
         NEW more, NEW grown, NEW own2,
         Grows(win, tree, own, c, at, prev, w, card, more, grown, own2)
  PROVE  /\ own2 \in Owners(more) /\ PointsOK(grown, more, own2)
         /\ OwnersOK(grown, own2) /\ CardsOK(more, own2)
         /\ own2[w] = <<c, at>> /\ \A v \in DOMAIN win : own2[v] = own[v]
<1> DEFINE first == card.next
<1>0. /\ own \in Owners(win) /\ PointsOK(tree, win, own)
      /\ OwnersOK(tree, own) /\ CardsOK(win, own)
      /\ c \in Squares /\ at \in 1..Len(tree[c]) /\ at \in Nat
      /\ prev \in DOMAIN win \union {Null} /\ (prev # Null => own[prev] = <<c, at>>)
      /\ first \in Kids(win, own, <<c, at>>, prev) \union {Null}
      /\ card.next = first /\ card.nextWin = Null /\ card.prev = prev
      /\ OneMore(win, more, w, card, prev)
      /\ Pointed(tree, grown, c, at, prev, w)
      /\ own2 = With(own, w, <<c, at>>)
  BY DEF Grows
<1> HIDE DEF first
<1> USE <1>0
<1> DEFINE o == <<c, at>>
<1>1. /\ w \notin DOMAIN win /\ w # Null /\ DOMAIN more = DOMAIN win \union {w}
      /\ more[w] = card
      /\ \A v \in DOMAIN win :
           /\ Older(v, w) /\ v # Null /\ v # w
           /\ more[v].next = win[v].next /\ more[v].prev = win[v].prev
           /\ more[v].nextWin = IF v = prev THEN w ELSE win[v].nextWin
  BY NullIsNoPlace DEF OneMore
<1>2. DOMAIN own = DOMAIN win /\ \A v \in DOMAIN win : own[v] \in Squares \X Nat
  BY DEF Owners
<1>3. /\ DOMAIN own2 = DOMAIN win \union {w} /\ own2[w] = o
      /\ \A v \in DOMAIN win : own2[v] = own[v]
  BY <1>1, <1>2 DEF With
<1>4. own2 \in Owners(more)
  <2>1. o \in Squares \X Nat
    OBVIOUS
  <2>2. own2 = [v \in DOMAIN own2 |-> own2[v]]
    BY DEF With
  <2>3. \A v \in DOMAIN own2 : own2[v] \in Squares \X Nat
    BY <1>2, <1>3, <2>1
  <2> HIDE DEF o
  <2> QED
    BY <1>1, <1>3, <2>2, <2>3 DEF Owners
<1>5. PointsOK(grown, more, own2)
  <2>1. SUFFICES ASSUME NEW b \in Squares, NEW i \in 1..Len(grown[b]), NEW p,
                        p = grown[b][i].point, p # Null
                 PROVE  p \in DOMAIN more /\ more[p].prev = Null /\ own2[p] = <<b, i>>
    BY DEF PointsOK
  <2>2. /\ i \in 1..Len(tree[b])
        /\ p = IF prev = Null /\ b = c /\ i = at THEN w ELSE tree[b][i].point
    BY <2>1 DEF Pointed
  <2>3. CASE prev = Null /\ b = c /\ i = at
    BY <1>1, <1>3, <2>2, <2>3
  <2>4. CASE ~(prev = Null /\ b = c /\ i = at)
    <3>1. p = tree[b][i].point
      BY <2>2, <2>4
    <3>2. p \in DOMAIN win /\ win[p].prev = Null /\ own[p] = <<b, i>>
      BY ONLY <1>0, <2>1, <2>2, <3>1, b \in Squares DEF PointsOK
    <3> QED
      BY <1>1, <1>3, <3>2
  <2> QED
    BY <2>3, <2>4
<1>6. OwnersOK(grown, own2)
  <2>1. SUFFICES ASSUME NEW v \in DOMAIN own2
                 PROVE  own2[v][2] \in 1..Len(grown[own2[v][1]])
    BY DEF OwnersOK
  <2>2. CASE v = w
    <3>1. o[1] = c /\ o[2] = at /\ Len(grown[c]) = Len(tree[c])
      BY DEF Pointed
    <3> QED
      BY <1>3, <2>2, <3>1
  <2>3. CASE v \in DOMAIN win
    <3>1. own[v][1] \in Squares /\ own[v][2] \in 1..Len(tree[own[v][1]])
      BY <1>2, <2>3 DEF OwnersOK
    <3>2. Len(grown[own[v][1]]) = Len(tree[own[v][1]])
      BY <3>1 DEF Pointed
    <3> QED
      BY <1>3, <2>3, <3>1, <3>2
  <2> QED
    BY <1>3, <2>2, <2>3
<1>7. ASSUME NEW v \in DOMAIN win
      PROVE  /\ more[v].prev # Null =>
                  more[v].prev \in DOMAIN more /\ own2[more[v].prev] = own2[v]
             /\ more[v].next # Null =>
                  /\ more[v].next \in DOMAIN more /\ Older(more[v].next, v)
                  /\ more[more[v].next].prev = more[v].prev
                  /\ own2[more[v].next] = own2[v]
             /\ more[v].nextWin # Null =>
                  more[v].nextWin \in DOMAIN more /\ more[more[v].nextWin].prev = v
  <2>1. /\ win[v].prev # Null => win[v].prev \in DOMAIN win /\ own[win[v].prev] = own[v]
        /\ win[v].next # Null =>
             /\ win[v].next \in DOMAIN win /\ Older(win[v].next, v)
             /\ win[win[v].next].prev = win[v].prev /\ own[win[v].next] = own[v]
        /\ win[v].nextWin # Null =>
             win[v].nextWin \in DOMAIN win /\ win[win[v].nextWin].prev = v
    BY DEF CardsOK
  <2>2. /\ more[v].prev # Null =>
             more[v].prev \in DOMAIN more /\ own2[more[v].prev] = own2[v]
        /\ more[v].next # Null =>
             /\ more[v].next \in DOMAIN more /\ Older(more[v].next, v)
             /\ more[more[v].next].prev = more[v].prev
             /\ own2[more[v].next] = own2[v]
    BY <1>1, <1>3, <2>1
  <2>3. CASE v = prev
    BY <1>1, <2>2, <2>3
  <2>4. CASE v # prev
    BY <1>1, <2>1, <2>2, <2>4
  <2> QED
    BY <2>3, <2>4
<1>8. /\ card.prev # Null => card.prev \in DOMAIN more /\ own2[card.prev] = own2[w]
      /\ card.next # Null => /\ card.next \in DOMAIN more /\ Older(card.next, w)
                             /\ more[card.next].prev = card.prev
                             /\ own2[card.next] = own2[w]
      /\ card.nextWin = Null
  BY <1>1, <1>3 DEF Kids
<1>9. CardsOK(more, own2)
  <2>1. SUFFICES ASSUME NEW v \in DOMAIN more
        PROVE  /\ more[v].prev # Null =>
                    more[v].prev \in DOMAIN more /\ own2[more[v].prev] = own2[v]
               /\ more[v].next # Null =>
                    /\ more[v].next \in DOMAIN more /\ Older(more[v].next, v)
                    /\ more[more[v].next].prev = more[v].prev
                    /\ own2[more[v].next] = own2[v]
               /\ more[v].nextWin # Null =>
                    more[v].nextWin \in DOMAIN more /\ more[more[v].nextWin].prev = v
    BY DEF CardsOK
  <2>2. CASE v = w
    BY <1>1, <1>8, <2>2
  <2>3. CASE v # w
    BY <1>1, <1>7, <2>3
  <2> QED
    BY <2>2, <2>3
<1> QED
  BY <1>3, <1>4, <1>5, <1>6, <1>9

(* It comes before the older cards of its level. *)
LEMMA OneMoreOrdered ==
  ASSUME NEW win, NEW tree, NEW own, NEW c, NEW at, NEW prev, NEW w, NEW card,
         NEW more, NEW grown, NEW own2,
         Grows(win, tree, own, c, at, prev, w, card, more, grown, own2),
         \A v \in DOMAIN win : v # Null,
         Ordered(tree, win, own),
         card.next = IF prev = Null THEN tree[c][at].point ELSE win[prev].nextWin
  PROVE  Ordered(grown, more, own2)
<1> DEFINE o == <<c, at>>
           first(v) == FirstOf(tree, win, own, v)
           first2(v) == FirstOf(grown, more, own2, v)
<1>1. /\ own \in Owners(win) /\ OwnersOK(tree, own) /\ CardsOK(win, own)
      /\ c \in Squares /\ at \in 1..Len(tree[c])
      /\ prev \in DOMAIN win \union {Null} /\ (prev # Null => own[prev] = o)
      /\ card.prev = prev
      /\ OneMore(win, more, w, card, prev) /\ Pointed(tree, grown, c, at, prev, w)
  BY DEF Grows
<1>2. own2[w] = o /\ \A v \in DOMAIN win : own2[v] = own[v]
  BY OneMoreLinked
<1>3. /\ w \notin DOMAIN win /\ w # Null /\ w \in Nat \X Nat
      /\ \A v \in DOMAIN win : Older(v, w) /\ v \in Nat \X Nat
      /\ DOMAIN more = DOMAIN win \union {w} /\ more[w] = card
      /\ \A v \in DOMAIN win :
           /\ more[v].next = win[v].next /\ more[v].prev = win[v].prev
           /\ more[v].nextWin = IF v = prev THEN w ELSE win[v].nextWin
  BY <1>1 DEF OneMore
<1>4. ASSUME NEW b \in Squares, NEW j \in 1..Len(tree[b])
      PROVE  grown[b][j].point = IF prev = Null /\ b = c /\ j = at THEN w
                                 ELSE tree[b][j].point
  BY <1>1 DEF Pointed
<1>5. first2(w) = w
  <2>1. CASE prev = Null
    BY <1>1, <1>2, <1>3, <1>4, <2>1 DEF FirstOf
  <2>2. CASE prev # Null
    BY <1>1, <1>3, <2>2 DEF FirstOf
  <2> QED
    BY <2>1, <2>2
<1>6. ASSUME NEW v \in DOMAIN win
      PROVE  first2(v) \in {w, first(v)}
  <2>1. /\ own[v] \in Squares \X Nat /\ own[v][2] \in 1..Len(tree[own[v][1]])
        /\ own[v][1] \in Squares
    <3>1. /\ own[v] \in Squares \X Nat /\ own[v][2] \in 1..Len(tree[own[v][1]])
      BY <1>1 DEF Owners, OwnersOK
    <3> QED
      BY ONLY <3>1
  <2>2. CASE win[v].prev = Null
    <3>1. grown[own[v][1]][own[v][2]].point \in {w, tree[own[v][1]][own[v][2]].point}
      BY <1>4, <2>1
    <3> QED
      BY <1>2, <1>3, <2>2, <3>1, Zenon DEF FirstOf
  <2>3. CASE win[v].prev # Null
    <3>1. win[v].prev \in DOMAIN win
      BY <1>1, <2>3 DEF CardsOK
    <3> QED
      BY <1>3, <2>3, <3>1 DEF FirstOf
  <2> QED
    BY <2>2, <2>3
<1>7. ASSUME NEW v \in DOMAIN more
      PROVE  first2(v) # Null /\ (first2(v) = v \/ Older(v, first2(v)))
  <2>1. CASE v = w
    BY <1>3, <1>5, <2>1
  <2>2. CASE v \in DOMAIN win
    <3>1. first(v) # Null /\ (first(v) = v \/ Older(v, first(v)))
      BY <2>2 DEF Ordered
    <3> QED
      BY <1>3, <1>6, <2>2, <3>1
  <2> QED
    BY <1>3, <2>1, <2>2
<1>8. ASSUME NEW v \in DOMAIN win, own[v] = o, win[v].prev = prev
      PROVE  first(v) = card.next
  BY <1>8 DEF FirstOf
<1>9. ASSUME NEW u \in DOMAIN more, NEW v \in DOMAIN more, own2[u] = own2[v],
             more[u].prev = more[v].prev, Older(u, v)
      PROVE  more[v].next # Null /\ (more[v].next = u \/ Older(u, more[v].next))
  <2>1. CASE u \in DOMAIN win /\ v \in DOMAIN win
    <3>1. own[u] = own[v] /\ win[u].prev = win[v].prev /\ more[v].next = win[v].next
      BY <1>2, <1>3, <1>9, <2>1
    <3> QED
      BY <1>9, <2>1, <3>1 DEF Ordered
  <2>2. CASE u \in DOMAIN win /\ v = w
    <3>1. own[u] = o /\ win[u].prev = prev /\ more[v].next = card.next
      BY <1>1, <1>2, <1>3, <1>9, <2>2
    <3>2. first(u) = card.next /\ first(u) # Null /\ (first(u) = u \/ Older(u, first(u)))
      BY <1>8, <2>2, <3>1 DEF Ordered
    <3> QED
      BY <3>1, <3>2
  <2>3. CASE u = w
    <3>1. v \in Nat \X Nat /\ w \in Nat \X Nat /\ (v = w \/ Older(v, w)) /\ Older(w, v)
      BY <1>3, <1>9, <2>3
    <3>2. FALSE
      BY ONLY <3>1 DEF Older
    <3> QED
      BY <3>2
  <2> QED
    BY <1>3, <2>1, <2>2, <2>3
<1> QED
  BY <1>7, <1>9 DEF Ordered

(* A leaf and its path depend on the prefixes and on the links up. *)
LEMMA LeafSame ==
  ASSUME NEW win, NEW own, CardsOK(win, own), NEW more,
         \A v \in DOMAIN win :
           more[v].prefix = win[v].prefix /\ more[v].prev = win[v].prev
  PROVE  \A v \in DOMAIN win : /\ Leaf(more, v) <=> Leaf(win, v)
                               /\ Leaf(win, v) => PathOf(more, v) = PathOf(win, v)
<1>1. \A v \in DOMAIN win :
        /\ more[v].prefix = win[v].prefix /\ more[v].prev = win[v].prev
        /\ win[v].prev = Null \/ win[v].prev \in DOMAIN win
  BY DEF CardsOK
<1>2. ASSUME NEW v \in DOMAIN win
      PROVE  /\ Leaf(more, v) <=> Leaf(win, v)
             /\ Leaf(win, v) => PathOf(more, v) = PathOf(win, v)
  <2> DEFINE a == win[v].prev
             b == win[a].prev
             e == win[b].prev
  <2>1. CASE a = Null
    BY <1>1, <2>1 DEF Leaf
  <2>2. CASE a # Null /\ b = Null
    <3>1. a \in DOMAIN win /\ more[v].prev = a /\ more[a].prev = b
      BY <1>1, <2>2
    <3> QED
      BY <2>2, <3>1 DEF Leaf
  <2>3. CASE a # Null /\ b # Null
    <3>1. a \in DOMAIN win /\ more[v].prev = a /\ more[a].prev = b
      BY <1>1, <2>3
    <3>2. b \in DOMAIN win /\ more[b].prev = e
      BY <1>1, <2>3, <3>1
    <3>3. CASE e = Null
      BY <3>1, <3>2, <3>3 DEF Leaf
    <3>4. CASE e # Null
      <4>1. e \in DOMAIN win /\ more[e].prev = win[e].prev
        BY <1>1, <3>2, <3>4
      <4>2. Leaf(more, v) <=> Leaf(win, v)
        BY <3>1, <3>2, <4>1 DEF Leaf
      <4>3. PathOf(more, v) = PathOf(win, v)
        BY <1>1, <3>1, <3>2, <4>1 DEF PathOf
      <4> QED
        BY <4>2, <4>3
    <3> QED
      BY <3>3, <3>4
  <2> QED
    BY <2>1, <2>2, <2>3
<1> QED
  BY <1>2

(* The older paths stay what they were, and the path goes on to the card.  *)
LEMMA OneMorePaths ==
  ASSUME NEW win, NEW own, CardsOK(win, own), \A v \in DOMAIN win : v \in Nat \X Nat,
         NEW w, NEW card, NEW prev, NEW more, OneMore(win, more, w, card, prev),
         NEW own2, \A v \in DOMAIN win : own2[v] = own[v]
  PROVE  /\ \A v \in DOMAIN win : /\ Leaf(more, v) <=> Leaf(win, v)
                                  /\ Leaf(win, v) => PathOf(more, v) = PathOf(win, v)
         /\ \A o, pattern : \A k \in 0..4 :
              Upto(win, own, o, pattern, k) \subseteq Upto(more, own2, o, pattern, k)
<1>1. /\ DOMAIN more = DOMAIN win \union {w}
      /\ \A v \in DOMAIN win :
           /\ more[v].prefix = win[v].prefix /\ more[v].prev = win[v].prev
           /\ win[v].prev = Null \/ win[v].prev \in DOMAIN win
  BY DEF OneMore, CardsOK
<1>2. \A v \in DOMAIN win : /\ Leaf(more, v) <=> Leaf(win, v)
                            /\ Leaf(win, v) => PathOf(more, v) = PathOf(win, v)
  BY <1>1, LeafSame
<1>3. ASSUME NEW o, NEW pattern
      PROVE  \A k \in 0..4 :
               Upto(win, own, o, pattern, k) \subseteq Upto(more, own2, o, pattern, k)
  <2> DEFINE U(k) == Upto(win, own, o, pattern, k)
             V(k) == Upto(more, own2, o, pattern, k)
  <2>1. ASSUME NEW k \in 0..3, U(k) \subseteq V(k) PROVE U(k + 1) \subseteq V(k + 1)
    <3>1. /\ U(k + 1) = Beneath(win, own, o, U(k), pattern[k + 1])
          /\ V(k + 1) = Beneath(more, own2, o, V(k), pattern[k + 1])
      BY UptoStep
    <3>2. ASSUME NEW A, NEW B, A \subseteq B, NEW prefix
          PROVE  Beneath(win, own, o, A, prefix) \subseteq Beneath(more, own2, o, B, prefix)
      BY <1>1, <3>2 DEF Beneath
    <3> QED
      BY <2>1, <3>1, <3>2
  <2>2. U(0) \subseteq V(0)
    BY UptoStep
  <2>3. U(1) \subseteq V(1)
    BY <2>1, <2>2
  <2>4. U(2) \subseteq V(2)
    BY <2>1, <2>3
  <2>5. U(3) \subseteq V(3)
    BY <2>1, <2>4
  <2>6. U(4) \subseteq V(4)
    BY <2>1, <2>5
  <2>7. \A k \in 0..4 : k = 0 \/ k = 1 \/ k = 2 \/ k = 3 \/ k = 4
    OBVIOUS
  <2> HIDE DEF U, V
  <2>8. \A k \in 0..4 : U(k) \subseteq V(k)
    BY <2>2, <2>3, <2>4, <2>5, <2>6, <2>7
  <2> QED
    BY <2>8 DEF U, V
<1> QED
  BY <1>2, <1>3

LEMMA NewWinPaths ==
  ASSUME NEW d, NEW k \in 0..3, NEW s, MidAdd(s, k), ~s.clear, NEW own,
         NEW c \in Squares, NEW at \in Nat, NEW dist,
         NEW pattern, pattern[k + 1] \in Seq(0..3), NEW prev,
         Reached(d, s, own, <<c, at>>, dist, pattern, k, prev), NEW granted
  PROVE  LET m == NewWin(s, c, at, prev, pattern[k + 1], granted)
         IN  \E own2 : Reached(d, m.s, own2, <<c, at>>, dist, pattern, k + 1, m.prev)
<1> DEFINE o == <<c, at>>
           prefix == pattern[k + 1]
           w == WinPlace(s)
           first == IF prev = Null THEN s.tree[c][at].point ELSE s.win[prev].nextWin
           card == [prefix |-> prefix, next |-> first, nextWin |-> Null,
                    prev |-> prev, node |-> Null]
           grown == IF prev = Null THEN [s.tree EXCEPT ![c][at].point = w] ELSE s.tree
           linkedWin == IF prev = Null THEN s.win ELSE [s.win EXCEPT ![prev].nextWin = w]
           more == With(linkedWin, w, card)
           own2 == With(own, w, o)
           m == NewWin(s, c, at, prev, prefix, granted)
<1>1. /\ LinksOK(s) /\ Linked(s, own) /\ Claims(d, s, own, Null)
      /\ own \in Owners(s.win) /\ PointsOK(s.tree, s.win, own)
      /\ OwnersOK(s.tree, own) /\ CardsOK(s.win, own)
      /\ at \in 1..Len(s.tree[c]) /\ s.tree[c][at].dist = dist
      /\ prev \in Upto(s.win, own, o, pattern, k)
      /\ Ordered(s.tree, s.win, own) /\ NoStumps(s.win, prev)
      /\ WalkTree(s.tree[c], dist) = at
      /\ k # 4
  BY DEF Reached, PathsOK, Linked
<1>2. /\ w \in Nat \X Nat
      /\ \A v \in DOMAIN s.win : v \in Nat \X Nat /\ Older(v, w)
  <2>1. WinsOK(s)
    BY DEF MidAdd, TempOK
  <2>2. w = <<s.wSlab, s.wSize>> /\ s.wSlab \in Nat /\ s.wSize \in Nat
    BY <2>1 DEF WinPlace, WinsOK
  <2> HIDE DEF w
  <2> QED
    BY <2>1, <2>2 DEF WinsOK, Older
<1>3. /\ \A v \in DOMAIN s.win : v # Null /\ v # w
      /\ w \in Links /\ w # Null
  <2>1. ~ Older(w, w)
    BY <1>2 DEF Older
  <2> HIDE DEF w
  <2> QED
    BY <1>2, <2>1, NullIsNoPlace DEF Links
<1>4. \/ k = 0 /\ prev = Null
      \/ k # 0 /\ prev \in DOMAIN s.win /\ own[prev] = o /\ prev # Null
  <2>1. CASE k = 0
    BY <1>1, <2>1, UptoStep
  <2>2. CASE k # 0
    <3>1. k \in 1..4
      BY <2>2
    <3>2. prev \in DOMAIN s.win /\ own[prev] = o
      BY <1>1, <3>1, UptoFacts
    <3> QED
      BY <1>3, <2>2, <3>2
  <2> QED
    BY <2>1, <2>2
<1>5. first \in Kids(s.win, own, o, prev) \union {Null}
  <2>1. CASE prev = Null
    <3>1. first = s.tree[c][at].point
      BY <2>1
    <3> QED
      BY <1>1, <2>1, <3>1 DEF PointsOK, Kids
  <2>2. CASE prev # Null
    <3>1. first = s.win[prev].nextWin /\ prev \in DOMAIN s.win /\ own[prev] = o
      BY <1>4, <2>2
    <3> QED
      BY <1>1, <2>2, <3>1, KidsBelow
  <2> QED
    BY <2>1, <2>2
<1>6. card \in WinCards
  <2>1. prefix \in Seq(0..3) /\ Null \in Links
    BY DEF Links
  <2>2. \A v \in DOMAIN s.win : v \in Links
    BY <1>2, NullIsNoPlace DEF Links
  <2>3. first \in Links /\ prev \in Links
    BY <1>4, <1>5, <2>1, <2>2 DEF Kids
  <2> HIDE DEF first, prefix
  <2> QED
    BY <2>1, <2>3 DEF WinCards
<1>7. /\ card.next = first /\ card.nextWin = Null /\ card.prev = prev
      /\ card.prefix = prefix
  OBVIOUS
<1> HIDE DEF card, first
<1>8. OneMore(s.win, more, w, card, prev) /\ more \in [DOMAIN more -> WinCards]
  <2>1. s.win \in [DOMAIN s.win -> WinCards] /\ prev \in DOMAIN s.win \union {Null}
    BY <1>1, <1>4 DEF LinksOK
  <2> HIDE DEF w
  <2> QED
    BY <1>2, <1>6, <2>1, OneMoreIs
<1>9. Pointed(s.tree, grown, c, at, prev, w)
  <2>1. DOMAIN s.tree = Squares /\ \A b \in Squares : TreeOK(s.tree[b])
    BY <1>1 DEF LinksOK
  <2> HIDE DEF w
  <2> QED
    BY <1>1, <1>2, <2>1, PointedIs
<1>10. /\ own2 \in Owners(more) /\ PointsOK(grown, more, own2)
       /\ OwnersOK(grown, own2) /\ CardsOK(more, own2)
       /\ own2[w] = o /\ \A v \in DOMAIN s.win : own2[v] = own[v]
       /\ Ordered(grown, more, own2)
  <2>1. prev \in DOMAIN s.win \union {Null} /\ (prev # Null => own[prev] = o)
    BY <1>4
  <2>2. first \in Kids(s.win, own, <<c, at>>, prev) \union {Null}
    BY <1>5
  <2>3. own2 = With(own, w, <<c, at>>)
    OBVIOUS
  <2>4. prev # Null => own[prev] = <<c, at>>
    BY <2>1
  <2> HIDE DEF w, more, grown, own2
  <2>5. Grows(s.win, s.tree, own, c, at, prev, w, card, more, grown, own2)
    BY ONLY <1>1, <1>7, <1>8, <1>9, <2>1, <2>2, <2>3, <2>4,
            c \in Squares, at \in Nat DEF Grows
  <2>6. card.next = IF prev = Null THEN s.tree[c][at].point ELSE s.win[prev].nextWin
    BY <1>7 DEF first
  <2>7. Ordered(grown, more, own2)
    BY ONLY <1>1, <1>3, <2>5, <2>6, OneMoreOrdered
  <2> QED
    BY <2>5, <2>7, OneMoreLinked
<1>11. /\ m.prev = w /\ m.s.tree = grown /\ m.s.win = more /\ m.s.node = s.node
       /\ m.s.lengths = s.lengths
  <2> DEFINE linked == IF prev = Null THEN [s EXCEPT !.tree[c][at].point = w]
                       ELSE [s EXCEPT !.win[prev].nextWin = w]
             r == [linked EXCEPT !.overrun = @ \/ ~WinPlaceIsFree(s),
                                 !.win = With(@, w, card)]
  <2>1. m = [s |-> AddWinSet(r, granted), prev |-> w]
    BY DEF NewWin, card, first
  <2>2. /\ IsSmall(linked) /\ linked.tree = grown /\ linked.win = linkedWin
        /\ linked.node = s.node /\ linked.lengths = s.lengths
    <3>1. IsSmall(s)
      BY DEF MidAdd
    <3> HIDE DEF w
    <3>2. CASE prev = Null
      BY <3>1, <3>2, SmallWith DEF IsSmall, SmallFields
    <3>3. CASE prev # Null
      BY <3>1, <3>3, SmallWith DEF IsSmall, SmallFields
    <3> QED
      BY <3>2, <3>3
  <2> HIDE DEF linked, linkedWin, w, grown
  <2>3. IsSmall(r)
    BY <2>2, SmallWith
  <2>4. /\ r.tree = grown /\ r.win = more /\ r.node = s.node /\ r.lengths = s.lengths
    BY <2>2 DEF IsSmall, SmallFields
  <2> HIDE DEF r
  <2>5. LET q == AddWinSet(r, granted)
        IN  q.tree = r.tree /\ q.win = r.win /\ q.node = r.node /\ q.lengths = r.lengths
    BY <2>3, AddWinSetFrame
  <2> QED
    BY <2>1, <2>4, <2>5
<1> HIDE DEF w, more, grown, own2, m, linkedWin
<1>12. /\ \A v \in DOMAIN s.win : /\ Leaf(more, v) <=> Leaf(s.win, v)
                                  /\ Leaf(s.win, v) => PathOf(more, v) = PathOf(s.win, v)
       /\ Upto(s.win, own, o, pattern, k) \subseteq Upto(more, own2, o, pattern, k)
  <2>1. /\ \A v \in DOMAIN s.win : v \in Nat \X Nat
        /\ \A v \in DOMAIN s.win : own2[v] = own[v]
        /\ CardsOK(s.win, own) /\ OneMore(s.win, more, w, card, prev)
    BY <1>1, <1>2, <1>8, <1>10
  <2>2. /\ \A v \in DOMAIN s.win :
             /\ Leaf(more, v) <=> Leaf(s.win, v)
             /\ Leaf(s.win, v) => PathOf(more, v) = PathOf(s.win, v)
        /\ \A x, y : \A j \in 0..4 :
             Upto(s.win, own, x, y, j) \subseteq Upto(more, own2, x, y, j)
    BY ONLY <2>1, OneMorePaths
  <2>3. k \in 0..4
    OBVIOUS
  <2> QED
    BY <2>2, <2>3
<1>13. /\ DOMAIN more = DOMAIN s.win \union {w} /\ more[w] = card
       /\ \A v \in DOMAIN s.win : more[v].node = s.win[v].node
       /\ DOMAIN more \subseteq Nat \X Nat
  BY <1>2, <1>8 DEF OneMore
<1>14. w \in Upto(more, own2, o, pattern, k + 1)
  <2>1. Upto(more, own2, o, pattern, k + 1)
          = Beneath(more, own2, o, Upto(more, own2, o, pattern, k), pattern[k + 1])
    BY UptoStep
  <2> QED
    BY <1>1, <1>7, <1>10, <1>12, <1>13, <2>1 DEF Beneath
<1>15. k + 1 # 4 => ~ Leaf(more, w)
  BY <1>13, <1>14, UptoLeaf
<1>16. LinksOK(m.s)
  BY <1>1, <1>8, <1>9, <1>11 DEF LinksOK, Pointed
<1>17. Linked(m.s, own2)
  BY <1>10, <1>11 DEF Linked
<1> DEFINE new == IF k + 1 = 4 THEN w ELSE Null
<1>18. ASSUME NEW v \in DOMAIN more, Leaf(more, v), v # new
       PROVE  v \in DOMAIN s.win /\ Leaf(s.win, v) /\ v # Null
  <2>1. v # w
    BY <1>15, <1>18
  <2>2. v \in DOMAIN s.win
    BY <1>13, <2>1
  <2> QED
    BY <1>3, <1>12, <1>18, <2>2
<1>19. ASSUME NEW v \in DOMAIN s.win, ClaimOf(d, s, own, v), Leaf(s.win, v)
       PROVE  ClaimOf(d, m.s, own2, v)
  <2>1. own[v] \in Squares \X Nat /\ own[v][2] \in 1..Len(s.tree[own[v][1]])
    BY <1>1 DEF Owners, OwnersOK
  <2>2. grown[own[v][1]][own[v][2]].dist = s.tree[own[v][1]][own[v][2]].dist
    BY <1>9, <2>1 DEF Pointed
  <2>3. /\ PathOf(more, v) = PathOf(s.win, v) /\ own2[v] = own[v]
        /\ m.s.win[v].node = s.win[v].node /\ m.s.node = s.node
    BY <1>10, <1>11, <1>12, <1>13, <1>19
  <2> QED
    BY <1>11, <1>19, <2>2, <2>3, Zenon DEF ClaimOf
<1>20. Claims(d, m.s, own2, new)
  <2> HIDE DEF new
  <2>1. ASSUME NEW v \in DOMAIN m.s.win, Leaf(m.s.win, v), v # new
        PROVE  m.s.win[v].node \in DOMAIN m.s.node /\ ClaimOf(d, m.s, own2, v)
    <3>1. v \in DOMAIN s.win /\ Leaf(s.win, v) /\ v # Null
      BY <1>11, <1>18, <2>1
    <3>2. s.win[v].node \in DOMAIN s.node /\ ClaimOf(d, s, own, v)
      BY <1>1, <3>1 DEF Claims
    <3> QED
      BY <1>11, <1>13, <1>19, <3>1, <3>2
  <2>2. ASSUME NEW u \in DOMAIN m.s.win, NEW v \in DOMAIN m.s.win,
               Leaf(m.s.win, u), u # new, Leaf(m.s.win, v), v # new,
               m.s.win[u].node = m.s.win[v].node
        PROVE  u = v
    <3>1. /\ u \in DOMAIN s.win /\ Leaf(s.win, u) /\ u # Null
          /\ v \in DOMAIN s.win /\ Leaf(s.win, v) /\ v # Null
      BY <1>11, <1>18, <2>2
    <3>2. s.win[u].node = s.win[v].node
      BY <1>11, <1>13, <2>2, <3>1
    <3> QED
      BY <1>1, <3>1, <3>2 DEF Claims
  <2> QED
    BY <2>1, <2>2 DEF Claims
<1>21. PathsOK(d, m.s, own2, new)
  BY <1>10, <1>11, <1>16, <1>17, <1>20 DEF PathsOK
<1>22. o[2] \in 1..Len(m.s.tree[o[1]]) /\ m.s.tree[o[1]][o[2]].dist = dist
  BY <1>1, <1>9, <1>11 DEF Pointed
<1>23. NoStumps(m.s.win, IF k + 1 = 4 THEN Null ELSE w)
  <2>1. ASSUME NEW v \in DOMAIN s.win
        PROVE  Leaf(more, v) \/ more[v].nextWin # Null
    BY <1>1, <1>3, <1>8, <1>12 DEF NoStumps, OneMore
  <2>2. Leaf(more, w) \/ k + 1 # 4
    BY <1>13, <1>14, UptoLeaf
  <2> QED
    BY <1>11, <1>13, <2>1, <2>2 DEF NoStumps
<1>24. WalkTree(m.s.tree[c], dist) = at
  <2>1. TreeOK(s.tree[c]) /\ TreeOK(grown[c])
    BY <1>1, <1>9 DEF LinksOK, Pointed
  <2>2. \A j \in 1..Len(s.tree[c]) :
          /\ grown[c][j].dist = s.tree[c][j].dist
          /\ Child(grown[c][j], dist) = Child(s.tree[c][j], dist)
    BY <1>9 DEF Pointed, Child
  <2>3. Len(grown[c]) = Len(s.tree[c]) /\ Len(s.tree[c]) \in Nat
    BY <1>9, <2>1 DEF Pointed, TreeOK
  <2>4. at \in 1..Len(grown[c]) /\ grown[c][at].dist = dist
    BY <1>1, <2>2, <2>3
  <2>5. at = WalkTree(s.tree[c], dist)
    BY <1>1
  <2>6. Len(s.tree[c]) <= Len(grown[c])
    BY <2>3
  <2>7. WalkTree(grown[c], dist) = at
    BY ONLY <2>1, <2>2, <2>4, <2>5, <2>6, WalkTreeTo
  <2> QED
    BY <1>11, <2>7
<1>25. Reached(d, m.s, own2, o, dist, pattern, k + 1, m.prev)
  BY <1>11, <1>14, <1>21, <1>22, <1>23, <1>24 DEF Reached
<1> QED
  BY <1>25 DEF m

LEMMA NewWinFrame ==
  ASSUME NEW s, IsSmall(s), NEW c, NEW at, NEW prev, NEW prefix, NEW granted
  PROVE  LET m == NewWin(s, c, at, prev, prefix, granted)
         IN  m.s.lengths = s.lengths /\ (s.clear => m.s.clear)
<1> DEFINE w == WinPlace(s)
           first == IF prev = Null THEN s.tree[c][at].point ELSE s.win[prev].nextWin
           card == [prefix |-> prefix, next |-> first, nextWin |-> Null,
                    prev |-> prev, node |-> Null]
           linked == IF prev = Null THEN [s EXCEPT !.tree[c][at].point = w]
                     ELSE [s EXCEPT !.win[prev].nextWin = w]
           r == [linked EXCEPT !.overrun = @ \/ ~WinPlaceIsFree(s),
                               !.win = With(@, w, card)]
           m == NewWin(s, c, at, prev, prefix, granted)
<1>1. m = [s |-> AddWinSet(r, granted), prev |-> w]
  BY DEF NewWin
<1> HIDE DEF m, w, card
<1>2. IsSmall(linked) /\ linked.lengths = s.lengths /\ linked.clear = s.clear
  <2>1. CASE prev = Null
    BY <2>1, SmallWith DEF IsSmall, SmallFields
  <2>2. CASE prev # Null
    BY <2>2, SmallWith DEF IsSmall, SmallFields
  <2> QED
    BY <2>1, <2>2
<1> HIDE DEF linked
<1>3. IsSmall(r)
  BY <1>2, SmallWith
<1>4. r.lengths = s.lengths /\ r.clear = s.clear
  BY <1>2 DEF IsSmall, SmallFields
<1> HIDE DEF r
<1>5. LET q == AddWinSet(r, granted)
      IN  q.lengths = r.lengths /\ (r.clear => q.clear)
  BY <1>3, AddWinSetFrame
<1> QED
  BY <1>1, <1>4, <1>5 DEF m

(* Where an addition is after the first k levels. *)
Made(d, lengths, m, o, dist, pattern, k) ==
  /\ m.s.lengths = lengths
  /\ m.s.clear \/ \E own : Reached(d, m.s, own, o, dist, pattern, k, m.prev)

LEMMA ExtendPaths ==
  ASSUME NEW d, NEW s, MidAdd(s, 0), NEW own0, NEW c \in Squares, NEW at \in Nat,
         NEW dist, NEW path, path.depth \in 0..3,
         NEW pattern, \A j \in Suits : pattern[j] \in Seq(0..3), NEW granted,
         s.clear \/ Reached(d, s, own0, <<c, at>>, dist, pattern, path.depth, path.prev),
         NEW f, Extends(s, c, at, path, pattern, granted, f)
  PROVE  MidAdd(f[4].s, 4) /\ Made(d, s.lengths, f[4], <<c, at>>, dist, pattern, 4)
<1> DEFINE P(k) == k >= path.depth =>
                     Made(d, s.lengths, f[k], <<c, at>>, dist, pattern, k)
<1>1. \A k \in 0..4 : MidAdd(f[k].s, k)
  <2>1. path.depth \in 0..4
    OBVIOUS
  <2> QED
    BY <2>1, ExtendOK
<1>2. Made(d, s.lengths, [s |-> s, prev |-> path.prev], <<c, at>>, dist, pattern,
           path.depth)
  BY DEF Made
<1>3. P(0)
  <2>1. f[0] = [s |-> s, prev |-> path.prev]
    BY DEF Extends
  <2>2. CASE path.depth = 0
    BY <1>2, <2>1, <2>2
  <2>3. CASE path.depth # 0
    BY <2>3
  <2> QED
    BY <2>2, <2>3
<1>4. ASSUME NEW k \in 0..3, P(k) PROVE P(k + 1)
  <2>1. CASE k + 1 <= path.depth
    <3>1. f[k + 1] = [s |-> s, prev |-> path.prev]
      BY <2>1 DEF Extends
    <3>2. CASE k + 1 = path.depth
      BY <1>2, <3>1, <3>2
    <3>3. CASE k + 1 # path.depth
      BY <2>1, <3>3
    <3> QED
      BY <3>2, <3>3
  <2>2. CASE ~(k + 1 <= path.depth)
    <3>1. f[k + 1] = NewWin(f[k].s, c, at, f[k].prev, pattern[k + 1], granted)
      BY <2>2 DEF Extends
    <3>2. MidAdd(f[k].s, k) /\ IsSmall(f[k].s)
      BY <1>1 DEF MidAdd
    <3>3. Made(d, s.lengths, f[k], <<c, at>>, dist, pattern, k)
      <4>1. k >= path.depth
        BY <2>2
      <4> QED
        BY <1>4, <4>1
    <3>4. pattern[k + 1] \in Seq(0..3)
      BY DEF Suits
    <3>5. f[k + 1].s.lengths = s.lengths /\ (f[k].s.clear => f[k + 1].s.clear)
      BY <3>1, <3>2, <3>3, NewWinFrame DEF Made
    <3>6. CASE f[k].s.clear
      BY <3>5, <3>6 DEF Made
    <3>7. CASE ~f[k].s.clear
      <4>1. PICK own : Reached(d, f[k].s, own, <<c, at>>, dist, pattern, k, f[k].prev)
        BY <3>3, <3>7 DEF Made
      <4>2. LET m == NewWin(f[k].s, c, at, f[k].prev, pattern[k + 1], granted)
            IN  \E own2 : Reached(d, m.s, own2, <<c, at>>, dist, pattern, k + 1, m.prev)
        BY <3>2, <3>4, <3>7, <4>1, NewWinPaths
      <4> QED
        BY <3>1, <3>5, <4>2 DEF Made
    <3> QED
      BY <3>6, <3>7
  <2> QED
    BY <2>1, <2>2
<1> HIDE DEF P
<1>5. P(1)
  BY <1>3, <1>4
<1>6. P(2)
  BY <1>4, <1>5
<1>7. P(3)
  BY <1>4, <1>6
<1>8. P(4)
  BY <1>4, <1>7
<1> QED
  BY <1>1, <1>8 DEF P

LEMMA NewNodeFrame ==
  ASSUME NEW made, IsSmall(made.s), NEW lo, NEW hi, NEW granted
  PROVE  LET s == made.s
             r == NewNode(made, lo, hi, granted)
         IN  /\ r.tree = s.tree /\ r.lengths = s.lengths
             /\ s.clear => r.clear
<1> DEFINE s == made.s
           n == NodePlace(s)
           win == [s.win EXCEPT ![made.prev].node = n]
           node == With(s.node, n, [lo |-> lo, hi |-> hi])
           m == [s EXCEPT !.overrun = @ \/ ~NodePlaceIsFree(s),
                          !.win[made.prev].node = n, !.node = node]
           r == NewNode(made, lo, hi, granted)
<1>1. r = AddNodeSet(m, granted)
  BY DEF NewNode
<1> HIDE DEF n, node, r
<1>2. IsSmall(m)
  BY SmallWith
<1>3. /\ m.tree = s.tree /\ m.lengths = s.lengths /\ m.clear = s.clear
      /\ m.win = win /\ m.node = node
  BY DEF IsSmall, SmallFields
<1> HIDE DEF m
<1>4. LET q == AddNodeSet(m, granted)
      IN  /\ q.tree = m.tree /\ q.win = m.win /\ q.node = m.node
          /\ q.lengths = m.lengths /\ (m.clear => q.clear)
  BY <1>2, AddNodeSetFrame
<1> QED
  BY <1>1, <1>3, <1>4 DEF n, node, r

LEMMA NewNodeWrites ==
  ASSUME NEW made, IsSmall(made.s), NEW lo, NEW hi, NEW granted
  PROVE  LET s == made.s
             n == NodePlace(s)
             r == NewNode(made, lo, hi, granted)
         IN  /\ r.win = [s.win EXCEPT ![made.prev].node = n]
             /\ r.node = With(s.node, n, [lo |-> lo, hi |-> hi])
<1> DEFINE s == made.s
           n == NodePlace(s)
           win == [s.win EXCEPT ![made.prev].node = n]
           node == With(s.node, n, [lo |-> lo, hi |-> hi])
           m == [s EXCEPT !.overrun = @ \/ ~NodePlaceIsFree(s),
                          !.win[made.prev].node = n, !.node = node]
           r == NewNode(made, lo, hi, granted)
<1>1. r = AddNodeSet(m, granted)
  BY DEF NewNode
<1> HIDE DEF n, node, r
<1>2. IsSmall(m)
  BY SmallWith
<1>3. /\ m.tree = s.tree /\ m.lengths = s.lengths /\ m.clear = s.clear
      /\ m.win = win /\ m.node = node
  BY DEF IsSmall, SmallFields
<1> HIDE DEF m
<1>4. LET q == AddNodeSet(m, granted)
      IN  /\ q.tree = m.tree /\ q.win = m.win /\ q.node = m.node
          /\ q.lengths = m.lengths /\ (m.clear => q.clear)
  BY <1>2, AddNodeSetFrame
<1> QED
  BY <1>1, <1>3, <1>4 DEF n, node, r

LEMMA FitsSame ==
  ASSUME NEW d, NEW x, NEW y, \A j \in Suits : x[j] = y[j], NEW lo, NEW hi,
         NEW c, NEW dist, True(d, [pattern |-> x, lo |-> lo, hi |-> hi], c, dist)
  PROVE  True(d, [pattern |-> y, lo |-> lo, hi |-> hi], c, dist)
<1>1. \A order : Fits(y, order) => Fits(x, order)
  BY DEF Fits
<1> QED
  BY <1>1 DEF True

LEMMA UptoSame ==
  ASSUME NEW win, NEW more, DOMAIN more = DOMAIN win,
         \A v \in DOMAIN win :
           more[v].prefix = win[v].prefix /\ more[v].prev = win[v].prev,
         NEW own, NEW o, NEW pattern, NEW k
  PROVE  Upto(more, own, o, pattern, k) = Upto(win, own, o, pattern, k)
<1>1. \A prevs, prefix :
        Beneath(more, own, o, prevs, prefix) = Beneath(win, own, o, prevs, prefix)
  BY DEF Beneath
<1> DEFINE l1 == Beneath(win, own, o, {Null}, pattern[1])
           l2 == Beneath(win, own, o, l1, pattern[2])
           l3 == Beneath(win, own, o, l2, pattern[3])
           m1 == Beneath(more, own, o, {Null}, pattern[1])
           m2 == Beneath(more, own, o, m1, pattern[2])
           m3 == Beneath(more, own, o, m2, pattern[3])
<1>2. m1 = l1
  BY <1>1
<1>3. m2 = l2
  BY <1>1, <1>2
<1>4. m3 = l3
  BY <1>1, <1>3
<1>5. Beneath(more, own, o, m3, pattern[4]) = Beneath(win, own, o, l3, pattern[4])
  BY <1>1, <1>4
<1> HIDE DEF l1, l2, l3, m1, m2, m3
<1>6. Upto(more, own, o, pattern, k)
        = IF k = 0 THEN {Null} ELSE IF k = 1 THEN m1 ELSE IF k = 2 THEN m2
          ELSE IF k = 3 THEN m3 ELSE Beneath(more, own, o, m3, pattern[4])
  BY Zenon DEF Upto, m1, m2, m3
<1>7. Upto(win, own, o, pattern, k)
        = IF k = 0 THEN {Null} ELSE IF k = 1 THEN l1 ELSE IF k = 2 THEN l2
          ELSE IF k = 3 THEN l3 ELSE Beneath(win, own, o, l3, pattern[4])
  BY Zenon DEF Upto, l1, l2, l3
<1> QED
  BY <1>2, <1>3, <1>4, <1>5, <1>6, <1>7

(* The bounds of n answer whatever lo and hi answer. *)
Settles(n, lo, hi) ==
  \A limit \in Int : lo > limit \/ hi <= limit => n.lo > limit \/ n.hi <= limit

(* A path has been made for bounds that are true of it. *)
Tops(d, made, own, o, dist, pattern, lo, hi) ==
  /\ MidAdd(made.s, 4) /\ ~made.s.clear
  /\ Reached(d, made.s, own, o, dist, pattern, 4, made.prev)
  /\ lo \in Int /\ hi \in Int
  /\ True(d, [pattern |-> pattern, lo |-> lo, hi |-> hi], o[1], dist)

LEMMA NewNodePaths ==
  ASSUME NEW d, NEW made, NEW own, NEW o, NEW dist, NEW pattern, NEW lo, NEW hi,
         Tops(d, made, own, o, dist, pattern, lo, hi), NEW granted,
         NEW r, r = NewNode(made, lo, hi, granted)
  PROVE  /\ PathsOK(d, r, own, Null) /\ NoStumps(r.win, Null)
         /\ WalkTree(r.tree[o[1]], dist) = o[2] /\ r.tree[o[1]][o[2]].dist = dist
         /\ made.prev \in Upto(r.win, own, o, pattern, 4)
         /\ Settles(r.node[r.win[made.prev].node], lo, hi)
<1> DEFINE s == made.s
           w == made.prev
           n == NodePlace(s)
<1>0. /\ MidAdd(made.s, 4) /\ ~made.s.clear
      /\ Reached(d, made.s, own, o, dist, pattern, 4, made.prev)
      /\ lo \in Int /\ hi \in Int
      /\ True(d, [pattern |-> pattern, lo |-> lo, hi |-> hi], o[1], dist)
  BY DEF Tops
<1> USE <1>0
<1>1. /\ LinksOK(s) /\ Linked(s, own) /\ Claims(d, s, own, w)
      /\ own \in Owners(s.win) /\ PointsOK(s.tree, s.win, own)
      /\ OwnersOK(s.tree, own) /\ CardsOK(s.win, own)
      /\ s.tree[o[1]][o[2]].dist = dist /\ w \in Upto(s.win, own, o, pattern, 4)
      /\ Ordered(s.tree, s.win, own) /\ NoStumps(s.win, Null)
      /\ WalkTree(s.tree[o[1]], dist) = o[2]
  BY DEF Reached, PathsOK, Linked
<1>2. /\ IsSmall(s) /\ NodesOK(s) /\ WinsOK(s)
  BY DEF MidAdd, TempOK
<1>3. /\ n \in Links /\ n \notin DOMAIN s.node
  <2>1. n = <<s.nSlab, s.nSize>> /\ s.nSlab \in Nat /\ s.nSize \in Nat
    BY <1>2 DEF NodePlace, NodesOK
  <2> HIDE DEF n
  <2>2. n \notin DOMAIN s.node
    BY <1>2, <2>1 DEF NodesOK
  <2>3. n \in Int \X Int
    BY <2>1
  <2> QED
    BY <2>2, <2>3 DEF Links
<1>4. /\ w \in DOMAIN s.win /\ own[w] = o
      /\ Leaf(s.win, w) /\ \A j \in Suits : PathOf(s.win, w)[j] = pattern[j]
  <2>1. 4 \in 1..4
    OBVIOUS
  <2>2. w \in DOMAIN s.win /\ own[w] = o
    BY <1>1, <2>1, UptoFacts
  <2>3. DOMAIN s.win \subseteq Nat \X Nat
    BY <1>2 DEF WinsOK
  <2>4. Leaf(s.win, w) /\ \A j \in Suits : PathOf(s.win, w)[j] = pattern[j]
    BY <1>1, <2>1, <2>3, UptoLeaf
  <2> QED
    BY <2>2, <2>4
<1>5. /\ r.tree = s.tree /\ r.lengths = s.lengths
      /\ r.win = [s.win EXCEPT ![w].node = n]
      /\ r.node = With(s.node, n, [lo |-> lo, hi |-> hi])
  BY <1>2, NewNodeFrame, NewNodeWrites
<1> HIDE DEF s, w, n
<1>6. /\ DOMAIN r.win = DOMAIN s.win
      /\ \A v \in DOMAIN s.win :
           /\ r.win[v] \in WinCards
           /\ r.win[v].prefix = s.win[v].prefix /\ r.win[v].next = s.win[v].next
           /\ r.win[v].prev = s.win[v].prev /\ r.win[v].nextWin = s.win[v].nextWin
           /\ r.win[v].node = IF v = w THEN n ELSE s.win[v].node
  <2>1. DOMAIN r.win = DOMAIN s.win
    BY <1>5
  <2>2. ASSUME NEW v \in DOMAIN s.win
        PROVE  /\ r.win[v] \in WinCards
               /\ r.win[v].prefix = s.win[v].prefix /\ r.win[v].next = s.win[v].next
               /\ r.win[v].prev = s.win[v].prev /\ r.win[v].nextWin = s.win[v].nextWin
               /\ r.win[v].node = IF v = w THEN n ELSE s.win[v].node
    <3>1. s.win[v] \in WinCards
      BY <1>1 DEF LinksOK
    <3>2. CASE v = w
      <4>1. r.win[v] = [s.win[v] EXCEPT !.node = n]
        BY <1>5, <3>2
      <4> QED
        BY <1>3, <3>1, <3>2, <4>1 DEF WinCards
    <3>3. CASE v # w
      <4>1. r.win[v] = s.win[v]
        BY <1>5, <3>3
      <4> QED
        BY <3>1, <3>3, <4>1
    <3> QED
      BY <3>2, <3>3
  <2> QED
    BY <2>1, <2>2
<1>7. /\ DOMAIN r.node = DOMAIN s.node \union {n}
      /\ r.node[n] = [lo |-> lo, hi |-> hi]
      /\ \A x \in DOMAIN s.node : r.node[x] = s.node[x]
      /\ r.node = [x \in DOMAIN r.node |-> r.node[x]]
  BY <1>3, <1>5 DEF With
<1>8. LinksOK(r)
  <2>1. r.win \in [DOMAIN r.win -> WinCards]
    <3>1. r.win = [v \in DOMAIN r.win |-> r.win[v]]
      BY <1>1, <1>5 DEF LinksOK
    <3> QED
      BY <1>6, <3>1
  <2>2. r.node \in [DOMAIN r.node -> Bounds]
    <3>1. [lo |-> lo, hi |-> hi] \in Bounds
      BY DEF Bounds
    <3>2. \A x \in DOMAIN s.node : s.node[x] \in Bounds
      BY <1>1 DEF LinksOK
    <3> QED
      BY <1>7, <3>1, <3>2
  <2> QED
    BY <1>1, <1>5, <2>1, <2>2 DEF LinksOK
<1>9. Linked(r, own)
  <2>1. own \in Owners(r.win)
    BY <1>1, <1>6 DEF Owners
  <2>2. PointsOK(r.tree, r.win, own)
    <3>1. SUFFICES ASSUME NEW c \in Squares, NEW i \in 1..Len(s.tree[c]), NEW p,
                          p = s.tree[c][i].point, p # Null
                   PROVE  p \in DOMAIN r.win /\ r.win[p].prev = Null /\ own[p] = <<c, i>>
      BY <1>5 DEF PointsOK
    <3>2. p \in DOMAIN s.win /\ s.win[p].prev = Null /\ own[p] = <<c, i>>
      BY ONLY <1>1, <3>1, c \in Squares, i \in 1..Len(s.tree[c]) DEF PointsOK
    <3> QED
      BY <1>6, <3>2
  <2>3. CardsOK(r.win, own)
    BY <1>1, <1>6 DEF CardsOK
  <2> QED
    BY <1>1, <1>5, <2>1, <2>2, <2>3 DEF Linked
<1>10. \A v \in DOMAIN s.win : /\ Leaf(r.win, v) <=> Leaf(s.win, v)
                               /\ Leaf(s.win, v) => PathOf(r.win, v) = PathOf(s.win, v)
  BY <1>1, <1>6, LeafSame
<1>11. ASSUME NEW v \in DOMAIN s.win, Leaf(s.win, v), v # w
       PROVE  /\ r.win[v].node \in DOMAIN s.node /\ r.win[v].node = s.win[v].node
              /\ ClaimOf(d, r, own, v)
  <2>1. s.win[v].node \in DOMAIN s.node /\ ClaimOf(d, s, own, v)
    BY <1>1, <1>11 DEF Claims
  <2>2. r.win[v].node = s.win[v].node
    BY <1>6, <1>11
  <2>3. /\ r.node[r.win[v].node] = s.node[s.win[v].node]
        /\ PathOf(r.win, v) = PathOf(s.win, v)
    BY <1>7, <1>10, <1>11, <2>1, <2>2
  <2> QED
    BY <1>5, <2>1, <2>2, <2>3, Zenon DEF ClaimOf
<1>12. r.win[w].node = n /\ ClaimOf(d, r, own, w)
  <2>1. r.win[w].node = n
    BY <1>4, <1>6
  <2>2. r.node[r.win[w].node].lo = lo /\ r.node[r.win[w].node].hi = hi
    BY <1>7, <2>1
  <2>3. \A j \in Suits : PathOf(r.win, w)[j] = pattern[j]
    BY <1>4, <1>10
  <2>4. True(d, [pattern |-> PathOf(r.win, w), lo |-> lo, hi |-> hi], o[1], dist)
    BY <2>3, FitsSame
  <2>5. own[w] = o /\ r.tree[o[1]][o[2]].dist = dist
    BY <1>1, <1>4, <1>5
  <2> QED
    BY <2>1, <2>2, <2>4, <2>5 DEF ClaimOf
<1>13. Claims(d, r, own, Null)
  <2>1. ASSUME NEW v \in DOMAIN r.win, Leaf(r.win, v), v # Null
        PROVE  r.win[v].node \in DOMAIN r.node /\ ClaimOf(d, r, own, v)
    <3>1. v \in DOMAIN s.win /\ Leaf(s.win, v)
      BY <1>6, <1>10, <2>1
    <3> QED
      BY <1>7, <1>11, <1>12, <3>1
  <2>2. ASSUME NEW u \in DOMAIN r.win, NEW v \in DOMAIN r.win,
               Leaf(r.win, u), Leaf(r.win, v), r.win[u].node = r.win[v].node
        PROVE  u = v
    <3>1. /\ u \in DOMAIN s.win /\ Leaf(s.win, u)
          /\ v \in DOMAIN s.win /\ Leaf(s.win, v)
      BY <1>6, <1>10, <2>2
    <3>2. CASE u # w /\ v # w
      BY <1>1, <1>11, <2>2, <3>1, <3>2 DEF Claims
    <3>3. CASE u = w \/ v = w
      BY <1>3, <1>11, <1>12, <2>2, <3>1, <3>3
    <3> QED
      BY <3>2, <3>3
  <2> QED
    BY <2>1, <2>2 DEF Claims
<1>14. Ordered(r.tree, r.win, own)
  <2>1. \A v \in DOMAIN s.win :
          FirstOf(r.tree, r.win, own, v) = FirstOf(s.tree, s.win, own, v)
    <3>1. SUFFICES ASSUME NEW v \in DOMAIN s.win
                   PROVE  FirstOf(r.tree, r.win, own, v) = FirstOf(s.tree, s.win, own, v)
      OBVIOUS
    <3>2. r.win[v].prev = s.win[v].prev
      BY <1>6, <3>1
    <3>3. CASE s.win[v].prev = Null
      BY <1>5, <3>2, <3>3 DEF FirstOf
    <3>4. CASE s.win[v].prev # Null
      <4>1. s.win[v].prev \in DOMAIN s.win
        BY <1>1, <3>1, <3>4 DEF CardsOK
      <4>2. r.win[s.win[v].prev].nextWin = s.win[s.win[v].prev].nextWin
        BY <1>6, <4>1
      <4> QED
        BY <3>2, <3>4, <4>2 DEF FirstOf
    <3> QED
      BY <3>3, <3>4
  <2> QED
    BY <1>1, <1>6, <2>1 DEF Ordered
<1>15. NoStumps(r.win, Null)
  BY <1>1, <1>6, <1>10 DEF NoStumps
<1>16. w \in Upto(r.win, own, o, pattern, 4)
  <2>1. PICK new, old : new = r.win /\ old = s.win
    OBVIOUS
  <2>2. /\ DOMAIN new = DOMAIN old
        /\ \A v \in DOMAIN old : new[v].prefix = old[v].prefix /\ new[v].prev = old[v].prev
    BY <1>6, <2>1
  <2>3. Upto(new, own, o, pattern, 4) = Upto(old, own, o, pattern, 4)
    BY ONLY <2>2, UptoSame
  <2> QED
    BY <1>1, <2>1, <2>3
<1>17. r.node[r.win[w].node].lo = lo /\ r.node[r.win[w].node].hi = hi
  BY <1>7, <1>12
<1>18. PathsOK(d, r, own, Null)
  BY <1>8, <1>9, <1>13, <1>14 DEF PathsOK
<1> QED
  BY <1>1, <1>5, <1>15, <1>16, <1>17, <1>18 DEF w, Settles

(* The bounds of a leaf w meet others that are true of its path. *)
Meet(d, s, own, o, dist, pattern, w, lo, hi) ==
  /\ IsSmall(s) /\ DOMAIN s.win \subseteq Nat \X Nat
  /\ PathsOK(d, s, own, Null) /\ s.tree[o[1]][o[2]].dist = dist
  /\ w \in Upto(s.win, own, o, pattern, 4) /\ lo \in Int /\ hi \in Int
  /\ True(d, [pattern |-> pattern, lo |-> lo, hi |-> hi], o[1], dist)

(* Tightening one node: its new bounds, and what they settle.              *)
NodeTightened(f, n, lo, hi) ==
  [f EXCEPT ![n].lo = IF lo > @ THEN lo ELSE @, ![n].hi = IF hi < @ THEN hi ELSE @]

LEMMA TightenNode ==
  ASSUME NEW D, NEW f \in [D -> Bounds], NEW n \in D,
         NEW lo \in Int, NEW hi \in Int, NEW g, g = NodeTightened(f, n, lo, hi)
  PROVE  /\ g \in [D -> Bounds] /\ \A v \in D : v # n => g[v] = f[v]
         /\ g[n].lo \in {lo, f[n].lo} /\ g[n].hi \in {hi, f[n].hi}
         /\ Settles(g[n], lo, hi)
<1>1. PICK a \in Int, b \in Int : f[n] = [lo |-> a, hi |-> b]
  BY DEF Bounds
<1> DEFINE above(k) == IF lo > k THEN lo ELSE k
           under(k) == IF hi < k THEN hi ELSE k
<1>2. PICK x : x = above(a)
  OBVIOUS
<1>3. PICK y : y = under(b)
  OBVIOUS
<1>4. /\ x \in Int /\ y \in Int /\ (x = lo \/ x = a) /\ (y = hi \/ y = b)
      /\ \A limit \in Int : lo > limit \/ hi <= limit => x > limit \/ y <= limit
  BY ONLY lo \in Int, hi \in Int, a \in Int, b \in Int, <1>2, <1>3
<1>5. PICK m : m = [lo |-> x, hi |-> y]
  OBVIOUS
<1>6. g = [f EXCEPT ![n] = m]
  <2>1. g = [f EXCEPT ![n].lo = above(@), ![n].hi = under(@)]
    BY Zenon DEF NodeTightened
  <2> HIDE DEF above, under
  <2>2. PICK one : one = [f EXCEPT ![n].lo = above(@)]
    OBVIOUS
  <2>3. g = [one EXCEPT ![n].hi = under(@)]
    BY ONLY <2>1, <2>2, Zenon
  <2>4. DOMAIN f = D /\ f = [v \in D |-> f[v]]
    OBVIOUS
  <2>5. /\ DOMAIN one = D /\ one[n] = [f[n] EXCEPT !.lo = above(@)]
        /\ \A v \in D : v # n => one[v] = f[v]
    BY ONLY n \in D, <2>2, <2>4
  <2>6. one[n] = [lo |-> x, hi |-> b]
    BY ONLY <1>1, <1>2, <2>5
  <2>7. DOMAIN g = D /\ g[n] = [one[n] EXCEPT !.hi = under(@)]
        /\ \A v \in D : v # n => g[v] = f[v]
    BY ONLY n \in D, <2>3, <2>5
  <2>8. g[n] = m
    BY ONLY <1>3, <1>5, <2>6, <2>7
  <2> QED
    BY ONLY n \in D, <2>3, <2>4, <2>5, <2>7, <2>8
<1> HIDE DEF above, under
<1>7. m \in Bounds /\ m.lo = x /\ m.hi = y
  BY ONLY <1>4, <1>5 DEF Bounds
<1>8. g \in [D -> Bounds] /\ g[n] = m /\ \A v \in D : v # n => g[v] = f[v]
  BY <1>6, <1>7
<1>9. Settles(m, lo, hi)
  BY ONLY <1>4, <1>7 DEF Settles
<1> QED
  BY ONLY <1>1, <1>4, <1>7, <1>8, <1>9

LEMMA TightenPaths ==
  ASSUME NEW d, NEW s, NEW own, NEW o, NEW dist, NEW pattern, NEW w, NEW lo, NEW hi,
         Meet(d, s, own, o, dist, pattern, w, lo, hi),
         NEW r, r = Tighten(s, s.win[w].node, lo, hi)
  PROVE  /\ PathsOK(d, r, own, Null) /\ r.lengths = s.lengths
         /\ r.tree = s.tree /\ r.win = s.win
         /\ Settles(r.node[r.win[w].node], lo, hi)
<1>0. /\ IsSmall(s) /\ DOMAIN s.win \subseteq Nat \X Nat
      /\ PathsOK(d, s, own, Null) /\ s.tree[o[1]][o[2]].dist = dist
      /\ w \in Upto(s.win, own, o, pattern, 4) /\ lo \in Int /\ hi \in Int
      /\ True(d, [pattern |-> pattern, lo |-> lo, hi |-> hi], o[1], dist)
  BY DEF Meet
<1> USE <1>0
<1>1. LinksOK(s) /\ Linked(s, own) /\ Claims(d, s, own, Null)
  BY DEF PathsOK
<1>2. /\ w \in DOMAIN s.win /\ own[w] = o /\ w # Null
      /\ Leaf(s.win, w) /\ \A j \in Suits : PathOf(s.win, w)[j] = pattern[j]
  <2>1. 4 \in 1..4
    OBVIOUS
  <2>2. w \in DOMAIN s.win /\ own[w] = o
    BY <2>1, UptoFacts
  <2>3. Leaf(s.win, w) /\ \A j \in Suits : PathOf(s.win, w)[j] = pattern[j]
    BY <2>1, UptoLeaf
  <2> QED
    BY <2>2, <2>3, NullIsNoPlace
<1>3. PICK n : n = s.win[w].node
  OBVIOUS
<1>4. n \in DOMAIN s.node /\ ClaimOf(d, s, own, w)
  BY <1>1, <1>2, <1>3 DEF Claims
<1>5. s.node \in [DOMAIN s.node -> Bounds]
  BY <1>1, SMTT(20) DEF LinksOK
<1>6. /\ r.tree = s.tree /\ r.win = s.win /\ r.lengths = s.lengths
      /\ r.node = NodeTightened(s.node, n, lo, hi)
  BY <1>3 DEF Tighten, IsSmall, SmallFields, NodeTightened
<1>7. /\ r.node \in [DOMAIN s.node -> Bounds]
      /\ \A v \in DOMAIN s.node : v # n => r.node[v] = s.node[v]
      /\ r.node[n].lo \in {lo, s.node[n].lo} /\ r.node[n].hi \in {hi, s.node[n].hi}
      /\ Settles(r.node[n], lo, hi)
  BY ONLY <1>0, <1>4, <1>5, <1>6, TightenNode
<1>8. LinksOK(r)
  BY <1>1, <1>6, <1>7 DEF LinksOK
<1>9. Linked(r, own)
  BY <1>1, <1>6, Zenon DEF Linked
<1>10. ASSUME NEW v \in DOMAIN s.win, Leaf(s.win, v), v # Null
       PROVE  s.win[v].node \in DOMAIN r.node /\ ClaimOf(d, r, own, v)
  <2>1. s.win[v].node \in DOMAIN s.node /\ ClaimOf(d, s, own, v)
    BY <1>1, <1>10 DEF Claims
  <2>2. CASE v = w
    <3>1. PICK path : path = PathOf(s.win, w)
      OBVIOUS
    <3>2. PICK b : b = s.node[n]
      OBVIOUS
    <3>3. True(d, [pattern |-> path, lo |-> b.lo, hi |-> b.hi], o[1], dist)
      BY <1>2, <1>3, <1>4, <3>1, <3>2 DEF ClaimOf
    <3>4. True(d, [pattern |-> path, lo |-> lo, hi |-> hi], o[1], dist)
      BY <1>2, <3>1, FitsSame
    <3>5. PICK low, high : /\ low = r.node[n].lo /\ high = r.node[n].hi
      OBVIOUS
    <3>6. low \in {lo, b.lo} /\ high \in {hi, b.hi}
      BY <1>7, <3>2, <3>5
    <3>7. True(d, [pattern |-> path, lo |-> low, hi |-> high], o[1], dist)
      BY <3>3, <3>4, <3>6 DEF True
    <3>8. /\ own[v] = o /\ r.tree[o[1]][o[2]].dist = dist
          /\ PathOf(r.win, v) = path /\ r.win[v].node = n
      BY <1>2, <1>3, <1>6, <2>2, <3>1, Zenon
    <3>9. ClaimOf(d, r, own, v)
      BY ONLY <3>5, <3>7, <3>8 DEF ClaimOf
    <3> QED
      BY <1>7, <2>1, <3>9
  <2>3. CASE v # w
    <3>1. s.win[v].node # n
      BY <1>1, <1>2, <1>3, <1>10, <2>3 DEF Claims
    <3>2. r.node[s.win[v].node] = s.node[s.win[v].node]
      BY <1>7, <2>1, <3>1
    <3> QED
      BY <1>6, <1>7, <2>1, <3>2, Zenon DEF ClaimOf
  <2> QED
    BY <2>2, <2>3
<1>11. Claims(d, r, own, Null)
  BY <1>1, <1>6, <1>10, Zenon DEF Claims
<1>12. PathsOK(d, r, own, Null)
  BY <1>1, <1>6, <1>8, <1>9, <1>11, Zenon DEF PathsOK
<1> QED
  BY <1>3, <1>6, <1>7, <1>12

LEMMA InsertLenFrame ==
  ASSUME NEW s, IsSmall(s), NEW c, NEW key, NEW granted
  PROVE  InsertLen(s, c, key, granted).s.lengths = s.lengths
<1> DEFINE tree == s.tree[c]
           i == WalkTree(tree, key)
           new == Len(tree) + 1
           linked == IF key < tree[i].dist THEN [tree EXCEPT ![i].left = new]
                     ELSE [tree EXCEPT ![i].right = new]
           m == [s EXCEPT !.tree[c] = Append(linked, [Root EXCEPT !.dist = key]),
                          !.overrun = @ \/ s.lenInd[c] > LSize]
<1>1. InsertLen(s, c, key, granted).s
        = IF tree[i].dist = key THEN s ELSE AddLenSet(m, c, granted)
  BY DEF InsertLen
<1> HIDE DEF linked, i, tree
<1>2. IsSmall(m)
  BY SmallWith
<1>3. m.lengths = s.lengths
  BY DEF IsSmall, SmallFields
<1> HIDE DEF m
<1> QED
  BY <1>1, <1>2, <1>3, AddLenSetFrame

(* What an addition of these bounds leaves for a lookup to find.           *)
Holds(d, s, o, dist, pattern, lo, hi) ==
  /\ NoStumps(s.win, Null)
  /\ WalkTree(s.tree[o[1]], dist) = o[2] /\ s.tree[o[1]][o[2]].dist = dist
  /\ \E own : /\ PathsOK(d, s, own, Null)
             /\ \E w \in Upto(s.win, own, o, pattern, 4) :
                  Settles(s.node[s.win[w].node], lo, hi)

LEMMA HoldsIsFound ==
  ASSUME NEW d, NEW s, IsSmall(s), DOMAIN s.win \subseteq Nat \X Nat, NEW p,
         NEW at, NEW pattern, Fits(pattern, p.order), NEW lo, NEW hi,
         Holds(d, s, <<<<p.trick, p.hand>>, at>>, p.dist, pattern, lo, hi),
         NEW limit \in Int, lo > limit \/ hi <= limit
  PROVE  LookupSmall(s, p, limit).says # "miss"
<1> DEFINE c == <<p.trick, p.hand>>
           o == <<c, at>>
           point == s.tree[c][at].point
<1>1. /\ NoStumps(s.win, Null)
      /\ WalkTree(s.tree[c], p.dist) = at /\ s.tree[c][at].dist = p.dist
  BY DEF Holds
<1>2. PICK own : /\ PathsOK(d, s, own, Null)
                 /\ \E w \in Upto(s.win, own, o, pattern, 4) :
                      Settles(s.node[s.win[w].node], lo, hi)
  BY DEF Holds
<1>3. PICK w \in Upto(s.win, own, o, pattern, 4) :
        LET n == s.node[s.win[w].node] IN n.lo > limit \/ n.hi <= limit
  BY <1>2 DEF Settles
<1>4. Verdict(s.node[s.win[w].node], limit) # "miss"
  <2>1. w \in DOMAIN s.win /\ Leaf(s.win, w)
    <3>1. 4 \in 1..4
      OBVIOUS
    <3> QED
      BY <1>3, <3>1, UptoFacts, UptoLeaf
  <2>2. w # Null
    BY <2>1, NullIsNoPlace
  <2>3. s.win[w].node \in DOMAIN s.node /\ s.node \in [DOMAIN s.node -> Bounds]
    BY <1>2, <2>1, <2>2 DEF PathsOK, Claims, LinksOK
  <2> DEFINE n == s.node[s.win[w].node]
  <2>4. n.lo \in Int /\ n.hi \in Int
    BY <2>3 DEF Bounds
  <2>5. n.lo > limit \/ n.hi <= limit
    BY <1>3
  <2> HIDE DEF n
  <2>6. Verdict(n, limit) # "miss"
    BY <2>4, <2>5 DEF Verdict
  <2> QED
    BY <2>6 DEF n
<1>5. point # Null /\ FindSop(s, point, p.order, limit) # "miss"
  <2>1. o[1] = c /\ o[2] = at
    OBVIOUS
  <2> HIDE DEF o, c
  <2>2. LET q == s.tree[o[1]][o[2]].point
        IN  q # Null /\ FindSop(s, q, p.order, limit) # "miss"
    BY <1>1, <1>2, <1>3, <1>4, FindSopFinds
  <2> QED
    BY <2>1, <2>2
<1> QED
  BY <1>1, <1>5 DEF LookupSmall

(* An addition of a true entry leaves true entries, this one among them,   *)
(* or a table made anew.                                                   *)
(* What an addition may rely on, and that it leaves its entry behind.      *)
MayAdd(d, s, p, key, pattern, lo, hi) ==
  /\ SmallOK(d, s) /\ <<p.trick, p.hand>> \in Squares
  /\ key \in Nat /\ s.lengths[p.trick] = key
  /\ \A j \in Suits : pattern[j] \in Seq(0..3)
  /\ lo \in Int /\ hi \in Int
  /\ True(d, [pattern |-> pattern, lo |-> lo, hi |-> hi], <<p.trick, p.hand>>, key)

Added(d, s, p, key, pattern, lo, hi, r) ==
  /\ SmallOK(d, r) /\ r.lengths = s.lengths
  /\ \/ r.win = <<>>
     \/ \E at : Holds(d, r, <<<<p.trick, p.hand>>, at>>, key, pattern, lo, hi)

LEMMA SmallAdds ==
  ASSUME NEW d, NEW s, NEW p, NEW key, NEW lens, NEW lo, NEW hi, NEW pattern,
         Pattern(p.order, lens) = pattern, MayAdd(d, s, p, key, pattern, lo, hi),
         NEW granted, NEW new, new = AddSmall(s, p, lens, lo, hi, granted)
  PROVE  Added(d, s, p, key, pattern, lo, hi, new)
<1> DEFINE c == <<p.trick, p.hand>>
           i == InsertLen(s, c, key, granted)
           o == <<c, i.at>>
           point == i.s.tree[c][i.at].point
           path == ExistingPath(i.s.win, point, pattern)
           r == AddBelow(i, c, pattern, lo, hi, granted)
<1>0. /\ SmallOK(d, s) /\ <<p.trick, p.hand>> \in Squares
      /\ key \in Nat /\ s.lengths[p.trick] = key
      /\ \A j \in Suits : pattern[j] \in Seq(0..3)
      /\ lo \in Int /\ hi \in Int
      /\ True(d, [pattern |-> pattern, lo |-> lo, hi |-> hi], <<p.trick, p.hand>>, key)
  BY DEF MayAdd
<1> USE <1>0
<1>1. IsSmall(s) /\ SlabsOK(s) /\ NoStumps(s.win, Null)
  BY DEF SmallOK, SlabsOK
<1>2. PICK own : PathsOK(d, s, own, Null)
  BY DEF SmallOK
<1>3. /\ MidAdd(i.s, 0) /\ i.s.lengths = s.lengths
      /\ PathsOK(d, i.s, own, Null)
      /\ i.at \in 1..Len(i.s.tree[c]) /\ i.s.tree[c][i.at].dist = key
      /\ WalkTree(i.s.tree[c], key) = i.at /\ i.s.win = s.win
  <2>1. c \in Squares /\ key \in Nat
    OBVIOUS
  <2> HIDE DEF c
  <2>2. MidAdd(i.s, 0)
    BY <1>1, <2>1, InsertLenOK
  <2>3. i.s.lengths = s.lengths
    BY <1>1, InsertLenFrame
  <2> QED
    <3>1. /\ PathsOK(d, i.s, own, Null)
          /\ i.at \in 1..Len(i.s.tree[c]) /\ i.s.tree[c][i.at].dist = key
          /\ WalkTree(i.s.tree[c], key) = i.at /\ i.s.win = s.win
      BY ONLY <1>1, <1>2, <2>1, InsertLenPaths DEF i
    <3> QED
      BY <2>2, <2>3, <3>1
<1>4. new = AtLimit(r)
  BY DEF AddSmall
<1>5. r = IF path.depth = 4
          THEN Tighten(i.s, i.s.win[path.prev].node, lo, hi)
          ELSE NewNode(Extend(i.s, c, i.at, path, pattern, granted), lo, hi, granted)
  BY DEF AddBelow, BuildPath, Along
<1>6. c \in Squares /\ o[1] = c /\ o[2] = i.at /\ i.at \in Nat
  <2>1. c \in Squares
    OBVIOUS
  <2> HIDE DEF c, i
  <2>2. i.at \in Nat
    BY <1>3
  <2> QED
    BY <2>1, <2>2
<1>7. \A j \in Suits : pattern[j] \in Seq(0..3)
  OBVIOUS
<1>8. True(d, [pattern |-> pattern, lo |-> lo, hi |-> hi], o[1], key)
  OBVIOUS
<1> HIDE DEF i, c
<1>9. IsSmall(i.s) /\ DOMAIN i.s.win \subseteq Nat \X Nat
  <2>1. ~ TempOK(i.s, 0)
    BY DEF TempOK
  <2> QED
    BY <1>3, <2>1 DEF MidAdd, WinsOK
<1>10. /\ path.depth \in 0..4
       /\ path.prev \in Upto(i.s.win, own, o, pattern, path.depth)
  <2>1. LinksOK(i.s) /\ Linked(i.s, own) /\ PointsOK(i.s.tree, i.s.win, own)
    BY <1>3 DEF PathsOK, Linked
  <2>2. point \in Kids(i.s.win, own, o, Null) \union {Null}
    BY <1>3, <1>6, <2>1, Zenon DEF PointsOK, Kids
  <2> HIDE DEF point, o
  <2> QED
    BY <1>9, <2>1, <2>2, ExistingPathIs
<1>11. /\ o[2] \in 1..Len(i.s.tree[o[1]]) /\ i.s.tree[o[1]][o[2]].dist = key
       /\ WalkTree(i.s.tree[o[1]], key) = o[2] /\ NoStumps(i.s.win, Null)
  BY <1>1, <1>3, <1>6
<1> HIDE DEF path, r
<1>12. /\ EndAdd(r) /\ r.lengths = s.lengths
       /\ r.clear \/ Holds(d, r, o, key, pattern, lo, hi)
  <2>1. CASE path.depth = 4
    <3>1. r = Tighten(i.s, i.s.win[path.prev].node, lo, hi)
      BY <1>5, <2>1
    <3>2. EndAdd(r)
      BY <1>3, <3>1, TightenOK
    <3>3. path.prev \in Upto(i.s.win, own, o, pattern, 4)
      BY <1>10, <2>1
    <3> DEFINE t == i.s
               w == path.prev
    <3>4. /\ IsSmall(t) /\ DOMAIN t.win \subseteq Nat \X Nat
          /\ PathsOK(d, t, own, Null) /\ t.tree[o[1]][o[2]].dist = key
          /\ w \in Upto(t.win, own, o, pattern, 4)
          /\ True(d, [pattern |-> pattern, lo |-> lo, hi |-> hi], o[1], key)
          /\ lo \in Int /\ hi \in Int
          /\ r = Tighten(t, t.win[w].node, lo, hi)
      BY <1>3, <1>8, <1>9, <1>11, <3>1, <3>3
    <3> HIDE DEF o, t, w
    <3>5. /\ PathsOK(d, r, own, Null) /\ r.lengths = t.lengths
          /\ r.tree = t.tree /\ r.win = t.win
          /\ Settles(r.node[r.win[w].node], lo, hi)
      <4>1. Meet(d, t, own, o, key, pattern, w, lo, hi)
        BY ONLY <3>4 DEF Meet
      <4> QED
        BY ONLY <3>4, <4>1, TightenPaths
    <3>6. Holds(d, r, o, key, pattern, lo, hi)
      <4>1. /\ NoStumps(t.win, Null) /\ WalkTree(t.tree[o[1]], key) = o[2]
            /\ t.tree[o[1]][o[2]].dist = key
        BY <1>11 DEF t
      <4>2. w \in Upto(r.win, own, o, pattern, 4)
        BY <3>4, <3>5
      <4>3. \E v \in Upto(r.win, own, o, pattern, 4) :
              Settles(r.node[r.win[v].node], lo, hi)
        BY ONLY <3>5, <4>2
      <4> QED
        BY ONLY <3>5, <4>1, <4>3 DEF Holds
    <3> QED
      BY <1>3, <3>2, <3>5, <3>6 DEF t
  <2>2. CASE path.depth # 4
    <3>1. path.depth \in 0..4 /\ path.depth \in 0..3
      BY <1>10, <2>2
    <3>2. Reached(d, i.s, own, o, key, pattern, path.depth, path.prev)
      <4> HIDE DEF o
      <4>1. o[1] \in Squares
        BY <1>6
      <4> QED
        <5>1. \A v \in DOMAIN i.s.win : v # Null
          BY <1>9, NullIsNoPlace
        <5>2. NoStumps(i.s.win, path.prev)
          BY <1>11, <5>1 DEF NoStumps
        <5> QED
          BY <1>3, <1>10, <1>11, <2>2, <4>1, <5>2 DEF Reached
    <3>3. PICK f : /\ Extend(i.s, c, i.at, path, pattern, granted) = f[4]
                   /\ Extends(i.s, c, i.at, path, pattern, granted, f)
      BY <3>1, ExtendSteps
    <3>4. MidAdd(f[4].s, 4) /\ Made(d, i.s.lengths, f[4], o, key, pattern, 4)
      BY <1>3, <1>6, <1>7, <3>1, <3>2, <3>3, ExtendPaths
    <3> DEFINE made == f[4]
    <3>5. r = NewNode(made, lo, hi, granted)
      BY <1>5, <2>2, <3>3
    <3> HIDE DEF made, o
    <3>6. EndAdd(r)
      BY <3>4, <3>5, NewNodeOK DEF made
    <3>7. IsSmall(made.s)
      BY <3>4 DEF MidAdd, made
    <3>8. r.lengths = made.s.lengths /\ (made.s.clear => r.clear)
      BY ONLY <3>5, <3>7, NewNodeFrame
    <3>9. r.lengths = s.lengths
      BY <1>3, <3>4, <3>8 DEF Made, made
    <3>10. ASSUME ~r.clear PROVE Holds(d, r, o, key, pattern, lo, hi)
      <4>1. PICK own2 : Reached(d, made.s, own2, o, key, pattern, 4, made.prev)
        BY <3>4, <3>8, <3>10 DEF Made, made
      <4>2. MidAdd(made.s, 4) /\ ~made.s.clear
        BY <3>4, <3>8, <3>10 DEF made
      <4>3. /\ PathsOK(d, r, own2, Null) /\ NoStumps(r.win, Null)
            /\ WalkTree(r.tree[o[1]], key) = o[2] /\ r.tree[o[1]][o[2]].dist = key
            /\ made.prev \in Upto(r.win, own2, o, pattern, 4)
            /\ Settles(r.node[r.win[made.prev].node], lo, hi)
        <5>1. Tops(d, made, own2, o, key, pattern, lo, hi)
          BY <1>8, <4>1, <4>2, Zenon DEF Tops
        <5> QED
          BY ONLY <3>5, <5>1, NewNodePaths
      <4>4. \E v \in Upto(r.win, own2, o, pattern, 4) :
              Settles(r.node[r.win[v].node], lo, hi)
        BY ONLY <4>3
      <4> QED
        BY ONLY <4>3, <4>4 DEF Holds
    <3> QED
      BY <3>6, <3>9, <3>10
  <2> QED
    BY <2>1, <2>2
<1>13. CASE r.clear
  <2>1. DOMAIN r.lengths = 1..TtTricks
    BY <1>2, <1>12 DEF PathsOK, LinksOK
  <2>2. IsSmall(r) /\ Counted(r)
    BY <1>12 DEF EndAdd
  <2>3. SmallOK(d, ResetSmall(r)) /\ ResetSmall(r).win = <<>>
    BY <2>1, <2>2, SmallWhenReset
  <2>4. ResetSmall(r).lengths = r.lengths
    BY <2>2 DEF ResetSmall, InitTt, IsSmall, SmallFields
  <2> QED
    BY <1>4, <1>12, <1>13, <2>3, <2>4 DEF AtLimit, Added
<1>14. CASE ~r.clear
  <2>1. SlabsOK(r)
    BY <1>12, <1>14 DEF EndAdd, SlabsOK
  <2>2. SmallOK(d, r)
    BY <1>12, <1>14, <2>1 DEF SmallOK, Holds
  <2> QED
    BY <1>4, <1>12, <1>14, <2>2 DEF AtLimit, Added, o, c
<1> QED
  BY <1>13, <1>14

-----------------------------------------------------------------------------
(* The large table: types.                                                 *)

Positions == UNION {Meets(d) : d \in Deals}
Patterns == UNION {{Pattern(p.order, l) : l \in Lens(p)} : p \in Positions}
Entries == [pattern : Patterns, lo : Int, hi : Int]
Filings == [dist : DOMAIN HashOf, block : Blocks]
RootLists == [list : Seq(Filings), write : Nat]
WinBlocks == [match : Seq(Entries), write : Nat, read : Nat]

LargeTables ==
  [kind : {"large"}, def : Nat \ {0}, max : Nat \ {0}, chain : Seq(PageIds),
   at : Nat, pages : Nat, used : [PageIds -> Nat],
   next : (PageIds \X Nat) \union {NoBlock}, state : {"pool", "harvest"},
   old : Seq(Blocks), oldNo : Nat, from : Cells, time : Nat,
   root : [Cells -> [Hashes -> RootLists]], block : [Blocks -> WinBlocks],
   seen : [Cells -> Blocks \union {NoBlock}], lost : SUBSET PageIds,
   crashed : BOOLEAN]

(* What holds of a large table between operations. *)

(* The pages: PagesCounted, that no page is in the list twice, and that    *)
(* pages are dormant only when no reset would free one.                    *)
PageList(t) ==
  /\ ~t.crashed /\ t.lost = {}
  /\ t.pages = Len(t.chain) /\ t.pages <= t.max /\ t.max <= Cardinality(PageIds)
  /\ \A i, j \in 1..Len(t.chain) : t.chain[i] = t.chain[j] => i = j
  /\ t.at \in 0..Len(t.chain) /\ (t.at = 0 => t.chain = <<>>)
  /\ t.at < Len(t.chain) => t.pages <= t.def

NextInPage(t) ==
  t.at > 0 => /\ t.next = <<t.chain[t.at], t.used[t.chain[t.at]]>>
              /\ t.used[t.chain[t.at]] <= BlocksPerPage

PagesOK(t) == PageList(t) /\ NextInPage(t)

ListOK(l) ==
  /\ Len(l.list) <= DistsPerEntry /\ l.write <= DistsPerEntry
  /\ Len(l.list) < DistsPerEntry => l.write = Len(l.list)

ListsOK(t) == \A c \in Cells, h \in Hashes : ListOK(t.root[c][h])

BlockOK(e) ==
  /\ Len(e.match) <= BlocksPerEntry /\ e.write <= Len(e.match)
  /\ Len(e.match) < BlocksPerEntry => e.write = Len(e.match)

BlocksOK(t) == \A b \in Blocks : BlockOK(t.block[b])

(* A block of a page in use, that was handed out. *)
InUse(t, b) ==
  \E k \in 1..t.at : t.chain[k] = b[1] /\ b[2] < t.used[b[1]]

FiledInUse(t) ==
  \A c \in Cells, h \in Hashes : \A i \in 1..Len(t.root[c][h].list) :
    InUse(t, t.root[c][h].list[i].block)

FiledOnce(t) ==
  \A c, d \in Cells, g, h \in Hashes :
    \A i \in 1..Len(t.root[c][g].list), j \in 1..Len(t.root[d][h].list) :
      t.root[c][g].list[i].block = t.root[d][h].list[j].block
        => c = d /\ g = h /\ i = j

Unfiled(t, b) ==
  \A c \in Cells, h \in Hashes : \A i \in 1..Len(t.root[c][h].list) :
    t.root[c][h].list[i].block # b

(* A harvest is handed out block by block, each filed nowhere meanwhile. *)
Handing(t) ==
  t.state = "harvest" =>
    /\ t.at > 0
    /\ Len(t.old) = BlocksPerPage /\ t.oldNo \in 1..BlocksPerPage
    /\ \A i, j \in 1..BlocksPerPage : t.old[i] = t.old[j] => i = j
    /\ \A i \in 1..BlocksPerPage : InUse(t, t.old[i])
    /\ \A i \in (t.oldNo + 1)..BlocksPerPage : Unfiled(t, t.old[i])

LargeOK(t) ==
  /\ t \in LargeTables /\ PagesOK(t) /\ ListsOK(t) /\ BlocksOK(t)
  /\ FiledInUse(t) /\ FiledOnce(t) /\ Handing(t)

TellsTruth(d, t) ==
  \A c \in Cells, h \in Hashes : \A i \in 1..Len(t.root[c][h].list) :
    LET f == t.root[c][h].list[i]
        match == t.block[f.block].match
    IN  \A k \in 1..Len(match) : True(d, match[k], c, f.dist)

(* The small table knows the lengths of every node that is still open, and *)
(* the nodes are of lower and lower tricks.                                *)
Looking(lengths, nodes) ==
  \A i \in 1..Len(nodes) :
    /\ lengths[nodes[i].trick] = nodes[i].dist
    /\ \A j \in (i + 1)..Len(nodes) : nodes[j].trick < nodes[i].trick

TablesInv ==
  /\ deal \in Deals /\ strayed \in BOOLEAN /\ open \in Seq(Meets(deal))
  /\ answer.says \in {"miss", "lower", "upper", "added"}
  /\ \/ "large" \in Kinds /\ LargeOK(tt) /\ (~strayed => TellsTruth(deal, tt))
     \/ "small" \in Kinds /\ SmallOK(deal, tt) /\ Looking(tt.lengths, open)
-----------------------------------------------------------------------------
(* Constants, and the parts of a large table.                              *)

LEMMA Sizes ==
  /\ HashKeys \in Nat \ {0} /\ BlocksPerPage \in Nat \ {0}
  /\ DistsPerEntry \in Nat \ {0} /\ BlocksPerEntry \in Nat \ {0}
  /\ Hands \in SUBSET (0..3) /\ Hands # {}
  /\ TtTricks \in Nat \ {0} /\ FirstHarvestTrick \in 0..(TtTricks - 1)
  /\ PageIds \in SUBSET Nat /\ IsFiniteSet(PageIds) /\ HarvestAge \in Nat
  /\ \A x \in DOMAIN HashOf : HashOf[x] \in Hashes
<1>1. /\ HashKeys \in Nat \ {0} /\ BlocksPerPage \in Nat \ {0}
      /\ DistsPerEntry \in Nat \ {0} /\ BlocksPerEntry \in Nat \ {0}
  BY LargeAssumption
<1>2. \A x \in DOMAIN HashOf : HashOf[x] \in Hashes
  <2>1. HashOf \in [DOMAIN HashOf -> Hashes]
    BY LargeAssumption DEF Hashes
  <2> QED
    BY <2>1
<1> QED
  BY <1>1, <1>2, LargeAssumption, EntriesAssumption

LEMMA FirstHandType == FirstHand \in Hands
<1>1. Hands \in SUBSET Nat /\ Hands # {}
  BY Sizes
<1> QED
  BY <1>1, MinOf DEF FirstHand

LEMMA LargeFacts ==
  ASSUME NEW t \in LargeTables
  PROVE  /\ t.kind = "large" /\ t.def \in Nat \ {0} /\ t.max \in Nat \ {0}
         /\ t.chain \in Seq(PageIds) /\ Len(t.chain) \in Nat
         /\ \A i \in 1..Len(t.chain) : t.chain[i] \in PageIds
         /\ t.at \in Nat /\ t.pages \in Nat /\ t.used \in [PageIds -> Nat]
         /\ t.next \in (PageIds \X Nat) \union {NoBlock}
         /\ t.state \in {"pool", "harvest"} /\ t.old \in Seq(Blocks)
         /\ t.oldNo \in Nat /\ t.from \in Cells /\ t.time \in Nat
         /\ t.root \in [Cells -> [Hashes -> RootLists]]
         /\ t.block \in [Blocks -> WinBlocks]
         /\ t.seen \in [Cells -> Blocks \union {NoBlock}]
         /\ t.lost \in SUBSET PageIds /\ t.crashed \in BOOLEAN
<1>1. /\ t.kind = "large" /\ t.def \in Nat \ {0} /\ t.max \in Nat \ {0}
      /\ t.chain \in Seq(PageIds)
      /\ t.at \in Nat /\ t.pages \in Nat /\ t.used \in [PageIds -> Nat]
      /\ t.next \in (PageIds \X Nat) \union {NoBlock}
      /\ t.state \in {"pool", "harvest"} /\ t.old \in Seq(Blocks)
      /\ t.oldNo \in Nat /\ t.from \in Cells /\ t.time \in Nat
      /\ t.root \in [Cells -> [Hashes -> RootLists]]
      /\ t.block \in [Blocks -> WinBlocks]
      /\ t.seen \in [Cells -> Blocks \union {NoBlock}]
      /\ t.lost \in SUBSET PageIds /\ t.crashed \in BOOLEAN
  BY DEF LargeTables
<1>2. Len(t.chain) \in Nat /\ \A i \in 1..Len(t.chain) : t.chain[i] \in PageIds
  BY <1>1
<1> QED
  BY <1>1, <1>2

(* The lists and their entries. *)
LEMMA FilingFacts ==
  ASSUME NEW t \in LargeTables, NEW c \in Cells, NEW h \in Hashes
  PROVE  LET l == t.root[c][h]
         IN  /\ l \in RootLists /\ l.list \in Seq(Filings) /\ l.write \in Nat
             /\ Len(l.list) \in Nat /\ DOMAIN l.list = 1..Len(l.list)
             /\ \A i \in 1..Len(l.list) :
                  /\ l.list[i] \in Filings
                  /\ l.list[i].dist \in DOMAIN HashOf /\ l.list[i].block \in Blocks
<1>1. t.root[c][h] \in RootLists
  BY LargeFacts
<1>2. t.root[c][h].list \in Seq(Filings) /\ t.root[c][h].write \in Nat
  BY <1>1 DEF RootLists
<1>3. Len(t.root[c][h].list) \in Nat
      /\ DOMAIN t.root[c][h].list = 1..Len(t.root[c][h].list)
      /\ \A i \in 1..Len(t.root[c][h].list) : t.root[c][h].list[i] \in Filings
  <2>1. \A list \in Seq(Filings) :
          /\ Len(list) \in Nat /\ DOMAIN list = 1..Len(list)
          /\ \A i \in 1..Len(list) : list[i] \in Filings
    OBVIOUS
  <2> QED
    BY ONLY <1>2, <2>1, Zenon
<1>4. \A f \in Filings : f.dist \in DOMAIN HashOf /\ f.block \in Blocks
  BY DEF Filings
<1> QED
  BY <1>1, <1>2, <1>3, <1>4

LEMMA BlockFacts ==
  ASSUME NEW t \in LargeTables, NEW b \in Blocks
  PROVE  LET e == t.block[b]
         IN  /\ e \in WinBlocks /\ e.match \in Seq(Entries)
             /\ e.write \in Nat /\ e.read \in Nat /\ Len(e.match) \in Nat
             /\ \A i \in 1..Len(e.match) : e.match[i] \in Entries
<1>1. t.block[b] \in WinBlocks
  BY LargeFacts
<1>2. /\ t.block[b].match \in Seq(Entries)
      /\ t.block[b].write \in Nat /\ t.block[b].read \in Nat
  BY <1>1 DEF WinBlocks
<1>3. Len(t.block[b].match) \in Nat
      /\ \A i \in 1..Len(t.block[b].match) : t.block[b].match[i] \in Entries
  BY <1>2
<1> QED
  BY <1>1, <1>2, <1>3

LEMMA EmptyParts ==
  /\ EmptyRoot \in [Cells -> [Hashes -> RootLists]]
  /\ \A c \in Cells, h \in Hashes :
       EmptyRoot[c][h].list = <<>> /\ EmptyRoot[c][h].write = 0
  /\ RawBlock \in WinBlocks /\ BlockOK(RawBlock)
  /\ NothingSeen \in [Cells -> Blocks \union {NoBlock}]
<1>1. [list |-> <<>>, write |-> 0] \in RootLists
  BY DEF RootLists
<1>2. EmptyRoot \in [Cells -> [Hashes -> RootLists]]
  BY <1>1 DEF EmptyRoot
<1>3. \A c \in Cells, h \in Hashes :
        EmptyRoot[c][h].list = <<>> /\ EmptyRoot[c][h].write = 0
  BY DEF EmptyRoot
<1>4. RawBlock \in WinBlocks
  BY DEF RawBlock, WinBlocks
<1>5. BlockOK(RawBlock)
  <2>1. RawBlock.match = <<>> /\ RawBlock.write = 0 /\ Len(<<>>) = 0
    BY DEF RawBlock
  <2> QED
    BY <2>1, Sizes DEF BlockOK
<1>6. NothingSeen \in [Cells -> Blocks \union {NoBlock}]
  BY DEF NothingSeen
<1> QED
  BY <1>2, <1>3, <1>4, <1>5, <1>6

(* A table whose lists are empty. *)
Blank(t) ==
  /\ t.root = EmptyRoot /\ t.block = [b \in Blocks |-> RawBlock]
  /\ t.state = "pool" /\ t.seen = NothingSeen

LEMMA BlankOK ==
  ASSUME NEW t \in LargeTables, Blank(t)
  PROVE  /\ ListsOK(t) /\ BlocksOK(t) /\ FiledInUse(t) /\ FiledOnce(t)
         /\ Handing(t) /\ \A b \in Blocks : Unfiled(t, b)
         /\ \A d : TellsTruth(d, t)
<1>1. \A c \in Cells, h \in Hashes :
        /\ t.root[c][h].list = <<>> /\ t.root[c][h].write = 0
        /\ Len(t.root[c][h].list) = 0 /\ 1..Len(t.root[c][h].list) = {}
  <2>1. \A c \in Cells, h \in Hashes :
          t.root[c][h].list = <<>> /\ t.root[c][h].write = 0
    BY EmptyParts DEF Blank
  <2>2. Len(<<>>) = 0 /\ 1..0 = {}
    OBVIOUS
  <2> QED
    BY <2>1, <2>2
<1>2. ListsOK(t)
  BY <1>1, Sizes DEF ListsOK, ListOK
<1>3. BlocksOK(t)
  <2>1. \A b \in Blocks : t.block[b] = RawBlock
    BY DEF Blank
  <2> QED
    BY <2>1, EmptyParts DEF BlocksOK
<1>4. FiledInUse(t)
  BY ONLY <1>1 DEF FiledInUse
<1>5. FiledOnce(t)
  BY ONLY <1>1 DEF FiledOnce
<1>6. \A b \in Blocks : Unfiled(t, b)
  BY ONLY <1>1 DEF Unfiled
<1>7. Handing(t)
  BY DEF Handing, Blank
<1>8. \A d : TellsTruth(d, t)
  BY ONLY <1>1, Zenon DEF TellsTruth
<1> QED
  BY <1>2, <1>3, <1>4, <1>5, <1>6, <1>7, <1>8

-----------------------------------------------------------------------------
(* Pages.                                                                  *)

LEMMA Created ==
  ASSUME NEW limits, limits.def \in Nat \ {0}, limits.max \in Nat,
         limits.def <= limits.max, limits.max <= Cardinality(PageIds)
  PROVE  /\ LargeOK(NewLarge(limits)) /\ \A d : TellsTruth(d, NewLarge(limits))
<1> DEFINE t == NewLarge(limits)
<1>1. t \in LargeTables
  <2>1. <<0, FirstHand>> \in Cells
    BY FirstHandType, Sizes DEF Cells
  <2>2. [p \in PageIds |-> 0] \in [PageIds -> Nat] /\ limits.max \in Nat \ {0}
    OBVIOUS
  <2>3. [b \in Blocks |-> RawBlock] \in [Blocks -> WinBlocks]
    BY EmptyParts
  <2>4. <<>> \in Seq(PageIds) /\ <<>> \in Seq(Blocks)
    OBVIOUS
  <2> QED
    BY <2>1, <2>2, <2>3, <2>4, EmptyParts DEF NewLarge, LargeTables
<1>2. PagesOK(t)
  <2>1. /\ t.crashed = FALSE /\ t.lost = {} /\ t.pages = 0 /\ t.chain = <<>>
        /\ t.max = limits.max /\ t.at = 0
    BY DEF NewLarge
  <2>2. Len(<<>>) = 0
    OBVIOUS
  <2> QED
    BY <2>1, <2>2 DEF PagesOK, PageList, NextInPage
<1>3. Blank(t)
  BY DEF Blank, NewLarge
<1> HIDE DEF t
<1> QED
  BY <1>1, <1>2, <1>3, BlankOK DEF LargeOK, t

LEMMA FreePagesOK ==
  ASSUME NEW t \in LargeTables, PageList(t), t.at > 0
  PROVE  LET r == FreePages(t)
         IN  /\ ~ (t.pages - t.def > t.at)
             /\ r \in LargeTables /\ PageList(r) /\ r.at > 0
             /\ r.def = t.def /\ r.max = t.max /\ r.pages <= r.def
<1> DEFINE n == t.pages - t.def
           left == t.at - n
<1>0. /\ t.pages \in Nat /\ t.def \in Nat \ {0} /\ t.at \in Nat /\ t.max \in Nat \ {0}
      /\ t.chain \in Seq(PageIds) /\ Len(t.chain) \in Nat
  BY LargeFacts
<1>1. /\ t.pages = Len(t.chain) /\ t.at \in 1..Len(t.chain)
      /\ t.at < Len(t.chain) => t.pages <= t.def
  BY <1>0 DEF PageList
<1>2. CASE n <= 0
  <2>1. ~ (t.pages - t.def > t.at)
    BY <1>0, <1>2
  <2>2. FreePages(t) = t
    BY <1>2, <2>1 DEF FreePages
  <2>3. t.pages <= t.def
    BY <1>0, <1>2
  <2> QED
    BY <2>1, <2>2, <2>3
<1>3. CASE ~ (n <= 0)
  <2>1. /\ t.at = Len(t.chain) /\ t.pages = t.at /\ left = t.def
        /\ ~ (n > t.at) /\ t.def \in 1..Len(t.chain)
    BY <1>0, <1>1, <1>3
  <2>2. PagesAfterPool(t) = {}
    <3>1. (t.at + 1)..Len(t.chain) = {}
      BY <2>1, <1>0
    <3> QED
      BY <3>1 DEF PagesAfterPool
  <2> DEFINE chain == SubSeq(t.chain, 1, t.def)
             r == [t EXCEPT !.chain = chain, !.at = t.def, !.pages = t.def,
                            !.lost = @ \union {}]
  <2>3. FreePages(t) = r
    BY <1>3, <2>1, <2>2 DEF FreePages
  <2>4. /\ chain \in Seq(PageIds) /\ Len(chain) = t.def
        /\ \A i \in 1..t.def : chain[i] = t.chain[i]
    BY ONLY <1>0, <2>1, SubSeqProperties
  <2> HIDE DEF chain
  <2>5. r \in LargeTables
    BY <2>4, <1>0 DEF LargeTables
  <2>6. /\ r.crashed = t.crashed /\ r.lost = t.lost /\ r.pages = t.def
        /\ r.chain = chain /\ r.max = t.max /\ r.at = t.def /\ r.def = t.def
    BY DEF LargeTables
  <2> HIDE DEF r
  <2>7. PageList(r)
    <3>1. ~r.crashed /\ r.lost = {} /\ t.max <= Cardinality(PageIds)
          /\ t.pages <= t.max
      BY <2>6 DEF PageList
    <3>2. \A i, j \in 1..Len(t.chain) : t.chain[i] = t.chain[j] => i = j
      BY DEF PageList
    <3>3. ASSUME NEW i \in 1..t.def, NEW j \in 1..t.def, chain[i] = chain[j]
          PROVE  i = j
      <4>1. i \in 1..Len(t.chain) /\ j \in 1..Len(t.chain)
        BY <2>1, <1>0
      <4> QED
        BY <3>2, <3>3, <4>1, <2>4
    <3>4. Len(r.chain) = t.def /\ t.def \in 0..t.def /\ t.def # 0
          /\ t.def <= t.max
      BY <1>0, <1>1, <2>1, <2>4, <2>6, <3>1
    <3> QED
      BY <3>1, <3>3, <3>4, <2>6 DEF PageList
  <2> QED
    BY <1>0, <2>1, <2>3, <2>5, <2>6, <2>7
<1> QED
  BY <1>2, <1>3

(* After a reset every list is empty, and pool_ is the first page. *)
LEMMA ResetOK ==
  ASSUME NEW t \in LargeTables, PageList(t)
  PROVE  LET r == ResetLarge(t)
         IN  /\ t.at = 0 => r = t
             /\ t.at > 0 =>
                  /\ LargeOK(r) /\ Blank(r) /\ r.at = 1 /\ r.state = "pool"
                  /\ r.used[r.chain[1]] = 0
                  /\ r.def = t.def /\ r.max = t.max
<1>1. CASE t.at = 0
  BY <1>1 DEF ResetLarge
<1>2. CASE t.at > 0
  <2> DEFINE f == FreePages(t)
             r == Emptied(f)
  <2>1. /\ ~ (t.pages - t.def > t.at) /\ f \in LargeTables /\ PageList(f)
        /\ f.at > 0 /\ f.def = t.def /\ f.max = t.max /\ f.pages <= f.def
    BY <1>2, FreePagesOK
  <2>2. ResetLarge(t) = r
    BY <1>2, <2>1 DEF ResetLarge
  <2> HIDE DEF f
  <2>3. /\ f.chain \in Seq(PageIds) /\ f.chain[1] \in PageIds /\ f.at # 0
        /\ f.used \in [PageIds -> Nat] /\ Len(f.chain) \in Nat /\ Len(f.chain) >= 1
        /\ f.max \in Nat \ {0} /\ f.def \in Nat \ {0}
    <3>1. f.chain \in Seq(PageIds) /\ Len(f.chain) \in Nat /\ f.at \in Nat
          /\ f.used \in [PageIds -> Nat] /\ f.max \in Nat \ {0} /\ f.def \in Nat \ {0}
      BY <2>1, LargeFacts
    <3>2. Len(f.chain) >= 1 /\ f.at # 0
      BY <2>1, <3>1 DEF PageList
    <3> QED
      BY <3>1, <3>2
  <2> DEFINE used == [f.used EXCEPT ![f.chain[1]] = 0]
  <2>4. used \in [PageIds -> Nat] /\ used[f.chain[1]] = 0
        /\ <<f.chain[1], 0>> \in PageIds \X Nat
    BY <2>3
  <2>5. r = [f EXCEPT !.at = 1, !.used = used, !.next = <<f.chain[1], 0>>,
                      !.root = EmptyRoot, !.seen = NothingSeen,
                      !.block = [b \in Blocks |-> RawBlock], !.old = <<>>,
                      !.oldNo = 0, !.time = 0, !.state = "pool"]
    BY <2>3 DEF Emptied
  <2> HIDE DEF used, r
  <2>6. [b \in Blocks |-> RawBlock] \in [Blocks -> WinBlocks] /\ <<>> \in Seq(Blocks)
    BY EmptyParts
  <2>7. r \in LargeTables
    BY <2>1, <2>4, <2>5, <2>6, EmptyParts, Zenon DEF LargeTables
  <2>8. /\ r.crashed = f.crashed /\ r.lost = f.lost /\ r.pages = f.pages
        /\ r.chain = f.chain /\ r.max = f.max /\ r.at = 1 /\ r.def = f.def
        /\ r.next = <<f.chain[1], 0>> /\ r.used = used /\ r.root = EmptyRoot
        /\ r.seen = NothingSeen /\ r.block = [b \in Blocks |-> RawBlock]
        /\ r.state = "pool"
    BY <2>1, <2>5 DEF LargeTables
  <2>9. Blank(r)
    BY <2>8 DEF Blank
  <2>10. PageList(r)
    <3>1. /\ ~f.crashed /\ f.lost = {} /\ f.pages = Len(f.chain)
          /\ f.pages <= f.max /\ f.max <= Cardinality(PageIds)
          /\ \A i, j \in 1..Len(f.chain) : f.chain[i] = f.chain[j] => i = j
      BY <2>1 DEF PageList
    <3>2. 1 \in 0..Len(f.chain) /\ 1 # 0
      BY <2>3
    <3>3. 1 < Len(f.chain) => f.pages <= f.def
      BY <2>1
    <3> QED
      BY <2>8, <3>1, <3>2, <3>3 DEF PageList
  <2>11. NextInPage(r)
    BY <2>4, <2>8, Sizes DEF NextInPage
  <2> QED
    BY <1>2, <2>1, <2>2, <2>4, <2>7, <2>8, <2>9, <2>10, <2>11, BlankOK
    DEF LargeOK, PagesOK
<1>3. t.at \in Nat
  BY LargeFacts
<1> QED
  BY <1>1, <1>2, <1>3

-----------------------------------------------------------------------------
(* Blocks from the pool.                                                   *)

(* A block that was not in use is handed out, nothing else changes. *)
Gained(t, got) ==
  /\ got.t \in LargeTables /\ PagesOK(got.t) /\ got.t.at > 0
  /\ got.t.root = t.root /\ got.t.block = t.block /\ got.t.seen = t.seen
  /\ got.t.state = t.state /\ got.t.old = t.old /\ got.t.oldNo = t.oldNo
  /\ got.block \in Blocks
  /\ InUse(got.t, got.block) /\ ~ InUse(t, got.block)
  /\ \A b \in Blocks : InUse(t, b) => InUse(got.t, b)

LEMMA TakeNextGains ==
  ASSUME NEW t \in LargeTables, PagesOK(t), t.at > 0,
         t.used[t.chain[t.at]] # BlocksPerPage
  PROVE  Gained(t, TakeNext(t))
<1> DEFINE page == t.chain[t.at]
           n == t.used[page]
           r == [t EXCEPT !.used[page] = @ + 1, !.next = <<t.next[1], t.next[2] + 1>>]
<1>1. /\ t.at \in 1..Len(t.chain) /\ page \in PageIds /\ n \in Nat
      /\ t.next = <<page, n>> /\ n <= BlocksPerPage /\ n # BlocksPerPage
      /\ BlocksPerPage \in Nat
  <2>1. t.at \in Nat /\ Len(t.chain) \in Nat /\ t.used \in [PageIds -> Nat]
        /\ \A i \in 1..Len(t.chain) : t.chain[i] \in PageIds
    BY LargeFacts
  <2>2. t.at \in 1..Len(t.chain)
    BY <2>1 DEF PagesOK, PageList
  <2>3. page \in PageIds /\ n \in Nat
    BY <2>1, <2>2
  <2> QED
    BY <2>2, <2>3, Sizes DEF PagesOK, NextInPage
<1>2. TakeNext(t).t = r /\ TakeNext(t).block = t.next
  BY <1>1 DEF TakeNext
<1>3. n + 1 \in Nat /\ n + 1 <= BlocksPerPage /\ n \in 0..(BlocksPerPage - 1)
  BY ONLY <1>1
<1> HIDE DEF n, page
<1>4. r \in LargeTables
  <2>1. t.next[1] = page /\ t.next[2] = n
    BY <1>1
  <2>2. <<page, n + 1>> \in PageIds \X Nat
    BY <1>1, <1>3
  <2> QED
    BY <1>1, <1>3, <2>1, <2>2 DEF LargeTables, n
<1>5. /\ r.def = t.def /\ r.max = t.max /\ r.chain = t.chain /\ r.at = t.at
      /\ r.pages = t.pages /\ r.state = t.state /\ r.old = t.old
      /\ r.oldNo = t.oldNo /\ r.root = t.root /\ r.block = t.block
      /\ r.seen = t.seen /\ r.lost = t.lost /\ r.crashed = t.crashed
      /\ r.next = <<page, n + 1>>
      /\ r.used[page] = n + 1
      /\ \A p \in PageIds \ {page} : r.used[p] = t.used[p]
  <2>1. t.next[1] = page /\ t.next[2] = n /\ t.used \in [PageIds -> Nat]
    BY <1>1, LargeFacts
  <2> QED
    BY <1>1, <2>1 DEF LargeTables, n
<1> HIDE DEF r
<1>6. PagesOK(r)
  <2>1. PageList(r)
    BY <1>5 DEF PagesOK, PageList
  <2>2. NextInPage(r)
    BY <1>3, <1>5 DEF NextInPage, page
  <2> QED
    BY <2>1, <2>2 DEF PagesOK
<1>7. t.next \in Blocks
  BY <1>1, <1>3 DEF Blocks
<1>8. InUse(r, t.next)
  <2>1. t.next[1] = page /\ t.next[2] = n /\ n < n + 1
    BY <1>1
  <2>2. r.chain[t.at] = page /\ t.at \in 1..r.at
    BY <1>1, <1>5 DEF page
  <2> QED
    BY <1>5, <2>1, <2>2 DEF InUse
<1>9. ~ InUse(t, t.next)
  <2>1. t.next[1] = page /\ t.next[2] = n
    BY <1>1
  <2>2. ~ (t.next[2] < t.used[t.next[1]])
    BY <1>1, <2>1 DEF n
  <2> QED
    BY <2>2 DEF InUse
<1>10. ASSUME NEW b \in Blocks, InUse(t, b) PROVE InUse(r, b)
  <2>1. b[1] \in PageIds /\ b[2] \in Nat
    BY Sizes DEF Blocks
  <2>2. PICK k \in 1..t.at : t.chain[k] = b[1] /\ b[2] < t.used[b[1]]
    BY <1>10 DEF InUse
  <2>3. b[2] < r.used[b[1]]
    <3>1. CASE b[1] = page
      <4>1. b[2] < n
        BY <2>2, <3>1 DEF n
      <4> QED
        BY <1>1, <1>5, <2>1, <3>1, <4>1
    <3>2. CASE b[1] # page
      BY <1>5, <2>1, <2>2, <3>2
    <3> QED
      BY <3>1, <3>2
  <2> QED
    BY <1>5, <2>2, <2>3 DEF InUse
<1> QED
  BY <1>1, <1>2, <1>4, <1>5, <1>6, <1>7, <1>8, <1>9, <1>10 DEF Gained

LEMMA FirstOfPageGains ==
  ASSUME NEW t \in LargeTables, PageList(t),
         NEW page \in PageIds, NEW chain \in Seq(PageIds),
         NEW at \in 1..Len(chain), at = t.at + 1, chain[at] = page,
         \A i \in 1..t.at : chain[i] = t.chain[i],
         \A i, j \in 1..Len(chain) : chain[i] = chain[j] => i = j,
         Len(chain) <= t.max, at < Len(chain) => Len(chain) <= t.def
  PROVE  Gained(t, FirstOfPage(t, page, chain, at, Len(chain)))
<1> DEFINE r == [t EXCEPT !.chain = chain, !.at = at, !.pages = Len(chain),
                          !.used[page] = 1, !.next = <<page, 1>>]
<1>1. FirstOfPage(t, page, chain, at, Len(chain)).t = r
      /\ FirstOfPage(t, page, chain, at, Len(chain)).block = <<page, 0>>
  BY DEF FirstOfPage
<1>2. /\ at \in Nat /\ Len(chain) \in Nat /\ <<page, 1>> \in PageIds \X Nat
      /\ t.used \in [PageIds -> Nat] /\ t.at \in Nat
  BY LargeFacts, SMTT(20)
<1>3. r \in LargeTables
  BY <1>2 DEF LargeTables
<1>4. /\ r.def = t.def /\ r.max = t.max /\ r.chain = chain /\ r.at = at
      /\ r.pages = Len(chain) /\ r.state = t.state /\ r.old = t.old
      /\ r.oldNo = t.oldNo /\ r.root = t.root /\ r.block = t.block
      /\ r.seen = t.seen /\ r.lost = t.lost /\ r.crashed = t.crashed
      /\ r.next = <<page, 1>> /\ r.used[page] = 1
      /\ \A p \in PageIds \ {page} : r.used[p] = t.used[p]
  BY <1>2 DEF LargeTables
<1> HIDE DEF r
<1>5. PagesOK(r)
  <2>1. ~t.crashed /\ t.lost = {} /\ t.max <= Cardinality(PageIds)
    BY DEF PageList
  <2>2. at \in 0..Len(chain) /\ at # 0
    BY <1>2
  <2>3. PageList(r)
    BY <1>4, <2>1, <2>2 DEF PageList
  <2>4. NextInPage(r)
    BY <1>4, Sizes DEF NextInPage
  <2> QED
    BY <2>3, <2>4 DEF PagesOK
<1>6. <<page, 0>> \in Blocks
  BY Sizes DEF Blocks
<1>7. InUse(r, <<page, 0>>)
  <2>1. at \in 1..at /\ 0 < 1
    BY <1>2
  <2> QED
    BY <1>4, <2>1 DEF InUse
<1>8. \A k \in 1..t.at : t.chain[k] # page
  <2>1. SUFFICES ASSUME NEW k \in 1..t.at, t.chain[k] = page PROVE FALSE
    OBVIOUS
  <2>2. k \in 1..Len(chain) /\ chain[k] = chain[at] /\ k # at
    BY <1>2, <2>1
  <2> QED
    BY <2>2
<1>9. ~ InUse(t, <<page, 0>>)
  BY <1>8 DEF InUse
<1>10. ASSUME NEW b \in Blocks, InUse(t, b) PROVE InUse(r, b)
  <2>1. PICK k \in 1..t.at : t.chain[k] = b[1] /\ b[2] < t.used[b[1]]
    BY <1>10 DEF InUse
  <2>2. b[1] \in PageIds \ {page}
    BY <1>8, <2>1 DEF Blocks
  <2>3. k \in 1..r.at /\ r.chain[k] = b[1]
    BY <1>2, <1>4, <2>1
  <2> QED
    BY <1>4, <2>1, <2>2, <2>3 DEF InUse
<1>11. at > 0
  OBVIOUS
<1> QED
  BY <1>1, <1>3, <1>4, <1>5, <1>6, <1>7, <1>9, <1>10, <1>11 DEF Gained

(* There is a page left while the maximum is not reached. *)
LEMMA NewPageIsNew ==
  ASSUME NEW t \in LargeTables, PageList(t), t.pages < t.max
  PROVE  NewPage(t) \in PageIds \ {t.chain[i] : i \in 1..Len(t.chain)}
<1> DEFINE n == Len(t.chain)
           T == {t.chain[i] : i \in 1..n}
           f == [i \in 1..n |-> t.chain[i]]
<1>1. /\ n \in Nat /\ \A i \in 1..n : t.chain[i] \in PageIds
      /\ DOMAIN t.chain = 1..n /\ t.pages = n /\ t.max \in Nat /\ t.lost = {}
      /\ t.max <= Cardinality(PageIds)
  <2>1. t.chain \in Seq(PageIds) /\ n \in Nat /\ t.max \in Nat
        /\ \A i \in 1..n : t.chain[i] \in PageIds
    BY LargeFacts
  <2>2. DOMAIN t.chain = 1..n
    BY <2>1
  <2> QED
    BY <2>1, <2>2 DEF PageList
<1>2. f \in Surjection(1..n, T)
  BY DEF Surjection
<1>3. IsFiniteSet(1..n) /\ Cardinality(1..n) = n
  <2> HIDE DEF n
  <2>1. n \in Int /\ 1 \in Int
    BY <1>1
  <2>2. IsFiniteSet(1..n) /\ Cardinality(1..n) = IF 1 > n THEN 0 ELSE n - 1 + 1
    BY ONLY <2>1, FS_Interval
  <2>3. (IF 1 > n THEN 0 ELSE n - 1 + 1) = n
    BY ONLY <1>1
  <2> QED
    BY <2>2, <2>3
<1> HIDE DEF f, T
<1>4. Cardinality(T) <= n
  BY <1>2, <1>3, FS_Surjection
<1>5. T # PageIds
  <2>1. SUFFICES ASSUME T = PageIds PROVE FALSE
    OBVIOUS
  <2>2. Cardinality(PageIds) \in Nat
    BY Sizes, FS_CardinalityType
  <2>3. Cardinality(PageIds) <= n /\ n < t.max
    BY <1>1, <1>4, <2>1
  <2> QED
    BY <1>1, <2>2, <2>3
<1>6. T \subseteq PageIds
  BY <1>1 DEF T
<1>7. \E p \in PageIds \ T : TRUE
  BY <1>5, <1>6
<1>8. NewPage(t) = CHOOSE p \in PageIds \ T : TRUE
  <2>1. {t.chain[i] : i \in DOMAIN t.chain} = T /\ t.lost \union T = T
    BY <1>1 DEF T
  <2> QED
    BY <2>1 DEF NewPage
<1>9. (CHOOSE p \in PageIds \ T : TRUE) \in PageIds \ T
  BY <1>7
<1>10. NewPage(t) \in PageIds \ T
  BY <1>8, <1>9
<1> QED
  BY <1>10 DEF T, n

-----------------------------------------------------------------------------
(* Harvesting.                                                             *)

SameMemory(t, s) ==
  /\ s.def = t.def /\ s.max = t.max /\ s.chain = t.chain /\ s.at = t.at
  /\ s.pages = t.pages /\ s.used = t.used /\ s.next = t.next
  /\ s.state = t.state /\ s.time = t.time /\ s.seen = t.seen
  /\ s.lost = t.lost /\ s.crashed = t.crashed

(* Filings may go, and blocks become empty. *)
Fewer(t, s) ==
  \A c \in Cells, h \in Hashes :
    /\ Len(s.root[c][h].list) <= Len(t.root[c][h].list)
    /\ \A i \in 1..Len(s.root[c][h].list) :
         \E j \in 1..Len(t.root[c][h].list) :
           s.root[c][h].list[i] = t.root[c][h].list[j]

Emptier(t, s) ==
  \A b \in Blocks : s.block[b].match \in {t.block[b].match, <<>>}

(* The blocks taken so far: all different, in use, and filed nowhere. *)
Taken(t, s) ==
  /\ Len(s.old) <= BlocksPerPage
  /\ \A i, j \in 1..Len(s.old) : s.old[i] = s.old[j] => i = j
  /\ \A i \in 1..Len(s.old) : InUse(t, s.old[i]) /\ Unfiled(s, s.old[i])

(* What t has become after some steps of a harvest. *)
Harvests(t) ==
  {s \in LargeTables :
     /\ SameMemory(t, s) /\ ListsOK(s) /\ BlocksOK(s) /\ FiledOnce(s)
     /\ Fewer(t, s) /\ Emptier(t, s) /\ Taken(t, s)}

LEMMA Transitive == \A i, j, k \in Nat : i <= j /\ j <= k => i <= k
OBVIOUS

(* One list with one place less. *)
LEMMA WithoutFacts ==
  ASSUME NEW S, NEW list \in Seq(S), NEW i \in 1..Len(list)
  PROVE  LET r == Without(list, i)
         IN  /\ r \in Seq(S) /\ Len(r) = Len(list) - 1 /\ Len(list) \in Nat
             /\ \A j \in 1..Len(r) :
                  r[j] = list[IF j = i THEN Len(list) ELSE j]
<1> DEFINE n == Len(list)
           r == [j \in 1..(n - 1) |-> IF j = i THEN list[n] ELSE list[j]]
<1>1. n \in Nat /\ n >= 1 /\ n - 1 \in Nat /\ \A j \in 1..n : list[j] \in S
  OBVIOUS
<1>2. Without(list, i) = r
  BY DEF Without
<1>3. r \in [1..(n - 1) -> S]
  <2>1. ASSUME NEW j \in 1..(n - 1)
        PROVE  (IF j = i THEN list[n] ELSE list[j]) \in S
    <3>1. j \in 1..n /\ n \in 1..n
      BY <1>1
    <3> QED
      BY <1>1, <3>1
  <2> QED
    BY <2>1
<1>4. r \in Seq(S) /\ Len(r) = n - 1
  BY ONLY <1>1, <1>3
<1>5. \A j \in 1..(n - 1) : r[j] = list[IF j = i THEN n ELSE j]
  OBVIOUS
<1> QED
  BY <1>1, <1>2, <1>4, <1>5

LEMMA OnePlace ==
  ASSUME NEW t, FiledOnce(t), NEW c \in Cells, NEW d \in Cells,
         NEW g \in Hashes, NEW h \in Hashes,
         NEW i \in 1..Len(t.root[c][g].list), NEW j \in 1..Len(t.root[d][h].list),
         t.root[c][g].list[i].block = t.root[d][h].list[j].block
  PROVE  c = d /\ g = h /\ i = j
<1>1. /\ c \in Cells /\ d \in Cells /\ g \in Hashes /\ h \in Hashes
      /\ i \in 1..Len(t.root[c][g].list) /\ j \in 1..Len(t.root[d][h].list)
      /\ t.root[c][g].list[i].block = t.root[d][h].list[j].block
  OBVIOUS
<1> QED
  BY ONLY <1>1, FiledOnce(t) DEF FiledOnce

LEMMA HarvestPlaceKeeps ==
  ASSUME NEW t \in LargeTables, FiledInUse(t), NEW s \in Harvests(t),
         NEW cell \in Cells, NEW hash \in Hashes,
         NEW suit \in 1..Len(s.root[cell][hash].list)
  PROVE  LET r == HarvestPlace(s, cell, hash, suit)
         IN  /\ r \in Harvests(t)
             /\ Len(r.root[cell][hash].list) >= Len(s.root[cell][hash].list) - 1
<1> DEFINE l == s.root[cell][hash].list
           n == Len(l)
           b == l[suit].block
           shorter == Without(l, suit)
           filed == [list |-> shorter, write |-> Len(shorter)]
           emptied == [match |-> <<>>, write |-> 0, read |-> s.time]
           r == [s EXCEPT !.old = Append(@, b), !.block[b] = emptied,
                          !.root[cell][hash] = filed]
<1>1. /\ s \in LargeTables /\ SameMemory(t, s) /\ ListsOK(s) /\ BlocksOK(s)
      /\ FiledOnce(s) /\ Fewer(t, s) /\ Emptier(t, s) /\ Taken(t, s)
  BY DEF Harvests
<1>2. n \in Nat /\ l \in Seq(Filings) /\ l[suit] \in Filings /\ b \in Blocks
  BY <1>1, FilingFacts
<1>3. CASE Len(s.old) = BlocksPerPage \/ s.time - s.block[b].read <= HarvestAge
  <2>1. HarvestPlace(s, cell, hash, suit) = s
    BY <1>3, Zenon DEF HarvestPlace
  <2>2. n >= n - 1
    <3> HIDE DEF n
    <3> QED
      BY ONLY <1>2
  <2> QED
    BY <2>1, <2>2
<1>4. CASE ~ (Len(s.old) = BlocksPerPage \/ s.time - s.block[b].read <= HarvestAge)
  <2>1. HarvestPlace(s, cell, hash, suit) = r
    BY <1>4 DEF HarvestPlace
  <2>2. /\ shorter \in Seq(Filings) /\ Len(shorter) = n - 1 /\ n \in Nat
        /\ \A j \in 1..Len(shorter) : shorter[j] = l[IF j = suit THEN n ELSE j]
    <3>1. suit \in 1..Len(l)
      OBVIOUS
    <3> QED
      BY ONLY <1>2, <3>1, WithoutFacts
  <2>3. n >= 1 /\ n - 1 \in Nat
    BY <1>2
  <2>4. /\ s.old \in Seq(Blocks) /\ s.block \in [Blocks -> WinBlocks]
        /\ s.root \in [Cells -> [Hashes -> RootLists]] /\ s.time \in Nat
    BY <1>1, LargeFacts
  <2>5. filed \in RootLists /\ emptied \in WinBlocks
    BY <2>2, <2>3, <2>4 DEF RootLists, WinBlocks
  <2> HIDE DEF filed, emptied, shorter
  <2>6. Append(s.old, b) \in Seq(Blocks)
    BY <1>2, <2>4
  <2>7. [s.block EXCEPT ![b] = emptied] \in [Blocks -> WinBlocks]
    BY <2>4, <2>5, Zenon
  <2>8. [s.root EXCEPT ![cell][hash] = filed] \in [Cells -> [Hashes -> RootLists]]
    BY <2>4, <2>5
  <2>9. r \in LargeTables
    BY <1>1, <2>6, <2>7, <2>8, Zenon DEF LargeTables
  <2>10. /\ r.old = Append(s.old, b)
         /\ r.block = [s.block EXCEPT ![b] = emptied]
         /\ r.root = [s.root EXCEPT ![cell][hash] = filed]
         /\ SameMemory(s, r)
    BY <1>1 DEF LargeTables, SameMemory
  <2> HIDE DEF r
  <2>11. SameMemory(t, r)
    BY <1>1, <2>10 DEF SameMemory
  <2>12. \A c \in Cells, h \in Hashes :
           r.root[c][h] = IF c = cell /\ h = hash THEN filed ELSE s.root[c][h]
    BY <2>4, <2>10
  <2>13. filed.list = shorter /\ filed.write = n - 1
    BY <2>2 DEF filed
  <2>14. \A c \in Cells, h \in Hashes :
           /\ Len(s.root[c][h].list) \in Nat
           /\ Len(r.root[c][h].list)
                = IF c = cell /\ h = hash THEN n - 1 ELSE Len(s.root[c][h].list)
    BY <1>1, <2>2, <2>12, <2>13, FilingFacts
  <2> DEFINE From(c, h, i) == IF c = cell /\ h = hash /\ i = suit THEN n ELSE i
  <2>15. ASSUME NEW c \in Cells, NEW h \in Hashes,
                NEW i \in 1..Len(r.root[c][h].list)
         PROVE  /\ From(c, h, i) \in 1..Len(s.root[c][h].list)
                /\ r.root[c][h].list[i] = s.root[c][h].list[From(c, h, i)]
                /\ ~ (c = cell /\ h = hash /\ From(c, h, i) = suit)
    <3>1. CASE c = cell /\ h = hash
      <4>1. i \in 1..(n - 1) /\ r.root[c][h].list = shorter
        BY <2>12, <2>13, <2>14, <3>1
      <4>2. i \in 1..n /\ n \in 1..n /\ i # n
        BY ONLY <4>1, <2>3, <1>2
      <4>3. shorter[i] = l[IF i = suit THEN n ELSE i]
        BY <2>2, <4>1
      <4> QED
        BY <3>1, <4>1, <4>2, <4>3
    <3>2. CASE ~ (c = cell /\ h = hash)
      <4>1. From(c, h, i) = i /\ r.root[c][h] = s.root[c][h]
        BY <2>12, <3>2
      <4> QED
        BY <3>2, <4>1
    <3> QED
      BY <3>1, <3>2
  <2>16. ASSUME NEW c \in Cells, NEW h \in Hashes,
                NEW i \in 1..Len(r.root[c][h].list),
                NEW j \in 1..Len(r.root[c][h].list),
                From(c, h, i) = From(c, h, j)
         PROVE  i = j
    <3>1. CASE c = cell /\ h = hash
      <4>1. i \in 1..(n - 1) /\ j \in 1..(n - 1)
        BY <2>14, <3>1
      <4>2. i # n /\ j # n
        BY ONLY <4>1, <2>3, <1>2
      <4> QED
        BY <2>16, <3>1, <4>2
    <3>2. CASE ~ (c = cell /\ h = hash)
      BY <2>16, <3>2
    <3> QED
      BY <3>1, <3>2
  <2> HIDE DEF From
  <2>17. ListsOK(r)
    <3>1. ASSUME NEW c \in Cells, NEW h \in Hashes PROVE ListOK(r.root[c][h])
      <4>1. ListOK(s.root[c][h]) /\ ListOK(s.root[cell][hash])
        BY <1>1 DEF ListsOK
      <4>2. CASE c = cell /\ h = hash
        <5>1. n <= DistsPerEntry
          BY <4>1 DEF ListOK
        <5>2. n - 1 <= DistsPerEntry
          BY ONLY <5>1, <1>2, Sizes
        <5> QED
          BY <2>2, <2>12, <2>13, <4>2, <5>2 DEF ListOK
      <4>3. CASE ~ (c = cell /\ h = hash)
        BY <2>12, <4>1, <4>3
      <4> QED
        BY <4>2, <4>3
    <3> QED
      BY <3>1 DEF ListsOK
  <2>18. \A x \in Blocks : r.block[x] = IF x = b THEN emptied ELSE s.block[x]
    BY <1>2, <2>4, <2>10
  <2>19. BlocksOK(r)
    <3>1. BlockOK(emptied)
      <4>1. emptied.match = <<>> /\ emptied.write = 0 /\ Len(<<>>) = 0
        BY DEF emptied
      <4> QED
        BY <4>1, Sizes DEF BlockOK
    <3> QED
      BY <1>1, <2>18, <3>1 DEF BlocksOK
  <2>20. FiledOnce(r)
    <3>1. SUFFICES ASSUME NEW c \in Cells, NEW d \in Cells,
                          NEW g \in Hashes, NEW h \in Hashes,
                          NEW i \in 1..Len(r.root[c][g].list),
                          NEW j \in 1..Len(r.root[d][h].list),
                          r.root[c][g].list[i].block = r.root[d][h].list[j].block
                   PROVE  c = d /\ g = h /\ i = j
      BY DEF FiledOnce
    <3>2. /\ From(c, g, i) \in 1..Len(s.root[c][g].list)
          /\ From(d, h, j) \in 1..Len(s.root[d][h].list)
          /\ s.root[c][g].list[From(c, g, i)].block
               = s.root[d][h].list[From(d, h, j)].block
      BY <2>15, <3>1
    <3>3. PICK x \in 1..Len(s.root[c][g].list) : x = From(c, g, i)
      BY <3>2
    <3>4. PICK y \in 1..Len(s.root[d][h].list) : y = From(d, h, j)
      BY <3>2
    <3>5. s.root[c][g].list[x].block = s.root[d][h].list[y].block
      BY ONLY <3>2, <3>3, <3>4
    <3>6. c = d /\ g = h /\ x = y
      BY ONLY <1>1, <3>5, OnePlace, c \in Cells, d \in Cells, g \in Hashes,
              h \in Hashes, x \in 1..Len(s.root[c][g].list),
              y \in 1..Len(s.root[d][h].list)
    <3> QED
      BY <2>16, <3>3, <3>4, <3>6
  <2>21. Fewer(t, r)
    <3>0. ASSUME NEW c \in Cells, NEW h \in Hashes
          PROVE  Len(r.root[c][h].list) <= Len(t.root[c][h].list)
      <4>1. Len(r.root[c][h].list) \in Nat /\ Len(s.root[c][h].list) \in Nat
            /\ Len(t.root[c][h].list) \in Nat
        BY <1>1, <2>9, FilingFacts
      <4>2. Len(s.root[c][h].list) <= Len(t.root[c][h].list)
        BY ONLY <1>1, c \in Cells, h \in Hashes DEF Fewer
      <4>3. Len(r.root[c][h].list) <= Len(s.root[c][h].list)
        <5>1. n - 1 <= n
          <6> HIDE DEF n
          <6> QED
            BY ONLY <1>2
        <5> QED
          BY <2>14, <4>1, <5>1
      <4> QED
        BY ONLY <4>1, <4>2, <4>3, Transitive
    <3>1. SUFFICES ASSUME NEW c \in Cells, NEW h \in Hashes,
                          NEW i \in 1..Len(r.root[c][h].list)
                   PROVE  \E j \in 1..Len(t.root[c][h].list) :
                            r.root[c][h].list[i] = t.root[c][h].list[j]
      BY <3>0 DEF Fewer
    <3>2. From(c, h, i) \in 1..Len(s.root[c][h].list)
          /\ r.root[c][h].list[i] = s.root[c][h].list[From(c, h, i)]
      BY <2>15
    <3>3. \A k \in 1..Len(s.root[c][h].list) : \E j \in 1..Len(t.root[c][h].list) :
            s.root[c][h].list[k] = t.root[c][h].list[j]
      BY <1>1 DEF Fewer
    <3> QED
      BY <3>2, <3>3
  <2>22. Emptier(t, r)
    <3>1. emptied.match = <<>>
      BY DEF emptied
    <3> QED
      BY <1>1, <2>18, <3>1 DEF Emptier
  <2>23. \A x \in Blocks : Unfiled(s, x) => Unfiled(r, x)
    <3>1. SUFFICES ASSUME NEW x \in Blocks, Unfiled(s, x),
                          NEW c \in Cells, NEW h \in Hashes,
                          NEW i \in 1..Len(r.root[c][h].list)
                   PROVE  r.root[c][h].list[i].block # x
      BY DEF Unfiled
    <3>2. From(c, h, i) \in 1..Len(s.root[c][h].list)
          /\ r.root[c][h].list[i] = s.root[c][h].list[From(c, h, i)]
      BY <2>15
    <3>3. \A k \in 1..Len(s.root[c][h].list) : s.root[c][h].list[k].block # x
      BY <3>1 DEF Unfiled
    <3> QED
      BY <3>2, <3>3
  <2>24. Unfiled(r, b)
    <3>1. SUFFICES ASSUME NEW c \in Cells, NEW h \in Hashes,
                          NEW i \in 1..Len(r.root[c][h].list),
                          r.root[c][h].list[i].block = b
                   PROVE  FALSE
      BY DEF Unfiled
    <3>2. /\ From(c, h, i) \in 1..Len(s.root[c][h].list)
          /\ s.root[c][h].list[From(c, h, i)].block
               = s.root[cell][hash].list[suit].block
      BY <2>15, <3>1
    <3>3. PICK x \in 1..Len(s.root[c][h].list) : x = From(c, h, i)
      BY <3>2
    <3>4. s.root[c][h].list[x].block = s.root[cell][hash].list[suit].block
      BY ONLY <3>2, <3>3
    <3>5. c = cell /\ h = hash /\ x = suit
      BY ONLY <1>1, <3>4, OnePlace, c \in Cells, h \in Hashes, cell \in Cells,
              hash \in Hashes, x \in 1..Len(s.root[c][h].list),
              suit \in 1..Len(s.root[cell][hash].list), SMTT(20)
    <3> QED
      BY <2>15, <3>3, <3>5
  <2>25. InUse(t, b)
    <3>1. PICK j \in 1..Len(t.root[cell][hash].list) :
             l[suit] = t.root[cell][hash].list[j]
      BY <1>1, SMTT(20) DEF Fewer
    <3> QED
      BY <3>1 DEF FiledInUse
  <2>26. Taken(t, r)
    <3> DEFINE k == Len(s.old)
    <3>1. k \in Nat /\ k <= BlocksPerPage /\ k # BlocksPerPage
      BY <1>1, <1>4, <2>4 DEF Taken
    <3>2. /\ Len(r.old) = k + 1 /\ r.old[k + 1] = b
          /\ \A i \in 1..k : r.old[i] = s.old[i] /\ s.old[i] \in Blocks
      BY <1>2, <2>4, <2>10, AppendProperties
    <3> HIDE DEF k
    <3>3. k + 1 <= BlocksPerPage
      BY <3>1, Sizes
    <3>4. \A i \in 1..k : InUse(t, s.old[i]) /\ Unfiled(s, s.old[i]) /\ s.old[i] # b
      <4>1. \A i \in 1..k : InUse(t, s.old[i]) /\ Unfiled(s, s.old[i])
        BY <1>1 DEF Taken, k
      <4>2. ~ Unfiled(s, b)
        BY DEF Unfiled
      <4> QED
        BY <4>1, <4>2
    <3>5. \A i \in 1..(k + 1) : i \in 1..k \/ i = k + 1
      BY <3>1, SMTT(20)
    <3>6. \A i \in 1..(k + 1) : InUse(t, r.old[i]) /\ Unfiled(r, r.old[i])
      BY <2>23, <2>24, <2>25, <3>2, <3>4, <3>5
    <3>7. \A i, j \in 1..(k + 1) : r.old[i] = r.old[j] => i = j
      <4>1. \A i, j \in 1..k : s.old[i] = s.old[j] => i = j
        BY <1>1 DEF Taken, k
      <4> QED
        BY <3>2, <3>4, <3>5, <4>1
    <3> QED
      BY <3>2, <3>3, <3>6, <3>7 DEF Taken
  <2>27. Len(r.root[cell][hash].list) >= n - 1
    <3>1. Len(r.root[cell][hash].list) = n - 1
      BY <2>14
    <3> QED
      BY <3>1, <2>3
  <2> QED
    BY <2>1, <2>9, <2>11, <2>17, <2>19, <2>20, <2>21, <2>22, <2>26, <2>27, SMTT(20)
    DEF Harvests
<1> QED
  BY <1>3, <1>4


(* The steps of a harvest through one list. *)
LEMMA HarvestListKeeps ==
  ASSUME NEW t \in LargeTables, FiledInUse(t), NEW first \in Harvests(t),
         NEW cell \in Cells, NEW hash \in Hashes
  PROVE  HarvestList(first, cell, hash) \in Harvests(t)
<1> DEFINE n == Len(first.root[cell][hash].list)
           places == [i \in 1..n |-> n + 1 - i]
           V == Harvests(t)
           U == [k \in 0..n |-> {v \in V : Len(v.root[cell][hash].list) >= n - k}]
           G == [x \in V \X (1..n) |-> HarvestPlace(x[1], cell, hash, places[x[2]])]
           R(iter) == iter = [s \in SUBSET DOMAIN places |->
                        IF s = {} THEN first
                        ELSE HarvestPlace(iter[s \ {Max(s)}], cell, hash,
                                          places[Max(s)])]
<1>1. HarvestList(first, cell, hash) = (CHOOSE iter : R(iter))[DOMAIN places]
  BY Zenon DEF HarvestList, FoldLeft, MapThenFoldSet
<1>2. n \in Nat
  <2>1. first \in LargeTables
    BY DEF Harvests
  <2> QED
    BY <2>1, FilingFacts
<1> HIDE DEF n
<1>3. DOMAIN places = 1..n /\ \A j \in 1..n : places[j] = n + 1 - j
  OBVIOUS
<1> HIDE DEF places
<1>4. ASSUME NEW v \in V PROVE Len(v.root[cell][hash].list) \in Nat
  <2>1. v \in LargeTables
    BY DEF Harvests
  <2> QED
    BY <2>1, FilingFacts
<1> HIDE DEF V
<1>5. U \in [0..n -> SUBSET V]
  OBVIOUS
<1>6. Growing(U, n)
  <2>1. ASSUME NEW j \in 0..n, NEW k \in 0..n, j <= k, NEW v \in U[j]
        PROVE  v \in U[k]
    <3> DEFINE m == Len(v.root[cell][hash].list)
    <3>1. v \in V /\ m >= n - j
      OBVIOUS
    <3>2. m \in Nat
      BY <1>4, <3>1
    <3> HIDE DEF m
    <3>3. m >= n - k
      BY ONLY <1>2, <2>1, <3>1, <3>2
    <3> QED
      BY <3>1, <3>3 DEF m
  <2> QED
    BY <2>1 DEF Growing
<1>7. first \in U[0]
  <2>1. n >= n - 0 /\ 0 \in 0..n
    BY ONLY <1>2
  <2> QED
    BY <2>1 DEF V, n
<1>8. ASSUME NEW j \in 1..n, NEW v \in U[j - 1]
      PROVE  HarvestPlace(v, cell, hash, places[j]) \in U[j]
  <2> DEFINE m == Len(v.root[cell][hash].list)
             w == HarvestPlace(v, cell, hash, n + 1 - j)
             o == Len(w.root[cell][hash].list)
  <2>1. j - 1 \in 0..n /\ j \in 0..n
    BY ONLY <1>2, j \in 1..n
  <2>2. v \in V /\ m >= n - (j - 1)
    BY <2>1
  <2>3. m \in Nat
    BY <1>4, <2>2
  <2> HIDE DEF m
  <2>4. n + 1 - j \in 1..m
    BY ONLY <1>2, <2>2, <2>3, j \in 1..n
  <2>5. w \in V /\ o >= m - 1
    BY <2>2, <2>4, HarvestPlaceKeeps DEF V, m
  <2> HIDE DEF w
  <2>6. o \in Nat
    BY <1>4, <2>5
  <2> HIDE DEF o
  <2>7. o >= n - j
    BY ONLY <1>2, <2>2, <2>3, <2>5, <2>6, j \in 1..n
  <2>8. w \in U[j]
    BY <2>1, <2>5, <2>7 DEF o
  <2> QED
    BY <1>3, <2>8 DEF w
<1> HIDE DEF U
<1>9. \A j \in 1..n : \A v \in U[j - 1] : G[<<v, j>>] \in U[j]
  <2>1. ASSUME NEW j \in 1..n, NEW v \in U[j - 1] PROVE G[<<v, j>>] \in U[j]
    <3>1. j - 1 \in 0..n
      BY ONLY <1>2, j \in 1..n
    <3>2. v \in V
      BY <1>5, <3>1
    <3> QED
      BY <1>8, <3>2
  <2> QED
    BY <2>1, Zenon
<1>10. \E iter : R(iter)
  <2> HIDE DEF G
  <2>1. PICK iter : /\ Steps(iter, n, first, G)
                    /\ \A k \in 0..n : \A s \in SUBSET (1..k) : iter[s] \in U[k]
    BY ONLY <1>2, <1>5, <1>6, <1>7, <1>9, FoldStepsWithin
  <2> DEFINE fold == [s \in SUBSET (1..n) |-> iter[s]]
  <2>2. ASSUME NEW s \in SUBSET (1..n)
        PROVE  fold[s] = IF s = {} THEN first
                         ELSE HarvestPlace(fold[s \ {Max(s)}], cell, hash,
                                           places[Max(s)])
    <3>1. CASE s = {}
      BY <2>1, <3>1 DEF Steps
    <3>2. CASE s # {}
      <4>1. Max(s) \in 1..n
        BY <1>2, <3>2, MaxOf
      <4>2. s \ {Max(s)} \in SUBSET (1..n)
        OBVIOUS
      <4>3. iter[s \ {Max(s)}] \in V
        <5>1. iter[s \ {Max(s)}] \in U[n] /\ n \in 0..n
          BY <1>2, <2>1, <4>2
        <5> QED
          BY <1>5, <5>1
      <4>4. G[<<iter[s \ {Max(s)}], Max(s)>>]
              = HarvestPlace(iter[s \ {Max(s)}], cell, hash, places[Max(s)])
        BY <4>1, <4>3 DEF G
      <4>5. iter[s] = G[<<iter[s \ {Max(s)}], Max(s)>>]
        BY <2>1, <3>2 DEF Steps
      <4> QED
        BY <3>2, <4>2, <4>4, <4>5
    <3> QED
      BY <3>1, <3>2
  <2>3. R(fold)
    BY <1>3, <2>2
  <2> QED
    BY <2>3
<1> DEFINE iter == CHOOSE iter : R(iter)
<1>11. R(iter)
  <2> HIDE DEF R
  <2> QED
    BY <1>10
<1>12. iter[1..n] \in U[n]
  <2> HIDE DEF iter
  <2>1. iter[{}] \in U[0]
    <3>1. iter[{}] = first
      BY <1>3, <1>11
    <3> QED
      BY <1>7, <3>1
  <2>2. ASSUME NEW s \in SUBSET (1..n), s # {}, iter[s \ {Max(s)}] \in U[Max(s) - 1]
        PROVE  iter[s] \in U[Max(s)]
    <3>1. iter[s] = HarvestPlace(iter[s \ {Max(s)}], cell, hash, places[Max(s)])
      BY <1>3, <1>11, <2>2
    <3>2. Max(s) \in 1..n
      BY <1>2, <2>2, MaxOf
    <3> QED
      BY <1>8, <2>2, <3>1, <3>2
  <2> QED
    BY ONLY <1>2, <1>6, <2>1, <2>2, FoldWithin
<1>13. n \in 0..n
  BY <1>2
<1> QED
  BY <1>1, <1>3, <1>5, <1>12, <1>13 DEF V

LEMMA HarvestCellKeeps ==
  ASSUME NEW t \in LargeTables, FiledInUse(t), NEW first \in Harvests(t),
         NEW cell \in Cells
  PROVE  HarvestCell(first, cell) \in Harvests(t)
<1> DEFINE n == HashKeys
           hashes == [i \in 1..n |-> i - 1]
           V == Harvests(t)
           G == [x \in V \X (1..n) |-> HarvestList(x[1], cell, hashes[x[2]])]
           R(iter) == iter = [s \in SUBSET DOMAIN hashes |->
                        IF s = {} THEN first
                        ELSE HarvestList(iter[s \ {Max(s)}], cell, hashes[Max(s)])]
<1>1. HarvestCell(first, cell) = (CHOOSE iter : R(iter))[DOMAIN hashes]
  BY Zenon DEF HarvestCell, FoldLeft, MapThenFoldSet
<1>2. n \in Nat
  BY Sizes
<1>3. DOMAIN hashes = 1..n /\ \A j \in 1..n : hashes[j] \in Hashes
  <2>1. ASSUME NEW j \in 1..n PROVE j - 1 \in 0..(n - 1)
    BY ONLY <1>2, j \in 1..n
  <2> QED
    BY <2>1 DEF Hashes
<1> HIDE DEF n, hashes
<1>4. ASSUME NEW v \in V, NEW j \in 1..n
      PROVE  HarvestList(v, cell, hashes[j]) \in V
  BY <1>3, HarvestListKeeps
<1> HIDE DEF V
<1>5. G \in [V \X (1..n) -> V]
  <2>1. ASSUME NEW x \in V \X (1..n) PROVE HarvestList(x[1], cell, hashes[x[2]]) \in V
    BY <1>4
  <2> QED
    BY <2>1
<1>6. first \in V
  BY DEF V
<1>7. \E iter : R(iter)
  <2> HIDE DEF G
  <2>1. PICK iter \in [SUBSET (1..n) -> V] : Steps(iter, n, first, G)
    BY ONLY <1>2, <1>5, <1>6, FoldSteps
  <2>2. ASSUME NEW s \in SUBSET (1..n)
        PROVE  iter[s] = IF s = {} THEN first
                         ELSE HarvestList(iter[s \ {Max(s)}], cell, hashes[Max(s)])
    <3>1. CASE s = {}
      BY <2>1, <3>1 DEF Steps
    <3>2. CASE s # {}
      <4>1. Max(s) \in 1..n
        BY <1>2, <3>2, MaxOf
      <4>2. iter[s \ {Max(s)}] \in V
        BY <2>1
      <4>3. G[<<iter[s \ {Max(s)}], Max(s)>>]
              = HarvestList(iter[s \ {Max(s)}], cell, hashes[Max(s)])
        BY <4>1, <4>2 DEF G
      <4> QED
        BY <2>1, <3>2, <4>3 DEF Steps
    <3> QED
      BY <3>1, <3>2
  <2>3. R(iter)
    BY <1>3, <2>1, <2>2
  <2> QED
    BY <2>3
<1> DEFINE iter == CHOOSE iter : R(iter)
<1>8. R(iter)
  <2> HIDE DEF R
  <2> QED
    BY <1>7
<1>9. iter[1..n] \in V
  <2> HIDE DEF iter
  <2>1. iter[{}] \in V
    BY <1>3, <1>6, <1>8
  <2>2. ASSUME NEW s \in SUBSET (1..n), s # {}, iter[s \ {Max(s)}] \in V
        PROVE  iter[s] \in V
    <3>1. iter[s] = HarvestList(iter[s \ {Max(s)}], cell, hashes[Max(s)])
      BY <1>3, <1>8, <2>2
    <3>2. Max(s) \in 1..n
      BY <1>2, <2>2, MaxOf
    <3> QED
      BY <1>4, <2>2, <3>1, <3>2
  <2> QED
    BY ONLY <1>2, <2>1, <2>2, FoldKeeps
<1> QED
  BY <1>1, <1>3, <1>9 DEF V

LEMMA NextCellType ==
  ASSUME NEW cell \in Cells
  PROVE  NextCell(cell) \in Cells
<1> DEFINE later == {h \in Hands : h > cell[2]}
           after == Min(later)
<1>1. cell[1] \in 0..(TtTricks - 1) /\ cell[2] \in Hands
  BY DEF Cells
<1>2. CASE later # {}
  <2>1. later \in SUBSET Nat
    <3>1. Hands \in SUBSET (0..3) /\ 0..3 \subseteq Nat
      BY Sizes
    <3> QED
      BY <3>1
  <2>2. after \in later
    <3> HIDE DEF later
    <3> QED
      BY <1>2, <2>1, MinOf
  <2>3. NextCell(cell) = <<cell[1], after>>
    BY <1>2 DEF NextCell
  <2>4. after \in Hands
    BY <2>2
  <2> HIDE DEF after
  <2> QED
    BY <1>1, <2>3, <2>4 DEF Cells
<1>3. CASE later = {}
  <2>1. NextCell(cell)
          = <<IF cell[1] = 0 THEN FirstHarvestTrick ELSE cell[1] - 1, FirstHand>>
    BY <1>3 DEF NextCell
  <2>2. (IF cell[1] = 0 THEN FirstHarvestTrick ELSE cell[1] - 1) \in 0..(TtTricks - 1)
    BY <1>1, Sizes
  <2> QED
    BY <2>1, <2>2, FirstHandType DEF Cells
<1> QED
  BY <1>2, <1>3

(* What does not depend on old and from. *)
LEMMA OtherParts ==
  ASSUME NEW t \in LargeTables, NEW s \in LargeTables, NEW r \in LargeTables,
         SameMemory(s, r), r.root = s.root, r.block = s.block,
         SameMemory(t, s), ListsOK(s), BlocksOK(s), FiledOnce(s),
         Fewer(t, s), Emptier(t, s)
  PROVE  /\ SameMemory(t, r) /\ ListsOK(r) /\ BlocksOK(r) /\ FiledOnce(r)
         /\ Fewer(t, r) /\ Emptier(t, r)
<1>1. SameMemory(t, r)
  BY DEF SameMemory
<1>2. ListsOK(r)
  BY DEF ListsOK
<1>3. BlocksOK(r)
  BY DEF BlocksOK
<1>4. FiledOnce(r)
  BY DEF FiledOnce
<1>5. Fewer(t, r)
  <2>0. \A c \in Cells, h \in Hashes :
          Len(r.root[c][h].list) <= Len(t.root[c][h].list)
    BY DEF Fewer
  <2>1. SUFFICES ASSUME NEW c \in Cells, NEW h \in Hashes,
                        NEW i \in 1..Len(r.root[c][h].list)
                 PROVE  \E j \in 1..Len(t.root[c][h].list) :
                          r.root[c][h].list[i] = t.root[c][h].list[j]
    BY <2>0 DEF Fewer
  <2>2. i \in 1..Len(s.root[c][h].list)
    OBVIOUS
  <2>3. \E j \in 1..Len(t.root[c][h].list) :
          s.root[c][h].list[i] = t.root[c][h].list[j]
    BY ONLY <2>2, Fewer(t, s), c \in Cells, h \in Hashes DEF Fewer
  <2> QED
    BY <2>3
<1>6. Emptier(t, r)
  BY DEF Emptier
<1> QED
  BY <1>1, <1>2, <1>3, <1>4, <1>5, <1>6

LEMMA HarvestOnKeeps ==
  ASSUME NEW t \in LargeTables, FiledInUse(t), NEW s \in Harvests(t)
  PROVE  HarvestOn(s) \in Harvests(t)
<1>1. CASE Len(s.old) = BlocksPerPage
  BY <1>1 DEF HarvestOn
<1>2. CASE Len(s.old) # BlocksPerPage
  <2> DEFINE v == HarvestCell(s, s.from)
             next == NextCell(s.from)
             r == [v EXCEPT !.from = next]
  <2>1. s \in LargeTables /\ s.from \in Cells
    <3>1. s \in LargeTables
      BY DEF Harvests
    <3> QED
      BY <3>1, LargeFacts
  <2>2. v \in Harvests(t) /\ next \in Cells
    BY <2>1, HarvestCellKeeps, NextCellType
  <2>3. HarvestOn(s) = r
    BY <1>2 DEF HarvestOn
  <2> HIDE DEF v, next
  <2>4. /\ v \in LargeTables /\ SameMemory(t, v) /\ ListsOK(v) /\ BlocksOK(v)
        /\ FiledOnce(v) /\ Fewer(t, v) /\ Emptier(t, v) /\ Taken(t, v)
    BY <2>2 DEF Harvests
  <2>5. r \in LargeTables
    BY <2>2, <2>4 DEF LargeTables
  <2>6. r.root = v.root /\ r.block = v.block /\ r.old = v.old /\ SameMemory(v, r)
    BY <2>4 DEF LargeTables, SameMemory
  <2> HIDE DEF r
  <2>7. /\ SameMemory(t, r) /\ ListsOK(r) /\ BlocksOK(r) /\ FiledOnce(r)
        /\ Fewer(t, r) /\ Emptier(t, r)
    BY ONLY <2>4, <2>5, <2>6, OtherParts, t \in LargeTables
  <2>8. Taken(t, r)
    BY <2>4, <2>6 DEF Taken, Unfiled
  <2> QED
    BY <2>3, <2>5, <2>7, <2>8 DEF Harvests
<1> QED
  BY <1>1, <1>2

(* A whole harvest: a table with the blocks it took. *)
LEMMA HarvestKeeps ==
  ASSUME NEW t \in LargeTables, LargeOK(t)
  PROVE  Harvest(t) \in Harvests(t)
<1> DEFINE n == Cardinality((0..FirstHarvestTrick) \X Hands)
           rounds == [i \in 1..n |-> i]
           first == [t EXCEPT !.old = <<>>]
           V == Harvests(t)
           G == [x \in V \X (1..n) |-> HarvestOn(x[1])]
           R(iter) == iter = [s \in SUBSET DOMAIN rounds |->
                        IF s = {} THEN first ELSE HarvestOn(iter[s \ {Max(s)}])]
<1>1. Harvest(t) = (CHOOSE iter : R(iter))[DOMAIN rounds]
  BY Zenon DEF Harvest, FoldLeft, MapThenFoldSet
<1>2. n \in Nat
  <2>1. IsFiniteSet(0..FirstHarvestTrick) /\ IsFiniteSet(Hands)
    <3>1. FirstHarvestTrick \in Int /\ 0 \in Int /\ 3 \in Int
      BY Sizes
    <3>2. IsFiniteSet(0..3) /\ IsFiniteSet(0..FirstHarvestTrick)
      BY ONLY <3>1, FS_Interval
    <3> QED
      BY <3>2, Sizes, FS_Subset
  <2>2. IsFiniteSet((0..FirstHarvestTrick) \X Hands)
    BY <2>1, FS_Product
  <2> QED
    BY <2>2, FS_CardinalityType
<1> HIDE DEF n
<1>3. DOMAIN rounds = 1..n
  OBVIOUS
<1> HIDE DEF rounds
<1>4. first \in V
  <2>1. first \in LargeTables
    <3>1. <<>> \in Seq(Blocks)
      OBVIOUS
    <3> QED
      BY <3>1 DEF LargeTables
  <2>2. first.root = t.root /\ first.block = t.block /\ first.old = <<>>
        /\ SameMemory(t, first) /\ SameMemory(t, t)
    BY DEF LargeTables, SameMemory
  <2> HIDE DEF first
  <2>3. ListsOK(t) /\ BlocksOK(t) /\ FiledOnce(t)
    BY DEF LargeOK
  <2>4. Fewer(t, t) /\ Emptier(t, t)
    <3>1. \A c \in Cells, h \in Hashes : Len(t.root[c][h].list) \in Nat
      BY FilingFacts
    <3> QED
      BY <3>1 DEF Fewer, Emptier
  <2>5. /\ SameMemory(t, first) /\ ListsOK(first) /\ BlocksOK(first)
        /\ FiledOnce(first) /\ Fewer(t, first) /\ Emptier(t, first)
    BY ONLY <2>1, <2>2, <2>3, <2>4, OtherParts, t \in LargeTables
  <2>6. Taken(t, first)
    <3>1. Len(first.old) = 0 /\ 1..0 = {}
      BY <2>2
    <3> QED
      BY <3>1, Sizes DEF Taken
  <2> QED
    BY <2>1, <2>5, <2>6 DEF Harvests
<1> HIDE DEF first
<1>5. ASSUME NEW v \in V PROVE HarvestOn(v) \in V
  BY HarvestOnKeeps DEF LargeOK
<1> HIDE DEF V
<1>6. G \in [V \X (1..n) -> V]
  <2>1. ASSUME NEW x \in V \X (1..n) PROVE HarvestOn(x[1]) \in V
    BY <1>5
  <2> QED
    BY <2>1
<1>7. \E iter : R(iter)
  <2> HIDE DEF G
  <2>1. PICK iter \in [SUBSET (1..n) -> V] : Steps(iter, n, first, G)
    BY ONLY <1>2, <1>4, <1>6, FoldSteps
  <2>2. ASSUME NEW s \in SUBSET (1..n)
        PROVE  iter[s] = IF s = {} THEN first ELSE HarvestOn(iter[s \ {Max(s)}])
    <3>1. CASE s = {}
      BY <2>1, <3>1 DEF Steps
    <3>2. CASE s # {}
      <4>1. Max(s) \in 1..n
        BY <1>2, <3>2, MaxOf
      <4>2. iter[s \ {Max(s)}] \in V
        BY <2>1
      <4>3. G[<<iter[s \ {Max(s)}], Max(s)>>] = HarvestOn(iter[s \ {Max(s)}])
        BY <4>1, <4>2 DEF G
      <4> QED
        BY <2>1, <3>2, <4>3 DEF Steps
    <3> QED
      BY <3>1, <3>2
  <2>3. R(iter)
    BY <1>3, <2>1, <2>2
  <2> QED
    BY <2>3
<1> DEFINE iter == CHOOSE iter : R(iter)
<1>8. R(iter)
  <2> HIDE DEF R
  <2> QED
    BY <1>7
<1>9. iter[1..n] \in V
  <2> HIDE DEF iter
  <2>1. iter[{}] \in V
    BY <1>3, <1>4, <1>8
  <2>2. ASSUME NEW s \in SUBSET (1..n), s # {}, iter[s \ {Max(s)}] \in V
        PROVE  iter[s] \in V
    <3>1. iter[s] = HarvestOn(iter[s \ {Max(s)}])
      BY <1>3, <1>8, <2>2
    <3> QED
      BY <1>5, <2>2, <3>1
  <2> QED
    BY ONLY <1>2, <2>1, <2>2, FoldKeeps
<1> QED
  BY <1>1, <1>3, <1>9 DEF V

-----------------------------------------------------------------------------
(* get_next_card_block.                                                    *)

(* A block that is filed nowhere and will not be handed out again, while   *)
(* the table keeps what it promised.                                       *)
Granted(t, got) ==
  /\ LargeOK(got.t) /\ got.t.at > 0
  /\ got.block \in Blocks /\ InUse(got.t, got.block) /\ Unfiled(got.t, got.block)
  /\ got.t.state = "harvest" =>
       \A i \in (got.t.oldNo + 1)..BlocksPerPage : got.t.old[i] # got.block
  /\ Fewer(t, got.t) /\ Emptier(t, got.t)

LEMMA SameIsFewer ==
  ASSUME NEW t \in LargeTables, NEW s, s.root = t.root, s.block = t.block
  PROVE  Fewer(t, s) /\ Emptier(t, s)
<1>1. \A c \in Cells, h \in Hashes : Len(t.root[c][h].list) \in Nat
  BY FilingFacts
<1> QED
  BY <1>1 DEF Fewer, Emptier

LEMMA BlankIsFewer ==
  ASSUME NEW t \in LargeTables, NEW s, s.root = EmptyRoot,
         s.block = [b \in Blocks |-> RawBlock]
  PROVE  Fewer(t, s) /\ Emptier(t, s)
<1>1. \A c \in Cells, h \in Hashes :
        /\ Len(t.root[c][h].list) \in Nat /\ s.root[c][h].list = <<>>
        /\ Len(s.root[c][h].list) = 0 /\ 1..Len(s.root[c][h].list) = {}
  <2>1. \A c \in Cells, h \in Hashes : Len(t.root[c][h].list) \in Nat
    BY FilingFacts
  <2>2. Len(<<>>) = 0 /\ 1..0 = {}
    OBVIOUS
  <2> QED
    BY <2>1, <2>2, EmptyParts
<1>2. \A b \in Blocks : s.block[b].match = <<>>
  BY DEF RawBlock
<1> QED
  BY <1>1, <1>2 DEF Fewer, Emptier

LEMMA GainedOK ==
  ASSUME NEW t \in LargeTables, LargeOK(t), NEW got, Gained(t, got)
  PROVE  Granted(t, got)
<1> DEFINE r == got.t
           b == got.block
<1>1. /\ r \in LargeTables /\ PagesOK(r) /\ r.at > 0
      /\ r.root = t.root /\ r.block = t.block
      /\ r.state = t.state /\ r.old = t.old /\ r.oldNo = t.oldNo
      /\ b \in Blocks /\ InUse(r, b) /\ ~ InUse(t, b)
      /\ \A x \in Blocks : InUse(t, x) => InUse(r, x)
  BY DEF Gained
<1>2. /\ ListsOK(t) /\ BlocksOK(t) /\ FiledInUse(t) /\ FiledOnce(t) /\ Handing(t)
  BY DEF LargeOK
<1> HIDE DEF r, b
<1>3. ListsOK(r) /\ BlocksOK(r) /\ FiledOnce(r)
  BY <1>1, <1>2 DEF ListsOK, BlocksOK, FiledOnce
<1>4. \A c \in Cells, h \in Hashes : \A i \in 1..Len(t.root[c][h].list) :
        t.root[c][h].list[i].block \in Blocks /\ InUse(t, t.root[c][h].list[i].block)
  BY <1>2, FilingFacts DEF FiledInUse
<1>5. FiledInUse(r)
  BY <1>1, <1>4 DEF FiledInUse
<1>6. Unfiled(r, b)
  BY <1>1, <1>4 DEF Unfiled
<1>7. Handing(r) /\ (r.state = "harvest" =>
                       \A i \in (r.oldNo + 1)..BlocksPerPage : r.old[i] # b)
  <2>1. CASE r.state # "harvest"
    BY <2>1 DEF Handing
  <2>2. CASE r.state = "harvest"
    <3>1. /\ Len(t.old) = BlocksPerPage /\ t.oldNo \in 1..BlocksPerPage
          /\ \A i, j \in 1..BlocksPerPage : t.old[i] = t.old[j] => i = j
          /\ \A i \in 1..BlocksPerPage : InUse(t, t.old[i])
          /\ \A i \in (t.oldNo + 1)..BlocksPerPage : Unfiled(t, t.old[i])
      BY <1>1, <1>2, <2>2 DEF Handing
    <3>2. \A i \in 1..BlocksPerPage : t.old[i] \in Blocks
      BY <3>1, LargeFacts
    <3>3. \A x : Unfiled(t, x) => Unfiled(r, x)
      BY <1>1 DEF Unfiled
    <3>4. \A i \in 1..BlocksPerPage : InUse(r, t.old[i]) /\ t.old[i] # b
      BY <1>1, <3>1, <3>2
    <3>5. \A i \in (t.oldNo + 1)..BlocksPerPage : i \in 1..BlocksPerPage
      BY <3>1, Sizes
    <3>6. Handing(r)
      BY <1>1, <3>1, <3>3, <3>4 DEF Handing
    <3> QED
      BY <1>1, <3>4, <3>5, <3>6
  <2> QED
    BY <2>1, <2>2
<1>8. Fewer(t, r) /\ Emptier(t, r)
  BY <1>1, SameIsFewer
<1> QED
  BY <1>1, <1>3, <1>5, <1>6, <1>7, <1>8 DEF LargeOK, Granted, r, b

LEMMA FromHarvestOK ==
  ASSUME NEW t \in LargeTables, LargeOK(t), t.at > 0
  PROVE  Granted(t, FromHarvest(t))
<1> DEFINE h == Harvest(t)
<1>1. /\ h \in LargeTables /\ SameMemory(t, h) /\ ListsOK(h) /\ BlocksOK(h)
      /\ FiledOnce(h) /\ Fewer(t, h) /\ Emptier(t, h) /\ Taken(t, h)
  BY HarvestKeeps DEF Harvests
<1>2. PagesOK(t) /\ FiledInUse(t)
  BY DEF LargeOK
<1> HIDE DEF h
<1>3. PagesOK(h)
  BY <1>1, <1>2 DEF SameMemory, PagesOK, PageList, NextInPage
<1>4. h.at > 0
  BY <1>1 DEF SameMemory
<1>5. CASE Len(h.old) = BlocksPerPage
  <2> DEFINE r == [h EXCEPT !.state = "harvest", !.oldNo = 1]
  <2>1. FromHarvest(t).t = r /\ FromHarvest(t).block = h.old[1]
    BY <1>5 DEF FromHarvest, h
  <2>2. r \in LargeTables
    BY <1>1 DEF LargeTables
  <2>3. /\ r.def = h.def /\ r.max = h.max /\ r.chain = h.chain /\ r.at = h.at
        /\ r.pages = h.pages /\ r.used = h.used /\ r.next = h.next
        /\ r.lost = h.lost /\ r.crashed = h.crashed
        /\ r.root = h.root /\ r.block = h.block
        /\ r.state = "harvest" /\ r.old = h.old /\ r.oldNo = 1
    BY <1>1 DEF LargeTables
  <2> HIDE DEF r
  <2>4. PagesOK(r)
    BY <1>3, <2>3 DEF PagesOK, PageList, NextInPage
  <2>5. ListsOK(r) /\ BlocksOK(r) /\ FiledOnce(r)
    <3>1. r.root = h.root /\ r.block = h.block
      BY <2>3
    <3>2. ListsOK(h) /\ BlocksOK(h) /\ FiledOnce(h)
      BY <1>1
    <3>3. ListsOK(r)
      BY ONLY <3>1, <3>2 DEF ListsOK
    <3>4. BlocksOK(r)
      BY ONLY <3>1, <3>2 DEF BlocksOK
    <3>5. FiledOnce(r)
      BY ONLY <3>1, <3>2 DEF FiledOnce
    <3> QED
      BY <3>3, <3>4, <3>5
  <2>6. \A x : /\ InUse(t, x) => InUse(r, x)
               /\ Unfiled(h, x) => Unfiled(r, x)
    BY <1>1, <2>3 DEF InUse, Unfiled, SameMemory
  <2>7. FiledInUse(r)
    <3>1. SUFFICES ASSUME NEW c \in Cells, NEW g \in Hashes,
                          NEW i \in 1..Len(r.root[c][g].list)
                   PROVE  InUse(r, r.root[c][g].list[i].block)
      BY DEF FiledInUse
    <3>2. i \in 1..Len(h.root[c][g].list)
      BY <2>3
    <3>3. PICK j \in 1..Len(t.root[c][g].list) :
             h.root[c][g].list[i] = t.root[c][g].list[j]
      BY ONLY <1>1, <3>2, c \in Cells, g \in Hashes DEF Fewer
    <3>4. InUse(t, t.root[c][g].list[j].block)
      BY <1>2 DEF FiledInUse
    <3> QED
      BY <2>3, <2>6, <3>3, <3>4
  <2>8. /\ \A i, j \in 1..BlocksPerPage : h.old[i] = h.old[j] => i = j
        /\ \A i \in 1..BlocksPerPage : InUse(t, h.old[i]) /\ Unfiled(h, h.old[i])
    BY <1>1, <1>5 DEF Taken
  <2>9. 1 \in 1..BlocksPerPage
        /\ \A i \in (1 + 1)..BlocksPerPage : i \in 1..BlocksPerPage /\ i # 1
    BY Sizes
  <2>10. Handing(r)
    BY <1>4, <1>5, <2>3, <2>6, <2>8, <2>9 DEF Handing
  <2>11. /\ h.old[1] \in Blocks /\ InUse(r, h.old[1]) /\ Unfiled(r, h.old[1])
         /\ \A i \in (1 + 1)..BlocksPerPage : r.old[i] # h.old[1]
    <3>1. h.old[1] \in Blocks
      BY <1>1, <1>5, <2>9, LargeFacts
    <3> QED
      BY <2>3, <2>6, <2>8, <2>9, <3>1
  <2>12. Fewer(t, r) /\ Emptier(t, r)
    BY <1>1, <2>3 DEF Fewer, Emptier
  <2> QED
    BY <1>4, <2>1, <2>2, <2>3, <2>4, <2>5, <2>7, <2>10, <2>11, <2>12
    DEF LargeOK, Granted
<1>6. CASE Len(h.old) # BlocksPerPage
  <2> DEFINE r == ResetLarge(h)
             got == TakeNext(r)
  <2>1. FromHarvest(t) = got
    BY <1>6 DEF FromHarvest, h
  <2>2. /\ LargeOK(r) /\ Blank(r) /\ r.at = 1 /\ r.state = "pool"
        /\ r.used[r.chain[1]] = 0
    BY <1>1, <1>3, <1>4, ResetOK DEF PagesOK
  <2> HIDE DEF r
  <2>3. r \in LargeTables /\ PagesOK(r) /\ r.used[r.chain[r.at]] # BlocksPerPage
    BY <2>2, Sizes DEF LargeOK
  <2>4. Gained(r, got)
    BY <2>2, <2>3, TakeNextGains
  <2>5. Granted(r, got) /\ got.t.root = r.root /\ got.t.block = r.block
    BY <2>2, <2>3, <2>4, GainedOK DEF Gained
  <2>6. Fewer(t, got.t) /\ Emptier(t, got.t)
    BY <2>2, <2>5, BlankIsFewer DEF Blank
  <2> QED
    BY <2>1, <2>5, <2>6 DEF Granted
<1> QED
  BY <1>5, <1>6

(* The next block of a harvest. *)
LEMMA NextOldOK ==
  ASSUME NEW t \in LargeTables, LargeOK(t), t.at > 0, t.state = "harvest",
         t.oldNo # BlocksPerPage
  PROVE  Granted(t, [t |-> [t EXCEPT !.oldNo = @ + 1], block |-> t.old[t.oldNo + 1]])
<1> DEFINE r == [t EXCEPT !.oldNo = @ + 1]
           n == t.oldNo
<1>1. /\ Len(t.old) = BlocksPerPage /\ n \in 1..BlocksPerPage
      /\ \A i, j \in 1..BlocksPerPage : t.old[i] = t.old[j] => i = j
      /\ \A i \in 1..BlocksPerPage : InUse(t, t.old[i])
      /\ \A i \in (n + 1)..BlocksPerPage : Unfiled(t, t.old[i])
  BY DEF LargeOK, Handing
<1>2. /\ PagesOK(t) /\ ListsOK(t) /\ BlocksOK(t) /\ FiledInUse(t) /\ FiledOnce(t)
  BY DEF LargeOK
<1>3. n + 1 \in Nat
  BY LargeFacts
<1>4. r \in LargeTables
  BY <1>3 DEF LargeTables
<1>5. /\ r.def = t.def /\ r.max = t.max /\ r.chain = t.chain /\ r.at = t.at
      /\ r.pages = t.pages /\ r.used = t.used /\ r.next = t.next
      /\ r.lost = t.lost /\ r.crashed = t.crashed
      /\ r.root = t.root /\ r.block = t.block
      /\ r.state = t.state /\ r.old = t.old /\ r.oldNo = n + 1
  BY DEF LargeTables
<1> HIDE DEF r, n
<1>6. PagesOK(r)
  BY <1>2, <1>5 DEF PagesOK, PageList, NextInPage
<1>7. ListsOK(r) /\ BlocksOK(r) /\ FiledOnce(r)
  BY <1>2, <1>5, SMTT(20) DEF ListsOK, BlocksOK, FiledOnce
<1>8. \A x : /\ InUse(t, x) => InUse(r, x)
             /\ Unfiled(t, x) => Unfiled(r, x)
  BY <1>5 DEF InUse, Unfiled
<1>9. FiledInUse(r)
  BY <1>2, <1>5, <1>8 DEF FiledInUse
<1>10. /\ n + 1 \in 1..BlocksPerPage /\ n + 1 \in (n + 1)..BlocksPerPage
       /\ \A i \in (n + 1 + 1)..BlocksPerPage :
            i \in (n + 1)..BlocksPerPage /\ i \in 1..BlocksPerPage /\ i # n + 1
  <2>1. BlocksPerPage \in Nat /\ n # BlocksPerPage
    BY Sizes DEF n
  <2> QED
    BY ONLY <1>1, <2>1
<1>11. Handing(r)
  BY <1>1, <1>5, <1>8, <1>10 DEF Handing
<1>12. t.old[n + 1] \in Blocks
  BY <1>1, <1>10, LargeFacts
<1>13. /\ InUse(r, t.old[n + 1]) /\ Unfiled(r, t.old[n + 1])
       /\ \A i \in (n + 1 + 1)..BlocksPerPage : r.old[i] # t.old[n + 1]
  BY <1>1, <1>5, <1>8, <1>10
<1>14. Fewer(t, r) /\ Emptier(t, r)
  BY <1>5, SameIsFewer
<1> QED
  BY <1>4, <1>5, <1>6, <1>7, <1>9, <1>11, <1>12, <1>13, <1>14
  DEF LargeOK, Granted, r, n

LEMMA NextBlockOK ==
  ASSUME NEW t \in LargeTables, LargeOK(t), NEW granted
  PROVE  Granted(t, GetNextCardBlock(t, granted))
<1>1. /\ PageList(t) /\ t.at \in Nat /\ Len(t.chain) \in Nat
      /\ t.pages = Len(t.chain) /\ t.pages <= t.max /\ t.at \in 0..Len(t.chain)
      /\ t.max \in Nat \ {0} /\ t.chain \in Seq(PageIds)
      /\ \A i \in 1..Len(t.chain) : t.chain[i] \in PageIds
  BY LargeFacts DEF LargeOK, PagesOK, PageList
<1>2. CASE t.at = 0
  <2> DEFINE p == NewPage(t)
  <2>1. t.chain = <<>> /\ Len(t.chain) = 0 /\ t.pages < t.max
    <3>1. t.chain = <<>> /\ Len(<<>>) = 0
      BY <1>1, <1>2 DEF PageList
    <3> QED
      BY <1>1, <3>1
  <2>2. p \in PageIds
    BY <1>1, <2>1, NewPageIsNew
  <2>3. GetNextCardBlock(t, granted) = FirstOfPage(t, p, <<p>>, 1, 1)
    <3>1. t.pages + 1 = 1
      BY <1>1, <2>1
    <3> QED
      BY <1>2, <3>1 DEF GetNextCardBlock
  <2> HIDE DEF p
  <2>4. Gained(t, FirstOfPage(t, p, <<p>>, 1, 1))
    <3>1. /\ <<p>> \in Seq(PageIds) /\ Len(<<p>>) = 1 /\ <<p>>[1] = p
          /\ 1 \in 1..1 /\ 1 = t.at + 1 /\ 1 <= t.max /\ ~ (1 < 1)
          /\ \A i \in 1..t.at : <<p>>[i] = t.chain[i]
          /\ \A i, j \in 1..1 : <<p>>[i] = <<p>>[j] => i = j
      BY <1>1, <1>2, <2>2
    <3> DEFINE chain == <<p>>
    <3>2. /\ chain \in Seq(PageIds) /\ Len(chain) = 1 /\ chain[1] = p
          /\ \A i \in 1..t.at : chain[i] = t.chain[i]
          /\ \A i, j \in 1..1 : chain[i] = chain[j] => i = j
      BY <3>1
    <3> HIDE DEF chain
    <3>3. /\ 1 \in 1..Len(chain) /\ 1 = t.at + 1 /\ Len(chain) <= t.max
          /\ ~ (1 < Len(chain))
          /\ \A i, j \in 1..Len(chain) : chain[i] = chain[j] => i = j
      BY <3>1, <3>2
    <3>4. Gained(t, FirstOfPage(t, p, chain, 1, Len(chain)))
      BY ONLY <1>1, <2>2, <3>2, <3>3, FirstOfPageGains, t \in LargeTables
    <3> QED
      BY <3>2, <3>4 DEF chain
  <2> QED
    BY <2>3, <2>4, GainedOK
<1>3. CASE t.at > 0 /\ t.state = "harvest"
  <2>1. CASE t.oldNo = BlocksPerPage
    <3>1. GetNextCardBlock(t, granted) = FromHarvest(t)
      BY <1>1, <1>3, <2>1 DEF GetNextCardBlock
    <3> QED
      BY <1>3, <3>1, FromHarvestOK
  <2>2. CASE t.oldNo # BlocksPerPage
    <3>1. GetNextCardBlock(t, granted)
            = [t |-> [t EXCEPT !.oldNo = @ + 1], block |-> t.old[t.oldNo + 1]]
      BY <1>1, <1>3, <2>2 DEF GetNextCardBlock
    <3> QED
      BY <1>3, <2>2, <3>1, NextOldOK
  <2> QED
    BY <2>1, <2>2
<1>4. CASE t.at > 0 /\ t.state = "pool" /\ t.used[t.chain[t.at]] = BlocksPerPage
  <2>1. CASE t.at < Len(t.chain)
    <3> DEFINE at == t.at + 1
               p == t.chain[at]
    <3>1. GetNextCardBlock(t, granted) = FirstOfPage(t, p, t.chain, at, t.pages)
      BY <1>1, <1>4, <2>1 DEF GetNextCardBlock
    <3>2. at \in 1..Len(t.chain) /\ p \in PageIds
      BY <1>1, <2>1
    <3>3. /\ \A i, j \in 1..Len(t.chain) : t.chain[i] = t.chain[j] => i = j
          /\ Len(t.chain) <= t.max /\ Len(t.chain) <= t.def
      BY <1>1, <2>1 DEF PageList
    <3>4. at = t.at + 1 /\ t.chain[at] = p
      OBVIOUS
    <3> HIDE DEF at, p
    <3>5. Gained(t, FirstOfPage(t, p, t.chain, at, Len(t.chain)))
      BY ONLY <1>1, <3>2, <3>3, <3>4, FirstOfPageGains, t \in LargeTables
    <3>6. t.pages = Len(t.chain)
      BY <1>1
    <3> QED
      BY <3>1, <3>5, <3>6, GainedOK
  <2>2. CASE t.at = Len(t.chain) /\ ~ MayGrow(t, granted)
    <3>1. GetNextCardBlock(t, granted) = FromHarvest(t)
      BY <1>1, <1>4, <2>2 DEF GetNextCardBlock
    <3> QED
      BY <1>4, <3>1, FromHarvestOK
  <2>3. CASE t.at = Len(t.chain) /\ MayGrow(t, granted)
    <3> DEFINE p == NewPage(t)
               chain == Append(t.chain, p)
               at == t.at + 1
    <3>1. t.pages < t.max
      <4>1. t.pages # t.max
        BY <2>3 DEF MayGrow
      <4> QED
        BY <1>1, <4>1
    <3>2. p \in PageIds /\ \A i \in 1..Len(t.chain) : t.chain[i] # p
      BY <1>1, <3>1, NewPageIsNew
    <3>3. GetNextCardBlock(t, granted) = FirstOfPage(t, p, chain, at, t.pages + 1)
      BY <1>1, <1>4, <2>3 DEF GetNextCardBlock
    <3> HIDE DEF p
    <3>4. /\ chain \in Seq(PageIds) /\ Len(chain) = Len(t.chain) + 1
          /\ \A i \in 1..Len(t.chain) : chain[i] = t.chain[i]
          /\ chain[Len(t.chain) + 1] = p
      BY <1>1, <3>2, AppendProperties
    <3> HIDE DEF chain
    <3>5. \A i \in 1..Len(chain) : i \in 1..Len(t.chain) \/ i = Len(t.chain) + 1
      BY <1>1, <3>4
    <3>6. \A i, j \in 1..Len(chain) : chain[i] = chain[j] => i = j
      <4>1. \A i, j \in 1..Len(t.chain) : t.chain[i] = t.chain[j] => i = j
        BY <1>1 DEF PageList
      <4> QED
        BY <3>2, <3>4, <3>5, <4>1
    <3>7. /\ at \in 1..Len(chain) /\ at = t.at + 1 /\ chain[at] = p
          /\ Len(chain) = t.pages + 1 /\ Len(chain) <= t.max
          /\ ~ (at < Len(chain)) /\ \A i \in 1..t.at : chain[i] = t.chain[i]
      BY <1>1, <2>3, <3>1, <3>4
    <3> HIDE DEF at
    <3>8. Gained(t, FirstOfPage(t, p, chain, at, Len(chain)))
      BY ONLY <1>1, <3>2, <3>4, <3>6, <3>7, FirstOfPageGains, t \in LargeTables
    <3> QED
      BY <3>3, <3>7, <3>8, GainedOK
  <2> QED
    BY <1>1, <2>1, <2>2, <2>3
<1>5. CASE ~ (t.at = 0) /\ ~ (t.at > 0 /\ t.state = "harvest")
           /\ ~ (t.at > 0 /\ t.state = "pool" /\ t.used[t.chain[t.at]] = BlocksPerPage)
  <2>1. GetNextCardBlock(t, granted) = TakeNext(t)
    BY <1>5 DEF GetNextCardBlock
  <2>2. t.at > 0 /\ t.used[t.chain[t.at]] # BlocksPerPage
    BY <1>1, <1>5, LargeFacts
  <2>3. Gained(t, TakeNext(t))
    BY <2>2, TakeNextGains DEF LargeOK
  <2> QED
    BY <2>1, <2>3, GainedOK
<1> QED
  BY <1>2, <1>3, <1>4, <1>5

-----------------------------------------------------------------------------
(* Lookups.                                                                *)

LEMMA StillTrue ==
  ASSUME NEW t \in LargeTables, NEW s \in LargeTables, Fewer(t, s), Emptier(t, s),
         NEW d, TellsTruth(d, t)
  PROVE  TellsTruth(d, s)
<1>1. ASSUME NEW c \in Cells, NEW h \in Hashes, NEW i \in 1..Len(s.root[c][h].list),
             NEW f, f = s.root[c][h].list[i], NEW k \in 1..Len(s.block[f.block].match)
      PROVE  True(d, s.block[f.block].match[k], c, f.dist)
  <2>1. PICK j \in 1..Len(t.root[c][h].list) : f = t.root[c][h].list[j]
    BY ONLY Fewer(t, s), c \in Cells, h \in Hashes, <1>1, SMTT(20),
            i \in 1..Len(s.root[c][h].list) DEF Fewer
  <2>2. f.block \in Blocks
    BY <2>1, FilingFacts
  <2>3. s.block[f.block].match \in {t.block[f.block].match, <<>>}
    BY <2>2 DEF Emptier
  <2>4. s.block[f.block].match # <<>>
    <3>1. SUFFICES ASSUME s.block[f.block].match = <<>> PROVE FALSE
      OBVIOUS
    <3>2. k \in 1..Len(<<>>)
      BY ONLY k \in 1..Len(s.block[f.block].match), <3>1
    <3> QED
      BY ONLY <3>2
  <2>5. \A m \in 1..Len(t.block[f.block].match) :
          True(d, t.block[f.block].match[m], c, f.dist)
    BY <2>1, Zenon DEF TellsTruth
  <2>6. s.block[f.block].match = t.block[f.block].match
    BY ONLY <2>3, <2>4
  <2> QED
    BY ONLY k \in 1..Len(s.block[f.block].match), <2>5, <2>6, SMTT(20)
<1> QED
  BY <1>1, Zenon DEF TellsTruth

(* A list with one place more. *)
LEMMA LongerFacts ==
  ASSUME NEW S, NEW list \in Seq(S), NEW x \in S, NEW n, n = Len(list),
         NEW r, r = [j \in 1..(n + 1) |-> IF j = n + 1 THEN x ELSE list[j]]
  PROVE  /\ r \in Seq(S) /\ Len(r) = n + 1 /\ n \in Nat
         /\ r[n + 1] = x /\ \A j \in 1..n : r[j] = list[j]
<1>1. n \in Nat /\ \A j \in 1..n : list[j] \in S
  OBVIOUS
<1>2. /\ n + 1 \in Nat /\ n + 1 \in 1..(n + 1)
      /\ \A j \in 1..n : j \in 1..(n + 1) /\ j # n + 1
      /\ \A j \in 1..(n + 1) : j = n + 1 \/ j \in 1..n
  BY ONLY <1>1
<1>3. r \in [1..(n + 1) -> S]
  BY <1>1, <1>2
<1>4. r \in Seq(S) /\ Len(r) = n + 1
  BY ONLY <1>2, <1>3
<1>5. r[n + 1] = x /\ \A j \in 1..n : r[j] = list[j]
  BY <1>2
<1> QED
  BY <1>1, <1>4, <1>5

(* A distribution is in one place of the lists of a cell: of its own hash. *)
DistsOnce(t) ==
  \A c \in Cells, h \in Hashes : \A i \in 1..Len(t.root[c][h].list) :
    /\ HashOf[t.root[c][h].list[i].dist] = h
    /\ \A j \in 1..Len(t.root[c][h].list) :
         t.root[c][h].list[j].dist = t.root[c][h].list[i].dist => i = j

LEMMA FewerDists ==
  ASSUME NEW t, NEW s, Fewer(t, s), FiledOnce(s), DistsOnce(t)
  PROVE  DistsOnce(s)
<1>1. SUFFICES ASSUME NEW c \in Cells, NEW h \in Hashes,
                      NEW i \in 1..Len(s.root[c][h].list)
               PROVE  /\ HashOf[s.root[c][h].list[i].dist] = h
                      /\ \A j \in 1..Len(s.root[c][h].list) :
                           s.root[c][h].list[j].dist = s.root[c][h].list[i].dist => i = j
  BY DEF DistsOnce
<1>2. \A j \in 1..Len(s.root[c][h].list) : \E k \in 1..Len(t.root[c][h].list) :
        s.root[c][h].list[j] = t.root[c][h].list[k]
  BY DEF Fewer
<1>3. PICK k \in 1..Len(t.root[c][h].list) : s.root[c][h].list[i] = t.root[c][h].list[k]
  BY <1>2
<1>4. /\ HashOf[t.root[c][h].list[k].dist] = h
      /\ \A j \in 1..Len(t.root[c][h].list) :
           t.root[c][h].list[j].dist = t.root[c][h].list[k].dist => k = j
  BY DEF DistsOnce
<1>5. ASSUME NEW j \in 1..Len(s.root[c][h].list),
             s.root[c][h].list[j].dist = s.root[c][h].list[i].dist
      PROVE  i = j
  <2>1. PICK m \in 1..Len(t.root[c][h].list) : s.root[c][h].list[j] = t.root[c][h].list[m]
    BY <1>2
  <2>2. k = m
    BY <1>3, <1>4, <1>5, <2>1
  <2>3. s.root[c][h].list[i].block = s.root[c][h].list[j].block
    BY <1>3, <2>1, <2>2
  <2> QED
    BY ONLY <2>3, FiledOnce(s), c \in Cells, h \in Hashes,
            i \in 1..Len(s.root[c][h].list), j \in 1..Len(s.root[c][h].list)
    DEF FiledOnce
<1> QED
  BY <1>3, <1>4, <1>5

(* What a lookup finds or makes for a distribution. *)
Found(t, cell, dist, suit) ==
  /\ LargeOK(suit.t) /\ suit.block \in Blocks
  /\ DistsOnce(t) => DistsOnce(suit.t)
  /\ \A d : TellsTruth(d, t) => TellsTruth(d, suit.t)
  /\ suit.empty \/ \E i \in 1..Len(suit.t.root[cell][HashOf[dist]].list) :
                     suit.t.root[cell][HashOf[dist]].list[i]
                       = [dist |-> dist, block |-> suit.block]

(* A table that clears one block, and moves no entry of another, stays true. *)
LEMMA TruthCleared ==
  ASSUME NEW d, NEW t \in LargeTables, TellsTruth(d, t), NEW r, NEW b,
         r.block[b].match = <<>>,
         \A x \in Blocks : x # b => r.block[x] = t.block[x],
         \A c \in Cells, h \in Hashes : \A i \in 1..Len(r.root[c][h].list) :
           \/ r.root[c][h].list[i].block = b
           \/ /\ i \in 1..Len(t.root[c][h].list)
              /\ r.root[c][h].list[i] = t.root[c][h].list[i]
  PROVE  TellsTruth(d, r)
<1>1. ASSUME NEW c \in Cells, NEW h \in Hashes, NEW i \in 1..Len(r.root[c][h].list),
             NEW f, f = r.root[c][h].list[i], NEW k \in 1..Len(r.block[f.block].match)
      PROVE  True(d, r.block[f.block].match[k], c, f.dist)
  <2>1. f.block # b
    <3>1. SUFFICES ASSUME f.block = b PROVE FALSE
      OBVIOUS
    <3>2. k \in 1..Len(<<>>)
      BY ONLY <3>1, r.block[b].match = <<>>, k \in 1..Len(r.block[f.block].match)
    <3> QED
      BY ONLY <3>2
  <2>2. i \in 1..Len(t.root[c][h].list) /\ f = t.root[c][h].list[i]
    BY <1>1, <2>1, Zenon
  <2>3. f.block \in Blocks
    BY <2>2, FilingFacts
  <2>4. r.block[f.block] = t.block[f.block]
    BY ONLY <2>1, <2>3, \A x \in Blocks : x # b => r.block[x] = t.block[x]
  <2>5. \A j \in 1..Len(t.block[f.block].match) :
          True(d, t.block[f.block].match[j], c, f.dist)
    BY <2>2, Zenon DEF TellsTruth
  <2> QED
    BY ONLY <2>4, <2>5, k \in 1..Len(r.block[f.block].match)
<1> QED
  BY <1>1, Zenon DEF TellsTruth

LEMMA FileOK ==
  ASSUME NEW t \in LargeTables, NEW got, Granted(t, got), NEW cell \in Cells,
         NEW dist \in DOMAIN HashOf,
         Len(t.root[cell][HashOf[dist]].list) < DistsPerEntry,
         ~ Listed(t.root[cell][HashOf[dist]].list, dist)
  PROVE  Found(t, cell, dist, File(got, cell, dist))
<1> DEFINE s == got.t
           b == got.block
           hash == HashOf[dist]
           l == s.root[cell][hash]
           n == Len(l.list)
           entry == [dist |-> dist, block |-> b]
           longer == [j \in 1..(n + 1) |-> IF j = n + 1 THEN entry ELSE l.list[j]]
           filed == [list |-> longer, write |-> n + 1]
           cleared == [match |-> <<>>, write |-> 0, read |-> s.time]
           r == [s EXCEPT !.root = [@ EXCEPT ![cell][hash] = filed],
                          !.block = [@ EXCEPT ![b] = cleared]]
<1>1. /\ LargeOK(s) /\ s.at > 0 /\ b \in Blocks /\ InUse(s, b) /\ Unfiled(s, b)
      /\ s.state = "harvest" => \A i \in (s.oldNo + 1)..BlocksPerPage : s.old[i] # b
      /\ Fewer(t, s) /\ Emptier(t, s) /\ hash \in Hashes
  BY Sizes DEF Granted
<1> HIDE DEF s, b, hash
<1>2. /\ s \in LargeTables /\ PagesOK(s) /\ ListsOK(s) /\ BlocksOK(s)
      /\ FiledInUse(s) /\ FiledOnce(s) /\ Handing(s) /\ ~s.crashed
  BY <1>1 DEF LargeOK, PagesOK, PageList
<1>3. /\ n \in Nat /\ l.list \in Seq(Filings) /\ l.write = n /\ n + 1 <= DistsPerEntry
  <2>1. n \in Nat /\ l.list \in Seq(Filings)
    BY <1>1, <1>2, FilingFacts
  <2>2. ListOK(l)
    BY <1>1, <1>2 DEF ListsOK
  <2>3. n <= Len(t.root[cell][hash].list)
    BY <1>1 DEF Fewer
  <2>4. Len(t.root[cell][hash].list) \in Nat
        /\ Len(t.root[cell][hash].list) < DistsPerEntry
    BY <1>1, FilingFacts DEF hash
  <2> DEFINE m == Len(t.root[cell][hash].list)
  <2>5. n < DistsPerEntry /\ l.write = n
    <3> HIDE DEF n, m
    <3>1. n < DistsPerEntry
      BY <2>1, <2>3, <2>4, Sizes DEF m
    <3> QED
      BY <2>2, <3>1 DEF ListOK, n
  <2> HIDE DEF n
  <2>6. n + 1 <= DistsPerEntry
    BY <2>1, <2>5, Sizes
  <2> QED
    BY <2>1, <2>5, <2>6
<1>4. /\ s.root \in [Cells -> [Hashes -> RootLists]]
      /\ s.block \in [Blocks -> WinBlocks] /\ s.time \in Nat
      /\ s.block[b] \in WinBlocks
  BY <1>1, <1>2, LargeFacts
<1>5. entry \in Filings
  BY <1>1 DEF Filings
<1>6. /\ longer \in Seq(Filings) /\ Len(longer) = n + 1
      /\ longer[n + 1] = entry /\ \A j \in 1..n : longer[j] = l.list[j]
  <2> DEFINE list == l.list
  <2>1. /\ list \in Seq(Filings) /\ n = Len(list)
        /\ longer = [j \in 1..(n + 1) |-> IF j = n + 1 THEN entry ELSE list[j]]
    BY <1>3
  <2> HIDE DEF list, entry, n, longer
  <2>2. /\ longer \in Seq(Filings) /\ Len(longer) = n + 1
        /\ longer[n + 1] = entry /\ \A j \in 1..n : longer[j] = list[j]
    BY ONLY <1>5, <2>1, LongerFacts
  <2> QED
    BY <2>2 DEF list
<1>7. File(got, cell, dist) = [t |-> r, block |-> b, empty |-> TRUE]
  <2> DEFINE a == [s EXCEPT !.root[cell][hash] = filed, !.block[b].read = s.time]
  <2>1. File(got, cell, dist) = [t |-> ClearBlock(a, b), block |-> b, empty |-> TRUE]
    BY <1>2, <1>3 DEF File, s, b, hash
  <2> HIDE DEF filed
  <2>2. a = [s EXCEPT !.root = [s.root EXCEPT ![cell][hash] = filed],
                      !.block = [s.block EXCEPT ![b].read = s.time]]
    OBVIOUS
  <2>3. a.block = [s.block EXCEPT ![b].read = s.time]
    BY <1>2, <2>2 DEF LargeTables
  <2> DEFINE was == [s.block[b] EXCEPT !.read = s.time]
             is == [match |-> <<>>, write |-> 0, read |-> was.read]
  <2>4. ClearBlock(a, b) = [a EXCEPT !.block = [a.block EXCEPT ![b] = is]]
    <3>1. a.block[b] = was
      BY <1>1, <1>4, <2>3
    <3> HIDE DEF a, was
    <3> QED
      BY <3>1 DEF ClearBlock
  <2>5. is = cleared
    <3>1. was.read = s.time
      BY <1>4 DEF WinBlocks
    <3> HIDE DEF was
    <3> QED
      BY <3>1
  <2> HIDE DEF was, is
  <2>6. [a.block EXCEPT ![b] = cleared] = [s.block EXCEPT ![b] = cleared]
    <3> HIDE DEF cleared
    <3> QED
      BY <1>4, <2>3
  <2>7. ClearBlock(a, b) = [a EXCEPT !.block = [s.block EXCEPT ![b] = cleared]]
    <3> HIDE DEF a, cleared
    <3> QED
      BY <2>4, <2>5, <2>6
  <2>8. ClearBlock(a, b) = r
    <3> HIDE DEF cleared
    <3> QED
      BY <1>2, <2>2, <2>7 DEF LargeTables
  <2> QED
    BY <2>1, <2>8
<1>8. filed \in RootLists /\ cleared \in WinBlocks
  BY <1>3, <1>4, <1>6 DEF RootLists, WinBlocks
<1>9. filed.list = longer /\ filed.write = n + 1 /\ cleared.match = <<>>
      /\ cleared.write = 0
  OBVIOUS
<1> HIDE DEF filed, cleared, longer
<1>10. r \in LargeTables
  <2>1. [s.root EXCEPT ![cell][hash] = filed] \in [Cells -> [Hashes -> RootLists]]
    BY <1>4, <1>8
  <2>2. [s.block EXCEPT ![b] = cleared] \in [Blocks -> WinBlocks]
    BY <1>4, <1>8
  <2> QED
    BY <1>2, <2>1, <2>2 DEF LargeTables
<1>11. /\ r.def = s.def /\ r.max = s.max /\ r.chain = s.chain /\ r.at = s.at
       /\ r.pages = s.pages /\ r.used = s.used /\ r.next = s.next
       /\ r.lost = s.lost /\ r.crashed = s.crashed
       /\ r.state = s.state /\ r.old = s.old /\ r.oldNo = s.oldNo
       /\ r.root = [s.root EXCEPT ![cell][hash] = filed]
       /\ r.block = [s.block EXCEPT ![b] = cleared]
  BY <1>2 DEF LargeTables
<1> HIDE DEF r, entry
<1>12. \A c \in Cells, h \in Hashes :
         r.root[c][h] = IF c = cell /\ h = hash THEN filed ELSE s.root[c][h]
  BY <1>4, <1>11
<1>13. \A x \in Blocks : r.block[x] = IF x = b THEN cleared ELSE s.block[x]
  BY <1>1, <1>4, <1>11
<1>14. entry.block = b /\ entry.dist = dist
  BY DEF entry
<1>15. ASSUME NEW c \in Cells, NEW h \in Hashes, NEW i \in 1..Len(r.root[c][h].list)
       PROVE  \/ /\ c = cell /\ h = hash /\ i = n + 1
                 /\ r.root[c][h].list[i] = entry
              \/ /\ i \in 1..Len(s.root[c][h].list)
                 /\ r.root[c][h].list[i] = s.root[c][h].list[i]
  <2>1. CASE c = cell /\ h = hash
    <3>1. i \in 1..(n + 1) /\ r.root[c][h].list = longer
      BY <1>6, <1>9, <1>12, <2>1
    <3>2. i = n + 1 \/ i \in 1..n
      BY ONLY <1>3, <3>1
    <3> QED
      BY <1>6, <2>1, <3>1, <3>2
  <2>2. CASE ~ (c = cell /\ h = hash)
    BY <1>12, <2>2
  <2> QED
    BY <2>1, <2>2
<1>16. \A x : InUse(s, x) => InUse(r, x)
  BY <1>11 DEF InUse
<1>17. PagesOK(r)
  BY <1>2, <1>11 DEF PagesOK, PageList, NextInPage
<1>18. ListsOK(r)
  <2>1. ListOK(filed)
    BY ONLY <1>3, <1>6, <1>9, Sizes DEF ListOK
  <2>2. \A c \in Cells, h \in Hashes : ListOK(s.root[c][h])
    BY <1>2 DEF ListsOK
  <2> QED
    BY <1>12, <2>1, <2>2, Zenon DEF ListsOK
<1>19. BlocksOK(r)
  <2>1. BlockOK(cleared)
    <3>1. Len(<<>>) = 0
      OBVIOUS
    <3> QED
      BY <1>9, <3>1, Sizes DEF BlockOK
  <2> QED
    BY <1>2, <1>13, <2>1 DEF BlocksOK
<1>20. FiledInUse(r)
  <2>1. SUFFICES ASSUME NEW c \in Cells, NEW h \in Hashes,
                        NEW i \in 1..Len(r.root[c][h].list)
                 PROVE  InUse(r, r.root[c][h].list[i].block)
    BY DEF FiledInUse
  <2>2. \A j \in 1..Len(s.root[c][h].list) : InUse(s, s.root[c][h].list[j].block)
    BY <1>2 DEF FiledInUse
  <2> QED
    BY <1>1, <1>14, <1>15, <1>16, <2>2
<1>21. \A c \in Cells, h \in Hashes : \A i \in 1..Len(s.root[c][h].list) :
         s.root[c][h].list[i].block # b /\ s.root[c][h].list[i].block \in Blocks
  BY <1>1, <1>2, FilingFacts DEF Unfiled
<1>22. FiledOnce(r)
  <2>1. SUFFICES ASSUME NEW c \in Cells, NEW d \in Cells,
                        NEW g \in Hashes, NEW h \in Hashes,
                        NEW i \in 1..Len(r.root[c][g].list),
                        NEW j \in 1..Len(r.root[d][h].list),
                        r.root[c][g].list[i].block = r.root[d][h].list[j].block
                 PROVE  c = d /\ g = h /\ i = j
    BY DEF FiledOnce
  <2>2. CASE /\ i \in 1..Len(s.root[c][g].list)
             /\ r.root[c][g].list[i] = s.root[c][g].list[i]
    <3>0. r.root[d][h].list[j].block # b
      BY <1>21, <2>1, <2>2
    <3>1. /\ j \in 1..Len(s.root[d][h].list)
          /\ r.root[d][h].list[j] = s.root[d][h].list[j]
      BY <1>14, <1>15, <3>0
    <3>2. s.root[c][g].list[i].block = s.root[d][h].list[j].block
      BY <2>1, <2>2, <3>1
    <3> QED
      BY ONLY <1>2, <2>2, <3>1, <3>2, OnePlace, c \in Cells, d \in Cells,
              g \in Hashes, h \in Hashes
  <2>3. CASE c = cell /\ g = hash /\ i = n + 1 /\ r.root[c][g].list[i] = entry
    <3>1. r.root[d][h].list[j].block = b
      BY <1>14, <2>1, <2>3
    <3>2. ~ (/\ j \in 1..Len(s.root[d][h].list)
             /\ r.root[d][h].list[j] = s.root[d][h].list[j])
      BY <1>21, <3>1
    <3>3. d = cell /\ h = hash /\ j = n + 1
      BY <1>15, <3>2, Zenon
    <3> QED
      BY <2>3, <3>3
  <2> QED
    BY <1>15, <2>2, <2>3
<1>23. \A x : Unfiled(s, x) /\ x # b => Unfiled(r, x)
  <2>1. SUFFICES ASSUME NEW x, Unfiled(s, x), x # b,
                        NEW c \in Cells, NEW h \in Hashes,
                        NEW i \in 1..Len(r.root[c][h].list)
                 PROVE  r.root[c][h].list[i].block # x
    BY DEF Unfiled
  <2>2. \A j \in 1..Len(s.root[c][h].list) : s.root[c][h].list[j].block # x
    BY <2>1 DEF Unfiled
  <2> QED
    BY <1>14, <1>15, <2>1, <2>2
<1>24. Handing(r)
  <2>1. SUFFICES ASSUME r.state = "harvest"
                 PROVE  /\ r.at > 0
                        /\ Len(r.old) = BlocksPerPage /\ r.oldNo \in 1..BlocksPerPage
                        /\ \A i, j \in 1..BlocksPerPage : r.old[i] = r.old[j] => i = j
                        /\ \A i \in 1..BlocksPerPage : InUse(r, r.old[i])
                        /\ \A i \in (r.oldNo + 1)..BlocksPerPage : Unfiled(r, r.old[i])
    BY DEF Handing
  <2>2. /\ s.at > 0
        /\ Len(s.old) = BlocksPerPage /\ s.oldNo \in 1..BlocksPerPage
        /\ \A i, j \in 1..BlocksPerPage : s.old[i] = s.old[j] => i = j
        /\ \A i \in 1..BlocksPerPage : InUse(s, s.old[i])
        /\ \A i \in (s.oldNo + 1)..BlocksPerPage : Unfiled(s, s.old[i])
    BY <1>2, <1>11, <2>1 DEF Handing
  <2>3. \A i \in (s.oldNo + 1)..BlocksPerPage : s.old[i] # b
    BY <1>1, <1>11, <2>1
  <2> QED
    BY <1>11, <1>16, <1>23, <2>2, <2>3
<1>25. ASSUME NEW d, TellsTruth(d, t) PROVE TellsTruth(d, r)
  <2>1. TellsTruth(d, s)
    BY <1>1, <1>2, <1>25, StillTrue
  <2>2. r.block[b].match = <<>> /\ \A x \in Blocks : x # b => r.block[x] = s.block[x]
    BY <1>1, <1>9, <1>13
  <2>3. ASSUME NEW c \in Cells, NEW h \in Hashes, NEW i \in 1..Len(r.root[c][h].list)
        PROVE  \/ r.root[c][h].list[i].block = b
               \/ /\ i \in 1..Len(s.root[c][h].list)
                  /\ r.root[c][h].list[i] = s.root[c][h].list[i]
    BY <1>14, <1>15
  <2> QED
    BY ONLY <1>2, <2>1, <2>2, <2>3, TruthCleared
<1>26. ASSUME DistsOnce(t) PROVE DistsOnce(r)
  <2>1. DistsOnce(s)
    BY <1>1, <1>2, <1>26, FewerDists
  <2>2. \A j \in 1..n : l.list[j].dist # dist
    <3>1. SUFFICES ASSUME NEW j \in 1..n, l.list[j].dist = dist PROVE FALSE
      OBVIOUS
    <3>2. PICK m \in 1..Len(t.root[cell][hash].list) :
            l.list[j] = t.root[cell][hash].list[m]
      BY <1>1, <3>1 DEF Fewer
    <3>3. DOMAIN t.root[cell][hash].list = 1..Len(t.root[cell][hash].list)
      BY <1>1, FilingFacts
    <3> QED
      BY <3>1, <3>2, <3>3 DEF Listed, hash
  <2>3. SUFFICES ASSUME NEW c \in Cells, NEW h \in Hashes,
                        NEW i \in 1..Len(r.root[c][h].list)
                 PROVE  /\ HashOf[r.root[c][h].list[i].dist] = h
                        /\ \A j \in 1..Len(r.root[c][h].list) :
                             r.root[c][h].list[j].dist = r.root[c][h].list[i].dist
                               => i = j
    BY DEF DistsOnce
  <2>4. \A k \in 1..Len(s.root[c][h].list) :
          /\ HashOf[s.root[c][h].list[k].dist] = h
          /\ \A j \in 1..Len(s.root[c][h].list) :
               s.root[c][h].list[j].dist = s.root[c][h].list[k].dist => k = j
    BY <2>1 DEF DistsOnce
  <2> DEFINE new == r.root[c][h].list
             was == s.root[c][h].list
  <2>5. ASSUME NEW k \in 1..Len(new)
        PROVE  \/ c = cell /\ h = hash /\ k = n + 1 /\ new[k].dist = dist
               \/ k \in 1..Len(was) /\ new[k] = was[k]
    BY <1>14, <1>15
  <2>6. c = cell /\ h = hash => \A k \in 1..Len(was) : was[k].dist # dist
    BY <2>2
  <2>7. HashOf[dist] = hash
    BY DEF hash
  <2> HIDE DEF new, was, n, l
  <2>8. HashOf[new[i].dist] = h
    <3>1. i \in 1..Len(new)
      BY <2>3 DEF new
    <3>2. \A k \in 1..Len(was) : HashOf[was[k].dist] = h
      BY <2>4 DEF was
    <3> QED
      BY <2>5, <2>7, <3>1, <3>2
  <2>9. ASSUME NEW j \in 1..Len(new), new[j].dist = new[i].dist PROVE i = j
    <3>1. i \in 1..Len(new)
      BY <2>3 DEF new
    <3>2. \A k, m \in 1..Len(was) : was[m].dist = was[k].dist => k = m
      BY <2>4 DEF was
    <3>3. CASE c = cell /\ h = hash /\ i = n + 1 /\ new[i].dist = dist
      BY <2>5, <2>6, <2>9, <3>3
    <3>4. CASE i \in 1..Len(was) /\ new[i] = was[i]
      BY <2>5, <2>6, <2>9, <3>2, <3>4
    <3> QED
      BY <2>5, <3>1, <3>3, <3>4
  <2> QED
    BY <2>8, <2>9 DEF new
<1> QED
  BY <1>1, <1>7, <1>10, <1>17, <1>18, <1>19, <1>20, <1>22, <1>24, <1>25, <1>26
  DEF LargeOK, Found

(* A full list gives the block of one of its places to another distribution. *)
Reused(t, cell, dist) ==
  LET hash == HashOf[dist]
      dp == t.root[cell][hash]
      m == IF dp.write = DistsPerEntry THEN 0 ELSE dp.write
      b == dp.list[m + 1].block
      l == [dp.list EXCEPT ![m + 1].dist = dist]
  IN  [t |-> ClearBlock([t EXCEPT !.root[cell][hash] =
                           [list |-> l, write |-> m + 1]], b),
       block |-> b, empty |-> TRUE]

LEMMA ReuseOK ==
  ASSUME NEW t \in LargeTables, LargeOK(t), NEW cell \in Cells,
         NEW dist \in DOMAIN HashOf,
         Len(t.root[cell][HashOf[dist]].list) = DistsPerEntry,
         ~ Listed(t.root[cell][HashOf[dist]].list, dist)
  PROVE  Found(t, cell, dist, Reused(t, cell, dist))
<1> DEFINE hash == HashOf[dist]
           dp == t.root[cell][hash]
           n == Len(dp.list)
           m == IF dp.write = DistsPerEntry THEN 0 ELSE dp.write
           k == m + 1
           b == dp.list[k].block
           item == [dp.list[k] EXCEPT !.dist = dist]
           l == [dp.list EXCEPT ![k] = item]
           filed == [list |-> l, write |-> k]
           cleared == [match |-> <<>>, write |-> 0, read |-> t.block[b].read]
           r == [t EXCEPT !.root = [@ EXCEPT ![cell][hash] = filed],
                          !.block = [@ EXCEPT ![b] = cleared]]
<1>1. /\ PagesOK(t) /\ ListsOK(t) /\ BlocksOK(t) /\ FiledInUse(t)
      /\ FiledOnce(t) /\ Handing(t)
  BY DEF LargeOK
<1>2. hash \in Hashes
  BY Sizes
<1> HIDE DEF hash
<1>3. /\ n = DistsPerEntry /\ dp.list \in Seq(Filings) /\ dp.write \in Nat
      /\ dp.write <= DistsPerEntry
  BY <1>1, <1>2, FilingFacts DEF hash, ListsOK, ListOK
<1>4. k \in 1..n
  <2> DEFINE w == dp.write
  <2>1. w \in Nat /\ w <= DistsPerEntry /\ DistsPerEntry \in Nat \ {0}
    BY <1>3, Sizes
  <2>2. m = IF w = DistsPerEntry THEN 0 ELSE w
    OBVIOUS
  <2> HIDE DEF w, m, n
  <2> QED
    BY ONLY <1>3, <2>1, <2>2
<1>5. /\ dp.list[k] \in Filings /\ b \in Blocks
  BY <1>2, <1>3, <1>4, FilingFacts
<1> HIDE DEF m, n
<1>6. /\ t.root \in [Cells -> [Hashes -> RootLists]]
      /\ t.block \in [Blocks -> WinBlocks] /\ t.block[b] \in WinBlocks
  BY <1>5, LargeFacts
<1>7. Reused(t, cell, dist) = [t |-> r, block |-> b, empty |-> TRUE]
  <2> DEFINE a == [t EXCEPT !.root[cell][hash] = filed]
  <2>1. Reused(t, cell, dist) = [t |-> ClearBlock(a, b), block |-> b, empty |-> TRUE]
    BY DEF Reused, hash, m
  <2> HIDE DEF filed
  <2>2. a = [t EXCEPT !.root = [t.root EXCEPT ![cell][hash] = filed]]
    OBVIOUS
  <2>3. a.block = t.block
    BY <2>2 DEF LargeTables
  <2>4. ClearBlock(a, b) = [a EXCEPT !.block = [a.block EXCEPT ![b] =
           [match |-> <<>>, write |-> 0, read |-> a.block[b].read]]]
    <3> HIDE DEF a
    <3> QED
      BY DEF ClearBlock
  <2>5. ClearBlock(a, b) = [a EXCEPT !.block = [t.block EXCEPT ![b] = cleared]]
    <3> HIDE DEF a
    <3> QED
      BY <2>3, <2>4, Zenon
  <2>6. ClearBlock(a, b) = r
    <3> HIDE DEF cleared
    <3> QED
      BY <2>2, <2>5 DEF LargeTables
  <2> QED
    BY <2>1, <2>6, Zenon
<1>8. item \in Filings /\ item.block = b /\ item.dist = dist
  BY <1>5 DEF Filings
<1> HIDE DEF item
<1>9. /\ l \in Seq(Filings) /\ Len(l) = n /\ l[k] = item
      /\ \A j \in 1..n : j # k => l[j] = dp.list[j]
  BY <1>3, <1>4, <1>8 DEF n
<1>10. k \in Nat /\ k <= DistsPerEntry /\ n \in Nat
  BY <1>3, <1>4, Sizes
<1> HIDE DEF l, k
<1>11. filed \in RootLists /\ cleared \in WinBlocks
  <2>1. t.block[b].read \in Nat
    <3> HIDE DEF b
    <3> QED
      BY ONLY <1>6 DEF WinBlocks
  <2>2. [list |-> l, write |-> k] \in RootLists
    BY ONLY <1>9, <1>10 DEF RootLists
  <2>3. cleared \in WinBlocks
    <3> HIDE DEF b
    <3> QED
      BY <2>1 DEF WinBlocks
  <2> QED
    BY <2>2, <2>3
<1>12. filed.list = l /\ filed.write = k /\ cleared.match = <<>> /\ cleared.write = 0
  OBVIOUS
<1> HIDE DEF filed, cleared, b
<1>13. r \in LargeTables
  <2>1. [t.root EXCEPT ![cell][hash] = filed] \in [Cells -> [Hashes -> RootLists]]
    BY <1>6, <1>11
  <2>2. [t.block EXCEPT ![b] = cleared] \in [Blocks -> WinBlocks]
    BY <1>6, <1>11
  <2> QED
    BY <2>1, <2>2 DEF LargeTables
<1>14. /\ r.def = t.def /\ r.max = t.max /\ r.chain = t.chain /\ r.at = t.at
       /\ r.pages = t.pages /\ r.used = t.used /\ r.next = t.next
       /\ r.lost = t.lost /\ r.crashed = t.crashed
       /\ r.state = t.state /\ r.old = t.old /\ r.oldNo = t.oldNo
       /\ r.root = [t.root EXCEPT ![cell][hash] = filed]
       /\ r.block = [t.block EXCEPT ![b] = cleared]
  BY DEF LargeTables
<1> HIDE DEF r
<1>15. \A c \in Cells, h \in Hashes :
         r.root[c][h] = IF c = cell /\ h = hash THEN filed ELSE t.root[c][h]
  BY <1>6, <1>14
<1>16. \A x \in Blocks : r.block[x] = IF x = b THEN cleared ELSE t.block[x]
  BY <1>5, <1>6, <1>14
<1>17. b = dp.list[k].block /\ n = Len(dp.list)
  BY DEF b, n
<1>18. ASSUME NEW c \in Cells, NEW h \in Hashes
       PROVE  /\ Len(r.root[c][h].list) = Len(t.root[c][h].list)
              /\ \A i \in 1..Len(t.root[c][h].list) :
                   /\ r.root[c][h].list[i].block = t.root[c][h].list[i].block
                   /\ r.root[c][h].list[i] = t.root[c][h].list[i]
                      \/ t.root[c][h].list[i].block = b
  <2>1. CASE c = cell /\ h = hash
    <3>1. r.root[c][h].list = l /\ t.root[c][h] = dp
      BY <1>12, <1>15, <2>1
    <3>2. Len(l) = Len(dp.list)
      BY <1>9, <1>17
    <3>3. ASSUME NEW i \in 1..Len(dp.list)
          PROVE  /\ l[i].block = dp.list[i].block
                 /\ l[i] = dp.list[i] \/ dp.list[i].block = b
      <4>1. i \in 1..n
        BY <1>17
      <4>2. CASE i = k
        BY <1>8, <1>9, <1>17, <4>2
      <4>3. CASE i # k
        BY <1>9, <4>1, <4>3
      <4> QED
        BY <4>2, <4>3
    <3> HIDE DEF dp
    <3> QED
      BY <3>1, <3>2, <3>3
  <2>2. CASE ~ (c = cell /\ h = hash)
    BY <1>15, <2>2
  <2> QED
    BY <2>1, <2>2
<1>19. \A x : /\ InUse(t, x) => InUse(r, x)
              /\ Unfiled(t, x) => Unfiled(r, x)
  <2>1. ASSUME NEW x, InUse(t, x) PROVE InUse(r, x)
    BY <1>14, <2>1 DEF InUse
  <2>2. ASSUME NEW x, Unfiled(t, x) PROVE Unfiled(r, x)
    <3>1. SUFFICES ASSUME NEW c \in Cells, NEW h \in Hashes,
                          NEW i \in 1..Len(r.root[c][h].list)
                   PROVE  r.root[c][h].list[i].block # x
      BY DEF Unfiled
    <3>2. i \in 1..Len(t.root[c][h].list)
      BY <1>18
    <3>3. t.root[c][h].list[i].block # x
      BY <2>2, <3>2 DEF Unfiled
    <3> QED
      BY <1>18, <3>2, <3>3
  <2> QED
    BY <2>1, <2>2
<1>20. PagesOK(r)
  BY <1>1, <1>14 DEF PagesOK, PageList, NextInPage
<1>21. ListsOK(r)
  <2>1. ListOK(filed)
    BY <1>3, <1>9, <1>10, <1>12, Sizes DEF ListOK
  <2> QED
    BY <1>1, <1>15, <2>1 DEF ListsOK
<1>22. BlocksOK(r)
  <2>1. BlockOK(cleared)
    <3>1. Len(<<>>) = 0
      OBVIOUS
    <3> QED
      BY <1>12, <3>1, Sizes DEF BlockOK
  <2> QED
    BY <1>1, <1>16, <2>1 DEF BlocksOK
<1>23. FiledInUse(r)
  BY <1>1, <1>18, <1>19 DEF FiledInUse
<1>24. FiledOnce(r)
  <2>1. SUFFICES ASSUME NEW c \in Cells, NEW d \in Cells,
                        NEW g \in Hashes, NEW h \in Hashes,
                        NEW i \in 1..Len(r.root[c][g].list),
                        NEW j \in 1..Len(r.root[d][h].list),
                        r.root[c][g].list[i].block = r.root[d][h].list[j].block
                 PROVE  c = d /\ g = h /\ i = j
    BY DEF FiledOnce
  <2>2. i \in 1..Len(t.root[c][g].list) /\ j \in 1..Len(t.root[d][h].list)
    BY <1>18
  <2>3. t.root[c][g].list[i].block = t.root[d][h].list[j].block
    BY <1>18, <2>1, <2>2
  <2> QED
    BY ONLY <1>1, <2>2, <2>3, OnePlace, c \in Cells, d \in Cells, g \in Hashes,
            h \in Hashes
<1>25. Handing(r)
  BY <1>1, <1>14, <1>19 DEF Handing
<1>26. ASSUME NEW d, TellsTruth(d, t) PROVE TellsTruth(d, r)
  <2>1. r.block[b].match = <<>> /\ \A x \in Blocks : x # b => r.block[x] = t.block[x]
    BY <1>5, <1>12, <1>16
  <2>2. ASSUME NEW c \in Cells, NEW h \in Hashes, NEW i \in 1..Len(r.root[c][h].list)
        PROVE  \/ r.root[c][h].list[i].block = b
               \/ /\ i \in 1..Len(t.root[c][h].list)
                  /\ r.root[c][h].list[i] = t.root[c][h].list[i]
    <3>1. i \in 1..Len(t.root[c][h].list)
      BY <1>18
    <3> QED
      BY <1>18, <3>1
  <2> QED
    BY ONLY t \in LargeTables, <1>26, <2>1, <2>2, TruthCleared
<1>27. ASSUME DistsOnce(t) PROVE DistsOnce(r)
  <2>1. \A j \in 1..n : dp.list[j].dist # dist
    <3>1. DOMAIN dp.list = 1..n
      BY <1>2, <1>17, FilingFacts
    <3> QED
      BY <3>1 DEF Listed, hash
  <2>2. SUFFICES ASSUME NEW c \in Cells, NEW h \in Hashes,
                        NEW i \in 1..Len(r.root[c][h].list)
                 PROVE  /\ HashOf[r.root[c][h].list[i].dist] = h
                        /\ \A j \in 1..Len(r.root[c][h].list) :
                             r.root[c][h].list[j].dist = r.root[c][h].list[i].dist
                               => i = j
    BY DEF DistsOnce
  <2>3. \A x \in 1..Len(t.root[c][h].list) :
          /\ HashOf[t.root[c][h].list[x].dist] = h
          /\ \A j \in 1..Len(t.root[c][h].list) :
               t.root[c][h].list[j].dist = t.root[c][h].list[x].dist => x = j
    BY <1>27 DEF DistsOnce
  <2>4. CASE c = cell /\ h = hash
    <3>1. r.root[c][h].list = l /\ t.root[c][h].list = dp.list /\ Len(dp.list) = n
      BY <1>12, <1>15, <1>17, <2>4
    <3> DEFINE list == dp.list
    <3>2. /\ Len(l) = n /\ l[k] = item /\ item.dist = dist
          /\ \A j \in 1..n : j # k => l[j] = list[j]
          /\ \A x \in 1..n : /\ list[x].dist # dist /\ HashOf[list[x].dist] = h
                             /\ \A j \in 1..n : list[j].dist = list[x].dist => x = j
          /\ HashOf[dist] = h
      BY <1>8, <1>9, <2>1, <2>3, <2>4, <3>1 DEF hash
    <3>3. i \in 1..n
      BY <3>1, <3>2
    <3> HIDE DEF list
    <3>4. HashOf[l[i].dist] = h /\ \A j \in 1..n : l[j].dist = l[i].dist => i = j
      BY ONLY <3>2, <3>3
    <3> QED
      BY <3>1, <3>2, <3>4
  <2>5. CASE ~ (c = cell /\ h = hash)
    <3>1. r.root[c][h] = t.root[c][h]
      BY <1>15, <2>5
    <3> QED
      BY <2>3, <3>1
  <2> QED
    BY <2>4, <2>5
<1> QED
  BY <1>5, <1>7, <1>13, <1>20, <1>21, <1>22, <1>23, <1>24, <1>25, <1>26, <1>27
  DEF LargeOK, Found

LEMMA LookupSuitOK ==
  ASSUME NEW t \in LargeTables, LargeOK(t), NEW cell \in Cells,
         NEW dist \in DOMAIN HashOf, NEW granted
  PROVE  Found(t, cell, dist, LookupSuit(t, cell, dist, granted))
<1> DEFINE hash == HashOf[dist]
           dp == t.root[cell][hash]
<1>1. hash \in Hashes
  BY Sizes
<1>2. /\ dp.list \in Seq(Filings) /\ Len(dp.list) \in Nat
      /\ DOMAIN dp.list = 1..Len(dp.list) /\ Len(dp.list) <= DistsPerEntry
      /\ \A i \in 1..Len(dp.list) : dp.list[i] \in Filings
  BY <1>1, FilingFacts DEF LargeOK, ListsOK, ListOK
<1>3. CASE Listed(dp.list, dist)
  <2> DEFINE i == PlaceOf(dp.list, dist)
  <2>1. i \in DOMAIN dp.list /\ dp.list[i].dist = dist
    BY <1>3 DEF Listed, PlaceOf
  <2>2. LookupSuit(t, cell, dist, granted)
          = [t |-> t, block |-> dp.list[i].block, empty |-> FALSE]
    BY <1>3 DEF LookupSuit
  <2> HIDE DEF i
  <2>3. i \in 1..Len(dp.list) /\ dp.list[i].dist = dist /\ dp.list[i] \in Filings
    BY <1>2, <2>1
  <2>4. dp.list[i] = [dist |-> dist, block |-> dp.list[i].block]
        /\ dp.list[i].block \in Blocks
    BY <2>3 DEF Filings
  <2> QED
    BY <2>2, <2>3, <2>4 DEF Found
<1>4. CASE ~ Listed(dp.list, dist) /\ Len(dp.list) = DistsPerEntry
  <2>1. LookupSuit(t, cell, dist, granted) = Reused(t, cell, dist)
    BY <1>4 DEF LookupSuit, Reused
  <2> QED
    BY <1>4, <2>1, ReuseOK
<1>5. CASE ~ Listed(dp.list, dist) /\ Len(dp.list) # DistsPerEntry
  <2>1. LookupSuit(t, cell, dist, granted)
          = File(GetNextCardBlock(t, granted), cell, dist)
    BY <1>5 DEF LookupSuit
  <2>2. Len(dp.list) < DistsPerEntry
    BY <1>2, <1>5, Sizes
  <2>3. Granted(t, GetNextCardBlock(t, granted))
    BY NextBlockOK
  <2> QED
    BY <1>5, <2>1, <2>2, <2>3, FileOK
<1> QED
  BY <1>3, <1>4, <1>5

(* Changes that no property of the lists and blocks depends on. *)
LEMMA TouchedOK ==
  ASSUME NEW t \in LargeTables, LargeOK(t), NEW s \in LargeTables,
         s.def = t.def, s.max = t.max, s.chain = t.chain, s.at = t.at,
         s.pages = t.pages, s.used = t.used, s.next = t.next,
         s.state = t.state, s.old = t.old, s.oldNo = t.oldNo,
         s.lost = t.lost, s.crashed = t.crashed, s.root = t.root,
         \A b \in Blocks : /\ s.block[b].match = t.block[b].match
                           /\ s.block[b].write = t.block[b].write
  PROVE  /\ LargeOK(s) /\ \A d : TellsTruth(d, t) => TellsTruth(d, s)
<1>1. /\ PagesOK(t) /\ ListsOK(t) /\ BlocksOK(t) /\ FiledInUse(t)
      /\ FiledOnce(t) /\ Handing(t)
  BY DEF LargeOK
<1>2. PagesOK(s)
  BY <1>1 DEF PagesOK, PageList, NextInPage
<1>3. ListsOK(s)
  BY <1>1 DEF ListsOK
<1>4. BlocksOK(s)
  BY <1>1 DEF BlocksOK, BlockOK
<1>5. \A x : /\ InUse(t, x) => InUse(s, x)
             /\ Unfiled(t, x) => Unfiled(s, x)
  BY DEF InUse, Unfiled
<1>6. FiledInUse(s)
  BY <1>1, <1>5 DEF FiledInUse
<1>7. FiledOnce(s)
  BY <1>1 DEF FiledOnce
<1>8. Handing(s)
  BY <1>1, <1>5 DEF Handing
<1>9. Fewer(t, s) /\ Emptier(t, s)
  <2>1. \A c \in Cells, h \in Hashes : Len(t.root[c][h].list) \in Nat
    BY FilingFacts
  <2> QED
    BY <2>1 DEF Fewer, Emptier
<1>10. \A d : TellsTruth(d, t) => TellsTruth(d, s)
  BY <1>9, StillTrue
<1> QED
  BY <1>2, <1>3, <1>4, <1>6, <1>7, <1>8, <1>10 DEF LargeOK

LEMMA ReverseFacts ==
  ASSUME NEW S, NEW list \in Seq(S)
  PROVE  /\ Reverse(list) \in Seq(S)
         /\ \A i \in 1..Len(Reverse(list)) : \E j \in 1..Len(list) :
              Reverse(list)[i] = list[j]
         /\ \A j \in 1..Len(list) : \E i \in 1..Len(Reverse(list)) :
              Reverse(list)[i] = list[j]
<1> DEFINE n == Len(list)
<1>1. n \in Nat /\ \A j \in 1..n : list[j] \in S
  OBVIOUS
<1>2. Reverse(list) = [i \in 1..n |-> list[(n - i) + 1]]
  BY DEF Reverse
<1> HIDE DEF n
<1>3. \A i \in 1..n : (n - i) + 1 \in 1..n /\ (n - ((n - i) + 1)) + 1 = i
  BY ONLY <1>1
<1>4. Reverse(list) \in [1..n -> S]
  BY <1>1, <1>2, <1>3
<1>5. Reverse(list) \in Seq(S) /\ Len(Reverse(list)) = n
  BY ONLY <1>1, <1>4
<1> QED
  BY <1>2, <1>3, <1>5, SMTT(20) DEF n

LEMMA NewestFirstFacts ==
  ASSUME NEW e \in WinBlocks, e.write <= Len(e.match)
  PROVE  /\ DOMAIN NewestFirst(e) \in SUBSET Nat
         /\ \A i \in DOMAIN NewestFirst(e) :
              \E j \in 1..Len(e.match) : NewestFirst(e)[i] = e.match[j]
         /\ \A j \in 1..Len(e.match) :
              \E i \in DOMAIN NewestFirst(e) : NewestFirst(e)[i] = e.match[j]
<1> DEFINE n == Len(e.match)
           a == SubSeq(e.match, 1, e.write)
           b == SubSeq(e.match, e.write + 1, n)
<1> DEFINE S == Entries
<1>0. e.match \in Seq(S) /\ e.write \in Nat
  BY DEF WinBlocks
<1> HIDE DEF S
<1>1. n \in Nat /\ \A j \in 1..n : e.match[j] \in S
  BY <1>0
<1>2. /\ a \in Seq(S) /\ Len(a) = e.write
      /\ \A i \in 1..Len(a) : \E j \in 1..n : a[i] = e.match[j]
      /\ \A j \in 1..e.write : a[j] = e.match[j]
  <2>1. /\ a \in Seq(S) /\ Len(a) = e.write
        /\ \A i \in 1..e.write : a[i] = e.match[i]
    BY <1>0, <1>1
  <2>2. \A i \in 1..e.write : i \in 1..n
    BY <1>0, <1>1
  <2> QED
    BY <2>1, <2>2
<1>3. /\ b \in Seq(S) /\ Len(b) = n - e.write
      /\ \A i \in 1..Len(b) : \E j \in 1..n : b[i] = e.match[j]
      /\ \A i \in 1..(n - e.write) : b[i] = e.match[e.write + i]
  <2>1. /\ b \in Seq(S) /\ Len(b) = n - e.write
        /\ \A i \in 1..(n - e.write) : b[i] = e.match[e.write + i]
    BY <1>0, <1>1
  <2>2. \A i \in 1..(n - e.write) : e.write + i \in 1..n
    <3>1. e.write <= n /\ e.write \in Nat
      BY <1>0
    <3> HIDE DEF n
    <3> QED
      BY <1>1, <3>1
  <2> QED
    BY <2>1, <2>2
<1>4. NewestFirst(e) = Reverse(a) \o Reverse(b)
  BY DEF NewestFirst
<1> HIDE DEF n, a, b
<1> DEFINE x == Reverse(a)
           y == Reverse(b)
<1>5. /\ x \in Seq(S) /\ \A i \in 1..Len(x) : \E j \in 1..Len(a) : x[i] = a[j]
      /\ y \in Seq(S) /\ \A i \in 1..Len(y) : \E j \in 1..Len(b) : y[i] = b[j]
      /\ \A j \in 1..Len(a) : \E i \in 1..Len(x) : x[i] = a[j]
      /\ \A j \in 1..Len(b) : \E i \in 1..Len(y) : y[i] = b[j]
  BY <1>2, <1>3, ReverseFacts
<1> HIDE DEF x, y
<1>6. /\ x \o y \in Seq(S) /\ Len(x) \in Nat /\ Len(y) \in Nat
      /\ DOMAIN (x \o y) = 1..(Len(x) + Len(y))
      /\ \A i \in 1..(Len(x) + Len(y)) :
           (x \o y)[i] = IF i <= Len(x) THEN x[i] ELSE y[i - Len(x)]
  BY <1>5
<1>7. ASSUME NEW i \in 1..(Len(x) + Len(y))
      PROVE  \E j \in 1..n : (x \o y)[i] = e.match[j]
  <2>1. CASE i <= Len(x)
    <3>1. i \in 1..Len(x) /\ (x \o y)[i] = x[i]
      BY <1>6, <2>1
    <3>2. PICK k \in 1..Len(a) : x[i] = a[k]
      BY <1>5, <3>1
    <3> QED
      BY <1>2, <3>1, <3>2
  <2>2. CASE ~ (i <= Len(x))
    <3>1. i - Len(x) \in 1..Len(y) /\ (x \o y)[i] = y[i - Len(x)]
      BY <1>6, <2>2
    <3>2. PICK k \in 1..Len(b) : y[i - Len(x)] = b[k]
      BY <1>5, <3>1
    <3> QED
      BY <1>3, <3>1, <3>2
  <2> QED
    BY <2>1, <2>2
<1>8. DOMAIN (x \o y) \in SUBSET Nat
  <2>1. 1..(Len(x) + Len(y)) \subseteq Nat
    BY <1>6
  <2> QED
    BY <1>6, <2>1
<1>9. \A i \in DOMAIN (x \o y) : \E j \in 1..n : (x \o y)[i] = e.match[j]
  BY <1>6, <1>7
<1>10. ASSUME NEW j \in 1..n
       PROVE  \E i \in DOMAIN (x \o y) : (x \o y)[i] = e.match[j]
  <2>1. CASE j <= e.write
    <3>1. j \in 1..Len(a) /\ a[j] = e.match[j]
      BY <1>0, <1>2, <2>1
    <3>2. PICK i \in 1..Len(x) : x[i] = a[j]
      BY <1>5, <3>1
    <3>3. i \in 1..(Len(x) + Len(y)) /\ i <= Len(x)
      BY <1>6
    <3> QED
      BY <1>6, <3>1, <3>2, <3>3
  <2>2. CASE ~ (j <= e.write)
    <3> DEFINE k == j - e.write
    <3>1. k \in 1..(n - e.write) /\ e.write + k = j
      BY <1>0, <1>1, <2>2
    <3>2. b[k] = e.match[j] /\ k \in 1..Len(b)
      BY <1>3, <3>1
    <3>3. PICK i \in 1..Len(y) : y[i] = b[k]
      BY <1>5, <3>2
    <3>4. /\ Len(x) + i \in 1..(Len(x) + Len(y)) /\ ~ (Len(x) + i <= Len(x))
          /\ (Len(x) + i) - Len(x) = i
      BY <1>6
    <3> QED
      BY <1>6, <3>2, <3>3, <3>4
  <2> QED
    BY <2>1, <2>2
<1>11. NewestFirst(e) = x \o y
  BY <1>4 DEF x, y
<1> QED
  BY <1>8, <1>9, <1>10, <1>11 DEF n

(* What a lookup answers is true of the position in every deal of which    *)
(* the entries are true.                                                   *)
Rightly(t, p, limit, says) ==
  /\ says \in {"miss", "lower", "upper"}
  /\ \A d : TellsTruth(d, t) /\ p \in Meets(d) /\ Value[d][p] \in Int =>
       /\ says = "lower" => Value[d][p] > limit
       /\ says = "upper" => Value[d][p] <= limit

LEMMA LookupCardsOK ==
  ASSUME NEW t \in LargeTables, LargeOK(t), NEW p, NEW limit \in Int,
         NEW b \in Blocks,
         \A d : TellsTruth(d, t) =>
           \A k \in 1..Len(t.block[b].match) :
             True(d, t.block[b].match[k], <<p.trick, p.hand>>, p.dist)
  PROVE  LET r == LookupCards(t, b, p.order, limit)
         IN  /\ LargeOK(r.t) /\ \A d : TellsTruth(d, t) => TellsTruth(d, r.t)
             /\ Rightly(t, p, limit, r.says) /\ r.t.root = t.root
<1> DEFINE c == <<p.trick, p.hand>>
           list == NewestFirst(t.block[b])
           hits == {j \in DOMAIN list : Decides(list[j], p.order, limit)}
           x == list[Min(hits)]
           s == [t EXCEPT !.time = @ + 1, !.block[b].read = t.time + 1]
           r == LookupCards(t, b, p.order, limit)
<1>1. CASE hits = {}
  <2>1. r = [t |-> t, says |-> "miss"]
    BY <1>1 DEF LookupCards
  <2> QED
    BY <2>1 DEF Rightly
<1>2. CASE hits # {}
  <2>1. r = [t |-> s, says |-> IF x.lo > limit THEN "lower" ELSE "upper"]
    BY <1>2 DEF LookupCards
  <2>2. /\ t.block[b].match \in Seq(Entries) /\ t.block[b].write \in Nat
        /\ t.block[b].write <= Len(t.block[b].match)
        /\ t.block[b] \in WinBlocks /\ t.time \in Nat
        /\ \A k \in 1..Len(t.block[b].match) : t.block[b].match[k] \in Entries
    BY BlockFacts, LargeFacts DEF LargeOK, BlocksOK, BlockOK
  <2>3. /\ DOMAIN list \in SUBSET Nat
        /\ \A k \in DOMAIN list :
             \E j \in 1..Len(t.block[b].match) : list[k] = t.block[b].match[j]
    <3> DEFINE e == t.block[b]
    <3>1. e \in WinBlocks /\ e.write <= Len(e.match)
      BY <2>2
    <3> HIDE DEF e
    <3>2. /\ DOMAIN NewestFirst(e) \in SUBSET Nat
          /\ \A k \in DOMAIN NewestFirst(e) :
               \E j \in 1..Len(e.match) : NewestFirst(e)[k] = e.match[j]
      BY ONLY <3>1, NewestFirstFacts
    <3> QED
      BY <3>2 DEF e
  <2> HIDE DEF list, r
  <2>4. Min(hits) \in DOMAIN list /\ Decides(x, p.order, limit)
    <3>1. hits \in SUBSET Nat
      BY <2>3
    <3>2. Min(hits) \in hits
      <4> HIDE DEF hits
      <4> QED
        BY <1>2, <3>1, MinOf
    <3> QED
      BY <3>2
  <2>5. PICK k \in 1..Len(t.block[b].match) : x = t.block[b].match[k]
    BY <2>3, <2>4
  <2> HIDE DEF hits, x
  <2>6. x.lo \in Int /\ x.hi \in Int
    BY <2>2, <2>5 DEF Entries
  <2>7. Rightly(t, p, limit, IF x.lo > limit THEN "lower" ELSE "upper")
    <3>1. SUFFICES ASSUME NEW d, TellsTruth(d, t), p \in Meets(d),
                          Value[d][p] \in Int
                   PROVE  IF x.lo > limit THEN Value[d][p] > limit
                          ELSE Value[d][p] <= limit
      BY DEF Rightly
    <3>2. True(d, x, c, p.dist)
      BY <2>5, <3>1
    <3>3. Fits(x.pattern, p.order) /\ (x.lo > limit \/ x.hi <= limit)
      BY <2>4 DEF Decides
    <3>4. c[1] = p.trick /\ c[2] = p.hand
      OBVIOUS
    <3>5. x.lo <= Value[d][p] /\ Value[d][p] <= x.hi
      BY <3>1, <3>2, <3>3, <3>4 DEF True
    <3> DEFINE v == Value[d][p]
    <3>6. v \in Int /\ x.lo <= v /\ v <= x.hi
      BY <3>1, <3>5
    <3> HIDE DEF v
    <3>7. IF x.lo > limit THEN v > limit ELSE v <= limit
      BY ONLY <2>6, <3>3, <3>6, limit \in Int
    <3> QED
      BY <3>7 DEF v
  <2>8. s \in LargeTables
    <3>1. t.time + 1 \in Nat
      <4>1. t.time \in Nat
        BY <2>2
      <4> QED
        BY ONLY <4>1
    <3>2. t.block \in [Blocks -> WinBlocks]
      BY LargeFacts
    <3>3. [t.block EXCEPT ![b].read = t.time + 1] \in [Blocks -> WinBlocks]
      BY <2>2, <3>1, <3>2 DEF WinBlocks
    <3> QED
      BY <3>1, <3>3 DEF LargeTables
  <2>9. /\ s.def = t.def /\ s.max = t.max /\ s.chain = t.chain /\ s.at = t.at
        /\ s.pages = t.pages /\ s.used = t.used /\ s.next = t.next
        /\ s.state = t.state /\ s.old = t.old /\ s.oldNo = t.oldNo
        /\ s.lost = t.lost /\ s.crashed = t.crashed /\ s.root = t.root
        /\ s.block = [t.block EXCEPT ![b].read = t.time + 1]
    BY DEF LargeTables
  <2> HIDE DEF s
  <2>10. \A y \in Blocks : /\ s.block[y].match = t.block[y].match
                           /\ s.block[y].write = t.block[y].write
    <3>1. SUFFICES ASSUME NEW y \in Blocks
                   PROVE  /\ s.block[y].match = t.block[y].match
                          /\ s.block[y].write = t.block[y].write
      OBVIOUS
    <3>2. t.block \in [Blocks -> WinBlocks] /\ t.block[y] \in WinBlocks
      BY LargeFacts
    <3>3. CASE y = b
      <4>1. s.block[y] = [t.block[b] EXCEPT !.read = t.time + 1]
        BY <2>9, <3>2, <3>3
      <4> QED
        BY <2>2, <3>3, <4>1 DEF WinBlocks
    <3>4. CASE y # b
      BY <2>9, <3>2, <3>4
    <3> QED
      BY <3>3, <3>4
  <2>11. LargeOK(s) /\ \A d : TellsTruth(d, t) => TellsTruth(d, s)
    BY ONLY <2>8, <2>9, <2>10, TouchedOK, t \in LargeTables, LargeOK(t)
  <2>12. r.t = s /\ r.says = IF x.lo > limit THEN "lower" ELSE "upper"
    BY <2>1
  <2> QED
    BY <2>7, <2>9, <2>11, <2>12 DEF r
<1> QED
  BY <1>1, <1>2

(* An entry that fits and decides the limit is found, or another one is. *)
LEMMA LookupCardsFinds ==
  ASSUME NEW t, NEW b, t.block[b] \in WinBlocks,
         t.block[b].write <= Len(t.block[b].match), NEW order, NEW limit,
         NEW k \in 1..Len(t.block[b].match),
         Decides(t.block[b].match[k], order, limit)
  PROVE  LookupCards(t, b, order, limit).says # "miss"
<1> DEFINE list == NewestFirst(t.block[b])
           hits == {j \in DOMAIN list : Decides(list[j], order, limit)}
<1>1. PICK i \in DOMAIN list : list[i] = t.block[b].match[k]
  BY NewestFirstFacts
<1>2. hits # {}
  BY <1>1
<1> QED
  BY <1>2 DEF LookupCards

(* What lookup does. *)
Looked(t, p, limit, r) ==
  /\ LargeOK(r.t) /\ \A d : TellsTruth(d, t) => TellsTruth(d, r.t)
  /\ Rightly(t, p, limit, r.says) /\ (DistsOnce(t) => DistsOnce(r.t))

LEMMA SameDists ==
  ASSUME NEW t, NEW s, s.root = t.root, DistsOnce(t)
  PROVE  DistsOnce(s)
BY DEF DistsOnce

LEMMA LookupLargeOK ==
  ASSUME NEW t \in LargeTables, LargeOK(t), NEW p, NEW limit \in Int,
         <<p.trick, p.hand>> \in Cells, p.dist \in DOMAIN HashOf, NEW granted
  PROVE  Looked(t, p, limit, LookupLarge(t, p, limit, granted))
<1> DEFINE c == <<p.trick, p.hand>>
           suit == LookupSuit(t, c, p.dist, granted)
           b == suit.block
           s == [suit.t EXCEPT !.seen[c] = b]
<1>1. Found(t, c, p.dist, suit)
  BY LookupSuitOK
<1>2. LookupLarge(t, p, limit, granted) = Remember(suit, p, limit)
  BY DEF LookupLarge
<1> HIDE DEF suit
<1>3. /\ LargeOK(suit.t) /\ b \in Blocks
      /\ DistsOnce(t) => DistsOnce(suit.t)
      /\ \A d : TellsTruth(d, t) => TellsTruth(d, suit.t)
      /\ suit.empty \/ \E i \in 1..Len(suit.t.root[c][HashOf[p.dist]].list) :
                         suit.t.root[c][HashOf[p.dist]].list[i]
                           = [dist |-> p.dist, block |-> b]
  BY <1>1, Zenon DEF Found
<1>4. suit.t \in LargeTables /\ ~suit.t.crashed
  BY <1>3, Zenon DEF LargeOK, PagesOK, PageList
<1> DEFINE z == suit.t
<1> HIDE DEF z
<1>5. s \in LargeTables
  <2>1. suit.t.seen \in [Cells -> Blocks \union {NoBlock}]
    BY <1>4, LargeFacts
  <2>2. [suit.t.seen EXCEPT ![c] = b] \in [Cells -> Blocks \union {NoBlock}]
    BY <1>3, <2>1, Zenon
  <2> HIDE DEF c, b
  <2> QED
    BY <1>4, <2>2, Zenon DEF LargeTables
<1>6. /\ s.def = z.def /\ s.max = z.max /\ s.chain = z.chain /\ s.at = z.at
      /\ s.pages = z.pages /\ s.used = z.used /\ s.next = z.next
      /\ s.state = z.state /\ s.old = z.old /\ s.oldNo = z.oldNo
      /\ s.lost = z.lost /\ s.crashed = z.crashed /\ s.root = z.root
      /\ s.block = z.block
  BY <1>4 DEF LargeTables, z
<1> HIDE DEF s
<1>7. LargeOK(s) /\ \A d : TellsTruth(d, z) => TellsTruth(d, s)
  <2>1. \A y \in Blocks : /\ s.block[y].match = z.block[y].match
                          /\ s.block[y].write = z.block[y].write
    BY <1>6
  <2>2. z \in LargeTables /\ LargeOK(z)
    BY <1>3, <1>4, Zenon DEF z
  <2> QED
    BY ONLY <1>5, <1>6, <2>1, <2>2, TouchedOK
<1>8. CASE suit.empty
  <2>1. Remember(suit, p, limit) = [t |-> s, says |-> "miss"]
    BY <1>4, <1>8 DEF Remember, s
  <2>2. Rightly(t, p, limit, "miss")
    BY DEF Rightly
  <2> DEFINE r == Remember(suit, p, limit)
  <2>3. r.t = s /\ r.says = "miss"
    BY <2>1
  <2> HIDE DEF r
  <2>4. \A d : TellsTruth(d, t) => TellsTruth(d, s)
    BY <1>3, <1>7, Zenon DEF z
  <2>5. DistsOnce(t) => DistsOnce(s)
    BY <1>3, <1>6, SameDists, Zenon DEF z
  <2> QED
    BY <1>2, <1>7, <2>2, <2>3, <2>4, <2>5 DEF Looked, r
<1>9. CASE ~suit.empty
  <2> DEFINE r == LookupCards(s, b, p.order, limit)
  <2>1. Remember(suit, p, limit) = r
    BY <1>4, <1>9 DEF Remember, s
  <2>2. PICK i \in 1..Len(s.root[c][HashOf[p.dist]].list) :
           s.root[c][HashOf[p.dist]].list[i] = [dist |-> p.dist, block |-> b]
    BY <1>3, <1>6, <1>9, Zenon DEF z
  <2>3. /\ s.root[c][HashOf[p.dist]].list[i].block = b
        /\ s.root[c][HashOf[p.dist]].list[i].dist = p.dist
    BY <2>2
  <2> HIDE DEF b
  <2>4. ASSUME NEW d, TellsTruth(d, s)
        PROVE  \A k \in 1..Len(s.block[b].match) :
                 True(d, s.block[b].match[k], c, p.dist)
    <3>1. c \in Cells /\ HashOf[p.dist] \in Hashes
      BY Sizes
    <3> HIDE DEF c
    <3> QED
      BY <2>3, <2>4, <3>1, Zenon DEF TellsTruth
  <2>5. /\ LargeOK(r.t) /\ \A d : TellsTruth(d, s) => TellsTruth(d, r.t)
        /\ Rightly(s, p, limit, r.says) /\ r.t.root = s.root
    BY <1>3, <1>5, <1>7, <2>4, LookupCardsOK, Zenon
  <2>6. Rightly(t, p, limit, r.says)
    BY <1>3, <1>7, <2>5, Zenon DEF Rightly, z
  <2>7. DistsOnce(t) => DistsOnce(r.t)
    <3>1. r.t.root = z.root
      BY <1>6, <2>5
    <3> QED
      BY <1>3, <3>1, SameDists, Zenon DEF z
  <2> QED
    BY <1>2, <1>3, <1>7, <2>1, <2>5, <2>6, <2>7, Zenon DEF Looked, z
<1> QED
  BY <1>8, <1>9

-----------------------------------------------------------------------------
(* Additions.                                                              *)

(* The entries of a block after an addition: the old ones, the new one, or *)
(* one of the same pattern with a bound of either.                         *)
Mixes(x, entry, m) ==
  /\ m.pattern = entry.pattern /\ x.pattern = entry.pattern
  /\ x.lo \in {entry.lo, m.lo} /\ x.hi \in {entry.hi, m.hi}

Comes(x, entry, match) ==
  x = entry \/ \E j \in 1..Len(match) : x = match[j] \/ Mixes(x, entry, match[j])

(* A lookup that asks what the new entry answers has an answer.            *)
Leaves(entry, match) ==
  \E i \in 1..Len(match) : /\ match[i].pattern = entry.pattern
                           /\ Settles(match[i], entry.lo, entry.hi)

LEMMA TightenedFacts ==
  ASSUME NEW e \in WinBlocks, BlockOK(e), NEW entry \in Entries,
         NEW k \in 1..Len(e.match), e.match[k].pattern = entry.pattern
  PROVE  LET r == [e EXCEPT !.match[k] = Tightened(@, entry)]
         IN  /\ r \in WinBlocks /\ BlockOK(r) /\ Leaves(entry, r.match)
             /\ \A i \in 1..Len(r.match) : Comes(r.match[i], entry, e.match)
<1> DEFINE m == e.match[k]
           lo == IF entry.lo > m.lo THEN entry.lo ELSE m.lo
           hi == IF entry.hi < m.hi THEN entry.hi ELSE m.hi
           x == Tightened(m, entry)
           match == [e.match EXCEPT ![k] = x]
           r == [e EXCEPT !.match = match]
<1>1. e.match \in Seq(Entries) /\ e.write \in Nat /\ m \in Entries
  BY DEF WinBlocks
<1>2. lo \in {entry.lo, m.lo} /\ hi \in {entry.hi, m.hi}
  OBVIOUS
<1>3. lo \in Int /\ hi \in Int
  BY <1>1 DEF Entries
<1>4. lo >= entry.lo /\ hi <= entry.hi /\ entry.lo \in Int /\ entry.hi \in Int
  BY <1>1 DEF Entries
<1> HIDE DEF lo, hi, m
<1>5. x \in Entries /\ x.lo = lo /\ x.hi = hi /\ x.pattern = m.pattern
  BY <1>1, <1>3 DEF Entries, Tightened, lo, hi
<1>6. m.pattern = entry.pattern
  BY DEF m
<1> HIDE DEF x
<1>7. /\ match \in Seq(Entries) /\ Len(match) = Len(e.match) /\ match[k] = x
      /\ \A i \in 1..Len(e.match) : i # k => match[i] = e.match[i]
  BY <1>1, <1>5
<1> HIDE DEF match
<1>8. r \in WinBlocks /\ r.match = match /\ r.write = e.write
  BY <1>7 DEF WinBlocks
<1>9. BlockOK(r)
  BY <1>7, <1>8 DEF BlockOK
<1>10. \A i \in 1..Len(match) : Comes(match[i], entry, e.match)
  <2>1. Mixes(x, entry, e.match[k])
    BY <1>2, <1>5, <1>6 DEF Mixes, m
  <2> QED
    BY <1>7, <2>1 DEF Comes
<1>11. Leaves(entry, match)
  <2>1. \A limit \in Int : entry.lo > limit \/ entry.hi <= limit
                            => lo > limit \/ hi <= limit
    BY <1>4, <1>3
  <2>2. Settles(x, entry.lo, entry.hi)
    BY <1>5, <2>1 DEF Settles
  <2> QED
    BY <1>5, <1>6, <1>7, <2>2 DEF Leaves
<1>12. [e EXCEPT !.match[k] = Tightened(@, entry)] = r
  BY DEF match, x, m
<1> HIDE DEF r
<1> QED
  BY <1>8, <1>9, <1>10, <1>11, <1>12

LEMMA AppendedFacts ==
  ASSUME NEW e \in WinBlocks, BlockOK(e), NEW entry \in Entries
  PROVE  LET full == BlockIsFull(e)
             at == IF full /\ e.write >= BlocksPerEntry THEN 0 ELSE e.write
             r == [e EXCEPT !.write = at + 1,
                     !.match = [j \in 1..(IF full THEN Len(@) ELSE Len(@) + 1) |->
                                  IF j = at + 1 THEN entry ELSE @[j]]]
         IN  /\ r \in WinBlocks /\ BlockOK(r) /\ Leaves(entry, r.match)
             /\ \A i \in 1..Len(r.match) : Comes(r.match[i], entry, e.match)
<1> DEFINE n == Len(e.match)
           w == e.write
           full == n = BlocksPerEntry
           at == IF full /\ w >= BlocksPerEntry THEN 0 ELSE w
           size == IF full THEN n ELSE n + 1
           match == [j \in 1..size |-> IF j = at + 1 THEN entry ELSE e.match[j]]
           r == [e EXCEPT !.write = at + 1, !.match = match]
<1>1. e.match \in Seq(Entries) /\ w \in Nat /\ n \in Nat
      /\ \A j \in 1..n : e.match[j] \in Entries
  BY DEF WinBlocks
<1>2. /\ n <= BlocksPerEntry /\ w <= n /\ (n < BlocksPerEntry => w = n)
      /\ BlocksPerEntry \in Nat \ {0}
  BY Sizes DEF BlockOK
<1> HIDE DEF n, w
<1>3. /\ size \in Nat /\ size <= BlocksPerEntry /\ at + 1 \in 1..size
      /\ size < BlocksPerEntry => at + 1 = size
      /\ \A j \in 1..size : j = at + 1 \/ j \in 1..n
      /\ at + 1 \in Nat
  BY ONLY <1>1, <1>2
<1> HIDE DEF size, at
<1>4. match \in [1..size -> Entries]
  BY <1>1, <1>3
<1>5. match \in Seq(Entries) /\ Len(match) = size
  BY ONLY <1>3, <1>4
<1>6. \A i \in 1..size : Comes(match[i], entry, e.match)
  <2>1. SUFFICES ASSUME NEW i \in 1..size PROVE Comes(match[i], entry, e.match)
    OBVIOUS
  <2>2. CASE i = at + 1
    BY <2>2 DEF Comes
  <2>3. CASE i # at + 1
    BY <1>3, <2>3 DEF Comes, n
  <2> QED
    BY <2>2, <2>3
<1>7. Leaves(entry, match)
  <2>1. at + 1 \in 1..Len(match) /\ match[at + 1] = entry
    BY <1>3, <1>5
  <2> QED
    BY <2>1 DEF Leaves, Settles
<1> HIDE DEF match
<1>8. r \in WinBlocks /\ r.match = match /\ r.write = at + 1
  BY <1>3, <1>5 DEF WinBlocks
<1>9. BlockOK(r)
  BY <1>3, <1>5, <1>8 DEF BlockOK
<1>10. r = [e EXCEPT !.write = at + 1,
                     !.match = [j \in 1..(IF BlockIsFull(e) THEN Len(@) ELSE Len(@) + 1) |->
                                  IF j = at + 1 THEN entry ELSE @[j]]]
  BY DEF match, size, BlockIsFull, n
<1>11. at = IF BlockIsFull(e) /\ e.write >= BlocksPerEntry THEN 0 ELSE e.write
  BY DEF at, w, n, BlockIsFull
<1> HIDE DEF r
<1> QED
  BY <1>5, <1>6, <1>8, <1>9, <1>10, <1>11, <1>7

LEMMA CreateOrUpdateFacts ==
  ASSUME NEW e \in WinBlocks, BlockOK(e), NEW entry \in Entries
  PROVE  LET r == CreateOrUpdate(e, entry)
         IN  /\ r \in WinBlocks /\ BlockOK(r) /\ Leaves(entry, r.match)
             /\ \A i \in 1..Len(r.match) : Comes(r.match[i], entry, e.match)
<1> DEFINE same == {i \in DOMAIN e.match : e.match[i].pattern = entry.pattern}
           k == Min(same)
<1>1. CASE same # {}
  <2>1. DOMAIN e.match = 1..Len(e.match) /\ 1..Len(e.match) \subseteq Nat
    BY DEF WinBlocks
  <2>2. same \in SUBSET Nat
    BY <2>1
  <2>3. k \in same
    <3> HIDE DEF same
    <3> QED
      BY <1>1, <2>2, MinOf
  <2>4. k \in 1..Len(e.match) /\ e.match[k].pattern = entry.pattern
    BY <2>1, <2>3
  <2>5. CreateOrUpdate(e, entry) = [e EXCEPT !.match[k] = Tightened(@, entry)]
    BY <1>1 DEF CreateOrUpdate
  <2> HIDE DEF k
  <2> QED
    BY <2>4, <2>5, TightenedFacts
<1>2. CASE same = {}
  <2> DEFINE full == BlockIsFull(e)
             at == IF full /\ e.write >= BlocksPerEntry THEN 0 ELSE e.write
             r == [e EXCEPT !.write = at + 1,
                     !.match = [j \in 1..(IF full THEN Len(@) ELSE Len(@) + 1) |->
                                  IF j = at + 1 THEN entry ELSE @[j]]]
  <2>1. CreateOrUpdate(e, entry) = r
    BY <1>2 DEF CreateOrUpdate
  <2>2. /\ r \in WinBlocks /\ BlockOK(r) /\ Leaves(entry, r.match)
        /\ \A i \in 1..Len(r.match) : Comes(r.match[i], entry, e.match)
    BY AppendedFacts, Zenon
  <2> HIDE DEF r
  <2> QED
    BY <2>1, <2>2
<1> QED
  BY <1>1, <1>2

LEMMA ComesTrue ==
  ASSUME NEW d, NEW c, NEW dist, NEW x, NEW entry, NEW old, Comes(x, entry, old),
         True(d, entry, c, dist), \A j \in 1..Len(old) : True(d, old[j], c, dist)
  PROVE  True(d, x, c, dist)
<1>1. CASE x = entry \/ \E j \in 1..Len(old) : x = old[j]
  BY <1>1
<1>2. ASSUME NEW j \in 1..Len(old), Mixes(x, entry, old[j])
      PROVE  True(d, x, c, dist)
  <2>1. PICK m : m = old[j]
    OBVIOUS
  <2>2. True(d, m, c, dist) /\ Mixes(x, entry, m)
    BY <1>2, <2>1
  <2>3. SUFFICES ASSUME NEW q \in Meets(d), q.trick = c[1], q.hand = c[2],
                        q.dist = dist, Fits(x.pattern, q.order)
                 PROVE  x.lo <= Value[d][q] /\ Value[d][q] <= x.hi
    BY DEF True
  <2>4. PICK v : v = Value[d][q]
    OBVIOUS
  <2>5. m.lo <= v /\ v <= m.hi /\ entry.lo <= v /\ v <= entry.hi
    BY <2>2, <2>3, <2>4 DEF True, Mixes
  <2> QED
    BY ONLY <2>2, <2>4, <2>5 DEF Mixes
<1> QED
  BY <1>1, <1>2 DEF Comes

(* A true entry in the block of its distribution keeps the table true: what  *)
(* the block holds then comes from the entry and from what it held.         *)
LEMMA TruthAdded ==
  ASSUME NEW d, NEW t \in LargeTables, TellsTruth(d, t), NEW s, NEW b, NEW new,
         s.root = t.root,
         \A x \in Blocks : s.block[x] = IF x = b THEN new ELSE t.block[x],
         NEW c, NEW dist, OwnersOf(t, b) \ {<<c, dist>>} = {},
         NEW entry, True(d, entry, c, dist), NEW old, old = t.block[b].match,
         \A i \in 1..Len(new.match) : Comes(new.match[i], entry, old)
  PROVE  TellsTruth(d, s)
<1>1. ASSUME NEW a \in Cells, NEW h \in Hashes, NEW i \in 1..Len(t.root[a][h].list),
             NEW f, f = t.root[a][h].list[i], NEW k \in 1..Len(s.block[f.block].match)
      PROVE  True(d, s.block[f.block].match[k], a, f.dist)
  <2>1. f.block \in Blocks
    BY <1>1, FilingFacts
  <2>2. \A j \in 1..Len(t.block[f.block].match) :
          True(d, t.block[f.block].match[j], a, f.dist)
    BY <1>1, Zenon DEF TellsTruth
  <2>3. s.block[f.block] = IF f.block = b THEN new ELSE t.block[f.block]
    BY ONLY <2>1, \A x \in Blocks : s.block[x] = IF x = b THEN new ELSE t.block[x]
  <2>4. CASE f.block # b
    BY ONLY <2>2, <2>3, <2>4, k \in 1..Len(s.block[f.block].match)
  <2>5. CASE f.block = b
    <3>1. <<a, f.dist>> \in OwnersOf(t, b)
      <4>1. DOMAIN t.root[a][h].list = 1..Len(t.root[a][h].list)
        BY FilingFacts
      <4> QED
        BY <1>1, <2>5, <4>1 DEF OwnersOf
    <3>2. a = c /\ f.dist = dist
      BY ONLY <3>1, OwnersOf(t, b) \ {<<c, dist>>} = {}
    <3>3. s.block[f.block] = new
      BY ONLY <2>3, <2>5
    <3>4. Comes(new.match[k], entry, old)
      BY ONLY <3>3, k \in 1..Len(s.block[f.block].match),
              \A j \in 1..Len(new.match) : Comes(new.match[j], entry, old)
    <3>5. \A j \in 1..Len(old) : True(d, old[j], c, dist)
      BY ONLY <2>2, <2>5, <3>2, old = t.block[b].match
    <3>6. True(d, new.match[k], c, dist)
      BY ONLY <3>4, <3>5, True(d, entry, c, dist), ComesTrue
    <3> QED
      BY ONLY <3>2, <3>3, <3>6
  <2> QED
    BY <2>4, <2>5
<1> QED
  BY <1>1, Zenon DEF TellsTruth

LEMMA AddLargeOK ==
  ASSUME NEW t \in LargeTables, LargeOK(t), NEW p, <<p.trick, p.hand>> \in Cells,
         NEW lens, NEW lo \in Int, NEW hi \in Int,
         Pattern(p.order, lens) \in Patterns
  PROVE  LET r == AddLarge(t, p, lens, lo, hi)
         IN  /\ LargeOK(r)
             /\ \A d : /\ TellsTruth(d, t) /\ ~ Misfiles(t, p)
                       /\ \A q \in Meets(d) :
                            SamePlace(p, q) /\ Fits(Pattern(p.order, lens), q.order)
                              => lo <= Value[d][q] /\ Value[d][q] <= hi
                       => TellsTruth(d, r)
<1> DEFINE c == <<p.trick, p.hand>>
           b == t.seen[c]
           entry == [pattern |-> Pattern(p.order, lens), lo |-> lo, hi |-> hi]
           new == CreateOrUpdate(t.block[b], entry)
           s == [t EXCEPT !.block = [@ EXCEPT ![b] = new]]
<1>1. b \in Blocks \union {NoBlock} /\ t.block \in [Blocks -> WinBlocks]
  BY LargeFacts
<1>2. CASE b = NoBlock
  BY <1>2 DEF AddLarge
<1>3. CASE b # NoBlock
  <2>1. b \in Blocks /\ t.block[b] \in WinBlocks /\ BlockOK(t.block[b])
    BY <1>1, <1>3 DEF LargeOK, BlocksOK
  <2>2. entry \in Entries
    BY DEF Entries
  <2>3. AddLarge(t, p, lens, lo, hi) = s
    BY <1>3 DEF AddLarge
  <2> HIDE DEF entry, b, c
  <2>4. /\ new \in WinBlocks /\ BlockOK(new)
        /\ \A i \in 1..Len(new.match) : Comes(new.match[i], entry, t.block[b].match)
    BY <2>1, <2>2, CreateOrUpdateFacts
  <2> HIDE DEF new
  <2>5. s \in LargeTables
    <3>1. [t.block EXCEPT ![b] = new] \in [Blocks -> WinBlocks]
      BY <1>1, <2>4
    <3> QED
      BY <3>1 DEF LargeTables
  <2>6. /\ s.def = t.def /\ s.max = t.max /\ s.chain = t.chain /\ s.at = t.at
        /\ s.pages = t.pages /\ s.used = t.used /\ s.next = t.next
        /\ s.state = t.state /\ s.old = t.old /\ s.oldNo = t.oldNo
        /\ s.lost = t.lost /\ s.crashed = t.crashed /\ s.root = t.root
        /\ s.block = [t.block EXCEPT ![b] = new]
    BY DEF LargeTables
  <2> HIDE DEF s
  <2>7. \A x \in Blocks : s.block[x] = IF x = b THEN new ELSE t.block[x]
    BY <1>1, <2>1, <2>6
  <2>8. LargeOK(s)
    <3>1. /\ PagesOK(t) /\ ListsOK(t) /\ BlocksOK(t) /\ FiledInUse(t)
          /\ FiledOnce(t) /\ Handing(t)
      BY DEF LargeOK
    <3>2. PagesOK(s)
      BY <2>6, <3>1 DEF PagesOK, PageList, NextInPage
    <3>3. ListsOK(s)
      BY <2>6, <3>1 DEF ListsOK
    <3>4. BlocksOK(s)
      BY <2>4, <2>7, <3>1 DEF BlocksOK
    <3>5. \A x : /\ InUse(t, x) => InUse(s, x)
                 /\ Unfiled(t, x) => Unfiled(s, x)
      BY <2>6 DEF InUse, Unfiled
    <3>6. FiledInUse(s)
      BY <2>6, <3>1, <3>5 DEF FiledInUse
    <3>7. FiledOnce(s)
      BY <2>6, <3>1 DEF FiledOnce
    <3>8. Handing(s)
      BY <2>6, <3>1, <3>5 DEF Handing
    <3> QED
      BY <2>5, <3>2, <3>3, <3>4, <3>6, <3>7, <3>8 DEF LargeOK
  <2>9. ASSUME NEW d, TellsTruth(d, t), ~ Misfiles(t, p),
               \A q \in Meets(d) :
                 SamePlace(p, q) /\ Fits(Pattern(p.order, lens), q.order)
                   => lo <= Value[d][q] /\ Value[d][q] <= hi
        PROVE  TellsTruth(d, s)
    <3>1. True(d, entry, c, p.dist)
      <4>1. SUFFICES ASSUME NEW q \in Meets(d), q.trick = c[1], q.hand = c[2],
                            q.dist = p.dist, Fits(entry.pattern, q.order)
                     PROVE  entry.lo <= Value[d][q] /\ Value[d][q] <= entry.hi
        BY DEF True
      <4>2. SamePlace(p, q)
        BY <4>1 DEF SamePlace, c
      <4>3. entry.pattern = Pattern(p.order, lens) /\ entry.lo = lo /\ entry.hi = hi
        BY DEF entry
      <4> QED
        BY <2>9, <4>1, <4>2, <4>3
    <3>2. OwnersOf(t, b) \ {<<c, p.dist>>} = {}
      BY <1>3, <2>9, SMTT(20) DEF Misfiles, b, c
    <3> QED
      BY <2>4, <2>6, <2>7, <2>9, <3>1, <3>2, TruthAdded
  <2> QED
    BY <2>3, <2>8, <2>9
<1> QED
  BY <1>2, <1>3

(* A distribution that owns a block is found in its list, with that block.  *)
LEMMA OwnerListed ==
  ASSUME NEW r, DistsOnce(r), NEW c \in Cells, NEW dist, NEW b,
         <<c, dist>> \in OwnersOf(r, b), NEW granted,
         \A h \in Hashes : DOMAIN r.root[c][h].list = 1..Len(r.root[c][h].list)
  PROVE  LookupSuit(r, c, dist, granted) = [t |-> r, block |-> b, empty |-> FALSE]
<1>1. PICK h \in Hashes : \E i \in DOMAIN r.root[c][h].list :
         r.root[c][h].list[i].block = b /\ r.root[c][h].list[i].dist = dist
  BY DEF OwnersOf
<1>2. PICK list : list = r.root[c][h].list
  OBVIOUS
<1>3. PICK i \in DOMAIN list : list[i].block = b /\ list[i].dist = dist
  BY <1>1, <1>2
<1>4. h = HashOf[dist] /\ \A j \in DOMAIN list : list[j].dist = dist => i = j
  <2>1. DOMAIN list = 1..Len(list)
    BY <1>2
  <2> QED
    BY <1>1, <1>2, <1>3, <2>1, SMTT(20) DEF DistsOnce
<1>5. Listed(list, dist)
  BY <1>3 DEF Listed
<1>6. PlaceOf(list, dist) = i
  BY <1>3, <1>4 DEF PlaceOf
<1> QED
  BY <1>2, <1>3, <1>4, <1>5, <1>6 DEF LookupSuit

(* What an addition leaves in the block of its distribution is found.      *)
LEMMA AddLargeFound ==
  ASSUME NEW t \in LargeTables, LargeOK(t), DistsOnce(t),
         NEW p, <<p.trick, p.hand>> \in Cells, p.dist \in DOMAIN HashOf,
         NEW lens, Pattern(p.order, lens) \in Patterns,
         Fits(Pattern(p.order, lens), p.order),
         NEW lo \in Int, NEW hi \in Int, NEW limit \in Int,
         lo > limit \/ hi <= limit,
         NEW granted, NEW r, r = AddLarge(t, p, lens, lo, hi)
  PROVE  /\ DistsOnce(r)
         /\ \/ r.seen[<<p.trick, p.hand>>] = NoBlock
            \/ <<<<p.trick, p.hand>>, p.dist>> \notin
                 OwnersOf(r, r.seen[<<p.trick, p.hand>>])
            \/ LookupLarge(r, p, limit, granted).says # "miss"
<1> DEFINE c == <<p.trick, p.hand>>
           b == t.seen[c]
           entry == [pattern |-> Pattern(p.order, lens), lo |-> lo, hi |-> hi]
           new == CreateOrUpdate(t.block[b], entry)
           hash == HashOf[p.dist]
<1>1. b \in Blocks \union {NoBlock} /\ t.block \in [Blocks -> WinBlocks]
  BY LargeFacts
<1>2. CASE b = NoBlock
  BY <1>2 DEF AddLarge
<1>3. CASE b # NoBlock
  <2>1. b \in Blocks /\ t.block[b] \in WinBlocks /\ BlockOK(t.block[b])
    BY <1>1, <1>3 DEF LargeOK, BlocksOK
  <2>2. entry \in Entries
    BY DEF Entries
  <2>3. r = [t EXCEPT !.block = [@ EXCEPT ![b] = new]]
    BY <1>3 DEF AddLarge
  <2> HIDE DEF entry, b, new
  <2>4. new \in WinBlocks /\ BlockOK(new) /\ Leaves(entry, new.match)
    BY <2>1, <2>2, CreateOrUpdateFacts DEF new
  <2>5. /\ r.root = t.root /\ r.seen = t.seen /\ r.crashed = t.crashed
        /\ r.block = [t.block EXCEPT ![b] = new]
    BY <2>3 DEF LargeTables
  <2>6. r.block[b] = new
    BY <1>1, <2>1, <2>5
  <2>7. DistsOnce(r)
    BY <2>5, SameDists
  <2>8. ~ r.crashed
    BY <2>5 DEF LargeOK, PagesOK, PageList
  <2>9. ASSUME <<c, p.dist>> \in OwnersOf(r, b)
        PROVE  LookupLarge(r, p, limit, granted).says # "miss"
    <3>1. LookupSuit(r, c, p.dist, granted) = [t |-> r, block |-> b, empty |-> FALSE]
      <4> HIDE DEF c
      <4>1. c \in Cells
        BY DEF c
      <4>2. \A h \in Hashes : DOMAIN r.root[c][h].list = 1..Len(r.root[c][h].list)
        BY <2>5, <4>1, FilingFacts
      <4> QED
        BY ONLY <2>7, <2>9, <4>1, <4>2, OwnerListed
    <3> DEFINE s == [r EXCEPT !.seen[c] = b]
    <3>2. LookupLarge(r, p, limit, granted) = LookupCards(s, b, p.order, limit)
      <4>1. LookupLarge(r, p, limit, granted)
              = Remember([t |-> r, block |-> b, empty |-> FALSE], p, limit)
        BY <3>1 DEF LookupLarge
      <4> QED
        BY <2>8, <4>1 DEF Remember
    <3>3. s.block[b] = new
      BY <2>3, <2>6 DEF LargeTables
    <3> HIDE DEF s
    <3>4. PICK k \in 1..Len(new.match) : /\ new.match[k].pattern = entry.pattern
                                          /\ Settles(new.match[k], lo, hi)
      BY <2>4 DEF Leaves, entry
    <3>5. Decides(new.match[k], p.order, limit)
      <4>1. new.match[k].lo > limit \/ new.match[k].hi <= limit
        BY <3>4 DEF Settles
      <4>2. Fits(new.match[k].pattern, p.order)
        BY <3>4 DEF entry
      <4> QED
        BY <4>1, <4>2, Zenon DEF Decides
    <3>6. new.write <= Len(new.match)
      BY <2>4 DEF BlockOK
    <3>7. LookupCards(s, b, p.order, limit).says # "miss"
      BY <2>4, <3>3, <3>5, <3>6, LookupCardsFinds
    <3> QED
      BY <3>2, <3>7
  <2> QED
    BY <2>5, <2>7, <2>9 DEF b
<1> QED
  BY <1>2, <1>3

-----------------------------------------------------------------------------
(* The steps of a context.                                                 *)

LEMMA DealFacts ==
  ASSUME NEW d \in Deals
  PROVE  /\ Limits[d] \subseteq Int
         /\ \A p \in Meets(d) :
              /\ p.trick \in Int /\ p.trick \in 1..TtTricks
              /\ <<p.trick, p.hand>> \in Cells /\ <<p.trick, p.hand>> \in Squares
              /\ p.dist \in DOMAIN HashOf /\ p.dist \in Nat
              /\ \A s \in Suits : p.order[s] \in Seq(0..3)
              /\ Value[d][p] \in Int
              /\ 0 <= Value[d][p] /\ Value[d][p] <= p.trick + 1
<1>1. ASSUME NEW p \in Meets(d)
      PROVE  /\ p.trick \in 1..(TtTricks - 1) /\ p.hand \in Hands
             /\ p.dist \in DOMAIN HashOf /\ Value[d][p] \in 0..(p.trick + 1)
             /\ p.dist \in Nat /\ \A s \in Suits : p.order[s] \in Seq(0..3)
  BY ValueAssumption
<1>2. ASSUME NEW k \in 1..(TtTricks - 1)
      PROVE  k \in 0..(TtTricks - 1) /\ k \in 1..TtTricks /\ k \in Int
  BY Sizes
<1>3. ASSUME NEW p \in Meets(d)
      PROVE  /\ p.trick \in Int /\ p.trick \in 1..TtTricks
             /\ <<p.trick, p.hand>> \in Cells /\ <<p.trick, p.hand>> \in Squares
             /\ p.dist \in DOMAIN HashOf /\ p.dist \in Nat
             /\ Value[d][p] \in Int
             /\ 0 <= Value[d][p] /\ Value[d][p] <= p.trick + 1
  BY <1>1, <1>2 DEF Cells, Squares
<1>4. Limits[d] \subseteq Int
  BY ValueAssumption
<1> QED
  BY <1>1, <1>3, <1>4

LEMMA KindFacts ==
  ASSUME NEW d, NEW t, LargeOK(t) \/ SmallOK(d, t)
  PROVE  /\ t.kind = "large" => LargeOK(t) /\ ~ SmallOK(d, t)
         /\ t.kind # "large" => SmallOK(d, t) /\ ~ LargeOK(t)
         /\ t.kind \in {"large", "small"}
<1>1. SmallOK(d, t) => t.kind = "small"
  BY DEF SmallOK, SlabsOK, Counted
<1>2. LargeOK(t) => t.kind = "large"
  BY LargeFacts DEF LargeOK
<1> QED
  BY <1>1, <1>2

LEMMA InvFacts ==
  ASSUME TablesInv
  PROVE  /\ deal \in Deals /\ strayed \in BOOLEAN /\ open \in Seq(Meets(deal))
         /\ answer.says \in {"miss", "lower", "upper", "added"}
         /\ tt.kind \in {"large", "small"}
         /\ tt.kind = "large" =>
              "large" \in Kinds /\ LargeOK(tt) /\ (~strayed => TellsTruth(deal, tt))
         /\ tt.kind # "large" =>
              "small" \in Kinds /\ SmallOK(deal, tt) /\ Looking(tt.lengths, open)
BY KindFacts DEF TablesInv

LEMMA LimitsFacts ==
  /\ Kinds \subseteq {"large", "small"}
  /\ \A limits \in Resizes["large"] :
       /\ limits.def \in Nat \ {0} /\ limits.max \in Nat
       /\ limits.def <= limits.max /\ limits.max <= Cardinality(PageIds)
  /\ \A limits \in Resizes["small"] : limits.max \in Nat
  /\ LargeLimits.def \in Nat \ {0} /\ LargeLimits.max \in Nat
  /\ LargeLimits.def <= LargeLimits.max
  /\ LargeLimits.max <= Cardinality(PageIds)
  /\ SmallLimits.max \in Nat
BY LimitsAssumption

LEMMA CreateOK ==
  ASSUME NEW kind \in Kinds, NEW d
  PROVE  LET t == Create(kind)
         IN  /\ kind = "large" => LargeOK(t) /\ TellsTruth(d, t)
             /\ kind # "large" => kind = "small" /\ SmallOK(d, t)
<1>1. CASE kind = "large"
  BY <1>1, LimitsFacts, Created DEF Create
<1>2. CASE kind # "large"
  BY <1>2, LimitsFacts, SmallWhenNew DEF Create
<1> QED
  BY <1>1, <1>2

(* Open nodes.                                                             *)
LEMMA NoneLooking == \A lengths : Looking(lengths, <<>>)
BY DEF Looking

LEMMA LookingOn ==
  ASSUME NEW d \in Deals, NEW nodes \in Seq(Meets(d)), NEW p \in Meets(d),
         nodes # <<>> => p.trick < nodes[Len(nodes)].trick,
         NEW lengths, DOMAIN lengths = 1..TtTricks, Looking(lengths, nodes),
         NEW later, later = [lengths EXCEPT ![p.trick] = p.dist]
  PROVE  Looking(later, nodes) /\ Looking(later, Append(nodes, p))
<1> DEFINE n == Len(nodes)
           longer == Append(nodes, p)
<1>1. n \in Nat /\ \A i \in 1..n : nodes[i] \in Meets(d) /\ nodes[i].trick \in Int
  <2>1. n \in Nat /\ \A i \in 1..n : nodes[i] \in Meets(d)
    OBVIOUS
  <2> HIDE DEF n
  <2> QED
    BY <2>1, DealFacts
<1>2. p.trick \in 1..TtTricks /\ p.trick \in Int
  BY DealFacts
<1>3. ASSUME NEW i \in 1..n PROVE p.trick < nodes[i].trick
  <2>1. nodes # <<>> /\ n \in 1..n
    BY <1>1, EmptySeq
  <2>2. p.trick < nodes[n].trick
    BY <2>1
  <2>3. CASE i = n
    BY <2>2, <2>3
  <2>4. CASE i # n
    <3>1. n \in (i + 1)..n
      BY <1>1, <2>4
    <3>2. nodes[n].trick < nodes[i].trick
      BY <3>1 DEF Looking
    <3> QED
      BY <1>1, <1>2, <2>1, <2>2, <3>2
  <2> QED
    BY <2>3, <2>4
<1>4. later[p.trick] = p.dist
  BY <1>2
<1>5. ASSUME NEW i \in 1..n PROVE later[nodes[i].trick] = nodes[i].dist
  <2>1. lengths[nodes[i].trick] = nodes[i].dist
    BY DEF Looking
  <2>2. nodes[i].trick # p.trick
    BY <1>1, <1>2, <1>3
  <2>3. later[nodes[i].trick] = lengths[nodes[i].trick]
    <3>1. nodes[i].trick \in DOMAIN lengths
      BY <1>1, DealFacts
    <3> QED
      BY <2>2, <3>1
  <2> QED
    BY <2>1, <2>3
<1>6. Looking(later, nodes)
  BY <1>5 DEF Looking
<1>7. /\ Len(longer) = n + 1 /\ longer[n + 1] = p
      /\ \A i \in 1..n : longer[i] = nodes[i]
  BY AppendProperties
<1> HIDE DEF longer, n
<1>8. ASSUME NEW i \in 1..(n + 1)
      PROVE  /\ later[longer[i].trick] = longer[i].dist
             /\ \A j \in (i + 1)..(n + 1) : longer[j].trick < longer[i].trick
  <2>1. CASE i = n + 1
    BY <1>1, <1>4, <1>7, <2>1
  <2>2. CASE i # n + 1
    <3>1. i \in 1..n
      BY <1>1, <2>2
    <3>2. ASSUME NEW j \in (i + 1)..(n + 1) PROVE longer[j].trick < longer[i].trick
      <4>1. CASE j = n + 1
        BY <1>3, <1>7, <3>1, <4>1
      <4>2. CASE j # n + 1
        <5>1. j \in 1..n /\ j \in (i + 1)..n
          BY <1>1, <3>1, <4>2
        <5>2. nodes[j].trick < nodes[i].trick
          BY <3>1, <5>1 DEF Looking, n
        <5> QED
          BY <1>7, <3>1, <5>1, <5>2
      <4> QED
        BY <4>1, <4>2
    <3> QED
      BY <1>5, <1>7, <3>1, <3>2
  <2> QED
    BY <2>1, <2>2
<1>9. Looking(later, longer)
  BY <1>7, <1>8 DEF Looking
<1> QED
  BY <1>6, <1>9 DEF longer

LEMMA LookingBack ==
  ASSUME NEW S, NEW nodes \in Seq(S), nodes # <<>>, NEW lengths
  PROVE  LET less == SubSeq(nodes, 1, Len(nodes) - 1)
         IN  /\ less \in Seq(S)
             /\ Looking(lengths, nodes) => Looking(lengths, less)
<1> DEFINE n == Len(nodes)
           less == SubSeq(nodes, 1, n - 1)
<1>1. n \in Nat /\ n # 0
  BY EmptySeq
<1>2. \A i \in 1..(n - 1) : i \in 1..n
  BY <1>1
<1>3. /\ less \in Seq(S) /\ Len(less) = n - 1
      /\ \A i \in 1..(n - 1) : less[i] = nodes[i]
  <2>1. nodes \in Seq(S) /\ 1 \in 1..(n + 1) /\ n - 1 \in (1 - 1)..n
    BY <1>1
  <2>2. less \in Seq(S) /\ Len(less) = n - 1
    <3>1. \A i \in 1..(n - 1) : nodes[i] \in S
      BY <1>2
    <3> DEFINE k == n - 1
    <3>2. k \in Int /\ k >= 0 /\ 1 \in Int /\ less = SubSeq(nodes, 1, k)
      BY <1>1
    <3> HIDE DEF k, less, n
    <3>3. less \in Seq(S) /\ Len(less) = IF 1 <= k THEN k - 1 + 1 ELSE 0
      BY ONLY <3>1, <3>2, SubSeqProperties DEF k
    <3>4. Len(less) = k
      BY <3>2, <3>3
    <3> QED
      BY <3>3, <3>4 DEF k
  <2>3. \A i \in 1..(n - 1) : less[i] = nodes[i]
    BY <1>1, <2>1, SubSeqProperties
  <2> QED
    BY <2>2, <2>3
<1> HIDE DEF less
<1>4. ASSUME Looking(lengths, nodes), NEW i \in 1..(n - 1)
      PROVE  /\ lengths[less[i].trick] = less[i].dist
             /\ \A j \in (i + 1)..(n - 1) : less[j].trick < less[i].trick
  <2>1. \A j \in (i + 1)..(n - 1) : j \in (i + 1)..n /\ j \in 1..(n - 1)
    BY <1>1
  <2>2. /\ lengths[nodes[i].trick] = nodes[i].dist
        /\ \A j \in (i + 1)..n : nodes[j].trick < nodes[i].trick
    BY <1>2, <1>4 DEF Looking
  <2> HIDE DEF n
  <2> QED
    BY <1>3, <2>1, <2>2
<1>5. Looking(lengths, nodes) => Looking(lengths, less)
  BY <1>3, <1>4 DEF Looking
<1> QED
  BY <1>3, <1>5 DEF less

LEMMA InitOK == Init => TablesInv
<1>1. SUFFICES ASSUME Init PROVE TablesInv
  OBVIOUS
<1>2. PICK kind \in Kinds : tt = Create(kind)
  BY <1>1 DEF Init
<1>3. \/ "large" \in Kinds /\ LargeOK(tt) /\ TellsTruth(deal, tt)
      \/ "small" \in Kinds /\ SmallOK(deal, tt)
  BY <1>2, CreateOK
<1>4. open \in Seq(Meets(deal)) /\ Looking(tt.lengths, open)
  BY <1>1, NoneLooking DEF Init
<1>5. answer.says = "miss"
  BY <1>1 DEF Init, Nothing
<1> QED
  BY <1>1, <1>3, <1>4, <1>5 DEF Init, TablesInv

(* The table that a lookup leaves, and what it says to a search that may   *)
(* trust the entries of the table.                                         *)
LookedSmall(d, t, p, limit, r) ==
  /\ Right(d, p, limit, r.says) /\ SmallOK(d, r.t)
  /\ r.t.lengths = [t.lengths EXCEPT ![p.trick] = p.dist]
  /\ DOMAIN t.lengths = 1..TtTricks

LEMMA ConsultOK ==
  ASSUME NEW d \in Deals, NEW t, LargeOK(t) \/ SmallOK(d, t), NEW p \in Meets(d),
         NEW limit \in Limits[d], NEW granted
  PROVE  LET r == Consult(t, p, limit, granted)
         IN  /\ t.kind = "large" => Looked(t, p, limit, r)
             /\ t.kind # "large" => LookedSmall(d, t, p, limit, r)
<1>1. /\ limit \in Int /\ <<p.trick, p.hand>> \in Cells
      /\ <<p.trick, p.hand>> \in Squares
      /\ p.dist \in DOMAIN HashOf /\ Value[d][p] \in Int
  BY DealFacts
<1>2. CASE t.kind = "large"
  <2>1. LargeOK(t) /\ t \in LargeTables
    BY <1>2, KindFacts DEF LargeOK
  <2>2. Looked(t, p, limit, LookupLarge(t, p, limit, "page" \in granted))
    BY <1>1, <2>1, LookupLargeOK
  <2> QED
    BY <1>2, <2>1, <2>2 DEF Consult
<1>3. CASE t.kind # "large"
  <2>1. SmallOK(d, t)
    BY <1>3, KindFacts
  <2>2. LookedSmall(d, t, p, limit, LookupSmall(t, p, limit))
    BY <1>1, <2>1, SmallLooksUp DEF LookedSmall
  <2> QED
    BY <1>3, <2>1, <2>2 DEF Consult
<1> QED
  BY <1>2, <1>3

LEMMA LookupKeeps ==
  ASSUME TablesInv, NEW p \in Meets(deal), NEW limit \in Limits[deal],
         NEW granted, Lookup(p, limit, granted)
  PROVE  TablesInv'
<1> DEFINE r == Consult(tt, p, limit, granted)
<1>1. /\ deal \in Deals /\ strayed \in BOOLEAN /\ open \in Seq(Meets(deal))
      /\ LargeOK(tt) \/ SmallOK(deal, tt)
  BY InvFacts
<1>2. /\ tt.kind = "large" => Looked(tt, p, limit, r)
      /\ tt.kind # "large" => LookedSmall(deal, tt, p, limit, r)
  BY <1>1, ConsultOK
<1>3. /\ tt' = r.t /\ answer' = [says |-> r.says, pos |-> p, limit |-> limit]
      /\ open' = (IF r.says = "miss" THEN Append(open, p) ELSE open)
      /\ deal' = deal /\ strayed' = strayed
      /\ open # <<>> => p.trick < open[Len(open)].trick
  BY DEF Lookup, Top
<1> HIDE DEF r
<1>4. open' \in Seq(Meets(deal))
  BY <1>1, <1>3
<1>5. CASE tt.kind = "large"
  <2>1. "large" \in Kinds /\ (~strayed => TellsTruth(deal, tt))
    BY <1>5, InvFacts
  <2>2. /\ LargeOK(r.t) /\ (~strayed => TellsTruth(deal, r.t))
        /\ r.says \in {"miss", "lower", "upper"}
    BY <1>2, <1>5, <2>1 DEF Looked, Rightly
  <2> QED
    BY <1>1, <1>3, <1>4, <2>1, <2>2 DEF TablesInv
<1>6. CASE tt.kind # "large"
  <2>1. "small" \in Kinds /\ Looking(tt.lengths, open)
    BY <1>6, InvFacts
  <2>2. /\ SmallOK(deal, r.t) /\ r.says \in {"miss", "lower", "upper"}
        /\ r.t.lengths = [tt.lengths EXCEPT ![p.trick] = p.dist]
        /\ DOMAIN tt.lengths = 1..TtTricks
    BY <1>2, <1>6 DEF LookedSmall, Right
  <2> DEFINE before == tt.lengths
             later == r.t.lengths
  <2> HIDE DEF before, later
  <2>3. /\ DOMAIN before = 1..TtTricks /\ Looking(before, open)
        /\ later = [before EXCEPT ![p.trick] = p.dist]
    BY <2>1, <2>2 DEF before, later
  <2>4. Looking(later, open) /\ Looking(later, Append(open, p))
    BY <1>1, <1>3, <2>3, LookingOn
  <2>5. Looking(tt'.lengths, open')
    BY <1>3, <2>4 DEF later
  <2> QED
    BY <1>1, <1>3, <1>4, <2>1, <2>2, <2>5 DEF TablesInv
<1> QED
  BY <1>5, <1>6

(* What an addition knows of its node and of the entry it makes.           *)
LEMMA AddingFacts ==
  ASSUME TablesInv, open # <<>>, NEW l \in Lens(Top), NEW limit \in Limits[deal],
         Proves(Top, l, limit),
         NEW lo, lo = IF Value[deal][Top] > limit THEN limit + 1 ELSE 0,
         NEW hi, hi = IF Value[deal][Top] > limit THEN Top.trick + 1 ELSE limit
  PROVE  /\ Top \in Meets(deal) /\ Top = open[Len(open)] /\ Len(open) \in 1..Len(open)
         /\ <<Top.trick, Top.hand>> \in Cells /\ <<Top.trick, Top.hand>> \in Squares
         /\ Top.dist \in DOMAIN HashOf /\ Top.dist \in Nat
         /\ lo \in Int /\ hi \in Int /\ limit \in Int /\ (lo > limit \/ hi <= limit)
         /\ \A q \in Meets(deal) :
              SamePlace(Top, q) /\ Fits(Pattern(Top.order, l), q.order)
                => lo <= Value[deal][q] /\ Value[deal][q] <= hi
         /\ Pattern(Top.order, l) \in Patterns /\ Fits(Pattern(Top.order, l), Top.order)
         /\ \A j \in Suits : Pattern(Top.order, l)[j] \in Seq(0..3)
<1> DEFINE p == Top
           pattern == Pattern(p.order, l)
<1>1. deal \in Deals /\ open \in Seq(Meets(deal))
  BY InvFacts
<1>2. p \in Meets(deal) /\ p = open[Len(open)] /\ Len(open) \in 1..Len(open)
  <2>1. Len(open) \in 1..Len(open)
    BY <1>1
  <2> QED
    BY <1>1, <2>1 DEF Top
<1>3. /\ limit \in Int /\ p.trick \in Int /\ Value[deal][p] \in Int
      /\ <<p.trick, p.hand>> \in Cells /\ <<p.trick, p.hand>> \in Squares
      /\ p.dist \in DOMAIN HashOf /\ p.dist \in Nat
      /\ \A s \in Suits : p.order[s] \in Seq(0..3)
  BY <1>1, <1>2, DealFacts
<1>4. /\ lo = IF Value[deal][p] > limit THEN limit + 1 ELSE 0
      /\ hi = IF Value[deal][p] > limit THEN p.trick + 1 ELSE limit
      /\ l \in Lens(p) /\ Proves(p, l, limit)
  OBVIOUS
<1> HIDE DEF p
<1>5. lo \in Int /\ hi \in Int /\ (lo > limit \/ hi <= limit)
  BY <1>3, <1>4
<1>6. ASSUME NEW q \in Meets(deal), SamePlace(p, q), Fits(pattern, q.order)
      PROVE  lo <= Value[deal][q] /\ Value[deal][q] <= hi
  <2>1. (Value[deal][q] > limit) = (Value[deal][p] > limit)
    BY <1>4, <1>6 DEF Proves
  <2>2. /\ Value[deal][q] \in Int /\ 0 <= Value[deal][q]
        /\ Value[deal][q] <= q.trick + 1
    BY <1>1, DealFacts
  <2>3. q.trick = p.trick
    BY <1>6 DEF SamePlace
  <2> QED
    BY <1>3, <1>4, <2>1, <2>2, <2>3
<1>7. pattern \in Patterns
  BY <1>1, <1>2, <1>4 DEF Patterns, Positions
<1>8. ASSUME NEW j \in Suits
      PROVE  pattern[j] \in Seq(0..3) /\ Covers(pattern[j], p.order[j])
  <2> DEFINE order == p.order[j]
             k == l[j]
             prefix == SubSeq(order, 1, k)
  <2>1. order \in Seq(0..3) /\ k \in Nat /\ k <= Len(order)
    BY <1>3, <1>4 DEF Lens
  <2>2. pattern[j] = prefix
    BY DEF Pattern
  <2> HIDE DEF order, k
  <2>3. \A i \in 1..k : i \in 1..Len(order)
    BY <2>1
  <2>4. /\ prefix \in Seq(0..3) /\ Len(prefix) = k
        /\ \A i \in 1..k : prefix[i] = order[i]
    BY <2>1, <2>3, SubSeqProperties
  <2> HIDE DEF prefix, pattern
  <2> QED
    BY <2>1, <2>2, <2>4 DEF Covers, order
<1>9. Fits(pattern, p.order)
  BY <1>8 DEF Fits
<1> QED
  BY <1>2, <1>3, <1>5, <1>6, <1>7, <1>8, <1>9 DEF p

LEMMA AddKeeps ==
  ASSUME TablesInv, open # <<>>, NEW l, l \in Lens(Top),
         NEW limit, limit \in Limits[deal], NEW granted, Add(l, limit, granted)
  PROVE  TablesInv'
<1> DEFINE p == Top
           wins == Value[deal][p] > limit
           lo == IF wins THEN limit + 1 ELSE 0
           hi == IF wins THEN p.trick + 1 ELSE limit
<1>1. deal \in Deals /\ strayed \in BOOLEAN /\ open \in Seq(Meets(deal))
  BY InvFacts
<1>2. /\ open' = SubSeq(open, 1, Len(open) - 1) /\ open' \in Seq(Meets(deal))
      /\ \A x : Looking(x, open) => Looking(x, open')
  <2>1. open' = SubSeq(open, 1, Len(open) - 1)
    BY DEF Add
  <2> QED
    BY <1>1, <2>1, LookingBack
<1>3. /\ answer' = [says |-> "added", pos |-> p, limit |-> limit]
      /\ deal' = deal /\ Proves(p, l, limit)
      /\ tt.kind = "large" => /\ tt' = AddLarge(tt, p, l, lo, hi)
                              /\ strayed' = (strayed \/ Misfiles(tt, p))
      /\ tt.kind # "large" => /\ tt' = AddSmall(tt, p, l, lo, hi, granted)
                              /\ strayed' = strayed
  BY DEF Add
<1>4. /\ p = open[Len(open)] /\ Len(open) \in 1..Len(open)
      /\ <<p.trick, p.hand>> \in Cells /\ <<p.trick, p.hand>> \in Squares
      /\ p.dist \in Nat /\ lo \in Int /\ hi \in Int
      /\ \A q \in Meets(deal) :
           SamePlace(p, q) /\ Fits(Pattern(p.order, l), q.order)
             => lo <= Value[deal][q] /\ Value[deal][q] <= hi
      /\ Pattern(p.order, l) \in Patterns
      /\ \A j \in Suits : Pattern(p.order, l)[j] \in Seq(0..3)
  BY <1>3, AddingFacts
<1> HIDE DEF p, lo, hi
<1>5. CASE tt.kind = "large"
  <2>1. /\ LargeOK(tt) /\ tt \in LargeTables /\ (~strayed => TellsTruth(deal, tt))
        /\ "large" \in Kinds
    BY <1>5, InvFacts DEF LargeOK
  <2> DEFINE r == AddLarge(tt, p, l, lo, hi)
  <2>2. /\ LargeOK(r)
        /\ TellsTruth(deal, tt) /\ ~ Misfiles(tt, p) => TellsTruth(deal, r)
    BY <1>4, <2>1, AddLargeOK
  <2>3. tt' = r /\ strayed' = (strayed \/ Misfiles(tt, p))
    BY <1>3, <1>5
  <2> HIDE DEF r
  <2>4. LargeOK(tt') /\ (~strayed' => TellsTruth(deal', tt'))
    BY <1>3, <2>1, <2>2, <2>3
  <2>5. strayed' \in BOOLEAN
    BY <2>3
  <2>6. answer'.says = "added"
    BY <1>3
  <2> QED
    BY <1>1, <1>2, <1>3, <2>1, <2>4, <2>5, <2>6 DEF TablesInv
<1>6. CASE tt.kind # "large"
  <2>1. "small" \in Kinds /\ SmallOK(deal, tt) /\ Looking(tt.lengths, open)
    BY <1>6, InvFacts
  <2>2. tt.lengths[p.trick] = p.dist
    BY <1>4, <2>1 DEF Looking
  <2>3. True(deal, [pattern |-> Pattern(p.order, l), lo |-> lo, hi |-> hi],
             <<p.trick, p.hand>>, p.dist)
    BY <1>4 DEF True, SamePlace
  <2>4. tt' = AddSmall(tt, p, l, lo, hi, granted) /\ strayed' = strayed
    BY <1>3, <1>6
  <2>5. SmallOK(deal, tt') /\ tt'.lengths = tt.lengths
    <3> DEFINE pattern == Pattern(p.order, l)
    <3>1. MayAdd(deal, tt, p, p.dist, pattern, lo, hi)
      BY <1>4, <2>1, <2>2, <2>3 DEF MayAdd
    <3>2. Pattern(p.order, l) = pattern
      OBVIOUS
    <3> HIDE DEF pattern
    <3>3. Added(deal, tt, p, p.dist, pattern, lo, hi, tt')
      BY ONLY <2>4, <3>1, <3>2, SmallAdds
    <3> QED
      BY <3>3 DEF Added
  <2>6. SmallOK(deal', tt') /\ Looking(tt'.lengths, open')
    BY <1>2, <1>3, <2>1, <2>5
  <2>7. answer'.says = "added"
    BY <1>3
  <2> QED
    BY <1>1, <1>2, <1>3, <2>1, <2>4, <2>6, <2>7 DEF TablesInv
<1> QED
  BY <1>5, <1>6

LEMMA ReturnKeeps == TablesInv /\ Return => TablesInv'
<1>1. SUFFICES ASSUME TablesInv, Return PROVE TablesInv'
  OBVIOUS
<1>2. /\ open \in Seq(Meets(deal)) /\ open # <<>>
      /\ open' = SubSeq(open, 1, Len(open) - 1)
  BY <1>1 DEF TablesInv, Return
<1>3. /\ open' \in Seq(Meets(deal))
      /\ \A x : Looking(x, open) => Looking(x, open')
  BY <1>2, LookingBack
<1>4. deal' = deal /\ tt' = tt /\ strayed' = strayed /\ answer'.says = "miss"
  BY <1>1 DEF Return, Nothing
<1> QED
  BY <1>1, <1>3, <1>4 DEF TablesInv

LEMMA EmptyWithoutPages ==
  ASSUME NEW t, LargeOK(t), t.at = 0, NEW d
  PROVE  TellsTruth(d, t)
<1>1. \A b : ~ InUse(t, b)
  BY DEF InUse
<1>2. ASSUME NEW c \in Cells, NEW h \in Hashes, NEW i \in 1..Len(t.root[c][h].list)
      PROVE  FALSE
  BY <1>1 DEF LargeOK, FiledInUse
<1> QED
  BY <1>2, Zenon DEF TellsTruth

LEMMA ResetLargeOK ==
  ASSUME NEW t, LargeOK(t), NEW d
  PROVE  LargeOK(ResetLarge(t)) /\ TellsTruth(d, ResetLarge(t))
<1>1. t \in LargeTables /\ PageList(t) /\ t.at \in Nat
  BY LargeFacts DEF LargeOK, PagesOK
<1>2. CASE t.at = 0
  BY <1>1, <1>2, ResetOK, EmptyWithoutPages
<1>3. CASE t.at > 0
  <2> DEFINE r == ResetLarge(t)
  <2>1. LargeOK(r) /\ Blank(r)
    BY <1>1, <1>3, ResetOK
  <2> HIDE DEF r
  <2>2. TellsTruth(d, r)
    BY <2>1, BlankOK DEF LargeOK
  <2> QED
    BY <2>1, <2>2 DEF r
<1> QED
  BY <1>1, <1>2, <1>3

LEMMA NewDealKeeps ==
  ASSUME TablesInv, NEW d \in Deals, NewDeal(d)
  PROVE  TablesInv'
<1>1. /\ deal' = d /\ tt' = Reset(tt) /\ open' = <<>> /\ strayed' = FALSE
      /\ answer'.says = "miss"
  BY DEF NewDeal, Nothing
<1>2. open' \in Seq(Meets(d)) /\ \A x : Looking(x, open')
  BY <1>1, NoneLooking
<1>3. CASE tt.kind = "large"
  <2>1. LargeOK(tt) /\ "large" \in Kinds
    BY <1>3, InvFacts
  <2>2. LargeOK(tt') /\ TellsTruth(d, tt')
    BY <1>1, <1>3, <2>1, ResetLargeOK DEF Reset
  <2> QED
    BY <1>1, <1>2, <2>1, <2>2 DEF TablesInv
<1>4. CASE tt.kind # "large"
  <2>1. SmallOK(deal, tt) /\ "small" \in Kinds
    BY <1>4, InvFacts
  <2>2. IsSmall(tt) /\ Counted(tt) /\ DOMAIN tt.lengths = 1..TtTricks
    BY <2>1 DEF SmallOK, SlabsOK, PathsOK, LinksOK
  <2>3. SmallOK(d, tt')
    BY <1>1, <1>4, <2>2, SmallWhenReset DEF Reset
  <2> QED
    BY <1>1, <1>2, <2>1, <2>3 DEF TablesInv
<1> QED
  BY <1>3, <1>4

LEMMA ResizeLargeOK ==
  ASSUME NEW t, LargeOK(t), NEW limits \in Resizes["large"], LeavesRoom(t, limits)
  PROVE  LET r == ResizeLarge(t, limits)
         IN  LargeOK(r) /\ \A d : TellsTruth(d, t) => TellsTruth(d, r)
<1> DEFINE r == ResizeLarge(t, limits)
<1>1. /\ limits.def \in Nat \ {0} /\ limits.max \in Nat
      /\ limits.def <= limits.max /\ limits.max <= Cardinality(PageIds)
  BY LimitsFacts
<1>2. t \in LargeTables
  BY DEF LargeOK
<1>3. limits.max \in Nat \ {0}
  BY <1>1
<1>4. r \in LargeTables
  BY <1>1, <1>2, <1>3 DEF ResizeLarge, LargeTables
<1>5. /\ r.def = limits.def /\ r.max = limits.max /\ r.chain = t.chain /\ r.at = t.at
      /\ r.pages = t.pages /\ r.used = t.used /\ r.next = t.next
      /\ r.state = t.state /\ r.old = t.old /\ r.oldNo = t.oldNo
      /\ r.lost = t.lost /\ r.crashed = t.crashed /\ r.root = t.root
      /\ r.block = t.block
  BY <1>2 DEF ResizeLarge, LargeTables
<1> HIDE DEF r
<1>6. /\ PagesOK(t) /\ ListsOK(t) /\ BlocksOK(t) /\ FiledInUse(t)
      /\ FiledOnce(t) /\ Handing(t)
  BY DEF LargeOK
<1>7. PagesOK(r)
  <2>1. t.pages <= limits.max /\ (t.pages <= limits.def \/ t.at = Len(t.chain))
    BY <1>2, LargeFacts DEF LeavesRoom
  <2>2. t.at < Len(t.chain) => t.at # Len(t.chain)
    BY <1>2, LargeFacts
  <2> QED
    BY <1>1, <1>5, <1>6, <2>1, <2>2 DEF PagesOK, PageList, NextInPage
<1>8. \A x : InUse(t, x) = InUse(r, x) /\ Unfiled(t, x) = Unfiled(r, x)
  BY <1>5 DEF InUse, Unfiled
<1>9. LargeOK(r)
  BY <1>4, <1>5, <1>6, <1>7, <1>8
     DEF LargeOK, ListsOK, BlocksOK, FiledInUse, FiledOnce, Handing
<1>10. \A d : TellsTruth(d, t) => TellsTruth(d, r)
  BY <1>5, Zenon DEF TellsTruth
<1> QED
  BY <1>9, <1>10 DEF r

LEMMA ResizeKeeps ==
  ASSUME TablesInv, NEW limits \in Resizes[tt.kind], Resize(limits)
  PROVE  TablesInv'
<1>1. deal \in Deals /\ strayed \in BOOLEAN /\ open \in Seq(Meets(deal))
  BY InvFacts
<1>2. /\ deal' = deal /\ open' = open /\ strayed' = strayed /\ open = <<>>
      /\ answer'.says = "miss" /\ LeavesRoom(tt, limits)
      /\ tt' = IF tt.kind = "large" THEN ResizeLarge(tt, limits)
               ELSE ResizeSmall(tt, limits)
  BY DEF Resize, Nothing
<1>3. CASE tt.kind = "large"
  <2>1. /\ LargeOK(tt) /\ "large" \in Kinds /\ limits \in Resizes["large"]
        /\ ~strayed => TellsTruth(deal, tt)
    BY <1>3, InvFacts
  <2>2. LargeOK(tt') /\ (TellsTruth(deal, tt) => TellsTruth(deal, tt'))
    BY <1>2, <1>3, <2>1, ResizeLargeOK
  <2> QED
    BY <1>1, <1>2, <2>1, <2>2 DEF TablesInv
<1>4. CASE tt.kind # "large"
  <2>1. SmallOK(deal, tt) /\ "small" \in Kinds /\ tt.kind = "small"
    BY <1>4, InvFacts
  <2>2. limits.max \in Nat /\ (tt.alloc <= limits.max \/ tt.alloc = InitMem)
    BY <1>2, <1>4, <2>1, LimitsFacts DEF LeavesRoom
  <2>3. SmallOK(deal, tt')
    BY <1>2, <1>4, <2>1, <2>2, SmallWhenResized
  <2>4. Looking(tt'.lengths, open')
    BY <1>2, NoneLooking
  <2> QED
    BY <1>1, <1>2, <2>1, <2>3, <2>4 DEF TablesInv
<1> QED
  BY <1>3, <1>4

LEMMA ReplaceKeeps ==
  ASSUME TablesInv, NEW kind \in Kinds, Replace(kind)
  PROVE  TablesInv'
<1>1. /\ deal' = deal /\ open' = open /\ strayed' = FALSE /\ open = <<>>
      /\ answer'.says = "miss" /\ tt' = Create(kind)
  BY DEF Replace, Nothing
<1>2. \/ "large" \in Kinds /\ LargeOK(tt') /\ TellsTruth(deal, tt')
      \/ "small" \in Kinds /\ SmallOK(deal, tt')
  BY <1>1, CreateOK
<1>3. Looking(tt'.lengths, open')
  BY <1>1, NoneLooking
<1> QED
  BY <1>1, <1>2, <1>3 DEF TablesInv

(* The inductive invariant: the table a context has hangs together as      *)
(* LargeOK or SmallOK says, its entries are true of the deal that is       *)
(* solved, and a small table knows the lengths of every node still open.   *)
THEOREM TablesInvariant == Spec => []TablesInv
<1>1. Init => TablesInv
  BY InitOK
<1>2. TablesInv /\ [Next]_vars => TablesInv'
  <2>1. SUFFICES ASSUME TablesInv, [Next]_vars PROVE TablesInv'
    OBVIOUS
  <2>2. ASSUME NEW p \in Meets(deal), NEW limit \in Limits[deal],
               NEW granted \in Allocations, Lookup(p, limit, granted)
        PROVE  TablesInv'
    BY <2>1, <2>2, LookupKeeps
  <2>3. ASSUME NEW l \in [Suits -> 0..2], NEW limit \in Limits[deal],
               NEW granted \in Allocations, open # <<>>, l \in Lens(Top),
               Add(l, limit, granted)
        PROVE  TablesInv'
    BY <2>1, <2>3, AddKeeps
  <2>4. CASE Return
    BY <2>1, <2>4, ReturnKeeps
  <2>5. ASSUME NEW d \in Deals, NewDeal(d) PROVE TablesInv'
    BY <2>1, <2>5, NewDealKeeps
  <2>6. ASSUME NEW limits \in Resizes[tt.kind], Resize(limits) PROVE TablesInv'
    BY <2>1, <2>6, ResizeKeeps
  <2>7. ASSUME NEW kind \in Kinds, Replace(kind) PROVE TablesInv'
    BY <2>1, <2>7, ReplaceKeeps
  <2>8. CASE UNCHANGED vars
    BY <2>1, <2>8 DEF TablesInv, vars
  <2> QED
    BY <2>1, <2>2, <2>3, <2>4, <2>5, <2>6, <2>7, <2>8 DEF Next
<1> QED
  BY <1>1, <1>2, PTL DEF Spec

(* Every variable keeps its type: a lookup of either table ends with one   *)
(* of its three answers, the seen and the filed blocks are blocks, and no  *)
(* list of the large table outgrows its array.                             *)
THEOREM TypesKept == Spec => []TypeOK
<1>1. TablesInv => TypeOK
  <2>1. SUFFICES ASSUME TablesInv PROVE TypeOK
    OBVIOUS
  <2>2. deal \in Deals /\ strayed \in BOOLEAN /\ open \in Seq(Meets(deal))
        /\ answer.says \in {"miss", "lower", "upper", "added"}
        /\ tt.kind \in {"large", "small"}
    BY <2>1, InvFacts
  <2>3. \A i \in DOMAIN open : open[i] \in Meets(deal)
    BY <2>2
  <2>4. ASSUME tt.kind = "large"
        PROVE  /\ \A c \in Cells : tt.seen[c] \in Blocks \union {NoBlock}
               /\ \A c \in Cells, h \in Hashes :
                    /\ Len(tt.root[c][h].list) <= DistsPerEntry
                    /\ tt.root[c][h].write <= DistsPerEntry
               /\ \A b \in Blocks : /\ Len(tt.block[b].match) <= BlocksPerEntry
                                    /\ tt.block[b].write <= Len(tt.block[b].match)
    <3>1. LargeOK(tt) /\ tt \in LargeTables
      BY <2>1, <2>4, InvFacts DEF LargeOK
    <3>2. \A c \in Cells : tt.seen[c] \in Blocks \union {NoBlock}
      BY <3>1, LargeFacts
    <3>3. \A c \in Cells, h \in Hashes : /\ Len(tt.root[c][h].list) <= DistsPerEntry
                                         /\ tt.root[c][h].write <= DistsPerEntry
      BY <3>1 DEF LargeOK, ListsOK, ListOK
    <3>4. \A b \in Blocks : /\ Len(tt.block[b].match) <= BlocksPerEntry
                            /\ tt.block[b].write <= Len(tt.block[b].match)
      BY <3>1 DEF LargeOK, BlocksOK, BlockOK
    <3> QED
      BY <3>2, <3>3, <3>4
  <2> QED
    BY <2>2, <2>3, <2>4 DEF TypeOK
<1> QED
  BY <1>1, TablesInvariant, PTL

LEMMA FewOwners ==
  ASSUME NEW t, LargeOK(t), NEW b \in Blocks
  PROVE  Cardinality(OwnersOf(t, b)) <= 1
<1> DEFINE O == OwnersOf(t, b)
<1>1. t \in LargeTables /\ FiledOnce(t)
  BY DEF LargeOK
<1>2. ASSUME NEW x \in O
      PROVE  \E c \in Cells, h \in Hashes : \E i \in 1..Len(t.root[c][h].list) :
               /\ t.root[c][h].list[i].block = b
               /\ x = <<c, t.root[c][h].list[i].dist>>
  BY <1>1, FilingFacts DEF OwnersOf
<1>3. ASSUME NEW x \in O, NEW y \in O PROVE x = y
  <2>1. PICK c \in Cells, h \in Hashes : \E i \in 1..Len(t.root[c][h].list) :
               /\ t.root[c][h].list[i].block = b
               /\ x = <<c, t.root[c][h].list[i].dist>>
    BY <1>2
  <2>2. PICK i \in 1..Len(t.root[c][h].list) :
               /\ t.root[c][h].list[i].block = b
               /\ x = <<c, t.root[c][h].list[i].dist>>
    BY <2>1
  <2>3. PICK d \in Cells, g \in Hashes : \E j \in 1..Len(t.root[d][g].list) :
               /\ t.root[d][g].list[j].block = b
               /\ y = <<d, t.root[d][g].list[j].dist>>
    BY <1>2
  <2>4. PICK j \in 1..Len(t.root[d][g].list) :
               /\ t.root[d][g].list[j].block = b
               /\ y = <<d, t.root[d][g].list[j].dist>>
    BY <2>3
  <2>5. t.root[c][h].list[i].block = t.root[d][g].list[j].block
    BY <2>2, <2>4
  <2>6. c = d /\ h = g /\ i = j
    <3>1. FiledOnce(t)
      BY <1>1
    <3>2. c \in Cells /\ d \in Cells /\ h \in Hashes /\ g \in Hashes
          /\ i \in 1..Len(t.root[c][h].list) /\ j \in 1..Len(t.root[d][g].list)
      OBVIOUS
    <3> QED
      BY ONLY <2>5, <3>1, <3>2 DEF FiledOnce
  <2> QED
    BY <2>2, <2>4, <2>6
<1> HIDE DEF O
<1>4. CASE O = {}
  <2>1. Cardinality({}) = 0
    BY FS_EmptySet
  <2> QED
    BY <1>4, <2>1 DEF O
<1>5. CASE O # {}
  <2>1. PICK x \in O : TRUE
    BY <1>5
  <2>2. O = {x}
    BY <1>3, <2>1
  <2>3. Cardinality({x}) = 1
    BY FS_Singleton
  <2> QED
    BY <2>2, <2>3 DEF O
<1> QED
  BY <1>4, <1>5

(* The memory of either table has one owner and is what its counters say,  *)
(* through every lookup, addition, harvest, reset and change of size: in   *)
(* trans_table_l.cpp no block is filed twice or handed out while it is     *)
(* filed, and no page is lost; in trans_table_s.cpp nothing is written     *)
(* outside the slabs and temp_win_.                                        *)
THEOREM MemoryAlwaysAccounted == Spec => []MemoryAccounted
<1>1. TablesInv => MemoryAccounted
  <2>1. SUFFICES ASSUME TablesInv PROVE MemoryAccounted
    OBVIOUS
  <2>2. CASE tt.kind = "large"
    <3>1. LargeOK(tt) /\ tt \in LargeTables
      BY <2>1, <2>2, InvFacts DEF LargeOK
    <3>2. /\ PagesOK(tt) /\ FiledInUse(tt) /\ Handing(tt)
      BY <3>1 DEF LargeOK
    <3>3. OneOwner
      <4>1. \A b \in Blocks : Cardinality(OwnersOf(tt, b)) <= 1
        BY <3>1, FewOwners
      <4>2. ASSUME NEW c \in Cells, NEW h \in Hashes, NEW b \in FiledBlocks(c, h)
            PROVE  /\ \E i \in 1..tt.at : /\ tt.chain[i] = b[1]
                                          /\ b[2] < tt.used[b[1]]
                   /\ tt.state = "harvest" =>
                        \A i \in (tt.oldNo + 1)..Len(tt.old) : tt.old[i] # b
        <5>1. PICK i \in 1..Len(tt.root[c][h].list) : b = tt.root[c][h].list[i].block
          BY <3>1, FilingFacts DEF FiledBlocks
        <5>2. InUse(tt, b)
          BY <3>2, <5>1 DEF FiledInUse
        <5>3. \A k : Unfiled(tt, tt.old[k]) => tt.old[k] # b
          BY <5>1 DEF Unfiled
        <5> QED
          BY <3>2, <5>2, <5>3 DEF InUse, Handing
      <4> QED
        BY <4>1, <4>2 DEF OneOwner
    <3>4. PagesCounted
      BY <3>2 DEF PagesCounted, PagesOK, PageList, NextInPage
    <3>5. SlabsHold
      BY <2>2 DEF SlabsHold
    <3> QED
      BY <3>3, <3>4, <3>5 DEF MemoryAccounted
  <2>3. CASE tt.kind # "large"
    <3>1. SlabsOK(tt)
      BY <2>1, <2>3, InvFacts DEF SmallOK
    <3> QED
      BY <2>3, <3>1 DEF MemoryAccounted, OneOwner, PagesCounted, SlabsHold,
                        SlabsOK, Counted
  <2> QED
    BY <2>2, <2>3
<1> QED
  BY <1>1, TablesInvariant, PTL

-----------------------------------------------------------------------------
(* Additions are found.                                                    *)

(* The lists of a large table name a distribution once: what makes the     *)
(* first place of a list that has a distribution the only one.             *)
Filed == tt.kind = "large" => DistsOnce(tt)

LEMMA EmptyDists ==
  ASSUME NEW t, t.root = EmptyRoot
  PROVE  DistsOnce(t)
<1>1. \A c \in Cells, h \in Hashes : Len(t.root[c][h].list) = 0
  BY DEF EmptyRoot
<1> QED
  BY <1>1 DEF DistsOnce

LEMMA NewDists ==
  ASSUME NEW kind \in Kinds, NEW t, t = Create(kind), t.kind = "large"
  PROVE  DistsOnce(t)
<1>1. kind = "large"
  <2>1. kind # "large" => SmallOK({}, t)
    BY CreateOK
  <2> QED
    BY <2>1 DEF SmallOK, SlabsOK, Counted
<1>2. t.root = EmptyRoot
  BY <1>1 DEF Create, NewLarge
<1> QED
  BY <1>2, EmptyDists

LEMMA AddFound ==
  ASSUME TablesInv, Filed, open # <<>>, NEW l, l \in Lens(Top),
         NEW limit, limit \in Limits[deal], NEW granted, Add(l, limit, granted)
  PROVE  Filed' /\ AddIsFound'
<1> DEFINE p == Top
           wins == Value[deal][p] > limit
           lo == IF wins THEN limit + 1 ELSE 0
           hi == IF wins THEN p.trick + 1 ELSE limit
           pattern == Pattern(p.order, l)
<1>1. /\ answer' = [says |-> "added", pos |-> p, limit |-> limit]
      /\ Proves(p, l, limit)
      /\ tt.kind = "large" => tt' = AddLarge(tt, p, l, lo, hi)
      /\ tt.kind # "large" => tt' = AddSmall(tt, p, l, lo, hi, granted)
  BY DEF Add
<1>2. /\ p = open[Len(open)] /\ Len(open) \in 1..Len(open)
      /\ <<p.trick, p.hand>> \in Cells /\ <<p.trick, p.hand>> \in Squares
      /\ p.dist \in DOMAIN HashOf /\ p.dist \in Nat
      /\ lo \in Int /\ hi \in Int /\ limit \in Int /\ (lo > limit \/ hi <= limit)
      /\ \A q \in Meets(deal) : SamePlace(p, q) /\ Fits(pattern, q.order)
                                => lo <= Value[deal][q] /\ Value[deal][q] <= hi
      /\ pattern \in Patterns /\ Fits(pattern, p.order)
      /\ \A j \in Suits : pattern[j] \in Seq(0..3)
  BY <1>1, AddingFacts
<1>3. Pattern(p.order, l) = pattern
  OBVIOUS
<1> HIDE DEF p, lo, hi, pattern
<1>4. answer'.says = "added" /\ answer'.pos = p /\ answer'.limit = limit
  BY <1>1
<1>5. CASE tt.kind = "large"
  <2>1. LargeOK(tt) /\ tt \in LargeTables /\ DistsOnce(tt)
    BY <1>5, InvFacts DEF LargeOK, Filed
  <2>2. tt' = AddLarge(tt, p, l, lo, hi)
    BY <1>1, <1>5
  <2>3. /\ DistsOnce(tt')
        /\ \/ tt'.seen[<<p.trick, p.hand>>] = NoBlock
           \/ <<<<p.trick, p.hand>>, p.dist>> \notin
                OwnersOf(tt', tt'.seen[<<p.trick, p.hand>>])
           \/ LookupLarge(tt', p, limit, "page" \in {}).says # "miss"
    <3>1. PICK t, new, page : t = tt /\ new = tt' /\ page = ("page" \in {})
      OBVIOUS
    <3>2. /\ t \in LargeTables /\ LargeOK(t) /\ DistsOnce(t)
          /\ new = AddLarge(t, p, l, lo, hi)
      BY ONLY <2>1, <2>2, <3>1
    <3>3. /\ <<p.trick, p.hand>> \in Cells /\ p.dist \in DOMAIN HashOf
          /\ Pattern(p.order, l) \in Patterns /\ Fits(Pattern(p.order, l), p.order)
          /\ lo \in Int /\ hi \in Int /\ limit \in Int /\ (lo > limit \/ hi <= limit)
      BY ONLY <1>2, <1>3
    <3>4. /\ DistsOnce(new)
          /\ \/ new.seen[<<p.trick, p.hand>>] = NoBlock
             \/ <<<<p.trick, p.hand>>, p.dist>> \notin
                  OwnersOf(new, new.seen[<<p.trick, p.hand>>])
             \/ LookupLarge(new, p, limit, page).says # "miss"
      BY ONLY <3>2, <3>3, AddLargeFound
    <3> QED
      BY ONLY <3>1, <3>4
  <2>4. LargeOK(tt')
    BY <1>2, <1>3, <2>1, <2>2, AddLargeOK
  <2>5. tt'.kind = "large"
    BY <2>4, LargeFacts DEF LargeOK
  <2>6. Consult(tt', p, limit, {}) = LookupLarge(tt', p, limit, "page" \in {})
    BY <2>5 DEF Consult
  <2> QED
    BY <1>4, <2>3, <2>5, <2>6 DEF Filed, AddIsFound
<1>6. CASE tt.kind # "large"
  <2>1. SmallOK(deal, tt) /\ Looking(tt.lengths, open)
    BY <1>6, InvFacts
  <2>2. tt.lengths[p.trick] = p.dist
    BY <1>2, <2>1 DEF Looking
  <2>3. True(deal, [pattern |-> pattern, lo |-> lo, hi |-> hi],
             <<p.trick, p.hand>>, p.dist)
    BY <1>2 DEF True, SamePlace
  <2>4. tt' = AddSmall(tt, p, l, lo, hi, granted)
    BY <1>1, <1>6
  <2>5. MayAdd(deal, tt, p, p.dist, pattern, lo, hi)
    BY <1>2, <2>1, <2>2, <2>3 DEF MayAdd
  <2>6. Added(deal, tt, p, p.dist, pattern, lo, hi, tt')
    BY ONLY <1>3, <2>4, <2>5, SmallAdds
  <2>7. SlabsOK(tt')
    BY <2>6 DEF Added, SmallOK
  <2>8. tt'.kind = "small"
    BY <2>7 DEF SlabsOK, Counted
  <2>9. IsSmall(tt') /\ DOMAIN tt'.win \subseteq Nat \X Nat
    BY <2>7 DEF SlabsOK, WinsOK
  <2>10. tt'.win = <<>> \/ LookupSmall(tt', p, limit).says # "miss"
    <3>1. ASSUME NEW at,
                 Holds(deal, tt', <<<<p.trick, p.hand>>, at>>, p.dist, pattern, lo, hi)
          PROVE  LookupSmall(tt', p, limit).says # "miss"
      BY <1>2, <2>9, <3>1, HoldsIsFound
    <3> QED
      BY <2>6, <3>1 DEF Added
  <2>11. Consult(tt', p, limit, {}) = LookupSmall(tt', p, limit)
    BY <2>8 DEF Consult
  <2> QED
    BY <1>4, <2>8, <2>10, <2>11 DEF Filed, AddIsFound
<1> QED
  BY <1>5, <1>6

LEMMA LookupFiles ==
  ASSUME TablesInv, Filed, NEW p \in Meets(deal), NEW limit \in Limits[deal],
         NEW granted, Lookup(p, limit, granted)
  PROVE  Filed' /\ AddIsFound'
<1> DEFINE r == Consult(tt, p, limit, granted)
<1>1. /\ tt.kind = "large" => Looked(tt, p, limit, r)
      /\ tt.kind # "large" => LookedSmall(deal, tt, p, limit, r)
  BY InvFacts, ConsultOK
<1>2. tt' = r.t /\ answer'.says = r.says
  BY DEF Lookup
<1> HIDE DEF r
<1>3. CASE tt.kind = "large"
  BY <1>1, <1>2, <1>3 DEF Looked, Rightly, Filed, AddIsFound
<1>4. CASE tt.kind # "large"
  <2>1. SmallOK(deal, tt') /\ answer'.says # "added"
    BY <1>1, <1>2, <1>4 DEF LookedSmall, Right
  <2>2. tt'.kind = "small"
    BY <2>1 DEF SmallOK, SlabsOK, Counted
  <2> QED
    BY <2>1, <2>2 DEF Filed, AddIsFound
<1> QED
  BY <1>3, <1>4

LEMMA NewDealFiles ==
  ASSUME TablesInv, Filed, NEW d \in Deals, NewDeal(d)
  PROVE  Filed' /\ AddIsFound'
<1>1. tt' = Reset(tt) /\ answer'.says = "miss"
  BY DEF NewDeal, Nothing
<1>2. CASE tt.kind = "large"
  <2>1. tt \in LargeTables /\ PageList(tt) /\ tt.at \in Nat /\ DistsOnce(tt)
    BY <1>2, InvFacts, LargeFacts DEF LargeOK, PagesOK, Filed
  <2>2. tt' = ResetLarge(tt)
    BY <1>1, <1>2 DEF Reset
  <2>3. tt' = tt \/ tt'.root = EmptyRoot
    BY <2>1, <2>2, ResetOK DEF Blank
  <2>4. DistsOnce(tt')
    BY <2>1, <2>3, EmptyDists
  <2> QED
    BY <1>1, <2>4 DEF Filed, AddIsFound
<1>3. CASE tt.kind # "large"
  <2>1. tt' = ResetSmall(tt) /\ SmallOK(deal, tt)
    BY <1>1, <1>3, InvFacts DEF Reset
  <2>2. IsSmall(tt) /\ Counted(tt) /\ DOMAIN tt.lengths = 1..TtTricks
    BY <2>1 DEF SmallOK, SlabsOK, PathsOK, LinksOK
  <2>3. SmallOK(d, tt')
    BY <2>1, <2>2, SmallWhenReset
  <2>4. tt'.kind = "small"
    BY <2>3 DEF SmallOK, SlabsOK, Counted
  <2> QED
    BY <1>1, <2>4 DEF Filed, AddIsFound
<1> QED
  BY <1>2, <1>3

LEMMA ResizeFiles ==
  ASSUME TablesInv, TablesInv', Filed, NEW limits, Resize(limits)
  PROVE  Filed' /\ AddIsFound'
<1>1. answer'.says = "miss"
  BY DEF Resize, Nothing
<1>2. CASE tt.kind = "large"
  <2>1. tt' = ResizeLarge(tt, limits) /\ DistsOnce(tt) /\ tt \in LargeTables
    BY <1>2, InvFacts DEF Resize, Filed, LargeOK
  <2>2. tt'.root = tt.root
    BY <2>1 DEF ResizeLarge, LargeTables
  <2> QED
    BY <1>1, <2>1, <2>2, SameDists DEF Filed, AddIsFound
<1>3. CASE tt.kind # "large"
  <2>1. tt' = ResizeSmall(tt, limits) /\ SlabsOK(tt)
    BY <1>3, InvFacts DEF Resize, SmallOK
  <2>2. tt'.kind = "small"
    BY <2>1 DEF ResizeSmall, SlabsOK, Counted, IsSmall, SmallFields
  <2> QED
    BY <1>1, <2>2 DEF Filed, AddIsFound
<1> QED
  BY <1>2, <1>3

(* An entry just added answers the question it was added for: the lookup   *)
(* of the same position with the same limit, right after add, does not     *)
(* miss, in either table, whatever was found, tightened, overwritten,      *)
(* reused or harvested before (trans_table_l.cpp and trans_table_s.cpp).   *)
(* The exceptions are those the code has: a small table that was emptied   *)
(* at its limit, and a large one whose block of that node was reset or     *)
(* taken away by a node below.                                             *)
THEOREM AddAlwaysFound == Spec => []AddIsFound
<1>1. Init => Filed /\ AddIsFound
  <2>1. SUFFICES ASSUME Init PROVE Filed /\ AddIsFound
    OBVIOUS
  <2>2. PICK kind \in Kinds : tt = Create(kind)
    BY <2>1 DEF Init
  <2>3. answer.says = "miss"
    BY <2>1 DEF Init, Nothing
  <2> QED
    BY <2>2, <2>3, NewDists DEF Filed, AddIsFound
<1>2. /\ TablesInv /\ TablesInv' /\ Filed /\ AddIsFound /\ [Next]_vars
      => Filed' /\ AddIsFound'
  <2>1. SUFFICES ASSUME TablesInv, TablesInv', Filed, AddIsFound, [Next]_vars
                 PROVE  Filed' /\ AddIsFound'
    OBVIOUS
  <2>2. ASSUME NEW p \in Meets(deal), NEW limit \in Limits[deal],
               NEW granted \in Allocations, Lookup(p, limit, granted)
        PROVE  Filed' /\ AddIsFound'
    BY <2>1, <2>2, LookupFiles
  <2>3. ASSUME NEW l \in [Suits -> 0..2], NEW limit \in Limits[deal],
               NEW granted \in Allocations, open # <<>>, l \in Lens(Top),
               Add(l, limit, granted)
        PROVE  Filed' /\ AddIsFound'
    BY <2>1, <2>3, AddFound
  <2>4. CASE Return
    <3>1. tt' = tt /\ answer'.says = "miss"
      BY <2>4 DEF Return, Nothing
    <3> QED
      BY <2>1, <3>1 DEF Filed, AddIsFound
  <2>5. ASSUME NEW d \in Deals, NewDeal(d) PROVE Filed' /\ AddIsFound'
    BY <2>1, <2>5, NewDealFiles
  <2>6. ASSUME NEW limits \in Resizes[tt.kind], Resize(limits)
        PROVE  Filed' /\ AddIsFound'
    BY <2>1, <2>6, ResizeFiles
  <2>7. ASSUME NEW kind \in Kinds, Replace(kind) PROVE Filed' /\ AddIsFound'
    <3>1. tt' = Create(kind) /\ answer'.says = "miss"
      BY <2>7 DEF Replace, Nothing
    <3> QED
      BY <3>1, NewDists DEF Filed, AddIsFound
  <2>8. CASE UNCHANGED vars
    BY <2>1, <2>8 DEF Filed, AddIsFound, vars
  <2> QED
    BY <2>1, <2>2, <2>3, <2>4, <2>5, <2>6, <2>7, <2>8 DEF Next
<1> QED
  BY <1>1, <1>2, TablesInvariant, PTL DEF Spec

-----------------------------------------------------------------------------
(* The promise.                                                            *)

Trusted == IF strayed \/ answer.says \notin {"lower", "upper"} THEN Nothing ELSE answer

LEMMA LookupPromises ==
  ASSUME TablesInv, NEW p \in Meets(deal),
         NEW limit \in Limits[deal], NEW granted, Lookup(p, limit, granted)
  PROVE  Promised!Next
<1> DEFINE r == Consult(tt, p, limit, granted)
<1>1. deal \in Deals /\ (LargeOK(tt) \/ SmallOK(deal, tt))
  BY InvFacts
<1>2. ASSUME ~strayed
      PROVE  /\ r.says = "lower" => Value[deal][p] > limit
             /\ r.says = "upper" => Value[deal][p] <= limit
  <2>1. /\ tt.kind = "large" => Looked(tt, p, limit, r)
        /\ tt.kind # "large" => LookedSmall(deal, tt, p, limit, r)
    BY <1>1, ConsultOK
  <2> HIDE DEF r
  <2>2. CASE tt.kind = "large"
    <3>1. TellsTruth(deal, tt) /\ Rightly(tt, p, limit, r.says)
      BY <1>2, <2>1, <2>2, InvFacts DEF Looked
    <3>2. Value[deal][p] \in Int
      BY <1>1, DealFacts
    <3> QED
      BY <3>1, <3>2 DEF Rightly
  <2>3. CASE tt.kind # "large"
    BY <2>1, <2>3 DEF LookedSmall, Right
  <2> QED
    BY <2>2, <2>3
<1>3. /\ answer' = [says |-> r.says, pos |-> p, limit |-> limit]
      /\ deal' = deal /\ strayed' = strayed
  BY DEF Lookup
<1> HIDE DEF r
<1>4. CASE strayed \/ r.says \notin {"lower", "upper"}
  <2>1. Trusted' = Nothing
    BY <1>3, <1>4 DEF Trusted
  <2>2. Promised!Miss
    BY <1>3, <2>1 DEF Promised!Miss, Promised!NoAnswer, Trusted, Nothing
  <2> QED
    BY <2>2 DEF Promised!Next
<1>5. CASE ~strayed /\ r.says \in {"lower", "upper"}
  <2>1. Trusted' = answer'
    BY <1>3, <1>5 DEF Trusted
  <2>2. /\ r.says = "lower" => Value[deal][p] > limit
        /\ r.says = "upper" => Value[deal][p] <= limit
    BY <1>2, <1>5
  <2>3. Promised!Holds(deal, answer')
    BY <1>3, <2>2 DEF Promised!Holds
  <2>4. Promised!Answer
    BY <1>3, <1>5, <2>1, <2>3 DEF Promised!Answer, Trusted, Promised!Meets, Meets
  <2> QED
    BY <2>4 DEF Promised!Next
<1> QED
  BY <1>4, <1>5

LEMMA OthersMiss ==
  ASSUME deal' = deal, answer'.says \notin {"lower", "upper"}
  PROVE  Promised!Next
BY DEF Promised!Next, Promised!Miss, Promised!NoAnswer, Nothing

(* Both tables keep the promise of TransTable.tla: as long as no entry was *)
(* added to the block of another distribution, whatever a lookup says is   *)
(* true of the position that was looked up, whichever kind of table the    *)
(* context has and however often it is reset, resized and replaced.        *)
THEOREM TablesKeepTheirPromise == Spec => KeepsItsPromise
<1>1. Init => Promised!Init
  BY DEF Init, Promised!Init, Promised!NoAnswer, Nothing
<1>2. TablesInv /\ [Next]_vars => [Promised!Next]_<<deal, Trusted>>
  <2>1. SUFFICES ASSUME TablesInv, Next PROVE Promised!Next
    BY DEF vars, Trusted
  <2>2. ASSUME NEW p \in Meets(deal), NEW limit \in Limits[deal],
               NEW granted \in Allocations, Lookup(p, limit, granted)
        PROVE  Promised!Next
    BY <2>1, <2>2, LookupPromises
  <2>3. ASSUME NEW l \in [Suits -> 0..2], NEW limit \in Limits[deal],
               NEW granted \in Allocations, open # <<>>, l \in Lens(Top),
               Add(l, limit, granted)
        PROVE  Promised!Next
    BY <2>3, OthersMiss DEF Add
  <2>4. CASE Return
    BY <2>4, OthersMiss DEF Return, Nothing
  <2>5. ASSUME NEW d \in Deals, NewDeal(d) PROVE Promised!Next
    BY <2>5 DEF NewDeal, Nothing, Promised!Next, Promised!NewDeal, Promised!NoAnswer
  <2>6. ASSUME NEW limits \in Resizes[tt.kind], Resize(limits) PROVE Promised!Next
    BY <2>6, OthersMiss DEF Resize, Nothing
  <2>7. ASSUME NEW kind \in Kinds, Replace(kind) PROVE Promised!Next
    BY <2>7, OthersMiss DEF Replace, Nothing
  <2> QED
    BY <2>1, <2>2, <2>3, <2>4, <2>5, <2>6, <2>7 DEF Next
<1> QED
  BY <1>1, <1>2, TablesInvariant, PTL DEF Spec, KeepsItsPromise, Promised!Spec, Trusted
=============================================================================
