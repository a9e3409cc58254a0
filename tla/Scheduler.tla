------------------------------ MODULE Scheduler ------------------------------
(***************************************************************************)
(* The Scheduler (library/src/system/scheduler.cpp): RegisterRun groups    *)
(* the boards of a batch so that the repeats of a hand are solved one      *)
(* after the other, and GetNumber hands boards to threads, a group each.   *)
(*                                                                         *)
(* There is one Scheduler, a global without a lock; solve_all_boards_n and *)
(* AnalyseAllPlaysBin call RegisterRun on it in the thread of their        *)
(* caller.  A step is an iteration of one of its loops.  The predicted     *)
(* times that order the groups are left out: any order is allowed.  No     *)
(* function of the library calls GetNumber.                                *)
(*                                                                         *)
(* The lists are linked through hands[b].next; -1 ends one.                *)
(***************************************************************************)
EXTENDS Integers, Sequences, FiniteSets, SequencesExt

CONSTANTS
  Callers,    \* the threads that call RegisterRun
  Threads,    \* the threads that call GetNumber
  Hands,      \* remainCards of a deal
  Strains,    \* the trump suits, a subset of 0..4
  Key,        \* the hash key of a hand
  Spare,      \* the spare key of a hand
  BatchSizes  \* bound: the number of boards of a batch

ASSUME KeysAssumption ==
  /\ Strains \subseteq 0..4
  /\ Key \in [Hands -> Nat] /\ Spare \in [Hands -> Int]
  /\ BatchSizes \subseteq Nat /\ IsFiniteSet(BatchSizes)

MaxBoards == CHOOSE n \in BatchSizes : \A m \in BatchSizes : m <= n
MaxGroups == MaxBoards * Cardinality(Callers)
Boards == 0..(MaxBoards - 1)
Ends == Boards \union {-1}
Special == 5
Cells == (Strains \X {Key[h] : h \in Hands})
           \union ({Special} \X (0..MaxGroups))

VARIABLES
  bds,        \* the batch of each caller: sequences of [hand, strain]
  pc,         \* "reset", "make", "tune", "sort", "order", "done"
  at,         \* the loop counter of each caller
  index,      \* index of each caller in SortSolve, and siblings
  orig,       \* numGroupsOrig of each caller
  hands,      \* hands: [hand, strain, next]
  list,       \* list: [first, last, length]
  group, numGroups, extraGroups, numHands,
  currGroup,
  threadGroup,
  threadPc,   \* "seek", "claim", "take", "out"
  repeatNo, head,
  handed      \* history: what GetNumber returned, [thread, number, repeatOf]

tables == <<hands, list, group, numGroups, extraGroups, numHands>>
threads == <<currGroup, threadGroup, threadPc, repeatNo, head, handed>>
vars == <<bds, pc, at, index, orig, tables, threads>>

(* A claim before its test may be past the groups, once for each thread. *)
Groups == 0..(MaxGroups + Cardinality(Threads) - 1)

Init ==
  /\ \E n \in BatchSizes :
       bds \in [Callers -> [1..n -> [hand : Hands, strain : Strains]]]
  /\ pc = [c \in Callers |-> "reset"]
  /\ at = [c \in Callers |-> 0]
  /\ index = [c \in Callers |-> -1]
  /\ orig = [c \in Callers |-> 0]
  /\ hands \in {[b \in Boards |-> [hand |-> h, strain |-> s, next |-> -1]] :
                  h \in {CHOOSE h \in Hands : TRUE},
                  s \in {CHOOSE s \in Strains : TRUE}}
  /\ list = [cell \in Cells |-> [first |-> -1, last |-> -1, length |-> 0]]
  /\ group = [g \in Groups |-> CHOOSE cell \in Cells : TRUE]
  /\ numGroups = 0 /\ extraGroups = 0 /\ numHands = 0
  /\ currGroup = -1
  /\ threadGroup = [t \in Threads |-> -1]
  /\ threadPc = [t \in Threads |-> "seek"]
  /\ repeatNo = [g \in Groups |-> 0] /\ head = [g \in Groups |-> -1]
  /\ handed = <<>>

-----------------------------------------------------------------------------
(* RegisterRun *)

Goto(c, place) ==
  /\ pc' = [pc EXCEPT ![c] = place]
  /\ at' = [at EXCEPT ![c] = 0]

Advance(c) == at' = [at EXCEPT ![c] = @ + 1] /\ UNCHANGED pc

(* Scheduler::Reset; the strain and hash of the groups stay. *)
Reset(c) ==
  /\ pc[c] = "reset"
  /\ hands' = [b \in Boards |-> [hands[b] EXCEPT !.next = -1]]
  /\ list' = [cell \in Cells |-> [list[cell] EXCEPT !.first = -1]]
  /\ numGroups' = 0 /\ extraGroups' = 0
  /\ numHands' = Len(bds[c])
  /\ currGroup' = -1
  /\ threadGroup' = [t \in Threads |-> -1]
  /\ repeatNo' = [g \in Groups |-> 0] /\ head' = [g \in Groups |-> -1]
  /\ Goto(c, "make")
  /\ UNCHANGED <<bds, index, orig, group, threadPc, handed>>

(* Mutant of Make: a board that opens a list is linked behind its last,    *)
(* which is itself, as one that joins a list is.                           *)
MakeSelfLinked(c) ==
  /\ pc[c] = "make" /\ at[c] < numHands
  /\ LET b     == at[c]
         board == bds[c][b + 1]
         cell  == <<board.strain, Key[board.hand]>>
         mine  == [hands[b] EXCEPT !.hand = board.hand, !.strain = board.strain]
         open  == list[cell].first = -1
         last  == IF open THEN b ELSE list[cell].last
     IN  /\ hands' = [[hands EXCEPT ![b] = mine] EXCEPT ![last].next = b]
         /\ list' = [list EXCEPT ![cell] =
                       [first |-> IF open THEN b ELSE @.first, last |-> b,
                        length |-> IF open THEN 1 ELSE @.length + 1]]
         /\ group' = IF open THEN [group EXCEPT ![numGroups] = cell] ELSE group
         /\ numGroups' = IF open THEN numGroups + 1 ELSE numGroups
  /\ Advance(c)
  /\ UNCHANGED <<bds, index, orig, extraGroups, numHands, threads>>

(* MakeGroups: board b joins the list of its strain and key, or opens it   *)
(* and a group for it.                                                     *)
Make(c) ==
  /\ pc[c] = "make" /\ at[c] < numHands
  /\ LET b     == at[c]
         board == bds[c][b + 1]
         cell  == <<board.strain, Key[board.hand]>>
         mine  == [hands[b] EXCEPT !.hand = board.hand, !.strain = board.strain]
     IN  IF list[cell].first = -1
         THEN /\ hands' = [hands EXCEPT ![b] = mine]
              /\ list' = [list EXCEPT ![cell] =
                            [first |-> b, last |-> b, length |-> 1]]
              /\ group' = [group EXCEPT ![numGroups] = cell]
              /\ numGroups' = numGroups + 1
         ELSE /\ hands' = [[hands EXCEPT ![b] = mine]
                             EXCEPT ![list[cell].last].next = b]
              /\ list' = [list EXCEPT ![cell].last = b, ![cell].length = @ + 1]
              /\ UNCHANGED <<group, numGroups>>
  /\ Advance(c)
  /\ UNCHANGED <<bds, index, orig, extraGroups, numHands, threads>>

MakeDone(c) ==
  /\ pc[c] = "make" /\ at[c] >= numHands
  /\ orig' = [orig EXCEPT ![c] = numGroups]
  /\ Goto(c, "tune")
  /\ UNCHANGED <<bds, index, tables, threads>>

-----------------------------------------------------------------------------
(* FinetuneGroups *)

(* The first n boards of a list. *)
Chain(first, n) ==
  LET c[i \in 1..n] == IF i = 1 THEN first ELSE hands[c[i - 1]].next
  IN  SubSeq(c, 1, n)

SameHand(a, b) == hands[a].hand = hands[b].hand

(* Mutant of Runs: boards with one spare key count as one hand. *)
RunsBySpare(s) ==
  LET starts == {i \in DOMAIN s : i = 1
                   \/ Spare[hands[s[i]].hand] # Spare[hands[s[i - 1]].hand]}
      sorted == SetToSortSeq(starts, <)
      run(k)  == SubSeq(s, sorted[k],
                        IF k = Len(sorted) THEN Len(s) ELSE sorted[k + 1] - 1)
  IN  SubSeq([k \in DOMAIN sorted |-> run(k)], 1, Len(sorted))

(* Neighbours of one hand stay together. *)
Runs(s) ==
  LET starts == {i \in DOMAIN s : i = 1 \/ ~SameHand(s[i - 1], s[i])}
      sorted == SetToSortSeq(starts, <)
      run(k)  == SubSeq(s, sorted[k],
                        IF k = Len(sorted) THEN Len(s) ELSE sorted[k + 1] - 1)
  IN  SubSeq([k \in DOMAIN sorted |-> run(k)], 1, Len(sorted))

(* The insertion sort by descending spare key, which keeps ties in order;  *)
(* two boards are not sorted.                                              *)
BySpare(s) ==
  LET before(i, j) ==
        LET x == Spare[hands[s[i]].hand]
            y == Spare[hands[s[j]].hand]
        IN  x > y \/ (x = y /\ i < j)
      places == SetToSortSeq(DOMAIN s, before)
  IN  IF Len(s) = 2 THEN s 
      ELSE SubSeq([i \in DOMAIN s |-> s[places[i]]], 1, Len(s))

(* Mutant of Relink: the last board of a run keeps its successor. *)
RelinkOpen(runs) ==
  [b \in Boards |->
     IF \E k \in DOMAIN runs, i \in 1..MaxBoards :
          i < Len(runs[k]) /\ runs[k][i] = b
     THEN LET k == CHOOSE k \in DOMAIN runs : \E i \in DOMAIN runs[k] : runs[k][i] = b
              i == CHOOSE i \in DOMAIN runs[k] : runs[k][i] = b
          IN  [hands[b] EXCEPT !.next = runs[k][i + 1]]
     ELSE hands[b]]

(* The links of the boards of the runs; the last of a run ends a list. *)
Relink(runs) ==
  [b \in Boards |->
     IF \E k \in DOMAIN runs : b \in ToSet(runs[k])
     THEN LET k == CHOOSE k \in DOMAIN runs : b \in ToSet(runs[k])
              i == CHOOSE i \in DOMAIN runs[k] : runs[k][i] = b
          IN  [hands[b] EXCEPT !.next =
                 IF i = Len(runs[k]) THEN -1 ELSE runs[k][i + 1]]
     ELSE hands[b]]

ListOf(run) == [first |-> Head(run), last |-> Last(run), length |-> Len(run)]

(* A list of several hands is split: the first run stays and each other    *)
(* one moves to a special list, with a group of its own.                   *)
Split(cell, runs) ==
  LET more == Len(runs) - 1
  IN  /\ hands' = Relink(runs)
      /\ list' = [l \in Cells |->
                    IF l = cell THEN ListOf(runs[1])
                    ELSE IF l[1] = Special
                            /\ l[2] \in extraGroups..(extraGroups + more - 1)
                         THEN ListOf(runs[l[2] - extraGroups + 2])
                         ELSE list[l]]
      /\ group' = [g \in Groups |->
                     IF g \in numGroups..(numGroups + more - 1)
                     THEN <<Special, extraGroups + g - numGroups>> ELSE group[g]]
      /\ numGroups' = numGroups + more
      /\ extraGroups' = extraGroups + more

Tune(c) ==
  /\ pc[c] = "tune" /\ at[c] < orig[c]
  /\ LET cell == group[at[c]]
     IN  IF list[cell].length = 1 \/ list[cell].first = -1
         THEN UNCHANGED <<hands, list, group, numGroups, extraGroups>>
         ELSE \E s \in {Chain(list[cell].first, list[cell].length)} :
              \E sorted \in {BySpare(s)} : \E runs \in {Runs(sorted)} :
                IF Len(runs) = 1
                THEN UNCHANGED <<hands, list, group, numGroups, extraGroups>>
                ELSE Split(cell, runs)
  /\ Advance(c)
  /\ UNCHANGED <<bds, index, orig, numHands, threads>>

TuneDone(c) ==
  /\ pc[c] = "tune" /\ at[c] >= orig[c]
  /\ Goto(c, "sort")
  /\ UNCHANGED <<bds, index, orig, tables, threads>>

-----------------------------------------------------------------------------
(* SortSolve, SortCalc and SortTrace: a walk along every list, then the    *)
(* groups are put in some order.                                           *)

Walk(c) ==
  /\ pc[c] = "sort" /\ at[c] < numGroups
  /\ index' = [index EXCEPT ![c] = list[group[at[c]]].first]
  /\ pc' = [pc EXCEPT ![c] = "walk"]
  /\ UNCHANGED <<bds, at, orig, tables, threads>>

(* hands[-1] is outside of the array: its next may be anything. *)
WalkOn(c) ==
  /\ pc[c] = "walk"
  /\ \E next \in Ends :
       /\ index[c] # -1 => next = hands[index[c]].next
       /\ index' = [index EXCEPT ![c] = next]
       /\ IF next = -1
          THEN /\ pc' = [pc EXCEPT ![c] = "sort"]
               /\ at' = [at EXCEPT ![c] = @ + 1]
          ELSE UNCHANGED <<pc, at>>
  /\ UNCHANGED <<bds, orig, tables, threads>>

Orders(n) == {p \in [0..(n - 1) -> 0..(n - 1)] :
                \A i, j \in 0..(n - 1) : p[i] = p[j] => i = j}

Order(c) ==
  /\ pc[c] = "sort" /\ at[c] >= numGroups
  /\ \E p \in Orders(numGroups) :
       group' = [g \in Groups |-> IF g < numGroups THEN group[p[g]] ELSE group[g]]
  /\ Goto(c, "done")
  /\ UNCHANGED <<bds, index, orig, hands, list, numGroups, extraGroups, numHands,
                 threads>>

Register(c) ==
  \/ Reset(c) \/ Make(c) \/ MakeDone(c) \/ Tune(c) \/ TuneDone(c)
  \/ Walk(c) \/ WalkOn(c) \/ Order(c)

-----------------------------------------------------------------------------
(* GetNumber, by the threads of a run that is registered. *)

Registered == \A c \in Callers : pc[c] = "done"

(* The look at currGroup that spares the shared counter. *)
Seek(t) ==
  /\ Registered /\ threadPc[t] = "seek"
  /\ threadPc' = [threadPc EXCEPT ![t] =
                    IF threadGroup[t] # -1 THEN "take"
                    ELSE IF currGroup >= numGroups - 1 THEN "out" ELSE "claim"]
  /\ UNCHANGED <<bds, pc, at, index, orig, tables, currGroup, threadGroup,
                 repeatNo, head, handed>>

(* Mutant of Claim: the counter is tested, not again after its increment. *)
ClaimUntested(t) ==
  /\ threadPc[t] = "claim"
  /\ currGroup' = currGroup + 1
  /\ threadGroup' = [threadGroup EXCEPT ![t] = currGroup']
  /\ threadPc' = [threadPc EXCEPT ![t] = "take"]
  /\ repeatNo' = [repeatNo EXCEPT ![currGroup'] = 0]
  /\ UNCHANGED <<bds, pc, at, index, orig, tables, head, handed>>

(* Mutant of Claim: the increment of the counter is lost. *)
ClaimLost(t) ==
  /\ threadPc[t] = "claim"
  /\ threadGroup' = [threadGroup EXCEPT ![t] = currGroup + 1]
  /\ threadPc' = [threadPc EXCEPT ![t] = "take"]
  /\ repeatNo' = [repeatNo EXCEPT ![currGroup + 1] = 0]
  /\ currGroup' = IF \E u \in Threads \ {t} : threadPc[u] = "claim"
                  THEN currGroup ELSE currGroup + 1
  /\ UNCHANGED <<bds, pc, at, index, orig, tables, head, handed>>

(* The atomic increment, and the test that follows it. *)
Claim(t) ==
  /\ threadPc[t] = "claim"
  /\ currGroup' = currGroup + 1
  /\ IF currGroup' >= numGroups
     THEN /\ threadPc' = [threadPc EXCEPT ![t] = "out"]
          /\ UNCHANGED <<threadGroup, repeatNo>>
     ELSE /\ threadPc' = [threadPc EXCEPT ![t] = "take"]
          /\ threadGroup' = [threadGroup EXCEPT ![t] = currGroup']
          /\ repeatNo' = [repeatNo EXCEPT ![currGroup'] = 0]
  /\ UNCHANGED <<bds, pc, at, index, orig, tables, head, handed>>

(* The first board of the list of the thread's group; past its end, what   *)
(* is read is anything.                                                    *)
Take(t) ==
  /\ threadPc[t] = "take"
  /\ LET g      == threadGroup[t]
         cell   == group[g]
         number == list[cell].first
     IN  \E next \in Ends :
           /\ number # -1 => next = hands[number].next
           /\ list' = [list EXCEPT ![cell].first = next]
           /\ head' = IF repeatNo[g] = 0 THEN [head EXCEPT ![g] = number] ELSE head
           /\ repeatNo' = [repeatNo EXCEPT ![g] = @ + 1]
           /\ handed' = Append(handed,
                          [thread |-> t, number |-> number,
                           repeatOf |-> IF repeatNo[g] = 0 THEN -1 ELSE head[g]])
           /\ threadGroup' = IF next = -1 THEN [threadGroup EXCEPT ![t] = -1]
                             ELSE threadGroup
  /\ threadPc' = [threadPc EXCEPT ![t] = "seek"]
  /\ UNCHANGED <<bds, pc, at, index, orig, hands, group, numGroups, extraGroups,
                 numHands, currGroup>>

GetNumber(t) == Seek(t) \/ Claim(t) \/ Take(t)

Next == (\E c \in Callers : Register(c)) \/ (\E t \in Threads : GetNumber(t))

(* Every caller and every thread is a running thread of the program. *)
Fairness ==
  /\ \A c \in Callers : WF_vars(Register(c))
  /\ \A t \in Threads : WF_vars(GetNumber(t))

Spec == Init /\ [][Next]_vars /\ Fairness

-----------------------------------------------------------------------------
(* Every variable has its type. *)
TypeOK ==
  /\ \A c \in Callers : pc[c] \in {"reset", "make", "tune", "sort", "walk", "done"}
  /\ at \in [Callers -> 0..MaxGroups] /\ index \in [Callers -> Ends]
  /\ hands \in [Boards -> [hand : Hands, strain : Strains, next : Ends]]
  /\ list \in [Cells -> [first : Ends, last : Ends, length : 0..MaxGroups]]
  /\ group \in [Groups -> Cells]
  /\ numGroups \in 0..MaxGroups /\ extraGroups \in 0..numGroups
  /\ currGroup \in -1..(numGroups + Cardinality(Threads))
  /\ threadGroup \in [Threads -> -1..(numGroups - 1)]
  /\ threadPc \in [Threads -> {"seek", "claim", "take", "out"}]

(* The boards of the list of group g. *)
Members(g) ==
  LET cell == group[g]
      reach[i \in 0..MaxBoards] ==
        IF i = 0 THEN {list[cell].first}
        ELSE reach[i - 1] \union {hands[b].next : b \in reach[i - 1] \ {-1}}
  IN  reach[MaxBoards] \ {-1}

Fresh == Registered /\ handed = <<>>

OneHand(g) ==
  \A a, b \in Members(g) :
    hands[a].hand = hands[b].hand /\ hands[a].strain = hands[b].strain

(* Every board is in the list of exactly one group, and every list ends,   *)
(* after any splitting of lists (MakeGroups, FinetuneGroups).  The boards  *)
(* of a group are one hand in one strain, whatever collisions of the hash  *)
(* and spare keys there are (scheduler.cpp:387-390: "we won't let          *)
(* different hands through as belonging to the same group").               *)
GroupsPartition ==
  Fresh =>
    /\ \A g \in 0..(numGroups - 1) : OneHand(g)
    /\ UNION {Members(g) : g \in 0..(numGroups - 1)} = 0..(numHands - 1)
    /\ \A g, f \in 0..(numGroups - 1) : g # f => Members(g) \intersect Members(f) = {}
    /\ \A g \in 0..(numGroups - 1) :
         Cardinality(Members(g)) = list[group[g]].length

(* What the groups are for: threads that ask GetNumber are together handed *)
(* every board once, and a repeat comes after its head, to the same        *)
(* thread.  No thread of this repository asks it.                          *)
HandedOnce ==
  /\ \A i, j \in DOMAIN handed : handed[i].number = handed[j].number => i = j
  /\ \A i \in DOMAIN handed : handed[i].repeatOf # -1 =>
       \E j \in 1..(i - 1) :
         /\ handed[j].number = handed[i].repeatOf
         /\ handed[j].thread = handed[i].thread
         /\ hands[handed[j].number].hand = hands[handed[i].number].hand
  /\ (Registered /\ \A t \in Threads : threadPc[t] = "out") =>
       {handed[i].number : i \in DOMAIN handed} = 0..(numHands - 1)

(* RegisterRun returns (the walks of SortSolve, SortCalc and SortTrace).   *)
RegisterRunReturns == \A c \in Callers : <>(pc[c] = "done")

=============================================================================
