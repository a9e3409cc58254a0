# DDS double dummy solver: verification project

The repository is a double dummy solver for bridge: a C++ library under
`library/src` that computes how many tricks each side takes when all four hands
are visible, and a Swift package (`Sources/DDSSwift`) on top of its C API. This
directory holds TLA+ models of the library, the TLC configurations that check
them on small instances, and proofs that hold for every instance.

Contents: [1 inventory](#1-inventory), [2 plan](#2-plan),
[3 modules and code](#3-modules-and-code), [4 runs](#4-runs),
[5 bounds](#5-bounds), [6 fairness](#6-fairness), [7 proofs](#7-proofs),
[8 findings](#8-findings), [9 only model-checked, or not modelled](#9-only-model-checked-or-not-modelled).

## 1 Inventory

A *deal* is four hands, a trump suit, a leader and up to three cards of the
current trick. A *board* is a deal with a request: `target`, `solutions`, `mode`.

| Part | Code | State | Operations | Used by |
|---|---|---|---|---|
| Worker pool | `system/parallel_boards.cpp` | threads, published job, generation, two condition variables, `run_mu_`, the shared holder | `parallel_all_boards_n`, `shutdown_parallel_boards_pool` | batch drivers |
| Solver context | `solver_context/`, `system/thread_data.hpp`, first half of `solver_if.cpp` | cards and trump of the last call, look-ahead position, rank tables, transposition table, configuration | `solve_board`, `solve_same_board`, `analyse_later_board`, `reset_for_solve`, `clear_tt`, `resize_tt`, `configure_tt` | one thread at a time; pool workers keep one each (`worker_solver_context`) |
| Windows | second half of `solver_if.cpp` | window, guess, best move, forbidden moves, answer | the searches that make up one answer | solver context |
| Play analyser | `play_analyser.cpp` | running player, leader, tricks, hint, holdings | `AnalysePlayBin`, `AnalyseAllPlaysBin` | API; calls the solver context |
| Scheduler | `system/scheduler.cpp` | one global: boards linked into lists, groups, counters | `RegisterRun`, `GetNumber` | batch drivers call `RegisterRun`, in their caller's thread; nobody calls `GetNumber` |
| Alpha-beta search | `ab_search.cpp` | position, winning ranks per depth, best moves | `ab_search` .. `ab_search_3`, make and undo | windows |
| Moves | `moves/`, `heuristic_sorting/` | move lists per trick and hand, track of the trick | `MoveGen0`, `MoveGen123`, `MakeNext`, `Purge` | search |
| Transposition tables | `trans_table/` | page and block pools, entries by suit lengths | `lookup`, `add`, `reset_memory`, `return_all_memory` | search, context |
| Estimates | `quick_tricks.cpp`, `later_tricks.cpp` | none | `QuickTricks`, `LaterTricksMIN/MAX` | search |
| Par | `par.cpp`, `dealer_par.cpp` | none | `SidesParBin`, `DealerPar`, `DealerParBin` | API, table drivers |
| Batch drivers | `solve_board.cpp`, `calc_tables.cpp` | arrays of boards and results | `SolveAllBoards*`, `CalcAllTables*`, `CalcDDtable*` | API; call scheduler and pool |
| Resources | `init.cpp`, `system/system.cpp`, `memory.cpp`, `thread_mgr.cpp` | thread counts, memory | `SetResources`, `Occupy`, `Release` | API |
| Conversions, diagnostics | `pbn.cpp`, `dump.cpp`, timers, statistics | none that a result depends on | | |
| C API, Swift wrapper | `api/`, `dds_api.cpp`, `Sources/DDSSwift` | handles to contexts | forwarding | clients |

How they interact. A batch driver registers its boards with the global
Scheduler, then hands them to the pool; each worker solves a board with the
context of its own thread. A context loads the deal unless it is the one it
solved last, searches it window by window, and keeps its transposition table for
the next call. The play analyser keeps its own account of a play and passes the
search a hint computed from the result before. A table calculation solves one
leader and then repeats on the same context for the other three.

What is hard here, and what makes each part correct:

- *Pool*: two mutexes, two condition variables, a job that points into its
  caller's stack, a holder that may be emptied at any time. Correct when every
  board is processed at most once, no worker uses a job after its call returned,
  every call returns, and the code it returns is the one of its boards.
- *Context*: state that outlives a call, recorded before the call is known to be
  valid. Correct when every search consults only what was built for its deal and
  trump suit.
- *Windows*: off-by-one bounds, moves forbidden in the order of a list that is
  made anew by every search. Correct when scores and sets of cards are those the
  documentation promises, for every `target` and `solutions`.
- *Play analyser*: two accounts of one play (its own, the position's), and hints
  that must bound a value that is not known yet.
- *Scheduler*: linked lists in arrays, split where hash keys collide; one object
  for all callers, without a lock.
- *Search*: exact undo on every exit; a stored result must hold for every
  position it matches.
- *Tables*: two hand-made allocators (pages of blocks, slabs of nodes) under a
  limit, changed by the nodes below a node that still remembers a block. Correct
  when every answer is true of the position asked about, whatever was thrown
  away, moved or refused meanwhile, and no memory has two owners or none.
- *Par*: two algorithms for one game, with thresholds instead of a search. Correct
  when they agree with the game for every table, vulnerability and opener.
- *Batch drivers*: the numbering of boards, and searches that name no deal because
  the one before them on the same context did. Correct when every number lands in
  the row it belongs to, and a call that fails leaves what was there.

`PROJECT.json` lists each hazard at its line with the properties that catch it.

## 2 Plan

The order is by how much of the system's behaviour rests on a part and how hard
it is to test. All of it is done, except what section 9 names.

1. `BatchCall` (abstract), `BoardPool` (implements it), `BoardPoolProofs`.
2. `SolverContext`, `SolverContextProofs`.
3. `SearchWindows`, `SearchWindowsProofs`: rests on the search only through
   "who takes how many tricks after a move".
4. `Play`, `DoubleDummy` (rules, reference values), `PlayAnalyser`: composes the
   contract of `SearchWindows` with real positions; `PlayAnalyserProofs`.
5. `Scheduler`.
6. `Search`: `ab_search` to `ab_search_3` with make and undo, move generation,
   `MakeNext`, `Purge` and the contract of the transposition table, as a stack of
   frames on a position of `Play`; `MoveSort`, the sorting networks of its lists;
   `FoldLemmas`, `SearchProofs`.
7. `Estimates`: `QuickTricks` and `LaterTricks` (with its suit and trump parts), which `Search` asks.
8. `TransTable` (abstract: what a table promises); `TableLarge` and `TableSmall`,
   operations on a record; `Tables`, a search and its context using either, shown
   to implement `TransTable`; `TablesProofs`.
9. `Auction` (the game whose value is par); `SidesPar` and `DealerPar`, the two
   computations; `Par`, which runs both on one table.
10. `Batch`: the entry points for tables and lists of boards over `BatchCall`;
    `BatchProofs`.

How they fit together: each abstract specification stands for its implementation
in the next module up. `BoardPool` implements `BatchCall`, which `Batch` uses;
`Tables` implements `TransTable`, whose promise is what the map of `Search` rests
on; `Search` computes what `SearchWindows` takes as the values of moves;
`SearchWindows` finds the value from any hint, which `PlayAnalyser` and the
repeats of `Batch` use; `SolverContext` shows that those repeats search the deal
they mean.

Worth doing next: a proof of the partition of boards into groups in `Scheduler`. It
needs the hypothesis that there is one caller, since two break it (section 8). Then,
from `ValueEquation`, the bounds that the simplest estimates claim.

## 3 Modules and code

| Module | Models | State, in the code's names | Actions |
|---|---|---|---|
| `BatchCall` | what one `parallel_all_boards_n` promises | boards of the batch, started, active, reported outcomes, result | `Begin`, `Start`, `End`, `Finish`, `Abort` |
| `BoardPool` | the pool, its holder, every caller and every worker | `runMu` = `run_mu_`, `job`, `generation`, `stopping`, `threads`; a frame (`next`, `firstError`, `finished`) per caller; `pc`/`wpc` name the next statement | one per critical section or atomic operation |
| `SolverContext` | a context over any sequence of calls | of each cached structure the deal it was built for: `suit`, `trump` (as counted), `pos`, `rel`, `tt`, `cfg` | one per entry point; `Solved`, `Rejected`, `LastTrick` are the ways through `solve_board_internal` |
| `SearchWindows` | the searches of one answer | `lower`, `upper`, `guess`, `best`, `mv`, `forbidden`, `answer`, `cards`; `order` is the list of the last search | one per search, and one per way to close a window |
| `Play`, `DoubleDummy` | the rules of play; the reference value | a position: hands, leader, trick | `PlayCard` |
| `PlayAnalyser` | `AnalysePlayBin` over every legal play | its locals; `pos` is the search's position | one per solve, per card read, per later solve |
| `Search` | the alpha-beta search, several times on one table | `stack` of frames = the activations with what the code keeps by depth (`win` = `win_ranks`, `low` = `lowest_win`, `saved` = `winners`); `pos`, `best`, `second` = look-ahead position, `winner`, `second_best`; `table` | `Ask` starts a search; `Enter` is the head of an activation (lookup, estimates, move generation); `Make`, `CutOff`, `Failed`, `Exhausted` are its loop |
| `Estimates` | the tests that settle a node without a move | none: operators on a node of `Search` | |
| `Scheduler` | `RegisterRun` and `GetNumber` | `hands`, `list`, `group`, the counters; a loop counter per caller | one per loop iteration; `Seek`/`Claim`/`Take` are the three accesses of `GetNumber` |
| `MoveSort` | `MergeSort` of move lists: a network for each length up to 12, insertion above | none: a function of the list and its weights | |
| `TableEntries` | positions, patterns and what an entry covers | none | |
| `TransTable` | what a table promises its search | the deal, the last answer | ask, new deal |
| `TableLarge` | `trans_table_l.cpp` | a record: `chain`/`at` = the page list and `pool_`, `next` = `next_block_`, `state` = `mem_state_`, `old` = `harvested_`, `root` = `tt_root_`, `block`, `seen` = `last_block_seen_` | operators: `LookupLarge`, `AddLarge`, `GetNextCardBlock`, `Harvest`, `ResetLarge`, `ResizeLarge` |
| `TableSmall` | `trans_table_s.cpp` | a record: the three slabs with their counts and limits, `tree`, `win`, `node`, `clear` = `clear_tt_flag_` | operators: `LookupSmall`, `AddSmall`, `ResetSmall`, `ResizeSmall` |
| `Tables` | either table under one context | `tt`, `open` = the nodes of the search above the last lookup, `answer` | `Lookup`, `Add`, `Return`, `NewDeal`, `Resize`, `Replace` |
| `Auction` | the auction game that defines par, and `rawscore` | none: functions | |
| `SidesPar` | `SidesParBin` and the levels its texts list | `par`, `current`, `once` = the loop's variables, `found` = `best_par` | one per turn of a side, per denomination recorded, then the announcement |
| `DealerPar` | `DealerPar`, `DealerParBin` | none: operators | |
| `Par` | both on one table | `dealerRes` | `DealerParBin` |
| `Batch` | the table and list entry points | `boards` = `bo.deals`, `scores` = `solved_board`, `results`, `pars`; `busy` = where each thread is in `process_board`, `position` = what its context searches | `Refuse`, `Begin`, `BeginEmpty`; `Take`, `Solve`, `SolveFails`, `Repeat`; `Deliver` |

`MC*` modules give the constants values for TLC; `*Proofs` modules
hold the theorems, `FoldLemmas` the lemmas about induction, folds and recursion that
`SearchProofs`, `TablesProofs` and `PlayAnalyserProofs` share. Definitions named `...Once`, `...Kept`, `...Unchecked` and the like
that are introduced as "Mutant of" are deliberate faults: each property is shown
to notice one of them. They are used by no specification.

Abstractions worth knowing. A critical section under `mu_` is one step, since
nothing it touches is touched elsewhere. `SolverContext` keeps no cards: it keeps
which deal a structure belongs to, which is what can be stale. `SearchWindows`
keeps no position: it keeps the tricks each root move is worth; the order of a
list that was generated with a hint is arbitrary. `PlayAnalyser` replaces a
search by a value cut off at the hint, which is what `SearchWindows` shows a
window that begins at its hint to return. `Scheduler` orders the groups
arbitrarily. `Search` keeps cards and sets of cards where the code has bit maps,
takes two arbitrary weights of a card for the heuristic ones, and one map
for the transposition table: a key is what a lookup compares (tricks, leader,
suit lengths, owners of the top cards), a value the bounds. A lookup may answer
from any entry that decides; which of them the real tables find, and what they
forget, is in `Tables`. `board.early` is the depth (20) from which on the table is
asked before the estimates, a constant so that small deals reach both orders.
`Tables` keeps a position as what both tables compare, the owner of each card of
each suit, where the code packs bits, and gives every position a value: the
entries a search would add are those true of it. `Auction` builds the game of
bidding by backward induction over the 35 contracts; a text of `DealerPar` is a
record of its number, bidders and the form that `DealerParBin` reads back. `Batch`
lets boards be taken in any order, which is what the difficulty estimate chooses
from, and a repeat find the value whenever its hint lies in 0 to 13, which is what
`SearchWindows` shows.

## 4 Runs

| Run | Shows |
|---|---|
| `pool_safety` | no dangling job, no pool destroyed under a run, no lost wakeup; `BoardPool` implements `BatchCall` under the refinement mapping at its end |
| `pool_liveness` | every call returns, the threads of a dropped pool exit |
| `context_reuse` | every search consults only structures of its own deal and trump, until a call is rejected, a table dropped, or a deal similar to one of at most four cards solved right after it (`disturbed`); after those too, a deal unlike the last one finds everything rebuilt |
| `windows_answers` | scores and sets of cards for every kind of request, then for repeat solves; every call returns. Left open by name (`OneCardPromised`): how many cards `solutions` 2 returns for a target out of reach |
| `play_trace` | both accounts agree, hints bound, every result of the trace is the double dummy value, announced results were written |
| `search_answers` | every activation answers with the double dummy truth; the position, its winners and its tricks are restored; `winner` and `second_best` are never stale when an estimate reads them; what an estimate or a stored entry claims is true of every position that its winning ranks match |
| `scheduler_groups` | one caller: boards are partitioned into groups of one hand, each board is handed out once, `RegisterRun` returns |
| `tables_promise` | every answer of either table is true of the position asked about (it implements `TransTable`, which for the large one is also proved); an entry just added is found; blocks, pages and slabs have one owner and fit their limits |
| `par_contracts` | both par computations give the value of the auction game, and every contract and level they list is par; in binary it is the contract of the text, except for over- and undertricks when a text leaves out its star (`StarLeftOut`) |
| `batch_answers` | successful calls fill every row asked for with the tricks of its own deal and declarer, pars come from those tables, failed calls change nothing a caller may rely on |
| `scheduler_two_callers` | violated: two concurrent batch calls, section 8 |
| `par_binary` | violated: a sacrifice without a star in binary, section 8 |

## 5 Bounds

- *Pool*: two clients, two workers, up to two boards and two pools, one call or
  shutdown each. Two participants are enough for every race between
  participants; the second pool is the one created while the first is being torn
  down; a worker that wakes late wakes in the other client's
  generation. The proofs have no bounds.
- *Context*: two similar deals, one unlike them, one short deal, two trump suits.
  The conditions in the code compare the call with the last one only, so a third
  similar deal adds nothing; the third deal and the short one are each a case of
  the code. The proofs have no bounds.
- *Windows*: up to three moves with values 0, 1, 6, 7, 13: both first guesses
  (6, 7) lie between values and on them, and both ends of the window occur. Three
  moves are needed for a passed-over move that is neither first nor last.
- *Play*: 40 deals of three tricks in two suits (a tenace over and under its
  missing honour; hands where both sides ruff and overruff), with and without
  trumps, zero to three cards already on the table, traces of 0 to 12 cards. One
  trick is the search's special case at the end; three tricks give hints in both
  directions and a loop that is cut short. `number` in {0, 1, 4, 5, 8, 12} stands
  for the remainders and quotients of the divisions at its start. The proofs have no
  bounds.
- *Search*: five families of twenty deals of three tricks, played as whole deals
  with and without trumps (with six searches for two leaders on one table) and,
  for two families, with one to three cards on the table; two deals of four
  tricks with both depths of the early lookup; a trump suit that nobody holds.
  The families were chosen until every clause of `Estimates` was reached, except
  one (the rest of the suit after a tenace in partner's hand), which needs five
  tricks. Entries and estimates are checked with at most two tricks to come
  (`CheckedTricks`), where all the positions that match can be listed: all that
  deals of three tricks store, and part of what those of four do.
- *Scheduler*: up to three boards over four hands: three of one hash key, of which
  two have one spare key too. Three is the shortest list of the general sort and
  allows hand A, hand B, hand A in one list. Two threads race for the last group.

- *Tables*: limits so small that every one is met: two entries in a block, two
  distributions in a list, one block in a page, two pages that a resize makes
  available again, four to six nodes in a slab, allocations that may fail
  (`MCAllocations`). One deal has many distributions (lists and pages fill up), one
  has one distribution with three orders (blocks and trees fill up), one has both
  kinds of root of the small table. Nodes nest two deep, so that a node's block can
  be taken away below it. `MaxHits` bounds the counter that ages blocks. `HashKeys` is
  the 256 of the code, one here, so that two distributions share a list. With one
  block in a page, `harvest` returns one block a time; its branch for a second is
  not reached by the run, but the proofs have no bounds.
- *Par*: 180 tables from rows that reach every branch: sides that make contracts
  on both sides of game and slam, partners of unequal strength, both sides able to
  make the same contract, sacrifices of every depth, nothing to be made; all four
  vulnerabilities, all dealers, both openers.
- *Batch*: three strains, so that a filter leaves none, one, two or all; room for
  one legacy table, so that limits are met by two deals; two pool threads; deals
  that fail and PBN text that cannot be read; any search may throw, one in each
  call (`MaxThrows`); several exceptions in one call are a matter of the pool, whose
  run lets every board throw. Every first call
  is followed by one of four that fail half-way, are refused or fill some rows. The
  proofs have no bounds.

## 6 Fairness

`BoardPool`: weak fairness of each thread's own steps, nothing about spurious
wakeups, and none for whether a client calls. A thread of the program that can
take a step eventually does; a lock is fair in the sense that a thread that finds
it free again and again is not needed: `run_mu_` is contended by one other caller
with finitely many calls. `Search` states no fairness: its
safety is what matters and `Stop` is its only step that repeats.
`SearchWindows` and `PlayAnalyser`: one thread runs
the call, so weak fairness of its next step. `Scheduler`: weak fairness of each
caller and thread. `Par`: weak fairness of the next
step of `SidesParBin`, which runs on its caller's thread. `Tables` and `Batch`
state none: no property of theirs is about progress (that a pool call returns is
checked on `BoardPool`).

## 7 Proofs

All theorems hold for every value of the constants under the named assumptions of
the modules (`...Assumption`), which TLC evaluates in the runs.

- `BoardPoolProofs`. `TypeCorrect`. `RunInvariant` is the inductive invariant:
  who holds a share of which pool, that the owner of `run_mu_` is the client
  whose frame is published, which workers are engaged in the job (they copied it
  or still have to), and that `finished` counts the participants that have
  accounted for themselves. The count is needed because "`finished` = number of
  workers" must imply that nobody is left in the job: its lemmas about
  cardinalities are the longest part. `JobsNeverDangle` and `PoolsOutliveRuns`
  follow. `WakeupsAreNotLost` is the safety half of the two condition variables:
  relative to `RunInvariant`, `NoLostWakeup` is inductive as it stands.
  `PoolImplementsContract`: every behaviour of the pool is
  one of `BatchCall`. A call's slots are numbers handed out by an atomic counter,
  what it promises is about boards, so the proof needs `FrameInv`: in the pool,
  workers that load or process have different slots below `next`; the boards
  started are those of the slots taken (all of them while nothing was reported);
  without a report a worker ends its part only when no slot is left; `first_error`
  is what the reports so far amount to. When the last participant is counted,
  `RunInvariant` says that all of them have ended, so all slots were taken, and an
  accepted order is a permutation (`EveryBoardHasASlot`), so all boards were
  started. The simulation then maps `StartBoard` and `EndBoard` to `Start` and
  `End`, deliveries to `Finish` or `Abort`, and everything between to stutters.
  The orders callers pass are assumed to be sequences of integers
  (`OrdersAssumption`), nothing else.
- `SolverContextProofs`. `TypeCorrect`. `NewDealAlwaysHeals` needs `RepeatsOK`
  (the repeats after a fresh solve find what it built) since the property alone
  says nothing of the next call. `ReuseAnswersTheDealAsked` needs `LoadedOK`,
  `EntriesOK` and `ChainOK`, which hold until a step sets `disturbed`: a rejected
  call, a dropped table, a deal similar to a short one right after it. These are the
  cases listed under *Context and windows* in section 8, and what the property
  itself exempts; the theorem has no hypothesis.
- `SearchWindowsProofs`. Two inductive invariants. `IInv` says of every open window
  that the best value among the moves that are not forbidden lies in it, where the
  lower end of `least` and the upper end of `most` come from the caller's
  hint. `WindowsAlwaysBracket` and `RepeatsAreRight` follow: a closed window holds
  one number. `AInv` is about the list of answers, one part for each place of the
  code: a call starts with an empty list (`Fresh`); the lower bound of a window is
  the work of the first move of the list that takes it (`Leads`), which is what
  makes the returned move the one the documentation means; between two windows of
  `solutions` 3 what was answered is what is forbidden, and no move that is left
  beats it (`Collects`); between two searches of `solutions` 2 every move that takes
  the score is answered, or left and later in the list than `best_move`
  (`Matches`); a finished call has all, the best or the target moves (`Completes`).
  `TypesKept` and `AnswersAlwaysRight` follow, for any set of moves and values.
- `FoldLemmas`. Induction over the natural numbers as a fact about sets of them (a
  set with no least element is empty, from the well-founded order of the library),
  and from it what a fold over the indices of a sequence computes: that a function
  with its equation exists, and that it stays in a set each step stays in, fixed or
  growing with the index (`FoldWithin`).
- `SearchProofs`. `PositionAlwaysKept`: when an activation is back at its first
  move, or has returned, the look-ahead position is the one it was called with, for
  every deal, trump suit, sequence of searches and order of moves. The invariant
  `SearchInv` is that a search has a trail: nodes from where it began to where
  it is, one for each frame on the stack, where undoing the frame's move leads from
  each to the one before. `Make` lengthens it; `CutOff`, `Failed` and `Exhausted`
  shorten it. Undo is exact only for a card that was in the hand to play, so lists
  must hold nothing else: that needs move generation, and that both sorts keep the
  elements of a list, which is an induction over the comparisons of the network
  (`NetKeeps`, `InsertionKeeps` over `FoldLemmas`). `BoardsAssumption` (hands are
  sets of cards, an unfinished trick has at most three) is the only assumption.
- `TablesProofs`. `TablesInvariant`, for both tables under any sequence of steps of
  the context. For the large one, `LargeOK`: the page list (`PagesOK`) has no page
  twice, counts itself, and has dormant pages only when a reset frees none;
  lists and blocks have a write position that fits their length (`ListsOK`,
  `BlocksOK`); every filed block lies in a page in use, below `next_block_`
  (`FiledInUse`), under one distribution (`FiledOnce`); and while a harvest is handed
  out its blocks are distinct and filed nowhere from the next on (`Handing`). The
  last is what `MemoryAccounted` does not say and needs: without it the second
  block of a harvest could have been filed again. `Harvest` is three nested folds (cells,
  lists, places from the last to the first), each shown to leave a table with fewer
  filings and more unfiled blocks. `TellsTruth` says that each entry is true of the
  positions of the distribution its block is filed under, unless an entry strayed.
  `MemoryAlwaysAccounted` and `TypesKept` follow for either table, and so does
  `TablesKeepTheirPromise`, the simulation of `TransTable` step by step; a search
  with nodes open also relies on the small table still knowing their lengths
  (`Looking`), since an addition reads them from the table, not from the node.
  Assumptions: the sizes are positive and `temp_win_` has
  five places (`LargeAssumption`, `SmallAssumption`), positions have tricks below
  the last and a value between 0 and their tricks (`EntriesAssumption`,
  `ValueAssumption`), limits are those `resize_tt` lets through
  (`LimitsAssumption`).
  For the small table, `SlabsOK`: the next node is
  below the limit of the last slab, no node lies at or above it. In the middle of an
  addition at the limit, `TempOK` says how far `temp_win_` is filled: new cards go
  two places apart, so the last of four new cards may be at its fifth place, which is
  why `SmallAssumption` asks for five. `PathsOK` is what its answers rest on. Every
  loop of the table follows links, so first it must end: the children of a node of
  a tree of lengths come later in its slab, and an alternative of a winning card is
  an older card of the same level (`LinksOK`, `Linked`); with `TailRecursion` of
  `FoldLemmas` a recursion along links that go down has a value, and `ChainSound`
  carries a fact along them. `Linked` speaks of `own`, which tells for each card
  the node of lengths it was added under; the code keeps no such thing, so the
  invariant says that one exists, and an addition or a reset says which. It is needed because
  nothing else keeps a card from being reached from two trees, and an entry
  learned for one distribution would then answer for another. `Claims`: a path of
  four cards stands for one pattern of one distribution, its bounds are true of the
  positions that fit it, and no other path has its node, so that an addition that
  finds its path there (`Reached`) may narrow the bounds in place. An addition is
  shown level by level: walk to the card or make it (`Made`, `Grows`), and the
  table hangs together with one claim missing, until `Meet` fills it in. From an
  overflow on (`clear_tt_flag_`) only `TempOK` is claimed of the addition: the reset
  that ends it forgets all cards, those of `temp_win_` among them.
  `AddAlwaysFound` is about the lookup after an addition. In the large table the
  entry is in the block that `add` wrote to; what has to be shown is that
  `lookup_suit` leads back to this block, which takes that a list names a
  distribution once (`DistsOnce`), through overwritten filings and harvests. In the
  small table a search for the length and then along `next_` and `next_win_` must
  come to the leaf that was just made (`Holds`, `FindSopFinds`). It gives up a card
  that does not fit for the next alternative, and backs out of one whose followers do
  not; older paths may answer before, but none may cut the search short. That needs
  `NoStumps` (a card that is not a leaf has a follower) and `Ordered` (from the
  newest alternative on, links lead through all the older ones), both part of
  `SmallOK`. An addition that met the limit has emptied the small table, and
  a reset below the node has taken the block of the large one: these are the
  exceptions `AddIsFound` names, and the proof shows that there are no others.
- `PlayAnalyserProofs`. All that the run `play_trace` checks, for every deal, trump
  suit, number of tricks, opening and trace that follows suit. First the game.
  `ValueEquation`: the value of a position is what its best card yields. `Value` is a
  function chosen by its equation, so the proof is that a solution exists, and it is
  built for the positions of at most n cards by induction on n, with the library's
  induction as a fact about sets of numbers (`FoldLemmas`). `Balanced` says of a
  position of a deal that each hand has its part of the tricks that are left;
  a card keeps that (`BalancedPlay`), so a value lies between 0 and those tricks
  (`ValueInside`), and no card is worth more than the value before it
  (`ValueAfter`). Then the analyser. Its invariant `IInv` says that the account
  agrees with a position and a place in the trace (`Agrees`): before a card is read
  with the position of the search, and between reading it and searching with the one
  after it. `AccountAgrees` alone is not inductive, since the hand that leads next is
  told by the best card of a trick that the analyser does not keep: `Leads` says which
  card of the trick that is, a card that beats it is the best of one more
  (`LeadsNext`), and of four different cards one is (`OneLeads`), hence the
  winner that `make_3` computes; that they differ is `Dealt`. `HintsAreBounds` is
  then `ValueAfter` read from the side that the hint is for (`HintsHold`), and
  because of it a search cut off at its hint returns the value
  (`LaterIsRight`). `TracesAreRight` adds which results were written: the cards read
  less those of the current trick (`Before`), up to the cap of the loops (`End`).
  `DealsAssumption` is what `board_range_checks` and `board_value_checks` let
  through: hands of one size without a card in common, of more than one trick, and
  at most three cards on the table.
- `BatchProofs`. Two parts. The numbering: dividing a board's number by the count of
  strains gives back its table, the rest is the rank of its strain, and every rank
  has one strain (`BoardOfStrain`, `StrainOfBoard`), so filling a table from right
  scores is right (`FilledRight`). The searches: the invariant `IInv` says which
  boards are in whose hands and that no two threads have the same one
  (`ThreadsOK`), that a thread past its first search has its own board in its
  context (the repeats name no deal, so without this nothing can be said of them),
  and that every recorded score is right and complete for the boards that are done
  (`ScoresOK`). `TypeCorrect`, `TablesAlwaysRight`, `SolvesAlwaysRight` and
  `RowsKept` follow, for any number of threads, strains, deals and calls.

## 8 Findings

Two disagreements between the code and its documents have a run that TLC finds
violated.

- Two concurrent batch calls corrupt the one Scheduler; a board linked to itself
  makes `RegisterRun` loop forever, although the Swift README promises that
  concurrent calls are safe (`scheduler_two_callers`). The last state of that
  counterexample repeats: it is the loop `index = hands[index].next` with
  `hands[0].next = 0`.
- `DealerParBin` recognises a sacrifice by the star in the first text
  (`par.cpp:1255`), but sacrifices written for one player have none
  (`dealer_par.cpp:639-647`). Such a text alone, as `3D-W-1`, becomes a contract with
  under-tricks 0, which `dll.h:323` says is made; after a text with a star its
  under-tricks are read from the end of the string (`par_binary`).

The others were met while modelling. They are listed so that a reader of the
models knows what they leave out; no passing property hides one without saying so.

*Context and windows*

- A call that `board_value_checks` rejects (`solver_if.cpp:167`) has already left
  its cards and trump suit behind (`solver_if.cpp:122`, `:147`); the next call may
  reuse table entries of another trump suit, where `doc/dll-description.md:847`
  says when reuse is safe. A deal of at most four cards does the same to a
  similar one after it. Both set `disturbed`, and `AnswersTheDealAsked` claims nothing
  from then on.
- `clear_tt` (`solver_context.cpp:212-214`) drops the rank tables too; the same deal
  is then searched with tables that were never computed.
- `solutions` 2 with a target out of reach returns no card (`solver_if.cpp:552`)
  where `doc/dll-description.md:836` promises one. `AnswersAreRight` claims nothing of
  the number of cards there (`OneCardPromised`), only of the score.
- `DDS_TT_LIMIT_MB` below the default size does not cap the maximum:
  `solver_context.cpp:92` raises it to the default again.
- A play trace that starts in the middle of a trick returns fewer results than
  `doc/dll-description.md:1161` promises (`play_analyser.cpp:65-71`, `:232`).

*Transposition tables*

- `harvest` takes blocks that an open node above still remembers in
  `last_block_seen_`; what that node adds is then filed under the distribution the
  block was given to, and may answer falsely. `Tables` marks this (`strayed`) and
  promises nothing until the next reset.
- Setting a default below the pages in use while `pool_` is not the last page:
  `reset_memory` frees backwards from `pool_`, loses the dormant pages after it and
  runs into a null pointer. Setting a maximum below the pages in use: the test
  `pages_current_ == pages_maximum_` never holds again and the table grows without
  limit, which `trans_table.hpp` calls a hard one. A default of 0, documented as
  "unlimited", makes a reset free every page. The guard `LeavesRoom` of `Resize`
  in `Tables` leaves these limits out, and only these; the proofs rest on it.
- When the first page cannot be allocated `pool_` keeps a null `list_`; when
  `newpoolp->list_` cannot be, `newpoolp` leaks.
- The small table's `temp_win_` has exactly the five places that an addition after
  an overflow uses.

*Par*

- When the two sides' tricks in a denomination add up to 15 or more, the turns of
  `SidesParBin` can miss the best opening; `SidesParIsPar` is stated for the other
  tables (`Cold`).
- `sidesRes[1].score` is in East-West's view, as in the example of
  `doc/dll-description.md:1100`, where `dll.h:334` says North-South's;
  `SidesParIsPar` takes it as the code writes it (`AsNorthSouth`).
  `DealerPar` leaves its score, `DealerParBin` its first contract, and the text
  function `equal`, unset when the deal is passed out. The text for a deal where
  nobody makes anything is `0N-N`. The test `no_filtered >= 5` cannot be reached.

*Batch drivers*

- The hint of the third leader is the score of the other side
  (`calc_tables.cpp:68`), not 13 less it: harmless, since the loop finds the value
  from any hint, but slower.
- `CalcAllTablesN` with no tables solves one board that was never filled
  (`calc_tables.cpp:316`) and adds 4 to `no_of_boards`; `CalcAllTablesX` returns at
  once.
- The entry points other than `CalcAllTablesX` let an exception cross the C
  interface. After a failure `solved.no_of_boards` keeps its old value.
- On deals of at most four cards the repeats of a table search a position that was
  never loaded; `Batch` is about longer ones.
- `init.cpp:119` may round the number of threads to 0, which nothing uses.
  `detect_solve_duplicates` has no caller.

## 9 Only model-checked, or not modelled

Model-checked only:

- liveness (`CallsReturn`, `DroppedPoolsAreReaped`, `Terminates`,
  `RegisterRunReturns`, `SidesParReturns`), which the prover does not treat;
- what needs an argument about bridge for every deal: that an estimate is a bound
  of the value (`Estimates`, and with it `SearchIsRight` and the part of
  `Search.TypeOK` about what estimates claim), and that the two computations of par
  find the value of the game of `Auction`. `ValueEquation` makes the first one
  statable;
- `Scheduler`.

Not modelled: PBN parsing, texts of contracts, dumps, timers and statistics (no
result depends on them); move weights and predicted times (they order work, and
every order is allowed in the models); `SetResources` and the thread manager, which
nothing that solves a board asks any more; the Emscripten memory clamp; destruction
of statics at exit; the variant of par compiled with `DEALER_PAR_ENGINE_ONLY`; the
API layers and the Swift wrapper, which forward; `AnalyseAllPlaysBin`, a loop over
`AnalysePlayBin` that stops at the first failure.
