----------------------------- MODULE BoardPool -----------------------------
(***************************************************************************)
(* library/src/system/parallel_boards.cpp: the process-wide pool of board  *)
(* workers (BoardWorkerPool), the shared_ptr holder that creates it on     *)
(* demand, parallel_all_boards_n, and shutdown_parallel_boards_pool.       *)
(*                                                                         *)
(* A client is any thread that calls parallel_all_boards_n or              *)
(* shutdown_parallel_boards_pool.  Its program counter pc[c] names the     *)
(* next statement; wpc[p][w] is the program counter of worker w of pool p. *)
(* A critical section under mu_ (or under the holder's mutex) never waits  *)
(* inside, and what it reads and writes is touched only under that mutex,  *)
(* so it is one step.  run_mu_ is held across steps and is explicit.       *)
(* Threads blocked in cv_start_ or cv_done_ have program counter "asleep"; *)
(* a notification moves them to the re-evaluation of their predicate.      *)
(***************************************************************************)
EXTENDS Integers, Sequences, FiniteSets

CONSTANTS
  Clients,              \* threads that use the pool
  MaxCount,             \* bound: boards of one batch
  MaxWorkers,           \* bound: threads one pool may reach
  MaxPools,             \* bound: pools ever created
  MaxCalls,             \* bound: [Clients -> Nat], calls a client makes
  Caps,                 \* worker_cap arguments (0 and below: auto)
  Orders,               \* order arguments, as sequences; <<>> is nullptr
  HardwareThreads,      \* std::thread::hardware_concurrency()
  SpawnMayFail,         \* may std::thread's constructor throw?
  RETURN_NO_FAULT,
  RETURN_UNKNOWN_FAULT,
  FaultCodes,
  Thrown,
  Null                  \* nullptr / nobody

ASSUME BoundsAssumption ==
  /\ MaxCount \in Nat \ {0}
  /\ MaxWorkers \in Nat \ {0}
  /\ MaxPools \in Nat \ {0}
  /\ MaxCalls \in [Clients -> Nat]
  /\ Caps \subseteq Int
  /\ HardwareThreads \in Nat
  /\ SpawnMayFail \in BOOLEAN

ASSUME OrdersAssumption == Orders \subseteq Seq(Int)

ASSUME CodesAssumption ==
  /\ RETURN_NO_FAULT \notin FaultCodes
  /\ RETURN_UNKNOWN_FAULT \in FaultCodes
  /\ Thrown \notin FaultCodes \union {RETURN_NO_FAULT}

ASSUME NullAssumption ==
  /\ Null \notin Clients
  /\ Null \notin Nat
  /\ Null \notin Clients \X Nat

PoolId == 1..MaxPools
WorkerId == 0..(MaxWorkers - 1)

VARIABLES
  \* clients
  pc,             \* next statement
  held,           \* the shared_ptr<BoardWorkerPool> on the client's stack
  ncalls,         \* calls made so far; <<c, ncalls[c]>> names c's stack frame
  request,        \* [count, workers, order] of the current call
  next,           \* run()'s std::atomic<int> next (or the inline loop's slot)
  firstError,     \* run()'s std::atomic<int> first_error (or the inline rc)
  finished,       \* run()'s int finished, guarded by mu_
  result,         \* what the last completed call delivered
  \* the holder
  holder,         \* PoolHolder::pool
  made,           \* pools created so far
  \* pools
  runMu,          \* owner of run_mu_
  job,            \* job_: the frame of the run whose Job it points to
  workersForJob,  \* workers_for_job_
  generation,     \* generation_
  stopping,       \* stopping_
  threads,        \* threads_.size()
  \* workers
  wpc,            \* next statement
  seen,           \* seen_generation
  local,          \* the frame the worker's copy of the Job points into
  slot,           \* slot, 0 outside its scope
  \* history of process_board's invocations, per client's current call
  started, active, reports

clientVars == <<pc, held, ncalls, request, result>>
frameVars == <<next, firstError, finished>>
holderVars == <<holder, made>>
poolVars == <<runMu, job, workersForJob, generation, stopping, threads>>
workerVars == <<wpc, seen, local, slot>>
historyVars == <<started, active, reports>>
vars == <<clientVars, frameVars, holderVars, poolVars, workerVars, historyVars>>

-----------------------------------------------------------------------------
(* Pure parts of parallel_all_boards_n. *)

Least(a, b) == IF a <= b THEN a ELSE b
Greatest(a, b) == IF a >= b THEN a ELSE b

(* resolve_worker_count: the cap, or the hardware when the cap is not      *)
(* positive, clamped to [1, count].                                        *)
ResolveWorkerCount(cap, count) ==
  LET wanted == IF cap > 0 THEN cap ELSE Greatest(1, HardwareThreads)
  IN  Greatest(1, Least(wanted, count))

(* Mutant of UseOrder: an order of the right length is trusted. *)
UseOrderUnchecked(order, count) == Len(order) = count

(* is_permutation_of_range, with the size test of its caller. *)
UseOrder(order, count) ==
  /\ Len(order) = count
  /\ \A i \in DOMAIN order : order[i] \in 0..(count - 1)
  /\ \A i, j \in DOMAIN order : order[i] = order[j] => i = j

(* The board dispatched for a slot. *)
BoardAt(c, s) ==
  IF UseOrder(request[c].order, request[c].count)
  THEN request[c].order[s + 1]
  ELSE s

NoRequest == [count |-> 0, workers |-> 1, order |-> <<>>]

Frame(c) == <<c, ncalls[c]>>

Init ==
  /\ pc = [c \in Clients |-> "idle"]
  /\ held = [c \in Clients |-> Null]
  /\ ncalls = [c \in Clients |-> 0]
  /\ request = [c \in Clients |-> NoRequest]
  /\ next = [c \in Clients |-> 0]
  /\ firstError = [c \in Clients |-> RETURN_NO_FAULT]
  /\ finished = [c \in Clients |-> 0]
  /\ result = [c \in Clients |-> RETURN_NO_FAULT]
  /\ holder = Null
  /\ made = 0
  /\ runMu = [p \in PoolId |-> Null]
  /\ job = [p \in PoolId |-> Null]
  /\ workersForJob = [p \in PoolId |-> 0]
  /\ generation = [p \in PoolId |-> 0]
  /\ stopping = [p \in PoolId |-> FALSE]
  /\ threads = [p \in PoolId |-> 0]
  /\ wpc = [p \in PoolId |-> [w \in WorkerId |-> "unborn"]]
  /\ seen = [p \in PoolId |-> [w \in WorkerId |-> 0]]
  /\ local = [p \in PoolId |-> [w \in WorkerId |-> Null]]
  /\ slot = [p \in PoolId |-> [w \in WorkerId |-> 0]]
  /\ started = [c \in Clients |-> {}]
  /\ active = [c \in Clients |-> {}]
  /\ reports = [c \in Clients |-> <<>>]

-----------------------------------------------------------------------------
(* process_board, seen from the dispatcher: it is entered for a board and  *)
(* later returns a code or throws.                                         *)

EnterBoard(c, b) ==
  /\ started' = [started EXCEPT ![c] = @ \union {b}]
  /\ active' = [active EXCEPT ![c] = @ \union {b}]
  /\ UNCHANGED reports

LeaveBoard(c, b, outcome) ==
  /\ active' = [active EXCEPT ![c] = @ \ {b}]
  /\ reports' = [reports EXCEPT
       ![c] = IF outcome = RETURN_NO_FAULT THEN @ ELSE Append(@, outcome)]
  /\ UNCHANGED started

Outcomes == {RETURN_NO_FAULT, Thrown} \union FaultCodes

Goto(c, label) == pc' = [pc EXCEPT ![c] = label]

(* The call's value is decided and its frame dies: request, next,          *)
(* first_error and finished have no meaning until the next call.           *)
Deliver(c, value) ==
  /\ result' = [result EXCEPT ![c] = value]
  /\ request' = [request EXCEPT ![c] = NoRequest]
  /\ next' = [next EXCEPT ![c] = 0]
  /\ firstError' = [firstError EXCEPT ![c] = RETURN_NO_FAULT]
  /\ finished' = [finished EXCEPT ![c] = 0]
  /\ started' = [started EXCEPT ![c] = {}]
  /\ reports' = [reports EXCEPT ![c] = <<>>]

-----------------------------------------------------------------------------
(* parallel_all_boards_n up to the choice of the path. *)

CallEmpty(c) ==
  /\ pc[c] = "idle"
  /\ ncalls[c] < MaxCalls[c]
  /\ ncalls' = [ncalls EXCEPT ![c] = @ + 1]
  /\ result' = [result EXCEPT ![c] = RETURN_NO_FAULT]
  /\ UNCHANGED <<pc, held, request, frameVars, holderVars, poolVars,
                 workerVars, historyVars>>

Call(c) ==
  /\ pc[c] = "idle"
  /\ ncalls[c] < MaxCalls[c]
  /\ \E count \in 1..MaxCount, cap \in Caps, order \in Orders :
       LET workers == ResolveWorkerCount(cap, count)
       IN  /\ workers <= MaxWorkers
           /\ request' = [request EXCEPT ![c] =
                [count |-> count, workers |-> workers, order |-> order]]
           /\ Goto(c, IF workers = 1 THEN "inline" ELSE "acquire")
  /\ ncalls' = [ncalls EXCEPT ![c] = @ + 1]
  /\ result' = [result EXCEPT ![c] = RETURN_NO_FAULT]
  /\ UNCHANGED <<held, frameVars, holderVars, poolVars, workerVars,
                 historyVars>>

(* The single-worker loop on the calling thread. *)
InlineStart(c) ==
  /\ pc[c] = "inline"
  /\ firstError[c] = RETURN_NO_FAULT
  /\ next[c] < request[c].count
  /\ EnterBoard(c, BoardAt(c, next[c]))
  /\ Goto(c, "inlineBoard")
  /\ UNCHANGED <<held, ncalls, request, frameVars, result, holderVars,
                 poolVars, workerVars>>

InlineEnd(c) ==
  /\ pc[c] = "inlineBoard"
  /\ \E outcome \in Outcomes :
       /\ LeaveBoard(c, BoardAt(c, next[c]), outcome)
       /\ firstError' = [firstError EXCEPT ![c] = outcome]
  /\ next' = [next EXCEPT ![c] = @ + 1]
  /\ Goto(c, "inline")
  /\ UNCHANGED <<held, ncalls, request, finished, result, holderVars, poolVars,
                 workerVars>>

(* The first code other than RETURN_NO_FAULT, or an exception, ends the    *)
(* loop and reaches the caller as it is.                                   *)
InlineReturn(c) ==
  /\ pc[c] = "inline"
  /\ firstError[c] # RETURN_NO_FAULT \/ next[c] >= request[c].count
  /\ Deliver(c, firstError[c])
  /\ Goto(c, "idle")
  /\ UNCHANGED <<held, ncalls, holderVars, poolVars, workerVars, active>>

-----------------------------------------------------------------------------
(* default_pool() and BoardWorkerPool::run on the calling thread. *)

(* default_pool: under the holder's mutex, create the pool when there is   *)
(* none, and take a share of it.                                           *)
Acquire(c) ==
  /\ pc[c] = "acquire"
  /\ IF holder = Null
     THEN /\ made < MaxPools
          /\ made' = made + 1
          /\ holder' = made + 1
          /\ held' = [held EXCEPT ![c] = made + 1]
     ELSE /\ held' = [held EXCEPT ![c] = holder]
          /\ UNCHANGED <<holder, made>>
  /\ Goto(c, "enter")
  /\ UNCHANGED <<ncalls, request, result, frameVars, poolVars, workerVars,
                 historyVars>>

LockRun(c) ==
  LET p == held[c] IN
  /\ pc[c] = "enter"
  /\ runMu[p] = Null
  /\ runMu' = [runMu EXCEPT ![p] = c]
  /\ Goto(c, "spawn")
  /\ UNCHANGED <<held, ncalls, request, result, frameVars, holderVars, job,
                 workersForJob, generation, stopping, threads, workerVars,
                 historyVars>>

(* ensure_workers: grow threads_ to the number wanted.  n threads exist    *)
(* afterwards; each begins at the predicate of cv_start_.                  *)
Grow(p, n) ==
  /\ threads' = [threads EXCEPT ![p] = n]
  /\ wpc' = [wpc EXCEPT ![p] =
       [w \in WorkerId |->
          IF threads[p] <= w /\ w < n THEN "check" ELSE wpc[p][w]]]

(* Mutant of EnsureWorkers: the loop's test is <= instead of <. *)
EnsureOneTooMany(c) ==
  LET p == held[c] IN
  /\ pc[c] = "spawn"
  /\ Grow(p, Greatest(threads[p], request[c].workers + 1))
  /\ Goto(c, "publish")
  /\ UNCHANGED <<held, ncalls, request, result, frameVars, holderVars, runMu,
                 job, workersForJob, generation, stopping, seen, local, slot,
                 historyVars>>

EnsureWorkers(c) ==
  LET p == held[c] IN
  /\ pc[c] = "spawn"
  /\ Grow(p, Greatest(threads[p], request[c].workers))
  /\ Goto(c, "publish")
  /\ UNCHANGED <<held, ncalls, request, result, frameVars, holderVars, runMu,
                 job, workersForJob, generation, stopping, seen, local, slot,
                 historyVars>>

(* A std::thread constructor throws after some threads were created: the   *)
(* exception leaves run() and parallel_all_boards_n, releasing run_mu_.    *)
SpawnFails(c) ==
  LET p == held[c] IN
  /\ SpawnMayFail
  /\ pc[c] = "spawn"
  /\ threads[p] < request[c].workers
  /\ \E n \in threads[p]..(request[c].workers - 1) : Grow(p, n)
  /\ runMu' = [runMu EXCEPT ![p] = Null]
  /\ Deliver(c, Thrown)
  /\ Goto(c, "release")
  /\ UNCHANGED <<held, ncalls, holderVars, job, workersForJob, generation,
                 stopping, seen, local, slot, active>>

(* The frame's atomics are initialised and its Job published under mu_.    *)
Publish(c) ==
  LET p == held[c] IN
  /\ pc[c] = "publish"
  /\ next' = [next EXCEPT ![c] = 0]
  /\ firstError' = [firstError EXCEPT ![c] = RETURN_NO_FAULT]
  /\ finished' = [finished EXCEPT ![c] = 0]
  /\ job' = [job EXCEPT ![p] = Frame(c)]
  /\ workersForJob' = [workersForJob EXCEPT ![p] = request[c].workers]
  /\ generation' = [generation EXCEPT ![p] = @ + 1]
  /\ Goto(c, "notify")
  /\ UNCHANGED <<held, ncalls, request, result, holderVars, runMu, stopping,
                 threads, workerVars, historyVars>>

(* Mutant of WakeWorkers: notify_one instead of notify_all. *)
WakeOneWorker(p) ==
  LET sleepers == {w \in WorkerId : wpc[p][w] = "asleep"} IN
  IF sleepers = {} THEN UNCHANGED wpc
  ELSE \E w \in sleepers : wpc' = [wpc EXCEPT ![p][w] = "check"]

(* cv_start_.notify_all() *)
WakeWorkers(p) ==
  wpc' = [wpc EXCEPT ![p] =
    [w \in WorkerId |-> IF wpc[p][w] = "asleep" THEN "check" ELSE wpc[p][w]]]

NotifyStart(c) ==
  /\ pc[c] = "notify"
  /\ WakeWorkers(held[c])
  /\ Goto(c, "wait")
  /\ UNCHANGED <<held, ncalls, request, result, frameVars, holderVars,
                 poolVars, seen, local, slot, historyVars>>

(* Mutant of WaitDone: the caller leaves one worker early. *)
WaitAllButOne(c) ==
  LET p == held[c] IN
  /\ pc[c] = "wait"
  /\ IF finished[c] >= request[c].workers - 1
     THEN /\ job' = [job EXCEPT ![p] = Null]
          /\ Goto(c, "leave")
     ELSE /\ Goto(c, "asleep")
          /\ UNCHANGED job
  /\ UNCHANGED <<held, ncalls, request, result, frameVars, holderVars, runMu,
                 workersForJob, generation, stopping, threads, workerVars,
                 historyVars>>

(* cv_done_.wait: the predicate is evaluated under mu_. *)
WaitDone(c) ==
  LET p == held[c] IN
  /\ pc[c] = "wait"
  /\ IF finished[c] >= request[c].workers
     THEN /\ job' = [job EXCEPT ![p] = Null]
          /\ Goto(c, "leave")
     ELSE /\ Goto(c, "asleep")
          /\ UNCHANGED job
  /\ UNCHANGED <<held, ncalls, request, result, frameVars, holderVars, runMu,
                 workersForJob, generation, stopping, threads, workerVars,
                 historyVars>>

(* run() returns: first_error is read, the frame dies, run_mu_ is freed. *)
LeaveRun(c) ==
  /\ pc[c] = "leave"
  /\ Deliver(c, firstError[c])
  /\ runMu' = [runMu EXCEPT ![held[c]] = Null]
  /\ Goto(c, "release")
  /\ UNCHANGED <<held, ncalls, holderVars, job, workersForJob, generation,
                 stopping, threads, workerVars, active>>

-----------------------------------------------------------------------------
(* shutdown_parallel_boards_pool, and the end of a share of the pool. *)

Shutdown(c) ==
  /\ pc[c] = "idle"
  /\ ncalls[c] < MaxCalls[c]
  /\ made < MaxPools
  /\ ncalls' = [ncalls EXCEPT ![c] = @ + 1]
  /\ held' = [held EXCEPT ![c] = holder]
  /\ holder' = Null
  /\ Goto(c, IF holder = Null THEN "idle" ELSE "release")
  /\ UNCHANGED <<request, result, frameVars, made, poolVars, workerVars,
                 historyVars>>

(* Mutant of OthersHold: runs use the pool without a share of their own. *)
HolderHolds(c, p) == holder = p

OthersHold(c, p) ==
  \/ holder = p
  \/ \E d \in Clients \ {c} : held[d] = p

(* The shared_ptr of a finished run or of shutdown goes out of scope; its  *)
(* last owner runs the destructor.                                         *)
ReleasePool(c) ==
  /\ pc[c] = "release"
  /\ IF OthersHold(c, held[c])
     THEN /\ held' = [held EXCEPT ![c] = Null]
          /\ Goto(c, "idle")
     ELSE /\ Goto(c, "stop")
          /\ UNCHANGED held
  /\ UNCHANGED <<ncalls, request, result, frameVars, holderVars, poolVars,
                 workerVars, historyVars>>

(* ~BoardWorkerPool: the flags under mu_, then notify_all, then the joins. *)
StopPool(c) ==
  LET p == held[c] IN
  /\ pc[c] = "stop"
  /\ stopping' = [stopping EXCEPT ![p] = TRUE]
  /\ generation' = [generation EXCEPT ![p] = @ + 1]
  /\ job' = [job EXCEPT ![p] = Null]
  /\ workersForJob' = [workersForJob EXCEPT ![p] = 0]
  /\ Goto(c, "notifyStop")
  /\ UNCHANGED <<held, ncalls, request, result, frameVars, holderVars, runMu,
                 threads, workerVars, historyVars>>

(* Mutant of NotifyStop: the destructor forgets to notify. *)
StopSilently(c) ==
  /\ pc[c] = "notifyStop"
  /\ Goto(c, "join")
  /\ UNCHANGED <<held, ncalls, request, result, frameVars, holderVars,
                 poolVars, workerVars, historyVars>>

NotifyStop(c) ==
  /\ pc[c] = "notifyStop"
  /\ WakeWorkers(held[c])
  /\ Goto(c, "join")
  /\ UNCHANGED <<held, ncalls, request, result, frameVars, holderVars,
                 poolVars, seen, local, slot, historyVars>>

JoinWorkers(c) ==
  /\ pc[c] = "join"
  /\ \A w \in WorkerId : w < threads[held[c]] => wpc[held[c]][w] = "exited"
  /\ held' = [held EXCEPT ![c] = Null]
  /\ Goto(c, "idle")
  /\ UNCHANGED <<ncalls, request, result, frameVars, holderVars, poolVars,
                 workerVars, historyVars>>

-----------------------------------------------------------------------------
(* worker_main *)

WGoto(p, w, label) == wpc' = [wpc EXCEPT ![p][w] = label]

(* One evaluation of cv_start_'s predicate under mu_, with the copy of the *)
(* job when it holds.                                                      *)
CheckStart(p, w) ==
  /\ wpc[p][w] = "check"
  /\ \/ /\ stopping[p]
        /\ WGoto(p, w, "exited")
        /\ UNCHANGED <<seen, local>>
     \/ /\ ~stopping[p]
        /\ job[p] # Null /\ generation[p] # seen[p][w] /\ w < workersForJob[p]
        /\ seen' = [seen EXCEPT ![p][w] = generation[p]]
        /\ local' = [local EXCEPT ![p][w] = job[p]]
        /\ WGoto(p, w, "fetch")
     \/ /\ ~stopping[p]
        /\ ~(job[p] # Null /\ generation[p] # seen[p][w] /\ w < workersForJob[p])
        /\ WGoto(p, w, "asleep")
        /\ UNCHANGED <<seen, local>>
  /\ UNCHANGED <<slot, clientVars, frameVars, holderVars, poolVars,
                 historyVars>>

(* A condition variable may wake a thread that nobody notified. *)
SpuriousWakeWorker(p, w) ==
  /\ wpc[p][w] = "asleep"
  /\ WGoto(p, w, "check")
  /\ UNCHANGED <<seen, local, slot, clientVars, frameVars, holderVars,
                 poolVars, historyVars>>

SpuriousWakeClient(c) ==
  /\ pc[c] = "asleep"
  /\ Goto(c, "wait")
  /\ UNCHANGED <<held, ncalls, request, result, frameVars, holderVars,
                 poolVars, workerVars, historyVars>>

(* The client whose frame worker w of pool p uses. *)
Owner(p, w) == local[p][w][1]

FetchSlot(p, w) ==
  LET c == Owner(p, w) IN
  /\ wpc[p][w] = "fetch"
  /\ slot' = [slot EXCEPT ![p][w] = next[c]]
  /\ next' = [next EXCEPT ![c] = @ + 1]
  /\ WGoto(p, w, "load")
  /\ UNCHANGED <<seen, local, clientVars, firstError, finished, holderVars,
                 poolVars, historyVars>>

(* The slot is in range and first_error reads RETURN_NO_FAULT.  The load   *)
(* is relaxed, so it may return that value although another worker has     *)
(* already stored an error.                                                *)
StartBoard(p, w) ==
  LET c == Owner(p, w) IN
  /\ wpc[p][w] = "load"
  /\ slot[p][w] < request[c].count
  /\ EnterBoard(c, BoardAt(c, slot[p][w]))
  /\ WGoto(p, w, "board")
  /\ UNCHANGED <<seen, local, slot, clientVars, frameVars, holderVars,
                 poolVars>>

StopDispatch(p, w) ==
  LET c == Owner(p, w) IN
  /\ wpc[p][w] = "load"
  /\ \/ slot[p][w] >= request[c].count
     \/ firstError[c] # RETURN_NO_FAULT
  /\ WGoto(p, w, "account")
  /\ slot' = [slot EXCEPT ![p][w] = 0]
  /\ UNCHANGED <<seen, local, clientVars, frameVars, holderVars, poolVars,
                 historyVars>>

(* What the worker does with the outcome: a failed compare-exchange keeps  *)
(* the earlier code, an exception overwrites it.                           *)
RecordOutcome(c, outcome) ==
  firstError' = [firstError EXCEPT ![c] =
    CASE outcome = Thrown -> RETURN_UNKNOWN_FAULT
      [] outcome # Thrown /\ @ = RETURN_NO_FAULT -> outcome
      [] OTHER -> @]

EndBoard(p, w) ==
  LET c == Owner(p, w) IN
  /\ wpc[p][w] = "board"
  /\ \E outcome \in Outcomes :
       /\ LeaveBoard(c, BoardAt(c, slot[p][w]), outcome)
       /\ IF outcome = RETURN_NO_FAULT
          THEN WGoto(p, w, "fetch") /\ UNCHANGED firstError
          ELSE WGoto(p, w, "account") /\ RecordOutcome(c, outcome)
  /\ slot' = [slot EXCEPT ![p][w] = 0]
  /\ UNCHANGED <<seen, local, clientVars, next, finished, holderVars, poolVars>>

(* ++finished under mu_; the last participant will signal. *)
Account(p, w) ==
  LET c == Owner(p, w) IN
  /\ wpc[p][w] = "account"
  /\ finished' = [finished EXCEPT ![c] = @ + 1]
  /\ WGoto(p, w,
       IF finished[c] + 1 >= request[c].workers THEN "signal" ELSE "check")
  /\ local' = [local EXCEPT ![p][w] = Null]
  /\ UNCHANGED <<seen, slot, clientVars, next, firstError, holderVars,
                 poolVars, historyVars>>

(* Mutant of SignalDone: the last worker forgets to notify. *)
SignalNobody(p, w) ==
  /\ wpc[p][w] = "signal"
  /\ WGoto(p, w, "check")
  /\ UNCHANGED <<pc, seen, local, slot, held, ncalls, request, result,
                 frameVars, holderVars, poolVars, historyVars>>

(* cv_done_.notify_one(): only the owner of run_mu_ ever waits there. *)
SignalDone(p, w) ==
  /\ wpc[p][w] = "signal"
  /\ WGoto(p, w, "check")
  /\ pc' = [c \in Clients |->
       IF pc[c] = "asleep" /\ held[c] = p THEN "wait" ELSE pc[c]]
  /\ UNCHANGED <<seen, local, slot, held, ncalls, request, result, frameVars,
                 holderVars, poolVars, historyVars>>

-----------------------------------------------------------------------------
ClientStep(c) ==
  \/ InlineStart(c) \/ InlineEnd(c) \/ InlineReturn(c)
  \/ Acquire(c) \/ LockRun(c) \/ EnsureWorkers(c) \/ SpawnFails(c)
  \/ Publish(c) \/ NotifyStart(c) \/ WaitDone(c) \/ LeaveRun(c)
  \/ ReleasePool(c) \/ StopPool(c) \/ NotifyStop(c) \/ JoinWorkers(c)

WorkerStep(p, w) ==
  \/ CheckStart(p, w) \/ FetchSlot(p, w) \/ StartBoard(p, w)
  \/ StopDispatch(p, w) \/ EndBoard(p, w) \/ Account(p, w) \/ SignalDone(p, w)

Next ==
  \/ \E c \in Clients : CallEmpty(c) \/ Call(c) \/ Shutdown(c)
                        \/ SpuriousWakeClient(c) \/ ClientStep(c)
  \/ \E p \in PoolId, w \in WorkerId :
       SpuriousWakeWorker(p, w) \/ WorkerStep(p, w)

(* Every thread that can take a step of this code eventually does: the     *)
(* operating system schedules it, std::mutex is handed over, and           *)
(* process_board returns.  Nobody is obliged to call, and no spurious      *)
(* wakeup may be relied upon.                                              *)
Fairness ==
  /\ \A c \in Clients : WF_vars(ClientStep(c))
  /\ \A p \in PoolId, w \in WorkerId : WF_vars(WorkerStep(p, w))

Spec == Init /\ [][Next]_vars
FairSpec == Spec /\ Fairness

-----------------------------------------------------------------------------
ClientLabels ==
  {"idle", "inline", "inlineBoard", "acquire", "enter", "spawn", "publish",
   "notify", "wait", "asleep", "leave", "release", "stop", "notifyStop", "join"}

WorkerLabels ==
  {"unborn", "check", "asleep", "fetch", "load", "board", "account", "signal",
   "exited"}

Requests ==
  [count : 0..MaxCount, workers : 1..MaxWorkers, order : Orders \union {<<>>}]

ClientTypes ==
  /\ pc \in [Clients -> ClientLabels]
  /\ held \in [Clients -> PoolId \union {Null}]
  /\ ncalls \in [Clients -> Nat]
  /\ request \in [Clients -> Requests]
  /\ result \in [Clients -> Outcomes]

FrameTypes ==
  /\ next \in [Clients -> Nat]
  /\ firstError \in [Clients -> Outcomes]
  /\ finished \in [Clients -> Nat]

HolderTypes ==
  /\ holder \in PoolId \union {Null}
  /\ made \in 0..MaxPools

PoolTypes ==
  /\ runMu \in [PoolId -> Clients \union {Null}]
  /\ job \in [PoolId -> (Clients \X Nat) \union {Null}]
  /\ workersForJob \in [PoolId -> 0..MaxWorkers]
  /\ generation \in [PoolId -> Nat]
  /\ stopping \in [PoolId -> BOOLEAN]
  /\ threads \in [PoolId -> 0..MaxWorkers]

WorkerTypes ==
  /\ wpc \in [PoolId -> [WorkerId -> WorkerLabels]]
  /\ seen \in [PoolId -> [WorkerId -> Nat]]
  /\ local \in [PoolId -> [WorkerId -> (Clients \X Nat) \union {Null}]]
  /\ slot \in [PoolId -> [WorkerId -> Nat]]

(* The variables stay in the ranges the C++ types and the bounds give them. *)
TypeOK == ClientTypes /\ FrameTypes /\ HolderTypes /\ PoolTypes /\ WorkerTypes

(* The program counters at which a client's frame holds a published Job,   *)
(* and those at which a worker uses its copy of one.                       *)
Published == {"notify", "wait", "asleep"}
Engaged == {"fetch", "load", "board", "account"}
InRun == Published \union {"spawn", "publish", "leave"}
Destroying == {"stop", "notifyStop", "join"}

(* The job a worker works on, and the job the pool offers, belong to a     *)
(* call that is still inside run(): next, first_error, finished and the    *)
(* process_board reference live on that call's stack                       *)
(* (parallel_boards.cpp:74-89), so using them later is use after return.   *)
NoDanglingJob ==
  \A p \in PoolId :
    /\ job[p] # Null =>
         \E c \in Clients : /\ job[p] = Frame(c)
                            /\ held[c] = p
                            /\ pc[c] \in Published
    /\ \A w \in WorkerId :
         wpc[p][w] \in Engaged =>
           \E c \in Clients : /\ local[p][w] = Frame(c)
                              /\ held[c] = p
                              /\ pc[c] \in Published

(* A pool is torn down only when no call is between default_pool() and the *)
(* release of its share, no matter how shutdowns and calls interleave      *)
(* (parallel_boards.cpp:310-321).                                          *)
NoStopUnderRun ==
  \A c, d \in Clients :
    pc[c] \in Destroying /\ c # d => held[d] # held[c]

(* The strengthening that makes the two invariants above inductive.        *)
(* Shares exist only of pools that were made, and the client that destroys *)
(* a pool holds its last share.                                            *)
SharesOK ==
  /\ \A c \in Clients : held[c] # Null => held[c] <= made
  /\ holder # Null => holder <= made
  /\ \A c \in Clients :
       pc[c] \in Destroying =>
         /\ holder # held[c]
         /\ \A d \in Clients \ {c} : held[d] # held[c]

(* run_mu_ is owned by the client inside run(). *)
RunMutexOK == \A c \in Clients : pc[c] \in InRun => runMu[held[c]] = c

(* job_ points to the frame of the run that published it, and to no other. *)
JobOK ==
  /\ \A p \in PoolId :
       job[p] # Null =>
         \E c \in Clients : /\ job[p] = Frame(c)
                            /\ held[c] = p
                            /\ pc[c] \in Published
  /\ \A c \in Clients :
       pc[c] \in Published =>
         /\ job[held[c]] = Frame(c)
         /\ workersForJob[held[c]] = request[c].workers

(* A working worker is in the prefix of the published run of its pool, and *)
(* works on the current generation; no worker is ahead of its pool.        *)
EngagedOK ==
  \A p \in PoolId, w \in WorkerId :
    /\ seen[p][w] <= generation[p]
    /\ wpc[p][w] \in Engaged =>
         /\ seen[p][w] = generation[p]
         /\ \E c \in Clients : /\ local[p][w] = Frame(c)
                               /\ held[c] = p
                               /\ pc[c] \in Published
                               /\ w < request[c].workers

(* finished counts the workers of the prefix that are done with the run. *)
Accounted(c) ==
  {w \in 0..(request[c].workers - 1) :
     /\ seen[held[c]][w] = generation[held[c]]
     /\ wpc[held[c]][w] \notin Engaged}

CountOK ==
  \A c \in Clients :
    pc[c] \in Published => finished[c] = Cardinality(Accounted(c))

RunInv == SharesOK /\ RunMutexOK /\ JobOK /\ EngagedOK /\ CountOK

(* A worker that serves a run is never blocked when that run needs it: a   *)
(* participant still asleep has an outstanding notify_all to wake it.  This *)
(* is the safety half of "no lost wakeup".                                 *)
NoLostWakeup ==
  /\ \A c \in Clients :
       pc[c] \in {"wait", "asleep"} =>
         \A w \in WorkerId :
           w < request[c].workers /\ wpc[held[c]][w] = "asleep"
             => seen[held[c]][w] = generation[held[c]]
  /\ \A c \in Clients :
       pc[c] = "asleep" /\ finished[c] >= request[c].workers
         => \E w \in WorkerId : wpc[held[c]][w] = "signal"

-----------------------------------------------------------------------------
(* BoardPool implements BatchCall. *)

CallPhase(c) ==
  CASE pc[c] \in {"inline", "inlineBoard"} -> "inline"
    [] pc[c] \in InRun \union {"acquire", "enter"} -> "pool"
    [] OTHER -> "idle"

Contract == INSTANCE BatchCall WITH
  phase <- [c \in Clients |-> CallPhase(c)],
  batch <- [c \in Clients |-> 0..(request[c].count - 1)]

(* Every behaviour of the pool is a behaviour of the per-call contract: no *)
(* board is processed twice, none is in progress when the call returns,    *)
(* and the delivered code is the one parallel_boards.hpp documents.        *)
ImplementsContract == Contract!Spec

(* Every call returns: no lost wakeup, no worker that never picks up its   *)
(* job, no shutdown that waits for a worker which sleeps.                  *)
CallsReturn == \A c \in Clients : pc[c] # "idle" ~> pc[c] = "idle"

(* Once the holder has let go of a pool, its threads all exit. *)
DroppedPoolsAreReaped ==
  \A p \in PoolId :
    (p <= made /\ holder # p)
      ~> (\A w \in WorkerId : wpc[p][w] \in {"unborn", "exited"})

=============================================================================
