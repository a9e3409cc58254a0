----------------------------- MODULE BatchCall -----------------------------
(***************************************************************************)
(* What one call of parallel_all_boards_n promises its caller, whatever    *)
(* threads do the work: every board of the batch is handed to              *)
(* process_board at most once, no invocation of process_board outlives the *)
(* call, and the value the call delivers is decided by what the            *)
(* invocations reported.  BoardPool is shown to implement this module.     *)
(***************************************************************************)
EXTENDS Naturals, Sequences

CONSTANTS
  Clients,              \* threads that call parallel_all_boards_n
  MaxCount,             \* bound on the boards of one batch
  RETURN_NO_FAULT,
  RETURN_UNKNOWN_FAULT,
  FaultCodes,           \* codes process_board may return besides RETURN_NO_FAULT
  Thrown                \* process_board, or the call itself, ends by an exception

VARIABLES
  phase,    \* [Clients -> {"idle", "inline", "pool"}]
  batch,    \* [Clients -> SUBSET boards]  the boards of the current batch
  started,  \* [Clients -> SUBSET boards]  boards handed to process_board
  active,   \* [Clients -> SUBSET boards]  invocations that have not returned
  reports,  \* [Clients -> Seq(outcomes)]  unsuccessful outcomes, oldest first
  result    \* [Clients -> value]          what the last finished call delivered

vars == <<phase, batch, started, active, reports, result>>

Outcomes == {RETURN_NO_FAULT, Thrown} \union FaultCodes

Init ==
  /\ phase = [c \in Clients |-> "idle"]
  /\ batch = [c \in Clients |-> {}]
  /\ started = [c \in Clients |-> {}]
  /\ active = [c \in Clients |-> {}]
  /\ reports = [c \in Clients |-> <<>>]
  /\ result = [c \in Clients |-> RETURN_NO_FAULT]

(* A batch without boards succeeds at once. *)
EmptyCall(c) ==
  /\ phase[c] = "idle"
  /\ result' = [result EXCEPT ![c] = RETURN_NO_FAULT]
  /\ UNCHANGED <<phase, batch, started, active, reports>>

Begin(c) ==
  /\ phase[c] = "idle"
  /\ \E n \in 1..MaxCount, mode \in {"inline", "pool"} :
       /\ phase' = [phase EXCEPT ![c] = mode]
       /\ batch' = [batch EXCEPT ![c] = 0..(n - 1)]
  /\ result' = [result EXCEPT ![c] = RETURN_NO_FAULT]
  /\ UNCHANGED <<started, active, reports>>

Start(c) ==
  /\ phase[c] # "idle"
  /\ \E b \in batch[c] \ started[c] :
       /\ started' = [started EXCEPT ![c] = @ \union {b}]
       /\ active' = [active EXCEPT ![c] = @ \union {b}]
  /\ UNCHANGED <<phase, batch, reports, result>>

End(c) ==
  /\ \E b \in active[c], o \in Outcomes :
       /\ active' = [active EXCEPT ![c] = @ \ {b}]
       /\ reports' = [reports EXCEPT
            ![c] = IF o = RETURN_NO_FAULT THEN @ ELSE Append(@, o)]
  /\ UNCHANGED <<phase, batch, started, result>>

(* The verdict: success only when every board was processed successfully;  *)
(* a thrown exception dominates; otherwise the first fault code.  On the   *)
(* caller's own thread an exception reaches the caller as an exception.    *)
Verdict(c) ==
  LET threw == \E i \in DOMAIN reports[c] : reports[c][i] = Thrown
  IN  IF reports[c] = <<>> THEN RETURN_NO_FAULT
      ELSE IF threw
           THEN IF phase[c] = "inline" THEN Thrown ELSE RETURN_UNKNOWN_FAULT
           ELSE Head(reports[c])

Deliver(c, value) ==
  /\ phase' = [phase EXCEPT ![c] = "idle"]
  /\ result' = [result EXCEPT ![c] = value]
  /\ batch' = [batch EXCEPT ![c] = {}]
  /\ started' = [started EXCEPT ![c] = {}]
  /\ reports' = [reports EXCEPT ![c] = <<>>]
  /\ UNCHANGED active

Finish(c) ==
  /\ phase[c] # "idle"
  /\ active[c] = {}
  /\ reports[c] = <<>> => started[c] = batch[c]
  /\ Deliver(c, Verdict(c))

(* The pool cannot get its threads: the call ends by an exception, and no  *)
(* board was touched.                                                      *)
Abort(c) ==
  /\ phase[c] = "pool"
  /\ started[c] = {}
  /\ Deliver(c, Thrown)

Next ==
  \E c \in Clients :
    EmptyCall(c) \/ Begin(c) \/ Start(c) \/ End(c) \/ Finish(c) \/ Abort(c)

Spec == Init /\ [][Next]_vars

=============================================================================
