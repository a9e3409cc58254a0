-------------------------- MODULE BoardPoolProofs --------------------------
(***************************************************************************)
(* Machine-checked safety of BoardPool, for every number of clients,       *)
(* workers, boards, pools and calls: its types, the invariant of a run     *)
(* (RunInvariant) and what follows from it; and then that it implements    *)
(* BatchCall, by the invariant that relates the slots of a run to the      *)
(* boards its caller was promised (FramesAgree) and the simulation of      *)
(* every step by a step of the contract or a stutter.                      *)
(***************************************************************************)
EXTENDS BoardPool, FiniteSetTheorems, TLAPS

(* A client holds a share of a pool exactly between default_pool() and the *)
(* end of its release; a worker that works has a copy of a job.            *)
HeldOK ==
  \A c \in Clients :
    held[c] = Null <=> pc[c] \in {"idle", "inline", "inlineBoard", "acquire"}

LocalOK ==
  \A p \in PoolId, w \in WorkerId :
    wpc[p][w] \in Engaged => local[p][w] \in Clients \X Nat

TypeInv == TypeOK /\ HeldOK /\ LocalOK

-----------------------------------------------------------------------------
(* The worker count of a call is at least one and an integer. *)
LEMMA WorkersPositive ==
  ASSUME NEW cap \in Int, NEW count \in Nat \ {0}
  PROVE  ResolveWorkerCount(cap, count) \in Nat \ {0}
  BY BoundsAssumption DEF ResolveWorkerCount, Greatest, Least

(* Pool numbers are never the null pointer. *)
LEMMA NullFacts == Null \notin PoolId /\ Null \notin Clients
  BY NullAssumption, BoundsAssumption DEF PoolId

LEMMA TypeInit == Init => TypeInv
  <1> SUFFICES ASSUME Init PROVE TypeInv
    OBVIOUS
  <1> USE BoundsAssumption, CodesAssumption DEF Init
  <1>1. ClientTypes /\ FrameTypes /\ HolderTypes /\ PoolTypes
    BY DEF ClientTypes, FrameTypes, HolderTypes, PoolTypes, Requests,
           NoRequest, Outcomes, ClientLabels
  <1>2. WorkerTypes
    BY DEF WorkerTypes, WorkerLabels
  <1>3. HeldOK
    BY DEF HeldOK
  <1>4. LocalOK
    BY DEF LocalOK, Engaged
  <1> QED
    BY <1>1, <1>2, <1>3, <1>4 DEF TypeInv, TypeOK

(* A part of the type invariant is kept by a step that leaves its          *)
(* variables alone.                                                        *)
LEMMA TypesUnchanged ==
  /\ ClientTypes /\ HeldOK /\ UNCHANGED clientVars => ClientTypes' /\ HeldOK'
  /\ FrameTypes /\ UNCHANGED frameVars => FrameTypes'
  /\ HolderTypes /\ UNCHANGED holderVars => HolderTypes'
  /\ PoolTypes /\ UNCHANGED poolVars => PoolTypes'
  /\ WorkerTypes /\ LocalOK /\ UNCHANGED workerVars => WorkerTypes' /\ LocalOK'
  BY DEF ClientTypes, HeldOK, FrameTypes, HolderTypes, PoolTypes, WorkerTypes,
         LocalOK, clientVars, frameVars, holderVars, poolVars, workerVars

(* What delivering a value does to the types of a frame. *)
LEMMA DeliverType ==
  ASSUME ClientTypes, FrameTypes, NEW c \in Clients, NEW v \in Outcomes,
         Deliver(c, v)
  PROVE  /\ result' \in [Clients -> Outcomes]
         /\ request' \in [Clients -> Requests]
         /\ FrameTypes'
  BY BoundsAssumption
     DEF ClientTypes, FrameTypes, Deliver, NoRequest, Requests, Outcomes

LEMMA ClientTypeStep ==
  ASSUME TypeInv, NEW c \in Clients,
         CallEmpty(c) \/ Call(c) \/ Shutdown(c) \/ SpuriousWakeClient(c)
           \/ ClientStep(c)
  PROVE  TypeInv'
  <1>a. /\ ClientTypes /\ FrameTypes /\ HolderTypes /\ PoolTypes /\ WorkerTypes
        /\ HeldOK /\ LocalOK
    BY DEF TypeInv, TypeOK
  <1>b. pc[c] \notin {"idle", "inline", "inlineBoard", "acquire"}
          => held[c] \in PoolId
    BY <1>a DEF HeldOK, ClientTypes
  <1>1. CASE CallEmpty(c)
    <2>1. UNCHANGED frameVars /\ UNCHANGED holderVars /\ UNCHANGED poolVars /\ UNCHANGED workerVars
      BY <1>1 DEF CallEmpty
    <2>2. ClientTypes' /\ HeldOK'
      BY <1>1, <1>a, <1>b, NullFacts, BoundsAssumption, CodesAssumption
         DEF CallEmpty, Goto, ClientTypes, HeldOK, ClientLabels, Outcomes
    <2> QED
      BY <2>1, <2>2, <1>a, TypesUnchanged DEF TypeInv, TypeOK
  <1>2. CASE Call(c)
    <2>1. UNCHANGED frameVars /\ UNCHANGED holderVars /\ UNCHANGED poolVars /\ UNCHANGED workerVars
      BY <1>2 DEF Call
    <2>2. ClientTypes' /\ HeldOK'
      <3>1. PICK count \in 1..MaxCount, cap \in Caps, order \in Orders :
              LET workers == ResolveWorkerCount(cap, count)
              IN  /\ workers <= MaxWorkers
                  /\ request' = [request EXCEPT ![c] =
                       [count |-> count, workers |-> workers, order |-> order]]
                  /\ Goto(c, IF workers = 1 THEN "inline" ELSE "acquire")
        BY <1>2 DEF Call
      <3>2. ResolveWorkerCount(cap, count) \in 1..MaxWorkers
        BY <3>1, WorkersPositive, BoundsAssumption
      <3>3. request' \in [Clients -> Requests]
        BY <3>1, <3>2, <1>a DEF ClientTypes, Requests
      <3>4. ClientTypes'
        BY <1>2, <3>1, <3>3, <1>a
           DEF Call, Goto, ClientTypes, ClientLabels, Outcomes
      <3>5. HeldOK'
        BY <1>2, <3>1, <1>a DEF Call, Goto, ClientTypes, HeldOK
      <3> QED
        BY <3>4, <3>5
    <2> QED
      BY <2>1, <2>2, <1>a, TypesUnchanged DEF TypeInv, TypeOK
  <1>3. CASE Shutdown(c)
    <2>1. UNCHANGED frameVars /\ UNCHANGED poolVars /\ UNCHANGED workerVars
      BY <1>3 DEF Shutdown
    <2>2. ClientTypes' /\ HeldOK'
      <3>1. ClientTypes'
        BY <1>3, <1>a DEF Shutdown, Goto, ClientTypes, HolderTypes, ClientLabels
      <3>2. HeldOK'
        BY <1>3, <1>a DEF Shutdown, Goto, ClientTypes, HeldOK
      <3> QED
        BY <3>1, <3>2
    <2>3. HolderTypes'
      BY <1>3, <1>a, <1>b, NullFacts, BoundsAssumption, CodesAssumption
         DEF Shutdown, Goto, HolderTypes, PoolId
    <2> QED
      BY <2>1, <2>2, <2>3, <1>a, TypesUnchanged DEF TypeInv, TypeOK
  <1>4. CASE SpuriousWakeClient(c)
    <2>1. UNCHANGED frameVars /\ UNCHANGED holderVars /\ UNCHANGED poolVars /\ UNCHANGED workerVars
      BY <1>4 DEF SpuriousWakeClient
    <2>2. ClientTypes' /\ HeldOK'
      BY <1>4, <1>a, <1>b, NullFacts, BoundsAssumption, CodesAssumption
         DEF SpuriousWakeClient, Goto, ClientTypes, HeldOK, ClientLabels, Outcomes
    <2> QED
      BY <2>1, <2>2, <1>a, TypesUnchanged DEF TypeInv, TypeOK
  <1>5. CASE InlineStart(c)
    <2>1. UNCHANGED frameVars /\ UNCHANGED holderVars /\ UNCHANGED poolVars /\ UNCHANGED workerVars
      BY <1>5 DEF InlineStart
    <2>2. ClientTypes' /\ HeldOK'
      BY <1>5, <1>a, <1>b, NullFacts, BoundsAssumption, CodesAssumption
         DEF InlineStart, Goto, EnterBoard, ClientTypes, HeldOK, ClientLabels, Outcomes
    <2> QED
      BY <2>1, <2>2, <1>a, TypesUnchanged DEF TypeInv, TypeOK
  <1>6. CASE InlineEnd(c)
    <2>1. UNCHANGED holderVars /\ UNCHANGED poolVars /\ UNCHANGED workerVars
      BY <1>6 DEF InlineEnd
    <2>2. ClientTypes' /\ HeldOK'
      BY <1>6, <1>a, <1>b, NullFacts, BoundsAssumption, CodesAssumption
         DEF InlineEnd, Goto, LeaveBoard, ClientTypes, HeldOK, ClientLabels, Outcomes
    <2>3. FrameTypes'
      BY <1>6, <1>a, <1>b, NullFacts, BoundsAssumption, CodesAssumption
         DEF InlineEnd, Goto, LeaveBoard, FrameTypes, Outcomes
    <2> QED
      BY <2>1, <2>2, <2>3, <1>a, TypesUnchanged DEF TypeInv, TypeOK
  <1>7. CASE InlineReturn(c)
    <2>1. UNCHANGED holderVars /\ UNCHANGED poolVars /\ UNCHANGED workerVars
      BY <1>7 DEF InlineReturn
    <2>2. ClientTypes' /\ HeldOK'
      <3>1. firstError[c] \in Outcomes
        BY <1>a DEF FrameTypes
      <3>2. ClientTypes'
        BY <1>7, <1>a, <3>1, DeliverType
           DEF InlineReturn, Goto, ClientTypes, ClientLabels
      <3>3. HeldOK'
        BY <1>7, <1>a DEF InlineReturn, Goto, ClientTypes, HeldOK
      <3> QED
        BY <3>2, <3>3
    <2>3. FrameTypes'
      BY <1>7, <1>a, <1>b, NullFacts, BoundsAssumption, CodesAssumption, DeliverType
         DEF InlineReturn, Goto, FrameTypes, Outcomes
    <2> QED
      BY <2>1, <2>2, <2>3, <1>a, TypesUnchanged DEF TypeInv, TypeOK
  <1>8. CASE Acquire(c)
    <2>1. UNCHANGED frameVars /\ UNCHANGED poolVars /\ UNCHANGED workerVars
      BY <1>8 DEF Acquire
    <2>2. ClientTypes' /\ HeldOK'
      <3>1. held' = [held EXCEPT ![c] = holder'] /\ holder' \in PoolId
        BY <1>8, <1>a, BoundsAssumption DEF Acquire, HolderTypes, PoolId
      <3>2. ClientTypes'
        BY <1>8, <1>a, <3>1 DEF Acquire, Goto, ClientTypes, ClientLabels
      <3>3. HeldOK'
        BY <1>8, <1>a, <3>1, NullFacts DEF Acquire, Goto, ClientTypes, HeldOK
      <3> QED
        BY <3>2, <3>3
    <2>3. HolderTypes'
      BY <1>8, <1>a, <1>b, NullFacts, BoundsAssumption, CodesAssumption
         DEF Acquire, Goto, HolderTypes, PoolId
    <2> QED
      BY <2>1, <2>2, <2>3, <1>a, TypesUnchanged DEF TypeInv, TypeOK
  <1>9. CASE LockRun(c)
    <2>1. UNCHANGED frameVars /\ UNCHANGED holderVars /\ UNCHANGED workerVars
      BY <1>9 DEF LockRun
    <2>2. ClientTypes' /\ HeldOK'
      BY <1>9, <1>a, <1>b, NullFacts, BoundsAssumption, CodesAssumption
         DEF LockRun, Goto, ClientTypes, HeldOK, ClientLabels, Outcomes
    <2>3. PoolTypes'
      BY <1>9, <1>a, <1>b, NullFacts, BoundsAssumption, CodesAssumption
         DEF LockRun, Goto, PoolTypes, ClientTypes, Requests
    <2> QED
      BY <2>1, <2>2, <2>3, <1>a, TypesUnchanged DEF TypeInv, TypeOK
  <1>10. CASE EnsureWorkers(c)
    <2>1. UNCHANGED frameVars /\ UNCHANGED holderVars
      BY <1>10 DEF EnsureWorkers
    <2>2. ClientTypes' /\ HeldOK'
      BY <1>10, <1>a, <1>b, NullFacts, BoundsAssumption, CodesAssumption
         DEF EnsureWorkers, Goto, Grow, Greatest, ClientTypes, HeldOK, ClientLabels, Outcomes
    <2>3. PoolTypes'
      BY <1>10, <1>a, <1>b, NullFacts, BoundsAssumption, CodesAssumption
         DEF EnsureWorkers, Goto, Grow, Greatest, PoolTypes, ClientTypes, Requests
    <2>4. WorkerTypes' /\ LocalOK'
      BY <1>10, <1>a, <1>b, NullFacts, BoundsAssumption, CodesAssumption
         DEF EnsureWorkers, Goto, Grow, Greatest, WorkerTypes, WorkerLabels, LocalOK, Engaged, PoolTypes, ClientTypes
    <2> QED
      BY <2>1, <2>2, <2>3, <2>4, <1>a, TypesUnchanged DEF TypeInv, TypeOK
  <1>11. CASE SpawnFails(c)
    <2>1. UNCHANGED holderVars
      BY <1>11 DEF SpawnFails
    <2>2. ClientTypes' /\ HeldOK'
      BY <1>11, <1>a, <1>b, NullFacts, BoundsAssumption, CodesAssumption, DeliverType
         DEF SpawnFails, Goto, Grow, ClientTypes, HeldOK, ClientLabels, Outcomes
    <2>3. FrameTypes'
      BY <1>11, <1>a, <1>b, NullFacts, BoundsAssumption, CodesAssumption, DeliverType
         DEF SpawnFails, Goto, Grow, FrameTypes, Outcomes
    <2>4. PoolTypes'
      <3>1. PICK n \in threads[held[c]]..(request[c].workers - 1) :
              Grow(held[c], n)
        BY <1>11 DEF SpawnFails
      <3>2. n \in 0..MaxWorkers
        BY <3>1, <1>11, <1>a, <1>b, BoundsAssumption
           DEF SpawnFails, PoolTypes, ClientTypes, Requests
      <3> QED
        BY <3>1, <3>2, <1>11, <1>a DEF SpawnFails, Grow, PoolTypes
    <2>5. WorkerTypes' /\ LocalOK'
      BY <1>11, <1>a, <1>b, NullFacts, BoundsAssumption, CodesAssumption, DeliverType
         DEF SpawnFails, Goto, Grow, WorkerTypes, WorkerLabels, LocalOK, Engaged, PoolTypes, ClientTypes
    <2> QED
      BY <2>1, <2>2, <2>3, <2>4, <2>5, <1>a, TypesUnchanged DEF TypeInv, TypeOK
  <1>12. CASE Publish(c)
    <2>1. UNCHANGED holderVars /\ UNCHANGED workerVars
      BY <1>12 DEF Publish
    <2>2. ClientTypes' /\ HeldOK'
      BY <1>12, <1>a, <1>b, NullFacts, BoundsAssumption, CodesAssumption
         DEF Publish, Goto, Frame, ClientTypes, HeldOK, ClientLabels, Outcomes
    <2>3. FrameTypes'
      BY <1>12, <1>a, <1>b, NullFacts, BoundsAssumption, CodesAssumption
         DEF Publish, Goto, Frame, FrameTypes, Outcomes
    <2>4. PoolTypes'
      <3>1. <<c, ncalls[c]>> \in Clients \X Nat
        BY <1>a DEF ClientTypes
      <3>2. request[c].workers \in 0..MaxWorkers
        BY <1>a, BoundsAssumption DEF ClientTypes, Requests
      <3>3. job' = [job EXCEPT ![held[c]] = <<c, ncalls[c]>>]
        BY <1>12 DEF Publish, Frame
      <3>4. job' \in [PoolId -> (Clients \X Nat) \cup {Null}]
        BY <3>1, <3>3, <1>a DEF PoolTypes
      <3>5. workersForJob' \in [PoolId -> 0..MaxWorkers]
        BY <3>2, <1>12, <1>a DEF Publish, PoolTypes
      <3>6. generation' \in [PoolId -> Nat]
        <4>1. generation' = [generation EXCEPT ![held[c]] = @ + 1]
          BY <1>12 DEF Publish
        <4>2. generation \in [PoolId -> Nat]
          BY <1>a DEF PoolTypes
        <4>3. ASSUME NEW p \in PoolId PROVE generation'[p] \in Nat
          <5>1. generation[p] \in Nat
            BY <4>2
          <5>2. generation'[p] = generation[p] \/ generation'[p] = generation[p] + 1
            BY <4>1, <4>2
          <5> QED
            BY <5>1, <5>2
        <4>4. generation' = [p \in PoolId |-> generation'[p]]
          BY <4>1, <4>2
        <4> QED
          BY <4>3, <4>4
      <3> QED
        BY <3>4, <3>5, <3>6, <1>12, <1>a DEF Publish, PoolTypes
    <2> QED
      BY <2>1, <2>2, <2>3, <2>4, <1>a, TypesUnchanged DEF TypeInv, TypeOK
  <1>13. CASE NotifyStart(c)
    <2>1. UNCHANGED frameVars /\ UNCHANGED holderVars /\ UNCHANGED poolVars
      BY <1>13 DEF NotifyStart
    <2>2. ClientTypes' /\ HeldOK'
      BY <1>13, <1>a, <1>b, NullFacts, BoundsAssumption, CodesAssumption
         DEF NotifyStart, Goto, WakeWorkers, ClientTypes, HeldOK, ClientLabels, Outcomes
    <2>3. WorkerTypes' /\ LocalOK'
      BY <1>13, <1>a, <1>b, NullFacts, BoundsAssumption, CodesAssumption
         DEF NotifyStart, Goto, WakeWorkers, WorkerTypes, WorkerLabels, LocalOK, Engaged, PoolTypes, ClientTypes
    <2> QED
      BY <2>1, <2>2, <2>3, <1>a, TypesUnchanged DEF TypeInv, TypeOK
  <1>14. CASE WaitDone(c)
    <2>1. UNCHANGED frameVars /\ UNCHANGED holderVars /\ UNCHANGED workerVars
      BY <1>14 DEF WaitDone
    <2>2. ClientTypes' /\ HeldOK'
      BY <1>14, <1>a, <1>b, NullFacts, BoundsAssumption, CodesAssumption
         DEF WaitDone, Goto, ClientTypes, HeldOK, ClientLabels, Outcomes
    <2>3. PoolTypes'
      BY <1>14, <1>a, <1>b, NullFacts, BoundsAssumption, CodesAssumption
         DEF WaitDone, Goto, PoolTypes, ClientTypes, Requests
    <2> QED
      BY <2>1, <2>2, <2>3, <1>a, TypesUnchanged DEF TypeInv, TypeOK
  <1>15. CASE LeaveRun(c)
    <2>1. UNCHANGED holderVars /\ UNCHANGED workerVars
      BY <1>15 DEF LeaveRun
    <2>2. ClientTypes' /\ HeldOK'
      <3>1. firstError[c] \in Outcomes
        BY <1>a DEF FrameTypes
      <3>2. ClientTypes'
        BY <1>15, <1>a, <3>1, DeliverType
           DEF LeaveRun, Goto, ClientTypes, ClientLabels
      <3>3. HeldOK'
        BY <1>15, <1>a DEF LeaveRun, Goto, ClientTypes, HeldOK
      <3> QED
        BY <3>2, <3>3
    <2>3. FrameTypes'
      BY <1>15, <1>a, <1>b, NullFacts, BoundsAssumption, CodesAssumption, DeliverType
         DEF LeaveRun, Goto, FrameTypes, Outcomes
    <2>4. PoolTypes'
      BY <1>15, <1>a, <1>b, NullFacts, BoundsAssumption, CodesAssumption, DeliverType
         DEF LeaveRun, Goto, PoolTypes, ClientTypes, Requests
    <2> QED
      BY <2>1, <2>2, <2>3, <2>4, <1>a, TypesUnchanged DEF TypeInv, TypeOK
  <1>16. CASE ReleasePool(c)
    <2>1. UNCHANGED frameVars /\ UNCHANGED holderVars /\ UNCHANGED poolVars /\ UNCHANGED workerVars
      BY <1>16 DEF ReleasePool
    <2>2. ClientTypes' /\ HeldOK'
      BY <1>16, <1>a, <1>b, NullFacts, BoundsAssumption, CodesAssumption
         DEF ReleasePool, Goto, ClientTypes, HeldOK, ClientLabels, Outcomes
    <2> QED
      BY <2>1, <2>2, <1>a, TypesUnchanged DEF TypeInv, TypeOK
  <1>17. CASE StopPool(c)
    <2>1. UNCHANGED frameVars /\ UNCHANGED holderVars /\ UNCHANGED workerVars
      BY <1>17 DEF StopPool
    <2>2. ClientTypes' /\ HeldOK'
      BY <1>17, <1>a, <1>b, NullFacts, BoundsAssumption, CodesAssumption
         DEF StopPool, Goto, ClientTypes, HeldOK, ClientLabels, Outcomes
    <2>3. PoolTypes'
      BY <1>17, <1>a, <1>b, NullFacts, BoundsAssumption, CodesAssumption
         DEF StopPool, Goto, PoolTypes, ClientTypes, Requests
    <2> QED
      BY <2>1, <2>2, <2>3, <1>a, TypesUnchanged DEF TypeInv, TypeOK
  <1>18. CASE NotifyStop(c)
    <2>1. UNCHANGED frameVars /\ UNCHANGED holderVars /\ UNCHANGED poolVars
      BY <1>18 DEF NotifyStop
    <2>2. ClientTypes' /\ HeldOK'
      BY <1>18, <1>a, <1>b, NullFacts, BoundsAssumption, CodesAssumption
         DEF NotifyStop, Goto, WakeWorkers, ClientTypes, HeldOK, ClientLabels, Outcomes
    <2>3. WorkerTypes' /\ LocalOK'
      BY <1>18, <1>a, <1>b, NullFacts, BoundsAssumption, CodesAssumption
         DEF NotifyStop, Goto, WakeWorkers, WorkerTypes, WorkerLabels, LocalOK, Engaged, PoolTypes, ClientTypes
    <2> QED
      BY <2>1, <2>2, <2>3, <1>a, TypesUnchanged DEF TypeInv, TypeOK
  <1>19. CASE JoinWorkers(c)
    <2>1. UNCHANGED frameVars /\ UNCHANGED holderVars /\ UNCHANGED poolVars /\ UNCHANGED workerVars
      BY <1>19 DEF JoinWorkers
    <2>2. ClientTypes' /\ HeldOK'
      BY <1>19, <1>a, <1>b, NullFacts, BoundsAssumption, CodesAssumption
         DEF JoinWorkers, Goto, ClientTypes, HeldOK, ClientLabels, Outcomes
    <2> QED
      BY <2>1, <2>2, <1>a, TypesUnchanged DEF TypeInv, TypeOK
  <1> QED
    BY <1>1, <1>2, <1>3, <1>4, <1>5, <1>6, <1>7, <1>8, <1>9, <1>10, <1>11, <1>12, <1>13, <1>14, <1>15, <1>16, <1>17, <1>18, <1>19 DEF ClientStep

(* Worker w of pool p belongs to a frame of a client whenever it works. *)
LEMMA OwnerType ==
  ASSUME LocalOK, NEW p \in PoolId, NEW w \in WorkerId, wpc[p][w] \in Engaged
  PROVE  Owner(p, w) \in Clients
  BY DEF LocalOK, Owner

LEMMA WorkerTypeStep ==
  ASSUME TypeInv, NEW p \in PoolId, NEW w \in WorkerId,
         SpuriousWakeWorker(p, w) \/ WorkerStep(p, w)
  PROVE  TypeInv'
  <1>a. /\ ClientTypes /\ FrameTypes /\ HolderTypes /\ PoolTypes /\ WorkerTypes
        /\ HeldOK /\ LocalOK
    BY DEF TypeInv, TypeOK
  <1>1. CASE SpuriousWakeWorker(p, w)
    <2>1. UNCHANGED clientVars /\ UNCHANGED frameVars /\ UNCHANGED holderVars /\ UNCHANGED poolVars
      BY <1>1 DEF SpuriousWakeWorker
    <2>2. WorkerTypes' /\ LocalOK'
      BY <1>1, <1>a
         DEF SpuriousWakeWorker, WGoto, WorkerTypes, WorkerLabels, LocalOK, Engaged, PoolTypes
    <2> QED
      BY <2>1, <2>2, <1>a, TypesUnchanged DEF TypeInv, TypeOK
  <1>2. CASE CheckStart(p, w)
    <2>1. UNCHANGED clientVars /\ UNCHANGED frameVars /\ UNCHANGED holderVars /\ UNCHANGED poolVars
      BY <1>2 DEF CheckStart
    <2>2. WorkerTypes' /\ LocalOK'
      <3>1. slot' = slot
        BY <1>2 DEF CheckStart
      <3>2. CASE /\ WGoto(p, w, "exited") \/ WGoto(p, w, "asleep")
                 /\ UNCHANGED <<seen, local>>
        <4>1. PICK label \in {"exited", "asleep"} : WGoto(p, w, label)
          BY <3>2
        <4>2. WorkerTypes'
          BY <3>1, <3>2, <4>1, <1>a DEF WGoto, WorkerTypes, WorkerLabels
        <4>3. LocalOK'
          BY <3>2, <4>1, <1>a DEF WGoto, WorkerTypes, LocalOK, Engaged
        <4> QED
          BY <4>2, <4>3
      <3>3. CASE /\ job[p] # Null
                 /\ seen' = [seen EXCEPT ![p][w] = generation[p]]
                 /\ local' = [local EXCEPT ![p][w] = job[p]]
                 /\ WGoto(p, w, "fetch")
        <4>1. job[p] \in Clients \X Nat /\ generation[p] \in Nat
          BY <3>3, <1>a DEF PoolTypes
        <4>2. WorkerTypes'
          BY <3>1, <3>3, <4>1, <1>a DEF WGoto, WorkerTypes, WorkerLabels
        <4>3. LocalOK'
          BY <3>3, <4>1, <1>a DEF WGoto, WorkerTypes, LocalOK
        <4> QED
          BY <4>2, <4>3
      <3> QED
        BY <1>2, <3>2, <3>3 DEF CheckStart
    <2> QED
      BY <2>1, <2>2, <1>a, TypesUnchanged DEF TypeInv, TypeOK
  <1>3. CASE FetchSlot(p, w)
    <2>1. UNCHANGED clientVars /\ UNCHANGED holderVars /\ UNCHANGED poolVars
      BY <1>3 DEF FetchSlot
    <2>2. FrameTypes'
      BY <1>3, <1>a, OwnerType, CodesAssumption
         DEF FetchSlot, WGoto, FrameTypes, Engaged
    <2>3. WorkerTypes' /\ LocalOK'
      <3>1. next[Owner(p, w)] \in Nat
        BY <1>3, <1>a, OwnerType DEF FetchSlot, FrameTypes, Engaged
      <3>2. WorkerTypes'
        BY <1>3, <1>a, <3>1 DEF FetchSlot, WGoto, WorkerTypes, WorkerLabels
      <3>3. LocalOK'
        BY <1>3, <1>a DEF FetchSlot, WGoto, WorkerTypes, LocalOK, Engaged
      <3> QED
        BY <3>2, <3>3
    <2> QED
      BY <2>1, <2>2, <2>3, <1>a, TypesUnchanged DEF TypeInv, TypeOK
  <1>4. CASE StartBoard(p, w)
    <2>1. UNCHANGED clientVars /\ UNCHANGED frameVars /\ UNCHANGED holderVars /\ UNCHANGED poolVars
      BY <1>4 DEF StartBoard
    <2>2. WorkerTypes' /\ LocalOK'
      BY <1>4, <1>a
         DEF StartBoard, WGoto, WorkerTypes, WorkerLabels, LocalOK, Engaged, PoolTypes
    <2> QED
      BY <2>1, <2>2, <1>a, TypesUnchanged DEF TypeInv, TypeOK
  <1>5. CASE StopDispatch(p, w)
    <2>1. UNCHANGED clientVars /\ UNCHANGED frameVars /\ UNCHANGED holderVars /\ UNCHANGED poolVars
      BY <1>5 DEF StopDispatch
    <2>2. WorkerTypes' /\ LocalOK'
      BY <1>5, <1>a
         DEF StopDispatch, WGoto, WorkerTypes, WorkerLabels, LocalOK, Engaged, PoolTypes
    <2> QED
      BY <2>1, <2>2, <1>a, TypesUnchanged DEF TypeInv, TypeOK
  <1>6. CASE EndBoard(p, w)
    <2>1. UNCHANGED clientVars /\ UNCHANGED holderVars /\ UNCHANGED poolVars
      BY <1>6 DEF EndBoard
    <2>2. FrameTypes'
      BY <1>6, <1>a, OwnerType, CodesAssumption
         DEF EndBoard, WGoto, FrameTypes, RecordOutcome, Outcomes, Engaged
    <2>3. WorkerTypes' /\ LocalOK'
      <3>1. wpc[p][w] = "board" /\ local' = local /\ seen' = seen
            /\ slot' = [slot EXCEPT ![p][w] = 0]
        BY <1>6 DEF EndBoard
      <3>2. PICK label \in {"fetch", "account"} : WGoto(p, w, label)
        BY <1>6 DEF EndBoard
      <3>3. WorkerTypes'
        BY <3>1, <3>2, <1>a DEF WGoto, WorkerTypes, WorkerLabels
      <3>4. LocalOK'
        BY <3>1, <3>2, <1>a DEF WGoto, WorkerTypes, LocalOK, Engaged
      <3> QED
        BY <3>3, <3>4
    <2> QED
      BY <2>1, <2>2, <2>3, <1>a, TypesUnchanged DEF TypeInv, TypeOK
  <1>7. CASE Account(p, w)
    <2>1. UNCHANGED clientVars /\ UNCHANGED holderVars /\ UNCHANGED poolVars
      BY <1>7 DEF Account
    <2>2. FrameTypes'
      BY <1>7, <1>a, OwnerType DEF Account, FrameTypes, Engaged
    <2>3. WorkerTypes' /\ LocalOK'
      BY <1>7, <1>a
         DEF Account, WGoto, WorkerTypes, WorkerLabels, LocalOK, Engaged, PoolTypes
    <2> QED
      BY <2>1, <2>2, <2>3, <1>a, TypesUnchanged DEF TypeInv, TypeOK
  <1>8. CASE SignalDone(p, w)
    <2>1. UNCHANGED frameVars /\ UNCHANGED holderVars /\ UNCHANGED poolVars
      BY <1>8 DEF SignalDone
    <2>2. ClientTypes' /\ HeldOK'
      BY <1>8, <1>a
         DEF SignalDone, WGoto, ClientTypes, HeldOK, ClientLabels, Outcomes
    <2>3. WorkerTypes' /\ LocalOK'
      BY <1>8, <1>a
         DEF SignalDone, WGoto, WorkerTypes, WorkerLabels, LocalOK, Engaged, PoolTypes
    <2> QED
      BY <2>1, <2>2, <2>3, <1>a, TypesUnchanged DEF TypeInv, TypeOK
  <1> QED
    BY <1>1, <1>2, <1>3, <1>4, <1>5, <1>6, <1>7, <1>8 DEF WorkerStep

LEMMA TypeStep == TypeInv /\ [Next]_vars => TypeInv'
  <1> SUFFICES ASSUME TypeInv, [Next]_vars PROVE TypeInv'
    OBVIOUS
  <1>1. CASE UNCHANGED vars
    BY <1>1, TypesUnchanged DEF vars, TypeInv, TypeOK
  <1>2. CASE Next
    BY <1>2, ClientTypeStep, WorkerTypeStep DEF Next
  <1> QED
    BY <1>1, <1>2

(* Every variable keeps its C++ type, whatever the clients do. *)
THEOREM TypeCorrect == Spec => []TypeOK
  <1>1. TypeInv => TypeOK
    BY DEF TypeInv
  <1> QED
    BY <1>1, TypeInit, TypeStep, PTL DEF Spec

-----------------------------------------------------------------------------
(* The strengthened invariant RunInv, part by part. *)

LEMMA RunInit == Init => RunInv
  <1> SUFFICES ASSUME Init PROVE RunInv
    OBVIOUS
  <1>1. SharesOK /\ RunMutexOK /\ JobOK
    BY NullFacts
       DEF Init, SharesOK, RunMutexOK, JobOK, Destroying, InRun, Published
  <1>2. EngagedOK
    BY DEF Init, EngagedOK, Engaged
  <1>3. CountOK
    BY DEF Init, CountOK, Published
  <1> QED
    BY <1>1, <1>2, <1>3 DEF RunInv

(* A worker's step touches no share, no lock, no pool state; at most it    *)
(* moves a client from one published program counter to another.           *)
LEMMA WorkerFrame ==
  ASSUME NEW p \in PoolId, NEW w \in WorkerId, ClientTypes,
         SpuriousWakeWorker(p, w) \/ WorkerStep(p, w)
  PROVE  /\ UNCHANGED <<held, ncalls, request, holderVars, poolVars>>
         /\ \A c \in Clients :
              \/ pc'[c] = pc[c]
              \/ pc[c] = "asleep" /\ pc'[c] = "wait"
  BY DEF SpuriousWakeWorker, WorkerStep, CheckStart, FetchSlot, StartBoard,
         StopDispatch, EndBoard, Account, SignalDone, clientVars, ClientTypes

LEMMA WorkerKeepsClients ==
  ASSUME NEW p \in PoolId, NEW w \in WorkerId, ClientTypes,
         SharesOK, RunMutexOK, JobOK,
         SpuriousWakeWorker(p, w) \/ WorkerStep(p, w)
  PROVE  SharesOK' /\ RunMutexOK' /\ JobOK'
  <1>1. SharesOK'
    BY WorkerFrame DEF SharesOK, Destroying, holderVars
  <1>2. RunMutexOK'
    BY WorkerFrame DEF RunMutexOK, InRun, Published, poolVars
  <1>3. JobOK'
    <2>1. /\ job' = job /\ workersForJob' = workersForJob
          /\ held' = held /\ ncalls' = ncalls /\ request' = request
      BY WorkerFrame DEF poolVars
    <2>2. \A d \in Clients : pc'[d] \in Published <=> pc[d] \in Published
      BY WorkerFrame DEF Published
    <2> QED
      BY <2>1, <2>2, Zenon DEF JobOK, Frame
  <1> QED
    BY <1>1, <1>2, <1>3

LEMMA SharesStep ==
  ASSUME TypeInv, RunInv, NEW c \in Clients,
         CallEmpty(c) \/ Call(c) \/ Shutdown(c) \/ SpuriousWakeClient(c)
           \/ ClientStep(c)
  PROVE  SharesOK'
  <1>a. ClientTypes /\ HolderTypes /\ HeldOK /\ SharesOK
    BY DEF TypeInv, TypeOK, RunInv
  <1> USE DEF SharesOK, Destroying, ClientTypes, Goto, holderVars
  <1>1. CASE \/ CallEmpty(c) \/ Call(c) \/ SpuriousWakeClient(c)
             \/ InlineStart(c) \/ InlineEnd(c) \/ InlineReturn(c)
    BY <1>1, <1>a DEF CallEmpty, Call, SpuriousWakeClient, InlineStart,
                      InlineEnd, InlineReturn
  <1>2. CASE \/ LockRun(c) \/ EnsureWorkers(c) \/ SpawnFails(c) \/ Publish(c)
             \/ NotifyStart(c) \/ WaitDone(c) \/ LeaveRun(c)
    BY <1>2, <1>a DEF LockRun, EnsureWorkers, SpawnFails, Publish, NotifyStart,
                      WaitDone, LeaveRun
  <1>3. CASE Shutdown(c)
    BY <1>3, <1>a, NullFacts DEF Shutdown, HeldOK
  <1>4. CASE Acquire(c)
    BY <1>4, <1>a, NullFacts DEF Acquire, HolderTypes, PoolId, HeldOK
  <1>5. CASE ReleasePool(c)
    BY <1>5, <1>a, NullFacts DEF ReleasePool, OthersHold, HeldOK
  <1>6. CASE StopPool(c) \/ NotifyStop(c)
    BY <1>6, <1>a DEF StopPool, NotifyStop
  <1>7. CASE JoinWorkers(c)
    BY <1>7, <1>a, NullFacts DEF JoinWorkers, HeldOK
  <1> QED
    BY <1>1, <1>2, <1>3, <1>4, <1>5, <1>6, <1>7 DEF ClientStep

LEMMA RunMutexStep ==
  ASSUME TypeInv, RunInv, NEW c \in Clients,
         CallEmpty(c) \/ Call(c) \/ Shutdown(c) \/ SpuriousWakeClient(c)
           \/ ClientStep(c)
  PROVE  RunMutexOK'
  <1>a. ClientTypes /\ PoolTypes /\ HeldOK /\ RunMutexOK
    BY DEF TypeInv, TypeOK, RunInv
  <1> USE DEF RunMutexOK, InRun, Published, ClientTypes, Goto, poolVars
  <1>1. CASE \/ CallEmpty(c) \/ Call(c) \/ Shutdown(c) \/ InlineStart(c)
             \/ InlineEnd(c) \/ InlineReturn(c)
    BY <1>1, <1>a DEF CallEmpty, Call, Shutdown, InlineStart, InlineEnd,
                      InlineReturn
  <1>2. CASE Acquire(c)
    BY <1>2, <1>a DEF Acquire
  <1>3. CASE LockRun(c)
    BY <1>3, <1>a, NullFacts DEF LockRun, PoolTypes, HeldOK
  <1>4. CASE \/ EnsureWorkers(c) \/ Publish(c) \/ NotifyStart(c)
             \/ SpuriousWakeClient(c) \/ WaitDone(c)
    BY <1>4, <1>a DEF EnsureWorkers, Publish, NotifyStart, SpuriousWakeClient,
                      WaitDone
  <1>5. CASE SpawnFails(c)
    BY <1>5, <1>a DEF SpawnFails
  <1>6. CASE LeaveRun(c)
    BY <1>6, <1>a DEF LeaveRun
  <1>7. CASE \/ ReleasePool(c) \/ StopPool(c) \/ NotifyStop(c) \/ JoinWorkers(c)
    BY <1>7, <1>a DEF ReleasePool, StopPool, NotifyStop, JoinWorkers
  <1> QED
    BY <1>1, <1>2, <1>3, <1>4, <1>5, <1>6, <1>7 DEF ClientStep

(* Two clients inside run() of the same pool are the same client. *)
LEMMA OneRun ==
  ASSUME RunMutexOK, NEW c \in Clients, NEW d \in Clients,
         pc[c] \in InRun, pc[d] \in InRun, held[c] = held[d]
  PROVE  c = d
  BY DEF RunMutexOK

LEMMA JobStep ==
  ASSUME TypeInv, RunInv, NEW c \in Clients,
         CallEmpty(c) \/ Call(c) \/ Shutdown(c) \/ SpuriousWakeClient(c)
           \/ ClientStep(c)
  PROVE  JobOK'
  <1>a. ClientTypes /\ PoolTypes /\ HeldOK /\ SharesOK /\ RunMutexOK /\ JobOK
    BY DEF TypeInv, TypeOK, RunInv
  <1> USE DEF JobOK, Published, Frame, ClientTypes, Goto, poolVars
  <1>1. CASE \/ CallEmpty(c) \/ Call(c) \/ Shutdown(c) \/ InlineStart(c)
             \/ InlineEnd(c) \/ InlineReturn(c)
    BY <1>1, <1>a DEF CallEmpty, Call, Shutdown, InlineStart, InlineEnd,
                      InlineReturn, Deliver
  <1>2. CASE Acquire(c) \/ LockRun(c) \/ EnsureWorkers(c)
    BY <1>2, <1>a DEF Acquire, LockRun, EnsureWorkers
  <1>3. CASE SpawnFails(c)
    BY <1>3, <1>a DEF SpawnFails, Deliver
  <1>4. CASE Publish(c)
    BY <1>4, <1>a DEF Publish, PoolTypes, HeldOK, RunMutexOK, InRun
  <1>5. CASE NotifyStart(c) \/ SpuriousWakeClient(c)
    BY <1>5, <1>a DEF NotifyStart, SpuriousWakeClient, clientVars
  <1>6. CASE WaitDone(c)
    <2>1. CASE finished[c] >= request[c].workers
      <3>1. /\ job' = [job EXCEPT ![held[c]] = Null]
            /\ pc' = [pc EXCEPT ![c] = "leave"]
            /\ UNCHANGED <<held, ncalls, request, workersForJob>>
        BY <1>6, <2>1 DEF WaitDone
      <3>2. \A d \in Clients \ {c} : pc[d] \in Published => held[d] # held[c]
        BY <1>6, <1>a, OneRun DEF WaitDone, InRun
      <3> QED
        BY <3>1, <3>2, <1>a DEF PoolTypes
    <2>2. CASE ~(finished[c] >= request[c].workers)
      BY <1>6, <2>2, <1>a DEF WaitDone
    <2> QED
      BY <2>1, <2>2
  <1>7. CASE LeaveRun(c)
    BY <1>7, <1>a DEF LeaveRun, Deliver
  <1>8. CASE StopPool(c)
    <2>1. /\ job' = [job EXCEPT ![held[c]] = Null]
          /\ workersForJob' = [workersForJob EXCEPT ![held[c]] = 0]
          /\ pc' = [pc EXCEPT ![c] = "notifyStop"] /\ pc[c] = "stop"
          /\ UNCHANGED <<held, ncalls, request>>
      BY <1>8 DEF StopPool
    <2>2. \A d \in Clients \ {c} : held[d] # held[c]
      BY <2>1, <1>a DEF SharesOK, Destroying
    <2> QED
      BY <2>1, <2>2, <1>a DEF PoolTypes
  <1>9. CASE ReleasePool(c) \/ NotifyStop(c) \/ JoinWorkers(c)
    BY <1>9, <1>a DEF ReleasePool, NotifyStop, JoinWorkers
  <1> QED
    BY <1>1, <1>2, <1>3, <1>4, <1>5, <1>6, <1>7, <1>8, <1>9 DEF ClientStep

(* A client that is not inside run() has no say in what working workers    *)
(* refer to, and neither has a step that changes no worker.                *)
LEMMA EngagedFrame ==
  ASSUME EngagedOK,
         \A p \in PoolId, w \in WorkerId :
           /\ seen'[p][w] = seen[p][w] /\ local'[p][w] = local[p][w]
           /\ wpc'[p][w] \in Engaged => wpc[p][w] \in Engaged,
         UNCHANGED generation,
         \A d \in Clients : pc[d] \in Published =>
           /\ pc'[d] \in Published
           /\ held'[d] = held[d] /\ Frame(d)' = Frame(d)
           /\ request'[d] = request[d]
  PROVE  EngagedOK'
  <1> SUFFICES ASSUME NEW p \in PoolId, NEW w \in WorkerId
               PROVE  /\ seen'[p][w] <= generation'[p]
                      /\ wpc'[p][w] \in Engaged =>
                           /\ seen'[p][w] = generation'[p]
                           /\ \E c \in Clients : /\ local'[p][w] = Frame(c)'
                                                 /\ held'[c] = p
                                                 /\ pc'[c] \in Published
                                                 /\ w < request'[c].workers
    BY DEF EngagedOK
  <1>1. seen'[p][w] <= generation'[p]
    BY DEF EngagedOK
  <1>2. ASSUME wpc'[p][w] \in Engaged
        PROVE  /\ seen'[p][w] = generation'[p]
               /\ \E c \in Clients : /\ local'[p][w] = Frame(c)'
                                     /\ held'[c] = p
                                     /\ pc'[c] \in Published
                                     /\ w < request'[c].workers
    BY <1>2 DEF EngagedOK
  <1> QED
    BY <1>1, <1>2

(* When run() sees finished reach its worker count, every worker of the    *)
(* prefix is accounted for: it took part, and it works no more.            *)
LEMMA AllAccounted ==
  ASSUME ClientTypes, CountOK, NEW c \in Clients, pc[c] \in Published,
         finished[c] >= request[c].workers
  PROVE  \A w \in 0..(request[c].workers - 1) :
           seen[held[c]][w] = generation[held[c]] /\ wpc[held[c]][w] \notin Engaged
  <1> DEFINE n == request[c].workers
             S == 0..(n - 1)
             T == Accounted(c)
  <1>1. n \in Nat \ {0} /\ n - 1 \in Int /\ 0 \in Int
    BY BoundsAssumption DEF ClientTypes, Requests
  <1>2. T \in SUBSET S
    BY DEF Accounted
  <1>3. Cardinality(T) >= n
    BY DEF CountOK
  <1> HIDE DEF n, T
  <1>4. IsFiniteSet(S) /\ Cardinality(S) = n
    BY <1>1, FS_Interval
  <1> HIDE DEF S
  <1>5. IsFiniteSet(T) /\ Cardinality(T) <= n
    BY <1>2, <1>4, FS_Subset
  <1>6. Cardinality(T) \in Nat
    BY <1>5, FS_CardinalityType
  <1>7. Cardinality(T) = n
    BY <1>1, <1>3, <1>5, <1>6
  <1>8. S = T
    BY <1>2, <1>4, <1>7, FS_Subset
  <1> QED
    BY <1>8 DEF S, T, n, Accounted

LEMMA EngagedClientStep ==
  ASSUME TypeInv, RunInv, NEW c \in Clients,
         CallEmpty(c) \/ Call(c) \/ Shutdown(c) \/ SpuriousWakeClient(c)
           \/ ClientStep(c)
  PROVE  EngagedOK'
  <1>a. ClientTypes /\ PoolTypes /\ WorkerTypes /\ HeldOK
    BY DEF TypeInv, TypeOK
  <1>b. SharesOK /\ RunMutexOK /\ JobOK /\ EngagedOK /\ CountOK
    BY DEF RunInv
  <1> USE DEF Published, ClientTypes, Goto, Frame, workerVars, poolVars
  <1>1. CASE \/ CallEmpty(c) \/ Call(c) \/ Shutdown(c) \/ InlineStart(c)
             \/ InlineEnd(c) \/ InlineReturn(c)
    BY <1>1, <1>a, <1>b, EngagedFrame
       DEF CallEmpty, Call, Shutdown, InlineStart, InlineEnd, InlineReturn,
           Deliver
  <1>2. CASE \/ Acquire(c) \/ LockRun(c) \/ LeaveRun(c) \/ ReleasePool(c)
             \/ JoinWorkers(c)
    BY <1>2, <1>a, <1>b, EngagedFrame
       DEF Acquire, LockRun, LeaveRun, ReleasePool, JoinWorkers, Deliver
  <1>3. CASE EnsureWorkers(c) \/ SpawnFails(c)
    <2>1. \E n : Grow(held[c], n)
      BY <1>3 DEF EnsureWorkers, SpawnFails
    <2>2. \A p \in PoolId, w \in WorkerId :
            wpc'[p][w] \in Engaged => wpc[p][w] \in Engaged
      BY <2>1, <1>a DEF Grow, WorkerTypes, Engaged
    <2> QED
      BY <1>3, <2>2, <1>a, <1>b, EngagedFrame
         DEF EnsureWorkers, SpawnFails, Deliver
  <1>4. CASE NotifyStart(c) \/ NotifyStop(c)
    <2>1. WakeWorkers(held[c])
      BY <1>4 DEF NotifyStart, NotifyStop
    <2>2. \A p \in PoolId, w \in WorkerId :
            wpc'[p][w] \in Engaged => wpc[p][w] \in Engaged
      BY <2>1, <1>a DEF WakeWorkers, WorkerTypes, Engaged
    <2> QED
      BY <1>4, <2>2, <1>a, <1>b, EngagedFrame DEF NotifyStart, NotifyStop
  <1>5. CASE SpuriousWakeClient(c)
    BY <1>5, <1>a, <1>b, EngagedFrame DEF SpuriousWakeClient
  <1>6. CASE Publish(c)
    <2>1. held[c] \in PoolId
      BY <1>6, <1>a DEF Publish, HeldOK
    <2>2. \A w \in WorkerId : wpc[held[c]][w] \notin Engaged
      <3> SUFFICES ASSUME NEW w \in WorkerId, wpc[held[c]][w] \in Engaged
                   PROVE  FALSE
        OBVIOUS
      <3>1. PICK d \in Clients : held[d] = held[c] /\ pc[d] \in Published
        BY <2>1, <1>b DEF EngagedOK
      <3> QED
        BY <3>1, <1>6, <1>b, OneRun DEF Publish, InRun
    <2>3. /\ generation' = [generation EXCEPT ![held[c]] = @ + 1]
          /\ pc' = [pc EXCEPT ![c] = "notify"] /\ pc[c] = "publish"
          /\ wpc' = wpc /\ seen' = seen /\ local' = local
          /\ held' = held /\ ncalls' = ncalls /\ request' = request
      BY <1>6 DEF Publish
    <2> SUFFICES ASSUME NEW p \in PoolId, NEW w \in WorkerId
                 PROVE  /\ seen[p][w] <= generation'[p]
                        /\ wpc[p][w] \in Engaged =>
                             /\ seen[p][w] = generation'[p]
                             /\ \E d \in Clients : /\ local[p][w] = Frame(d)
                                                   /\ held[d] = p
                                                   /\ pc'[d] \in Published
                                                   /\ w < request[d].workers
      BY <2>3 DEF EngagedOK
    <2>4. seen[p][w] <= generation'[p]
      BY <2>3, <1>a, <1>b DEF EngagedOK, PoolTypes, WorkerTypes
    <2>5. CASE p = held[c]
      BY <2>2, <2>4, <2>5
    <2>6. CASE p # held[c]
      BY <2>3, <2>6, <1>a, <1>b DEF EngagedOK, PoolTypes
    <2> QED
      BY <2>5, <2>6
  <1>7. CASE WaitDone(c)
    <2>1. CASE ~(finished[c] >= request[c].workers)
      BY <1>7, <2>1, <1>a, <1>b, EngagedFrame DEF WaitDone
    <2>2. CASE finished[c] >= request[c].workers
      <3>1. \A w \in 0..(request[c].workers - 1) : wpc[held[c]][w] \notin Engaged
        BY <1>7, <2>2, <1>a, <1>b, AllAccounted DEF WaitDone
      <3>2. /\ pc' = [pc EXCEPT ![c] = "leave"] /\ pc[c] = "wait"
            /\ wpc' = wpc /\ seen' = seen /\ local' = local
            /\ held' = held /\ ncalls' = ncalls /\ request' = request
            /\ generation' = generation
        BY <1>7, <2>2 DEF WaitDone
      <3> SUFFICES ASSUME NEW p \in PoolId, NEW w \in WorkerId,
                          wpc[p][w] \in Engaged
                   PROVE  \E d \in Clients : /\ local[p][w] = Frame(d)
                                             /\ held[d] = p
                                             /\ pc'[d] \in Published
                                             /\ w < request[d].workers
        BY <3>2, <1>b DEF EngagedOK
      <3>3. PICK d \in Clients : /\ local[p][w] = Frame(d)
                                /\ held[d] = p
                                /\ pc[d] \in Published
                                /\ w < request[d].workers
        BY <1>b DEF EngagedOK
      <3>4. d # c
        BY <3>1, <3>3, <1>a DEF Requests, WorkerId
      <3> QED
        BY <3>2, <3>3, <3>4
    <2> QED
      BY <2>1, <2>2
  <1>8. CASE StopPool(c)
    <2>1. /\ held[c] \in PoolId
          /\ \A d \in Clients \ {c} : held[d] # held[c]
      BY <1>8, <1>a, <1>b DEF StopPool, HeldOK, SharesOK, Destroying
    <2>2. /\ generation' = [generation EXCEPT ![held[c]] = @ + 1]
          /\ pc' = [pc EXCEPT ![c] = "notifyStop"] /\ pc[c] = "stop"
          /\ wpc' = wpc /\ seen' = seen /\ local' = local
          /\ held' = held /\ ncalls' = ncalls /\ request' = request
      BY <1>8 DEF StopPool
    <2> SUFFICES ASSUME NEW p \in PoolId, NEW w \in WorkerId
                 PROVE  /\ seen[p][w] <= generation'[p]
                        /\ wpc[p][w] \in Engaged =>
                             /\ seen[p][w] = generation'[p]
                             /\ \E d \in Clients : /\ local[p][w] = Frame(d)
                                                   /\ held[d] = p
                                                   /\ pc'[d] \in Published
                                                   /\ w < request[d].workers
      BY <2>2 DEF EngagedOK
    <2>3. seen[p][w] <= generation'[p]
      BY <2>2, <1>a, <1>b DEF EngagedOK, PoolTypes, WorkerTypes
    <2>4. CASE p = held[c]
      BY <2>1, <2>2, <2>3, <2>4, <1>b DEF EngagedOK
    <2>5. CASE p # held[c]
      BY <2>2, <2>5, <1>a, <1>b DEF EngagedOK, PoolTypes
    <2> QED
      BY <2>4, <2>5
  <1> QED
    BY <1>1, <1>2, <1>3, <1>4, <1>5, <1>6, <1>7, <1>8 DEF ClientStep

LEMMA EngagedWorkerStep ==
  ASSUME TypeInv, RunInv, NEW p \in PoolId, NEW w \in WorkerId,
         SpuriousWakeWorker(p, w) \/ WorkerStep(p, w)
  PROVE  EngagedOK'
  <1>a. ClientTypes /\ PoolTypes /\ WorkerTypes
    BY DEF TypeInv, TypeOK
  <1>b. JobOK /\ EngagedOK
    BY DEF RunInv
  <1>c. /\ held' = held /\ ncalls' = ncalls /\ request' = request
        /\ generation' = generation
        /\ \A d \in Clients : pc[d] \in Published => pc'[d] \in Published
    BY <1>a, WorkerFrame DEF poolVars, Published
  <1>1. CASE \/ SpuriousWakeWorker(p, w) \/ FetchSlot(p, w) \/ StartBoard(p, w)
             \/ StopDispatch(p, w) \/ EndBoard(p, w) \/ SignalDone(p, w)
    <2>1. /\ seen' = seen /\ local' = local
          /\ \E label : WGoto(p, w, label) /\ (label \in Engaged => wpc[p][w] \in Engaged)
      BY <1>1 DEF SpuriousWakeWorker, FetchSlot, StartBoard, StopDispatch,
                  EndBoard, SignalDone, Engaged
    <2>2. \A q \in PoolId, v \in WorkerId :
            wpc'[q][v] \in Engaged => wpc[q][v] \in Engaged
      BY <2>1, <1>a DEF WGoto, WorkerTypes
    <2> QED
      BY <2>1, <2>2, <1>b, <1>c, EngagedFrame DEF Frame
  <1>2. CASE Account(p, w)
    <2>1. /\ seen' = seen /\ local' = [local EXCEPT ![p][w] = Null]
          /\ \E label : WGoto(p, w, label) /\ label \notin Engaged
      BY <1>2 DEF Account, Engaged
    <2>2. wpc'[p][w] \notin Engaged
      BY <2>1, <1>a DEF WGoto, WorkerTypes
    <2>3. \A q \in PoolId, v \in WorkerId :
            <<q, v>> # <<p, w>> => /\ wpc'[q][v] = wpc[q][v]
                                   /\ local'[q][v] = local[q][v]
      BY <2>1, <1>a DEF WGoto, WorkerTypes
    <2> QED
      BY <2>1, <2>2, <2>3, <1>b, <1>c DEF EngagedOK, Frame
  <1>3. CASE CheckStart(p, w)
    <2>1. CASE UNCHANGED <<seen, local>>
      <3>1. \E label : WGoto(p, w, label) /\ label \notin Engaged
        <4>1. CASE WGoto(p, w, "exited") \/ WGoto(p, w, "asleep")
          BY <4>1 DEF Engaged
        <4>2. CASE /\ job[p] # Null /\ generation[p] # seen[p][w]
                   /\ seen' = [seen EXCEPT ![p][w] = generation[p]]
          BY <4>2, <2>1, <1>a DEF WorkerTypes
        <4> QED
          BY <1>3, <4>1, <4>2 DEF CheckStart
      <3>2. \A q \in PoolId, v \in WorkerId :
              wpc'[q][v] \in Engaged => wpc[q][v] \in Engaged
        BY <3>1, <1>a DEF WGoto, WorkerTypes
      <3> QED
        BY <2>1, <3>2, <1>b, <1>c, EngagedFrame DEF Frame
    <2>2. CASE /\ job[p] # Null /\ w < workersForJob[p]
               /\ seen' = [seen EXCEPT ![p][w] = generation[p]]
               /\ local' = [local EXCEPT ![p][w] = job[p]]
               /\ WGoto(p, w, "fetch")
      <3>1. PICK d \in Clients : /\ job[p] = Frame(d) /\ held[d] = p
                                /\ pc[d] \in Published
                                /\ w < request[d].workers
        BY <2>2, <1>b DEF JobOK
      <3>2. /\ seen'[p][w] = generation[p] /\ local'[p][w] = Frame(d)
            /\ \A q \in PoolId, v \in WorkerId :
                 <<q, v>> # <<p, w>> => /\ wpc'[q][v] = wpc[q][v]
                                        /\ local'[q][v] = local[q][v]
                                        /\ seen'[q][v] = seen[q][v]
        BY <2>2, <3>1, <1>a DEF WGoto, WorkerTypes
      <3>3. generation[p] \in Nat
        BY <1>a DEF PoolTypes
      <3> QED
        BY <3>1, <3>2, <3>3, <1>b, <1>c DEF EngagedOK, Frame
    <2> QED
      BY <1>3, <2>1, <2>2 DEF CheckStart
  <1> QED
    BY <1>1, <1>2, <1>3 DEF WorkerStep

-----------------------------------------------------------------------------
(* The count of finished workers. *)

(* CountOK survives a step that publishes nothing and changes neither the  *)
(* count nor the accounted workers of a published run.                     *)
LEMMA CountFrame ==
  ASSUME CountOK,
         \A d \in Clients : pc'[d] \in Published =>
           /\ pc[d] \in Published
           /\ finished'[d] = finished[d]
           /\ Accounted(d)' = Accounted(d)
  PROVE  CountOK'
  BY Zenon DEF CountOK

(* Who is accounted for depends on seen, generation and on being engaged. *)
LEMMA AccountedSame ==
  ASSUME NEW d \in Clients, ClientTypes,
         held'[d] = held[d], request'[d] = request[d],
         \A v \in WorkerId :
           (seen'[held[d]][v] = generation'[held[d]]
              /\ wpc'[held[d]][v] \notin Engaged)
           <=> (seen[held[d]][v] = generation[held[d]]
                  /\ wpc[held[d]][v] \notin Engaged)
  PROVE  Accounted(d)' = Accounted(d)
  <1>1. 0..(request[d].workers - 1) \subseteq WorkerId
    BY BoundsAssumption DEF ClientTypes, Requests, WorkerId
  <1> QED
    BY <1>1 DEF Accounted

LEMMA CountClientStep ==
  ASSUME TypeInv, RunInv, NEW c \in Clients,
         CallEmpty(c) \/ Call(c) \/ Shutdown(c) \/ SpuriousWakeClient(c)
           \/ ClientStep(c)
  PROVE  CountOK'
  <1>a. ClientTypes /\ PoolTypes /\ WorkerTypes /\ HeldOK /\ FrameTypes
    BY DEF TypeInv, TypeOK
  <1>b. SharesOK /\ RunMutexOK /\ JobOK /\ EngagedOK /\ CountOK
    BY DEF RunInv
  <1> USE DEF Published, ClientTypes, Goto, workerVars, poolVars, frameVars
  <1>1. CASE \/ CallEmpty(c) \/ Call(c) \/ Shutdown(c) \/ InlineStart(c)
             \/ InlineEnd(c) \/ InlineReturn(c) \/ Acquire(c) \/ LockRun(c)
             \/ LeaveRun(c) \/ ReleasePool(c) \/ JoinWorkers(c)
             \/ SpuriousWakeClient(c) \/ WaitDone(c)
    <2>1. /\ UNCHANGED <<wpc, seen, generation>>
          /\ \A d \in Clients : pc'[d] \in Published =>
               /\ pc[d] \in Published /\ finished'[d] = finished[d]
               /\ held'[d] = held[d] /\ request'[d] = request[d]
      BY <1>1, <1>a
         DEF CallEmpty, Call, Shutdown, InlineStart, InlineEnd, InlineReturn,
             Acquire, LockRun, LeaveRun, ReleasePool, JoinWorkers,
             SpuriousWakeClient, WaitDone, Deliver, FrameTypes, clientVars
    <2> QED
      BY <2>1, <1>a, <1>b, CountFrame, AccountedSame
  <1>2. CASE EnsureWorkers(c) \/ SpawnFails(c)
    <2>1. /\ \E n : Grow(held[c], n)
          /\ UNCHANGED <<seen, generation>>
      BY <1>2 DEF EnsureWorkers, SpawnFails
    <2>2. \A d \in Clients : pc'[d] \in Published =>
            /\ pc[d] \in Published /\ finished'[d] = finished[d]
            /\ held'[d] = held[d] /\ request'[d] = request[d]
            /\ d # c
      BY <1>2, <1>a DEF EnsureWorkers, SpawnFails, Deliver, FrameTypes
    <2>3. \A d \in Clients : pc[d] \in Published => held[d] # held[c]
      BY <1>2, <1>b, OneRun DEF EnsureWorkers, SpawnFails, InRun
    <2>4. \A d \in Clients : pc[d] \in Published =>
            \A w \in WorkerId : wpc'[held[d]][w] = wpc[held[d]][w]
      BY <2>1, <2>3, <1>a DEF Grow, WorkerTypes, HeldOK
    <2> QED
      BY <2>1, <2>2, <2>4, <1>a, <1>b, CountFrame, AccountedSame
  <1>3. CASE NotifyStart(c) \/ NotifyStop(c)
    <2>1. /\ WakeWorkers(held[c]) /\ UNCHANGED <<seen, generation>>
          /\ \A d \in Clients : pc'[d] \in Published =>
               /\ pc[d] \in Published /\ finished'[d] = finished[d]
               /\ held'[d] = held[d] /\ request'[d] = request[d]
      BY <1>3, <1>a DEF NotifyStart, NotifyStop
    <2>2. \A p \in PoolId, w \in WorkerId :
            wpc'[p][w] \in Engaged <=> wpc[p][w] \in Engaged
      BY <2>1, <1>a DEF WakeWorkers, WorkerTypes, Engaged
    <2>3. \A d \in Clients : pc[d] \in Published => held[d] \in PoolId
      BY <1>a DEF HeldOK
    <2> QED
      BY <2>1, <2>2, <2>3, <1>a, <1>b, CountFrame, AccountedSame
  <1>4. CASE Publish(c)
    <2>1. /\ generation' = [generation EXCEPT ![held[c]] = @ + 1]
          /\ finished' = [finished EXCEPT ![c] = 0]
          /\ pc' = [pc EXCEPT ![c] = "notify"] /\ pc[c] = "publish"
          /\ wpc' = wpc /\ seen' = seen
          /\ held' = held /\ request' = request
      BY <1>4 DEF Publish
    <2>2. held[c] \in PoolId
      BY <2>1, <1>a DEF HeldOK
    <2>3. Accounted(c)' = {}
      <3>1. \A w \in WorkerId : seen[held[c]][w] # generation'[held[c]]
        BY <2>1, <2>2, <1>a, <1>b DEF EngagedOK, PoolTypes, WorkerTypes
      <3>2. 0..(request[c].workers - 1) \subseteq WorkerId
        BY <1>a, BoundsAssumption DEF Requests, WorkerId
      <3> QED
        BY <2>1, <3>1, <3>2 DEF Accounted
    <2>4. finished'[c] = Cardinality(Accounted(c)')
      BY <2>1, <2>3, <1>a, FS_EmptySet DEF FrameTypes
    <2>5. \A d \in Clients \ {c} : pc[d] \in Published =>
            /\ held[d] # held[c] /\ held[d] \in PoolId
      BY <2>1, <1>a, <1>b, OneRun DEF InRun, HeldOK
    <2>6. \A d \in Clients \ {c} : pc'[d] \in Published =>
            /\ pc[d] \in Published /\ finished'[d] = finished[d]
            /\ generation'[held[d]] = generation[held[d]]
      BY <2>1, <2>5, <1>a DEF PoolTypes, FrameTypes
    <2>7. \A d \in Clients \ {c} : pc'[d] \in Published =>
            Accounted(d)' = Accounted(d)
      BY <2>1, <2>6, <1>a, AccountedSame
    <2> QED
      BY <2>4, <2>6, <2>7, <1>b DEF CountOK
  <1>5. CASE StopPool(c)
    <2>1. /\ generation' = [generation EXCEPT ![held[c]] = @ + 1]
          /\ pc' = [pc EXCEPT ![c] = "notifyStop"] /\ pc[c] = "stop"
          /\ wpc' = wpc /\ seen' = seen /\ finished' = finished
          /\ held' = held /\ request' = request
      BY <1>5 DEF StopPool
    <2>2. \A d \in Clients : pc'[d] \in Published =>
            /\ pc[d] \in Published /\ held[d] # held[c] /\ held[d] \in PoolId
      BY <2>1, <1>a, <1>b DEF SharesOK, Destroying, HeldOK
    <2>3. \A d \in Clients : pc'[d] \in Published =>
            generation'[held[d]] = generation[held[d]]
      BY <2>1, <2>2, <1>a DEF PoolTypes
    <2> QED
      BY <2>1, <2>2, <2>3, <1>a, <1>b, CountFrame, AccountedSame
  <1> QED
    BY <1>1, <1>2, <1>3, <1>4, <1>5 DEF ClientStep

LEMMA CountWorkerStep ==
  ASSUME TypeInv, RunInv, NEW p \in PoolId, NEW w \in WorkerId,
         SpuriousWakeWorker(p, w) \/ WorkerStep(p, w)
  PROVE  CountOK'
  <1>a. ClientTypes /\ PoolTypes /\ WorkerTypes /\ HeldOK /\ FrameTypes
    BY DEF TypeInv, TypeOK
  <1>b. RunMutexOK /\ EngagedOK /\ CountOK
    BY DEF RunInv
  <1>c. /\ held' = held /\ ncalls' = ncalls /\ request' = request
        /\ generation' = generation
        /\ \A d \in Clients : pc'[d] \in Published <=> pc[d] \in Published
    BY <1>a, WorkerFrame DEF poolVars, Published
  <1>d. \A d \in Clients : pc[d] \in Published => held[d] \in PoolId
    BY <1>a DEF HeldOK, Published, ClientTypes
  <1>1. CASE \/ SpuriousWakeWorker(p, w) \/ FetchSlot(p, w) \/ StartBoard(p, w)
             \/ StopDispatch(p, w) \/ EndBoard(p, w) \/ SignalDone(p, w)
    <2>1. /\ seen' = seen /\ finished' = finished
          /\ \E label : WGoto(p, w, label)
                        /\ (label \in Engaged <=> wpc[p][w] \in Engaged)
      BY <1>1 DEF SpuriousWakeWorker, FetchSlot, StartBoard, StopDispatch,
                  EndBoard, SignalDone, Engaged, frameVars
    <2>2. \A q \in PoolId, v \in WorkerId :
            wpc'[q][v] \in Engaged <=> wpc[q][v] \in Engaged
      BY <2>1, <1>a DEF WGoto, WorkerTypes
    <2> QED
      BY <2>1, <2>2, <1>a, <1>b, <1>c, <1>d, CountFrame, AccountedSame
  <1>2. CASE CheckStart(p, w)
    <2>1. \A q \in PoolId, v \in WorkerId :
            (seen'[q][v] = generation[q] /\ wpc'[q][v] \notin Engaged)
              <=> (seen[q][v] = generation[q] /\ wpc[q][v] \notin Engaged)
      <3>1. wpc[p][w] \notin Engaged
        BY <1>2 DEF CheckStart, Engaged
      <3>2. CASE /\ UNCHANGED seen
                 /\ WGoto(p, w, "exited") \/ WGoto(p, w, "asleep")
        <4>1. PICK label \in {"exited", "asleep"} : WGoto(p, w, label)
          BY <3>2
        <4> QED
          BY <3>1, <3>2, <4>1, <1>a DEF WGoto, WorkerTypes, Engaged
      <3>3. CASE /\ generation[p] # seen[p][w]
                 /\ seen' = [seen EXCEPT ![p][w] = generation[p]]
                 /\ WGoto(p, w, "fetch")
        BY <3>1, <3>3, <1>a DEF WGoto, WorkerTypes, Engaged
      <3> QED
        BY <1>2, <3>2, <3>3 DEF CheckStart
    <2>2. finished' = finished
      BY <1>2 DEF CheckStart, frameVars
    <2> QED
      BY <2>1, <2>2, <1>a, <1>b, <1>c, <1>d, CountFrame, AccountedSame
  <1>3. CASE Account(p, w)
    <2>1. PICK c \in Clients : /\ local[p][w] = Frame(c) /\ held[c] = p
                              /\ pc[c] \in Published
                              /\ w < request[c].workers
                              /\ seen[p][w] = generation[p]
      BY <1>3, <1>b DEF EngagedOK, Account, Engaged
    <2>2. Owner(p, w) = c
      BY <2>1 DEF Owner, Frame
    <2>3. /\ finished' = [finished EXCEPT ![c] = @ + 1]
          /\ seen' = seen /\ wpc[p][w] \in Engaged
          /\ \E label : WGoto(p, w, label) /\ label \notin Engaged
      BY <1>3, <2>2 DEF Account, Engaged
    <2>4. wpc'[p][w] \notin Engaged
      BY <2>3, <1>a DEF WGoto, WorkerTypes
    <2>5. \A q \in PoolId, v \in WorkerId :
            <<q, v>> # <<p, w>> => wpc'[q][v] = wpc[q][v]
      BY <2>3, <1>a DEF WGoto, WorkerTypes
    <2>6. 0..(request[c].workers - 1) \subseteq WorkerId
      BY <1>a, BoundsAssumption DEF ClientTypes, Requests, WorkerId
    <2>7. Accounted(c)' = Accounted(c) \union {w} /\ w \notin Accounted(c)
      <3>1. Accounted(c)' = {v \in 0..(request[c].workers - 1) :
                                seen[p][v] = generation[p]
                                  /\ wpc'[p][v] \notin Engaged}
        BY <2>1, <2>3, <1>c DEF Accounted
      <3>2. Accounted(c) = {v \in 0..(request[c].workers - 1) :
                               seen[p][v] = generation[p]
                                 /\ wpc[p][v] \notin Engaged}
        BY <2>1 DEF Accounted
      <3>3. w \in 0..(request[c].workers - 1)
        BY <2>1, <1>a DEF ClientTypes, Requests, WorkerId
      <3> QED
        BY <3>1, <3>2, <3>3, <2>1, <2>3, <2>4, <2>5, <2>6
    <2>8. IsFiniteSet(Accounted(c))
      <3>1. request[c].workers - 1 \in Int /\ 0 \in Int
        BY <1>a DEF ClientTypes, Requests
      <3>2. IsFiniteSet(0..(request[c].workers - 1))
        BY <3>1, FS_Interval
      <3> QED
        BY <3>2, FS_Subset DEF Accounted
    <2>9. Cardinality(Accounted(c)') = Cardinality(Accounted(c)) + 1
      BY <2>7, <2>8, FS_AddElement
    <2>10. finished'[c] = Cardinality(Accounted(c)')
      BY <2>1, <2>3, <2>9, <1>a, <1>b DEF CountOK, FrameTypes
    <2>11. \A d \in Clients \ {c} : pc[d] \in Published =>
             /\ held[d] # p /\ finished'[d] = finished[d]
      BY <2>1, <2>3, <1>a, <1>b, OneRun DEF InRun, FrameTypes
    <2>12. \A d \in Clients \ {c} : pc[d] \in Published =>
             Accounted(d)' = Accounted(d)
      BY <2>3, <2>5, <2>11, <1>a, <1>c, <1>d, AccountedSame
    <2> QED
      BY <2>10, <2>11, <2>12, <1>b, <1>c DEF CountOK
  <1> QED
    BY <1>1, <1>2, <1>3 DEF WorkerStep

-----------------------------------------------------------------------------
(* The theorems. *)

LEMMA RunStep == TypeInv /\ RunInv /\ [Next]_vars => RunInv'
  <1> SUFFICES ASSUME TypeInv, RunInv, [Next]_vars PROVE RunInv'
    OBVIOUS
  <1>1. CASE UNCHANGED vars
    BY <1>1 DEF RunInv, SharesOK, RunMutexOK, JobOK, EngagedOK, CountOK,
                Accounted, Frame, vars, clientVars, frameVars, holderVars,
                poolVars, workerVars
  <1>2. CASE Next
    BY <1>2, SharesStep, RunMutexStep, JobStep, EngagedClientStep,
       CountClientStep, WorkerKeepsClients, EngagedWorkerStep, CountWorkerStep
       DEF Next, RunInv, TypeInv, TypeOK
  <1> QED
    BY <1>1, <1>2

(* The strengthened invariant holds in every reachable state. *)
THEOREM RunInvariant == Spec => []RunInv
  BY TypeInit, TypeStep, RunInit, RunStep, PTL DEF Spec

(* No worker uses, and no pool offers, the stack frame of a run() that has *)
(* returned.                                                               *)
THEOREM JobsNeverDangle == Spec => []NoDanglingJob
  <1>1. RunInv => NoDanglingJob
    BY DEF RunInv, JobOK, EngagedOK, NoDanglingJob
  <1> QED
    BY <1>1, RunInvariant, PTL

(* No pool is destroyed while another client holds a share of it. *)
THEOREM PoolsOutliveRuns == Spec => []NoStopUnderRun
  <1>1. RunInv => NoStopUnderRun
    BY DEF RunInv, SharesOK, NoStopUnderRun
  <1> QED
    BY <1>1, RunInvariant, PTL

-----------------------------------------------------------------------------
(* NoLostWakeup is inductive relative to RunInv: a participant falls asleep *)
(* only after it has taken the current generation, and the last one to be  *)
(* accounted for signals before it does anything else.                     *)

(* The conditions of NoLostWakeup depend on little: *)
LEMMA WakeupFrame ==
  ASSUME NoLostWakeup, NEW c \in Clients,
         pc'[c] \in {"wait", "asleep"}, pc[c] \in {"wait", "asleep"},
         pc'[c] = "asleep" => pc[c] = "asleep",
         held'[c] = held[c], request'[c] = request[c], finished'[c] = finished[c],
         \A w \in WorkerId :
           /\ wpc'[held[c]][w] = "asleep" /\ seen'[held[c]][w] # generation'[held[c]]
                => wpc[held[c]][w] = "asleep" /\ seen[held[c]][w] # generation[held[c]]
           /\ wpc[held[c]][w] = "signal" => wpc'[held[c]][w] = "signal"
  PROVE  /\ \A w \in WorkerId :
              w < request'[c].workers /\ wpc'[held'[c]][w] = "asleep"
                => seen'[held'[c]][w] = generation'[held'[c]]
         /\ pc'[c] = "asleep" /\ finished'[c] >= request'[c].workers
              => \E w \in WorkerId : wpc'[held'[c]][w] = "signal"
  BY DEF NoLostWakeup

LEMMA WakeupClientStep ==
  ASSUME TypeInv, RunInv, NoLostWakeup, NEW c \in Clients,
         CallEmpty(c) \/ Call(c) \/ Shutdown(c) \/ SpuriousWakeClient(c)
           \/ ClientStep(c)
  PROVE  NoLostWakeup'
  <1>a. /\ ClientTypes /\ FrameTypes /\ PoolTypes /\ WorkerTypes /\ HeldOK
        /\ SharesOK /\ RunMutexOK
    BY DEF TypeInv, TypeOK, RunInv
  <1>b. pc \in [Clients -> ClientLabels] /\ held \in [Clients -> PoolId \union {Null}]
    BY <1>a DEF ClientTypes
  <1> SUFFICES ASSUME NEW d \in Clients, pc'[d] \in {"wait", "asleep"}
               PROVE  /\ \A w \in WorkerId :
                           w < request'[d].workers /\ wpc'[held'[d]][w] = "asleep"
                             => seen'[held'[d]][w] = generation'[held'[d]]
                      /\ pc'[d] = "asleep" /\ finished'[d] >= request'[d].workers
                           => \E w \in WorkerId : wpc'[held'[d]][w] = "signal"
    BY DEF NoLostWakeup
  <1>1. CASE d # c
    <2>1. pc'[d] = pc[d] /\ held'[d] = held[d]
      <3>1. pc'[d] = pc[d]
        BY <1>b, <1>1 DEF ClientStep, Goto, CallEmpty, Call, Shutdown, SpuriousWakeClient,
             InlineStart, InlineEnd, InlineReturn, Acquire, LockRun, EnsureWorkers,
             SpawnFails, Publish, NotifyStart, WaitDone, LeaveRun, ReleasePool, StopPool,
             NotifyStop, JoinWorkers
      <3>2. held'[d] = held[d]
        BY <1>b, <1>1 DEF ClientStep, CallEmpty, Call, Shutdown, SpuriousWakeClient,
             InlineStart, InlineEnd, InlineReturn, Acquire, LockRun, EnsureWorkers,
             SpawnFails, Publish, NotifyStart, WaitDone, LeaveRun, ReleasePool, StopPool,
             NotifyStop, JoinWorkers
      <3> QED
        BY <3>1, <3>2
    <2>2. request'[d] = request[d] /\ finished'[d] = finished[d]
      BY <1>a, <1>1 DEF ClientTypes, FrameTypes, ClientStep, CallEmpty, Call, Shutdown,
           SpuriousWakeClient, InlineStart, InlineEnd, InlineReturn, Acquire, LockRun,
           EnsureWorkers, SpawnFails, Publish, NotifyStart, WaitDone, LeaveRun,
           ReleasePool, StopPool, NotifyStop, JoinWorkers, Deliver, frameVars
    <2>3. held[d] \in PoolId /\ pc[d] \in InRun
      BY <1>a, <1>b, <2>1 DEF HeldOK, InRun, Published
    <2>4. ASSUME NEW w \in WorkerId
          PROVE  /\ wpc'[held[d]][w] = "asleep" /\ seen'[held[d]][w] # generation'[held[d]]
                      => wpc[held[d]][w] = "asleep" /\ seen[held[d]][w] # generation[held[d]]
                 /\ wpc[held[d]][w] = "signal" => wpc'[held[d]][w] = "signal"
      <3>1. CASE \/ CallEmpty(c) \/ Call(c) \/ Shutdown(c) \/ SpuriousWakeClient(c)
                 \/ InlineStart(c) \/ InlineEnd(c) \/ InlineReturn(c) \/ Acquire(c)
                 \/ LockRun(c) \/ WaitDone(c) \/ LeaveRun(c) \/ ReleasePool(c)
                 \/ JoinWorkers(c)
        <4>1. UNCHANGED <<generation, wpc, seen>>
          BY <3>1 DEF CallEmpty, Call, Shutdown, SpuriousWakeClient, InlineStart,
               InlineEnd, InlineReturn, Acquire, LockRun, WaitDone, LeaveRun, ReleasePool,
               JoinWorkers, poolVars, workerVars
        <4> QED
          BY <4>1
      <3>2. CASE EnsureWorkers(c) \/ SpawnFails(c)
        <4>1. PICK n : Grow(held[c], n)
          BY <3>2 DEF EnsureWorkers, SpawnFails
        <4>2. held[c] # held[d] /\ UNCHANGED <<generation, seen>>
          BY <1>a, <1>1, <2>3, <3>2, OneRun DEF EnsureWorkers, SpawnFails, InRun
        <4>3. wpc'[held[d]] = wpc[held[d]]
          BY <1>a, <2>3, <4>1, <4>2 DEF Grow, WorkerTypes
        <4> QED
          BY <4>2, <4>3
      <3>3. CASE Publish(c) \/ StopPool(c)
        <4>1. held[c] # held[d]
          <5>1. pc[c] \in InRun \/ pc[c] \in Destroying
            BY <3>3 DEF Publish, StopPool, InRun, Destroying
          <5> QED
            BY <1>a, <1>1, <2>3, <5>1, OneRun DEF SharesOK
        <4>2. generation' = [generation EXCEPT ![held[c]] = @ + 1] /\ UNCHANGED <<wpc, seen>>
          BY <3>3 DEF Publish, StopPool, workerVars
        <4> QED
          BY <1>a, <2>3, <4>1, <4>2 DEF PoolTypes
      <3>4. CASE NotifyStart(c) \/ NotifyStop(c)
        <4>1. WakeWorkers(held[c]) /\ UNCHANGED <<generation, seen>>
          BY <3>4 DEF NotifyStart, NotifyStop, poolVars
        <4>2. \/ wpc'[held[d]][w] = wpc[held[d]][w]
              \/ wpc[held[d]][w] = "asleep" /\ wpc'[held[d]][w] = "check"
          BY <1>a, <2>3, <4>1 DEF WakeWorkers, WorkerTypes
        <4> QED
          BY <4>1, <4>2
      <3> QED
        BY <3>1, <3>2, <3>3, <3>4 DEF ClientStep
    <2> QED
      BY <2>1, <2>2, <2>4, WakeupFrame
  <1>2. CASE d = c
    <2>1. SpuriousWakeClient(c) \/ NotifyStart(c) \/ WaitDone(c)
             \/ (CallEmpty(c) /\ pc[c] = "idle" /\ pc' = pc)
      BY <1>b, <1>2 DEF ClientStep, Goto, CallEmpty, Call, Shutdown, SpuriousWakeClient,
           InlineStart, InlineEnd, InlineReturn, Acquire, LockRun, EnsureWorkers,
           SpawnFails, Publish, NotifyStart, WaitDone, LeaveRun, ReleasePool, StopPool,
           NotifyStop, JoinWorkers
    <2>2. CASE SpuriousWakeClient(c)
      BY <1>b, <1>2, <2>2, WakeupFrame DEF SpuriousWakeClient, Goto, workerVars, poolVars,
         frameVars
    <2>3. CASE NotifyStart(c)
      <3>1. held[c] \in PoolId
        BY <1>a, <1>b, <2>3 DEF NotifyStart, HeldOK
      <3>2. \A w \in WorkerId : wpc'[held[c]][w] # "asleep"
        BY <1>a, <2>3, <3>1 DEF NotifyStart, WakeWorkers, WorkerTypes
      <3>3. pc'[c] = "wait" /\ held' = held
        BY <1>b, <2>3 DEF NotifyStart, Goto
      <3> QED
        BY <1>2, <3>2, <3>3
    <2>4. CASE WaitDone(c)
      <3>1. /\ pc[c] = "wait" /\ pc'[c] = "asleep"
            /\ ~(finished[c] >= request[c].workers)
            /\ UNCHANGED <<held, request, finished, wpc, seen, generation>>
        BY <1>b, <1>2, <2>4 DEF WaitDone, Goto, frameVars, workerVars
      <3> QED
        BY <1>2, <3>1 DEF NoLostWakeup
    <2> QED
      BY <1>2, <2>1, <2>2, <2>3, <2>4
  <1> QED
    BY <1>1, <1>2

LEMMA WakeupWorkerStep ==
  ASSUME TypeInv, RunInv, NoLostWakeup, NEW p \in PoolId, NEW w \in WorkerId,
         SpuriousWakeWorker(p, w) \/ WorkerStep(p, w)
  PROVE  NoLostWakeup'
  <1>a. /\ ClientTypes /\ FrameTypes /\ PoolTypes /\ WorkerTypes /\ HeldOK /\ JobOK
        /\ RunMutexOK
    BY DEF TypeInv, TypeOK, RunInv
  <1>b. /\ held' = held /\ request' = request /\ generation' = generation
        /\ \A c \in Clients : pc'[c] = pc[c] \/ (pc[c] = "asleep" /\ pc'[c] = "wait")
    BY <1>a, WorkerFrame DEF poolVars
  <1> SUFFICES ASSUME NEW c \in Clients, pc'[c] \in {"wait", "asleep"}
               PROVE  /\ \A v \in WorkerId :
                           v < request'[c].workers /\ wpc'[held'[c]][v] = "asleep"
                             => seen'[held'[c]][v] = generation'[held'[c]]
                      /\ pc'[c] = "asleep" /\ finished'[c] >= request'[c].workers
                           => \E v \in WorkerId : wpc'[held'[c]][v] = "signal"
    BY DEF NoLostWakeup
  <1>1. /\ pc[c] \in {"wait", "asleep"} /\ pc[c] \in Published
        /\ pc'[c] = "asleep" => pc[c] = "asleep"
    BY <1>b DEF Published
  <1>2. held[c] \in PoolId
    BY <1>a, <1>1 DEF HeldOK, ClientTypes, Published
  <1>3. \A q \in PoolId, v \in WorkerId :
          q # p \/ v # w => wpc'[q][v] = wpc[q][v] /\ seen'[q][v] = seen[q][v]
    BY <1>a DEF WorkerTypes, SpuriousWakeWorker, WorkerStep, CheckStart, FetchSlot,
         StartBoard, StopDispatch, EndBoard, Account, SignalDone, WGoto
  <1>4. CASE SpuriousWakeWorker(p, w) \/ FetchSlot(p, w) \/ StartBoard(p, w)
             \/ StopDispatch(p, w) \/ EndBoard(p, w)
    <2>1. /\ wpc[p][w] # "signal" /\ wpc'[p][w] # "asleep"
          /\ finished' = finished
      BY <1>a, <1>4 DEF WorkerTypes, SpuriousWakeWorker, FetchSlot, StartBoard,
           StopDispatch, EndBoard, WGoto, frameVars
    <2> QED
      BY <1>1, <1>2, <1>3, <1>b, <2>1, WakeupFrame
  <1>5. CASE CheckStart(p, w)
    <2>1. wpc[p][w] = "check" /\ finished' = finished
      BY <1>5 DEF CheckStart, frameVars
    <2>2. /\ pc[c] = "asleep" /\ finished[c] >= request[c].workers
               => \E v \in WorkerId : wpc[held[c]][v] = "signal"
          /\ \A v \in WorkerId :
               v < request[c].workers /\ wpc[held[c]][v] = "asleep"
                 => seen[held[c]][v] = generation[held[c]]
      BY <1>1 DEF NoLostWakeup
    <2>3. ASSUME held[c] = p, wpc'[p][w] = "asleep", w < request[c].workers
          PROVE  seen'[p][w] = generation[p]
      <3>1. job[p] # Null /\ workersForJob[p] = request[c].workers
        <4>1. job[p] = Frame(c) /\ workersForJob[p] = request[c].workers
          BY <1>1, <1>a, <2>3 DEF JobOK
        <4>2. Frame(c) \in Clients \X Nat
          BY <1>a DEF Frame, ClientTypes
        <4> QED
          BY <4>1, <4>2, NullAssumption
      <3>2. /\ ~(job[p] # Null /\ generation[p] # seen[p][w] /\ w < workersForJob[p])
            /\ seen' = seen
        BY <1>a, <1>5, <2>3 DEF CheckStart, WGoto, WorkerTypes
      <3> QED
        BY <2>3, <3>1, <3>2
    <2>4. ASSUME NEW v \in WorkerId, v < request'[c].workers, wpc'[held'[c]][v] = "asleep"
          PROVE  seen'[held'[c]][v] = generation'[held'[c]]
      <3>1. CASE held[c] = p /\ v = w
        BY <1>b, <2>3, <2>4, <3>1
      <3>2. CASE held[c] # p \/ v # w
        BY <1>2, <1>3, <1>b, <2>2, <2>4, <3>2
      <3> QED
        BY <3>1, <3>2
    <2>5. ASSUME pc'[c] = "asleep", finished'[c] >= request'[c].workers
          PROVE  \E v \in WorkerId : wpc'[held'[c]][v] = "signal"
      <3>1. PICK v \in WorkerId : wpc[held[c]][v] = "signal"
        BY <1>1, <1>b, <2>1, <2>2, <2>5
      <3>2. wpc'[held[c]][v] = "signal"
        BY <1>2, <1>3, <2>1, <3>1
      <3> QED
        BY <1>b, <3>2
    <2> QED
      BY <2>4, <2>5
  <1>6. CASE Account(p, w)
    <2>1. /\ wpc[p][w] = "account" /\ wpc[p][w] \in Engaged
          /\ finished' = [finished EXCEPT ![Owner(p, w)] = @ + 1]
          /\ seen' = seen
          /\ wpc'[p][w] = IF finished[Owner(p, w)] + 1 >= request[Owner(p, w)].workers
                          THEN "signal" ELSE "check"
      BY <1>a, <1>6 DEF Account, WGoto, WorkerTypes, Engaged
    <2>2. CASE c = Owner(p, w)
      <3>1. held[c] = p
        <4>1. PICK d \in Clients : local[p][w] = Frame(d) /\ held[d] = p
          BY <2>1 DEF RunInv, EngagedOK
        <4> QED
          BY <2>2, <4>1 DEF Owner, Frame
      <3>2. finished'[c] = finished[c] + 1
        BY <1>a, <2>1, <2>2 DEF FrameTypes
      <3>3. wpc'[p][w] = IF finished[c] + 1 >= request[c].workers
                         THEN "signal" ELSE "check"
        BY <2>1, <2>2
      <3>4. ASSUME NEW v \in WorkerId, v < request'[c].workers,
                   wpc'[held'[c]][v] = "asleep"
            PROVE  seen'[held'[c]][v] = generation'[held'[c]]
        <4>1. v # w
          BY <1>b, <3>1, <3>3, <3>4
        <4> QED
          BY <1>1, <1>2, <1>3, <1>b, <3>4, <4>1 DEF NoLostWakeup
      <3> QED
        BY <1>b, <3>1, <3>2, <3>3, <3>4
    <2>3. CASE c # Owner(p, w)
      <3>1. finished'[c] = finished[c]
        BY <1>a, <2>1, <2>3 DEF FrameTypes
      <3>2. wpc'[p][w] # "asleep" /\ wpc[p][w] # "signal"
        BY <2>1
      <3> QED
        BY <1>1, <1>2, <1>3, <1>b, <3>1, <3>2, WakeupFrame
    <2> QED
      BY <2>2, <2>3
  <1>7. CASE SignalDone(p, w)
    <2>1. /\ wpc'[p][w] = "check" /\ finished' = finished
          /\ pc'[c] = IF pc[c] = "asleep" /\ held[c] = p THEN "wait" ELSE pc[c]
      BY <1>a, <1>7 DEF SignalDone, WGoto, WorkerTypes, frameVars
    <2>2. ASSUME NEW v \in WorkerId, v < request'[c].workers, wpc'[held'[c]][v] = "asleep"
          PROVE  seen'[held'[c]][v] = generation'[held'[c]]
      <3>1. held[c] # p \/ v # w
        BY <1>b, <2>1, <2>2
      <3> QED
        BY <1>1, <1>2, <1>3, <1>b, <2>2, <3>1 DEF NoLostWakeup
    <2>3. ASSUME pc'[c] = "asleep", finished'[c] >= request'[c].workers
          PROVE  \E v \in WorkerId : wpc'[held'[c]][v] = "signal"
      <3>1. pc[c] = "asleep" /\ held[c] # p
        BY <2>1, <2>3
      <3>2. PICK v \in WorkerId : wpc[held[c]][v] = "signal"
        BY <1>b, <2>1, <2>3, <3>1 DEF NoLostWakeup
      <3> QED
        BY <1>2, <1>3, <1>b, <3>1, <3>2
    <2> QED
      BY <2>2, <2>3
  <1> QED
    BY <1>4, <1>5, <1>6, <1>7 DEF WorkerStep

LEMMA WakeupStep ==
  TypeInv /\ RunInv /\ NoLostWakeup /\ [Next]_vars => NoLostWakeup'
  <1> SUFFICES ASSUME TypeInv, RunInv, NoLostWakeup, [Next]_vars PROVE NoLostWakeup'
    OBVIOUS
  <1>1. ASSUME UNCHANGED vars PROVE NoLostWakeup'
    BY <1>1 DEF NoLostWakeup, vars, clientVars, frameVars, poolVars, workerVars
  <1> QED
    BY <1>1, WakeupClientStep, WakeupWorkerStep DEF Next

(* A worker that a run waits for is never left asleep, and neither is the  *)
(* caller when the last of them is done, for any number of both.           *)
THEOREM WakeupsAreNotLost == Spec => []NoLostWakeup
  <1>1. Init => NoLostWakeup
    BY DEF Init, NoLostWakeup
  <1> QED
    BY <1>1, TypeInit, TypeStep, RunInit, RunStep, WakeupStep, PTL DEF Spec

-----------------------------------------------------------------------------
(* BoardPool implements BatchCall.                                          *)

(* The program counters at which next, first_error and the history of a    *)
(* call have been used; at all others they are as a new call finds them.   *)
Busy == {"inline", "inlineBoard", "leave"} \union Published

FreshFrame(c) ==
  /\ started[c] = {} /\ active[c] = {} /\ reports[c] = <<>>
  /\ next[c] = 0 /\ firstError[c] = RETURN_NO_FAULT

FreshOK(c) == pc[c] \notin Busy => FreshFrame(c)

(* The loop on the calling thread starts the boards in order and stops     *)
(* after the first report.                                                 *)
BoardsUpTo(c, n) == {BoardAt(c, s) : s \in 0..(n - 1)}

InlineOK(c) ==
  /\ pc[c] = "inline" =>
       /\ next[c] <= request[c].count
       /\ started[c] = BoardsUpTo(c, next[c])
       /\ active[c] = {}
       /\ reports[c] = IF firstError[c] = RETURN_NO_FAULT THEN <<>>
                       ELSE <<firstError[c]>>
  /\ pc[c] = "inlineBoard" =>
       /\ next[c] < request[c].count
       /\ started[c] = BoardsUpTo(c, next[c] + 1)
       /\ active[c] = {BoardAt(c, next[c])}
       /\ reports[c] = <<>> /\ firstError[c] = RETURN_NO_FAULT

(* In the pool, each worker that loads or processes has a slot of its own, *)
(* below next.                                                             *)
At(c, labels) == {w \in WorkerId : wpc[held[c]][w] \in labels}
SlotOf(c, w) == slot[held[c]][w]

SlotsOK(c) ==
  /\ \A w \in At(c, {"load", "board"}) : SlotOf(c, w) < next[c]
  /\ \A v, w \in At(c, {"load", "board"}) : SlotOf(c, v) = SlotOf(c, w) => v = w
  /\ \A w \in At(c, {"board"}) : SlotOf(c, w) < request[c].count

(* The slots that were fetched and no longer wait to be started.  Boards   *)
(* are started only for those, and for all of those unless an error made   *)
(* a worker drop its slot.                                                 *)
Taken(c) ==
  {s \in 0..(request[c].count - 1) :
     s < next[c] /\ \A w \in At(c, {"load"}) : SlotOf(c, w) # s}

DispatchOK(c) ==
  /\ active[c] = {BoardAt(c, SlotOf(c, w)) : w \in At(c, {"board"})}
  /\ \A b \in started[c] : \E s \in Taken(c) : b = BoardAt(c, s)
  /\ reports[c] = <<>> => \A s \in Taken(c) : BoardAt(c, s) \in started[c]

(* Without a report, a worker ends its part only when no slot is left.     *)
Working == {"fetch", "load", "board"}
DoneOK(c) ==
  reports[c] = <<>> =>
    \A w \in 0..(request[c].workers - 1) :
      seen[held[c]][w] = generation[held[c]] /\ wpc[held[c]][w] \notin Working
        => next[c] >= request[c].count

(* first_error holds what the reports amount to. *)
PoolVerdict(log) ==
  IF log = <<>> THEN RETURN_NO_FAULT
  ELSE IF \E i \in DOMAIN log : log[i] = Thrown THEN RETURN_UNKNOWN_FAULT
  ELSE Head(log)
VerdictOK(c) == firstError[c] = PoolVerdict(reports[c])

PoolOK(c) ==
  pc[c] \in Published => SlotsOK(c) /\ DispatchOK(c) /\ DoneOK(c) /\ VerdictOK(c)

(* When run() returns every invocation has, and if all is well, all boards *)
(* were started.                                                           *)
LeaveOK(c) ==
  pc[c] = "leave" =>
    /\ active[c] = {}
    /\ reports[c] = <<>> => started[c] = 0..(request[c].count - 1)
    /\ VerdictOK(c)

HistoryTypes ==
  /\ started \in [Clients -> SUBSET Nat]
  /\ active \in [Clients -> SUBSET Nat]
  /\ reports \in [Clients -> Seq(FaultCodes \union {Thrown})]

ClientOK(c) == FreshOK(c) /\ InlineOK(c) /\ PoolOK(c) /\ LeaveOK(c)
FrameInv == HistoryTypes /\ \A c \in Clients : ClientOK(c)

-----------------------------------------------------------------------------
(* Boards and slots: an order is used only when it is a permutation.       *)

LEMMA RequestFacts ==
  ASSUME ClientTypes, NEW c \in Clients
  PROVE  /\ request[c].count \in 0..MaxCount /\ request[c].count \in Nat
         /\ request[c].workers \in 1..MaxWorkers
         /\ 0..(request[c].workers - 1) \subseteq WorkerId
         /\ request[c].order \in Seq(Int)
  <1>1. request[c] \in Requests
    BY DEF ClientTypes
  <1>2. request[c].order \in Seq(Int)
    <2>1. request[c].order \in Orders \union {<<>>}
      BY <1>1 DEF Requests
    <2>2. Orders \subseteq Seq(Int) /\ <<>> \in Seq(Int)
      BY OrdersAssumption
    <2> QED
      BY <2>1, <2>2
  <1>3. request[c].count \in 0..MaxCount /\ request[c].workers \in 1..MaxWorkers
    BY <1>1 DEF Requests
  <1> QED
    BY <1>2, <1>3, BoundsAssumption DEF WorkerId

LEMMA BoardOfSlot ==
  ASSUME ClientTypes, NEW c \in Clients, NEW s \in 0..(request[c].count - 1)
  PROVE  BoardAt(c, s) \in 0..(request[c].count - 1)
  <1>1. request[c].count \in Nat /\ request[c].order \in Seq(Int)
    BY RequestFacts
  <1>2. CASE UseOrder(request[c].order, request[c].count)
    <2>1. s + 1 \in DOMAIN request[c].order
      BY <1>1, <1>2 DEF UseOrder
    <2> QED
      BY <1>2, <2>1 DEF UseOrder, BoardAt
  <1>3. CASE ~UseOrder(request[c].order, request[c].count)
    BY <1>3 DEF BoardAt
  <1> QED
    BY <1>2, <1>3

LEMMA SlotsDiffer ==
  ASSUME ClientTypes, NEW c \in Clients,
         NEW s \in 0..(request[c].count - 1), NEW t \in 0..(request[c].count - 1),
         BoardAt(c, s) = BoardAt(c, t)
  PROVE  s = t
  <1>1. request[c].count \in Nat /\ request[c].order \in Seq(Int)
    BY RequestFacts
  <1>2. CASE UseOrder(request[c].order, request[c].count)
    <2>1. s + 1 \in DOMAIN request[c].order /\ t + 1 \in DOMAIN request[c].order
      BY <1>1, <1>2 DEF UseOrder
    <2>2. request[c].order[s + 1] = request[c].order[t + 1]
      BY <1>2 DEF BoardAt
    <2>3. s + 1 = t + 1
      BY <1>2, <2>1, <2>2 DEF UseOrder
    <2> QED
      BY <2>3
  <1>3. CASE ~UseOrder(request[c].order, request[c].count)
    BY <1>3 DEF BoardAt
  <1> QED
    BY <1>2, <1>3

(* As many boards as slots: every board has a slot. *)
LEMMA EveryBoardHasASlot ==
  ASSUME ClientTypes, NEW c \in Clients
  PROVE  BoardsUpTo(c, request[c].count) = 0..(request[c].count - 1)
  <1> DEFINE S == 0..(request[c].count - 1)
             f == [s \in S |-> BoardAt(c, s)]
  <1>1. request[c].count \in Nat
    BY RequestFacts
  <1>2. IsFiniteSet(S)
    BY <1>1, FS_Interval
  <1>3. f \in [S -> S]
    BY BoardOfSlot
  <1>4. \A s, t \in S : f[s] = f[t] => s = t
    BY SlotsDiffer
  <1>5. f \in Injection(S, S)
    BY <1>3, <1>4 DEF Injection, IsInjective
  <1> HIDE DEF f
  <1>6. f \in Surjection(S, S)
    BY <1>2, <1>5, FS_Injection
  <1>7. \A b \in S : \E s \in S : f[s] = b
    BY <1>6 DEF Surjection
  <1> USE DEF f
  <1>8. \A b \in S : \E s \in S : BoardAt(c, s) = b
    BY <1>7
  <1> QED
    BY <1>8, BoardOfSlot DEF BoardsUpTo

-----------------------------------------------------------------------------
(* Reports and their verdict *)

Faults == FaultCodes \union {Thrown}

LEMMA OutcomesSplit ==
  /\ Outcomes = {RETURN_NO_FAULT} \union Faults
  /\ RETURN_NO_FAULT \notin Faults
  /\ RETURN_UNKNOWN_FAULT # RETURN_NO_FAULT
  BY CodesAssumption DEF Outcomes, Faults

LEMMA VerdictIsError ==
  ASSUME NEW log \in Seq(Faults)
  PROVE  PoolVerdict(log) = RETURN_NO_FAULT <=> log = <<>>
  <1>1. log # <<>> => Head(log) \in Faults
    OBVIOUS
  <1> QED
    BY <1>1, OutcomesSplit DEF PoolVerdict

LEMMA VerdictGrows ==
  ASSUME NEW log \in Seq(Faults), NEW outcome \in Faults
  PROVE  /\ Append(log, outcome) \in Seq(Faults) /\ Append(log, outcome) # <<>>
         /\ PoolVerdict(Append(log, outcome)) =
              IF outcome = Thrown THEN RETURN_UNKNOWN_FAULT
              ELSE IF PoolVerdict(log) = RETURN_NO_FAULT THEN outcome
              ELSE PoolVerdict(log)
  <1> DEFINE longer == Append(log, outcome)
             n == Len(log)
  <1>1. /\ n \in Nat /\ Len(longer) = n + 1 /\ longer \in Seq(Faults)
        /\ longer[n + 1] = outcome
        /\ \A i \in 1..n : longer[i] = log[i]
        /\ DOMAIN longer = 1..(n + 1) /\ DOMAIN log = 1..n
    OBVIOUS
  <1>2. longer # <<>>
    BY <1>1
  <1>3. (\E i \in DOMAIN longer : longer[i] = Thrown)
          <=> outcome = Thrown \/ \E i \in DOMAIN log : log[i] = Thrown
    <2>1. ASSUME NEW i \in DOMAIN longer, longer[i] = Thrown
          PROVE  outcome = Thrown \/ \E j \in DOMAIN log : log[j] = Thrown
      BY <1>1, <2>1
    <2>2. ASSUME outcome = Thrown
          PROVE  \E i \in DOMAIN longer : longer[i] = Thrown
      BY <1>1, <2>2
    <2>3. ASSUME NEW i \in DOMAIN log, log[i] = Thrown
          PROVE  \E j \in DOMAIN longer : longer[j] = Thrown
      BY <1>1, <2>3
    <2> QED
      BY <2>1, <2>2, <2>3
  <1>4. log # <<>> => Head(longer) = Head(log)
    BY <1>1
  <1>5. log = <<>> => Head(longer) = outcome
    BY <1>1
  <1>6. PoolVerdict(log) = RETURN_NO_FAULT <=> log = <<>>
    BY VerdictIsError
  <1> HIDE DEF longer
  <1>7. PoolVerdict(longer) =
          IF outcome = Thrown \/ (\E i \in DOMAIN log : log[i] = Thrown)
          THEN RETURN_UNKNOWN_FAULT ELSE Head(longer)
    BY <1>2, <1>3 DEF PoolVerdict
  <1>8. CASE log = <<>>
    BY <1>1, <1>2, <1>5, <1>6, <1>7, <1>8 DEF longer
  <1>9. CASE log # <<>>
    BY <1>1, <1>2, <1>4, <1>6, <1>7, <1>9 DEF PoolVerdict, longer
  <1> QED
    BY <1>8, <1>9

-----------------------------------------------------------------------------
(* Steps that do not touch a call *)

LEMMA FreshIsOK ==
  ASSUME NEW c \in Clients
  PROVE  pc[c] \notin Busy /\ FreshFrame(c) => ClientOK(c)
  BY DEF Busy, Published, ClientOK, FreshOK, InlineOK, PoolOK, LeaveOK

(* The frame of client c and the history of its call stay as they are. *)
FrameStays(c) ==
  /\ next'[c] = next[c] /\ firstError'[c] = firstError[c]
  /\ started'[c] = started[c] /\ active'[c] = active[c] /\ reports'[c] = reports[c]

(* The workers of its run stay where they are, as far as its invariant     *)
(* can tell: none begins or ends work, and none is accounted for anew      *)
(* unless it was ready to be.                                              *)
WorkersStay(c) ==
  LET p == held[c] IN
  /\ held'[c] = p /\ request'[c] = request[c]
  /\ \A w \in WorkerId :
       /\ \A label \in {"load", "board"} : wpc'[p][w] = label <=> wpc[p][w] = label
       /\ wpc'[p][w] \in {"load", "board"} => slot'[p][w] = slot[p][w]
       /\ seen'[p][w] = generation'[p] /\ wpc'[p][w] \notin Working
            => seen[p][w] = generation[p] /\ wpc[p][w] \notin Working

LEMMA BoardAtSame ==
  ASSUME NEW c, request'[c] = request[c]
  PROVE  \A s : BoardAt(c, s)' = BoardAt(c, s)
  BY DEF BoardAt

LEMMA PoolPartStays ==
  ASSUME NEW c \in Clients, ClientTypes, FrameStays(c), WorkersStay(c),
         SlotsOK(c), DispatchOK(c), DoneOK(c), VerdictOK(c)
  PROVE  SlotsOK(c)' /\ DispatchOK(c)' /\ DoneOK(c)' /\ VerdictOK(c)'
  <1>1. /\ held'[c] = held[c] /\ request'[c] = request[c]
        /\ next'[c] = next[c] /\ firstError'[c] = firstError[c]
        /\ started'[c] = started[c] /\ active'[c] = active[c]
        /\ reports'[c] = reports[c]
    BY DEF FrameStays, WorkersStay
  <1>2. /\ At(c, {"load", "board"})' = At(c, {"load", "board"})
        /\ At(c, {"load"})' = At(c, {"load"})
        /\ At(c, {"board"})' = At(c, {"board"})
    BY <1>1 DEF At, WorkersStay
  <1>3. \A w \in At(c, {"load", "board"}) : SlotOf(c, w)' = SlotOf(c, w)
    BY <1>1 DEF At, SlotOf, WorkersStay
  <1>4. /\ At(c, {"load"}) \subseteq At(c, {"load", "board"})
        /\ At(c, {"board"}) \subseteq At(c, {"load", "board"})
    BY DEF At
  <1>5. SlotsOK(c)'
    BY <1>1, <1>2, <1>3, <1>4 DEF SlotsOK
  <1>6. Taken(c)' = Taken(c)
    BY <1>1, <1>2, <1>3, <1>4 DEF Taken
  <1>7. \A s : BoardAt(c, s)' = BoardAt(c, s)
    BY <1>1, BoardAtSame
  <1>8. {BoardAt(c, SlotOf(c, w)) : w \in At(c, {"board"})}' =
          {BoardAt(c, SlotOf(c, w)) : w \in At(c, {"board"})}
    <2>1. \A w \in At(c, {"board"}) :
            BoardAt(c, SlotOf(c, w))' = BoardAt(c, SlotOf(c, w))
      BY <1>1, <1>3, <1>4 DEF BoardAt
    <2> QED
      BY <1>2, <2>1
  <1>9. DispatchOK(c)'
    <2>1. active'[c] = {BoardAt(c, SlotOf(c, w)) : w \in At(c, {"board"})}'
      BY <1>1, <1>8 DEF DispatchOK
    <2>2. \A b \in started'[c] : \E s \in Taken(c)' : b = BoardAt(c, s)'
      BY <1>1, <1>6, <1>7 DEF DispatchOK
    <2>3. reports'[c] = <<>> => \A s \in Taken(c)' : BoardAt(c, s)' \in started'[c]
      BY <1>1, <1>6, <1>7 DEF DispatchOK
    <2> QED
      BY <2>1, <2>2, <2>3 DEF DispatchOK
  <1>10. DoneOK(c)'
    <2> SUFFICES ASSUME reports'[c] = <<>>,
                        NEW w \in 0..(request'[c].workers - 1),
                        seen'[held'[c]][w] = generation'[held'[c]],
                        wpc'[held'[c]][w] \notin Working
                 PROVE  next'[c] >= request'[c].count
      BY DEF DoneOK
    <2>1. w \in WorkerId
      BY <1>1, RequestFacts
    <2>2. seen[held[c]][w] = generation[held[c]] /\ wpc[held[c]][w] \notin Working
      BY <1>1, <2>1 DEF WorkersStay
    <2> QED
      BY <1>1, <2>2 DEF DoneOK
  <1>11. VerdictOK(c)'
    BY <1>1 DEF VerdictOK
  <1> QED
    BY <1>5, <1>9, <1>10, <1>11

LEMMA Untouched ==
  ASSUME NEW c \in Clients, ClientTypes, ClientOK(c), FrameStays(c),
         \/ pc'[c] = pc[c]
         \/ pc[c] \in Published /\ pc'[c] \in Published
         \/ pc[c] \notin Busy /\ pc'[c] \notin Busy,
         pc[c] \in Busy => request'[c] = request[c],
         pc[c] \in Published => WorkersStay(c)
  PROVE  ClientOK(c)'
  <1>1. CASE pc[c] \notin Busy
    <2>1. pc'[c] \notin Busy
      BY <1>1 DEF Busy
    <2>2. FreshFrame(c)'
      BY <1>1 DEF ClientOK, FreshOK, FreshFrame, FrameStays
    <2> QED
      BY <2>1, <2>2 DEF Busy, Published, ClientOK, FreshOK, InlineOK, PoolOK, LeaveOK
  <1>2. CASE pc[c] \in Published
    <2>1. SlotsOK(c)' /\ DispatchOK(c)' /\ DoneOK(c)' /\ VerdictOK(c)'
      BY <1>2, PoolPartStays DEF ClientOK, PoolOK
    <2>2. pc'[c] \in Published
      BY <1>2 DEF Busy
    <2> QED
      BY <2>1, <2>2 DEF Busy, Published, ClientOK, FreshOK, InlineOK, PoolOK, LeaveOK
  <1>3. CASE pc[c] \in {"inline", "inlineBoard", "leave"}
    <2>1. pc'[c] = pc[c] /\ request'[c] = request[c]
      BY <1>3 DEF Busy, Published
    <2>2. \A n : BoardsUpTo(c, n)' = BoardsUpTo(c, n)
      BY <2>1, BoardAtSame DEF BoardsUpTo
    <2>3. InlineOK(c)'
      <3>1. \A n : BoardAt(c, n)' = BoardAt(c, n)
        BY <2>1, BoardAtSame
      <3>2. BoardAt(c, next[c])' = BoardAt(c, next[c])
        BY <2>1 DEF BoardAt, FrameStays
      <3>3. /\ BoardsUpTo(c, next[c])' = BoardsUpTo(c, next[c])
            /\ BoardsUpTo(c, next[c] + 1)' = BoardsUpTo(c, next[c] + 1)
        <4>1. next'[c] = next[c]
          BY DEF FrameStays
        <4> QED
          BY <2>1, <4>1 DEF BoardsUpTo, BoardAt
      <3>4. InlineOK(c)
        BY DEF ClientOK
      <3> QED
        BY <2>1, <3>2, <3>3, <3>4 DEF InlineOK, FrameStays
    <2>4. LeaveOK(c)'
      BY <2>1 DEF ClientOK, LeaveOK, VerdictOK, FrameStays
    <2> QED
      BY <1>3, <2>1, <2>3, <2>4 DEF Busy, Published, ClientOK, FreshOK, PoolOK
  <1> QED
    BY <1>1, <1>2, <1>3 DEF Busy

-----------------------------------------------------------------------------
(* The steps of a client *)

ClientAction(c) ==
  CallEmpty(c) \/ Call(c) \/ Shutdown(c) \/ SpuriousWakeClient(c) \/ ClientStep(c)

LEMMA EnterTypes ==
  ASSUME HistoryTypes, NEW c \in Clients, NEW b \in Nat, EnterBoard(c, b)
  PROVE  /\ HistoryTypes'
         /\ started'[c] = started[c] \union {b} /\ active'[c] = active[c] \union {b}
         /\ reports'[c] = reports[c]
         /\ \A d \in Clients : d # c =>
              started'[d] = started[d] /\ active'[d] = active[d] /\ reports'[d] = reports[d]
  BY DEF HistoryTypes, EnterBoard

LEMMA LeaveTypes ==
  ASSUME HistoryTypes, NEW c \in Clients, NEW b, NEW outcome \in Outcomes,
         LeaveBoard(c, b, outcome)
  PROVE  /\ HistoryTypes'
         /\ started'[c] = started[c] /\ active'[c] = active[c] \ {b}
         /\ reports'[c] = IF outcome = RETURN_NO_FAULT THEN reports[c]
                          ELSE Append(reports[c], outcome)
         /\ \A d \in Clients : d # c =>
              started'[d] = started[d] /\ active'[d] = active[d] /\ reports'[d] = reports[d]
  <1>1. /\ started' = started
        /\ active' = [active EXCEPT ![c] = @ \ {b}]
        /\ reports' = [reports EXCEPT
             ![c] = IF outcome = RETURN_NO_FAULT THEN @ ELSE Append(@, outcome)]
    BY DEF LeaveBoard
  <1>2. /\ started \in [Clients -> SUBSET Nat] /\ active \in [Clients -> SUBSET Nat]
        /\ reports \in [Clients -> Seq(Faults)]
    BY DEF HistoryTypes, Faults
  <1>3. CASE outcome = RETURN_NO_FAULT
    BY <1>1, <1>2, <1>3 DEF HistoryTypes, Faults
  <1>4. CASE outcome # RETURN_NO_FAULT
    <2>1. outcome \in Faults
      BY <1>4, OutcomesSplit
    <2>2. Append(reports[c], outcome) \in Seq(Faults)
      BY <1>2, <2>1
    <2>3. reports' = [reports EXCEPT ![c] = Append(reports[c], outcome)]
      BY <1>1, <1>2, <1>4
    <2> QED
      BY <1>1, <1>2, <1>4, <2>2, <2>3 DEF HistoryTypes, Faults
  <1> QED
    BY <1>3, <1>4

LEMMA DeliverTypes ==
  ASSUME HistoryTypes, ClientTypes, FrameTypes, NEW c \in Clients, NEW v,
         Deliver(c, v), UNCHANGED active
  PROVE  /\ HistoryTypes'
         /\ active[c] = {} => FreshFrame(c)'
         /\ request'[c] = NoRequest
         /\ \A d \in Clients : d # c => FrameStays(d) /\ request'[d] = request[d]
  BY DEF HistoryTypes, FrameTypes, ClientTypes, Deliver, FreshFrame, FrameStays

(* A client's step leaves the frames of the others alone ... *)
LEMMA FramesOfOthers ==
  ASSUME TypeInv, HistoryTypes, NEW c \in Clients, NEW d \in Clients, c # d,
         ClientAction(c)
  PROVE  FrameStays(d) /\ pc'[d] = pc[d] /\ held'[d] = held[d] /\ request'[d] = request[d]
  <1>a. ClientTypes /\ FrameTypes
    BY DEF TypeInv, TypeOK
  <1>1. pc'[d] = pc[d] /\ held'[d] = held[d]
    <2>1. pc \in [Clients -> ClientLabels] /\ held \in [Clients -> PoolId \union {Null}]
      BY <1>a DEF ClientTypes
    <2>2. pc'[d] = pc[d]
      BY <2>1 DEF ClientAction, ClientStep, Goto, CallEmpty, Call, Shutdown,
           SpuriousWakeClient, InlineStart, InlineEnd, InlineReturn, Acquire, LockRun,
           EnsureWorkers, SpawnFails, Publish, NotifyStart, WaitDone, LeaveRun,
           ReleasePool, StopPool, NotifyStop, JoinWorkers
    <2>3. held'[d] = held[d]
      BY <2>1 DEF ClientAction, ClientStep, CallEmpty, Call, Shutdown,
           SpuriousWakeClient, InlineStart, InlineEnd, InlineReturn, Acquire, LockRun,
           EnsureWorkers, SpawnFails, Publish, NotifyStart, WaitDone, LeaveRun,
           ReleasePool, StopPool, NotifyStop, JoinWorkers
    <2> QED
      BY <2>2, <2>3
  <1>2. ASSUME UNCHANGED <<frameVars, historyVars>>
        PROVE  FrameStays(d)
    BY <1>2 DEF FrameStays, frameVars, historyVars
  <1>3. CASE \/ CallEmpty(c) \/ Shutdown(c) \/ SpuriousWakeClient(c)
             \/ Acquire(c) \/ LockRun(c) \/ EnsureWorkers(c) \/ NotifyStart(c)
             \/ WaitDone(c) \/ ReleasePool(c) \/ StopPool(c) \/ NotifyStop(c)
             \/ JoinWorkers(c)
    <2>1. UNCHANGED <<frameVars, historyVars, request>>
      BY <1>3 DEF CallEmpty, Shutdown, SpuriousWakeClient, Acquire, LockRun,
           EnsureWorkers, NotifyStart, WaitDone, ReleasePool, StopPool, NotifyStop,
           JoinWorkers
    <2> QED
      BY <1>1, <1>2, <2>1
  <1>4. CASE Call(c)
    <2>1. UNCHANGED <<frameVars, historyVars>>
      BY <1>4 DEF Call
    <2>2. request'[d] = request[d]
      BY <1>4, <1>a DEF Call, ClientTypes
    <2> QED
      BY <1>1, <1>2, <2>1, <2>2
  <1>5. CASE InlineStart(c)
    <2>1. /\ UNCHANGED frameVars /\ UNCHANGED request
          /\ EnterBoard(c, BoardAt(c, next[c]))
      BY <1>5 DEF InlineStart
    <2>2. started'[d] = started[d] /\ active'[d] = active[d] /\ reports'[d] = reports[d]
      BY <2>1 DEF EnterBoard, HistoryTypes
    <2> QED
      BY <1>1, <2>1, <2>2 DEF FrameStays, frameVars
  <1>6. CASE InlineEnd(c)
    <2>1. PICK outcome \in Outcomes :
            /\ LeaveBoard(c, BoardAt(c, next[c]), outcome)
            /\ firstError' = [firstError EXCEPT ![c] = outcome]
      BY <1>6 DEF InlineEnd
    <2>2. next' = [next EXCEPT ![c] = @ + 1] /\ UNCHANGED request
      BY <1>6 DEF InlineEnd
    <2> QED
      BY <1>1, <1>a, <2>1, <2>2, LeaveTypes DEF FrameStays, FrameTypes
  <1>7. CASE InlineReturn(c) \/ SpawnFails(c) \/ LeaveRun(c)
    <2>1. PICK v : Deliver(c, v) /\ UNCHANGED active
      BY <1>7 DEF InlineReturn, SpawnFails, LeaveRun
    <2> QED
      BY <1>1, <1>a, <2>1, DeliverTypes
  <1>8. CASE Publish(c)
    BY <1>1, <1>a, <1>8 DEF Publish, FrameStays, FrameTypes, historyVars
  <1> QED
    BY <1>3, <1>4, <1>5, <1>6, <1>7, <1>8 DEF ClientAction, ClientStep

(* ... and so it leaves the workers of their runs: the pool it changes is  *)
(* one that nobody else runs in, or it only wakes workers.                 *)
LEMMA WorkersOfOthers ==
  ASSUME TypeInv, RunInv, HistoryTypes, NEW c \in Clients, NEW d \in Clients,
         c # d, ClientAction(c), pc[d] \in Published
  PROVE  WorkersStay(d)
  <1>a. /\ ClientTypes /\ PoolTypes /\ WorkerTypes /\ HeldOK
        /\ SharesOK /\ RunMutexOK
    BY DEF TypeInv, TypeOK, RunInv
  <1>b. held'[d] = held[d] /\ request'[d] = request[d]
    BY FramesOfOthers
  <1>c. held[d] \in PoolId
    BY <1>a DEF HeldOK, ClientTypes, Published
  <1>1. ASSUME UNCHANGED <<generation, workerVars>>
        PROVE  WorkersStay(d)
    BY <1>1, <1>b DEF WorkersStay, workerVars
  <1>2. ASSUME pc[c] \in InRun PROVE held[c] # held[d]
    BY <1>2, <1>a, OneRun DEF InRun
  <1>3. CASE \/ CallEmpty(c) \/ Call(c) \/ Shutdown(c) \/ SpuriousWakeClient(c)
             \/ InlineStart(c) \/ InlineEnd(c) \/ InlineReturn(c) \/ Acquire(c)
             \/ LockRun(c) \/ WaitDone(c) \/ LeaveRun(c) \/ ReleasePool(c)
             \/ JoinWorkers(c)
    <2>1. UNCHANGED <<generation, workerVars>>
      BY <1>3 DEF CallEmpty, Call, Shutdown, SpuriousWakeClient, InlineStart, InlineEnd,
           InlineReturn, Acquire, LockRun, WaitDone, LeaveRun, ReleasePool, JoinWorkers,
           poolVars
    <2> QED
      BY <1>1, <2>1
  <1>4. CASE EnsureWorkers(c) \/ SpawnFails(c)
    <2>1. PICK n : Grow(held[c], n)
      BY <1>4 DEF EnsureWorkers, SpawnFails
    <2>2. held[c] # held[d] /\ UNCHANGED <<generation, seen, slot>>
      BY <1>2, <1>4 DEF EnsureWorkers, SpawnFails, InRun
    <2>3. wpc'[held[d]] = wpc[held[d]]
      BY <2>1, <2>2, <1>a, <1>c DEF Grow, WorkerTypes
    <2> QED
      BY <1>b, <2>2, <2>3 DEF WorkersStay
  <1>5. CASE Publish(c) \/ StopPool(c)
    <2>1. held[c] # held[d]
      BY <1>2, <1>5, <1>a DEF Publish, StopPool, InRun, SharesOK, Destroying
    <2>2. /\ generation' = [generation EXCEPT ![held[c]] = @ + 1]
          /\ UNCHANGED workerVars
      BY <1>5 DEF Publish, StopPool
    <2>3. generation'[held[d]] = generation[held[d]]
      BY <2>1, <2>2, <1>a, <1>c DEF PoolTypes
    <2> QED
      BY <1>b, <2>2, <2>3 DEF WorkersStay, workerVars
  <1>6. CASE NotifyStart(c) \/ NotifyStop(c)
    <2>1. WakeWorkers(held[c]) /\ UNCHANGED <<generation, seen, slot>>
      BY <1>6 DEF NotifyStart, NotifyStop, poolVars
    <2>2. \A w \in WorkerId :
            \/ wpc'[held[d]][w] = wpc[held[d]][w]
            \/ wpc[held[d]][w] = "asleep" /\ wpc'[held[d]][w] = "check"
      BY <2>1, <1>a, <1>c DEF WakeWorkers, WorkerTypes
    <2> QED
      BY <1>b, <2>1, <2>2 DEF WorkersStay, Working
  <1> QED
    BY <1>3, <1>4, <1>5, <1>6 DEF ClientAction, ClientStep

LEMMA OthersKeep ==
  ASSUME TypeInv, RunInv, HistoryTypes, NEW c \in Clients, NEW d \in Clients,
         c # d, ClientAction(c), ClientOK(d)
  PROVE  ClientOK(d)'
  <1>1. FrameStays(d) /\ pc'[d] = pc[d] /\ request'[d] = request[d]
    BY FramesOfOthers
  <1>2. pc[d] \in Published => WorkersStay(d)
    BY WorkersOfOthers
  <1>3. ClientTypes
    BY DEF TypeInv, TypeOK
  <1> QED
    BY <1>1, <1>2, <1>3, Untouched

(* The steps of a client that do not concern its frame *)
LEMMA QuietStep ==
  ASSUME TypeInv, RunInv, HistoryTypes, NEW c \in Clients, ClientOK(c),
         \/ CallEmpty(c) \/ Shutdown(c) \/ Acquire(c) \/ LockRun(c)
         \/ EnsureWorkers(c) \/ ReleasePool(c) \/ StopPool(c) \/ NotifyStop(c)
         \/ JoinWorkers(c)
  PROVE  HistoryTypes' /\ ClientOK(c)'
  <1>1. ClientTypes
    BY DEF TypeInv, TypeOK
  <1>2. pc \in [Clients -> ClientLabels]
    BY <1>1 DEF ClientTypes
  <1>3. UNCHANGED <<frameVars, historyVars>>
    BY DEF CallEmpty, Shutdown, Acquire, LockRun, EnsureWorkers, ReleasePool, StopPool,
           NotifyStop, JoinWorkers
  <1>4. FrameStays(c) /\ HistoryTypes'
    BY <1>3 DEF FrameStays, HistoryTypes, frameVars, historyVars
  <1>5. pc[c] \notin Busy
    BY DEF CallEmpty, Shutdown, Acquire, LockRun, EnsureWorkers, ReleasePool, StopPool,
           NotifyStop, JoinWorkers, Busy, Published
  <1>6. pc'[c] \notin Busy
    BY <1>2 DEF CallEmpty, Shutdown, Acquire, LockRun, EnsureWorkers, ReleasePool,
           StopPool, NotifyStop, JoinWorkers, Busy, Published, Goto
  <1>7. pc[c] \notin Published
    BY <1>5 DEF Busy
  <1> QED
    BY <1>1, <1>4, <1>5, <1>6, <1>7, Untouched

LEMMA WaitingStep ==
  ASSUME TypeInv, RunInv, HistoryTypes, NEW c \in Clients, ClientOK(c),
         SpuriousWakeClient(c) \/ NotifyStart(c)
           \/ (WaitDone(c) /\ finished[c] < request[c].workers)
  PROVE  HistoryTypes' /\ ClientOK(c)'
  <1>1. ClientTypes /\ WorkerTypes /\ FrameTypes /\ HeldOK
    BY DEF TypeInv, TypeOK
  <1>2. /\ pc \in [Clients -> ClientLabels]
        /\ request[c].workers \in Nat /\ finished[c] \in Nat
    BY <1>1, RequestFacts DEF ClientTypes, FrameTypes
  <1>3. UNCHANGED <<frameVars, historyVars, request, held, generation, seen, slot>>
    BY DEF SpuriousWakeClient, NotifyStart, WaitDone, poolVars, workerVars
  <1>4. FrameStays(c) /\ HistoryTypes'
    BY <1>3 DEF FrameStays, HistoryTypes, frameVars, historyVars
  <1>5. pc[c] \in Published
    BY DEF SpuriousWakeClient, NotifyStart, WaitDone, Published
  <1>6. pc'[c] \in Published
    BY <1>2 DEF SpuriousWakeClient, NotifyStart, WaitDone, Published, Goto
  <1>7. held[c] \in PoolId
    BY <1>1, <1>5 DEF HeldOK, ClientTypes, Published
  <1>8. \A w \in WorkerId :
          \/ wpc'[held[c]][w] = wpc[held[c]][w]
          \/ wpc[held[c]][w] = "asleep" /\ wpc'[held[c]][w] = "check"
    BY <1>1, <1>7 DEF SpuriousWakeClient, NotifyStart, WaitDone, workerVars, WakeWorkers,
                      WorkerTypes
  <1>9. WorkersStay(c)
    BY <1>3, <1>8 DEF WorkersStay, Working
  <1> QED
    BY <1>1, <1>3, <1>4, <1>5, <1>6, <1>9, Untouched

LEMMA CallStep ==
  ASSUME TypeInv, HistoryTypes, NEW c \in Clients, ClientOK(c), Call(c)
  PROVE  HistoryTypes' /\ ClientOK(c)'
  <1>1. ClientTypes
    BY DEF TypeInv, TypeOK
  <1>2. pc \in [Clients -> ClientLabels] /\ request \in [Clients -> Requests]
    BY <1>1 DEF ClientTypes
  <1>3. UNCHANGED <<frameVars, historyVars>>
    BY DEF Call
  <1>4. HistoryTypes' /\ FrameStays(c)
    BY <1>3 DEF FrameStays, HistoryTypes, frameVars, historyVars
  <1>5. FreshFrame(c)
    BY DEF Call, ClientOK, FreshOK, Busy, Published
  <1>6. FreshFrame(c)'
    BY <1>4, <1>5 DEF FreshFrame, FrameStays
  <1>7. PICK count \in 1..MaxCount, cap \in Caps, order \in Orders :
          /\ request' = [request EXCEPT ![c] =
               [count |-> count, workers |-> ResolveWorkerCount(cap, count),
                order |-> order]]
          /\ Goto(c, IF ResolveWorkerCount(cap, count) = 1 THEN "inline" ELSE "acquire")
    BY DEF Call
  <1>8. request'[c].count = count
    BY <1>2, <1>7
  <1>9. pc'[c] \in {"inline", "acquire"}
    BY <1>2, <1>7 DEF Goto
  <1>10. CASE pc'[c] = "inline"
    <2>1. InlineOK(c)'
      <3>1. BoardsUpTo(c, next[c])' = {}
        BY <1>6 DEF BoardsUpTo, FreshFrame
      <3> QED
        BY <1>6, <1>8, <1>10, <3>1, BoundsAssumption DEF InlineOK, FreshFrame
    <2> QED
      BY <1>4, <1>10, <2>1 DEF ClientOK, FreshOK, PoolOK, LeaveOK, Busy, Published
  <1>11. CASE pc'[c] = "acquire"
    <2>1. (pc[c] \notin Busy /\ FreshFrame(c))'
      BY <1>6, <1>11 DEF Busy, Published
    <2>2. ClientOK(c)'
      BY <2>1, FreshIsOK, PTL
    <2> QED
      BY <1>4, <2>2
  <1> QED
    BY <1>4, <1>9, <1>10, <1>11

LEMMA OneMoreBoard ==
  ASSUME NEW c, NEW n \in Nat
  PROVE  BoardsUpTo(c, n + 1) = BoardsUpTo(c, n) \union {BoardAt(c, n)}
  <1>1. 0..((n + 1) - 1) = 0..(n - 1) \union {n}
    OBVIOUS
  <1> QED
    BY <1>1 DEF BoardsUpTo

(* The loop on the calling thread *)
LEMMA InlineStartStep ==
  ASSUME TypeInv, HistoryTypes, NEW c \in Clients, ClientOK(c), InlineStart(c)
  PROVE  HistoryTypes' /\ ClientOK(c)'
  <1>1. /\ ClientTypes /\ next[c] \in Nat /\ pc \in [Clients -> ClientLabels]
        /\ request[c].count \in Nat
    BY RequestFacts DEF TypeInv, TypeOK, FrameTypes, ClientTypes
  <1>2. /\ pc[c] = "inline" /\ firstError[c] = RETURN_NO_FAULT
        /\ next[c] < request[c].count
        /\ EnterBoard(c, BoardAt(c, next[c]))
        /\ pc'[c] = "inlineBoard"
        /\ next' = next /\ firstError' = firstError /\ request' = request
    BY <1>1 DEF InlineStart, Goto, frameVars
  <1>3. BoardAt(c, next[c]) \in Nat
    BY <1>1, <1>2, BoardOfSlot
  <1>4. /\ HistoryTypes'
        /\ started'[c] = started[c] \union {BoardAt(c, next[c])}
        /\ active'[c] = active[c] \union {BoardAt(c, next[c])}
        /\ reports'[c] = reports[c]
    BY <1>2, <1>3, EnterTypes
  <1>5. /\ started[c] = BoardsUpTo(c, next[c]) /\ active[c] = {} /\ reports[c] = <<>>
    BY <1>2 DEF ClientOK, InlineOK
  <1>6. started'[c] = BoardsUpTo(c, next[c] + 1)
    BY <1>1, <1>4, <1>5, OneMoreBoard
  <1>7. /\ BoardsUpTo(c, next[c] + 1)' = BoardsUpTo(c, next[c] + 1)
        /\ BoardAt(c, next[c])' = BoardAt(c, next[c])
    BY <1>2 DEF BoardsUpTo, BoardAt
  <1>8. InlineOK(c)'
    BY <1>2, <1>4, <1>5, <1>6, <1>7 DEF InlineOK
  <1> QED
    BY <1>2, <1>4, <1>8 DEF ClientOK, FreshOK, PoolOK, LeaveOK, Busy, Published

LEMMA InlineEndStep ==
  ASSUME TypeInv, HistoryTypes, NEW c \in Clients, ClientOK(c), InlineEnd(c)
  PROVE  HistoryTypes' /\ ClientOK(c)'
  <1>1. /\ ClientTypes /\ next \in [Clients -> Nat] /\ pc \in [Clients -> ClientLabels]
        /\ firstError \in [Clients -> Outcomes]
        /\ request[c].count \in Nat
    BY RequestFacts DEF TypeInv, TypeOK, FrameTypes, ClientTypes
  <1>2. PICK outcome \in Outcomes :
          /\ LeaveBoard(c, BoardAt(c, next[c]), outcome)
          /\ firstError' = [firstError EXCEPT ![c] = outcome]
    BY DEF InlineEnd
  <1>3. /\ pc[c] = "inlineBoard" /\ pc'[c] = "inline"
        /\ next'[c] = next[c] + 1 /\ request' = request
        /\ firstError'[c] = outcome
    BY <1>1, <1>2 DEF InlineEnd, Goto
  <1>4. /\ HistoryTypes' /\ started'[c] = started[c]
        /\ active'[c] = active[c] \ {BoardAt(c, next[c])}
        /\ reports'[c] = IF outcome = RETURN_NO_FAULT THEN reports[c]
                         ELSE Append(reports[c], outcome)
    BY <1>2, LeaveTypes
  <1>5. /\ next[c] < request[c].count
        /\ started[c] = BoardsUpTo(c, next[c] + 1)
        /\ active[c] = {BoardAt(c, next[c])}
        /\ reports[c] = <<>>
    BY <1>3 DEF ClientOK, InlineOK
  <1>6. BoardsUpTo(c, next[c])' = BoardsUpTo(c, next[c] + 1)
    BY <1>3 DEF BoardsUpTo, BoardAt
  <1>7. Append(reports[c], outcome) = <<outcome>>
    BY <1>5
  <1>8. next'[c] <= request'[c].count
    BY <1>1, <1>3, <1>5
  <1>9. InlineOK(c)'
    BY <1>3, <1>4, <1>5, <1>6, <1>7, <1>8 DEF InlineOK
  <1> QED
    BY <1>3, <1>4, <1>9 DEF ClientOK, FreshOK, PoolOK, LeaveOK, Busy, Published

(* The frame dies. *)
LEMMA DeliveryStep ==
  ASSUME TypeInv, HistoryTypes, NEW c \in Clients, ClientOK(c),
         InlineReturn(c) \/ SpawnFails(c) \/ LeaveRun(c)
  PROVE  HistoryTypes' /\ ClientOK(c)'
  <1>1. ClientTypes /\ FrameTypes /\ pc \in [Clients -> ClientLabels]
    BY DEF TypeInv, TypeOK, ClientTypes
  <1>2. PICK v : Deliver(c, v) /\ UNCHANGED active
    BY DEF InlineReturn, SpawnFails, LeaveRun
  <1>3. active[c] = {}
    BY DEF InlineReturn, SpawnFails, LeaveRun, ClientOK, FreshOK, InlineOK, LeaveOK,
           FreshFrame, Busy, Published
  <1>4. HistoryTypes' /\ FreshFrame(c)'
    BY <1>1, <1>2, <1>3, DeliverTypes
  <1>5. pc'[c] \notin Busy
    BY <1>1 DEF InlineReturn, SpawnFails, LeaveRun, Goto, Busy, Published
  <1>6. (pc[c] \notin Busy /\ FreshFrame(c))'
    BY <1>4, <1>5 DEF Busy, Published
  <1>7. ClientOK(c)'
    BY <1>6, FreshIsOK, PTL
  <1> QED
    BY <1>4, <1>7

(* A new run finds no worker at work in its pool, and none that has seen   *)
(* its generation.                                                         *)
LEMMA NobodyEngaged ==
  ASSUME RunMutexOK, EngagedOK, NEW c \in Clients, held[c] \in PoolId,
         pc[c] \in InRun, pc[c] \notin Published, NEW w \in WorkerId
  PROVE  wpc[held[c]][w] \notin Engaged
  BY OneRun DEF EngagedOK, InRun

LEMMA PublishStep ==
  ASSUME TypeInv, RunInv, HistoryTypes, NEW c \in Clients, ClientOK(c), Publish(c)
  PROVE  HistoryTypes' /\ ClientOK(c)'
  <1>1. ClientTypes /\ FrameTypes /\ PoolTypes /\ WorkerTypes /\ HeldOK
    BY DEF TypeInv, TypeOK
  <1>2. /\ pc[c] = "publish" /\ pc'[c] = "notify"
        /\ next'[c] = 0 /\ firstError'[c] = RETURN_NO_FAULT
        /\ UNCHANGED <<held, request, workerVars, historyVars>>
        /\ generation' = [generation EXCEPT ![held[c]] = @ + 1]
    BY <1>1 DEF Publish, Goto, ClientTypes, FrameTypes
  <1>3. held[c] \in PoolId
    BY <1>1, <1>2 DEF HeldOK, ClientTypes
  <1>4. /\ started'[c] = {} /\ active'[c] = {} /\ reports'[c] = <<>>
        /\ HistoryTypes'
    BY <1>2 DEF ClientOK, FreshOK, FreshFrame, Busy, Published, historyVars, HistoryTypes
  <1>5. \A w \in WorkerId : wpc'[held'[c]][w] \notin Engaged
    BY <1>2, <1>3, NobodyEngaged DEF RunInv, InRun, Published, workerVars
  <1>6. At(c, {"load", "board"})' = {} /\ At(c, {"board"})' = {}
    BY <1>5 DEF At, Engaged
  <1>7. SlotsOK(c)'
    BY <1>6 DEF SlotsOK
  <1>8. request'[c].count \in Nat
    BY <1>1, <1>2, RequestFacts
  <1>9. Taken(c)' = {}
    BY <1>2, <1>8 DEF Taken
  <1>10. DispatchOK(c)'
    <2>1. {BoardAt(c, SlotOf(c, w)) : w \in At(c, {"board"})}' = {}
      BY <1>6
    <2> QED
      BY <1>4, <1>9, <2>1 DEF DispatchOK
  <1>11. DoneOK(c)'
    <2> SUFFICES ASSUME NEW w \in 0..(request'[c].workers - 1)
                 PROVE  seen'[held'[c]][w] # generation'[held'[c]]
      BY DEF DoneOK
    <2>1. w \in WorkerId
      BY <1>1, <1>2, RequestFacts
    <2>2. seen[held[c]][w] <= generation[held[c]]
      BY <1>3, <2>1 DEF RunInv, EngagedOK
    <2>3. seen[held[c]][w] \in Nat /\ generation[held[c]] \in Nat
      BY <1>1, <1>3, <2>1 DEF WorkerTypes, PoolTypes
    <2>4. generation'[held[c]] = generation[held[c]] + 1
      BY <1>1, <1>2, <1>3 DEF PoolTypes
    <2>5. seen' = seen /\ held' = held
      BY <1>2 DEF workerVars
    <2> QED
      BY <2>2, <2>3, <2>4, <2>5
  <1>12. VerdictOK(c)'
    BY <1>2, <1>4 DEF VerdictOK, PoolVerdict
  <1> QED
    BY <1>2, <1>4, <1>7, <1>10, <1>11, <1>12
       DEF ClientOK, FreshOK, InlineOK, PoolOK, LeaveOK, Busy, Published

(* run() sees finished reach its worker count. *)
LEMMA LastWaitStep ==
  ASSUME TypeInv, RunInv, HistoryTypes, NEW c \in Clients, ClientOK(c), WaitDone(c),
         finished[c] >= request[c].workers
  PROVE  HistoryTypes' /\ ClientOK(c)'
  <1>1. ClientTypes /\ FrameTypes /\ WorkerTypes /\ HeldOK
    BY DEF TypeInv, TypeOK
  <1>2. /\ pc[c] = "wait" /\ pc'[c] = "leave"
        /\ UNCHANGED <<held, request, frameVars, historyVars>>
    BY <1>1 DEF WaitDone, Goto, ClientTypes
  <1>3. held[c] \in PoolId
    BY <1>1, <1>2 DEF HeldOK, ClientTypes
  <1>4. SlotsOK(c) /\ DispatchOK(c) /\ DoneOK(c) /\ VerdictOK(c)
    BY <1>2 DEF ClientOK, PoolOK, Published
  <1>5. \A w \in 0..(request[c].workers - 1) :
          seen[held[c]][w] = generation[held[c]] /\ wpc[held[c]][w] \notin Engaged
    BY <1>1, <1>2, AllAccounted DEF RunInv, Published
  <1>6. ASSUME NEW w \in WorkerId PROVE wpc[held[c]][w] \notin Engaged
    <2> SUFFICES ASSUME wpc[held[c]][w] \in Engaged PROVE FALSE
      OBVIOUS
    <2>1. PICK d \in Clients : /\ held[d] = held[c] /\ pc[d] \in Published
                               /\ w < request[d].workers
      BY <1>3 DEF RunInv, EngagedOK
    <2>2. d = c
      BY <1>2, <2>1, OneRun DEF RunInv, InRun, Published
    <2>3. w \in 0..(request[c].workers - 1)
      BY <1>1, <2>1, <2>2, RequestFacts, BoundsAssumption DEF WorkerId
    <2> QED
      BY <1>5, <2>3
  <1>7. At(c, {"load"}) = {} /\ At(c, {"board"}) = {}
    BY <1>6 DEF At, Engaged
  <1>8. active[c] = {}
    BY <1>4, <1>7 DEF DispatchOK
  <1>9. ASSUME reports[c] = <<>> PROVE started[c] = 0..(request[c].count - 1)
    <2>1. 0 \in 0..(request[c].workers - 1)
      BY <1>1, RequestFacts, BoundsAssumption
    <2>2. next[c] >= request[c].count
      BY <1>4, <1>5, <1>9, <2>1 DEF DoneOK, Working, Engaged
    <2>3. next[c] \in Nat /\ request[c].count \in Nat
      BY <1>1, RequestFacts DEF FrameTypes
    <2>4. Taken(c) = 0..(request[c].count - 1)
      BY <1>7, <2>2, <2>3 DEF Taken
    <2>5. started[c] = BoardsUpTo(c, request[c].count)
      BY <1>4, <1>9, <2>4 DEF DispatchOK, BoardsUpTo
    <2> QED
      BY <1>1, <2>5, EveryBoardHasASlot
  <1>10. LeaveOK(c)'
    BY <1>2, <1>4, <1>8, <1>9 DEF LeaveOK, VerdictOK, frameVars, historyVars
  <1>11. HistoryTypes'
    BY <1>2 DEF HistoryTypes, historyVars
  <1> QED
    BY <1>2, <1>10, <1>11 DEF ClientOK, FreshOK, InlineOK, PoolOK, Busy, Published

LEMMA ClientKeepsFrames ==
  ASSUME TypeInv, RunInv, FrameInv, NEW c \in Clients, ClientAction(c)
  PROVE  FrameInv'
  <1>1. HistoryTypes /\ ClientOK(c)
    BY DEF FrameInv
  <1>2. request[c].workers \in Nat /\ finished[c] \in Nat
    BY RequestFacts, BoundsAssumption DEF TypeInv, TypeOK, FrameTypes
  <1>3. HistoryTypes' /\ ClientOK(c)'
    <2>1. CASE \/ CallEmpty(c) \/ Shutdown(c) \/ Acquire(c) \/ LockRun(c)
               \/ EnsureWorkers(c) \/ ReleasePool(c) \/ StopPool(c) \/ NotifyStop(c)
               \/ JoinWorkers(c)
      BY <1>1, <2>1, QuietStep
    <2>2. CASE \/ SpuriousWakeClient(c) \/ NotifyStart(c)
               \/ WaitDone(c) /\ finished[c] < request[c].workers
      BY <1>1, <2>2, WaitingStep
    <2>3. CASE WaitDone(c) /\ finished[c] >= request[c].workers
      BY <1>1, <2>3, LastWaitStep
    <2>4. CASE Call(c)
      BY <1>1, <2>4, CallStep
    <2>5. CASE InlineStart(c)
      BY <1>1, <2>5, InlineStartStep
    <2>6. CASE InlineEnd(c)
      BY <1>1, <2>6, InlineEndStep
    <2>7. CASE InlineReturn(c) \/ SpawnFails(c) \/ LeaveRun(c)
      BY <1>1, <2>7, DeliveryStep
    <2>8. CASE Publish(c)
      BY <1>1, <2>8, PublishStep
    <2> QED
      BY <1>2, <2>1, <2>2, <2>3, <2>4, <2>5, <2>6, <2>7, <2>8 DEF ClientAction, ClientStep
  <1>4. ASSUME NEW d \in Clients, d # c PROVE ClientOK(d)'
    BY <1>1, <1>4, OthersKeep DEF FrameInv
  <1> QED
    BY <1>3, <1>4 DEF FrameInv

-----------------------------------------------------------------------------
(* The steps of a worker *)

(* Those that dispatch nothing: waking, picking up a job, accounting,      *)
(* signalling.                                                             *)
LEMMA WorkerQuietStep ==
  ASSUME TypeInv, FrameInv, NEW p \in PoolId, NEW w \in WorkerId,
         SpuriousWakeWorker(p, w) \/ CheckStart(p, w) \/ Account(p, w) \/ SignalDone(p, w)
  PROVE  FrameInv'
  <1>1. ClientTypes /\ WorkerTypes
    BY DEF TypeInv, TypeOK
  <1>2. UNCHANGED <<next, firstError, historyVars, held, request, generation, slot>>
    BY DEF SpuriousWakeWorker, CheckStart, Account, SignalDone, clientVars, frameVars,
           poolVars
  <1>3. HistoryTypes'
    BY <1>2 DEF FrameInv, HistoryTypes, historyVars
  <1>4. \A q \in PoolId, v \in WorkerId :
          \/ wpc'[q][v] = wpc[q][v] /\ seen'[q][v] = seen[q][v]
          \/ /\ wpc[q][v] \in {"check", "asleep", "account", "signal"}
             /\ \/ wpc'[q][v] = "fetch"
                \/ /\ wpc'[q][v] \in {"exited", "asleep", "check", "signal"}
                   /\ seen'[q][v] = seen[q][v]
    BY <1>1 DEF SpuriousWakeWorker, CheckStart, Account, SignalDone, WGoto, WorkerTypes
  <1>5. ASSUME NEW d \in Clients PROVE ClientOK(d)'
    <2>1. FrameStays(d)
      BY <1>2 DEF FrameStays, historyVars
    <2>2. pc'[d] = pc[d] \/ (pc[d] = "asleep" /\ pc'[d] = "wait")
      <3>1. SpuriousWakeWorker(p, w) \/ WorkerStep(p, w)
        BY DEF WorkerStep
      <3> QED
        BY <1>1, <3>1, WorkerFrame
    <2>3. ASSUME pc[d] \in Published PROVE WorkersStay(d)
      <3>1. held[d] \in PoolId
        BY <1>1, <2>3 DEF TypeInv, HeldOK, ClientTypes, Published
      <3> QED
        BY <1>2, <1>4, <3>1 DEF WorkersStay, Working
    <2> QED
      BY <1>1, <1>2, <2>1, <2>2, <2>3, Untouched DEF FrameInv, Published
  <1> QED
    BY <1>3, <1>5 DEF FrameInv

(* A worker that works does so for the only run of its pool. *)
LEMMA WorksForOwner ==
  ASSUME TypeInv, RunInv, NEW p \in PoolId, NEW w \in WorkerId, wpc[p][w] \in Engaged
  PROVE  /\ Owner(p, w) \in Clients
         /\ held[Owner(p, w)] = p /\ pc[Owner(p, w)] \in Published
         /\ w \in 0..(request[Owner(p, w)].workers - 1)
         /\ seen[p][w] = generation[p]
         /\ \A d \in Clients :
              pc[d] \in Published /\ d # Owner(p, w) => held[d] # p
  <1>1. PICK c \in Clients : /\ local[p][w] = Frame(c) /\ held[c] = p
                             /\ pc[c] \in Published /\ w < request[c].workers
    BY DEF RunInv, EngagedOK
  <1>2. Owner(p, w) = c
    BY <1>1 DEF Owner, Frame
  <1>3. request[c].workers \in Nat
    BY RequestFacts, BoundsAssumption DEF TypeInv, TypeOK
  <1>4. w \in 0..(request[c].workers - 1)
    BY <1>1, <1>3, BoundsAssumption DEF WorkerId
  <1>5. \A d \in Clients : pc[d] \in Published /\ d # c => held[d] # p
    BY <1>1, OneRun DEF RunInv, InRun, Published
  <1>6. seen[p][w] = generation[p]
    BY DEF RunInv, EngagedOK
  <1> QED
    BY <1>1, <1>2, <1>4, <1>5, <1>6

(* What it does leaves every other client alone. *)
LEMMA WorkLeavesOthers ==
  ASSUME TypeInv, RunInv, FrameInv, NEW p \in PoolId, NEW w \in WorkerId,
         wpc[p][w] \in Engaged, NEW d \in Clients, d # Owner(p, w), FrameStays(d),
         UNCHANGED <<clientVars, generation, seen>>,
         \A q \in PoolId : q # p => wpc'[q] = wpc[q] /\ slot'[q] = slot[q]
  PROVE  ClientOK(d)'
  <1>1. UNCHANGED <<pc, held, request>> /\ ClientTypes
    BY DEF clientVars, TypeInv, TypeOK
  <1>2. ASSUME pc[d] \in Published PROVE WorkersStay(d)
    <2>1. held[d] \in PoolId
      BY <1>1, <1>2 DEF TypeInv, HeldOK, ClientTypes, Published
    <2>2. held[d] # p
      BY <1>2, WorksForOwner
    <2> QED
      BY <1>1, <2>1, <2>2 DEF WorkersStay
  <1> QED
    BY <1>1, <1>2, Untouched DEF FrameInv

LEMMA FetchKeeps ==
  ASSUME TypeInv, RunInv, FrameInv, NEW p \in PoolId, NEW w \in WorkerId,
         NEW c \in Clients, Owner(p, w) = c, FetchSlot(p, w)
  PROVE  FrameInv'
  <1>1. ClientTypes /\ FrameTypes /\ WorkerTypes
    BY DEF TypeInv, TypeOK
  <1>2. /\ wpc[p][w] = "fetch" /\ wpc[p][w] \in Engaged
        /\ slot' = [slot EXCEPT ![p][w] = next[c]]
        /\ next' = [next EXCEPT ![c] = @ + 1]
        /\ wpc' = [wpc EXCEPT ![p][w] = "load"]
        /\ UNCHANGED <<seen, clientVars, firstError, historyVars, generation>>
    BY DEF FetchSlot, WGoto, Engaged, poolVars
  <1>3. /\ held[c] = p /\ pc[c] \in Published
        /\ seen[p][w] = generation[p]
    BY <1>2, WorksForOwner
  <1>4. /\ next[c] \in Nat /\ next'[c] = next[c] + 1
        /\ \A d \in Clients : d # c => next'[d] = next[d]
    BY <1>1, <1>2, <1>3 DEF FrameTypes
  <1>5. /\ wpc'[p][w] = "load" /\ slot'[p][w] = next[c]
        /\ \A v \in WorkerId : v # w => wpc'[p][v] = wpc[p][v] /\ slot'[p][v] = slot[p][v]
        /\ \A q \in PoolId : q # p => wpc'[q] = wpc[q] /\ slot'[q] = slot[q]
    BY <1>1, <1>2 DEF WorkerTypes
  <1>6. UNCHANGED <<pc, held, request, firstError, started, active, reports>>
    BY <1>2 DEF clientVars, historyVars
  <1>7. SlotsOK(c) /\ DispatchOK(c) /\ DoneOK(c) /\ VerdictOK(c)
    BY <1>3 DEF FrameInv, ClientOK, PoolOK
  <1>8. /\ At(c, {"load", "board"})' = At(c, {"load", "board"}) \union {w}
        /\ At(c, {"load"})' = At(c, {"load"}) \union {w}
        /\ At(c, {"board"})' = At(c, {"board"})
        /\ w \notin At(c, {"load", "board"})
        /\ At(c, {"load"}) \subseteq At(c, {"load", "board"})
        /\ At(c, {"board"}) \subseteq At(c, {"load", "board"})
    BY <1>2, <1>3, <1>5, <1>6 DEF At
  <1>9. /\ SlotOf(c, w)' = next[c]
        /\ \A v \in At(c, {"load", "board"}) : SlotOf(c, v)' = SlotOf(c, v)
    BY <1>3, <1>5, <1>6, <1>8 DEF At, SlotOf
  <1>10. \A v \in At(c, {"load", "board"}) : SlotOf(c, v) \in Nat
    BY <1>1, <1>3 DEF At, SlotOf, WorkerTypes
  <1>11. SlotsOK(c)'
    <2>1. \A v \in At(c, {"load", "board"})' : SlotOf(c, v)' < next'[c]
      BY <1>4, <1>7, <1>8, <1>9, <1>10 DEF SlotsOK
    <2>2. \A u, v \in At(c, {"load", "board"})' :
            SlotOf(c, u)' = SlotOf(c, v)' => u = v
      BY <1>4, <1>7, <1>8, <1>9, <1>10 DEF SlotsOK
    <2>3. \A v \in At(c, {"board"})' : SlotOf(c, v)' < request'[c].count
      BY <1>6, <1>7, <1>8, <1>9 DEF SlotsOK
    <2> QED
      BY <2>1, <2>2, <2>3 DEF SlotsOK
  <1>12. Taken(c)' = Taken(c)
    <2>1. request'[c].count = request[c].count /\ request[c].count \in Nat
      BY <1>1, <1>3, <1>6, RequestFacts
    <2>2. ASSUME NEW s \in 0..(request[c].count - 1)
          PROVE  (s < next'[c] /\ \A v \in At(c, {"load"})' : SlotOf(c, v)' # s)
                   <=> (s < next[c] /\ \A v \in At(c, {"load"}) : SlotOf(c, v) # s)
      BY <1>4, <1>8, <1>9, <2>1
    <2> QED
      BY <2>1, <2>2 DEF Taken
  <1>13. DispatchOK(c)'
    <2>1. \A s : BoardAt(c, s)' = BoardAt(c, s)
      BY <1>6, BoardAtSame
    <2>2. {BoardAt(c, SlotOf(c, v)) : v \in At(c, {"board"})}' =
            {BoardAt(c, SlotOf(c, v)) : v \in At(c, {"board"})}
      <3>1. \A v \in At(c, {"board"}) :
              BoardAt(c, SlotOf(c, v))' = BoardAt(c, SlotOf(c, v))
        BY <1>6, <1>8, <1>9 DEF BoardAt
      <3> QED
        BY <1>8, <3>1
    <2>3. active'[c] = {BoardAt(c, SlotOf(c, v)) : v \in At(c, {"board"})}'
      BY <1>6, <1>7, <2>2 DEF DispatchOK
    <2>4. \A b \in started'[c] : \E s \in Taken(c)' : b = BoardAt(c, s)'
      BY <1>6, <1>7, <1>12, <2>1 DEF DispatchOK
    <2>5. reports'[c] = <<>> => \A s \in Taken(c)' : BoardAt(c, s)' \in started'[c]
      BY <1>6, <1>7, <1>12, <2>1 DEF DispatchOK
    <2> QED
      BY <2>3, <2>4, <2>5 DEF DispatchOK
  <1>14. DoneOK(c)'
    <2> SUFFICES ASSUME reports'[c] = <<>>,
                        NEW v \in 0..(request'[c].workers - 1),
                        seen'[held'[c]][v] = generation'[held'[c]],
                        wpc'[held'[c]][v] \notin Working
                 PROVE  next'[c] >= request'[c].count
      BY DEF DoneOK
    <2>1. v \in WorkerId /\ request[c].count \in Nat
      BY <1>1, <1>3, <1>6, RequestFacts
    <2>2. v # w
      BY <1>3, <1>5, <1>6 DEF Working
    <2>3. seen[held[c]][v] = generation[held[c]] /\ wpc[held[c]][v] \notin Working
      BY <1>2, <1>3, <1>5, <1>6, <2>1, <2>2
    <2>4. next[c] >= request[c].count
      BY <1>6, <1>7, <2>3 DEF DoneOK
    <2> QED
      BY <1>4, <1>6, <2>1, <2>4
  <1>15. VerdictOK(c)'
    BY <1>6, <1>7 DEF VerdictOK
  <1>16. ClientOK(c)'
    BY <1>3, <1>6, <1>11, <1>13, <1>14, <1>15
       DEF ClientOK, FreshOK, InlineOK, PoolOK, LeaveOK, Busy, Published
  <1>17. ASSUME NEW d \in Clients, d # c PROVE ClientOK(d)'
    <2>1. FrameStays(d)
      BY <1>4, <1>6, <1>17 DEF FrameStays
    <2> QED
      BY <1>2, <1>5, <1>17, <2>1, WorkLeavesOthers
  <1>18. HistoryTypes'
    BY <1>6 DEF FrameInv, HistoryTypes
  <1> QED
    BY <1>16, <1>17, <1>18 DEF FrameInv

LEMMA StartKeeps ==
  ASSUME TypeInv, RunInv, FrameInv, NEW p \in PoolId, NEW w \in WorkerId,
         NEW c \in Clients, Owner(p, w) = c, StartBoard(p, w)
  PROVE  FrameInv'
  <1>1. ClientTypes /\ FrameTypes /\ WorkerTypes /\ HistoryTypes
    BY DEF TypeInv, TypeOK, FrameInv
  <1>2. /\ wpc[p][w] = "load" /\ wpc[p][w] \in Engaged
        /\ slot[p][w] < request[c].count
        /\ EnterBoard(c, BoardAt(c, slot[p][w]))
        /\ wpc' = [wpc EXCEPT ![p][w] = "board"]
        /\ UNCHANGED <<seen, slot, clientVars, next, firstError, generation>>
    BY DEF StartBoard, WGoto, Engaged, poolVars, frameVars
  <1>3. /\ held[c] = p /\ pc[c] \in Published /\ seen[p][w] = generation[p]
    BY <1>2, WorksForOwner
  <1>4. UNCHANGED <<pc, held, request, next, firstError, seen, slot, generation>>
    BY <1>2 DEF clientVars
  <1>5. /\ wpc'[p][w] = "board"
        /\ \A v \in WorkerId : v # w => wpc'[p][v] = wpc[p][v]
        /\ \A q \in PoolId : q # p => wpc'[q] = wpc[q]
    BY <1>1, <1>2 DEF WorkerTypes
  <1>6. /\ request[c].count \in Nat /\ slot[p][w] \in Nat /\ next[c] \in Nat
        /\ slot[p][w] \in 0..(request[c].count - 1)
    BY <1>1, <1>2, RequestFacts DEF WorkerTypes, FrameTypes
  <1>7. BoardAt(c, slot[p][w]) \in Nat
    BY <1>1, <1>6, BoardOfSlot
  <1>8. /\ HistoryTypes'
        /\ started'[c] = started[c] \union {BoardAt(c, slot[p][w])}
        /\ active'[c] = active[c] \union {BoardAt(c, slot[p][w])}
        /\ reports'[c] = reports[c]
        /\ \A d \in Clients : d # c =>
             started'[d] = started[d] /\ active'[d] = active[d] /\ reports'[d] = reports[d]
    BY <1>1, <1>2, <1>7, EnterTypes
  <1>9. SlotsOK(c) /\ DispatchOK(c) /\ DoneOK(c) /\ VerdictOK(c)
    BY <1>3 DEF FrameInv, ClientOK, PoolOK
  <1>10. /\ At(c, {"load", "board"})' = At(c, {"load", "board"})
         /\ At(c, {"load"})' = At(c, {"load"}) \ {w}
         /\ At(c, {"board"})' = At(c, {"board"}) \union {w}
         /\ w \in At(c, {"load", "board"}) /\ w \in At(c, {"load"})
         /\ At(c, {"load"}) \subseteq At(c, {"load", "board"})
         /\ At(c, {"board"}) \subseteq At(c, {"load", "board"})
    BY <1>2, <1>3, <1>4, <1>5 DEF At
  <1>11. (\A v : SlotOf(c, v)' = SlotOf(c, v)) /\ SlotOf(c, w) = slot[p][w]
    BY <1>3, <1>4 DEF SlotOf
  <1>12. SlotsOK(c)'
    BY <1>2, <1>4, <1>9, <1>10, <1>11 DEF SlotsOK
  <1>13. Taken(c)' = Taken(c) \union {slot[p][w]}
    <2>1. slot[p][w] < next[c]
      BY <1>9, <1>10, <1>11 DEF SlotsOK
    <2>2. \A v \in At(c, {"load"}) : SlotOf(c, v) = slot[p][w] => v = w
      BY <1>9, <1>10, <1>11 DEF SlotsOK
    <2>3. ASSUME NEW s \in 0..(request[c].count - 1)
          PROVE  (\A v \in At(c, {"load"})' : SlotOf(c, v)' # s)
                   <=> ((\A v \in At(c, {"load"}) : SlotOf(c, v) # s) \/ s = slot[p][w])
      BY <1>10, <1>11, <2>2
    <2> QED
      BY <1>4, <1>6, <2>1, <2>3 DEF Taken
  <1>14. DispatchOK(c)'
    <2>1. \A s : BoardAt(c, s)' = BoardAt(c, s)
      BY <1>4, BoardAtSame
    <2>2. active'[c] = {BoardAt(c, SlotOf(c, v)) : v \in At(c, {"board"})}'
      <3>1. \A v : BoardAt(c, SlotOf(c, v))' = BoardAt(c, SlotOf(c, v))
        BY <1>4, <1>11 DEF BoardAt
      <3>2. {BoardAt(c, SlotOf(c, v)) : v \in At(c, {"board"})}' =
              {BoardAt(c, SlotOf(c, v)) : v \in At(c, {"board"})}
                \union {BoardAt(c, slot[p][w])}
        BY <1>10, <1>11, <3>1
      <3> QED
        BY <1>8, <1>9, <3>2 DEF DispatchOK
    <2>3. \A b \in started'[c] : \E s \in Taken(c)' : b = BoardAt(c, s)'
      BY <1>8, <1>9, <1>13, <2>1 DEF DispatchOK
    <2>4. reports'[c] = <<>> => \A s \in Taken(c)' : BoardAt(c, s)' \in started'[c]
      BY <1>8, <1>9, <1>13, <2>1 DEF DispatchOK
    <2> QED
      BY <2>2, <2>3, <2>4 DEF DispatchOK
  <1>15. DoneOK(c)'
    <2> SUFFICES ASSUME reports'[c] = <<>>,
                        NEW v \in 0..(request'[c].workers - 1),
                        seen'[held'[c]][v] = generation'[held'[c]],
                        wpc'[held'[c]][v] \notin Working
                 PROVE  next'[c] >= request'[c].count
      BY DEF DoneOK
    <2>1. v \in WorkerId
      BY <1>1, <1>4, RequestFacts
    <2>2. v # w
      BY <1>3, <1>4, <1>5 DEF Working
    <2>3. seen[held[c]][v] = generation[held[c]] /\ wpc[held[c]][v] \notin Working
      BY <1>3, <1>4, <1>5, <2>1, <2>2
    <2> QED
      BY <1>4, <1>8, <1>9, <2>3 DEF DoneOK
  <1>16. VerdictOK(c)'
    BY <1>4, <1>8, <1>9 DEF VerdictOK
  <1>17. ClientOK(c)'
    BY <1>3, <1>4, <1>12, <1>14, <1>15, <1>16
       DEF ClientOK, FreshOK, InlineOK, PoolOK, LeaveOK, Busy, Published
  <1>18. ASSUME NEW d \in Clients, d # c PROVE ClientOK(d)'
    <2>1. FrameStays(d)
      BY <1>4, <1>8, <1>18 DEF FrameStays
    <2> QED
      BY <1>2, <1>5, <1>18, <2>1, WorkLeavesOthers
  <1> QED
    BY <1>8, <1>17, <1>18 DEF FrameInv

LEMMA DropKeeps ==
  ASSUME TypeInv, RunInv, FrameInv, NEW p \in PoolId, NEW w \in WorkerId,
         NEW c \in Clients, Owner(p, w) = c, StopDispatch(p, w)
  PROVE  FrameInv'
  <1>1. ClientTypes /\ FrameTypes /\ WorkerTypes /\ HistoryTypes
    BY DEF TypeInv, TypeOK, FrameInv
  <1>2. /\ wpc[p][w] = "load" /\ wpc[p][w] \in Engaged
        /\ slot[p][w] >= request[c].count \/ firstError[c] # RETURN_NO_FAULT
        /\ slot' = [slot EXCEPT ![p][w] = 0]
        /\ wpc' = [wpc EXCEPT ![p][w] = "account"]
        /\ UNCHANGED <<seen, clientVars, next, firstError, generation, historyVars>>
    BY DEF StopDispatch, WGoto, Engaged, poolVars, frameVars
  <1>3. /\ held[c] = p /\ pc[c] \in Published
    BY <1>2, WorksForOwner
  <1>4. UNCHANGED <<pc, held, request, next, firstError, seen, generation, started,
                    active, reports>>
    BY <1>2 DEF clientVars, historyVars
  <1>5. /\ wpc'[p][w] = "account"
        /\ \A v \in WorkerId : v # w => wpc'[p][v] = wpc[p][v] /\ slot'[p][v] = slot[p][v]
        /\ \A q \in PoolId : q # p => wpc'[q] = wpc[q] /\ slot'[q] = slot[q]
    BY <1>1, <1>2 DEF WorkerTypes
  <1>6. /\ request[c].count \in Nat /\ slot[p][w] \in Nat /\ next[c] \in Nat
        /\ reports[c] \in Seq(Faults)
    BY <1>1, RequestFacts DEF WorkerTypes, FrameTypes, HistoryTypes, Faults
  <1>7. SlotsOK(c) /\ DispatchOK(c) /\ DoneOK(c) /\ VerdictOK(c)
    BY <1>3 DEF FrameInv, ClientOK, PoolOK
  <1>8. /\ At(c, {"load", "board"})' = At(c, {"load", "board"}) \ {w}
        /\ At(c, {"load"})' = At(c, {"load"}) \ {w}
        /\ At(c, {"board"})' = At(c, {"board"})
        /\ w \in At(c, {"load", "board"}) /\ w \notin At(c, {"board"})
        /\ At(c, {"load"}) \subseteq At(c, {"load", "board"})
        /\ At(c, {"board"}) \subseteq At(c, {"load", "board"})
    BY <1>2, <1>3, <1>4, <1>5 DEF At
  <1>9. /\ \A v \in At(c, {"load", "board"}) : v # w => SlotOf(c, v)' = SlotOf(c, v)
        /\ SlotOf(c, w) = slot[p][w]
    BY <1>3, <1>4, <1>5 DEF At, SlotOf
  <1>10. SlotsOK(c)'
    BY <1>4, <1>7, <1>8, <1>9 DEF SlotsOK
  <1>11. Taken(c) \subseteq Taken(c)'
    BY <1>4, <1>8, <1>9 DEF Taken
  <1>12. reports[c] = <<>> => slot[p][w] >= request[c].count
    BY <1>2, <1>6, <1>7, VerdictIsError DEF VerdictOK
  <1>13. reports[c] = <<>> => Taken(c)' = Taken(c)
    <2> SUFFICES ASSUME reports[c] = <<>>, NEW s \in Taken(c)' PROVE s \in Taken(c)
      BY <1>11
    <2>1. s \in 0..(request[c].count - 1) /\ s < next[c]
      BY <1>4 DEF Taken
    <2>2. s # slot[p][w]
      BY <1>6, <1>12, <2>1
    <2>3. \A v \in At(c, {"load"}) : SlotOf(c, v) # s
      BY <1>8, <1>9, <2>2 DEF Taken
    <2> QED
      BY <2>1, <2>3 DEF Taken
  <1>14. DispatchOK(c)'
    <2>1. \A s : BoardAt(c, s)' = BoardAt(c, s)
      BY <1>4, BoardAtSame
    <2>2. active'[c] = {BoardAt(c, SlotOf(c, v)) : v \in At(c, {"board"})}'
      <3>1. \A v \in At(c, {"board"}) :
              BoardAt(c, SlotOf(c, v))' = BoardAt(c, SlotOf(c, v))
        BY <1>4, <1>8, <1>9 DEF BoardAt
      <3>2. {BoardAt(c, SlotOf(c, v)) : v \in At(c, {"board"})}' =
              {BoardAt(c, SlotOf(c, v)) : v \in At(c, {"board"})}
        BY <1>8, <3>1
      <3> QED
        BY <1>4, <1>7, <3>2 DEF DispatchOK
    <2>3. \A b \in started'[c] : \E s \in Taken(c)' : b = BoardAt(c, s)'
      BY <1>4, <1>7, <1>11, <2>1 DEF DispatchOK
    <2>4. reports'[c] = <<>> => \A s \in Taken(c)' : BoardAt(c, s)' \in started'[c]
      BY <1>4, <1>7, <1>13, <2>1 DEF DispatchOK
    <2> QED
      BY <2>2, <2>3, <2>4 DEF DispatchOK
  <1>15. DoneOK(c)'
    <2> SUFFICES ASSUME reports'[c] = <<>>,
                        NEW v \in 0..(request'[c].workers - 1),
                        seen'[held'[c]][v] = generation'[held'[c]],
                        wpc'[held'[c]][v] \notin Working
                 PROVE  next'[c] >= request'[c].count
      BY DEF DoneOK
    <2>1. v \in WorkerId
      BY <1>1, <1>4, RequestFacts
    <2>2. CASE v = w
      <3>1. slot[p][w] < next[c]
        BY <1>7, <1>8, <1>9 DEF SlotsOK
      <3> QED
        BY <1>4, <1>6, <1>12, <3>1
    <2>3. CASE v # w
      <3>1. seen[held[c]][v] = generation[held[c]] /\ wpc[held[c]][v] \notin Working
        BY <1>3, <1>4, <1>5, <2>1, <2>3
      <3> QED
        BY <1>4, <1>7, <3>1 DEF DoneOK
    <2> QED
      BY <2>2, <2>3
  <1>16. VerdictOK(c)'
    BY <1>4, <1>7 DEF VerdictOK
  <1>17. ClientOK(c)'
    BY <1>3, <1>4, <1>10, <1>14, <1>15, <1>16
       DEF ClientOK, FreshOK, InlineOK, PoolOK, LeaveOK, Busy, Published
  <1>18. ASSUME NEW d \in Clients, d # c PROVE ClientOK(d)'
    <2>1. FrameStays(d)
      BY <1>4, <1>18 DEF FrameStays
    <2> QED
      BY <1>2, <1>5, <1>18, <2>1, WorkLeavesOthers
  <1>19. HistoryTypes'
    BY <1>1, <1>4 DEF HistoryTypes
  <1> QED
    BY <1>17, <1>18, <1>19 DEF FrameInv

LEMMA EndKeeps ==
  ASSUME TypeInv, RunInv, FrameInv, NEW p \in PoolId, NEW w \in WorkerId,
         NEW c \in Clients, Owner(p, w) = c, EndBoard(p, w)
  PROVE  FrameInv'
  <1>1. ClientTypes /\ FrameTypes /\ WorkerTypes /\ HistoryTypes
    BY DEF TypeInv, TypeOK, FrameInv
  <1>2. PICK outcome \in Outcomes :
          /\ LeaveBoard(c, BoardAt(c, slot[p][w]), outcome)
          /\ IF outcome = RETURN_NO_FAULT
             THEN WGoto(p, w, "fetch") /\ UNCHANGED firstError
             ELSE WGoto(p, w, "account") /\ RecordOutcome(c, outcome)
    BY DEF EndBoard
  <1>3. /\ wpc[p][w] = "board" /\ wpc[p][w] \in Engaged
        /\ slot' = [slot EXCEPT ![p][w] = 0]
        /\ UNCHANGED <<seen, clientVars, next, generation>>
    BY DEF EndBoard, Engaged, poolVars
  <1>4. /\ held[c] = p /\ pc[c] \in Published
    BY <1>3, WorksForOwner
  <1>5. UNCHANGED <<pc, held, request, next, seen, generation>>
    BY <1>3 DEF clientVars
  <1>6. /\ wpc'[p][w] = IF outcome = RETURN_NO_FAULT THEN "fetch" ELSE "account"
        /\ \A v \in WorkerId : v # w => wpc'[p][v] = wpc[p][v] /\ slot'[p][v] = slot[p][v]
        /\ \A q \in PoolId : q # p => wpc'[q] = wpc[q] /\ slot'[q] = slot[q]
    <2>1. CASE outcome = RETURN_NO_FAULT
      BY <1>1, <1>2, <1>3, <2>1 DEF WorkerTypes, WGoto
    <2>2. CASE outcome # RETURN_NO_FAULT
      BY <1>1, <1>2, <1>3, <2>2 DEF WorkerTypes, WGoto
    <2> QED
      BY <2>1, <2>2
  <1>7. /\ request[c].count \in Nat /\ slot[p][w] \in Nat /\ next[c] \in Nat
        /\ reports[c] \in Seq(Faults)
        /\ firstError \in [Clients -> Outcomes]
    BY <1>1, RequestFacts DEF WorkerTypes, FrameTypes, HistoryTypes, Faults
  <1>8. /\ HistoryTypes' /\ started'[c] = started[c]
        /\ active'[c] = active[c] \ {BoardAt(c, slot[p][w])}
        /\ reports'[c] = IF outcome = RETURN_NO_FAULT THEN reports[c]
                         ELSE Append(reports[c], outcome)
        /\ \A d \in Clients : d # c =>
             started'[d] = started[d] /\ active'[d] = active[d] /\ reports'[d] = reports[d]
    BY <1>1, <1>2, LeaveTypes
  <1>9. SlotsOK(c) /\ DispatchOK(c) /\ DoneOK(c) /\ VerdictOK(c)
    BY <1>4 DEF FrameInv, ClientOK, PoolOK
  <1>10. /\ At(c, {"load", "board"})' = At(c, {"load", "board"}) \ {w}
         /\ At(c, {"load"})' = At(c, {"load"})
         /\ At(c, {"board"})' = At(c, {"board"}) \ {w}
         /\ w \in At(c, {"load", "board"}) /\ w \in At(c, {"board"})
         /\ w \notin At(c, {"load"})
         /\ At(c, {"load"}) \subseteq At(c, {"load", "board"})
         /\ At(c, {"board"}) \subseteq At(c, {"load", "board"})
    BY <1>3, <1>4, <1>5, <1>6 DEF At
  <1>11. /\ \A v \in At(c, {"load", "board"}) : v # w => SlotOf(c, v)' = SlotOf(c, v)
         /\ SlotOf(c, w) = slot[p][w]
    BY <1>4, <1>5, <1>6 DEF At, SlotOf
  <1>12. SlotsOK(c)'
    BY <1>5, <1>9, <1>10, <1>11 DEF SlotsOK
  <1>13. Taken(c)' = Taken(c)
    BY <1>5, <1>10, <1>11 DEF Taken
  <1>14. reports'[c] = <<>> => outcome = RETURN_NO_FAULT /\ reports[c] = <<>>
    <2>1. outcome # RETURN_NO_FAULT => outcome \in Faults
      BY OutcomesSplit
    <2>2. outcome # RETURN_NO_FAULT => reports'[c] # <<>>
      BY <1>7, <1>8, <2>1, VerdictGrows
    <2> QED
      BY <1>8, <2>2
  <1>15. DispatchOK(c)'
    <2>1. \A s : BoardAt(c, s)' = BoardAt(c, s)
      BY <1>5, BoardAtSame
    <2>2. active'[c] = {BoardAt(c, SlotOf(c, v)) : v \in At(c, {"board"})}'
      <3>1. \A v \in At(c, {"board"}) : v # w =>
              BoardAt(c, SlotOf(c, v))' = BoardAt(c, SlotOf(c, v))
        BY <1>5, <1>10, <1>11 DEF BoardAt
      <3>2. \A v \in At(c, {"board"}) : SlotOf(c, v) \in 0..(request[c].count - 1)
        BY <1>1, <1>4, <1>7, <1>9 DEF SlotsOK, At, SlotOf, WorkerTypes
      <3>3. ASSUME NEW v \in At(c, {"board"}), v # w
            PROVE  BoardAt(c, SlotOf(c, v)) # BoardAt(c, slot[p][w])
        <4>1. SlotOf(c, v) # SlotOf(c, w)
          BY <1>9, <1>10, <3>3 DEF SlotsOK
        <4> QED
          BY <1>1, <1>10, <1>11, <3>2, <4>1, SlotsDiffer
      <3>4. {BoardAt(c, SlotOf(c, v)) : v \in At(c, {"board"})}' =
              {BoardAt(c, SlotOf(c, v)) : v \in At(c, {"board"}) \ {w}}
        BY <1>10, <3>1
      <3>5. {BoardAt(c, SlotOf(c, v)) : v \in At(c, {"board"}) \ {w}} =
              {BoardAt(c, SlotOf(c, v)) : v \in At(c, {"board"})}
                \ {BoardAt(c, slot[p][w])}
        BY <1>10, <1>11, <3>3
      <3> QED
        BY <1>8, <1>9, <3>4, <3>5 DEF DispatchOK
    <2>3. \A b \in started'[c] : \E s \in Taken(c)' : b = BoardAt(c, s)'
      BY <1>8, <1>9, <1>13, <2>1 DEF DispatchOK
    <2>4. reports'[c] = <<>> => \A s \in Taken(c)' : BoardAt(c, s)' \in started'[c]
      <3> SUFFICES ASSUME reports'[c] = <<>>, NEW s \in Taken(c)'
                   PROVE  BoardAt(c, s)' \in started'[c]
        OBVIOUS
      <3>1. reports[c] = <<>> /\ started'[c] = started[c] /\ s \in Taken(c)
        BY <1>8, <1>13, <1>14
      <3> QED
        BY <1>9, <2>1, <3>1 DEF DispatchOK
    <2> QED
      BY <2>2, <2>3, <2>4 DEF DispatchOK
  <1>16. DoneOK(c)'
    <2> SUFFICES ASSUME reports'[c] = <<>>,
                        NEW v \in 0..(request'[c].workers - 1),
                        seen'[held'[c]][v] = generation'[held'[c]],
                        wpc'[held'[c]][v] \notin Working
                 PROVE  next'[c] >= request'[c].count
      BY DEF DoneOK
    <2>1. v \in WorkerId
      BY <1>1, <1>5, RequestFacts
    <2>2. v # w
      BY <1>4, <1>5, <1>6, <1>14 DEF Working
    <2>3. seen[held[c]][v] = generation[held[c]] /\ wpc[held[c]][v] \notin Working
      BY <1>4, <1>5, <1>6, <2>1, <2>2
    <2> QED
      BY <1>5, <1>8, <1>9, <1>14, <2>3 DEF DoneOK
  <1>17. firstError'[c] = PoolVerdict(reports'[c])
    <2>1. CASE outcome = RETURN_NO_FAULT
      BY <1>2, <1>8, <1>9, <2>1 DEF VerdictOK
    <2>2. CASE outcome # RETURN_NO_FAULT
      <3>1. outcome \in Faults
        BY <2>2, OutcomesSplit
      <3>2. firstError'[c] = IF outcome = Thrown THEN RETURN_UNKNOWN_FAULT
                             ELSE IF firstError[c] = RETURN_NO_FAULT THEN outcome
                             ELSE firstError[c]
        BY <1>2, <1>7, <2>2 DEF RecordOutcome
      <3> QED
        BY <1>7, <1>8, <1>9, <2>2, <3>1, <3>2, VerdictGrows DEF VerdictOK
    <2> QED
      BY <2>1, <2>2
  <1>18. ClientOK(c)'
    BY <1>4, <1>5, <1>12, <1>15, <1>16, <1>17
       DEF ClientOK, FreshOK, InlineOK, PoolOK, LeaveOK, VerdictOK, Busy, Published
  <1>19. ASSUME NEW d \in Clients, d # c PROVE ClientOK(d)'
    <2>1. firstError'[d] = firstError[d]
      BY <1>2, <1>7, <1>19 DEF RecordOutcome
    <2>2. FrameStays(d)
      BY <1>5, <1>8, <1>19, <2>1 DEF FrameStays
    <2> QED
      BY <1>3, <1>6, <1>19, <2>2, WorkLeavesOthers
  <1> QED
    BY <1>8, <1>18, <1>19 DEF FrameInv

-----------------------------------------------------------------------------
(* The invariant of the frames *)

LEMMA FrameInit == Init => FrameInv
  <1> SUFFICES ASSUME Init PROVE FrameInv
    OBVIOUS
  <1>1. HistoryTypes
    BY DEF Init, HistoryTypes
  <1>2. ASSUME NEW c \in Clients PROVE ClientOK(c)
    BY FreshIsOK DEF Init, FreshFrame, Busy, Published
  <1> QED
    BY <1>1, <1>2 DEF FrameInv

LEMMA WorkerKeepsFrames ==
  ASSUME TypeInv, RunInv, FrameInv, NEW p \in PoolId, NEW w \in WorkerId,
         SpuriousWakeWorker(p, w) \/ WorkerStep(p, w)
  PROVE  FrameInv'
  <1>1. CASE \/ SpuriousWakeWorker(p, w) \/ CheckStart(p, w) \/ Account(p, w)
             \/ SignalDone(p, w)
    BY <1>1, WorkerQuietStep
  <1>2. CASE \/ FetchSlot(p, w) \/ StartBoard(p, w) \/ StopDispatch(p, w)
             \/ EndBoard(p, w)
    <2>1. wpc[p][w] \in Engaged
      BY <1>2 DEF FetchSlot, StartBoard, StopDispatch, EndBoard, Engaged
    <2>2. PICK c \in Clients : Owner(p, w) = c
      BY <2>1, WorksForOwner
    <2> QED
      BY <1>2, <2>2, FetchKeeps, StartKeeps, DropKeeps, EndKeeps
  <1> QED
    BY <1>1, <1>2 DEF WorkerStep

LEMMA FrameStep == TypeInv /\ RunInv /\ FrameInv /\ [Next]_vars => FrameInv'
  <1> SUFFICES ASSUME TypeInv, RunInv, FrameInv, [Next]_vars PROVE FrameInv'
    OBVIOUS
  <1>1. CASE Next
    <2>1. CASE \E c \in Clients : ClientAction(c)
      BY <2>1, ClientKeepsFrames
    <2>2. CASE \E p \in PoolId, w \in WorkerId :
                 SpuriousWakeWorker(p, w) \/ WorkerStep(p, w)
      BY <2>2, WorkerKeepsFrames
    <2> QED
      BY <1>1, <2>1, <2>2 DEF Next, ClientAction
  <1>2. CASE UNCHANGED vars
    <2>1. UNCHANGED <<pc, held, request, next, firstError, generation, wpc, seen, slot,
                      started, active, reports>>
      BY <1>2 DEF vars, clientVars, frameVars, poolVars, workerVars, historyVars
    <2>2. HistoryTypes'
      BY <2>1 DEF FrameInv, HistoryTypes
    <2>3. ASSUME NEW c \in Clients PROVE ClientOK(c)'
      <3>1. FrameStays(c) /\ WorkersStay(c)
        BY <2>1 DEF FrameStays, WorkersStay
      <3> QED
        BY <2>1, <3>1, Untouched DEF FrameInv, TypeInv, TypeOK
    <2> QED
      BY <2>2, <2>3 DEF FrameInv
  <1> QED
    BY <1>1, <1>2

(* The slots a run handed out and the boards its caller was promised agree *)
(* in every reachable state.                                               *)
THEOREM FramesAgree == Spec => [](TypeInv /\ RunInv /\ FrameInv)
  BY TypeInit, TypeStep, RunInit, RunStep, FrameInit, FrameStep, PTL DEF Spec

-----------------------------------------------------------------------------
(* The simulation *)

(* What the contract's variables are in a state of the pool *)
Phases == [c \in Clients |-> CallPhase(c)]
Batches == [c \in Clients |-> 0..(request[c].count - 1)]

LEMMA ContractInit == Init => Contract!Init
  <1> SUFFICES ASSUME Init PROVE Contract!Init
    OBVIOUS
  <1>1. Phases = [c \in Clients |-> "idle"]
    BY DEF Init, Phases, CallPhase, InRun, Published
  <1>2. Batches = [c \in Clients |-> {}]
    BY DEF Init, Batches, NoRequest
  <1> QED
    BY <1>1, <1>2 DEF Init, Contract!Init, Phases, Batches

(* A step that keeps the phases, the requests and the history is a stutter *)
(* of the contract.                                                        *)
LEMMA Stutter ==
  ASSUME \A d \in Clients : CallPhase(d)' = CallPhase(d),
         UNCHANGED <<request, result, historyVars>>
  PROVE  UNCHANGED Contract!vars
  <1>1. Phases' = Phases
    BY DEF Phases
  <1>2. Batches' = Batches
    BY DEF Batches
  <1> QED
    BY <1>1, <1>2 DEF Contract!vars, Phases, Batches, historyVars

LEMMA MapStart ==
  ASSUME NEW c \in Clients, Phases[c] # "idle",
         NEW b \in Batches[c], b \notin started[c],
         EnterBoard(c, b), UNCHANGED <<Phases, Batches, result>>
  PROVE  Contract!Start(c)
  BY DEF EnterBoard, Contract!Start, Phases, Batches

LEMMA MapEnd ==
  ASSUME NEW c \in Clients, NEW b \in active[c], NEW outcome \in Outcomes,
         LeaveBoard(c, b, outcome), UNCHANGED <<Phases, Batches, result>>
  PROVE  Contract!End(c)
  BY DEF LeaveBoard, Contract!End, Contract!Outcomes, Outcomes, Phases, Batches

LEMMA MapDeliver ==
  ASSUME ClientTypes, NEW c \in Clients, NEW value, Deliver(c, value), UNCHANGED active,
         CallPhase(c)' = "idle",
         \A d \in Clients : d # c => CallPhase(d)' = CallPhase(d)
  PROVE  Contract!Deliver(c, value)
  <1>1. Phases' = [Phases EXCEPT ![c] = "idle"]
    BY DEF Phases
  <1>2. request' = [request EXCEPT ![c] = NoRequest]
    BY DEF Deliver
  <1>3. Batches' = [Batches EXCEPT ![c] = {}]
    <2>1. request'[c].count = 0
      BY <1>2 DEF ClientTypes, NoRequest
    <2>2. 0..(request'[c].count - 1) = {}
      BY <2>1
    <2>3. \A d \in Clients : d # c => request'[d] = request[d]
      BY <1>2 DEF ClientTypes
    <2> QED
      BY <2>2, <2>3 DEF Batches
  <1> QED
    BY <1>1, <1>3 DEF Deliver, Contract!Deliver, Phases, Batches

(* What the contract delivers *)
LEMMA MapVerdict ==
  ASSUME NEW c \in Clients
  PROVE  /\ Phases[c] = "pool" => Contract!Verdict(c) = PoolVerdict(reports[c])
         /\ Phases[c] = "inline" /\ reports[c] = <<>>
              => Contract!Verdict(c) = RETURN_NO_FAULT
         /\ \A fault : Phases[c] = "inline" /\ reports[c] = <<fault>>
              => Contract!Verdict(c) = fault
  <1>1. Phases[c] = "pool" => Contract!Verdict(c) = PoolVerdict(reports[c])
    BY DEF Contract!Verdict, PoolVerdict, Phases
  <1>2. Phases[c] = "inline" /\ reports[c] = <<>> => Contract!Verdict(c) = RETURN_NO_FAULT
    BY DEF Contract!Verdict
  <1>3. ASSUME NEW fault, Phases[c] = "inline", reports[c] = <<fault>>
        PROVE  Contract!Verdict(c) = fault
    <2>1. /\ reports[c] # <<>> /\ DOMAIN reports[c] = {1}
          /\ reports[c][1] = fault /\ Head(reports[c]) = fault
      BY <1>3
    <2> QED
      BY <1>3, <2>1 DEF Contract!Verdict, Phases
  <1> QED
    BY <1>1, <1>2, <1>3

LEMMA MapCall ==
  ASSUME TypeInv, NEW c \in Clients, Call(c)
  PROVE  Contract!Begin(c)
  <1>1. ClientTypes /\ pc \in [Clients -> ClientLabels] /\ request \in [Clients -> Requests]
    BY DEF TypeInv, TypeOK, ClientTypes
  <1>2. PICK count \in 1..MaxCount, cap \in Caps, order \in Orders :
          /\ request' = [request EXCEPT ![c] =
               [count |-> count, workers |-> ResolveWorkerCount(cap, count),
                order |-> order]]
          /\ Goto(c, IF ResolveWorkerCount(cap, count) = 1 THEN "inline" ELSE "acquire")
    BY DEF Call
  <1>3. /\ pc[c] = "idle" /\ result' = [result EXCEPT ![c] = RETURN_NO_FAULT]
        /\ UNCHANGED historyVars
    BY DEF Call
  <1>4. /\ request'[c].count = count /\ pc'[c] \in {"inline", "acquire"}
        /\ \A d \in Clients : d # c => request'[d] = request[d] /\ pc'[d] = pc[d]
    BY <1>1, <1>2 DEF Goto
  <1>5. Phases[c] = "idle"
    BY <1>3 DEF Phases, CallPhase, InRun, Published
  <1>6. CallPhase(c)' \in {"inline", "pool"}
    BY <1>4 DEF CallPhase
  <1>7. \A d \in Clients : d # c => CallPhase(d)' = CallPhase(d)
    BY <1>4 DEF CallPhase
  <1>8. Phases' = [Phases EXCEPT ![c] = CallPhase(c)']
    BY <1>7 DEF Phases
  <1>9. Batches' = [Batches EXCEPT ![c] = 0..(count - 1)]
    BY <1>4 DEF Batches
  <1> QED
    BY <1>3, <1>5, <1>6, <1>8, <1>9 DEF Contract!Begin, Phases, Batches, historyVars

LEMMA MapEmpty ==
  ASSUME NEW c \in Clients, CallEmpty(c)
  PROVE  Contract!EmptyCall(c)
  <1>1. /\ pc[c] = "idle" /\ result' = [result EXCEPT ![c] = RETURN_NO_FAULT]
        /\ UNCHANGED <<pc, request, historyVars>>
    BY DEF CallEmpty
  <1>2. Phases' = Phases /\ Batches' = Batches
    BY <1>1 DEF Phases, Batches, CallPhase
  <1>3. Phases[c] = "idle"
    BY <1>1 DEF Phases, CallPhase, InRun, Published
  <1> QED
    BY <1>1, <1>2, <1>3 DEF Contract!EmptyCall, Phases, Batches, historyVars

(* The steps inside the pool that no caller can see *)
LEMMA ClientStutter ==
  ASSUME TypeInv, NEW c \in Clients,
         \/ Shutdown(c) \/ SpuriousWakeClient(c) \/ Acquire(c) \/ LockRun(c)
         \/ EnsureWorkers(c) \/ Publish(c) \/ NotifyStart(c) \/ WaitDone(c)
         \/ ReleasePool(c) \/ StopPool(c) \/ NotifyStop(c) \/ JoinWorkers(c)
  PROVE  UNCHANGED Contract!vars
  <1>1. pc \in [Clients -> ClientLabels]
    BY DEF TypeInv, TypeOK, ClientTypes
  <1>2. UNCHANGED <<request, result, historyVars>>
    BY DEF Shutdown, SpuriousWakeClient, Acquire, LockRun, EnsureWorkers, Publish,
           NotifyStart, WaitDone, ReleasePool, StopPool, NotifyStop, JoinWorkers
  <1>3. \A d \in Clients : d # c => pc'[d] = pc[d]
    BY <1>1 DEF Shutdown, SpuriousWakeClient, Acquire, LockRun, EnsureWorkers, Publish,
           NotifyStart, WaitDone, ReleasePool, StopPool, NotifyStop, JoinWorkers, Goto
  <1>4. \/ {pc[c], pc'[c]} \subseteq InRun \union {"acquire", "enter"}
        \/ {pc[c], pc'[c]} \subseteq {"idle", "release"} \union Destroying
    BY <1>1 DEF Shutdown, SpuriousWakeClient, Acquire, LockRun, EnsureWorkers, Publish,
           NotifyStart, WaitDone, ReleasePool, StopPool, NotifyStop, JoinWorkers, Goto,
           InRun, Published, Destroying
  <1>5. CallPhase(c)' = CallPhase(c)
    BY <1>4 DEF CallPhase, InRun, Published, Destroying
  <1>6. \A d \in Clients : d # c => CallPhase(d)' = CallPhase(d)
    BY <1>3 DEF CallPhase
  <1> QED
    BY <1>2, <1>5, <1>6, Stutter

LEMMA WorkerPhases ==
  ASSUME ClientTypes, NEW p \in PoolId, NEW w \in WorkerId,
         SpuriousWakeWorker(p, w) \/ WorkerStep(p, w)
  PROVE  /\ \A d \in Clients : CallPhase(d)' = CallPhase(d)
         /\ UNCHANGED <<request, result>> /\ UNCHANGED <<Phases, Batches>>
  <1>1. \A d \in Clients : pc'[d] = pc[d] \/ (pc[d] = "asleep" /\ pc'[d] = "wait")
    BY WorkerFrame
  <1>2. \A d \in Clients : CallPhase(d)' = CallPhase(d)
    BY <1>1 DEF CallPhase, InRun, Published
  <1>3. UNCHANGED <<request, result>>
    BY DEF SpuriousWakeWorker, WorkerStep, CheckStart, FetchSlot, StartBoard,
           StopDispatch, EndBoard, Account, SignalDone, clientVars
  <1> QED
    BY <1>2, <1>3 DEF Phases, Batches

LEMMA WorkerStutter ==
  ASSUME TypeInv, NEW p \in PoolId, NEW w \in WorkerId,
         \/ SpuriousWakeWorker(p, w) \/ CheckStart(p, w) \/ FetchSlot(p, w)
         \/ StopDispatch(p, w) \/ Account(p, w) \/ SignalDone(p, w)
  PROVE  UNCHANGED Contract!vars
  <1>1. SpuriousWakeWorker(p, w) \/ WorkerStep(p, w)
    BY DEF WorkerStep
  <1>2. UNCHANGED historyVars
    BY DEF SpuriousWakeWorker, CheckStart, FetchSlot, StopDispatch, Account, SignalDone
  <1> QED
    BY <1>1, <1>2, WorkerPhases, Stutter DEF TypeInv, TypeOK

(* A board is handed to process_board: it is one of the batch, and it was  *)
(* not handed out before.                                                  *)
LEMMA MapInlineStart ==
  ASSUME TypeInv, FrameInv, NEW c \in Clients, InlineStart(c)
  PROVE  Contract!Start(c)
  <1>1. /\ ClientTypes /\ pc \in [Clients -> ClientLabels] /\ next[c] \in Nat
        /\ request[c].count \in Nat
    BY RequestFacts DEF TypeInv, TypeOK, ClientTypes, FrameTypes
  <1>2. /\ pc[c] = "inline" /\ next[c] < request[c].count
        /\ EnterBoard(c, BoardAt(c, next[c])) /\ UNCHANGED <<request, result>>
        /\ pc'[c] = "inlineBoard" /\ \A d \in Clients : d # c => pc'[d] = pc[d]
    BY <1>1 DEF InlineStart, Goto
  <1>3. next[c] \in 0..(request[c].count - 1)
    BY <1>1, <1>2
  <1>4. started[c] = BoardsUpTo(c, next[c])
    BY <1>2 DEF FrameInv, ClientOK, InlineOK
  <1>5. BoardAt(c, next[c]) \notin started[c]
    <2> SUFFICES ASSUME NEW s \in 0..(next[c] - 1), BoardAt(c, s) = BoardAt(c, next[c])
                 PROVE  FALSE
      BY <1>4 DEF BoardsUpTo
    <2>1. s \in 0..(request[c].count - 1) /\ s # next[c]
      BY <1>1, <1>2
    <2> QED
      BY <1>1, <1>3, <2>1, SlotsDiffer
  <1>6. BoardAt(c, next[c]) \in Batches[c]
    BY <1>1, <1>3, BoardOfSlot DEF Batches
  <1>7. UNCHANGED <<Phases, Batches>>
    <2>1. \A d \in Clients : CallPhase(d)' = CallPhase(d)
      BY <1>2 DEF CallPhase, InRun, Published
    <2> QED
      BY <1>2, <2>1 DEF Phases, Batches
  <1>8. Phases[c] # "idle"
    BY <1>2 DEF Phases, CallPhase
  <1> QED
    BY <1>2, <1>5, <1>6, <1>7, <1>8, MapStart

LEMMA MapWorkerStart ==
  ASSUME TypeInv, RunInv, FrameInv, NEW p \in PoolId, NEW w \in WorkerId,
         NEW c \in Clients, Owner(p, w) = c, StartBoard(p, w)
  PROVE  Contract!Start(c)
  <1>1. /\ ClientTypes /\ slot[p][w] \in Nat /\ request[c].count \in Nat
    BY RequestFacts DEF TypeInv, TypeOK, WorkerTypes
  <1>2. /\ wpc[p][w] = "load" /\ wpc[p][w] \in Engaged
        /\ slot[p][w] < request[c].count
        /\ EnterBoard(c, BoardAt(c, slot[p][w]))
    BY DEF StartBoard, Engaged
  <1>3. held[c] = p /\ pc[c] \in Published
    BY <1>2, WorksForOwner
  <1>4. slot[p][w] \in 0..(request[c].count - 1)
    BY <1>1, <1>2
  <1>5. SlotsOK(c) /\ DispatchOK(c)
    BY <1>3 DEF FrameInv, ClientOK, PoolOK
  <1>6. BoardAt(c, slot[p][w]) \notin started[c]
    <2> SUFFICES ASSUME BoardAt(c, slot[p][w]) \in started[c] PROVE FALSE
      OBVIOUS
    <2>1. PICK s \in Taken(c) : BoardAt(c, slot[p][w]) = BoardAt(c, s)
      BY <1>5 DEF DispatchOK
    <2>2. s \in 0..(request[c].count - 1) /\ s # slot[p][w]
      BY <1>2, <1>3, <2>1 DEF Taken, At, SlotOf
    <2> QED
      BY <1>1, <1>4, <2>1, <2>2, SlotsDiffer
  <1>7. BoardAt(c, slot[p][w]) \in Batches[c]
    BY <1>1, <1>4, BoardOfSlot DEF Batches
  <1>8. UNCHANGED <<Phases, Batches, result>>
    BY <1>1, WorkerPhases DEF WorkerStep
  <1>9. Phases[c] # "idle"
    BY <1>3 DEF Phases, CallPhase, InRun, Published
  <1> QED
    BY <1>2, <1>6, <1>7, <1>8, <1>9, MapStart

(* process_board returns. *)
LEMMA MapInlineEnd ==
  ASSUME TypeInv, FrameInv, NEW c \in Clients, InlineEnd(c)
  PROVE  Contract!End(c)
  <1>1. pc \in [Clients -> ClientLabels]
    BY DEF TypeInv, TypeOK, ClientTypes
  <1>2. /\ pc[c] = "inlineBoard" /\ UNCHANGED <<request, result>>
        /\ pc'[c] = "inline" /\ \A d \in Clients : d # c => pc'[d] = pc[d]
    BY <1>1 DEF InlineEnd, Goto
  <1>3. PICK outcome \in Outcomes : LeaveBoard(c, BoardAt(c, next[c]), outcome)
    BY DEF InlineEnd
  <1>4. BoardAt(c, next[c]) \in active[c]
    BY <1>2 DEF FrameInv, ClientOK, InlineOK
  <1>5. UNCHANGED <<Phases, Batches>>
    <2>1. \A d \in Clients : CallPhase(d)' = CallPhase(d)
      BY <1>2 DEF CallPhase, InRun, Published
    <2> QED
      BY <1>2, <2>1 DEF Phases, Batches
  <1> QED
    BY <1>2, <1>3, <1>4, <1>5, MapEnd

LEMMA MapWorkerEnd ==
  ASSUME TypeInv, RunInv, FrameInv, NEW p \in PoolId, NEW w \in WorkerId,
         NEW c \in Clients, Owner(p, w) = c, EndBoard(p, w)
  PROVE  Contract!End(c)
  <1>1. wpc[p][w] = "board" /\ wpc[p][w] \in Engaged
    BY DEF EndBoard, Engaged
  <1>2. PICK outcome \in Outcomes : LeaveBoard(c, BoardAt(c, slot[p][w]), outcome)
    BY DEF EndBoard
  <1>3. held[c] = p /\ pc[c] \in Published
    BY <1>1, WorksForOwner
  <1>4. BoardAt(c, slot[p][w]) \in active[c]
    BY <1>1, <1>3 DEF FrameInv, ClientOK, PoolOK, DispatchOK, At, SlotOf
  <1>5. UNCHANGED <<Phases, Batches, result>>
    BY WorkerPhases DEF WorkerStep, TypeInv, TypeOK
  <1> QED
    BY <1>2, <1>4, <1>5, MapEnd

(* The call delivers. *)
LEMMA MapDelivery ==
  ASSUME TypeInv, FrameInv, NEW c \in Clients,
         InlineReturn(c) \/ SpawnFails(c) \/ LeaveRun(c)
  PROVE  Contract!Finish(c) \/ Contract!Abort(c)
  <1>1. /\ ClientTypes /\ pc \in [Clients -> ClientLabels] /\ next[c] \in Nat
        /\ request[c].count \in Nat
    BY RequestFacts DEF TypeInv, TypeOK, ClientTypes, FrameTypes
  <1>2. /\ UNCHANGED active
        /\ pc'[c] \in {"idle", "release"} /\ \A d \in Clients : d # c => pc'[d] = pc[d]
    BY <1>1 DEF InlineReturn, SpawnFails, LeaveRun, Goto
  <1>3. /\ CallPhase(c)' = "idle"
        /\ \A d \in Clients : d # c => CallPhase(d)' = CallPhase(d)
    BY <1>2 DEF CallPhase, InRun, Published
  <1>4. ASSUME NEW value, Deliver(c, value) PROVE Contract!Deliver(c, value)
    BY <1>1, <1>2, <1>3, <1>4, MapDeliver
  <1>5. CASE InlineReturn(c)
    <2>1. /\ pc[c] = "inline" /\ Deliver(c, firstError[c])
          /\ firstError[c] # RETURN_NO_FAULT \/ next[c] >= request[c].count
      BY <1>5 DEF InlineReturn
    <2>2. Phases[c] = "inline" /\ Batches[c] = 0..(request[c].count - 1)
      BY <2>1 DEF Phases, Batches, CallPhase, InRun, Published
    <2>3. /\ next[c] <= request[c].count /\ started[c] = BoardsUpTo(c, next[c])
          /\ active[c] = {}
          /\ reports[c] = IF firstError[c] = RETURN_NO_FAULT THEN <<>>
                          ELSE <<firstError[c]>>
      BY <2>1 DEF FrameInv, ClientOK, InlineOK
    <2>4. Contract!Verdict(c) = firstError[c]
      BY <2>2, <2>3, MapVerdict
    <2>5. ASSUME reports[c] = <<>> PROVE started[c] = Batches[c]
      <3>1. firstError[c] = RETURN_NO_FAULT
        BY <2>3, <2>5, <<firstError[c]>> # <<>>
      <3>2. next[c] = request[c].count
        BY <1>1, <2>1, <2>3, <3>1
      <3> QED
        BY <1>1, <2>2, <2>3, <3>2, EveryBoardHasASlot
    <2>6. Contract!Deliver(c, firstError[c])
      BY <1>4, <2>1 DEF Deliver, Contract!Deliver
    <2>7. Contract!Deliver(c, Contract!Verdict(c))
      BY <2>4, <2>6 DEF Contract!Deliver
    <2> QED
      BY <2>2, <2>3, <2>5, <2>7 DEF Contract!Finish, Phases, Batches
  <1>6. CASE LeaveRun(c)
    <2>1. pc[c] = "leave" /\ Deliver(c, firstError[c])
      BY <1>6 DEF LeaveRun
    <2>2. Phases[c] = "pool" /\ Batches[c] = 0..(request[c].count - 1)
      BY <2>1 DEF Phases, Batches, CallPhase, InRun
    <2>3. /\ active[c] = {} /\ VerdictOK(c)
          /\ reports[c] = <<>> => started[c] = Batches[c]
      BY <2>1, <2>2 DEF FrameInv, ClientOK, LeaveOK
    <2>4. Contract!Verdict(c) = firstError[c]
      BY <2>2, <2>3, MapVerdict DEF VerdictOK
    <2>5. Contract!Deliver(c, firstError[c])
      BY <1>4, <2>1 DEF Deliver, Contract!Deliver
    <2>6. Contract!Deliver(c, Contract!Verdict(c))
      BY <2>4, <2>5 DEF Contract!Deliver
    <2> QED
      BY <2>2, <2>3, <2>6 DEF Contract!Finish, Phases, Batches
  <1>7. CASE SpawnFails(c)
    <2>1. pc[c] = "spawn" /\ Deliver(c, Thrown)
      BY <1>7 DEF SpawnFails
    <2>2. Phases[c] = "pool"
      BY <2>1 DEF Phases, CallPhase, InRun
    <2>3. started[c] = {}
      BY <2>1 DEF FrameInv, ClientOK, FreshOK, FreshFrame, Busy, Published
    <2> QED
      BY <1>4, <2>1, <2>2, <2>3 DEF Contract!Abort, Phases
  <1> QED
    BY <1>5, <1>6, <1>7

LEMMA ContractStep ==
  TypeInv /\ RunInv /\ FrameInv /\ [Next]_vars => [Contract!Next]_(Contract!vars)
  <1> SUFFICES ASSUME TypeInv, RunInv, FrameInv, [Next]_vars
               PROVE  [Contract!Next]_(Contract!vars)
    OBVIOUS
  <1>1. CASE Next
    <2>1. ASSUME NEW c \in Clients, ClientAction(c)
          PROVE  [Contract!Next]_(Contract!vars)
      <3>1. CASE CallEmpty(c) \/ Call(c)
        BY <3>1, MapEmpty, MapCall DEF Contract!Next
      <3>2. CASE InlineStart(c)
        BY <3>2, MapInlineStart DEF Contract!Next
      <3>3. CASE InlineEnd(c)
        BY <3>3, MapInlineEnd DEF Contract!Next
      <3>4. CASE InlineReturn(c) \/ SpawnFails(c) \/ LeaveRun(c)
        BY <3>4, MapDelivery DEF Contract!Next
      <3>5. CASE \/ Shutdown(c) \/ SpuriousWakeClient(c) \/ Acquire(c) \/ LockRun(c)
                 \/ EnsureWorkers(c) \/ Publish(c) \/ NotifyStart(c) \/ WaitDone(c)
                 \/ ReleasePool(c) \/ StopPool(c) \/ NotifyStop(c) \/ JoinWorkers(c)
        BY <3>5, ClientStutter
      <3> QED
        BY <2>1, <3>1, <3>2, <3>3, <3>4, <3>5 DEF ClientAction, ClientStep
    <2>2. ASSUME NEW p \in PoolId, NEW w \in WorkerId,
                 SpuriousWakeWorker(p, w) \/ WorkerStep(p, w)
          PROVE  [Contract!Next]_(Contract!vars)
      <3>1. CASE \/ SpuriousWakeWorker(p, w) \/ CheckStart(p, w) \/ FetchSlot(p, w)
                 \/ StopDispatch(p, w) \/ Account(p, w) \/ SignalDone(p, w)
        BY <3>1, WorkerStutter
      <3>2. CASE StartBoard(p, w) \/ EndBoard(p, w)
        <4>1. wpc[p][w] \in Engaged
          BY <3>2 DEF StartBoard, EndBoard, Engaged
        <4>2. PICK c \in Clients : Owner(p, w) = c
          BY <4>1, WorksForOwner
        <4> QED
          BY <3>2, <4>2, MapWorkerStart, MapWorkerEnd DEF Contract!Next
      <3> QED
        BY <2>2, <3>1, <3>2 DEF WorkerStep
    <2> QED
      BY <1>1, <2>1, <2>2 DEF Next, ClientAction
  <1>2. CASE UNCHANGED vars
    <2>1. UNCHANGED <<pc, request, result, historyVars>>
      BY <1>2 DEF vars, clientVars
    <2>2. \A d \in Clients : CallPhase(d)' = CallPhase(d)
      BY <2>1 DEF CallPhase
    <2> QED
      BY <2>1, <2>2, Stutter
  <1> QED
    BY <1>1, <1>2

(* For every number of clients, workers, pools and boards, whatever the    *)
(* orders and the outcomes: no board of a call is processed twice, none is *)
(* in progress when the call returns, success means that all were, and the *)
(* value delivered is the one parallel_boards.hpp documents.               *)
THEOREM PoolImplementsContract == Spec => ImplementsContract
  BY FramesAgree, ContractInit, ContractStep, PTL
     DEF Spec, ImplementsContract, Contract!Spec

=============================================================================
