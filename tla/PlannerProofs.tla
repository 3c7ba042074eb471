--------------------------- MODULE PlannerProofs ---------------------------
(***************************************************************************)
(* Theorems about Planner, for any set of clients and any bounds.  The     *)
(* conjuncts of Inductive support one another: the mutex keeps the slot    *)
(* still while the worker decides to wait, which gives the absence of lost *)
(* wakeups; the owner's discipline keeps running_ from being set while a   *)
(* worker of an earlier start is alive.                                    *)
(***************************************************************************)
EXTENDS Planner, TLAPS

USE PlannerAssumption DEF None, Holding, Planning

\* The initial states satisfy the inductive invariant.
LEMMA InitInductive == Init => Inductive
<1> SUFFICES ASSUME Init PROVE Inductive
  OBVIOUS
<1> USE DEF Init
<1>1. TypeOK
  <2>1. 0 \in 0 .. MaxRequests /\ 0 \in 0 .. MaxStarts
    OBVIOUS
  <2>2. cpc \in [Clients -> {"idle", "store", "notify", "thrown"}]
    OBVIOUS
  <2> QED
    BY <2>1, <2>2, running = FALSE DEF TypeOK
<1>2. QuietAfterStop /\ OwnerInCall
  BY DEF QuietAfterStop, OwnerInCall
<1>3. NoLostRequestWakeup /\ LatestRequestKept /\ NeverEmptyHanded /\ SlotAhead
  BY DEF NoLostRequestWakeup, LatestRequestKept, NeverEmptyHanded, SlotAhead
<1>4. MutexHeld
  BY DEF MutexHeld
<1> QED
  BY <1>1, <1>2, <1>3, <1>4 DEF Inductive

\* Every step of every thread preserves the inductive invariant.
LEMMA NextInductive == Inductive /\ [Next]_vars => Inductive'
<1> SUFFICES ASSUME Inductive, [Next]_vars PROVE Inductive'
  OBVIOUS
<1> USE DEF Inductive, TypeOK, QuietAfterStop, NoLostRequestWakeup,
            LatestRequestKept, NeverEmptyHanded, MutexHeld, OwnerInCall,
            SlotAhead, ownerVars, requestVars, workerVars
<1>1. CASE Start
  BY <1>1 DEF Start
<1>2. CASE Spawn
  BY <1>2 DEF Spawn
<1>3. CASE SpawnFails
  BY <1>3 DEF SpawnFails
<1>4. CASE Stop
  BY <1>4 DEF Stop
<1>5. CASE StopNotify
  BY <1>5 DEF StopNotify, Notified
<1>6. CASE Join
  BY <1>6 DEF Join
<1>7. ASSUME NEW c \in Clients, RequestLock(c) PROVE Inductive'
  BY <1>7 DEF RequestLock
<1>8. ASSUME NEW c \in Clients, RequestStore(c) PROVE Inductive'
  BY <1>8 DEF RequestStore
<1>9. ASSUME NEW c \in Clients, RequestNotify(c) PROVE Inductive'
  BY <1>9 DEF RequestNotify, Notified
<1>10. CASE LoopHead
  BY <1>10 DEF LoopHead
<1>11. CASE AcquireMutex
  BY <1>11 DEF AcquireMutex
<1>12. CASE EvalPredicate
  BY <1>12 DEF EvalPredicate
<1>13. CASE Block
  BY <1>13 DEF Block
<1>14. CASE LeaveLoop
  BY <1>14 DEF LeaveLoop
<1>15. CASE Take
  BY <1>15 DEF Take
<1>16. CASE SolveIK
  BY <1>16 DEF SolveIK
<1>17. CASE PlanPath
  BY <1>17 DEF PlanPath
<1>18. CASE Callback
  BY <1>18 DEF Callback
<1>19. CASE SpuriousWakeup
  BY <1>19 DEF SpuriousWakeup
<1>20. CASE UNCHANGED vars
  BY <1>20 DEF vars
<1>21. ASSUME NEW c \in Clients, RequestStoreThrows(c) PROVE Inductive'
  BY <1>21 DEF RequestStoreThrows
<1> QED
  BY <1>1, <1>2, <1>3, <1>4, <1>5, <1>6, <1>7, <1>8, <1>9, <1>10, <1>11, <1>12,
     <1>13, <1>14, <1>15, <1>16, <1>17, <1>18, <1>19, <1>20, <1>21
  DEF Next, Owner, Client, WorkerStep

\* The inductive invariant holds in every reachable state.
THEOREM InductiveAlways == Spec => []Inductive
BY InitInductive, NextInductive, PTL DEF Spec

\* Type correctness of the planner for every number of clients and requests.
THEOREM TypeCorrect == Spec => []TypeOK
<1>1. Inductive => TypeOK
  BY DEF Inductive
<1> QED
  BY <1>1, InductiveAlways, PTL

\* Once stop() has returned there is no planning thread, and start() never
\* assigns over a joinable one.  planner.cpp:19-34.
THEOREM StopIsQuiet == Spec => []QuietAfterStop
<1>1. Inductive => QuietAfterStop
  BY DEF Inductive
<1> QED
  BY <1>1, InductiveAlways, PTL

\* Notifying after the unlock in requestPlan loses no request: a sleeping worker
\* with a request in the slot is about to be notified.  planner.cpp:36-55.
THEOREM NoRequestSleeps == Spec => []NoLostRequestWakeup
<1>1. Inductive => NoLostRequestWakeup
  BY DEF Inductive
<1> QED
  BY <1>1, InductiveAlways, PTL

\* The newest request is in the slot or was the last one taken.
\* planner.cpp:41, 61-64.
THEOREM NoRequestForgotten == Spec => []LatestRequestKept
<1>1. Inductive => LatestRequestKept
  BY DEF Inductive
<1> QED
  BY <1>1, InductiveAlways, PTL

\* A planning thread that is done waiting finds a request in the slot: the
\* second test of it (planner.cpp:61) never fails while the planner runs.
THEOREM TakesARequest == Spec => []NeverEmptyHanded
<1>1. Inductive => NeverEmptyHanded
  BY DEF Inductive
<1> QED
  BY <1>1, InductiveAlways, PTL

-----------------------------------------------------------------------------
(* The planner implements the abstract service.                            *)

\* A step of the planner is a step of the service or leaves it unchanged: a
\* store submits, a take begins, a callback finishes, a failure gives up.
LEMMA StepSimulates == Inductive /\ [Next]_vars =>
                           [Service!ServiceNext]_(Service!serviceVars)
<1> SUFFICES ASSUME Inductive, [Next]_vars
             PROVE  [Service!ServiceNext]_(Service!serviceVars)
  OBVIOUS
<1> USE DEF Service!ServiceNext, Service!serviceVars, ownerVars, requestVars,
            workerVars
<1>1. ASSUME NEW c \in Clients, RequestStore(c) PROVE Service!Submit
  BY <1>1 DEF RequestStore, Service!Submit, Inductive, TypeOK, MutexHeld
<1>2. ASSUME Take PROVE Service!Begin
  BY <1>2 DEF Take, Service!Begin, Inductive, TypeOK, LatestRequestKept,
              NeverEmptyHanded, SlotAhead
<1>3. ASSUME Callback PROVE Service!Finish
  BY <1>3 DEF Callback, Service!Finish
<1>4. ASSUME SolveIK \/ PlanPath
      PROVE Service!GiveUp \/ UNCHANGED Service!serviceVars
  BY <1>4 DEF SolveIK, PlanPath, Service!GiveUp
<1>5. ASSUME Start \/ SpawnFails \/ Stop PROVE UNCHANGED Service!serviceVars
  BY <1>5 DEF Start, SpawnFails, Stop
<1>6. ASSUME Spawn \/ StopNotify \/ Join PROVE UNCHANGED Service!serviceVars
  BY <1>6 DEF Spawn, StopNotify, Join, Notified, Inductive, QuietAfterStop
<1>7. ASSUME NEW c \in Clients, RequestLock(c) \/ RequestNotify(c)
      PROVE UNCHANGED Service!serviceVars
  BY <1>7 DEF RequestLock, RequestNotify, Notified
<1>8. ASSUME LoopHead \/ AcquireMutex \/ EvalPredicate
      PROVE UNCHANGED Service!serviceVars
  BY <1>8 DEF LoopHead, AcquireMutex, EvalPredicate
<1>9. ASSUME Block \/ LeaveLoop \/ SpuriousWakeup
      PROVE UNCHANGED Service!serviceVars
  BY <1>9 DEF Block, LeaveLoop, SpuriousWakeup
<1>10. ASSUME UNCHANGED vars PROVE UNCHANGED Service!serviceVars
  BY <1>10 DEF vars
<1>11. ASSUME NEW c \in Clients, RequestStoreThrows(c)
       PROVE UNCHANGED Service!serviceVars
  BY <1>11 DEF RequestStoreThrows
<1> QED
  BY <1>1, <1>2, <1>3, <1>4, <1>5, <1>6, <1>7, <1>8, <1>9, <1>10, <1>11
  DEF Next, Owner, Client, WorkerStep

\* Every behaviour of the planner is one of the abstract service: plans are
\* begun for the newest request only and delivered in that order.
THEOREM PlannerImplementsService == Spec => ImplementsService
<1>1. Init => Service!ServiceInit
  BY DEF Init, Service!ServiceInit
<1> QED
  BY <1>1, InductiveAlways, StepSimulates, PTL
  DEF Spec, ImplementsService, Service!ServiceSpec
=============================================================================
