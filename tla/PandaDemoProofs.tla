-------------------------- MODULE PandaDemoProofs --------------------------
(***************************************************************************)
(* Theorems about the whole demo, for any trajectories and any timing.     *)
(* What its two parts do on their own is proved in PlannerProofs and       *)
(* RTExecutorProofs and taken over from there: a step of the demo is a     *)
(* step of each part or leaves the part alone.  What is proved here is how *)
(* main, the planner and the executor go together.                         *)
(***************************************************************************)
EXTENDS PandaDemo, TLAPS

PProofs == INSTANCE PlannerProofs WITH
        Clients <- {"main"}, MaxRequests <- 1, MaxStarts <- 1,
        running <- pRunning, mutex <- pMutex, opc <- pOpc, starts <- pStarts

EProofs == INSTANCE RTExecutorProofs WITH
        Setters <- {"planner"}, MaxSets <- 1, MaxStarts <- 1,
        running <- eRunning, mutex <- eMutex, opc <- eOpc, starts <- eStarts

-----------------------------------------------------------------------------
(* The parts.                                                              *)

\* The demo gives its planner the bounds it assumes.
LEMMA PlannerConstants == PProofs!PlannerAssumption
BY DEF PProofs!PlannerAssumption

\* And its executor.
LEMMA ExecutorConstants == EProofs!RTExecutorAssumption
BY PandaDemoAssumption DEF EProofs!RTExecutorAssumption

\* What PlannerProofs shows of a planner holds of the demo's.
LEMMA PlannerPart ==
    /\ P!Init => P!Inductive
    /\ P!Inductive /\ [P!Next]_(P!vars) => P!Inductive'
<1>1. P!Init <=> PProofs!Init
  BY DEF P!Init, PProofs!Init, P!None, PProofs!None
<1>2. [P!Next]_(P!vars) <=> [PProofs!Next]_(PProofs!vars)
  BY DEF P!Next, P!vars, P!Owner, P!Client, P!WorkerStep, P!SpuriousWakeup,
         P!Start, P!Spawn, P!SpawnFails, P!Stop, P!StopNotify, P!Join,
         P!RequestLock, P!RequestStore, P!RequestStoreThrows, P!RequestNotify,
         P!Notified, P!None, P!LoopHead, P!AcquireMutex, P!EvalPredicate,
         P!Block, P!LeaveLoop, P!Take, P!SolveIK, P!PlanPath, P!Callback, P!ownerVars,
         P!requestVars, P!workerVars,
         PProofs!Next, PProofs!vars, PProofs!Owner, PProofs!Client,
         PProofs!WorkerStep, PProofs!SpuriousWakeup, PProofs!Start,
         PProofs!Spawn, PProofs!SpawnFails, PProofs!Stop, PProofs!StopNotify,
         PProofs!Join, PProofs!RequestLock, PProofs!RequestStore,
         PProofs!RequestStoreThrows, PProofs!RequestNotify,
         PProofs!Notified, PProofs!None,
         PProofs!LoopHead, PProofs!AcquireMutex, PProofs!EvalPredicate,
         PProofs!Block, PProofs!LeaveLoop, PProofs!Take, PProofs!SolveIK,
         PProofs!PlanPath, PProofs!Callback, PProofs!ownerVars,
         PProofs!requestVars, PProofs!workerVars
<1>3. /\ P!Inductive <=> PProofs!Inductive
      /\ P!Inductive' <=> PProofs!Inductive'
  BY DEF P!Inductive, P!TypeOK, P!QuietAfterStop, P!NoLostRequestWakeup,
         P!LatestRequestKept, P!NeverEmptyHanded, P!MutexHeld, P!OwnerInCall,
         P!SlotAhead, P!Holding, P!None,
         PProofs!Inductive, PProofs!TypeOK, PProofs!QuietAfterStop,
         PProofs!NoLostRequestWakeup, PProofs!LatestRequestKept,
         PProofs!NeverEmptyHanded, PProofs!MutexHeld, PProofs!OwnerInCall,
         PProofs!SlotAhead, PProofs!Holding, PProofs!None
<1> QED
  BY <1>1, <1>2, <1>3, PlannerConstants, PProofs!InitInductive,
     PProofs!NextInductive

\* What RTExecutorProofs shows of an executor holds of the demo's.
LEMMA ExecutorPart ==
    /\ E!Init => E!Inductive
    /\ E!Inductive /\ [E!Next]_(E!vars) => E!Inductive'
<1>1. E!Init <=> EProofs!Init
  BY DEF E!Init, EProofs!Init, E!NoPosition, EProofs!NoPosition
<1>2. [E!Next]_(E!vars) <=> [EProofs!Next]_(EProofs!vars)
  BY DEF E!Next, E!vars, E!Owner, E!Setter, E!RTStep, E!SleepInterrupted,
         E!Elapse, E!Start, E!Spawn, E!SpawnFails, E!Stop, E!Join, E!SetLock,
         E!SetStore, E!Prologue, E!LoopHead, E!LockTraj, E!CopyTraj, E!Tick,
         E!Sleep, E!Pointers, E!NoPosition, E!Clamp, E!Eval, E!Playing,
         E!ownerVars, E!setterVars, E!loopVars, E!clockVars,
         EProofs!Next, EProofs!vars, EProofs!Owner, EProofs!Setter,
         EProofs!RTStep, EProofs!SleepInterrupted, EProofs!Elapse,
         EProofs!Start, EProofs!Spawn, EProofs!SpawnFails, EProofs!Stop,
         EProofs!Join, EProofs!SetLock, EProofs!SetStore, EProofs!Prologue,
         EProofs!LoopHead, EProofs!LockTraj, EProofs!CopyTraj, EProofs!Tick,
         EProofs!Sleep, EProofs!Pointers, EProofs!NoPosition, EProofs!Clamp,
         EProofs!Eval, EProofs!Playing, EProofs!ownerVars,
         EProofs!setterVars, EProofs!loopVars, EProofs!clockVars
<1>3. /\ E!Inductive <=> EProofs!Inductive
      /\ E!Inductive' <=> EProofs!Inductive'
  BY DEF E!Inductive, E!TypeOK, E!QuietAfterStop, E!PlaybackCoherent,
         E!DriftFree, E!MutexHeld, E!OwnerInCall, E!Pointers, E!Positions,
         E!NoPosition, E!Playable, E!Playing,
         EProofs!Inductive, EProofs!TypeOK, EProofs!QuietAfterStop,
         EProofs!PlaybackCoherent, EProofs!DriftFree, EProofs!MutexHeld,
         EProofs!OwnerInCall, EProofs!Pointers, EProofs!Positions,
         EProofs!NoPosition, EProofs!Playable, EProofs!Playing
<1> QED
  BY <1>1, <1>2, <1>3, ExecutorConstants, EProofs!InitInductive,
     EProofs!NextInductive

\* A step of the demo is a step of the planner or leaves it alone, and likewise
\* for the executor; a trajectory handed over is a step of both.
LEMMA StepOfParts == [Next]_vars => [P!Next]_(P!vars) /\ [E!Next]_(E!vars)
<1> SUFFICES ASSUME [Next]_vars
             PROVE  [P!Next]_(P!vars) /\ [E!Next]_(E!vars)
  OBVIOUS
<1> USE DEF P!vars, P!ownerVars, P!requestVars, P!workerVars, plannerVars,
            E!vars, E!ownerVars, E!setterVars, E!loopVars, E!clockVars,
            executorVars
<1>1. CASE ConstructRobot \/ ConstructCollision \/ SleepOver
  BY <1>1 DEF ConstructRobot, ConstructCollision, SleepOver
<1>2. CASE LogTimingStats \/ DestroyCollision \/ DestroyRobot
  BY <1>2 DEF LogTimingStats, DestroyCollision, DestroyRobot
<1>3. CASE StartExecutor \/ SpawnExecutor \/ StopExecutor
  BY <1>3 DEF StartExecutor, SpawnExecutor, StopExecutor, E!Next, E!Owner
<1>4. CASE StartPlanner \/ SpawnPlanner \/ StopPlanner
  BY <1>4 DEF StartPlanner, SpawnPlanner, StopPlanner, P!Next, P!Owner
<1>5. CASE RequestPlan \/ RequestThrows
  BY <1>5 DEF RequestPlan, RequestThrows, P!Next, P!Client
<1>6. CASE HandOff
  <2>1. CASE E!SetLock("planner") /\ UNCHANGED plannerVars
    BY <2>1 DEF E!Next, E!Setter
  <2>2. CASE (\E t \in Trajs : E!SetStore("planner", t)) /\ P!Callback
    BY <2>2 DEF E!Next, E!Setter, E!Pointers, P!Next, P!WorkerStep
  <2> QED
    BY <1>6, <2>1, <2>2 DEF HandOff
<1>7. CASE PlanningThread \/ SpuriousWakeup
  BY <1>7 DEF PlanningThread, SpuriousWakeup, P!Next
<1>8. CASE RealTimeThread \/ Interrupt \/ Clock
  BY <1>8 DEF RealTimeThread, Interrupt, Clock, E!Next
<1>9. CASE UNCHANGED vars
  BY <1>9 DEF vars
<1> QED
  BY <1>1, <1>2, <1>3, <1>4, <1>5, <1>6, <1>7, <1>8, <1>9 DEF Next, MainThread

-----------------------------------------------------------------------------
(* The inductive invariant.                                                *)

\* The initial states satisfy it.
LEMMA InitInductive == Init => Inductive
<1> SUFFICES ASSUME Init PROVE Inductive
  OBVIOUS
<1>1. P!Inductive /\ E!Inductive
  BY PlannerPart, ExecutorPart DEF Init
<1>2. Coupled
  BY DEF Init, P!Init, E!Init, Coupled, Lifetimes, InsideCall, PartsInUse,
         HandedOver, PlannerInUse, ExecutorInUse, P!Planning, P!None,
         MainStatements, RealTimeThreadLives
<1> QED
  BY <1>1, <1>2 DEF Inductive

\* Every step of main and of the threads keeps the three together.
LEMMA NextCoupled == Inductive /\ [Next]_vars => Coupled'
<1> SUFFICES ASSUME Inductive, [Next]_vars PROVE Coupled'
  OBVIOUS
<1>2. Coupled /\ P!Inductive /\ E!Inductive
  BY DEF Inductive
<1> USE DEF Coupled, MainStatements, Objects, Lifetimes, InsideCall, PartsInUse,
            HandedOver, PlannerInUse, ExecutorInUse, RealTimeThreadLives,
            P!Planning, plannerVars, executorVars
<1>3. CASE ConstructRobot \/ ConstructCollision \/ SleepOver
  BY <1>2, <1>3 DEF ConstructRobot, ConstructCollision, SleepOver, After
<1>4. CASE LogTimingStats \/ DestroyCollision \/ DestroyRobot
  <2>1. CASE LogTimingStats
    BY <1>2, <2>1 DEF LogTimingStats
  <2>2. CASE DestroyCollision
    BY <1>2, <2>2 DEF DestroyCollision
  <2>3. CASE DestroyRobot
    BY <1>2, <2>3 DEF DestroyRobot
  <2> QED
    BY <1>4, <2>1, <2>2, <2>3
<1>5. CASE StartExecutor
  BY <1>2, <1>5 DEF StartExecutor, E!Start, E!ownerVars, E!setterVars,
                    E!loopVars, E!clockVars
<1>6. CASE SpawnExecutor
  BY <1>2, <1>6 DEF SpawnExecutor, E!Spawn, E!SpawnFails, E!setterVars,
                    E!loopVars, E!clockVars, E!Inductive, E!QuietAfterStop,
                    E!OwnerInCall
<1>7. CASE StartPlanner
  BY <1>2, <1>7 DEF StartPlanner, P!Start, P!ownerVars, P!requestVars,
                    P!workerVars
<1>8. CASE SpawnPlanner
  BY <1>2, <1>8 DEF SpawnPlanner, P!Spawn, P!SpawnFails, P!requestVars,
                    P!workerVars, P!Inductive, P!QuietAfterStop, P!OwnerInCall
<1>9. CASE RequestPlan
  BY <1>2, <1>9 DEF RequestPlan, P!RequestLock, P!RequestStore,
                    P!RequestNotify, P!Notified, P!ownerVars, P!requestVars,
                    P!workerVars
<1>10. CASE StopPlanner
  BY <1>2, <1>10 DEF StopPlanner, Leave, After, P!Stop, P!StopNotify, P!Join,
                     P!Notified, P!requestVars, P!workerVars, P!Inductive,
                     P!QuietAfterStop, P!OwnerInCall
<1>11. CASE StopExecutor
  BY <1>2, <1>11 DEF StopExecutor, Leave, After, E!Stop, E!Join, E!setterVars,
                     E!loopVars, E!clockVars, E!Inductive, E!QuietAfterStop,
                     E!OwnerInCall
<1>12. CASE HandOff
  <2>1. CASE E!SetLock("planner") /\ UNCHANGED plannerVars
    BY <1>2, <1>12, <2>1 DEF HandOff, E!SetLock, E!ownerVars, E!loopVars,
                             E!clockVars
  <2>2. ASSUME NEW t \in Trajs, E!SetStore("planner", t), P!Callback
        PROVE  Coupled'
    <3>1. request = 1 /\ t # Null
      BY <1>2, <2>2, PandaDemoAssumption
      DEF P!Callback, P!Inductive, P!TypeOK, P!None
    <3> QED
      BY <1>2, <1>12, <2>2, <3>1
      DEF HandOff, E!SetStore, E!ownerVars, E!loopVars, E!clockVars,
          P!Callback, P!requestVars, P!ownerVars
  <2> QED
    BY <1>12, <2>1, <2>2 DEF HandOff
<1>13. CASE PlanningThread
  <2>1. UNCHANGED <<mpc, alive, pRunning, pOpc, delivered, executorVars>>
    BY <1>13 DEF PlanningThread, P!WorkerStep, P!LoopHead, P!AcquireMutex,
       P!EvalPredicate, P!Block, P!LeaveLoop, P!Take, P!SolveIK, P!PlanPath,
       P!Callback, P!requestVars, P!ownerVars, P!workerVars
  <2>2. wpc # "none" /\ (wpc' \in P!Planning => request' # P!None)
    BY <1>2, <1>13
    DEF PlanningThread, P!WorkerStep, P!LoopHead, P!AcquireMutex,
        P!EvalPredicate, P!Block, P!LeaveLoop, P!Take, P!SolveIK, P!PlanPath,
        P!Callback, P!requestVars, P!ownerVars, P!workerVars, P!None
  <2> QED
    BY <1>2, <2>1, <2>2
<1>14. CASE SpuriousWakeup
  BY <1>2, <1>14 DEF SpuriousWakeup, P!SpuriousWakeup, P!requestVars,
                     P!ownerVars, P!workerVars
<1>15. CASE RealTimeThread \/ Interrupt \/ Clock
  <2>1. UNCHANGED <<mpc, alive, plannerVars, eRunning, eOpc, active>>
    BY <1>15 DEF RealTimeThread, Interrupt, Clock, E!RTStep, E!Prologue,
       E!LoopHead, E!LockTraj, E!CopyTraj, E!Tick, E!Sleep,
       E!SleepInterrupted, E!Elapse, E!ownerVars, E!setterVars
  <2>2. rtpc # "none" /\ rtpc' # "none" /\ (eRunning /\ rtpc # "done" => rtpc' # "done")
    BY <1>15 DEF RealTimeThread, Interrupt, Clock, E!RTStep, E!Prologue,
       E!LoopHead, E!LockTraj, E!CopyTraj, E!Tick, E!Sleep,
       E!SleepInterrupted, E!Elapse
  <2> QED
    BY <1>2, <2>1, <2>2
<1>16. CASE UNCHANGED vars
  BY <1>2, <1>16 DEF vars
<1>17. CASE RequestThrows
  BY <1>2, <1>17 DEF RequestThrows, P!RequestStoreThrows, P!ownerVars,
                     P!requestVars, P!workerVars
<1> QED
  BY <1>3, <1>4, <1>5, <1>6, <1>7, <1>8, <1>9, <1>10, <1>11, <1>12, <1>13,
     <1>14, <1>15, <1>16, <1>17 DEF Next, MainThread

\* Every step preserves the inductive invariant.
LEMMA NextInductive == Inductive /\ [Next]_vars => Inductive'
BY StepOfParts, PlannerPart, ExecutorPart, NextCoupled DEF Inductive

-----------------------------------------------------------------------------
(* What follows.                                                           *)

\* The inductive invariant holds in every reachable state of the demo.
THEOREM InductiveAlways == Spec => []Inductive
BY InitInductive, NextInductive, PTL DEF Spec

\* The demo uses its planner and its executor as their modules say they are used:
\* every behaviour of the demo is one of each, so that all that is proved of them
\* holds here.  main.cpp:35-120.
THEOREM PartsAsSpecified == Spec => P!Spec /\ E!Spec
<1>1. Init => P!Init /\ E!Init
  BY DEF Init
<1> QED
  BY <1>1, StepOfParts, PTL DEF Spec, P!Spec, E!Spec

\* Type correctness of the demo, its planner and its executor.
THEOREM TypeCorrect == Spec => []TypeOK
<1>1. Inductive => TypeOK
  <2> SUFFICES ASSUME Inductive PROVE alive \in Scopes
    BY DEF Inductive, Coupled, TypeOK, P!Inductive, E!Inductive
  <2>1. Lifetimes /\ mpc \in MainStatements /\ alive \subseteq Objects
    BY DEF Inductive, Coupled
  <2>2. \A s \in SUBSET Objects :
            (\A o \in Objects : o \in alive <=> o \in s) => alive = s
    BY <2>1
  <2> QED
    BY <2>1, <2>2 DEF Lifetimes, MainStatements, Objects, Scopes, PlannerInUse,
                      ExecutorInUse
<1> QED
  BY <1>1, InductiveAlways, PTL

\* On the normal path, and whichever of main's constructors, starts and request
\* throws, no object is destroyed while a thread can use it: an exception of the
\* request finds both threads alive.  main.cpp:30-120.
THEOREM ThreadsOutlived == Spec => []NoUseAfterDestruction
<1>1. Inductive => NoUseAfterDestruction
  BY DEF Inductive, Coupled, NoUseAfterDestruction, PlanningThreadLives,
         RealTimeThreadLives, Lifetimes, PartsInUse, PlannerInUse,
         ExecutorInUse, Objects
<1> QED
  BY <1>1, InductiveAlways, PTL

\* The counters are read when no thread is left to write them.  main.cpp:109-112.
THEOREM LogIsQuiet == Spec => []QuietBeforeLog
<1>1. Inductive => QuietBeforeLog
  BY DEF Inductive, Coupled, QuietBeforeLog, PlanningThreadLives,
         RealTimeThreadLives, PartsInUse, PlannerInUse, ExecutorInUse
<1> QED
  BY <1>1, InductiveAlways, PTL

\* A trajectory is only handed to an executor that runs, and is the one it has.
\* main.cpp:65-69.
THEOREM HandOffSafe == Spec => []HandOffReachesExecutor
<1>1. Inductive => HandOffReachesExecutor
  BY DEF Inductive, Coupled, HandOffReachesExecutor, RealTimeThreadLives,
         PartsInUse, PlannerInUse, HandedOver
<1> QED
  BY <1>1, InductiveAlways, PTL
=============================================================================
