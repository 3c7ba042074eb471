----------------------------- MODULE PandaDemo ------------------------------
(***************************************************************************)
(* app/panda_demo/main.cpp: the program that owns a robot model, a         *)
(* collision scene, an executor and a planner, connects the planner's      *)
(* callback to the executor, asks for one plan, lets it run and shuts      *)
(* down.  The main thread is the owner and the only client of Planner and  *)
(* the owner of RTExecutor; the planning thread, inside the callback, is   *)
(* the executor's only setter.  What throws in the main thread unwinds to  *)
(* the handler in main: a constructor, a start() that gets no thread, or   *)
(* the preparation and the call of requestPlan, while both threads live.   *)
(* Destructors then run from whichever point was reached.  An exception    *)
(* that leaves one of the two threads' functions ends the program at once  *)
(* (std::terminate) and is not modelled.                                   *)
(***************************************************************************)
EXTENDS Integers

CONSTANTS Trajs, Null, Empty, Duration, Period, MaxLate, MaxInterrupts

\* What RTExecutor assumes of them.
ASSUME PandaDemoAssumption ==
    /\ Null \notin Trajs
    /\ Empty \subseteq Trajs
    /\ Duration \in [Trajs -> Int]
    /\ Period \in Nat \ {0}
    /\ MaxLate \in Nat /\ MaxInterrupts \in Nat

VARIABLES
    mpc,     \* the statement main is at
    alive,   \* the objects of main's scope that exist
    pRunning, pMutex, pending, pOpc, cpc, wpc, request, stored, delivered, pStarts,
    eRunning, eMutex, active, eOpc, spc, rtpc, traj_ptr, local, loop_time, last_q,
    slack, elapsed, loadSlack, sets, eStarts, interrupts

plannerVars == <<pRunning, pMutex, pending, pOpc, cpc, wpc, request, stored,
                 delivered, pStarts>>
executorVars == <<eRunning, eMutex, active, eOpc, spc, rtpc, traj_ptr, local,
                  loop_time, last_q, slack, elapsed, loadSlack, sets, eStarts,
                  interrupts>>
vars == <<mpc, alive, plannerVars, executorVars>>

P == INSTANCE Planner WITH
        Clients <- {"main"}, MaxRequests <- 1, MaxStarts <- 1,
        running <- pRunning, mutex <- pMutex, opc <- pOpc, starts <- pStarts

E == INSTANCE RTExecutor WITH
        Setters <- {"planner"}, MaxSets <- 1, MaxStarts <- 1,
        running <- eRunning, mutex <- eMutex, opc <- eOpc, starts <- eStarts

Objects == {"robot", "collision", "executor", "planner"}

\* The objects of the scope that can exist together: those declared up to a point.
Scopes == {{}, {"robot"}, {"robot", "collision"}, Objects \ {"planner"}, Objects}

-----------------------------------------------------------------------------
(* The main thread. *)

Init ==
    /\ mpc = "robot"
    /\ alive = {}
    /\ P!Init
    /\ E!Init

\* RobotModel robot(...): throws if the URDF or the chain cannot be built.
ConstructRobot ==
    /\ mpc = "robot"
    /\ \/ mpc' = "collision" /\ alive' = {"robot"}
       \/ mpc' = "exit" /\ UNCHANGED alive
    /\ UNCHANGED <<plannerVars, executorVars>>

\* CollisionScene collision(...): throws if the GPU buffers cannot be made.
ConstructCollision ==
    /\ mpc = "collision"
    /\ \/ mpc' = "executor.start" /\ alive' = alive \cup {"collision"}
       \/ mpc' = "~robot" /\ UNCHANGED alive
    /\ UNCHANGED <<plannerVars, executorVars>>

\* RTExecutor rt_executor(on_tick); rt_executor.start(), up to the thread.
StartExecutor ==
    /\ mpc = "executor.start"
    /\ alive' = alive \cup {"executor"}
    /\ E!Start
    /\ UNCHANGED <<mpc, plannerVars>>

\* The thread is created, or its constructor throws and main unwinds.
SpawnExecutor ==
    /\ mpc = "executor.start"
    /\ \/ E!Spawn /\ mpc' = "planner.start"
       \/ E!SpawnFails /\ mpc' = "~executor"
    /\ UNCHANGED <<alive, plannerVars>>

\* Planner planner(robot, collision, on_new_trajectory); planner.start().
StartPlanner ==
    /\ mpc = "planner.start"
    /\ alive' = alive \cup {"planner"}
    /\ P!Start
    /\ UNCHANGED <<mpc, executorVars>>

SpawnPlanner ==
    /\ mpc = "planner.start"
    /\ \/ P!Spawn /\ mpc' = "requestPlan"
       \/ P!SpawnFails /\ mpc' = "~planner"
    /\ UNCHANGED <<alive, executorVars>>

\* planner.requestPlan(target, 4.0, q_current)
RequestPlan ==
    /\ mpc = "requestPlan"
    /\ \/ (P!RequestLock("main") \/ P!RequestStore("main")) /\ UNCHANGED mpc
       \/ P!RequestNotify("main") /\ mpc' = "sleep"
    /\ UNCHANGED <<alive, executorVars>>

\* An exception on the way to a stored request: in making q_current, in copying
\* the arguments or in taking the lock, or under the lock.  ~Planner is the first
\* destructor to run, with both threads alive.
RequestThrows ==
    /\ mpc = "requestPlan"
    /\ \/ cpc["main"] = "idle" /\ UNCHANGED plannerVars
       \/ P!RequestStoreThrows("main")
    /\ mpc' = "~planner"
    /\ UNCHANGED <<alive, executorVars>>

\* Main stops the executor before the planner that hands trajectories to it.
AfterExecutorFirst(stmt) ==
    CASE stmt = "sleep"         -> "executor.stop"
      [] stmt = "executor.stop" -> "planner.stop"
      [] stmt = "planner.stop"  -> "log"
      [] stmt = "~planner"      -> "~executor"
      [] stmt = "~executor"     -> "~collision"

\* Main leaves the executor to its destructor.
AfterExecutorRuns(stmt) ==
    CASE stmt = "sleep"         -> "planner.stop"
      [] stmt = "planner.stop"  -> "log"
      [] stmt = "~planner"      -> "~executor"
      [] stmt = "~executor"     -> "~collision"

\* The statement after a call, or after a destructor; the destructors of the
\* scope run in the reverse order of construction.
After(stmt) ==
    CASE stmt = "sleep"         -> "planner.stop"
      [] stmt = "planner.stop"  -> "executor.stop"
      [] stmt = "executor.stop" -> "log"
      [] stmt = "~planner"      -> "~executor"
      [] stmt = "~executor"     -> "~collision"

\* sleep_for(12 s): how far planning and playback get meanwhile is left open.
SleepOver ==
    /\ mpc = "sleep"
    /\ mpc' = After("sleep")
    /\ UNCHANGED <<alive, plannerVars, executorVars>>

\* Leaving a statement; a destructor ends its object's life.
Leave(stmt, object) ==
    /\ mpc' = After(stmt)
    /\ alive' = IF stmt \in {"~planner", "~executor"} THEN alive \ {object} ELSE alive

\* Planner has no destructor of its own.
DestroyPlannerUnstopped ==
    \E stmt \in {"planner.stop", "~planner"} :
        /\ mpc = stmt
        /\ \/ /\ stmt = "planner.stop"
              /\ \/ P!Stop /\ IF pRunning THEN UNCHANGED <<mpc, alive>>
                                          ELSE Leave(stmt, "planner")
                 \/ P!StopNotify /\ UNCHANGED <<mpc, alive>>
                 \/ P!Join /\ Leave(stmt, "planner")
           \/ stmt = "~planner" /\ Leave(stmt, "planner") /\ UNCHANGED plannerVars
        /\ UNCHANGED executorVars

\* planner.stop(), called by main and again by ~Planner.
StopPlanner ==
    \E stmt \in {"planner.stop", "~planner"} :
        /\ mpc = stmt
        /\ \/ P!Stop /\ IF pRunning THEN UNCHANGED <<mpc, alive>>
                                    ELSE Leave(stmt, "planner")
           \/ P!StopNotify /\ UNCHANGED <<mpc, alive>>
           \/ P!Join /\ Leave(stmt, "planner")
        /\ UNCHANGED executorVars

\* rt_executor.stop(), called by main and again by ~RTExecutor.
StopExecutor ==
    \E stmt \in {"executor.stop", "~executor"} :
        /\ mpc = stmt
        /\ \/ E!Stop /\ IF eRunning THEN UNCHANGED <<mpc, alive>>
                                    ELSE Leave(stmt, "executor")
           \/ E!Join /\ Leave(stmt, "executor")
        /\ UNCHANGED plannerVars

\* collision.logTimingStats(): reads the counters that planning writes.
LogTimingStats ==
    /\ mpc = "log"
    /\ mpc' = "~planner"
    /\ UNCHANGED <<alive, plannerVars, executorVars>>

\* The robot is destroyed before the scene that refers to it.
DestroyRobotFirst ==
    /\ mpc = "~collision"
    /\ mpc' = "~robot"
    /\ alive' = alive \ {"robot"}
    /\ UNCHANGED <<plannerVars, executorVars>>

DestroyCollision ==
    /\ mpc = "~collision"
    /\ mpc' = "~robot"
    /\ alive' = alive \ {"collision"}
    /\ UNCHANGED <<plannerVars, executorVars>>

\* The end of the scope, and of main.
DestroyRobot ==
    /\ mpc = "~robot"
    /\ mpc' = "exit"
    /\ alive' = alive \ {"robot"}
    /\ UNCHANGED <<plannerVars, executorVars>>

-----------------------------------------------------------------------------
(* The threads. *)

\* The callback does not reach the executor.
HandOffDropped ==
    /\ wpc = "callback"
    /\ P!Callback
    /\ UNCHANGED <<mpc, alive, executorVars>>

\* on_new_trajectory: rt_executor.setTrajectory(traj) on the planning thread.
\* The spline of a path with one waypoint has no joints.
HandOff ==
    /\ wpc = "callback"
    /\ \/ E!SetLock("planner") /\ UNCHANGED plannerVars
       \/ (\E t \in Trajs : E!SetStore("planner", t)) /\ P!Callback
    /\ UNCHANGED <<mpc, alive>>

\* Any other step of the planning thread.
PlanningThread ==
    /\ wpc # "callback"
    /\ P!WorkerStep
    /\ UNCHANGED <<mpc, alive, executorVars>>

SpuriousWakeup == P!SpuriousWakeup /\ UNCHANGED <<mpc, alive, executorVars>>

RealTimeThread == E!RTStep /\ UNCHANGED <<mpc, alive, plannerVars>>

\* A sleep of the real-time thread is cut short.
Interrupt == E!SleepInterrupted /\ UNCHANGED <<mpc, alive, plannerVars>>

Clock == E!Elapse /\ UNCHANGED <<mpc, alive, plannerVars>>

-----------------------------------------------------------------------------
MainThread ==
    \/ ConstructRobot \/ ConstructCollision
    \/ StartExecutor \/ SpawnExecutor \/ StartPlanner \/ SpawnPlanner
    \/ RequestPlan \/ StopPlanner \/ StopExecutor \/ LogTimingStats
    \/ DestroyCollision \/ DestroyRobot

Next ==
    \/ MainThread \/ RequestThrows \/ SleepOver \/ HandOff \/ PlanningThread \/ SpuriousWakeup
    \/ RealTimeThread \/ Interrupt \/ Clock

Spec == Init /\ [][Next]_vars

\* The three threads run whenever they can, and time passes.  How long main's
\* sleep lasts is left to the properties.  The two mutexes are
\* released again and again, so a thread that waits for one gets it in the end:
\* the loops on the other side hold it for a copy and then sleep or wait.
FairSpec ==
    /\ Spec
    /\ WF_vars(MainThread) /\ SF_vars(RequestPlan)
    /\ WF_vars(PlanningThread) /\ SF_vars(HandOff)
    /\ WF_vars(RealTimeThread)
    /\ WF_vars(Clock)

-----------------------------------------------------------------------------
(* Properties. *)

MainStatements ==
    {"robot", "collision", "executor.start", "planner.start", "requestPlan",
     "sleep", "planner.stop", "executor.stop", "log", "~planner", "~executor",
     "~collision", "~robot", "exit"}

PlanningThreadLives == wpc \notin {"none", "done"}
RealTimeThreadLives == rtpc \notin {"none", "done"}

\* The values each variable takes; the objects of the scope live and die in order.
TypeOK ==
    /\ mpc \in MainStatements
    /\ alive \in Scopes
    /\ P!TypeOK
    /\ E!TypeOK

\* Threads hold references to main's objects (planner.hpp:66-68, the captures of
\* main.cpp:45, 65): no object is destroyed while a thread can still use it, on
\* the normal path and whichever constructor, start or request throws.
NoUseAfterDestruction ==
    /\ PlanningThreadLives => alive = Objects
    /\ RealTimeThreadLives => "executor" \in alive

\* The counters logTimingStats reads are plain members that the planning thread
\* writes (collision_scene.cpp:154-155): no planning thread is left by then, and
\* the robot no longer moves either.  main.cpp:109-112.
QuietBeforeLog == mpc = "log" => ~PlanningThreadLives /\ ~RealTimeThreadLives

\* A trajectory is handed only to an executor whose thread was started, and what
\* the executor then plays is that trajectory.  main.cpp:65-69.
HandOffReachesExecutor ==
    /\ wpc = "callback" => RealTimeThreadLives
    /\ active # Null <=> delivered = 1

\* Statements while the planner's thread may exist, and the executor's.
PlannerInUse  == {"requestPlan", "sleep", "planner.stop"}
ExecutorInUse == {"planner.start", "executor.stop", "~planner", "~executor"}
                     \cup PlannerInUse

\* The objects of the scope at each statement: an object with a thread exists
\* as soon as its start() has begun, and until its destructor is done.
Lifetimes ==
    /\ "robot" \in alive <=> mpc \notin {"robot", "exit"}
    /\ "collision" \in alive <=> mpc \notin {"robot", "collision", "~robot", "exit"}
    /\ "executor" \in alive <=>
          mpc \in ExecutorInUse \cup {"log"} \/ (mpc = "executor.start" /\ eOpc = "spawn")
    /\ "planner" \in alive <=>
          \/ mpc \in PlannerInUse \cup {"executor.stop", "log", "~planner"}
          \/ mpc = "planner.start" /\ pOpc = "spawn"

\* Main is inside start() or stop() of a part only at the statements that call it.
InsideCall ==
    /\ pOpc = "spawn" => mpc = "planner.start"
    /\ pOpc \in {"notify", "join"} => mpc \in {"planner.stop", "~planner"}
    /\ eOpc = "spawn" => mpc = "executor.start"
    /\ eOpc = "join" => mpc \in {"executor.stop", "~executor"}

\* The flags and threads of the two parts, against the statement main is at.
PartsInUse ==
    /\ pRunning => mpc \in PlannerInUse \cup {"~planner"} \/ pOpc = "spawn"
    /\ wpc # "none" => /\ mpc \in PlannerInUse \cup {"~planner"}
                       /\ eRunning /\ RealTimeThreadLives
    /\ eRunning => mpc \in ExecutorInUse \/ eOpc = "spawn"
    /\ rtpc # "none" => mpc \in ExecutorInUse
    /\ mpc \in PlannerInUse \cup {"planner.start"} => eRunning /\ RealTimeThreadLives

\* What has been handed over, in the planner's terms and in the executor's.
HandedOver ==
    /\ wpc \in P!Planning => request # P!None
    /\ active # Null <=> delivered = 1

\* How main, the planner and the executor go together.
Coupled ==
    /\ mpc \in MainStatements /\ alive \subseteq Objects
    /\ Lifetimes /\ InsideCall /\ PartsInUse /\ HandedOver

\* With what holds of each part on its own, this is inductive.
Inductive == P!Inductive /\ E!Inductive /\ Coupled

\* If main's sleep ends, the one way the demo fails to end is the wakeup lost in
\* Planner::stop, called by main or by ~Planner.  main.cpp:104-120.
EndsUnlessWakeupLost ==
    ((mpc = "sleep") ~> (mpc # "sleep")) =>
        <>(\/ mpc = "exit"
           \/ /\ mpc \in {"planner.stop", "~planner"}
              /\ pOpc = "join" /\ wpc = "waiting")

\* A plan that is handed over while main sleeps is played, if the sleep is long
\* enough: no mutex, condition variable or restart keeps it from the robot.
\* main.cpp:65-69, 104.
PlanIsPlayed ==
    (delivered = 1 /\ mpc = "sleep") ~> (last_q # E!NoPosition \/ local \in Empty
                                            \/ mpc # "sleep")
=============================================================================
