# Verification of robotics_rt_demo

`robotics_rt_demo` plans motions for a Franka FR3 arm in a background thread,
plays the resulting trajectory at 1 kHz from a real-time thread, and checks
collisions on the CPU or, with a broadphase of its own, on an OpenCL device. This
directory holds TLA+ models of that program, the TLC instances that check them
and the TLAPS proofs about them.

## The system

| Component | State it keeps | Operations | Talks to |
|---|---|---|---|
| `Planner` (`motion_planning/planner.cpp`) | `running_`, one-slot `pending_request_` under `request_mutex_` and `request_cv_`, `thread_` | `start`, `stop`, `requestPlan` (any thread), `planningLoop`, `runOMPL` | calls `RobotModel::ik`, `CollisionScene` through OMPL, `fitCubicSpline`; hands trajectories to a callback on its own thread |
| `RTExecutor` (`rt_executor/rt_executor.cpp`) | `running_`, `active_traj_` under `traj_mutex_`; in the thread `local_traj_`, `loop_time_s_`, `last_q_`, the next deadline | `start`, `stop`, `setTrajectory` (any thread), `rtLoop`, `performLoopIteration` | calls `Trajectory::eval` and `on_tick_` |
| `main` (`app/panda_demo/main.cpp`) | the objects of its scope | builds them, asks for one plan, sleeps, shuts down | owns the model, the scene, the executor and the planner; connects the planner's callback to `setTrajectory` |
| `CoalGPUCollisionManager` | `objects_`, persistent buffers and staging, kernels with their bound arguments, an in-order queue | registry, `setup`, `collide` and `distance` against itself, one object, another manager | the OpenCL device; calls a callback per pair |
| `CollisionScene` | link objects with their transforms, the adjacency set, timing counters | `isCollisionFree`, `logTimingStats`, `makeOMPLChecker` | `RobotModel::fkLink`, a broadphase |
| `RobotModel` | KDL tree and chain, joint limits, link meshes, adjacent links, solvers | constructor, `fk`, `fkLink`, `ik`, `jointLimits` | KDL, urdfdom |
| `Trajectory`, `fitCubicSpline` | immutable coefficients | `eval`, the fit | none |
| `UBSanCountPass` (`llvm/ubsan_count`) | the function being compiled, a throwaway clone of it, the cached count | finds and removes overflow checks that ranges prove redundant, removes null checks of result pointers, counts the remaining handler calls | LLVM analyses |

### What is hard here, and what makes each component correct

* **Planner.** Three kinds of thread meet on one slot, one mutex, one condition
  variable and one atomic flag. Notifications are sent without the mutex, the
  standard allows spurious wakeups, a plan may fail, creating a thread may fail.
  Correct means: the newest request is never lost or left asleep, plans begin and
  are delivered in the order of the requests, nothing happens after `stop()`, and
  `stop()` returns.
* **RTExecutor.** A pointer handed over under a mutex, compared by identity; a
  clock with absolute deadlines; overruns, signals, restarts. Correct means: what
  is sent to the robot is one trajectory from its start, in steps of one period,
  held at its end, in time with the clock.
* **main.** Object lifetimes against threads, in the normal shutdown and when a
  constructor, a start or the request throws.
* **CoalGPUCollisionManager.** Host and device run concurrently; writes are
  non-blocking; buffers are sized by an earlier call; the kernels and the host
  must agree on the pair a position stands for. Correct means: every pair that
  could collide reaches the callback, judged on the current boxes.
* **CollisionScene, RobotModel.** Which links move, which pairs are compared,
  which limits apply.
* **IK, OMPL, spline.** Data that one stage checks and the next relies on: sizes,
  limits, statuses, the curve between the checked states. Correct means: the robot
  is sent where the plan says, and not far from it in between.
* **UBSan pass.** Ranges at the edge of a word, loops that wrap, branches that are
  rewritten while others are still to be looked at. Correct means: a check that is
  removed could not have fired, and no other one goes with it.

The hazards found while reading are listed with their lines in `PROJECT.json`.

## The modules

| Module | Models | Relates to |
|---|---|---|
| `PlanService` | what `Planner` promises: requests, a plan in progress, deliveries | abstract |
| `Planner` | `planner.cpp`, one action per step between two points where another thread can intervene | implements `PlanService` |
| `PlannerProofs` | theorems about `Planner` | extends it |
| `Playback` | what `RTExecutor` promises: the sequence of samples, repetitions included | abstract |
| `RTExecutor` | `rt_executor.cpp` and `Trajectory::eval`'s clamp | implements `Playback` |
| `MCRTExecutor` | three trajectories for TLC | extends `RTExecutor` |
| `RTExecutorProofs` | theorems about `RTExecutor` | extends it |
| `PandaDemo` | `main.cpp` | instantiates `Planner` and `RTExecutor` |
| `MCPandaDemo` | its instance | extends `PandaDemo` |
| `PandaDemoProofs` | theorems about the whole program | extends `PandaDemo`, instantiates `PlannerProofs`, `RTExecutorProofs` |
| `PairIndex` | positions of pairs in the kernels and in the host's loops | used by the next |
| `PairIndexProofs` | what the numberings of pairs do, for every number of objects | extends it |
| `GPUCollisionManager` | `coal_gpu_collision_manager.cpp`: host, device and queue | extends `PairIndex` |
| `MCGPUCollisionManager` | its instances | extends it |
| `GPUCollisionManagerProofs` | theorems about the manager | extends `GPUCollisionManager`, `PairIndexProofs` |
| `RobotModel` | `robot_model.cpp`: chain, limits, meshes, adjacent links, placement of links | used by `CollisionScene`, `MotionPlan` |
| `CollisionScene` | `collision_scene.cpp` on either broadphase | extends `RobotModel`, `PairIndex` |
| `MCCollisionScene` | a hand on two moving links, with a finger outside the chain | extends it |
| `CollisionSceneProofs` | theorems about the scene, for every robot | extends `CollisionScene`, `PairIndexProofs` |
| `CubicSpline` | `trajectory.cpp`: the fit and `eval` as operators on fractions | used by the next |
| `MotionPlan` | the data of one plan: `ik`, `runOMPL`, the fit, the samples of the executor | extends `RobotModel`, `CubicSpline` |
| `MCMotionPlan` | an arm of two moving links, seeds of three sizes | extends it |
| `MotionPlanProofs` | what reaches OMPL, what the spline does with any path and what is sampled from it | extends `MotionPlan` |
| `UBSanCountPass` | `UBSanCountPass.cpp`: the passes on one function, and its run | |
| `MCUBSanCountPass` | eight shapes of function, small counters | extends it |
| `UBSanCountPassProofs` | theorems about the pass, for every width of the counter | extends `UBSanCountPass` |

An operator that is defined just before an action and differs from it by one
plausible mistake (`StoreOnlyIfEmpty` before `RequestStore`, `SleepRelative` before
`Sleep`) is no part of the specification: it is the mutation under which a
property listed in `PROJECT.json` must fail.

### How state and actions correspond to the code

*Planner.* `running`, `pending` and `mutex` are `running_`, `pending_request_` and
the owner of `request_mutex_`; `wpc`, `cpc` and `opc` say where the planning thread,
the clients and the owner of the planner are. The header makes only `requestPlan`
thread-safe, so `start` and `stop` are called by one owner. `condition_variable::wait`
with a predicate is the loop the standard defines: `AcquireMutex`, `EvalPredicate`,
`Block` (release and enter the wait set in one step), and back to `AcquireMutex`
after a notification or a `SpuriousWakeup`. A request is its number in the order of
the stores: its contents decide nothing but whether IK and OMPL succeed, which is
left open. Copying it into the slot may throw (`RequestStoreThrows`): the lock is released
and the slot keeps what it had. A client whose call threw is `"thrown"` from then on and calls
no more, which bounds the calls that throw.

*RTExecutor.* `active` is `active_traj_`, `local`, `loop_time` and `last_q` are the
members of the loop. `Tick` is the code between the unlock and the sleep: it uses
only data of the thread, so nobody can tell its steps apart. The clock is
`slack = next_tick_ns - now`: `Elapse` lets time pass anywhere in the loop, and
`Sleep` returns when `slack <= 0`. A joint position is the trajectory and the time
it was evaluated at.

*Playback* has the callers (`Set`, `Start`, `Stop`) and a thread that takes the trajectory set
last (`Take`) and plays one period of it (`Play`), in turn. `Play` gives out the first sample of
another trajectory or after a start, else the next one, and the one before again only if there is
no next. Since taking and playing alternate, giving out a sample again is a step that
can be seen and not a stuttering one. `PlaybackPhase` says where in the executor's loop the
abstract thread takes and where it plays: `CopyTraj` is `Take`, `Tick` is `Play`, `Prologue` is `Begin`.

*PandaDemo.* `mpc` is the statement of `main`, `alive` the set of its objects. A
constructor, a `std::thread` and, with both threads alive, the preparation and the call of
`requestPlan` may throw (`RequestThrows`), and main then goes to the destructors of
what exists, in reverse order; those of the planner and the executor stop their threads. An
exception that leaves the function of one of the two threads ends the program at once
(`std::terminate`) and is not modelled; one of `logTimingStats` would go where its return goes. The planner's callback is the executor's only
setter: `HandOff` is `SetLock`, then `SetStore` together with `Callback`.

*GPUCollisionManager.* The device executes `queue` in order and in its own time. A
non-blocking write copies `staging` when the device gets to it; `ReadBack` waits for
the queue to drain. `pc` runs through upload, launch, read and the callback loop,
one pair a step. A box is a place on a line. The buffers of queries against others
live as long as the call; those of the self query persist.

*CollisionScene.* `Check` is `isCollisionFree` up to the end of
`updateCollisionTransforms`, `Broadphase` the search for pairs, `NarrowPhase` one call of
the callback, `Return` the rest. `tf`, `aabb` and `tree` keep apart the transform of an
object, its box and the copy of the box in the tree, since each is brought up to date
by a call of its own. One thread calls, as in the program. A link that is not on the chain has no
segment, and its object stays where it was created: `PlacedAt` is where the scene has a link, `Stands`
where the robot has it, and `Misplaced` a link for which the two differ. What the properties call a
contact is one of the robot. The joints of `RobotModel` are named by the link below them,
as kdl_parser does, except in `GetJoint`, which takes the name in the URDF.

*CubicSpline.* `Alpha`, `Sweep` (`mu` and `z`), `BackSubstitution` (`M`) and `Coefficients` are
the loops of `fitCubicSpline` for one joint. A double is a fraction in lowest terms, so
every equation of the properties is exact. `h` is zero when the duration is: each
division by it gives `NotFinite`, where the code gets an infinity or a NaN. Which of the
two makes no difference, since neither is ever divided by, and `eval` multiplies
infinities by `tau = 0`.

*MotionPlan.* `Planner` has the threads and no data, this module has the data of one
request and no threads: `SolveIK` is `RobotModel::ik` with its size check, `RunOMPL` is
`runOMPL` with the three kinds of status, `Fit` the spline and the callback, `Tick` an
iteration of the executor's loop while it evaluates. KDL may return any configuration
within the limits it was given that reaches the target; OMPL any path within its bounds
that starts at the start. The validity checker only makes fewer paths possible.

*UBSanCountPass.* `pc` runs through the default pipeline: `Collect` clones the function,
`StraightenClone` rewrites one branch of the clone at a time, `Decide` is
`CollectRemovableFromClone`, `Optimize` the removal of the flags, `OptimizeNullCheck` one null
check, `SimplifyCFG` the LLVM pass that follows, `PrintRemaining` the count. Then the compiled
function is called and run, with wrapping arithmetic. A function is a graph of blocks
and one counter; the order in which blocks are looked at is open. ScalarEvolution and
LazyValueInfo are three questions (the counter's range, the start on the edge into the
loop, the end after the backedge-taken count), each answered exactly or not at all; a
count exists only when a single exit branch leaves the loop of the clone, which is
what the straightening is for.

## What TLC checks

| Run | Shows |
|---|---|
| `planner` | Two clients, four requests, three starts. A planning thread is never left after `stop()`; the newest request is in the slot or was taken last; no request sleeps unless somebody is about to notify; every request is served or replaced; `stop()` returns if its notification does not fall in the gap below; `Planner` implements `PlanService`. |
| `planner_stop` (violation) | `stop()` clears the flag and notifies without the mutex. If that falls between the predicate and the wait, the thread sleeps for ever and `join` with it. |
| `rt_executor` | Two setters, three sets (enough for A, B and A again between two iterations), two starts, a period of lateness and one interrupted sleep; durations that are and are not multiples of the period, and a trajectory without joints. |
| `panda_demo` | The whole program, whichever constructor, start or request throws: no use of a destroyed object, counters read only when no thread writes them, the plan reaches a running executor and is played, the demo ends except by the gap of `planner_stop`. |
| `gpu_manager` | Two objects, two visitors, other managers with one or two objects, two places, with and without unified memory. Self queries of up to two objects, where both pair indexings agree. |
| `gpu_self_pairs` (violation) | Three objects: kernel position 2 is the pair (1, 3), which does not exist, and no position is (0, 2). An overlap can be missed. |
| `collision_scene` | Every subset of four meshes is readable or not, both broadphases, two checks in turn. A free answer means that no two links that are not adjacent touch in that configuration (on the CPU, and on the GPU for two objects, where the pair indexings agree); a collision answer always means a contact, with either broadphase. Both make an exception of misplaced links, which the next run is about. |
| `scene_links` (violation) | The finger has no segment: its object is never moved, and a configuration in which the hand carries it into the first link is called free, against `collision_scene.hpp:36` and `:88`. |
| `joint_limits` (violation) | Limits are looked up by the link's name, no joint has it, and the planner samples up to +-pi. |
| `motion_plan` | Seeds of the right size, one joint short, one too many and out of bounds; durations -1, 0 and 1; every path of one to four states on three positions a joint. Vectors have the right size and goals are within bounds when OMPL gets them; the trajectory meets the path in time, starts at `q_current` and ends at the goal unless OMPL's solution was approximate; its corners are half those of the polygon through the path; samples stay within a seventh of the path's range, and are no numbers exactly when the duration is 0. |
| `spline_corners` (violation) | The curve is documented as a natural cubic spline; its velocity jumps at the waypoints. |
| `ubsan` | Loops with the check before or behind the loop's test, handlers that return, that do not, and one with a copy of the test; functions without a loop, with shared handlers and null checks. Starts that are constants or arguments behind four guards, steps -2, -1, 1 and 3, bounds inside and at the ends of the word, both kinds of exit. A removed check never fires and the compiled function branches as the original, except in the two cases below; the loops of `test/test.cpp` are freed of their checks; in a pipeline that counts once, the count is that of the surviving handlers. |

**Where the code breaks its documentation.** Each of the five violation runs shows one such place.
At five more, which have no run of their own, a property that passes makes an exception for what the
code does, and says so. TLC refutes each of them as soon as the exception is taken out.

* `setTrajectory(nullptr)` is documented to hold the last position (`rt_executor.hpp:38`). The change
  of pointer clears `last_q_` (`rt_executor.cpp:98-101`), so there is nothing to hold: `First` in
  `Playback` gives out nothing without a trajectory.
* `runOMPL` is documented to return an empty vector unless it was successful (`planner.hpp:86-87`). An
  approximate solution converts to true as well (`planner.cpp:157`), and a path that does not reach the
  goal becomes a plan: `WaypointsMet` promises the goal for exact solutions only.
* A check is removed when the overflow is "provably impossible" (`UBSanCountPass.cpp:99-100`). A counter
  that is compared with its bound for equality only, in steps of more than one, may step over it, wrap
  and arrive later: from -2 by 3 to 0, say. Its start and end pass the test of `Monotone`, their hull is
  taken for its range (`:315-323`), and a check that would fire is removed. The exception of
  `NoSilentOverflow` (`MayStepOver`) is every counter of that kind, those included whose start and bound
  make them meet the bound without a wrap.
* The handler that a null check of the result pointer guards is said to be unreachable (`:411-412`). The
  branch at the end of the comparison's block goes whatever it tests (`:428`): with
  `-fsanitize=null,alignment` both conditions share one branch, so the alignment report is lost.
  `ReportsKept` makes an exception of these blocks.
* The last pass is to report the surviving sites "after everything else has run" (`:575-576`).
  `invalidate` (`UBSanCountPass.h:20`) keeps a count that was printed before the optimisations, and the
  one at the end is then stale. `SurvivorsReported` is about pipelines that count once.

**Bounds.** `MaxRequests`, `MaxSets` and `MaxStarts` bound calls: four requests are
one being planned, one waiting and two that overtake; three starts are a failed
one, a first thread and a second. `MaxLate` is a whole period in the
instance, so that two iterations follow each other without a sleep in between and
late and early ones alternate. The
proofs below have no such bounds. `MaxQueue` bounds the commands a query may find
pending: self queries of a single object queue a write and never wait, so nothing
in the code bounds them. `MaxChecks` is two: a check overwrites every transform it
uses, so what a check can inherit comes from the one before. Four waypoints give two
interior knots, the least with a system to solve (`mu` and the back substitution matter
from there on); twelve samples to a unit of time fall on every knot and between them.
That the curve leaves a path's range by a seventh of it at most is no matter of the
instance: it is proved for paths of any length. Words of three
bits have a sign, an end that is no power of two and room for a step that leaps over
either end. Deadlock is checked in every run except `panda_demo`, where the program ends,
those of `CollisionScene`, whose constructor may throw, and those that follow one plan
or one function to its end.

**Fairness.** Weak fairness for each thread's own next step, since a thread that can
run is scheduled; IK and OMPL return because both have limits. Nobody is obliged to
call `start`, `stop`, `requestPlan` or `setTrajectory`, and spurious wakeups, signals
and failures are never owed. In `PandaDemo` the main thread and the planning
thread each lock a mutex that another loop takes and releases for ever: strong
fairness says that such a lock is obtained in the end, which `std::mutex` does not
promise in so many words but the loops do, since they sleep or wait in between.

## What is proved

For all values of the constants, with TLAPS. In every module that has one, `Inductive` is
an inductive invariant, TLC has checked it as an invariant of the module's run, and the
safety properties follow from it.

* `PlannerProofs`. That no request sleeps (`NoLostRequestWakeup`) needs to know who holds
  the mutex at each program point (`MutexHeld`) and that the thread only decides to wait
  while the slot is empty (`SlotAhead`); that nothing is left after `stop()` needs where
  the owner is in its calls (`OwnerInCall`). From it follow `TypeOK`, `QuietAfterStop`,
  `NoLostRequestWakeup`, `LatestRequestKept`, and, step by step, that `Planner`
  implements `PlanService`.
* `RTExecutorProofs`: the same for `RTExecutor`, with `PlaybackCoherent` (the
  playback state describes one trajectory) and `DriftFree` in the invariant;
  `HeldNearEnd` follows, and `RTExecutor` implements `Playback`, step by step: what an
  iteration gives out is a first sample, the next one or the last one held (`TickSimulates`),
  which needs `PlaybackCoherent` and that `PlaybackPhase` follows the thread (`PhaseOf`).
* `PandaDemoProofs` puts the two together. The demo's invariant is that of its planner,
  that of its executor, and `Coupled`, which says where main is while each of them is in
  one of its calls. Every step of the demo is a step of the planner, of the executor, of
  both (`HandOff`) or of neither, so the lemmas of the two modules are used through
  `INSTANCE` and not proved again, and `PartsAsSpecified` says that the demo uses its parts
  as their modules say they are used. `NoUseAfterDestruction`, `QuietBeforeLog` and
  `HandOffReachesExecutor` follow. When the request throws, main comes to `~planner` with both
  threads alive; `Coupled` therefore lets the planning thread live there, and the executor with it.
* `PairIndexProofs`: the host's counter runs through the pairs `i < j`, each once
  (`HostVisitsEveryPair`), and the kernels' numbering never comes to (0, 2) and names an
  object past the last, for every number of objects from three on: what `gpu_self_pairs`
  shows on an instance is so for all.
* `GPUCollisionManagerProofs`, for any objects, places, bounds and other managers.
  The invariant says what may be in the queue at each point of the host (`QueueOK`),
  that the boxes of the query are on the device, or staged with their upload still queued
  (`UploadOK`), whose answers the buffers hold (`ResultsOK`), and that what
  was called back and what was passed over make up the pairs before the host's position
  (`CallsOK`). `BuffersFit`, `FreshResults`, `NoKernelOnMapped`, `CollideComplete` and
  `PruningIsSound` follow; `CollideComplete` is about queries whose pairs both sides number
  alike, which are those against others and those of at most two objects.
* `CollisionSceneProofs`, for every tree of links. `FramesDefined` first: forward
  kinematics is defined by recursion on the tree, and that there is a function which
  solves the recursion is shown from the assumption that every set of links has one
  whose parent is outside. The invariant then ties transform, box and tree box to
  the last configuration (`PlacedOK`) and the pairs still to be searched to the ones that
  touch (`SearchOK`). `FreeMeansFree` and `CollidedMeansContact` follow, since a link that is
  not misplaced is where the robot has it (`PlacedRight`).
* `MotionPlanProofs`, for robots none of whose joints has the name of a link, as in the URDF
  used, and for paths of any length. `StartAndGoalFit` rests on `SolutionsInSpace`: the limits
  exported and those of the solver are the same only because the lookup of the exported
  ones always fails (`LimitsAreDefaults`). The rest is about the curve, in four layers:
  1. Fractions. `Is(x, n, d)` says that `x` is `n/d` in lowest terms. Euclid's algorithm ends
     (`GcdIsGcd`), so every operator of `CubicSpline` gives what its name says (`FracIs`, `IsSum`,
     `IsProduct`, `IsQuotient`, `LeqIs`, ...).
  2. The fit. The sweep's pivots are between three and four steps (`PivotIs`), so nothing is
     divided by zero unless the duration is; what the back substitution returns solves the
     equations (`ThomasSolves`); each piece begins and ends at its waypoints (`SegmentStart`,
     `SegmentEnd`).
  3. `eval`. At a knot it finds the piece that begins there (`EvalKnot`): `WaypointsMet`. The second
     derivative is zero at the ends, and at a corner the change of velocity is half that of
     the polygon (`NaturalEnds`, `Corner`): `CornersHalved`. `TypeOK` needs that it returns a number
     or `NotFinite` at every time (`EvalClosed`), `SamplesNearPath` that it is `NotFinite` when the
     duration is zero (`EvalNotFinite`).
  4. The bound of a seventh. In units in which every number of the spline is an integer
     (`CommonDenominator`), no moment is more than three times the path's range
     (`MomentsBounded`), and the equations to the left and to the right of a piece
     leave its two moments only what `LeftOf` and `RightOf` say (their 4/15 is nearly 2 - sqrt(3), the
     ratio by which an oscillation dies out). With these the cubic stays within
     a seventh in an inner piece (`MiddleAbove`) and in one at the end (`EdgeAbove`).
     `SamplesNearPath` follows.

  `Inductive` adds to the type that the trajectory is the fit of the path that OMPL returned and
  the last sample its value at the last tick.
* `UBSanCountPassProofs`, for counters of any width, any number of blocks and any
  answers of the analyses. The core is `FoundMeansSafe`: if `BoundOverflowOperand` gives a
  range for which `RangesProveNoOverflow` says yes, the sum overflows for no value that the
  counter can have in the loop (`Visited`). It needs that modular iteration comes round
  after `2 * Half` steps and not before its exit (`Iterations`, `NoWrapBeforeExit`), and
  `Monotone`: without it the lemma is false. The invariant adds that straightening leaves
  graphs that are closed (`GraphsOK`), that a block of the compiled function branches as
  before or jumps where it went when nothing it tested held (`BranchesOK`), and that behind
  the loop's test the counter does not exit (`RunOK`). `TypeOK`, `NoSilentOverflow` and,
  from that, `ReportsKept` follow. `CountdownsFreed` is `CountdownFreed` for every width under
  the condition that the straightened clone has a single exit. `CountsEverySite` and
  `PrintedIsCounted` say that what is printed is the number of handler calls in the compiled
  function, or in the original when a count was printed before. `SurvivorsReported`
  says which calls those are when only the end of the pipeline counts. Its invariant (`SurvivorsOK`) says of every branch that it is
  as it was or jumps past its handler (`BranchesCut`), and that the first null check looked at takes
  the comparison out of every condition it is part of (`NullTaken`). What `SimplifyCFG` leaves is then
  the blocks that are no handlers and the handlers that a branch still leads to (`ReachedFrom`).

**Assumptions.** Those named in the modules, which TLC evaluates on every instance. The bounds
are natural numbers, the period is positive, durations are integers (negative ones included),
the null pointer is no trajectory, the objects of a manager are finitely many and none of them
is a visitor. Of a robot: its links are a tree. Of a compiled function (`WellFormed`): its
branches lead to its blocks; a handler's block holds the call and no check, as clang emits it;
and every round of its loop passes the test of its exit (`AfterTest`), as the rounds of a `for`
or `while` loop do. Without the last a counter could go round without ever being compared,
and what the backedge-taken count says of it would be about another loop. `SurvivorsAlwaysReported`
alone also cites `FrontEndAssumption`, how clang lays out its checks (`ChecksGuarded`): a handler is
the first of two ways out of a block that is none itself, and the other way goes past it; a
branch with two ways tests something; overflow is tested by a branch of its own, and what is
compared with null has its comparison in some block; every block that is no handler can be
reached without going through one.

**How it is proved.** The installed provers cannot use an induction theorem, since those take
the predicate as a parameter. Where an induction is needed it is replaced by its first-order
form: of the numbers for which a claim fails there is a least one (`LeastNumber`), of the sets
for which it fails one of the least cardinality. This is how the recursion of
`Frame` and of `Count`'s total, the sum of the host's rows (`PairIndex`) and the elements that
a loop keeps (`Kept`) are reasoned about. Where a definition could not be reasoned about it was put
in another form with the same meaning, and TLC finds the same number of states as with the
old one: `Unregister` and `Kept` say position by position what the erased or filtered
sequence is; `Reaches` says by closed sets of blocks what was a recursive search; the width of
a word is given by `Half`, half of the number of words; `Gcd` is a recursive function. That
such functions exist and satisfy their equations is itself proved (`EuclidDefined`,
`RowsDefined`, `UpwardsDefined`).

**Only model-checked.**

* Liveness: `RequestServed`, `StopReturnsIfHeard`, `PickedUp`, `StopReturns`,
  `EndsUnlessWakeupLost`, `PlanIsPlayed`. `ENABLED` and fairness are out of the prover's reach.
* That straightening leaves the loops of `CountdownFreed` a single exit, which depends on
  the shape of each.

## What is not modelled

* Scheduling priorities, affinity, the real-time guarantees of a mutex or of
  memory allocation.
* Floating point. In particular `loop_time_s_` accumulates 0.001: after 1000 steps it is
  slightly above 1, so a trajectory of one second loses its last sample, while one
  of four seconds does not. Time is exact in the models.
* The numerical solvers of KDL, OMPL's search, COAL's narrow phase, mesh loading.
* Of the compiler plugin, the pass that prints verdicts and changes nothing, unsigned
  operations and multiplications (never removed when signed), and LLVM's analyses where
  they answer with less than the exact range.
* OpenCL errors. The code reads no error code of a queue operation and enables no
  exceptions: a refused kernel leaves old results in place. The model's device refuses
  only empty ranges.
* Exceptions that leave a thread's function, which end the program, and two threads that check
  collisions at a time, which the program has not.
* Build files, recipes, scripts, the OMPL example.

## Plan

Written, in order of importance: `Planner`, `RTExecutor`, `PandaDemo`,
`GPUCollisionManager`, `RobotModel` and `CollisionScene`, `MotionPlan` with `CubicSpline`,
`UBSanCountPass`. Every component of the repository's own code has its module, and every
safety property that a passing run checks is stated by a theorem; `CountdownFreed` under the
condition named above. Left for later: a condition on a loop's shape from which
`SingleExit` of the straightened clone follows; the ownership of trajectories (which
thread drops the last reference) and errors of the device's queue.
