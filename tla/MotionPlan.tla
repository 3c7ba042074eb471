----------------------------- MODULE MotionPlan -----------------------------
(***************************************************************************)
(* The data of one plan, from planner.cpp's request through RobotModel's   *)
(* inverse kinematics, OMPL and fitCubicSpline to the positions that       *)
(* rt_executor.cpp samples.  Planner and RTExecutor have the threads and   *)
(* leave the data out; here one request is followed to its end.            *)
(*                                                                         *)
(* A configuration is a function on joints (a vector of the wrong size is  *)
(* one on other joints), a target the place of the tip.  The solvers are   *)
(* external: CartToJnt returns any configuration within the limits it was  *)
(* given that reaches the target, or fails; RRT* returns a path within the *)
(* bounds of the space from the start, which ends near the goal unless the *)
(* solution is approximate, or none.                                       *)
(***************************************************************************)
EXTENDS RobotModel, CubicSpline

CONSTANTS
    Positions,      \* positions of a joint
    Targets,        \* places asked for
    Seeds,          \* the q_current that callers pass, of any size
    Durations,      \* the durations they pass
    Tolerance,      \* of the goal (0.05 in the code), in positions
    MaxWaypoints,   \* bound: states of a path
    TicksPerUnit    \* samples of the executor in one unit of time

ASSUME MotionPlanAssumption ==
    /\ Positions \subseteq Int
    /\ Targets \subseteq Int
    /\ \A s \in Seeds : \A j \in DOMAIN s : s[j] \in Int
    /\ Durations \subseteq Int
    /\ Tolerance \in Nat
    /\ MaxWaypoints \in Nat \ {0}
    /\ TicksPerUnit \in Nat \ {0}

VARIABLES
    pc,         \* what is done next, or "done"
    request,    \* target, duration_s and q_current
    q_goal,     \* what ik returned
    solved,     \* OMPL's status
    path,       \* states of the path, empty when there is none
    trajectory, \* what the callback is given
    tick,       \* samples taken; loop_time_s_ is tick / TicksPerUnit
    q           \* the sample handed to on_tick_, empty before the first

vars == <<pc, request, q_goal, solved, path, trajectory, tick, q>>

Empty == <<>>

Configuration == [Joints -> Positions]

Within(c, low, high) == \A j \in DOMAIN c : low[j] <= c[j] /\ c[j] <= high[j]

Distance2(a, b) ==
    LET square[J \in SUBSET Joints] ==
            IF J = {} THEN 0
            ELSE LET j == CHOOSE j \in J : TRUE
                 IN  (a[j] - b[j]) * (a[j] - b[j]) + square[J \ {j}]
    IN  square[Joints]

-----------------------------------------------------------------------------
Init ==
    /\ pc = "ik"
    /\ request \in [target : Targets, duration_s : Durations, q_current : Seeds]
    /\ q_goal = Empty
    /\ solved = "UNKNOWN"
    /\ path = Empty
    /\ trajectory = EmptyTrajectory
    /\ tick = 0
    /\ q = Empty

\* CartToJnt, between the limits extractChainAndInitSolvers gave the solver.
CartToJnt(target) ==
    {c \in Configuration :
        /\ Within(c, [j \in Joints |-> -Pi], [j \in Joints |-> Pi])
        /\ Frame(c)[Tip] = target}

\* ik without the comparison of sizes.
SolveIKAnySize ==
    /\ pc = "ik"
    /\ q_goal' \in CartToJnt(request.target)
    /\ pc' = "ompl"
    /\ UNCHANGED <<request, solved, path, trajectory, tick, q>>

\* ik accepts a seed of the right size only, and may fail for any.
SolveIK ==
    /\ pc = "ik"
    /\ \/ /\ DOMAIN request.q_current = Joints
          /\ q_goal' \in CartToJnt(request.target)
          /\ pc' = "ompl"
       \/ /\ q_goal' = Empty
          /\ pc' = "done"
    /\ UNCHANGED <<request, solved, path, trajectory, tick, q>>

\* The states OMPL's space holds.
Space == {c \in Configuration : Within(c, q_min, q_max)}

\* q_start and q_goal, read for every joint of the model.
StartState == [j \in Joints |-> request.q_current[j]]
GoalState == [j \in Joints |-> q_goal[j]]

Paths ==
    {p \in UNION {[1 .. n -> Space] : n \in 1 .. MaxWaypoints} : p[1] = StartState}

Satisfies(c) == Distance2(c, GoalState) <= Tolerance * Tolerance

\* runOMPL: the status converts to true for an approximate solution too.
RunOMPL ==
    /\ pc = "ompl"
    /\ \/ /\ path' \in Paths
          /\ solved' = IF Satisfies(path'[Len(path')]) THEN "EXACT_SOLUTION"
                       ELSE "APPROXIMATE_SOLUTION"
       \/ /\ path' = Empty
          /\ solved' = "TIMEOUT"
    /\ pc' = IF path' = Empty THEN "done" ELSE "fit"
    /\ UNCHANGED <<request, q_goal, trajectory, tick, q>>

\* fitCubicSpline, and the callback that hands the result to the executor.
Fit ==
    /\ pc = "fit"
    /\ trajectory' = FitCubicSpline(path, Q(request.duration_s))
    /\ pc' = "play"
    /\ UNCHANGED <<request, q_goal, solved, path, tick, q>>

LoopTime == Frac(tick, TicksPerUnit)

\* An iteration that goes on as long as the time is no whole period past the end.
TickOneMore ==
    /\ pc = "play"
    /\ Leq(Frac(tick - 1, TicksPerUnit), trajectory.duration)
    /\ q' = Eval(trajectory, LoopTime)
    /\ tick' = tick + 1
    /\ UNCHANGED <<pc, request, q_goal, solved, path, trajectory>>

\* An iteration of the executor's loop that evaluates the trajectory.
Tick ==
    /\ pc = "play"
    /\ Leq(LoopTime, trajectory.duration)
    /\ q' = Eval(trajectory, LoopTime)
    /\ tick' = tick + 1
    /\ UNCHANGED <<pc, request, q_goal, solved, path, trajectory>>

Next == SolveIK \/ RunOMPL \/ Fit \/ Tick

Spec == Init /\ [][Next]_vars

-----------------------------------------------------------------------------
(* Properties. *)

\* Variables keep their types.  No sample is taken past the end: one tick less
\* than the samples taken is within the duration.
TypeOK ==
    /\ pc \in {"ik", "ompl", "fit", "play", "done"}
    /\ request \in [target : Targets, duration_s : Durations, q_current : Seeds]
    /\ q_goal = Empty \/ q_goal \in Configuration
    /\ solved \in {"UNKNOWN", "EXACT_SOLUTION", "APPROXIMATE_SOLUTION", "TIMEOUT"}
    /\ path \in Seq(Space) /\ Len(path) <= MaxWaypoints
    /\ tick \in Nat
    /\ tick > 0 => Leq(Frac(tick - 1, TicksPerUnit), trajectory.duration)
    /\ q # Empty => DOMAIN q = Joints /\ \A j \in Joints : IsNumber(q[j])

\* runOMPL reads q_start for every joint of the model without looking at its
\* size, and hands OMPL a goal it could never reach if it were out of bounds.
\* Both are right only because of what happened elsewhere: ik has compared the
\* size of the same vector, and the solver's own limits are those exported.
StartAndGoalFit ==
    pc = "ompl" => DOMAIN request.q_current = Joints /\ q_goal \in Space

Spline == pc = "play" /\ tick = 0 /\ Len(path) > 1 /\ request.duration_s > 0

\* The place of the ith waypoint in time.
KnotTime(i) == Frac(request.duration_s * (i - 1), Len(path) - 1)

\* What the executor is given passes through every state of the path at the
\* time planned for it.  So it starts where the caller said the robot is, and
\* ends at the goal unless OMPL's solution was approximate, which is returned
\* too, although planner.hpp:86-87 says "if successful, empty vector otherwise".
WaypointsMet ==
    Spline =>
        /\ \A i \in DOMAIN path : \A j \in Joints :
              Eval(trajectory, KnotTime(i))[j] = Q(path[i][j])
        /\ Eval(trajectory, Q(0)) = [j \in Joints |-> Q(request.q_current[j])]
        /\ solved = "EXACT_SOLUTION" =>
              \E c \in Space : /\ Satisfies(c)
                               /\ Eval(trajectory, trajectory.duration) = [j \in Joints |-> Q(c[j])]

Interior == 1 .. Len(trajectory.segments) - 1

\* The slope of the straight line between the ends of a segment.
Secant(i, j) == (Q(path[i + 1][j]) (-) Q(path[i][j])) (/) trajectory.segments[i].h

\* The curve the coefficients describe: its acceleration is continuous and zero
\* at both ends, and at every waypoint between its velocity jumps by half of
\* what the slope of the polygon through the waypoints does.  (M is used as the
\* second derivative, and the system solved is one for half of it.)
CornersHalved ==
    Spline =>
        LET s == trajectory.segments
            n == Len(s)
        IN  \A j \in Joints :
                /\ Acceleration(s[1].coeff[j], Q(0)) = Q(0)
                /\ Acceleration(s[n].coeff[j], s[n].h) = Q(0)
                /\ \A i \in Interior :
                      /\ Acceleration(s[i].coeff[j], s[i].h) =
                            Acceleration(s[i + 1].coeff[j], Q(0))
                      /\ Q(2) (.) (Velocity(s[i + 1].coeff[j], Q(0))
                                      (-) Velocity(s[i].coeff[j], s[i].h))
                            = Secant(i + 1, j) (-) Secant(i, j)

\* trajectory.hpp promises a natural cubic spline, which has no corners.
VelocityContinuous ==
    Spline =>
        \A i \in Interior : \A j \in Joints :
            Velocity(trajectory.segments[i].coeff[j], trajectory.segments[i].h) =
                Velocity(trajectory.segments[i + 1].coeff[j], Q(0))

\* Only the states of the path were checked for limits and contacts, not the
\* curve between them.  A sample leaves the range of the path, and so the joint
\* limits, by a seventh of that range at most; and it is a number exactly when
\* the duration is not zero.
SamplesNearPath ==
    q # Empty =>
        \A j \in Joints :
            LET places == {path[i][j] : i \in DOMAIN path}
                low == CHOOSE x \in places : \A y \in places : x <= y
                high == CHOOSE x \in places : \A y \in places : y <= x
                margin == Frac(high - low, 7)
            IN  IF request.duration_s = 0 THEN q[j] = NotFinite
                ELSE Leq(Q(low) (-) margin, q[j]) /\ Leq(q[j], Q(high) (+) margin)
=============================================================================
