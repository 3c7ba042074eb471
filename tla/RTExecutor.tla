---------------------------- MODULE RTExecutor -----------------------------
(***************************************************************************)
(* rt_executor/rt_executor.cpp: a periodic real-time thread that samples   *)
(* the active trajectory, and the handoff of trajectories to it through    *)
(* traj_mutex_.                                                            *)
(*                                                                         *)
(* The threads are the owner (start, stop), the setters (setTrajectory     *)
(* "from any thread") and the real-time thread.  A trajectory is the       *)
(* pointer that identifies it; the joint positions of a sample are named   *)
(* by the trajectory and the time it was evaluated at.  Time is counted in *)
(* units of the clock, Period of them to a tick (1 ms in the code).  Only  *)
(* the distance to the next deadline matters, so the clock is the variable *)
(* slack = next_tick_ns - now.                                             *)
(***************************************************************************)
EXTENDS Integers

CONSTANTS
    Trajs,          \* the trajectory objects that setters hand over
    Null,           \* the null pointer
    Empty,          \* the trajectories with num_dofs = 0
    Duration,       \* duration_s of each trajectory
    Period,         \* tick period
    Setters,        \* the threads that call setTrajectory
    MaxSets,        \* bound on the calls of setTrajectory
    MaxStarts,      \* bound on the calls of start that spawn a thread
    MaxLate,        \* bound on how late an iteration may be
    MaxInterrupts   \* bound on the sleeps cut short by a signal (EINTR)

ASSUME RTExecutorAssumption ==
    /\ Null \notin Trajs
    /\ Empty \subseteq Trajs
    /\ Duration \in [Trajs -> Int]
    /\ Period \in Nat \ {0}
    /\ MaxSets \in Nat /\ MaxStarts \in Nat
    /\ MaxLate \in Nat /\ MaxInterrupts \in Nat

VARIABLES
    running,    \* running_
    mutex,      \* who holds traj_mutex_: "free", "setter" or "rt"
    active,     \* active_traj_
    opc,        \* where the owner is: "idle" between calls
    spc,        \* where each setter is in setTrajectory: "idle" between calls
    rtpc,       \* where the real-time thread is: "none" when not joinable
    traj_ptr,   \* the iteration's copy of active_traj_
    local,      \* local_traj_
    loop_time,  \* loop_time_s_
    last_q,     \* last_q_, NoPosition when empty; what on_tick_ was given last
    slack,      \* time left until next_tick_ns; negative when late
    elapsed,    \* history: time since the trajectory being played was loaded
    loadSlack,  \* history: slack when it was loaded
    sets,       \* history: calls of setTrajectory, for MaxSets
    starts,     \* history: threads asked for, for MaxStarts
    interrupts  \* history: sleeps cut short, for MaxInterrupts

ownerVars  == <<opc, starts>>
setterVars == <<active, spc, sets>>
loopVars   == <<traj_ptr, local, loop_time, last_q>>
clockVars  == <<slack, elapsed, loadSlack, interrupts>>
vars == <<running, mutex, ownerVars, setterVars, rtpc, loopVars, clockVars>>

Pointers == Trajs \cup {Null}

\* An empty vector of joint positions.
NoPosition == [traj |-> Null, at |-> 0]

\* std::max(0.0, std::min(t, duration_s))
Clamp(time, t) ==
    LET capped == IF time > Duration[t] THEN Duration[t] ELSE time
    IN  IF capped < 0 THEN 0 ELSE capped

\* Trajectory::eval: with no joints the result is an empty vector.
Eval(t, time) ==
    IF t \in Empty THEN NoPosition ELSE [traj |-> t, at |-> Clamp(time, t)]

\* The last sample of a duration that is a multiple of the period is dropped.
PlayingBeforeEnd(t, time) == t # Null /\ time < Duration[t]

\* local_traj_ && loop_time_s_ <= local_traj_->duration_s
Playing(t, time) == t # Null /\ time <= Duration[t]

-----------------------------------------------------------------------------
Init ==
    /\ running = FALSE
    /\ mutex = "free"
    /\ active = Null
    /\ opc = "idle"
    /\ spc = [c \in Setters |-> "idle"]
    /\ rtpc = "none"
    /\ traj_ptr = Null
    /\ local = Null
    /\ loop_time = 0
    /\ last_q = NoPosition
    /\ slack = Period
    /\ elapsed = 0
    /\ loadSlack = 0
    /\ sets = 0
    /\ starts = 0
    /\ interrupts = 0

(* The owner: start and stop. *)

\* start() up to the creation of the thread; a running executor is left alone.
Start ==
    /\ opc = "idle"
    /\ starts < MaxStarts
    /\ running' = TRUE
    /\ IF running THEN UNCHANGED ownerVars
                  ELSE opc' = "spawn" /\ starts' = starts + 1
    /\ UNCHANGED <<mutex, setterVars, rtpc, loopVars, clockVars>>

\* std::thread's constructor succeeds and the handle is stored in thread_.
Spawn ==
    /\ opc = "spawn"
    /\ opc' = "idle"
    /\ rtpc' = "prologue"
    /\ UNCHANGED <<running, mutex, starts, setterVars, loopVars, clockVars>>

\* std::thread's constructor throws: start() exits with running_ still true.
SpawnFails ==
    /\ opc = "spawn"
    /\ opc' = "idle"
    /\ UNCHANGED <<running, mutex, starts, setterVars, rtpc, loopVars, clockVars>>

\* stop() up to the join; an executor that is not running is left alone.
Stop ==
    /\ opc = "idle"
    /\ running' = FALSE
    /\ opc' = IF running THEN "join" ELSE "idle"
    /\ UNCHANGED <<mutex, starts, setterVars, rtpc, loopVars, clockVars>>

\* stop() that does not wait for the thread.
ReturnWithoutJoin ==
    /\ opc = "join"
    /\ opc' = "idle"
    /\ UNCHANGED <<running, mutex, starts, setterVars, rtpc, loopVars, clockVars>>

\* if joinable, join: returns once the thread has left rtLoop.
Join ==
    /\ opc = "join"
    /\ rtpc \in {"none", "done"}
    /\ opc' = "idle"
    /\ rtpc' = "none"
    /\ UNCHANGED <<running, mutex, starts, setterVars, loopVars, clockVars>>

-----------------------------------------------------------------------------
(* The setters: setTrajectory. *)

\* The lock guard is missing: two setters can be between lock and unlock.
SetLockUnguarded(c) ==
    /\ spc[c] = "idle"
    /\ sets < MaxSets
    /\ mutex' = "setter"
    /\ spc' = [spc EXCEPT ![c] = "store"]
    /\ UNCHANGED <<running, ownerVars, active, sets, rtpc, loopVars, clockVars>>

\* traj_mutex_ is locked for the store.
SetLock(c) ==
    /\ spc[c] = "idle"
    /\ sets < MaxSets
    /\ mutex = "free"
    /\ mutex' = "setter"
    /\ spc' = [spc EXCEPT ![c] = "store"]
    /\ UNCHANGED <<running, ownerVars, active, sets, rtpc, loopVars, clockVars>>

\* The store and the end of the lock guard's scope.
SetStore(c, t) ==
    /\ spc[c] = "store"
    /\ active' = t
    /\ sets' = sets + 1
    /\ mutex' = "free"
    /\ spc' = [spc EXCEPT ![c] = "idle"]
    /\ UNCHANGED <<running, ownerVars, rtpc, loopVars, clockVars>>

-----------------------------------------------------------------------------
(* The real-time thread: rtLoop and performLoopIteration. *)

\* loop_time_s_ is not reset when the thread starts.
PrologueKeepsLoopTime ==
    /\ rtpc = "prologue"
    /\ last_q' = NoPosition
    /\ slack' = Period
    /\ elapsed' = 0
    /\ loadSlack' = Period
    /\ rtpc' = "loop"
    /\ UNCHANGED <<running, mutex, ownerVars, setterVars, traj_ptr, local,
                   loop_time, interrupts>>

\* Up to the loop: the clock is read and the playback state cleared, except for
\* local_traj_, which keeps what an earlier thread played.
Prologue ==
    /\ rtpc = "prologue"
    /\ loop_time' = 0
    /\ last_q' = NoPosition
    /\ slack' = Period
    /\ elapsed' = 0
    /\ loadSlack' = Period
    /\ rtpc' = "loop"
    /\ UNCHANGED <<running, mutex, ownerVars, setterVars, traj_ptr, local,
                   interrupts>>

\* while (true)
LoopForever ==
    /\ rtpc = "loop"
    /\ rtpc' = "lock"
    /\ UNCHANGED <<running, mutex, ownerVars, setterVars, loopVars, clockVars>>

\* while (running_.load(...))
LoopHead ==
    /\ rtpc = "loop"
    /\ rtpc' = IF running THEN "lock" ELSE "done"
    /\ UNCHANGED <<running, mutex, ownerVars, setterVars, loopVars, clockVars>>

\* traj_mutex_ is locked for the copy.
LockTraj ==
    /\ rtpc = "lock"
    /\ mutex = "free"
    /\ mutex' = "rt"
    /\ rtpc' = "copy"
    /\ UNCHANGED <<running, ownerVars, setterVars, loopVars, clockVars>>

\* Only the first trajectory is ever picked up.
CopyOnlyFirst ==
    /\ rtpc = "copy"
    /\ traj_ptr' = IF traj_ptr = Null THEN active ELSE traj_ptr
    /\ mutex' = "free"
    /\ rtpc' = "tick"
    /\ UNCHANGED <<running, ownerVars, setterVars, local, loop_time, last_q,
                   clockVars>>

\* traj_ptr = active_traj_ and the end of the lock guard's scope.
CopyTraj ==
    /\ rtpc = "copy"
    /\ traj_ptr' = active
    /\ mutex' = "free"
    /\ rtpc' = "tick"
    /\ UNCHANGED <<running, ownerVars, setterVars, local, loop_time, last_q,
                   clockVars>>

\* The iteration's work on the thread's own data, in the code's order: notice a
\* change of trajectory, evaluate or hold, call on_tick_, advance.
Tick ==
    LET changed == traj_ptr # local
        time    == IF changed THEN 0 ELSE loop_time
        held    == IF changed THEN NoPosition ELSE last_q
        play    == Playing(traj_ptr, time)
        q       == IF play THEN Eval(traj_ptr, time) ELSE held
    IN  /\ rtpc = "tick"
        /\ local' = traj_ptr
        /\ last_q' = q
        /\ loop_time' = IF play THEN time + Period ELSE time
        /\ elapsed' = IF changed \/ ~play THEN 0 ELSE elapsed
        /\ loadSlack' = IF changed THEN slack ELSE loadSlack
        /\ rtpc' = "sleep"
        /\ UNCHANGED <<running, mutex, ownerVars, setterVars, traj_ptr, slack,
                       interrupts>>

\* The next deadline is one period after now instead of after the last one.
SleepRelative ==
    /\ rtpc = "sleep"
    /\ slack <= 0
    /\ slack' = Period
    /\ rtpc' = "loop"
    /\ UNCHANGED <<running, mutex, ownerVars, setterVars, loopVars, elapsed,
                   loadSlack, interrupts>>

\* clock_nanosleep returns at the deadline, or at once when it has passed; the
\* next deadline is one period after this one, however late the thread is.
Sleep ==
    /\ rtpc = "sleep"
    /\ slack <= 0
    /\ slack' = slack + Period
    /\ rtpc' = "loop"
    /\ UNCHANGED <<running, mutex, ownerVars, setterVars, loopVars, elapsed,
                   loadSlack, interrupts>>

\* clock_nanosleep returns EINTR before the deadline and is not retried.
SleepInterrupted ==
    /\ rtpc = "sleep"
    /\ slack > 0
    /\ interrupts < MaxInterrupts
    /\ interrupts' = interrupts + 1
    /\ slack' = slack + Period
    /\ rtpc' = "loop"
    /\ UNCHANGED <<running, mutex, ownerVars, setterVars, loopVars, elapsed,
                   loadSlack>>

\* One unit of time passes, wherever the thread is in its loop.
Elapse ==
    /\ rtpc \in {"loop", "lock", "copy", "tick", "sleep"}
    /\ slack > -MaxLate
    /\ slack' = slack - 1
    /\ elapsed' = IF Playing(local, loop_time) THEN elapsed + 1 ELSE 0
    /\ UNCHANGED <<running, mutex, ownerVars, setterVars, rtpc, loopVars,
                   loadSlack, interrupts>>

-----------------------------------------------------------------------------
Owner == Start \/ Spawn \/ SpawnFails \/ Stop \/ Join

Setter(c) == SetLock(c) \/ \E t \in Pointers : SetStore(c, t)

\* The steps the scheduler owes the real-time thread.
RTStep ==
    Prologue \/ LoopHead \/ LockTraj \/ CopyTraj \/ Tick \/ Sleep

Next ==
    \/ Owner
    \/ \E c \in Setters : Setter(c)
    \/ RTStep
    \/ SleepInterrupted
    \/ Elapse

Spec == Init /\ [][Next]_vars

\* Every thread that can run does run, and time passes.  Nobody owes the program
\* a call, a failure to spawn or a signal.
Fairness ==
    /\ WF_vars(Spawn) /\ WF_vars(Join)
    /\ \A c \in Setters : WF_vars(\E t \in Pointers : SetStore(c, t))
    /\ WF_vars(RTStep)
    /\ WF_vars(Elapse)

FairSpec == Spec /\ Fairness

-----------------------------------------------------------------------------
(* Properties. *)

Positions == [traj : Pointers, at : Int]

\* The values each variable takes.
TypeOK ==
    /\ running \in BOOLEAN
    /\ mutex \in {"free", "setter", "rt"}
    /\ active \in Pointers
    /\ opc \in {"idle", "spawn", "join"}
    /\ spc \in [Setters -> {"idle", "store"}]
    /\ rtpc \in {"none", "prologue", "loop", "lock", "copy", "tick", "sleep",
                 "done"}
    /\ traj_ptr \in Pointers /\ local \in Pointers
    /\ loop_time \in Nat
    /\ last_q \in Positions
    /\ slack \in Int /\ slack >= -MaxLate
    /\ elapsed \in Nat /\ loadSlack \in Int
    /\ sets \in 0 .. MaxSets /\ starts \in 0 .. MaxStarts
    /\ interrupts \in 0 .. MaxInterrupts

\* Once stop() has returned no real-time thread is left, so on_tick_ is not
\* called after it, and start() never assigns over a joinable std::thread.
\* rt_executor.cpp:18-34.
QuietAfterStop ==
    /\ opc = "idle" /\ ~running => rtpc = "none"
    /\ opc = "spawn" => rtpc = "none"

Playable == {t \in Trajs \ Empty : Duration[t] >= 0}

\* Between iterations the playback state describes local_traj_ alone, whatever
\* pointers were set in between: the time of the next sample is one period after
\* the last one, and a trajectory with no sample yet is at its start.
\* rt_executor.cpp:98-128.
PlaybackCoherent ==
    rtpc \in {"loop", "lock", "copy", "tick", "sleep"} =>
        IF last_q = NoPosition
        THEN local \in Playable => loop_time = 0
        ELSE /\ local \in Playable
             /\ last_q.traj = local
             /\ 0 <= last_q.at /\ last_q.at <= Duration[local]
             /\ loop_time = last_q.at + Period

\* What is held after the end is less than one period short of the end (the end
\* itself only if the duration is a multiple of the period).
\* rt_executor.cpp:109-113, 125-128.
HeldNearEnd ==
    rtpc = "sleep" /\ local \in Playable /\ ~Playing(local, loop_time) =>
        /\ last_q.traj = local
        /\ Duration[local] - Period < last_q.at /\ last_q.at <= Duration[local]

\* While a trajectory plays, its time is real time since it was loaded, up to
\* the lateness at that moment and now: overruns, early returns of
\* clock_nanosleep and changes of trajectory never accumulate.
\* rt_executor.cpp:73, 127, 136, 142.
DriftFree ==
    rtpc \in {"loop", "lock", "copy", "tick", "sleep"} /\ Playing(local, loop_time)
        => loop_time + loadSlack =
               elapsed + slack + (IF rtpc = "sleep" THEN Period ELSE 0)

\* traj_mutex_ is held exactly where the code holds it.
MutexHeld ==
    /\ mutex = "rt" <=> rtpc = "copy"
    /\ mutex = "setter" <=> \E c \in Setters : spc[c] = "store"
    /\ \A c, d \in Setters : spc[c] = "store" /\ spc[d] = "store" => c = d
    /\ mutex = "setter" => sets < MaxSets

\* The owner inside a call, against running_.
OwnerInCall ==
    /\ opc = "spawn" => running
    /\ opc = "join" => ~running

\* All of the above but HeldNearEnd, which follows: together they are inductive.
Inductive ==
    /\ TypeOK /\ QuietAfterStop /\ PlaybackCoherent /\ DriftFree /\ MutexHeld
    /\ OwnerInCall

\* A trajectory that stays active is picked up while the executor runs.
\* rt_executor.hpp:35-36, rt_executor.cpp:91-99.
PickedUp ==
    \A t \in Pointers :
        (active = t /\ running /\ rtpc \notin {"none", "done"})
            ~> (local = t \/ active # t \/ ~running)

\* Every call of stop() returns: unlike the planner's, the thread never waits
\* for anything but time and a mutex that is released.  rt_executor.cpp:26-34.
StopReturns == (opc = "join") ~> (opc = "idle")

\* Where the abstract player is: it takes from the loop's head to the copy, plays
\* in the tick, and sleeps before it takes again.
PlaybackPhase ==
    CASE opc = "spawn" \/ rtpc = "prologue"             -> "starting"
      [] rtpc = "tick"                                  -> "play"
      [] rtpc \in {"loop", "lock", "copy", "sleep"}     -> "take"
      [] OTHER                                          -> "off"

\* Iteration by iteration the executor gives on_tick_ what the abstract Playback
\* plays: each plays the trajectory set last before its copy, no sample is
\* skipped, none repeated before the end, and playback starts over only for
\* another trajectory or after a stop and a start.  rt_executor.cpp:88-128.
PlaybackService == INSTANCE Playback WITH
    target <- active, on <- running, phase <- PlaybackPhase,
    taken <- traj_ptr, playing <- local, sample <- last_q

ImplementsPlayback == PlaybackService!PlaybackSpec
=============================================================================
