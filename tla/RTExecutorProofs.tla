-------------------------- MODULE RTExecutorProofs --------------------------
(***************************************************************************)
(* Theorems about RTExecutor, for any trajectories with any durations, any *)
(* period, any number of setters and any bounds.  The clock enters through *)
(* DriftFree, the playback state through PlaybackCoherent; neither needs a *)
(* bound on how late the thread runs.                                      *)
(***************************************************************************)
EXTENDS RTExecutor, TLAPS

USE RTExecutorAssumption DEF Pointers, NoPosition, Playable, Positions,
                             Playing, ownerVars, setterVars, loopVars, clockVars

\* Where the real-time thread is inside its loop.
InLoop == {"loop", "lock", "copy", "tick", "sleep"}

-----------------------------------------------------------------------------
(* What the sample of a playing trajectory is.                             *)

\* A playing trajectory with joints is playable and evaluated at the loop time
\* itself: the clamp of Trajectory::eval changes nothing there.
LEMMA EvalWhilePlaying ==
    ASSUME NEW t \in Pointers, NEW time \in Nat, Playing(t, time), t \notin Empty
    PROVE  /\ t \in Playable
           /\ Eval(t, time) = [traj |-> t, at |-> time]
<1>1. t \in Trajs /\ Duration[t] \in Int /\ 0 <= time /\ time <= Duration[t]
  OBVIOUS
<1>2. Clamp(time, t) = time
  BY <1>1 DEF Clamp
<1> QED
  BY <1>1, <1>2 DEF Eval

\* A trajectory without joints yields the empty vector.
LEMMA EvalEmpty == ASSUME NEW t \in Empty, NEW time \in Nat
                   PROVE  Eval(t, time) = NoPosition
BY DEF Eval

-----------------------------------------------------------------------------
(* The inductive invariant.                                                *)

\* The initial states satisfy it.
LEMMA InitInductive == Init => Inductive
<1> SUFFICES ASSUME Init PROVE Inductive
  OBVIOUS
<1> USE DEF Init
<1>1. TypeOK
  <2>1. spc \in [Setters -> {"idle", "store"}]
    OBVIOUS
  <2>2. 0 \in 0 .. MaxSets /\ 0 \in 0 .. MaxStarts /\ 0 \in 0 .. MaxInterrupts
    OBVIOUS
  <2>3. Period \in Int /\ Period >= -MaxLate
    OBVIOUS
  <2> QED
    BY <2>1, <2>2, <2>3, running = FALSE, Null \in Pointers,
       NoPosition \in Positions
    DEF TypeOK
<1>2. QuietAfterStop /\ PlaybackCoherent /\ DriftFree /\ OwnerInCall
  BY DEF QuietAfterStop, PlaybackCoherent, DriftFree, OwnerInCall
<1>3. MutexHeld
  BY DEF MutexHeld
<1> QED
  BY <1>1, <1>2, <1>3 DEF Inductive

\* The iteration's work preserves it: the one step that rewrites the playback
\* state and starts the clock of a new trajectory.
LEMMA TickInductive == Inductive /\ Tick => Inductive'
<1> SUFFICES ASSUME Inductive, Tick PROVE Inductive'
  OBVIOUS
<1> DEFINE changed == traj_ptr # local
           time    == IF changed THEN 0 ELSE loop_time
           held    == IF changed THEN NoPosition ELSE last_q
           play    == Playing(traj_ptr, time)
<1>1. /\ rtpc = "tick" /\ rtpc' = "sleep"
      /\ local' = traj_ptr
      /\ last_q' = IF play THEN Eval(traj_ptr, time) ELSE held
      /\ loop_time' = IF play THEN time + Period ELSE time
      /\ elapsed' = IF changed \/ ~play THEN 0 ELSE elapsed
      /\ loadSlack' = IF changed THEN slack ELSE loadSlack
      /\ UNCHANGED <<running, mutex, ownerVars, setterVars, traj_ptr, slack,
                     interrupts>>
  BY DEF Tick
<1>2. TypeOK /\ traj_ptr \in Pointers /\ time \in Nat
  BY DEF Inductive, TypeOK
<1>3. CASE play /\ traj_ptr \notin Empty
  <2>1. /\ traj_ptr \in Trajs \ Empty /\ Duration[traj_ptr] >= 0
        /\ last_q' = [traj |-> traj_ptr, at |-> time]
    BY <1>1, <1>2, <1>3, EvalWhilePlaying
  <2>2. time <= Duration[traj_ptr] /\ Duration[traj_ptr] \in Int
    BY <1>3, <2>1
  <2> QED
    <3>1. last_q' # NoPosition /\ last_q' \in Positions
      BY <2>1, <1>2
    <3>2. TypeOK'
      BY <1>1, <1>2, <1>3, <3>1 DEF TypeOK
    <3>3. PlaybackCoherent'
      BY <1>1, <1>2, <1>3, <2>1, <2>2, <3>1 DEF PlaybackCoherent
    <3>4. DriftFree'
      BY <1>1, <1>2, <1>3 DEF DriftFree, Inductive, TypeOK
    <3> QED
      BY <1>1, <3>2, <3>3, <3>4
      DEF Inductive, QuietAfterStop, MutexHeld, OwnerInCall
<1>4. CASE play /\ traj_ptr \in Empty
  <2>1. last_q' = NoPosition
    BY <1>1, <1>2, <1>4, EvalEmpty
  <2> QED
    <3>1. TypeOK'
      BY <1>1, <1>2, <1>4, <2>1 DEF TypeOK
    <3>2. PlaybackCoherent'
      BY <1>1, <1>4, <2>1 DEF PlaybackCoherent
    <3>3. DriftFree'
      BY <1>1, <1>2, <1>4 DEF DriftFree, Inductive, TypeOK
    <3> QED
      BY <1>1, <3>1, <3>2, <3>3
      DEF Inductive, QuietAfterStop, MutexHeld, OwnerInCall
<1>5. CASE ~play
  <2>1. TypeOK'
    BY <1>1, <1>2, <1>5 DEF TypeOK
  <2>2. PlaybackCoherent'
    BY <1>1, <1>2, <1>5 DEF PlaybackCoherent, Inductive
  <2>3. DriftFree'
    BY <1>1, <1>2, <1>5 DEF DriftFree
  <2> QED
    BY <1>1, <2>1, <2>2, <2>3
    DEF Inductive, QuietAfterStop, MutexHeld, OwnerInCall
<1> QED
  BY <1>3, <1>4, <1>5

\* Every other step preserves it.
LEMMA NextInductive == Inductive /\ [Next]_vars => Inductive'
<1> SUFFICES ASSUME Inductive, [Next]_vars PROVE Inductive'
  OBVIOUS
<1> USE DEF Inductive, TypeOK, QuietAfterStop, PlaybackCoherent, DriftFree,
            MutexHeld, OwnerInCall
<1>1. CASE Start
  BY <1>1 DEF Start
<1>2. CASE Spawn
  BY <1>2 DEF Spawn
<1>3. CASE SpawnFails
  BY <1>3 DEF SpawnFails
<1>4. CASE Stop
  <2>1. TypeOK'
    BY <1>4 DEF Stop
  <2>2. QuietAfterStop' /\ OwnerInCall'
    BY <1>4 DEF Stop
  <2>3. PlaybackCoherent' /\ DriftFree' /\ MutexHeld'
    BY <1>4 DEF Stop
  <2> QED
    BY <2>1, <2>2, <2>3
<1>5. CASE Join
  BY <1>5 DEF Join
<1>6. ASSUME NEW c \in Setters, SetLock(c) PROVE Inductive'
  BY <1>6 DEF SetLock
<1>7. ASSUME NEW c \in Setters, NEW t \in Pointers, SetStore(c, t)
      PROVE Inductive'
  BY <1>7 DEF SetStore
<1>8. CASE Prologue
  BY <1>8 DEF Prologue
<1>9. CASE LoopHead
  BY <1>9 DEF LoopHead
<1>10. CASE LockTraj
  BY <1>10 DEF LockTraj
<1>11. CASE CopyTraj
  BY <1>11 DEF CopyTraj
<1>12. CASE Tick
  BY <1>12, TickInductive
<1>13. CASE Sleep
  BY <1>13 DEF Sleep
<1>14. CASE SleepInterrupted
  BY <1>14 DEF SleepInterrupted
<1>15. CASE Elapse
  BY <1>15 DEF Elapse
<1>16. CASE UNCHANGED vars
  BY <1>16 DEF vars
<1> QED
  BY <1>1, <1>2, <1>3, <1>4, <1>5, <1>6, <1>7, <1>8, <1>9, <1>10, <1>11, <1>12,
     <1>13, <1>14, <1>15, <1>16
  DEF Next, Owner, Setter, RTStep

\* The inductive invariant holds in every reachable state.
THEOREM InductiveAlways == Spec => []Inductive
BY InitInductive, NextInductive, PTL DEF Spec

\* Type correctness for every set of trajectories, setters and bounds.
THEOREM TypeCorrect == Spec => []TypeOK
<1>1. Inductive => TypeOK
  BY DEF Inductive
<1> QED
  BY <1>1, InductiveAlways, PTL

\* Once stop() has returned there is no real-time thread, and start() never
\* assigns over a joinable one.  rt_executor.cpp:18-34.
THEOREM StopIsQuiet == Spec => []QuietAfterStop
<1>1. Inductive => QuietAfterStop
  BY DEF Inductive
<1> QED
  BY <1>1, InductiveAlways, PTL

\* The playback state describes the loaded trajectory, however pointers are
\* exchanged and the executor restarted.  rt_executor.cpp:98-128.
THEOREM PlaybackIsCoherent == Spec => []PlaybackCoherent
<1>1. Inductive => PlaybackCoherent
  BY DEF Inductive
<1> QED
  BY <1>1, InductiveAlways, PTL

\* The position held after the end is within a period of the end, whatever the
\* duration and the period.  rt_executor.cpp:109-113.
THEOREM FinalPositionNearEnd == Spec => []HeldNearEnd
<1>1. Inductive => HeldNearEnd
  BY DEF Inductive, TypeOK, PlaybackCoherent, HeldNearEnd
<1> QED
  BY <1>1, InductiveAlways, PTL

\* Playback time never drifts from the clock, for any period, any lateness and
\* any number of interrupted sleeps.  rt_executor.cpp:73, 127, 136, 142.
THEOREM NoDrift == Spec => []DriftFree
<1>1. Inductive => DriftFree
  BY DEF Inductive
<1> QED
  BY <1>1, InductiveAlways, PTL

-----------------------------------------------------------------------------
(* The executor implements the abstract playback.                          *)

\* The phase of the abstract player at each place of the owner and the thread.
LEMMA PhaseOf ==
    Inductive =>
        /\ opc = "spawn" \/ rtpc = "prologue" => PlaybackPhase = "starting"
        /\ rtpc = "tick" => PlaybackPhase = "play"
        /\ rtpc \in {"loop", "lock", "copy", "sleep"} => PlaybackPhase = "take"
        /\ opc # "spawn" /\ rtpc \in {"none", "done"} => PlaybackPhase = "off"
BY DEF Inductive, TypeOK, QuietAfterStop, PlaybackPhase

\* An iteration's work is the player's: a first sample, the next one, or the last
\* one held.
LEMMA TickSimulates ==
    Inductive /\ Tick => PlaybackService!Play
<1> SUFFICES ASSUME Inductive, Tick PROVE PlaybackService!Play
  OBVIOUS
<1> DEFINE changed == traj_ptr # local
           time    == IF changed THEN 0 ELSE loop_time
           held    == IF changed THEN NoPosition ELSE last_q
           play    == Playing(traj_ptr, time)
<1> USE DEF PlaybackService!NoSample, PlaybackService!Playable
<1>1. /\ rtpc = "tick" /\ rtpc' = "sleep"
      /\ local' = traj_ptr
      /\ last_q' = IF play THEN Eval(traj_ptr, time) ELSE held
      /\ UNCHANGED <<running, ownerVars, active, traj_ptr>>
  BY DEF Tick
<1>2. traj_ptr \in Pointers /\ time \in Nat /\ TypeOK /\ PlaybackCoherent
  BY DEF Inductive, TypeOK
<1>3. PlaybackService!Phase("play", "take")
  <2>1. opc' # "spawn" /\ rtpc' # "prologue"
    BY <1>1 DEF Inductive, QuietAfterStop
  <2>2. PlaybackPhase' = "take"
    BY <1>1, <2>1 DEF PlaybackPhase
  <2> QED
    BY <1>1, <2>2, PhaseOf DEF PlaybackService!Phase
<1>4. SUFFICES PlaybackService!First \/ PlaybackService!Further \/ PlaybackService!Hold
  BY <1>1, <1>3 DEF PlaybackService!Play, PlaybackService!callerVars
<1>5. CASE changed
  <2>1. time = 0 /\ held = NoPosition
    BY <1>5
  <2>2. CASE play /\ traj_ptr \notin Empty
    BY <1>1, <1>2, <1>5, <2>1, <2>2, EvalWhilePlaying DEF PlaybackService!First
  <2>3. CASE play /\ traj_ptr \in Empty
    BY <1>1, <1>2, <1>5, <2>1, <2>3, EvalEmpty DEF PlaybackService!First
  <2>4. CASE ~play
    BY <1>1, <1>2, <1>5, <2>1, <2>4 DEF PlaybackService!First
  <2> QED
    BY <2>2, <2>3, <2>4
<1>6. CASE ~changed /\ last_q = NoPosition
  <2>1. traj_ptr \in Playable => loop_time = 0
    BY <1>1, <1>2, <1>6 DEF PlaybackCoherent
  <2>2. CASE play /\ traj_ptr \notin Empty
    BY <1>1, <1>2, <1>6, <2>1, <2>2, EvalWhilePlaying DEF PlaybackService!First
  <2>3. CASE play /\ traj_ptr \in Empty
    BY <1>1, <1>2, <1>6, <2>3, EvalEmpty DEF PlaybackService!First
  <2>4. CASE ~play
    BY <1>1, <1>2, <1>6, <2>1, <2>4 DEF PlaybackService!First
  <2> QED
    BY <2>2, <2>3, <2>4
<1>7. CASE ~changed /\ last_q # NoPosition
  <2>1. /\ traj_ptr \in Playable /\ traj_ptr = local /\ time = loop_time
        /\ last_q.traj = local /\ loop_time = last_q.at + Period
    BY <1>1, <1>2, <1>7 DEF PlaybackCoherent
  <2>2. CASE play
    <3>1. last_q' = [traj |-> local, at |-> loop_time]
      BY <1>1, <1>2, <2>1, <2>2, EvalWhilePlaying
    <3>2. last_q' = [last_q EXCEPT !.at = @ + Period]
      BY <2>1, <3>1, <1>2 DEF TypeOK
    <3> QED
      BY <1>7, <2>1, <2>2, <3>2 DEF PlaybackService!Further
  <2>3. CASE ~play
    BY <1>1, <1>2, <1>7, <2>1, <2>3 DEF PlaybackService!Hold, TypeOK
  <2> QED
    BY <2>2, <2>3
<1> QED
  BY <1>5, <1>6, <1>7

\* Every step of the executor is one of the player or leaves it unchanged.
LEMMA StepSimulates ==
    Inductive /\ Inductive' /\ [Next]_vars =>
        [PlaybackService!PlaybackNext]_(PlaybackService!playbackVars)
<1> SUFFICES ASSUME Inductive, Inductive', [Next]_vars
             PROVE  [PlaybackService!PlaybackNext]_(PlaybackService!playbackVars)
  OBVIOUS
<1> USE DEF PlaybackService!playbackVars, PlaybackService!callerVars,
            PlaybackService!playerVars, PlaybackService!PlaybackNext,
            PlaybackService!Phase
<1>1. /\ opc = "spawn" => running /\ rtpc = "none"
      /\ opc = "idle" /\ ~running => rtpc = "none"
      /\ opc \in {"idle", "spawn", "join"}
      /\ rtpc \in {"none", "prologue", "loop", "lock", "copy", "tick", "sleep",
                   "done"}
  BY DEF Inductive, TypeOK, QuietAfterStop, OwnerInCall
<1>2. /\ opc = "spawn" \/ rtpc = "prologue" => PlaybackPhase = "starting"
      /\ rtpc = "tick" => PlaybackPhase = "play"
      /\ rtpc \in {"loop", "lock", "copy", "sleep"} => PlaybackPhase = "take"
      /\ opc # "spawn" /\ rtpc \in {"none", "done"} => PlaybackPhase = "off"
  BY PhaseOf
<1>3. /\ opc' = "spawn" \/ rtpc' = "prologue" => PlaybackPhase' = "starting"
      /\ rtpc' = "tick" => PlaybackPhase' = "play"
      /\ rtpc' \in {"loop", "lock", "copy", "sleep"} => PlaybackPhase' = "take"
      /\ opc' # "spawn" /\ rtpc' \in {"none", "done"} => PlaybackPhase' = "off"
  BY DEF Inductive, TypeOK, QuietAfterStop, PlaybackPhase
<1>4. ASSUME UNCHANGED <<opc, rtpc>> PROVE UNCHANGED PlaybackPhase
  BY <1>4 DEF PlaybackPhase
<1>5. CASE Start
  <2>1. CASE running
    BY <1>4, <1>5, <2>1 DEF Start
  <2>2. CASE ~running
    BY <1>1, <1>2, <1>3, <1>5, <2>2 DEF Start, PlaybackService!Start
  <2> QED
    BY <2>1, <2>2
<1>6. CASE Spawn
  BY <1>1, <1>2, <1>3, <1>6 DEF Spawn
<1>7. CASE SpawnFails
  BY <1>1, <1>2, <1>3, <1>7 DEF SpawnFails, PlaybackService!Fail
<1>8. CASE Stop
  <2>1. UNCHANGED PlaybackPhase
    BY <1>8 DEF Stop, PlaybackPhase
  <2> QED
    BY <1>8, <2>1 DEF Stop, PlaybackService!Stop
<1>9. CASE Join
  BY <1>2, <1>3, <1>9 DEF Join
<1>10. ASSUME NEW c \in Setters, SetLock(c)
       PROVE  UNCHANGED PlaybackService!playbackVars
  BY <1>4, <1>10 DEF SetLock
<1>11. ASSUME NEW c \in Setters, NEW t \in Pointers, SetStore(c, t)
       PROVE  PlaybackService!PlaybackNext
  BY <1>4, <1>11 DEF SetStore, PlaybackService!Set
<1>12. CASE Prologue
  BY <1>2, <1>3, <1>12
  DEF Prologue, PlaybackService!Begin, PlaybackService!NoSample
<1>13. CASE LoopHead
  <2>1. CASE running
    BY <1>2, <1>3, <1>13, <2>1 DEF LoopHead
  <2>2. CASE ~running
    BY <1>1, <1>2, <1>3, <1>13, <2>2 DEF LoopHead, PlaybackService!End
  <2> QED
    BY <2>1, <2>2
<1>14. CASE LockTraj
  BY <1>2, <1>3, <1>14 DEF LockTraj
<1>15. CASE CopyTraj
  BY <1>2, <1>3, <1>15 DEF CopyTraj, PlaybackService!Take
<1>16. CASE Tick
  BY <1>16, TickSimulates
<1>17. CASE Sleep \/ SleepInterrupted
  BY <1>2, <1>3, <1>17 DEF Sleep, SleepInterrupted
<1>18. CASE Elapse
  BY <1>4, <1>18 DEF Elapse
<1>19. CASE UNCHANGED vars
  BY <1>4, <1>19 DEF vars
<1> QED
  BY <1>5, <1>6, <1>7, <1>8, <1>9, <1>10, <1>11, <1>12, <1>13, <1>14, <1>15,
     <1>16, <1>17, <1>18, <1>19
  DEF Next, Owner, Setter, RTStep

\* Every behaviour of the executor is one of the abstract playback, for any
\* trajectories and period: every iteration plays the trajectory set last before
\* its copy, samples are neither skipped nor repeated before the end, and none is
\* started over but for another trajectory or after a stop and a start.
\* rt_executor.cpp:88-128.
THEOREM ExecutorImplementsPlayback == Spec => ImplementsPlayback
<1>1. Init => PlaybackService!PlaybackInit
  BY DEF Init, PlaybackService!PlaybackInit, PlaybackService!NoSample,
         PlaybackPhase
<1> QED
  BY <1>1, InductiveAlways, StepSimulates, PTL
  DEF Spec, ImplementsPlayback, PlaybackService!PlaybackSpec
=============================================================================
