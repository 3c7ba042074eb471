----------------------------- MODULE Playback ------------------------------
(***************************************************************************)
(* What RTExecutor promises to the consumer of its samples, with no lock   *)
(* and no clock.  Its thread takes the trajectory set last and plays one   *)
(* period of it, over and over: a trajectory is played from its start,     *)
(* sample by sample and never past its end; its last sample is repeated    *)
(* only when there is no next one; and only another trajectory, or a stop  *)
(* followed by a start, interrupts it.  Taking and playing alternate, so   *)
(* playing a sample again is a step, not a stuttering one.  The detailed   *)
(* module RTExecutor implements it.                                        *)
(***************************************************************************)
EXTENDS Integers

CONSTANTS Trajs, Null, Empty, Duration, Period

VARIABLES
    target,     \* the trajectory set last, or Null
    on,         \* whether the executor has been asked to run
    phase,      \* where its thread is: "off", "starting", "take" or "play"
    taken,      \* the trajectory this period is to play
    playing,    \* the trajectory the last period played
    sample      \* the sample it gave out, NoSample if none

callerVars   == <<target, on>>
playerVars   == <<taken, playing, sample>>
playbackVars == <<callerVars, phase, playerVars>>

NoSample == [traj |-> Null, at |-> 0]

\* Trajectories that have a sample at time 0.
Playable == {t \in Trajs \ Empty : Duration[t] >= 0}

Phase(from, to) == phase = from /\ phase' = to

PlaybackInit ==
    /\ target = Null /\ on = FALSE /\ phase = "off"
    /\ taken = Null /\ playing = Null /\ sample = NoSample

\* The callers: the newest trajectory wins.
Set(t) == target' = t /\ UNCHANGED <<on, phase, playerVars>>

\* There is no thread yet; one is asked for.
Start ==
    /\ ~on /\ on' = TRUE
    /\ Phase("off", "starting")
    /\ UNCHANGED <<target, playerVars>>

\* The thread asked for could not be created.
Fail == on /\ Phase("starting", "off") /\ UNCHANGED <<callerVars, playerVars>>

Stop == on' = FALSE /\ UNCHANGED <<target, phase, playerVars>>

\* A new thread has given out nothing yet.
Begin ==
    /\ Phase("starting", "take")
    /\ sample' = NoSample
    /\ UNCHANGED <<callerVars, taken, playing>>

Take ==
    /\ Phase("take", "play")
    /\ taken' = target
    /\ UNCHANGED <<callerVars, playing, sample>>

\* The thread ends, between two periods and because it was stopped.
End == ~on /\ Phase("take", "off") /\ UNCHANGED <<callerVars, playerVars>>

\* Another trajectory, or the first one since the start: its first sample, if
\* it has one.  Without a trajectory nothing is given out, although the header
\* says that the last position is held (rt_executor.hpp:38).
First ==
    /\ taken # playing \/ sample = NoSample
    /\ sample' = IF taken \in Playable THEN [traj |-> taken, at |-> 0]
                                       ELSE NoSample

\* The sample one period on.
Further ==
    /\ taken = playing /\ sample # NoSample
    /\ sample.at + Period <= Duration[taken]
    /\ sample' = [sample EXCEPT !.at = @ + Period]

\* The same sample again, there being no next one.
Hold ==
    /\ taken = playing /\ sample # NoSample
    /\ sample.at + Period > Duration[taken]
    /\ sample' = sample

Play ==
    /\ Phase("play", "take")
    /\ playing' = taken
    /\ First \/ Further \/ Hold
    /\ UNCHANGED <<callerVars, taken>>

PlaybackNext ==
    \/ \E t \in Trajs \cup {Null} : Set(t)
    \/ Start \/ Fail \/ Stop \/ Begin \/ Take \/ End \/ Play

PlaybackSpec == PlaybackInit /\ [][PlaybackNext]_playbackVars
=============================================================================
