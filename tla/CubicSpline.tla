---------------------------- MODULE CubicSpline -----------------------------
(***************************************************************************)
(* trajectory.cpp: fitCubicSpline and Trajectory::eval, in exact rational  *)
(* arithmetic.  A double is a fraction in lowest terms <<n, d>>, d > 0; a  *)
(* division by zero gives NotFinite, which every operation passes on, as   *)
(* the infinities and NaNs of the code's divisions by h = 0 are (nothing   *)
(* is ever divided by one of them).  The joints of a configuration are the *)
(* DOMAIN of a function.                                                   *)
(***************************************************************************)
EXTENDS Integers, Sequences

NotFinite == <<0, 0>>

Abs(n) == IF n < 0 THEN -n ELSE n

\* Euclid's algorithm: gcd[b][a] divides a and b.
Gcd(m, n) ==
    LET gcd[b \in 0 .. n] == [a \in Nat |-> IF b = 0 THEN a ELSE gcd[a % b][b]] IN gcd[n][m]

\* The fraction n / d.
Frac(n, d) ==
    IF d = 0 THEN NotFinite
    ELSE LET sign == IF d < 0 THEN -1 ELSE 1
             g == Gcd(Abs(n), Abs(d))
         IN  <<(sign * n) \div g, (sign * d) \div g>>

Q(n) == <<n, 1>>

x (+) y == Frac(x[1] * y[2] + y[1] * x[2], x[2] * y[2])
x (-) y == Frac(x[1] * y[2] - y[1] * x[2], x[2] * y[2])
x (.) y == Frac(x[1] * y[1], x[2] * y[2])
x (/) y == IF y[2] = 0 THEN NotFinite ELSE Frac(x[1] * y[2], x[2] * y[1])

\* x <= y, which is false of NotFinite.
Leq(x, y) == x[2] # 0 /\ y[2] # 0 /\ x[1] * y[2] <= y[1] * x[2]
Less(x, y) == Leq(x, y) /\ x # y

IsNumber(x) == x = NotFinite \/ (x[1] \in Int /\ x[2] \in Nat \ {0} /\ Gcd(Abs(x[1]), x[2]) = 1)

-----------------------------------------------------------------------------
(* One joint at the places y[0], ..., y[n] at times t[0], ..., t[n], with  *)
(* h[i] from the ith to the next.                                          *)

Slope(y, h, i) == (y[i + 1] (-) y[i]) (/) h[i]

Alpha(y, h, i) ==
    ((Q(3) (/) h[i]) (.) (y[i + 1] (-) y[i])) (-) ((Q(3) (/) h[i - 1]) (.) (y[i] (-) y[i - 1]))

\* Forward sweep of the Thomas algorithm: mu[i] and z[i].
Sweep(y, h) ==
    LET sweep[i \in DOMAIN h] ==
            IF i = 0 THEN [mu |-> Q(0), z |-> Q(0)]
            ELSE LET last == sweep[i - 1]
                     l == (Q(2) (.) (h[i - 1] (+) h[i])) (-) (h[i - 1] (.) last.mu)
                 IN  [mu |-> h[i] (/) l, z |-> (Alpha(y, h, i) (-) (h[i - 1] (.) last.z)) (/) l]
    IN  sweep

\* The sweep taken for the solution.
NoBackSubstitution(y, h) ==
    [i \in DOMAIN y |-> IF i \in DOMAIN h THEN Sweep(y, h)[i].z ELSE Q(0)]

\* M[n] = 0 and, downwards, M[i] = z[i] - mu[i] M[i + 1].
BackSubstitution(y, h) ==
    LET sweep == Sweep(y, h)
        M[i \in DOMAIN y] ==
            IF i \notin DOMAIN h THEN Q(0) ELSE sweep[i].z (-) (sweep[i].mu (.) M[i + 1])
    IN  M

\* M[i] and M[i + 1] exchanged in the linear coefficient.
CoefficientsSwapped(y, h, M, i) ==
    [a |-> y[i],
     b |-> Slope(y, h, i) (-) ((h[i] (.) (M[i] (+) (Q(2) (.) M[i + 1]))) (/) Q(6)),
     c |-> M[i] (/) Q(2),
     d |-> (M[i + 1] (-) M[i]) (/) (Q(6) (.) h[i])]

Coefficients(y, h, M, i) ==
    [a |-> y[i],
     b |-> Slope(y, h, i) (-) ((h[i] (.) ((Q(2) (.) M[i]) (+) M[i + 1])) (/) Q(6)),
     c |-> M[i] (/) Q(2),
     d |-> (M[i + 1] (-) M[i]) (/) (Q(6) (.) h[i])]

-----------------------------------------------------------------------------
\* Trajectory's default values.
EmptyTrajectory == [duration |-> Q(0), segments |-> <<>>]

\* n segments of equal duration.  A segment of the model has the coefficients
\* of every joint; the code has one list of segments to a joint, all with the
\* same times.
FitCubicSpline(waypoints, duration) ==
    LET n == Len(waypoints) - 1
        joints == DOMAIN waypoints[1]
        t == [i \in 0 .. n |-> (duration (/) Q(n)) (.) Q(i)]
        h == [i \in 0 .. n - 1 |-> t[i + 1] (-) t[i]]
        y == [j \in joints |-> [i \in 0 .. n |-> Q(waypoints[i + 1][j])]]
        M == [j \in joints |-> BackSubstitution(y[j], h)]
    IN  IF n < 1 \/ joints = {} THEN EmptyTrajectory
        ELSE [duration |-> duration,
              segments |-> [i \in 1 .. n |->
                  [t_start |-> t[i - 1], h |-> h[i - 1],
                   coeff |-> [j \in joints |-> Coefficients(y[j], h, M[j], i - 1)]]]]

-----------------------------------------------------------------------------
Clamp(duration, time) ==
    LET capped == IF Less(duration, time) THEN duration ELSE time
    IN  IF Less(capped, Q(0)) THEN Q(0) ELSE capped

\* The first segment that has started, whether or not the next has too.
FirstStarted(segments, t) ==
    CHOOSE i \in DOMAIN segments :
        Leq(segments[i].t_start, t) /\ \A k \in 1 .. i - 1 : ~ Leq(segments[k].t_start, t)

\* The first segment that has started, unless the next one has too; the first
\* segment of all if there is none.
SegmentAt(segments, t) ==
    LET found == {i \in DOMAIN segments :
                    /\ Leq(segments[i].t_start, t)
                    /\ i = Len(segments) \/ Less(t, segments[i + 1].t_start)}
    IN  IF found = {} THEN 1 ELSE CHOOSE i \in found : \A k \in found : i <= k

\* a + b tau + c tau^2 + d tau^3 (which the code adds up in another order)
Cubic(c, tau) == c.a (+) (tau (.) (c.b (+) (tau (.) (c.c (+) (tau (.) c.d)))))

\* Trajectory::eval.  A trajectory without segments has no joints.
Eval(traj, time) ==
    LET t == Clamp(traj.duration, time)
        seg == traj.segments[SegmentAt(traj.segments, t)]
    IN  IF traj.segments = <<>> THEN <<>>
        ELSE [j \in DOMAIN seg.coeff |-> Cubic(seg.coeff[j], t (-) seg.t_start)]

-----------------------------------------------------------------------------
(* Velocity and acceleration tau after the start of a segment.  The code   *)
(* has no derivatives; these are what its polynomials imply.               *)
Velocity(c, tau) == c.b (+) (tau (.) ((Q(2) (.) c.c) (+) (Q(3) (.) (tau (.) c.d))))
Acceleration(c, tau) == (Q(2) (.) c.c) (+) (Q(6) (.) (tau (.) c.d))
=============================================================================
