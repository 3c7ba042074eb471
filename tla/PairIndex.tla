----------------------------- MODULE PairIndex ------------------------------
(***************************************************************************)
(* coal_gpu_collision_manager.cpp: how a work item k of a kernel and the   *)
(* host's loops name the pair of boxes whose result is at position k.      *)
(* Objects and work items are numbered from 0, as in the code.             *)
(***************************************************************************)
EXTENDS Integers, FiniteSets

\* n * (n - 1) / 2
NumPairs(n) == (n * (n - 1)) \div 2

Triangle(i) == (i * (i + 1)) \div 2

\* The kernels' row: the largest i with i*(i+1)/2 <= k.  The code computes it
\* with a float square root; it is exact up to the 2^21 work items or so for
\* which 8*k+1 is a float.
KernelRow(k) ==
    CHOOSE i \in 0 .. k : Triangle(i) <= k /\ k < Triangle(i + 1)

\* aabbOverlapSelf, aabbDistance: the pair that work item k compares.
KernelPair(k) ==
    LET i == KernelRow(k) IN <<i, k - Triangle(i) + i + 1>>

\* The pairs of the host's loops "for i, for j = i + 1": k counts them in order.
UpperPairs(n) == {p \in (0 .. n - 1) \X (0 .. n - 1) : p[1] < p[2]}

Before(p, q) == p[1] < q[1] \/ (p[1] = q[1] /\ p[2] < q[2])

\* The pair at which the host's counter is k.
HostPair(n, k) ==
    CHOOSE p \in UpperPairs(n) : Cardinality({r \in UpperPairs(n) : Before(r, p)}) = k

\* The transposed grid: item k is (k % m, k / m).
CrossPairTransposed(m, k) == <<k % m, k \div m>>

\* aabbOverlapCross, aabbDistanceCross: item k of an n * m grid.
CrossPair(m, k) == <<k \div m, k % m>>

\* overlaps[i * m + j]: where the host looks for the pair (i, j) of the grid.
CrossIndex(m, i, j) == i * m + j
=============================================================================
