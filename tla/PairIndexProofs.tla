-------------------------- MODULE PairIndexProofs ---------------------------
(***************************************************************************)
(* What the numberings of pairs do for every number of objects.            *)
(***************************************************************************)
EXTENDS PairIndex, FiniteSetTheorems, WellFoundedInduction, TLAPS

\* A set that holds 0 and the successor of each of its numbers holds them all.
LEMMA NatInSet ==
    ASSUME NEW S, 0 \in S, \A n \in Nat : n \in S => n + 1 \in S
    PROVE  Nat \subseteq S
<1> DEFINE Less == {p \in Nat \X Nat : p[1] < p[2]}
           T == Nat \ S
<1>1. IsWellFoundedOn(Less, Nat)
  <2>1. OpToRel(<, Nat) \subseteq Less /\ Less \subseteq OpToRel(<, Nat)
    BY Zenon DEF OpToRel
  <2> QED
    BY <2>1, NatLessThanWellFounded, Zenon
<1> SUFFICES ASSUME T # {} PROVE FALSE
  OBVIOUS
<1>2. PICK x \in T : \A y \in T : <<y, x>> \notin Less
  <2> HIDE DEF Less, T
  <2>1. T \subseteq Nat
    BY DEF T
  <2> QED
    BY <1>1, <2>1, WFMin, Zenon
<1>3. x \in Nat /\ x # 0 /\ x - 1 \in Nat
  OBVIOUS
<1>4. <<x - 1, x>> \in Less
  BY <1>3
<1>5. x - 1 \in S
  BY <1>2, <1>3, <1>4
<1>6. x - 1 + 1 = x
  BY <1>3
<1> QED
  BY <1>3, <1>5, <1>6

-----------------------------------------------------------------------------
(* The kernels' triangle.                                                  *)

\* The triangle numbers, one row after the other.
LEMMA TriangleRows ==
    /\ Triangle(0) = 0
    /\ \A i \in Nat : Triangle(i) \in Nat /\ Triangle(i + 1) = Triangle(i) + i + 1
<1>1. Triangle(0) = 0
  BY DEF Triangle
<1>2. ASSUME NEW i \in Nat
      PROVE  Triangle(i) \in Nat /\ Triangle(i + 1) = Triangle(i) + i + 1
  <2> DEFINE x == i * (i + 1)
  <2>1. x \in Nat
    OBVIOUS
  <2>2. (i + 1) * (i + 1 + 1) = x + 2 * (i + 1)
    OBVIOUS
  <2> HIDE DEF x
  <2>3. x \div 2 \in Nat /\ (x + 2 * (i + 1)) \div 2 = (x \div 2) + i + 1
    BY <2>1
  <2> QED
    BY <2>2, <2>3 DEF Triangle, x
<1> QED
  BY <1>1, <1>2

\* And they grow.
LEMMA TrianglesGrow ==
    ASSUME NEW i \in Nat, NEW j \in Nat, Triangle(i) < Triangle(j + 1)
    PROVE  i <= j
<1> SUFFICES ASSUME j + 1 <= i PROVE FALSE
  OBVIOUS
<1>1. (j + 1) * (j + 1 + 1) <= i * (i + 1)
  OBVIOUS
<1> DEFINE x == (j + 1) * (j + 1 + 1)
           y == i * (i + 1)
<1>2. x \in Nat /\ y \in Nat
  OBVIOUS
<1> HIDE DEF x, y
<1>3. x <= y => x \div 2 <= y \div 2
  BY <1>2
<1>4. x \div 2 \in Int /\ y \div 2 \in Int
  BY <1>2
<1> QED
  BY <1>1, <1>3, <1>4 DEF Triangle, x, y

\* Every work item is in a row.
LEMMA RowOfItem ==
    ASSUME NEW k \in Nat
    PROVE  /\ KernelRow(k) \in 0 .. k
           /\ Triangle(KernelRow(k)) <= k /\ k < Triangle(KernelRow(k) + 1)
<1> DEFINE InRow(n, i) == Triangle(i) <= n /\ n < Triangle(i + 1)
           S == {n \in Nat : \E i \in 0 .. n : InRow(n, i)}
<1>1. 0 \in S
  BY TriangleRows
<1>2. ASSUME NEW n \in Nat, n \in S PROVE n + 1 \in S
  <2>1. PICK i \in 0 .. n : InRow(n, i)
    BY <1>2
  <2>2. i + 1 \in 0 .. n + 1 /\ i \in 0 .. n + 1
    OBVIOUS
  <2>3. /\ Triangle(i) \in Nat /\ Triangle(i + 1) \in Nat
        /\ Triangle(i + 1 + 1) = Triangle(i + 1) + i + 1 + 1
    <3>1. i \in Nat /\ i + 1 \in Nat
      BY <2>2
    <3> DEFINE j == i + 1
    <3>2. Triangle(i) \in Nat
      BY <3>1, TriangleRows
    <3> HIDE DEF j
    <3>3. Triangle(j) \in Nat /\ Triangle(j + 1) = Triangle(j) + j + 1
      BY <3>1, TriangleRows DEF j
    <3> QED
      BY <3>2, <3>3 DEF j
  <2>4. InRow(n + 1, i) \/ InRow(n + 1, i + 1)
    BY <2>1, <2>3
  <2> QED
    BY <2>2, <2>4
<1>3. k \in S
  BY <1>1, <1>2, NatInSet
<1> QED
  BY <1>3 DEF KernelRow

\* The pair of a work item: its row, and a column at most twice as far.
LEMMA ShapeOfPair ==
    ASSUME NEW k \in Nat
    PROVE  /\ KernelPair(k) \in Nat \X Nat
           /\ KernelPair(k)[1] < KernelPair(k)[2]
           /\ KernelPair(k)[2] <= 2 * KernelPair(k)[1] + 1
<1> DEFINE i == KernelRow(k)
<1>1. i \in Nat /\ Triangle(i) <= k /\ k < Triangle(i + 1)
  BY RowOfItem
<1>2. Triangle(i) \in Nat /\ Triangle(i + 1) = Triangle(i) + i + 1
  BY <1>1, TriangleRows
<1>3. KernelPair(k) = <<i, k - Triangle(i) + i + 1>>
  BY DEF KernelPair
<1> HIDE DEF i
<1> QED
  BY <1>1, <1>2, <1>3

\* Kernels that number the pairs by rows of a triangle never compare the first
\* object with the third, however many there are
\* (coal_gpu_collision_manager.cpp:60-62 and 96-97; the comment promises all
\* pairs).
THEOREM FirstAndThirdNeverCompared == \A k \in Nat : KernelPair(k) # <<0, 2>>
BY ShapeOfPair

\* And from three objects on, the last work item compares a box past the last
\* (coal_gpu_collision_manager.cpp:96-101).
THEOREM LastItemOutOfBounds ==
    ASSUME NEW n \in Nat, n >= 3
    PROVE  KernelPair(NumPairs(n) - 1)[2] >= n
<1> DEFINE k == NumPairs(n) - 1
           i == n - 2
<1>1. NumPairs(n) = Triangle(i + 1)
  <2>1. n * (n - 1) = (i + 1) * (i + 1 + 1)
    OBVIOUS
  <2> QED
    BY <2>1 DEF NumPairs, Triangle
<1>2. /\ i \in Nat /\ i >= 1 /\ Triangle(i) \in Nat
      /\ Triangle(i + 1) = Triangle(i) + i + 1
  <2>1. i \in Nat /\ i >= 1
    OBVIOUS
  <2> QED
    BY <2>1, TriangleRows
<1>3. k \in Nat /\ Triangle(i) <= k /\ k < Triangle(i + 1)
  BY <1>1, <1>2
<1>4. KernelRow(k) = i
  <2> DEFINE r == KernelRow(k)
  <2>1. r \in Nat /\ Triangle(r) <= k /\ k < Triangle(r + 1)
    BY <1>3, RowOfItem
  <2> HIDE DEF r, k, i
  <2>2. /\ Triangle(i) < Triangle(r + 1) /\ Triangle(r) < Triangle(i + 1)
    <3>1. /\ Triangle(r) \in Nat
          /\ Triangle(r + 1) = Triangle(r) + r + 1
      BY <2>1, TriangleRows
    <3> QED
      BY <1>2, <1>3, <2>1, <3>1
  <2>3. i <= r /\ r <= i
    BY <1>2, <2>1, <2>2, TrianglesGrow
  <2> QED
    BY <1>2, <2>1, <2>3 DEF r
<1> QED
  BY <1>1, <1>2, <1>3, <1>4 DEF KernelPair

-----------------------------------------------------------------------------
(* The host's loops over the pairs of n objects.                           *)

\* Adding the object n adds the pairs of n objects with it.
LEMMA PairsOfOneMore ==
    ASSUME NEW n \in Nat
    PROVE  UpperPairs(n + 1) = UpperPairs(n) \cup ((0 .. n - 1) \X {n})
<1>1. ASSUME NEW p \in UpperPairs(n + 1)
      PROVE  p \in UpperPairs(n) \/ p \in (0 .. n - 1) \X {n}
  <2>1. p = <<p[1], p[2]>> /\ p[1] \in 0 .. n /\ p[2] \in 0 .. n /\ p[1] < p[2]
    BY DEF UpperPairs
  <2> QED
    BY <2>1 DEF UpperPairs
<1>2. ASSUME NEW p \in UpperPairs(n) PROVE p \in UpperPairs(n + 1)
  BY DEF UpperPairs
<1>3. ASSUME NEW p \in (0 .. n - 1) \X {n} PROVE p \in UpperPairs(n + 1)
  BY DEF UpperPairs
<1> QED
  BY <1>1, <1>2, <1>3, Zenon

\* One more object makes a pair with each of the others.
LEMMA NumPairsOfOneMore ==
    ASSUME NEW n \in Nat
    PROVE  NumPairs(n + 1) = NumPairs(n) + n
<1> DEFINE x == n * (n - 1)
<1>1. x \in Int /\ (n + 1) * (n + 1 - 1) = x + 2 * n
  OBVIOUS
<1> HIDE DEF x
<1>2. (x + 2 * n) \div 2 = (x \div 2) + n
  BY <1>1
<1> QED
  BY <1>1, <1>2 DEF NumPairs, x

\* The buffers of a self query hold n * (n - 1) / 2 results, and that is how many
\* pairs there are (setup, coal_gpu_collision_manager.cpp:280-310).
LEMMA PairsCounted ==
    ASSUME NEW n \in Nat
    PROVE  /\ NumPairs(n) \in Nat
           /\ IsFiniteSet(UpperPairs(n)) /\ Cardinality(UpperPairs(n)) = NumPairs(n)
<1> DEFINE Counted(m) ==
        /\ NumPairs(m) \in Nat
        /\ IsFiniteSet(UpperPairs(m)) /\ Cardinality(UpperPairs(m)) = NumPairs(m)
           S == {m \in Nat : Counted(m)}
<1>1. 0 \in S
  <2>1. UpperPairs(0) = {} /\ NumPairs(0) = 0
    BY DEF UpperPairs, NumPairs
  <2> QED
    BY <2>1, FS_EmptySet
<1>2. ASSUME NEW m \in Nat, m \in S PROVE m + 1 \in S
  <2> DEFINE Added == (0 .. m - 1) \X {m}
  <2>1. IsFiniteSet(0 .. m - 1) /\ Cardinality(0 .. m - 1) = m
    BY FS_Interval
  <2>2. IsFiniteSet(Added) /\ Cardinality(Added) = m
    <3>1. IsFiniteSet({m}) /\ Cardinality({m}) = 1
      BY FS_Singleton, Zenon
    <3>2. IsFiniteSet(Added) /\ Cardinality(Added) = Cardinality(0 .. m - 1) * Cardinality({m})
      BY <2>1, <3>1, FS_Product, Zenon
    <3> QED
      BY <2>1, <3>1, <3>2
  <2>3. UpperPairs(m) \cap Added = {}
    BY DEF UpperPairs
  <2> HIDE DEF Added
  <2>4. IsFiniteSet(UpperPairs(m)) /\ Cardinality(UpperPairs(m)) = NumPairs(m) /\ NumPairs(m) \in Nat
    BY <1>2
  <2>5. /\ IsFiniteSet(UpperPairs(m) \cup Added)
        /\ Cardinality(UpperPairs(m) \cup Added)
             = Cardinality(UpperPairs(m)) + Cardinality(Added) - Cardinality({})
    <3>1. /\ IsFiniteSet(UpperPairs(m) \cup Added)
          /\ Cardinality(UpperPairs(m) \cup Added)
               = Cardinality(UpperPairs(m)) + Cardinality(Added)
                   - Cardinality(UpperPairs(m) \cap Added)
      BY <2>2, <2>4, FS_Union, Zenon
    <3> QED
      BY <2>3, <3>1, Zenon
  <2>6. UpperPairs(m + 1) = UpperPairs(m) \cup Added
    BY PairsOfOneMore DEF Added
  <2>7. Cardinality({}) = 0
    BY FS_EmptySet, Zenon
  <2>8. NumPairs(m + 1) = NumPairs(m) + m
    BY NumPairsOfOneMore
  <2>9. IsFiniteSet(UpperPairs(m + 1))
    BY <2>5, <2>6, Zenon
  <2>10. Cardinality(UpperPairs(m + 1)) = NumPairs(m + 1)
    BY <2>2, <2>4, <2>5, <2>6, <2>7, <2>8
  <2> QED
    BY <2>4, <2>8, <2>9, <2>10
<1>3. n \in S
  <2> HIDE DEF S
  <2> QED
    BY <1>1, <1>2, NatInSet
<1> QED
  BY <1>3

\* The order of the loops is strict and total.
LEMMA BeforeIsTotal ==
    ASSUME NEW n \in Nat, NEW p \in UpperPairs(n), NEW q \in UpperPairs(n)
    PROVE  /\ ~Before(p, p)
           /\ p # q => Before(p, q) \/ Before(q, p)
           /\ \A r \in UpperPairs(n) : Before(r, p) /\ Before(p, q) => Before(r, q)
<1>1. p = <<p[1], p[2]>> /\ q = <<q[1], q[2]>>
  BY DEF UpperPairs
<1>2. \A r \in UpperPairs(n) : r[1] \in Int /\ r[2] \in Int
  BY DEF UpperPairs
<1> QED
  BY <1>1, <1>2 DEF Before

\* In a finite set with a strict total order R, the number of elements before p
\* tells p from the others, and every number below the size of the set occurs.
LEMMA RankIsBijection ==
    ASSUME NEW U, IsFiniteSet(U), NEW R,
           \A p \in U : <<p, p>> \notin R,
           \A p, q \in U : p # q => <<p, q>> \in R \/ <<q, p>> \in R,
           \A p, q, r \in U : <<p, q>> \in R /\ <<q, r>> \in R => <<p, r>> \in R
    PROVE  [p \in U |-> Cardinality({r \in U : <<r, p>> \in R})]
             \in Bijection(U, 0 .. Cardinality(U) - 1)
<1> DEFINE N == Cardinality(U)
           Earlier(p) == {r \in U : <<r, p>> \in R}
           rank == [p \in U |-> Cardinality(Earlier(p))]
<1>1. N \in Nat
  BY FS_CardinalityType
<1>2. ASSUME NEW p \in U
      PROVE  IsFiniteSet(Earlier(p)) /\ Cardinality(Earlier(p)) \in 0 .. N - 1
  <2>1. Earlier(p) \in SUBSET U /\ p \in U \ Earlier(p)
    OBVIOUS
  <2> HIDE DEF Earlier
  <2>2. /\ IsFiniteSet(Earlier(p)) /\ Cardinality(Earlier(p)) <= Cardinality(U)
        /\ Cardinality(U) # Cardinality(Earlier(p))
    BY <2>1, FS_Subset, Zenon
  <2>3. Cardinality(Earlier(p)) \in Nat
    BY <2>2, FS_CardinalityType, Zenon
  <2> QED
    BY <1>1, <2>2, <2>3
<1>3. ASSUME NEW p \in U, NEW q \in U, <<p, q>> \in R
      PROVE  Cardinality(Earlier(p)) < Cardinality(Earlier(q))
  <2>1. Earlier(p) \in SUBSET Earlier(q) /\ p \in Earlier(q) \ Earlier(p)
    BY <1>3
  <2> HIDE DEF Earlier
  <2>2. Cardinality(Earlier(p)) <= Cardinality(Earlier(q))
        /\ Cardinality(Earlier(p)) # Cardinality(Earlier(q))
    BY <1>2, <2>1, FS_Subset, Zenon
  <2> QED
    BY <1>2, <2>2
<1> HIDE DEF Earlier, N
<1>4. \A p, q \in U : rank[p] = rank[q] => p = q
  <2> SUFFICES ASSUME NEW p \in U, NEW q \in U, rank[p] = rank[q], p # q PROVE FALSE
    OBVIOUS
  <2>1. <<p, q>> \in R \/ <<q, p>> \in R
    OBVIOUS
  <2> QED
    BY <1>2, <1>3, <2>1
<1>5. rank \in [U -> 0 .. N - 1]
  BY <1>2
<1> HIDE DEF rank
<1>6. rank \in Injection(U, 0 .. N - 1)
  BY <1>4, <1>5, Zenon DEF Injection, IsInjective
<1>7. IsFiniteSet(0 .. N - 1) /\ Cardinality(0 .. N - 1) = N
  BY <1>1, FS_Interval
<1>8. rank \in Surjection(U, 0 .. N - 1)
  BY <1>6, <1>7, FS_Injection, Zenon DEF N
<1>9. rank \in Bijection(U, 0 .. N - 1)
  BY <1>6, <1>8, Zenon DEF Bijection
<1> QED
  BY <1>9, Zenon DEF rank, N, Earlier

\* So the members of a finite set of numbers are counted in order.
LEMMA RankOfNumbers ==
    ASSUME NEW A, A \subseteq Int, IsFiniteSet(A)
    PROVE  [i \in A |-> Cardinality({j \in A : j < i})]
             \in Bijection(A, 0 .. Cardinality(A) - 1)
<1> DEFINE R == {x \in A \X A : x[1] < x[2]}
           rank == [i \in A |-> Cardinality({j \in A : <<j, i>> \in R})]
<1>1. /\ \A p \in A : <<p, p>> \notin R
      /\ \A p, q \in A : p # q => <<p, q>> \in R \/ <<q, p>> \in R
  OBVIOUS
<1>2. \A p, q, r \in A : <<p, q>> \in R /\ <<q, r>> \in R => <<p, r>> \in R
  OBVIOUS
<1>3. \A i \in A : {j \in A : <<j, i>> \in R} = {j \in A : j < i}
  OBVIOUS
<1> HIDE DEF R
<1>4. rank \in Bijection(A, 0 .. Cardinality(A) - 1)
  <2> DEFINE U == A
  <2>1. /\ IsFiniteSet(U)
        /\ \A p \in U : <<p, p>> \notin R
        /\ \A p, q \in U : p # q => <<p, q>> \in R \/ <<q, p>> \in R
    BY <1>1
  <2>2. \A p, q, r \in U : <<p, q>> \in R /\ <<q, r>> \in R => <<p, r>> \in R
    BY <1>2
  <2> DEFINE f == [i \in U |-> Cardinality({j \in U : <<j, i>> \in R})]
  <2> HIDE DEF U
  <2>3. f \in Bijection(U, 0 .. Cardinality(U) - 1)
    BY <2>1, <2>2, RankIsBijection
  <2> QED
    BY <2>3 DEF U
<1>5. rank = [i \in A |-> Cardinality({j \in A : j < i})]
  BY <1>3
<1> QED
  BY <1>4, <1>5, Zenon

\* The host's counter runs through the pairs, each once
\* (coal_gpu_collision_manager.cpp:350-352: "for i, for j = i + 1, ++k").
THEOREM HostVisitsEveryPair ==
    ASSUME NEW n \in Nat
    PROVE  [k \in 0 .. NumPairs(n) - 1 |-> HostPair(n, k)]
             \in Bijection(0 .. NumPairs(n) - 1, UpperPairs(n))
<1> DEFINE U == UpperPairs(n)
           N == NumPairs(n)
           R == {x \in U \X U : Before(x[1], x[2])}
           rank == [p \in U |-> Cardinality({r \in U : <<r, p>> \in R})]
<1>1. IsFiniteSet(U) /\ Cardinality(U) = N
  BY PairsCounted
<1>2. rank \in Bijection(U, 0 .. N - 1)
  <2>1. /\ \A p \in U : <<p, p>> \notin R
        /\ \A p, q \in U : p # q => <<p, q>> \in R \/ <<q, p>> \in R
    BY BeforeIsTotal
  <2>2. \A p, q, r \in U : <<p, q>> \in R /\ <<q, r>> \in R => <<p, r>> \in R
    BY BeforeIsTotal
  <2> HIDE DEF U, R, N
  <2> QED
    <3>1. rank \in Bijection(U, 0 .. Cardinality(U) - 1)
      BY <1>1, <2>1, <2>2, RankIsBijection
    <3> QED
      BY <1>1, <3>1
<1>3. \A p \in U : rank[p] = Cardinality({r \in U : Before(r, p)})
  <2>1. \A p \in U : {r \in U : <<r, p>> \in R} = {r \in U : Before(r, p)}
    OBVIOUS
  <2> HIDE DEF U, R
  <2> QED
    BY <2>1
<1> HIDE DEF R, rank
<1>4. ASSUME NEW k \in 0 .. N - 1
      PROVE  HostPair(n, k) \in U /\ rank[HostPair(n, k)] = k
  <2>1. \E p \in U : Cardinality({r \in U : Before(r, p)}) = k
    <3>1. PICK p \in U : rank[p] = k
      BY <1>2, Zenon DEF Bijection, Surjection
    <3> QED
      BY <1>3, <3>1, Zenon
  <2>2. HostPair(n, k) \in U /\ Cardinality({r \in U : Before(r, HostPair(n, k))}) = k
    BY <2>1, Zenon DEF HostPair
  <2> QED
    BY <1>3, <2>2, Zenon
<1> DEFINE host == [k \in 0 .. N - 1 |-> HostPair(n, k)]
<1> HIDE DEF U, N
<1>5. host \in [0 .. N - 1 -> U]
  BY <1>4
<1>6. \A k, l \in 0 .. N - 1 : host[k] = host[l] => k = l
  BY <1>4
<1>7. \A p \in U : \E k \in 0 .. N - 1 : host[k] = p
  <2> SUFFICES ASSUME NEW p \in U PROVE \E k \in 0 .. N - 1 : host[k] = p
    OBVIOUS
  <2>1. rank[p] \in 0 .. N - 1
    BY <1>2 DEF Bijection, Injection
  <2>2. \A r \in U : rank[r] = rank[p] => r = p
    BY <1>2, Zenon DEF Bijection, Injection, IsInjective
  <2>3. host[rank[p]] = p
    BY <1>4, <2>1, <2>2
  <2> QED
    BY <2>1, <2>3
<1> HIDE DEF host
<1>8. host \in Bijection(0 .. N - 1, U)
  BY <1>5, <1>6, <1>7, Zenon DEF Bijection, Injection, Surjection, IsInjective
<1> QED
  BY <1>8 DEF U, N, host

-----------------------------------------------------------------------------
(* The grid of a query against others.                                     *)

\* The kernels' and the host's numbering of a grid agree.
LEMMA GridNumbered ==
    ASSUME NEW n \in Nat, NEW m \in Nat, NEW k \in 0 .. n * m - 1
    PROVE  /\ CrossPair(m, k) \in (0 .. n - 1) \X (0 .. m - 1)
           /\ CrossIndex(m, CrossPair(m, k)[1], CrossPair(m, k)[2]) = k
<1>1. m > 0 /\ n > 0
  <2>1. m = 0 => n * m = 0
    OBVIOUS
  <2>2. n = 0 => n * m = 0
    OBVIOUS
  <2> QED
    BY <2>1, <2>2
<1> DEFINE d == k \div m
           r == k % m
<1>2. d \in Nat /\ r \in 0 .. m - 1 /\ k = (m * d) + r
  BY <1>1
<1> HIDE DEF d, r
<1>3. d < n
  <2> SUFFICES ASSUME d >= n PROVE FALSE
    BY <1>2
  <2>1. m * n <= m * d
    BY <1>2
  <2> QED
    BY <1>2, <2>1
<1> QED
  BY <1>2, <1>3 DEF CrossPair, CrossIndex, d, r

\* And it gives no two of its pairs the same number.
LEMMA GridNumberedOnce ==
    ASSUME NEW n \in Nat, NEW m \in Nat,
           NEW i \in 0 .. n - 1, NEW j \in 0 .. m - 1
    PROVE  /\ CrossIndex(m, i, j) \in 0 .. n * m - 1
           /\ CrossPair(m, CrossIndex(m, i, j)) = <<i, j>>
<1> DEFINE k == i * m + j
<1>1. k \in 0 .. n * m - 1
  <2>1. (i + 1) * m <= n * m
    OBVIOUS
  <2>2. (i + 1) * m = i * m + m
    OBVIOUS
  <2>3. i * m \in Nat
    OBVIOUS
  <2> QED
    BY <2>1, <2>2, <2>3
<1>2. k \div m = i /\ k % m = j
  OBVIOUS
<1> QED
  BY <1>1, <1>2 DEF CrossIndex, CrossPair
=============================================================================
