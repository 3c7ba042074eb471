------------------------ MODULE UBSanCountPassProofs -------------------------
(***************************************************************************)
(* UBSanCountPass's invariants, for counters of any width, any number of   *)
(* functions and any answers of the analyses.                              *)
(***************************************************************************)
EXTENDS UBSanCountPass, FiniteSetTheorems, WellFoundedInduction, TLAPS

-----------------------------------------------------------------------------
(* Words.                                                                  *)

\* There is a least number in any set of numbers that has one at all.
LEMMA LeastNumber ==
    ASSUME NEW T, T \subseteq Nat, T # {}
    PROVE  \E x \in T : \A y \in T : x <= y
<1> DEFINE Less == {p \in Nat \X Nat : p[1] < p[2]}
<1>1. OpToRel(<, Nat) \subseteq Less /\ Less \subseteq OpToRel(<, Nat)
  BY Zenon DEF OpToRel
<1>2. IsWellFoundedOn(Less, Nat)
  BY <1>1, NatLessThanWellFounded, Zenon
<1>3. PICK x \in T : \A y \in T : <<y, x>> \notin Less
  <2> HIDE DEF Less
  <2> QED
    BY <1>2, WFMin, Zenon
<1>4. ASSUME NEW y \in T PROVE x <= y
  <2>1. x \in Nat /\ y \in Nat
    OBVIOUS
  <2>2. ~ (y < x)
    BY <1>3, <2>1
  <2> QED
    BY <2>1, <2>2
<1> QED
  BY <1>4

\* The remainder of a division is the only one.
LEMMA Remainder ==
    ASSUME NEW m \in Nat \ {0}, NEW q \in Int, NEW r \in 0 .. m - 1
    PROVE  (q * m + r) % m = r
  OBVIOUS

\* A number against its quotient and remainder.
LEMMA Division ==
    ASSUME NEW m \in Nat \ {0}, NEW n \in Int
    PROVE  n \div m \in Int /\ n % m \in 0 .. m - 1 /\ n = (n \div m) * m + (n % m)
  OBVIOUS

\* There is a word.
LEMMA SomeWord == Half \in Nat /\ Half > 0
  BY UBSanAssumption

\* Every number becomes a word, and a word stays what it is.
LEMMA WrapWord ==
    /\ \A n \in Int : Wrap(n) \in Word
    /\ \A n \in Word : Wrap(n) = n
BY SomeWord DEF Wrap, Word, Lo, Hi

\* Wrapping early or late is the same, and a whole turn is nothing.
LEMMA WrapTwice ==
    ASSUME NEW a \in Int, NEW b \in Int
    PROVE  Wrap(Wrap(a) + b) = Wrap(a + b)
<1> DEFINE m == 2 * Half
           q == (a + Half) \div m
           r == (a + Half) % m
<1>1. m \in Nat \ {0} /\ Half \in Nat
  BY SomeWord
<1>2. q \in Int /\ r \in 0 .. m - 1 /\ a + Half = q * m + r
  <2> HIDE DEF m
  <2>1. a + Half \in Int
    BY <1>1
  <2> QED
    BY <1>1, <2>1, Division
<1> DEFINE u == (r + b) \div m
           v == (r + b) % m
<1>3. u \in Int /\ v \in 0 .. m - 1 /\ r + b = u * m + v
  <2> HIDE DEF m, r
  <2>1. r + b \in Int
    BY <1>1, <1>2
  <2> QED
    BY <1>1, <2>1, Division
<1>4. (r + b) % m = v
  OBVIOUS
<1>5. Wrap(a) + b + Half = r + b
  BY <1>1, <1>2 DEF Wrap
<1>6. a + b + Half = (q + u) * m + v
  <2> HIDE DEF m, q, r, u, v
  <2>1. q * m + u * m = (q + u) * m
    BY <1>1, <1>2, <1>3
  <2>2. q * m \in Int /\ u * m \in Int
    BY <1>1, <1>2, <1>3
  <2> QED
    BY <1>1, <1>2, <1>3, <2>1, <2>2
<1>7. (a + b + Half) % m = v
  <2>1. q + u \in Int
    BY <1>2, <1>3
  <2> HIDE DEF m, q, r, u, v
  <2> QED
    BY <1>1, <1>3, <1>6, <2>1, Remainder
<1> QED
  BY <1>5, <1>7 DEF Wrap

\* Whole turns of the circle of words lead back to where they began.
LEMMA WholeTurn ==
    ASSUME NEW s \in Word, NEW d \in Int
    PROVE  Wrap(s + 2 * Half * d) = s
<1> DEFINE m == 2 * Half
           r == s + Half
<1>1. m \in Nat \ {0} /\ r \in 0 .. m - 1 /\ s \in Int /\ Half \in Nat
  BY SomeWord DEF Word, Lo, Hi
<1>2. s + 2 * Half * d + Half = d * m + r
  BY <1>1
<1>3. (s + 2 * Half * d + Half) % m = r
  <2> HIDE DEF m, r
  <2> QED
    BY <1>1, <1>2, Remainder
<1> QED
  BY <1>1, <1>3 DEF Wrap

-----------------------------------------------------------------------------
(* Ranges.                                                                 *)

\* Ranges are finite sets of words.
LEMMA RangesFinite ==
    /\ IsFiniteSet(Word)
    /\ \A r \in Ranges : r \subseteq Word /\ Cardinality(r) \in Nat
    /\ Word \in Ranges
<1>1. Lo \in Int /\ Hi \in Int /\ Half \in Nat
  BY SomeWord DEF Lo, Hi
<1>2. IsFiniteSet(Word)
  BY <1>1, FS_Interval DEF Word
<1>3. ASSUME NEW r \in Ranges PROVE r \subseteq Word /\ Cardinality(r) \in Nat
  <2>1. PICK first \in Word, n \in 0 .. 2 * Half : r = Circle(first, n)
    BY DEF Ranges
  <2>2. \A k \in 0 .. n - 1 : first + k \in Int
    BY <1>1, <2>1 DEF Word
  <2>3. r \subseteq Word
    BY <2>1, <2>2, WrapWord DEF Circle
  <2> QED
    BY <1>2, <2>3, FS_Subset, FS_CardinalityType
<1>4. Word \in Ranges
  <2>1. Lo \in Word /\ 2 * Half \in 0 .. 2 * Half
    BY SomeWord DEF Word, Lo, Hi
  <2>2. Circle(Lo, 2 * Half) = Word
    <3>1. ASSUME NEW k \in 0 .. 2 * Half - 1 PROVE Wrap(Lo + k) \in Word
      BY <1>1, WrapWord
    <3>2. ASSUME NEW w \in Word PROVE \E k \in 0 .. 2 * Half - 1 : w = Wrap(Lo + k)
      <4>1. w - Lo \in 0 .. 2 * Half - 1 /\ Lo + (w - Lo) = w
        BY <1>1 DEF Word, Lo, Hi
      <4> QED
        BY <4>1, WrapWord
    <3> QED
      BY <3>1, <3>2 DEF Circle
  <2> QED
    BY <2>1, <2>2 DEF Ranges
<1> QED
  BY <1>2, <1>3, <1>4

\* The cover of a set of words is a range that holds it.
LEMMA CoverHolds ==
    ASSUME NEW S, S \subseteq Word
    PROVE  /\ Cover(S) \in Ranges
           /\ S \subseteq Cover(S)
           /\ \A r \in Ranges : S \subseteq r => Cardinality(Cover(S)) <= Cardinality(r)
<1> DEFINE T == {Cardinality(r) : r \in {r \in Ranges : S \subseteq r}}
<1>1. T \subseteq Nat /\ T # {}
  BY RangesFinite
<1>2. PICK c \in T : \A d \in T : c <= d
  <2> HIDE DEF T
  <2> QED
    BY <1>1, LeastNumber
<1>3. PICK r \in Ranges : S \subseteq r /\ Cardinality(r) = c
  OBVIOUS
<1>4. \A t \in Ranges : S \subseteq t => Cardinality(r) <= Cardinality(t)
  BY <1>2, <1>3
<1> QED
  BY <1>3, <1>4 DEF Cover

\* A set of words has a least and a greatest one.
LEMMA Extremes ==
    ASSUME NEW r, r \subseteq Word, r # {}
    PROVE  /\ Least(r) \in r /\ Greatest(r) \in r
           /\ \A x \in r : Least(r) <= x /\ x <= Greatest(r)
<1>1. Half \in Nat /\ \A x \in r : x \in Int /\ x + Half \in Nat /\ Half - x \in Nat
  BY SomeWord DEF Word, Lo, Hi
<1>2. \E x \in r : \A y \in r : x <= y
  <2> DEFINE T == {x + Half : x \in r}
  <2>1. T \subseteq Nat /\ T # {}
    BY <1>1
  <2>2. PICK c \in T : \A d \in T : c <= d
    <3> HIDE DEF T
    <3> QED
      BY <2>1, LeastNumber
  <2>3. PICK x \in r : c = x + Half
    OBVIOUS
  <2>4. ASSUME NEW y \in r PROVE x <= y
    <3>1. x + Half <= y + Half
      BY <2>2, <2>3
    <3> QED
      BY <1>1, <3>1
  <2> QED
    BY <2>4
<1>3. \E x \in r : \A y \in r : y <= x
  <2> DEFINE T == {Half - x : x \in r}
  <2>1. T \subseteq Nat /\ T # {}
    BY <1>1
  <2>2. PICK c \in T : \A d \in T : c <= d
    <3> HIDE DEF T
    <3> QED
      BY <2>1, LeastNumber
  <2>3. PICK x \in r : c = Half - x
    OBVIOUS
  <2>4. ASSUME NEW y \in r PROVE y <= x
    <3>1. Half - x <= Half - y
      BY <2>2, <2>3
    <3> QED
      BY <1>1, <3>1
  <2> QED
    BY <2>4
<1>4. Least(r) \in r /\ \A x \in r : Least(r) <= x
  BY <1>2 DEF Least
<1>5. Greatest(r) \in r /\ \A x \in r : x <= Greatest(r)
  BY <1>3 DEF Greatest
<1> QED
  BY <1>4, <1>5

\* rangesProveNoOverflow is right: between two operands of the range whose sums do
\* not overflow, none overflows (UBSanCountPass.cpp:71-94).
LEMMA ProofIsSound ==
    ASSUME NEW r, r \subseteq Word, NEW step \in Int, RangesProveNoOverflow(r, step),
           NEW a \in r, NEW b \in r, NEW i \in Int, a <= i, i <= b
    PROVE  i + step \in Word
<1>1. Least(r) \in r /\ Greatest(r) \in r /\ Least(r) <= a /\ b <= Greatest(r)
  BY Extremes
<1>2. Least(r) \in Int /\ Greatest(r) \in Int /\ a \in Int /\ b \in Int /\ Half \in Nat
  <2>1. Word \subseteq Int /\ Half \in Nat
    BY SomeWord DEF Word, Lo, Hi
  <2> QED
    BY <1>1, <2>1
<1>3. Least(r) + step >= Lo /\ Greatest(r) + step <= Hi
  BY DEF RangesProveNoOverflow
<1> QED
  BY <1>1, <1>2, <1>3 DEF Word, Lo, Hi

\* In particular the sum with any operand of the range.
LEMMA OperandIsSafe ==
    ASSUME NEW r, r \subseteq Word, NEW step \in Int, RangesProveNoOverflow(r, step), NEW i \in r
    PROVE  i + step \in Word
<1>1. i \in Int
  BY SomeWord DEF Word, Lo, Hi
<1>2. i <= i
  BY <1>1
<1> QED
  BY <1>1, <1>2, ProofIsSound

-----------------------------------------------------------------------------
(* The counter.                                                            *)

\* What is assumed of the counter of a function.
LEMMA CounterFacts ==
    ASSUME program \in Programs
    PROVE  /\ ctr.step \in Int /\ ctr.step # 0 /\ ctr.step \in Word
           /\ ctr.bound \in Word /\ ctr.exit \in {"ne", "ordered"}
           /\ ctr.starts \subseteq Word /\ ctr.starts # {}
           /\ Word \subseteq Int
<1>1. Word \subseteq Int
  BY SomeWord DEF Word, Lo, Hi
<1> QED
  BY <1>1, UBSanAssumption DEF ctr

\* When the loop is left.
LEMMA ExitsMeans ==
    ASSUME program \in Programs, NEW i \in Int
    PROVE  /\ ctr.exit = "ne" => (Exits(i) <=> i = ctr.bound)
           /\ ctr.exit = "ordered" /\ ctr.step > 0 => (Exits(i) <=> i >= ctr.bound)
           /\ ctr.exit = "ordered" /\ ctr.step < 0 => (Exits(i) <=> i <= ctr.bound)
<1>1. "ne" # "ordered" /\ ctr.step \in Int /\ ~ (ctr.step > 0 /\ ctr.step < 0)
  BY CounterFacts
<1> QED
  BY <1>1 DEF Exits

\* The counter goes from word to word, one step at a time, and is back where it was
\* after as many steps as there are words.
LEMMA Iterations ==
    ASSUME program \in Programs, NEW s \in Word
    PROVE  /\ \A k \in Nat : /\ Iterate(s, k) \in Word
                             /\ Wrap(Iterate(s, k) + ctr.step) = Iterate(s, k + 1)
           /\ Iterate(s, 0) = s
           /\ Iterate(s, 2 * Half) = s
<1> DEFINE d == ctr.step
<1>1. d \in Int /\ s \in Int /\ Half \in Nat
  BY CounterFacts, SomeWord
<1>2. ASSUME NEW k \in Nat
      PROVE  /\ Iterate(s, k) \in Word
             /\ Wrap(Iterate(s, k) + d) = Iterate(s, k + 1)
  <2> HIDE DEF d
  <2>1. k * d \in Int /\ (k + 1) * d = k * d + d
    BY <1>1
  <2>2. s + k * d \in Int
    BY <1>1, <2>1
  <2>3. Wrap(Wrap(s + k * d) + d) = Wrap((s + k * d) + d)
    BY <1>1, <2>2, WrapTwice
  <2>4. (s + k * d) + d = s + (k + 1) * d
    BY <1>1, <2>1
  <2>5. Wrap(s + k * d) \in Word
    BY <2>2, WrapWord
  <2> QED
    BY <2>3, <2>4, <2>5 DEF Iterate, d
<1>3. Iterate(s, 0) = s
  <2>1. s + 0 * d = s
    BY <1>1
  <2> QED
    BY <2>1, WrapWord DEF Iterate
<1>4. Iterate(s, 2 * Half) = s
  BY <1>1, WholeTurn DEF Iterate
<1> QED
  BY <1>2, <1>3, <1>4

\* The backedge-taken count is where the counter first exits.
LEMMA FirstExit ==
    ASSUME NEW C, BTCComputable(C), NEW s \in Starts
    PROVE  /\ BTC(s) \in 0 .. 2 * Half
           /\ Exits(Iterate(s, BTC(s)))
           /\ \A j \in 0 .. BTC(s) - 1 : ~ Exits(Iterate(s, j))
<1> DEFINE T == {k \in 0 .. 2 * Half : Exits(Iterate(s, k))}
<1>1. T \subseteq Nat /\ T # {}
  BY DEF BTCComputable
<1>2. PICK k \in T : \A j \in T : k <= j
  <2> HIDE DEF T
  <2> QED
    BY <1>1, LeastNumber
<1>3. ASSUME NEW j \in 0 .. k - 1 PROVE ~ Exits(Iterate(s, j))
  BY <1>2, SomeWord
<1>4. k \in 0 .. 2 * Half /\ Exits(Iterate(s, k))
  OBVIOUS
<1> QED
  BY <1>3, <1>4 DEF BTC

\* Before it first exits the counter does not wrap, if it has its end before it and
\* cannot step over it.
LEMMA NoWrapBeforeExit ==
    ASSUME program \in Programs, NEW C, BTCComputable(C), NEW s \in ctr.starts, s \in Starts,
           ctr.exit = "ne" => \/ ctr.step = 1 /\ s <= ctr.bound
                              \/ ctr.step = -1 /\ s >= ctr.bound
    PROVE  \A k \in 0 .. BTC(s) - 1 : Iterate(s, k) + ctr.step \in Word
<1> DEFINE d == ctr.step
           e == ctr.bound
           n == BTC(s)
<1>1. /\ d \in Int /\ d # 0 /\ e \in Word /\ s \in Word /\ Word \subseteq Int
      /\ ctr.exit \in {"ne", "ordered"} /\ n \in Nat
  BY CounterFacts, FirstExit
<1>2. \A k \in Nat : Iterate(s, k) \in Word /\ Wrap(Iterate(s, k) + d) = Iterate(s, k + 1)
  BY <1>1, Iterations
<1>3. \A k \in 0 .. n - 1 : ~ Exits(Iterate(s, k))
  BY FirstExit
<1> HIDE DEF n
<1>4. CASE ctr.exit = "ordered"
  <2> SUFFICES ASSUME NEW k \in 0 .. n - 1 PROVE Iterate(s, k) + d \in Word
    BY DEF n
  <2>1. Iterate(s, k) \in Word /\ ~ Exits(Iterate(s, k))
    BY <1>1, <1>2, <1>3
  <2>2. CASE d > 0
    <3>1. e + d - 1 <= Hi
      BY <1>4, <2>2 DEF BTCComputable
    <3>2. ~ (Iterate(s, k) >= e)
      BY <1>1, <1>4, <2>1, <2>2, ExitsMeans
    <3> HIDE DEF d, e
    <3> QED
      BY <1>1, <2>1, <2>2, <3>1, <3>2, SomeWord DEF Word, Lo, Hi
  <2>3. CASE d < 0
    <3>1. e + d + 1 >= Lo
      <4>1. ~ (d > 0)
        BY <1>1, <2>3
      <4> QED
        BY <1>4, <4>1 DEF BTCComputable
    <3>2. ~ (Iterate(s, k) <= e)
      BY <1>1, <1>4, <2>1, <2>3, ExitsMeans
    <3> HIDE DEF d, e
    <3> QED
      BY <1>1, <2>1, <2>3, <3>1, <3>2, SomeWord DEF Word, Lo, Hi
  <2> QED
    BY <1>1, <2>2, <2>3
<1>5. CASE ctr.exit = "ne"
  <2> DEFINE Ahead(v) == (d = 1 /\ v <= e) \/ (d = -1 /\ v >= e)
  <2>1. ASSUME NEW v \in Word, v # e, Ahead(v)
        PROVE  v + d \in Word /\ Wrap(v + d) = v + d /\ Ahead(v + d)
    <3> HIDE DEF d, e
    <3>1. v + d \in Word /\ Ahead(v + d)
      BY <1>1, <2>1, SomeWord DEF Word, Lo, Hi
    <3> QED
      BY <3>1, WrapWord
  <2>2. \A k \in 0 .. n - 1 : Iterate(s, k) # e
    BY <1>3, <1>5 DEF Exits
  <2> DEFINE T == {k \in 0 .. n - 1 : ~ Ahead(Iterate(s, k))}
  <2>3. ASSUME T # {} PROVE FALSE
    <3>1. PICK k \in T : \A j \in T : k <= j
      <4>1. T \subseteq Nat
        BY <1>1
      <4> HIDE DEF T
      <4> QED
        BY <2>3, <4>1, LeastNumber
    <3>2. k # 0
      BY <1>1, <1>5, Iterations
    <3>3. k - 1 \in 0 .. n - 1 /\ k - 1 \in Nat /\ (k - 1) + 1 = k /\ ~ (k <= k - 1)
      BY <1>1, <3>2
    <3>4. Ahead(Iterate(s, k - 1))
      BY <3>1, <3>3
    <3>5. Ahead(Iterate(s, k))
      <4> HIDE DEF d, e, Ahead
      <4> QED
        BY <1>2, <2>1, <2>2, <3>3, <3>4
    <3> QED
      BY <3>5
  <2> SUFFICES ASSUME NEW k \in 0 .. n - 1 PROVE Iterate(s, k) + d \in Word
    BY DEF n
  <2>4. Ahead(Iterate(s, k)) /\ k \in Nat
    BY <1>1, <2>3
  <2> HIDE DEF Ahead, T, d, e
  <2> QED
    BY <1>2, <2>1, <2>2, <2>4
<1> QED
  BY <1>1, <1>4, <1>5

\* The values on which the tests let the counter go on come no later than the count
\* of the analysis.
LEMMA VisitedBeforeExit ==
    ASSUME NEW C, BTCComputable(C), NEW s \in Starts, NEW k \in 0 .. 2 * Half,
           \A j \in 0 .. k - 1 : ~ Exits(Iterate(s, j))
    PROVE  k \in 0 .. BTC(s)
<1>1. BTC(s) \in 0 .. 2 * Half /\ Exits(Iterate(s, BTC(s)))
  BY FirstExit
<1>2. ~ (BTC(s) \in 0 .. k - 1)
  BY <1>1
<1> QED
  BY <1>1, <1>2, SomeWord

\* No sum of any word can be proved not to overflow.
LEMMA NothingKnown ==
    ASSUME NEW step \in Int, step # 0
    PROVE  ~ RangesProveNoOverflow(Word, step)
<1> SUFFICES ASSUME RangesProveNoOverflow(Word, step) PROVE FALSE
  OBVIOUS
<1>1. Lo \in Word /\ Hi \in Word /\ Lo \in Int /\ Hi \in Int /\ Lo <= Lo /\ Hi <= Hi
  BY SomeWord DEF Word, Lo, Hi
<1>2. Lo + step \in Word /\ Hi + step \in Word
  BY <1>1, ProofIsSound
<1> QED
  BY <1>1, <1>2 DEF Word

\* The starts are where ScalarEvolution and LazyValueInfo think they are.
LEMMA StartsKnown ==
    ASSUME program \in Programs, NEW known
    PROVE  /\ ctr.starts \subseteq Starts /\ Starts \subseteq Word
           /\ ctr.starts \subseteq StartRange(known) /\ StartRange(known) \subseteq Word
<1>1. ctr.starts \subseteq Starts /\ Starts \subseteq Word
  BY CounterFacts DEF Starts
<1>2. ctr.starts \subseteq Cover(ctr.starts) /\ Cover(ctr.starts) \subseteq Word
  BY CounterFacts, CoverHolds, RangesFinite
<1> QED
  BY <1>1, <1>2 DEF StartRange

\* The range of the end has every end.
LEMMA EndKnown ==
    ASSUME program \in Programs, NEW C, BTCComputable(C), NEW s \in Starts
    PROVE  Iterate(s, BTC(s)) \in EndRange /\ EndRange \subseteq Word
<1> DEFINE ends == {Iterate(t, BTC(t)) : t \in Starts}
<1>1. ASSUME NEW t \in Starts PROVE Iterate(t, BTC(t)) \in Word
  <2>1. t \in Word /\ BTC(t) \in Nat
    BY FirstExit, StartsKnown
  <2> QED
    BY <2>1, Iterations
<1>2. ends \subseteq Word /\ Iterate(s, BTC(s)) \in ends
  BY <1>1
<1>3. EndRange = Cover(ends)
  BY DEF EndRange
<1> HIDE DEF ends
<1> QED
  BY <1>2, <1>3, CoverHolds, RangesFinite


\* The range ScalarEvolution gives has every value that the counter can have.
LEMMA RangeKnown ==
    ASSUME program \in Programs, NEW C, BTCComputable(C), NEW known,
           NEW s \in ctr.starts, NEW k \in 0 .. BTC(s)
    PROVE  SignedRange(C, known) \subseteq Word /\ (HasLoop(C) => Iterate(s, k) \in SignedRange(C, known))
<1> DEFINE values == UNION {{Iterate(t, j) : j \in 0 .. BTC(t)} : t \in ctr.starts}
<1>1. ASSUME NEW t \in ctr.starts, NEW j \in 0 .. BTC(t) PROVE Iterate(t, j) \in Word
  <2>1. t \in Starts /\ t \in Word
    BY CounterFacts, StartsKnown
  <2>2. j \in Nat
    BY <2>1, FirstExit
  <2> QED
    BY <2>1, <2>2, Iterations
<1>2. values \subseteq Word /\ Iterate(s, k) \in values
  BY <1>1
<1>3. Iterate(s, k) \in Word
  BY <1>1
<1>4. Cover(values) \subseteq Word /\ values \subseteq Cover(values)
  <2> HIDE DEF values
  <2> QED
    BY <1>2, CoverHolds, RangesFinite
<1>5. SignedRange(C, known) \in {Starts, Cover(values), Word}
  BY DEF SignedRange
<1>6. HasLoop(C) => SignedRange(C, known) \in {Cover(values), Word}
  BY DEF SignedRange
<1> HIDE DEF values
<1> QED
  BY <1>2, <1>3, <1>4, <1>5, <1>6, StartsKnown

\* A check that is found removable has a sum that cannot overflow, whatever the
\* analyses could answer (UBSanCountPass.cpp:279-361).
LEMMA FoundMeansSafe ==
    ASSUME program \in Programs, NEW C, NEW known,
           HasLoop(C) <=> HasLoop(program.blocks), ~ MayStepOver,
           RangesProveNoOverflow(BoundOverflowOperand(C, known), ctr.step),
           NEW i \in Visited
    PROVE  i + ctr.step \in Word
<1> DEFINE d == ctr.step
           start == StartRange(known)
           range == SignedRange(C, known)
<1>1. d \in Int /\ d # 0 /\ Word \subseteq Int
  BY CounterFacts
<1>2. CASE ~ HasLoop(C)
  <2>1. i \in Starts /\ Starts \subseteq Word /\ i \in Word
    BY <1>2, StartsKnown DEF Visited
  <2>2. BoundOverflowOperand(C, known) = Starts
    BY <1>2 DEF BoundOverflowOperand, SignedRange
  <2> QED
    BY <1>1, <2>1, <2>2, OperandIsSafe
<1>3. CASE HasLoop(C) /\ ~ BTCComputable(C)
  <2>1. BoundOverflowOperand(C, known) = Word
    BY <1>3 DEF BoundOverflowOperand, SignedRange
  <2> QED
    BY <1>1, <2>1, NothingKnown
<1>4. CASE HasLoop(C) /\ BTCComputable(C)
  <2>1. PICK s \in ctr.starts, k \in 0 .. 2 * Half :
           i = Iterate(s, k) /\ \A j \in 0 .. k - 1 : ~ Exits(Iterate(s, j))
    BY <1>4 DEF Visited
  <2>2. s \in Starts /\ s \in Word /\ s \in start /\ start \subseteq Word
    BY CounterFacts, StartsKnown
  <2>3. k \in 0 .. BTC(s) /\ BTC(s) \in Nat
    BY <1>4, <2>1, <2>2, VisitedBeforeExit, FirstExit
  <2> DEFINE e == Iterate(s, BTC(s))
  <2>4. i \in range /\ e \in range /\ range \subseteq Word
    <3>1. BTC(s) \in 0 .. BTC(s)
      BY <2>3
    <3> HIDE DEF e, range
    <3>2. i \in range /\ range \subseteq Word
      BY <1>4, <2>1, <2>3, RangeKnown DEF range
    <3>3. e \in range
      BY <1>4, <3>1, RangeKnown DEF range, e
    <3> QED
      BY <3>2, <3>3
  <2>5. i \in Int /\ e \in Int
    BY <1>1, <2>4
  <2>6. CASE BoundOverflowOperand(C, known) = range
    <3> HIDE DEF range
    <3> QED
      BY <1>1, <2>4, <2>6, OperandIsSafe
  <2>7. CASE /\ Monotone(start, EndRange)
             /\ BoundOverflowOperand(C, known) = IntersectWith(range, UnionWith(start, EndRange))
    <3> DEFINE lhs == IntersectWith(range, UnionWith(start, EndRange))
    <3>1. e \in EndRange /\ EndRange \subseteq Word
      BY <1>4, <2>2, EndKnown
    <3>2. e \in lhs /\ lhs \subseteq Word
      <4>1. UnionWith(start, EndRange) \subseteq Word /\ e \in UnionWith(start, EndRange)
        <5>1. start \cup EndRange \subseteq Word /\ e \in start \cup EndRange
          BY <2>2, <3>1
        <5> HIDE DEF e, start
        <5> QED
          BY <5>1, CoverHolds, RangesFinite DEF UnionWith
      <4>2. /\ range \cap UnionWith(start, EndRange) \subseteq Word
            /\ e \in range \cap UnionWith(start, EndRange)
        BY <2>4, <4>1
      <4> HIDE DEF e, start, range
      <4> QED
        BY <4>2, CoverHolds, RangesFinite DEF IntersectWith, lhs
    <3>3. e + d \in Word
      <4> HIDE DEF e, lhs
      <4> QED
        BY <1>1, <2>7, <3>2, OperandIsSafe DEF lhs
    <3>4. IF d < 0 THEN s >= e ELSE s <= e
      <4>1. /\ Least(start) <= s /\ s <= Greatest(start)
            /\ Least(EndRange) <= e /\ e <= Greatest(EndRange)
        <5> HIDE DEF e, start
        <5> QED
          BY <2>2, <3>1, Extremes
      <4>2. /\ Least(start) \in Int /\ Greatest(start) \in Int
            /\ Least(EndRange) \in Int /\ Greatest(EndRange) \in Int /\ s \in Int
        <5> HIDE DEF e, start
        <5> QED
          BY <1>1, <2>2, <3>1, Extremes
      <4> HIDE DEF e, start, d
      <4>3. IF d < 0 THEN Least(start) >= Greatest(EndRange) ELSE Greatest(start) <= Least(EndRange)
        BY <2>7 DEF Monotone, d
      <4> QED
        BY <1>1, <2>5, <4>1, <4>2, <4>3
    <3>5. ctr.exit = "ne" => \/ d = 1 /\ s <= ctr.bound
                             \/ d = -1 /\ s >= ctr.bound
      <4> SUFFICES ASSUME ctr.exit = "ne"
                   PROVE  (d = 1 /\ s <= ctr.bound) \/ (d = -1 /\ s >= ctr.bound)
        OBVIOUS
      <4>1. e = ctr.bound
        BY <1>4, <2>2, <2>5, FirstExit, ExitsMeans
      <4>2. d \in {-1, 1}
        BY <1>4 DEF MayStepOver
      <4> QED
        BY <3>4, <4>1, <4>2
    <3>6. CASE k = BTC(s)
      BY <2>1, <3>3, <3>6
    <3>7. CASE k # BTC(s)
      <4>1. k \in 0 .. BTC(s) - 1
        BY <2>3, <3>7
      <4> QED
        BY <1>4, <2>1, <2>2, <3>5, <4>1, NoWrapBeforeExit
    <3> QED
      BY <3>6, <3>7
  <2> QED
    BY <2>6, <2>7 DEF BoundOverflowOperand
<1> QED
  BY <1>2, <1>3, <1>4

-----------------------------------------------------------------------------
(* The graph.                                                              *)

\* A sequence is one over any set that has its elements.
LEMMA SeqOver ==
    ASSUME NEW S, NEW T, NEW s \in Seq(S), \A i \in DOMAIN s : s[i] \in T
    PROVE  s \in Seq(T)
<1>1. Len(s) \in Nat /\ DOMAIN s = 1 .. Len(s) /\ s = [i \in 1 .. Len(s) |-> s[i]]
  OBVIOUS
<1> QED
  BY <1>1

\* A block of a function, and what it branches to.
LEMMA BlockFacts ==
    ASSUME NEW C, Closed(C), NEW b \in DOMAIN C
    PROVE  /\ C[b] \in Blocks(DOMAIN C)
           /\ C[b].succ \in Seq(DOMAIN C)
           /\ Succs(C, b) \subseteq DOMAIN C
<1>1. C[b] \in Blocks(DOMAIN C)
  BY DEF Closed
<1>2. C[b].succ \in Seq(DOMAIN C)
  BY <1>1 DEF Blocks
<1>3. \A i \in DOMAIN C[b].succ : C[b].succ[i] \in DOMAIN C
  BY <1>2
<1> QED
  BY <1>1, <1>2, <1>3 DEF Succs

\* Straightening keeps a graph a graph; it deletes at most a block of a handler, and
\* takes branches away from one block only (UBSanCountPass.cpp:145-194, 425-485).
LEMMA StraightenKeeps ==
    ASSUME NEW C, Closed(C), NEW b \in DOMAIN C
    PROVE  /\ Closed(Straighten(C, b))
           /\ DOMAIN Straighten(C, b) \subseteq DOMAIN C
           /\ \A x \in DOMAIN C : C[x].site = "none" => x \in DOMAIN Straighten(C, b)
           /\ \A x \in DOMAIN Straighten(C, b) :
                /\ Straighten(C, b)[x].site = C[x].site
                /\ Straighten(C, b)[x].icmps = C[x].icmps
                /\ Succs(Straighten(C, b), x) \subseteq Succs(C, x)
                /\ x # b => Straighten(C, b)[x] = C[x]
<1>1. CASE Len(C[b].succ) # 2 \/ Cardinality(HandlerSuccs(C, b)) # 1
  <2>1. Straighten(C, b) = C
    BY <1>1 DEF Straighten
  <2> QED
    BY <2>1
<1>2. CASE Len(C[b].succ) = 2 /\ Cardinality(HandlerSuccs(C, b)) = 1
  <2> DEFINE i == CHOOSE i \in HandlerSuccs(C, b) : TRUE
             handler == C[b].succ[i]
             other == C[b].succ[3 - i]
             D == [C EXCEPT ![b].succ = <<other>>, ![b].tests = {}]
  <2>1. i \in HandlerSuccs(C, b)
    <3>1. HandlerSuccs(C, b) # {}
      BY <1>2, FS_EmptySet
    <3> QED
      BY <3>1
  <2>2. /\ i \in DOMAIN C[b].succ /\ 3 - i \in DOMAIN C[b].succ
        /\ C[handler].site # "none"
    <3>1. i \in DOMAIN C[b].succ /\ C[handler].site # "none"
      BY <2>1 DEF HandlerSuccs, IsUBSanSite
    <3>2. DOMAIN C[b].succ = 1 .. 2
      BY <1>2, BlockFacts
    <3> HIDE DEF i
    <3>3. 3 - i \in 1 .. 2
      BY <3>1, <3>2
    <3> QED
      BY <3>1, <3>2, <3>3
  <2> HIDE DEF i
  <2>3. handler \in DOMAIN C /\ other \in DOMAIN C /\ other \in Succs(C, b)
    BY <2>2, BlockFacts DEF Succs
  <2> HIDE DEF handler, other
  <2>4. /\ DOMAIN D = DOMAIN C
        /\ D[b] = [C[b] EXCEPT !.succ = <<other>>, !.tests = {}]
        /\ \A x \in DOMAIN C : x # b => D[x] = C[x]
    BY DEF Closed
  <2>5. /\ D[b].succ = <<other>> /\ D[b].site = C[b].site /\ D[b].icmps = C[b].icmps
        /\ D[b] \in Blocks(DOMAIN C)
    <3> DEFINE jump == <<other>>
               r == C[b]
               u == D[b]
    <3>1. jump \in Seq(DOMAIN C) /\ {} \in SUBSET STRING
      BY <2>3
    <3>2. r \in Blocks(DOMAIN C)
      BY BlockFacts
    <3>3. u = [r EXCEPT !.succ = jump, !.tests = {}]
      BY <2>4
    <3> HIDE DEF D, jump, r, u
    <3>4. u.succ = jump /\ u.site = r.site /\ u.icmps = r.icmps /\ u \in Blocks(DOMAIN C)
      BY <3>1, <3>2, <3>3 DEF Blocks
    <3> QED
      BY <3>4 DEF jump, r, u
  <2>6. Closed(D)
    <3>1. D = [x \in DOMAIN C |-> D[x]]
      BY DEF Closed
    <3>2. \A x \in DOMAIN C : D[x] \in Blocks(DOMAIN C)
      BY <2>4, <2>5, BlockFacts
    <3> HIDE DEF D
    <3> QED
      BY <2>4, <3>1, <3>2 DEF Closed
  <2>7. \A x \in DOMAIN C : /\ D[x].site = C[x].site /\ D[x].icmps = C[x].icmps
                            /\ Succs(D, x) \subseteq Succs(C, x)
    <3>1. Succs(D, b) = {other}
      BY <2>5 DEF Succs
    <3>2. \A x \in DOMAIN C : x # b => Succs(D, x) = Succs(C, x)
      BY <2>4 DEF Succs
    <3> HIDE DEF D
    <3> QED
      BY <2>3, <2>4, <2>5, <3>1, <3>2
  <2>8. Straighten(C, b) = IF Preds(D, handler) # {} THEN D
                           ELSE [x \in DOMAIN D \ {handler} |-> D[x]]
    BY <1>2 DEF Straighten, i, handler, other
  <2> HIDE DEF D
  <2>9. CASE Preds(D, handler) # {}
    BY <2>4, <2>6, <2>7, <2>8, <2>9
  <2>10. CASE Preds(D, handler) = {}
    <3> DEFINE E == [x \in DOMAIN D \ {handler} |-> D[x]]
    <3>1. E = Straighten(C, b) /\ DOMAIN E = DOMAIN D \ {handler}
      BY <2>8, <2>10
    <3>2. ASSUME NEW x \in DOMAIN E PROVE E[x] \in Blocks(DOMAIN E)
      <4>1. x \in DOMAIN D /\ E[x] = D[x] /\ D[x] \in Blocks(DOMAIN D) /\ D[x].succ \in Seq(DOMAIN D)
        BY <2>6, BlockFacts
      <4>2. \A j \in DOMAIN D[x].succ : D[x].succ[j] \in DOMAIN D /\ D[x].succ[j] # handler
        BY <2>6, <2>10, <4>1, BlockFacts DEF Preds, Succs
      <4>3. D[x].succ \in Seq(DOMAIN E)
        BY <3>1, <4>1, <4>2, SeqOver
      <4> HIDE DEF E
      <4> QED
        BY <4>1, <4>3 DEF Blocks
    <3>3. Closed(E)
      <4>1. E = [x \in DOMAIN E |-> E[x]]
        OBVIOUS
      <4> HIDE DEF E
      <4> QED
        BY <3>2, <4>1 DEF Closed
    <3>4. \A x \in DOMAIN E : E[x] = D[x] /\ Succs(E, x) = Succs(D, x)
      BY DEF Succs
    <3> HIDE DEF E
    <3> QED
      BY <2>2, <2>4, <2>7, <3>1, <3>3, <3>4
  <2> QED
    BY <2>9, <2>10
<1> QED
  BY <1>1, <1>2

-----------------------------------------------------------------------------
(* The count.                                                              *)

\* UBSanCountResult's total over the kinds counts every call of a handler once
\* (UBSanCountPass.cpp:490-507, UBSanCountPass.h:12-23).
THEOREM CountsEverySite ==
    ASSUME NEW C, IsFiniteSet(DOMAIN C)
    PROVE  Count(C) = Cardinality(Sites(C)) /\ Count(C) \in Nat
<1> DEFINE kind == [b \in Sites(C) |-> C[b].site]
           kinds == {C[b].site : b \in Sites(C)}
           Of(K) == {b \in Sites(C) : C[b].site \in K}
           counts == [k \in kinds |-> Cardinality({b \in Sites(C) : C[b].site = k})]
           Sum(f) == f = [K \in SUBSET kinds |->
               IF K = {} THEN 0
               ELSE counts[CHOOSE k \in K : TRUE] + f[K \ {CHOOSE k \in K : TRUE}]]
           f == [K \in SUBSET kinds |-> Cardinality(Of(K))]
<1>1. IsFiniteSet(Sites(C))
  BY FS_Subset DEF Sites
<1>2. IsFiniteSet(kinds)
  <2>1. kind \in Surjection(Sites(C), kinds)
    BY DEF Surjection
  <2> HIDE DEF kind, kinds
  <2> QED
    BY <1>1, <2>1, FS_Surjection
<1>3. \A K : IsFiniteSet(Of(K)) /\ Cardinality(Of(K)) \in Nat
  BY <1>1, FS_Subset, FS_CardinalityType
<1>4. ASSUME NEW K \in SUBSET kinds, NEW k \in K
      PROVE  Cardinality(Of(K)) = counts[k] + Cardinality(Of(K \ {k}))
  <2>1. counts[k] = Cardinality(Of({k}))
    <3>1. Of({k}) = {b \in Sites(C) : C[b].site = k}
      OBVIOUS
    <3> HIDE DEF Of
    <3> QED
      BY <1>4, <3>1
  <2>2. Of(K) = Of({k}) \cup Of(K \ {k}) /\ Of({k}) \cap Of(K \ {k}) = {}
    OBVIOUS
  <2>3. /\ IsFiniteSet(Of({k})) /\ IsFiniteSet(Of(K \ {k}))
        /\ Cardinality(Of({k})) \in Nat /\ Cardinality(Of(K \ {k})) \in Nat
    BY <1>3
  <2> HIDE DEF Of, counts
  <2>4. Cardinality(Of({k}) \cup Of(K \ {k})) =
           Cardinality(Of({k})) + Cardinality(Of(K \ {k})) - Cardinality({})
    BY <2>2, <2>3, FS_Union
  <2>5. Cardinality(Of(K)) = Cardinality(Of({k}) \cup Of(K \ {k}))
    BY <2>2, Zenon
  <2>6. Cardinality({}) = 0
    BY FS_EmptySet
  <2> DEFINE a == Cardinality(Of({k}))
             b == Cardinality(Of(K \ {k}))
  <2>7. a \in Nat /\ b \in Nat /\ Cardinality(Of(K)) = a + b - 0
    BY <2>3, <2>4, <2>5, <2>6
  <2>8. Cardinality(Of(K)) = a + b
    <3> HIDE DEF a, b
    <3> QED
      BY <2>7
  <2> QED
    BY <2>1, <2>8
<1>5. Cardinality(Of({})) = 0
  <2>1. Of({}) = {}
    OBVIOUS
  <2> QED
    BY <2>1, FS_EmptySet
<1>6. Sum(f)
  <2> HIDE DEF Of, counts, kinds
  <2>1. ASSUME NEW K \in SUBSET kinds, K # {}
        PROVE  f[K] = counts[CHOOSE k \in K : TRUE] + f[K \ {CHOOSE k \in K : TRUE}]
    <3> DEFINE k == CHOOSE k \in K : TRUE
    <3>1. k \in K
      BY <2>1
    <3> HIDE DEF k
    <3>2. K \ {k} \in SUBSET kinds
      OBVIOUS
    <3> QED
      BY <1>4, <3>1, <3>2 DEF k
  <2> QED
    BY <1>5, <2>1
<1>7. Count(C) = (CHOOSE g : Sum(g))[kinds]
  BY Zenon DEF Count
<1> DEFINE g == CHOOSE g : Sum(g)
<1>8. Sum(g)
  <2> HIDE DEF Sum
  <2> QED
    BY <1>6
<1> HIDE DEF g, f, Of, counts
<1>9. ASSUME NEW K \in SUBSET kinds, g[K] # Cardinality(Of(K)) PROVE FALSE
  <2> DEFINE Bad == {J \in SUBSET kinds : g[J] # Cardinality(Of(J))}
             sizes == {Cardinality(J) : J \in Bad}
  <2> HIDE DEF kinds
  <2>1. \A J \in SUBSET kinds : IsFiniteSet(J) /\ Cardinality(J) \in Nat
    BY <1>2, FS_Subset, FS_CardinalityType
  <2>2. sizes \subseteq Nat /\ sizes # {}
    BY <1>9, <2>1
  <2>3. PICK c \in sizes : \A d \in sizes : c <= d
    <3> HIDE DEF sizes
    <3> QED
      BY <2>2, LeastNumber
  <2>4. PICK J \in Bad : Cardinality(J) = c
    OBVIOUS
  <2>5. \A I \in Bad : Cardinality(J) <= Cardinality(I)
    BY <2>3, <2>4
  <2>6. J # {}
    BY <1>5, <1>8
  <2> DEFINE k == CHOOSE k \in J : TRUE
  <2>7. k \in J
    BY <2>6
  <2>8. g[J] = counts[k] + g[J \ {k}]
    BY <1>8, <2>6
  <2> HIDE DEF k
  <2>9. J \ {k} \in SUBSET kinds /\ J \in SUBSET kinds
    OBVIOUS
  <2>10. J \ {k} \notin Bad
    <3>1. Cardinality(J \ {k}) = Cardinality(J) - 1 /\ Cardinality(J) \in Nat
      BY <2>1, <2>7, <2>9, FS_RemoveElement
    <3>2. ~ (Cardinality(J) <= Cardinality(J \ {k}))
      BY <3>1
    <3> HIDE DEF Bad
    <3> QED
      BY <2>5, <3>2
  <2>11. g[J \ {k}] = Cardinality(Of(J \ {k}))
    BY <2>9, <2>10
  <2>12. Cardinality(Of(J)) = counts[k] + Cardinality(Of(J \ {k}))
    BY <1>4, <2>7, <2>9
  <2> QED
    BY <2>8, <2>11, <2>12
<1>10. Of(kinds) = Sites(C)
  BY DEF Of
<1>11. Cardinality(Sites(C)) \in Nat
  BY <1>1, FS_CardinalityType
<1>12. g[kinds] = Cardinality(Of(kinds))
  <2> HIDE DEF kinds
  <2> QED
    BY <1>9
<1> QED
  BY <1>7, <1>10, <1>11, <1>12 DEF g

-----------------------------------------------------------------------------
(* The invariant.                                                          *)

\* What is assumed of a function.
LEMMA FunctionFacts ==
    ASSUME program \in Programs
    PROVE  /\ Closed(program.blocks) /\ IsFiniteSet(DOMAIN program.blocks)
           /\ "entry" \in Plain
           /\ \A b \in DOMAIN program.blocks : program.blocks[b].wo => b \in Plain
           /\ \A b \in DOMAIN program.blocks : program.blocks[b].icmps # {} => b \in Plain
           /\ HasLoop(program.blocks) => "header" \in Plain
           /\ ~ HasLoop(program.blocks) => "latch" \notin DOMAIN program.blocks
           /\ HasLoop(program.blocks) =>
                 program.blocks["latch"].succ = <<"header">> /\ AfterTest(program.blocks, Past)
<1> DEFINE B == program.blocks
<1>1. WellFormed(B)
  BY UBSanAssumption
<1>2. HasLoop(B) => \E P \in SUBSET DOMAIN B : AfterTest(B, P)
  BY <1>1 DEF WellFormed
<1>3. HasLoop(B) => AfterTest(B, Past)
  <2> SUFFICES ASSUME HasLoop(B) PROVE AfterTest(B, Past)
    OBVIOUS
  <2>1. PICK P \in SUBSET DOMAIN B : AfterTest(B, P)
    BY <1>2
  <2> QED
    BY <2>1, Zenon DEF Past
<1> QED
  BY <1>1, <1>3 DEF WellFormed, Plain, HasLoop

\* What is said of the program alone stays so.
LEMMA SameProgram ==
    ASSUME program' = program
    PROVE  ctr' = ctr /\ Visited' = Visited /\ Past' = Past /\ Plain' = Plain /\ Tests' = Tests
           /\ MayStepOver' = MayStepOver
<1>1. ctr' = ctr
  BY DEF ctr
<1>2. Visited' = Visited
  BY <1>1 DEF Visited, Iterate, Exits
<1>3. Past' = Past
  BY DEF Past
<1>4. Plain' = Plain
  BY DEF Plain
<1>5. Tests' = Tests
  BY DEF Tests
<1>6. MayStepOver' = MayStepOver
  BY <1>1 DEF MayStepOver
<1> QED
  BY <1>1, <1>2, <1>3, <1>4, <1>5, <1>6

\* The function as the front end made it (UBSanCountPass.cpp:563-581).
LEMMA InitInductive == Init => Inductive
<1> SUFFICES ASSUME Init PROVE Inductive
  OBVIOUS
<1> DEFINE B == program.blocks
<1>1. program \in Programs /\ F = B /\ Clone = <<>> /\ todo = {} /\ Removable = {}
  BY DEF Init, NoFunction
<1>2. /\ Closed(B) /\ "entry" \in Plain /\ Plain \subseteq DOMAIN B
  BY <1>1, FunctionFacts DEF Plain
<1>3. Closed(Clone) /\ DOMAIN Clone = {}
  BY <1>1 DEF Closed
<1>4. \A b \in DOMAIN B : Succs(B, b) \subseteq DOMAIN B
  BY <1>2, BlockFacts
<1>5. TypeOK
  <2>1. 0 \in Word
    BY SomeWord DEF Word, Lo, Hi
  <2>2. \A C \in {F, Clone} : \A b \in DOMAIN C : b \in DOMAIN B /\ Succs(C, b) \subseteq DOMAIN C
    BY <1>1, <1>3, <1>4
  <2>3. "entry" \in DOMAIN B
    BY <1>2
  <2> QED
    BY <1>1, <2>1, <2>2, <2>3 DEF Init, TypeOK
<1>6. GraphsOK
  BY <1>1, <1>2, <1>3 DEF Init, GraphsOK
<1>7. BranchesOK
  BY <1>1 DEF BranchesOK, SameBranch
<1>8. RemovableOK
  BY <1>1 DEF RemovableOK
<1>9. RunOK
  BY <1>1, <1>2 DEF Init, RunOK
<1> QED
  BY <1>5, <1>6, <1>7, <1>8, <1>9 DEF Inductive

\* The part of the type that says a function is a graph.
LEMMA GraphTyped ==
    ASSUME NEW C, Closed(C), NEW P, DOMAIN C \subseteq P
    PROVE  \A b \in DOMAIN C : b \in P /\ Succs(C, b) \subseteq DOMAIN C
BY BlockFacts

\* The function has finitely many blocks, so they can be counted.
LEMMA CountIsNumber ==
    ASSUME Inductive
    PROVE  Count(F) \in Nat /\ GetResult \in Nat \cup {NotCounted}
<1>1. IsFiniteSet(DOMAIN F)
  <2>1. /\ DOMAIN F \in SUBSET DOMAIN program.blocks
        /\ IsFiniteSet(DOMAIN program.blocks)
    BY FunctionFacts DEF Inductive, TypeOK, GraphsOK
  <2> QED
    BY <2>1, FS_Subset
<1>2. Count(F) \in Nat
  BY <1>1, CountsEverySite
<1>3. counted \in Nat \cup {NotCounted}
  BY DEF Inductive, TypeOK
<1> HIDE DEF Count
<1> QED
  BY <1>2, <1>3 DEF GetResult

\* A step that touches neither the function nor its run.
LEMMA SameFunction ==
    ASSUME Inductive, UNCHANGED <<pc, passVars, runVars>>,
           early' \in BOOLEAN, counted' \in Nat \cup {NotCounted}, printed' \in Nat \cup {NotCounted}
    PROVE  Inductive'
<1>1. /\ program' = program /\ F' = F /\ Clone' = Clone /\ todo' = todo /\ Removable' = Removable
      /\ pc' = pc /\ at' = at /\ counter' = counter /\ faults' = faults
  BY DEF passVars, runVars
<1>2. /\ ctr' = ctr /\ Visited' = Visited /\ Past' = Past /\ Plain' = Plain /\ Tests' = Tests
      /\ MayStepOver' = MayStepOver
  BY <1>1, SameProgram
<1>3. TypeOK'
  BY <1>1, <1>2 DEF Inductive, TypeOK
<1>4. GraphsOK'
  BY <1>1, <1>2 DEF Inductive, GraphsOK
<1>5. BranchesOK'
  BY <1>1 DEF Inductive, BranchesOK, SameBranch, Lost
<1>6. RemovableOK'
  BY <1>1, <1>2 DEF Inductive, RemovableOK, Overflows
<1>7. RunOK'
  BY <1>1, <1>2 DEF Inductive, RunOK, Exits
<1> QED
  BY <1>3, <1>4, <1>5, <1>6, <1>7 DEF Inductive

\* Printing changes nothing but the cached count (UBSanCountPass.cpp:509-523).
LEMMA PrintEarlyKeeps ==
    ASSUME Inductive, PrintEarly
    PROVE  Inductive'
<1>1. /\ UNCHANGED <<pc, passVars, runVars>> /\ early' = TRUE
      /\ counted' = GetResult /\ printed' = printed
  BY DEF PrintEarly
<1>2. printed \in Nat \cup {NotCounted}
  BY DEF Inductive, TypeOK
<1> HIDE DEF Inductive, GetResult
<1> QED
  BY <1>1, <1>2, CountIsNumber, SameFunction

\* Only blocks with an overflow intrinsic are to be looked at, and none of them is a
\* handler's (UBSanCountPass.cpp:264-275).
LEMMA CollectKeeps ==
    ASSUME Inductive, Collect
    PROVE  Inductive'
<1> DEFINE B == program.blocks
<1>1. /\ pc = "begin" /\ pc' \in {"clone", "optimised"}
      /\ program' = program /\ F' = F /\ Removable' = Removable
      /\ counted' = counted /\ early' = early /\ printed' = printed
      /\ at' = at /\ counter' = counter /\ faults' = faults
      /\ Clone' \in {F, <<>>} /\ (pc' = "clone" => Clone' = F)
      /\ todo' = {b \in DOMAIN F : F[b].wo} /\ (pc' = "optimised" => todo' = {})
  BY DEF Collect, NoFunction, countVars, runVars
<1>2. /\ F = B /\ Removable = {} /\ program \in Programs /\ at = "entry"
  BY <1>1 DEF Inductive, GraphsOK, RemovableOK, TypeOK, RunOK
<1>3. /\ Visited' = Visited /\ Past' = Past /\ Plain' = Plain /\ Tests' = Tests
      /\ MayStepOver' = MayStepOver /\ program.blocks' = B
  BY <1>1, SameProgram
<1>4. Closed(B) /\ "entry" \in Plain /\ Plain \subseteq DOMAIN B /\ todo' \subseteq Plain
  BY <1>1, <1>2, FunctionFacts DEF Plain
<1>5. Closed(Clone') /\ DOMAIN Clone' \subseteq DOMAIN B /\ \A b \in DOMAIN Clone' : Clone'[b] = B[b]
  <2>1. CASE Clone' = F
    BY <1>2, <1>4, <2>1
  <2>2. CASE Clone' = <<>>
    BY <2>2 DEF Closed
  <2> QED
    BY <1>1, <2>1, <2>2
<1>6. TypeOK'
  <2>1. \A C \in {F', Clone'} : \A b \in DOMAIN C : b \in DOMAIN B /\ Succs(C, b) \subseteq DOMAIN C
    BY <1>1, <1>2, <1>4, <1>5, GraphTyped
  <2>2. todo' \subseteq DOMAIN B
    BY <1>4
  <2> QED
    BY <1>1, <1>3, <2>1, <2>2 DEF Inductive, TypeOK
<1>7. GraphsOK'
  BY <1>1, <1>2, <1>3, <1>4, <1>5 DEF GraphsOK
<1>8. BranchesOK'
  BY <1>1, <1>2 DEF Inductive, BranchesOK, SameBranch, Lost
<1>9. RemovableOK'
  BY <1>1, <1>2 DEF RemovableOK
<1>10. RunOK'
  BY <1>1, <1>2, <1>4 DEF RunOK
<1> QED
  BY <1>6, <1>7, <1>8, <1>9, <1>10 DEF Inductive

\* The clone stays a graph that has the blocks still to be looked at; the function is not
\* touched (UBSanCountPass.cpp:145-194).
LEMMA StraightenCloneKeeps ==
    ASSUME Inductive, NEW b \in todo, StraightenClone(b)
    PROVE  Inductive'
<1> DEFINE B == program.blocks
           D == Straighten(Clone, b)
<1>1. /\ pc = "clone" /\ pc' = pc /\ Clone' = D /\ todo' = todo \ {b}
      /\ program' = program /\ F' = F /\ Removable' = Removable
      /\ counted' = counted /\ early' = early /\ printed' = printed
      /\ at' = at /\ counter' = counter /\ faults' = faults
  BY DEF StraightenClone, countVars, runVars
<1>2. /\ Visited' = Visited /\ Past' = Past /\ Plain' = Plain /\ Tests' = Tests
      /\ MayStepOver' = MayStepOver /\ program.blocks' = B
  BY <1>1, SameProgram
<1>3. /\ Closed(Clone) /\ Closed(F) /\ DOMAIN Clone \subseteq DOMAIN B /\ DOMAIN F \subseteq DOMAIN B
      /\ Plain \subseteq DOMAIN Clone /\ todo \subseteq Plain /\ b \in DOMAIN Clone
      /\ \A x \in DOMAIN Clone : Clone[x].site = B[x].site
  BY <1>1 DEF Inductive, GraphsOK
<1>4. /\ Closed(D) /\ DOMAIN D \subseteq DOMAIN Clone
      /\ \A x \in DOMAIN Clone : Clone[x].site = "none" => x \in DOMAIN D
      /\ \A x \in DOMAIN D : D[x].site = Clone[x].site
  BY <1>3, StraightenKeeps
<1>5. Plain \subseteq DOMAIN D /\ \A x \in DOMAIN D : D[x].site = B[x].site
  BY <1>3, <1>4 DEF Plain
<1> HIDE DEF D
<1>6. TypeOK'
  <2>1. \A C \in {F', Clone'} : \A x \in DOMAIN C : x \in DOMAIN B /\ Succs(C, x) \subseteq DOMAIN C
    BY <1>1, <1>3, <1>4, GraphTyped
  <2> QED
    BY <1>1, <1>2, <2>1 DEF Inductive, TypeOK
<1>7. GraphsOK'
  BY <1>1, <1>2, <1>3, <1>4, <1>5 DEF Inductive, GraphsOK
<1>8. BranchesOK'
  BY <1>1 DEF Inductive, BranchesOK, SameBranch, Lost
<1>9. RemovableOK'
  BY <1>1, <1>2 DEF Inductive, RemovableOK, Overflows
<1>10. RunOK'
  BY <1>1, <1>2 DEF Inductive, RunOK
<1> QED
  BY <1>6, <1>7, <1>8, <1>9, <1>10 DEF Inductive

\* A check that is found removable cannot overflow, by FoundMeansSafe
\* (UBSanCountPass.cpp:330-361).
LEMMA DecideKeeps ==
    ASSUME Inductive, Decide
    PROVE  Inductive'
<1> DEFINE B == program.blocks
<1>1. /\ pc = "clone" /\ pc' = "decided" /\ todo = {} /\ Clone' = <<>>
      /\ program' = program /\ F' = F /\ todo' = todo
      /\ counted' = counted /\ early' = early /\ printed' = printed
      /\ at' = at /\ counter' = counter /\ faults' = faults
  BY DEF Decide, NoFunction, countVars, runVars
<1>2. PICK known : Removable' = {b \in DOMAIN Clone :
        Clone[b].wo /\ RangesProveNoOverflow(BoundOverflowOperand(Clone, known), ctr.step)}
  BY DEF Decide
<1>3. /\ Visited' = Visited /\ Past' = Past /\ Plain' = Plain /\ Tests' = Tests
      /\ MayStepOver' = MayStepOver /\ program.blocks' = B /\ ctr' = ctr
  BY <1>1, SameProgram
<1>4. /\ program \in Programs /\ Closed(F) /\ F = B /\ DOMAIN Clone \subseteq DOMAIN B
      /\ Plain \subseteq DOMAIN Clone /\ Removable = {}
  BY <1>1 DEF Inductive, TypeOK, GraphsOK, RemovableOK
<1>5. HasLoop(Clone) <=> HasLoop(B)
  BY <1>4, FunctionFacts DEF HasLoop
<1>6. Closed(Clone') /\ DOMAIN Clone' = {}
  BY <1>1 DEF Closed
<1>7. Removable' \subseteq DOMAIN B
  BY <1>2, <1>4
<1>8. TypeOK'
  <2>1. \A C \in {F', Clone'} : \A x \in DOMAIN C : x \in DOMAIN B /\ Succs(C, x) \subseteq DOMAIN C
    BY <1>1, <1>4, <1>6, GraphTyped
  <2> QED
    BY <1>1, <1>3, <1>7, <2>1 DEF Inductive, TypeOK
<1>9. GraphsOK'
  BY <1>1, <1>3, <1>4, <1>6 DEF Inductive, GraphsOK
<1>10. BranchesOK'
  BY <1>1, <1>4 DEF Inductive, BranchesOK, SameBranch, Lost
<1>11. RemovableOK'
  <2>1. ASSUME Removable' # {}, ~ MayStepOver, NEW i \in Visited PROVE ~ Overflows(i)
    <3>1. RangesProveNoOverflow(BoundOverflowOperand(Clone, known), ctr.step)
      BY <1>2, <2>1
    <3>2. i + ctr.step \in Word
      BY <1>4, <1>5, <2>1, <3>1, FoundMeansSafe
    <3> QED
      BY <3>2 DEF Overflows
  <2> QED
    BY <1>1, <1>3, <1>7, <2>1 DEF RemovableOK, Overflows
<1>12. RunOK'
  BY <1>1, <1>3 DEF Inductive, RunOK
<1> QED
  BY <1>8, <1>9, <1>10, <1>11, <1>12 DEF Inductive

\* Part of a graph that its branches do not leave is a graph.
LEMMA Subgraph ==
    ASSUME NEW C, NEW D, D = [x \in DOMAIN D |-> D[x]], DOMAIN D \subseteq DOMAIN C,
           \A x \in DOMAIN D : D[x] \in Blocks(DOMAIN C) /\ Succs(D, x) \subseteq DOMAIN D
    PROVE  Closed(D)
<1> SUFFICES ASSUME NEW x \in DOMAIN D PROVE D[x] \in Blocks(DOMAIN D)
  BY DEF Closed
<1>1. D[x] \in Blocks(DOMAIN C) /\ D[x].succ \in Seq(DOMAIN C)
  BY DEF Blocks
<1>2. \A i \in DOMAIN D[x].succ : D[x].succ[i] \in DOMAIN D
  BY DEF Succs
<1>3. D[x].succ \in Seq(DOMAIN D)
  BY <1>1, <1>2, SeqOver
<1> QED
  BY <1>1, <1>3 DEF Blocks

\* Branches lose conditions of removable checks only (UBSanCountPass.cpp:366-399).
LEMMA OptimizeKeeps ==
    ASSUME Inductive, Optimize
    PROVE  Inductive'
<1> DEFINE B == program.blocks
<1>1. /\ pc = "decided" /\ pc' = "optimised" /\ Clone' = Clone
      /\ program' = program /\ Removable' = Removable /\ todo' = todo
      /\ counted' = counted /\ early' = early /\ printed' = printed
      /\ at' = at /\ counter' = counter /\ faults' = faults
      /\ F' = [b \in DOMAIN F |->
                IF b \in Removable THEN [F[b] EXCEPT !.tests = @ \ {"overflow"}] ELSE F[b]]
  BY DEF Optimize, countVars, runVars
<1>2. /\ Visited' = Visited /\ Past' = Past /\ Plain' = Plain /\ Tests' = Tests
      /\ MayStepOver' = MayStepOver /\ program.blocks' = B /\ ctr' = ctr
  BY <1>1, SameProgram
<1>3. /\ Closed(Clone) /\ Closed(F) /\ F = B /\ DOMAIN Clone \subseteq DOMAIN B
  BY <1>1 DEF Inductive, GraphsOK
<1>4. ASSUME NEW x \in DOMAIN F'
      PROVE  /\ x \in DOMAIN F /\ F'[x] \in Blocks(DOMAIN F)
             /\ F'[x].succ = B[x].succ /\ F'[x].icmps = B[x].icmps /\ F'[x].site = B[x].site
             /\ F'[x].tests \subseteq B[x].tests /\ B[x].tests \ Lost(x) \subseteq F'[x].tests
  <2> DEFINE r == F[x]
             u == F'[x]
  <2>1. x \in DOMAIN F /\ u = IF x \in Removable THEN [r EXCEPT !.tests = @ \ {"overflow"}] ELSE r
    BY <1>1
  <2>2. r \in Blocks(DOMAIN F)
    BY <1>3, <2>1, BlockFacts
  <2>3. x \in Removable => "overflow" \in Lost(x)
    BY DEF Lost
  <2>4. r = B[x]
    BY <1>3
  <2> HIDE DEF r, u
  <2>5. /\ u \in Blocks(DOMAIN F) /\ u.succ = r.succ /\ u.icmps = r.icmps /\ u.site = r.site
        /\ u.tests = IF x \in Removable THEN r.tests \ {"overflow"} ELSE r.tests
    BY <2>1, <2>2 DEF Blocks
  <2> QED
    BY <2>1, <2>3, <2>4, <2>5 DEF u
<1>5. DOMAIN F' = DOMAIN F /\ F' = [x \in DOMAIN F' |-> F'[x]]
  BY <1>1
<1>6. Closed(F')
  <2>1. \A x \in DOMAIN F' : Succs(F', x) \subseteq DOMAIN F'
    BY <1>3, <1>4, <1>5, BlockFacts DEF Succs
  <2> QED
    BY <1>4, <1>5, <2>1, Subgraph
<1>7. TypeOK'
  <2>1. \A C \in {F', Clone'} : \A x \in DOMAIN C : x \in DOMAIN B /\ Succs(C, x) \subseteq DOMAIN C
    BY <1>1, <1>3, <1>5, <1>6, GraphTyped
  <2> QED
    BY <1>1, <1>2, <2>1 DEF Inductive, TypeOK
<1>8. GraphsOK'
  BY <1>1, <1>2, <1>3, <1>5, <1>6 DEF Inductive, GraphsOK, Plain
<1>9. BranchesOK'
  <2> SUFFICES ASSUME NEW x \in DOMAIN F'
               PROVE  /\ F'[x].icmps = B[x].icmps /\ F'[x].site = B[x].site
                      /\ Succs(F', x) \subseteq Succs(B, x)
                      /\ SameBranch(x)'
    BY <1>1 DEF BranchesOK
  <2>1. Succs(F', x) = Succs(B, x)
    BY <1>4 DEF Succs
  <2>2. Lost(x)' = Lost(x)
    BY <1>1 DEF Lost
  <2> QED
    BY <1>1, <1>4, <2>1, <2>2 DEF SameBranch
<1>10. RemovableOK'
  BY <1>1, <1>2 DEF Inductive, RemovableOK, Overflows
<1>11. RunOK'
  BY <1>1, <1>2, <1>5 DEF Inductive, RunOK
<1> QED
  BY <1>7, <1>8, <1>9, <1>10, <1>11 DEF Inductive

\* Only blocks that compare the result pointer with null are to be looked at
\* (UBSanCountPass.cpp:405-424).
LEMMA CollectNullChecksKeeps ==
    ASSUME Inductive, CollectNullChecks
    PROVE  Inductive'
<1> DEFINE B == program.blocks
<1>1. /\ pc = "optimised" /\ pc' = "sret" /\ Clone' = Clone
      /\ program' = program /\ Removable' = Removable /\ F' = F
      /\ counted' = counted /\ early' = early /\ printed' = printed
      /\ at' = at /\ counter' = counter /\ faults' = faults
      /\ todo' = {b \in DOMAIN F : "null" \in F[b].icmps}
  BY DEF CollectNullChecks, ComparesSretToNull, countVars, runVars
<1>2. /\ Visited' = Visited /\ Past' = Past /\ Plain' = Plain /\ Tests' = Tests
      /\ MayStepOver' = MayStepOver /\ program.blocks' = B /\ ctr' = ctr
  BY <1>1, SameProgram
<1>3. /\ DOMAIN F \subseteq DOMAIN B /\ program \in Programs
      /\ \A b \in DOMAIN F : F[b].icmps = B[b].icmps
  BY DEF Inductive, GraphsOK, BranchesOK, TypeOK
<1>4. todo' \subseteq Plain /\ \A b \in todo' : "null" \in B[b].icmps
  BY <1>1, <1>3, FunctionFacts
<1>5. TypeOK'
  <2>1. todo' \subseteq DOMAIN B
    BY <1>1, <1>3
  <2> QED
    BY <1>1, <1>2, <2>1 DEF Inductive, TypeOK
<1>6. GraphsOK'
  BY <1>1, <1>2, <1>4 DEF Inductive, GraphsOK
<1>7. BranchesOK'
  BY <1>1 DEF Inductive, BranchesOK, SameBranch, Lost
<1>8. RemovableOK'
  BY <1>1, <1>2 DEF Inductive, RemovableOK, Overflows
<1>9. RunOK'
  BY <1>1, <1>2 DEF Inductive, RunOK
<1> QED
  BY <1>5, <1>6, <1>7, <1>8, <1>9 DEF Inductive

\* Only blocks that compare the result pointer with null branch otherwise; others lose the
\* comparison, which never holds, from what they test
\* (UBSanCountPass.cpp:425-485).
LEMMA OptimizeNullCheckKeeps ==
    ASSUME Inductive, NEW b \in todo, OptimizeNullCheck(b)
    PROVE  Inductive'
<1> DEFINE B == program.blocks
           D == Straighten(F, b)
<1>1. /\ pc = "sret" /\ pc' = pc /\ Clone' = Clone /\ todo' = todo \ {b}
      /\ program' = program /\ Removable' = Removable
      /\ counted' = counted /\ early' = early /\ printed' = printed
      /\ at' = at /\ counter' = counter /\ faults' = faults
      /\ F' = [x \in DOMAIN D |-> [D[x] EXCEPT !.tests = @ \ {"null"}]]
  BY DEF OptimizeNullCheck, countVars, runVars
<1>2. /\ Visited' = Visited /\ Past' = Past /\ Plain' = Plain /\ Tests' = Tests
      /\ MayStepOver' = MayStepOver /\ program.blocks' = B /\ ctr' = ctr
  BY <1>1, SameProgram
<1>3. /\ Closed(Clone) /\ Closed(F) /\ DOMAIN Clone \subseteq DOMAIN B /\ DOMAIN F \subseteq DOMAIN B
      /\ Plain \subseteq DOMAIN F /\ b \in DOMAIN F /\ "null" \in B[b].icmps /\ at = "entry"
      /\ program \in Programs
  BY <1>1 DEF Inductive, GraphsOK, RunOK, TypeOK
<1>4. \A x \in DOMAIN F : /\ F[x].icmps = B[x].icmps /\ F[x].site = B[x].site
                          /\ Succs(F, x) \subseteq Succs(B, x)
                          /\ "null" \notin B[x].icmps => SameBranch(x)
  BY DEF Inductive, BranchesOK
<1>5. /\ Closed(D) /\ DOMAIN D \subseteq DOMAIN F
      /\ \A x \in DOMAIN F : F[x].site = "none" => x \in DOMAIN D
      /\ \A x \in DOMAIN D : /\ D[x].site = F[x].site /\ D[x].icmps = F[x].icmps
                             /\ Succs(D, x) \subseteq Succs(F, x)
                             /\ x # b => D[x] = F[x]
  BY <1>3, StraightenKeeps
<1>6. Plain \subseteq DOMAIN D /\ "entry" \in DOMAIN D
  BY <1>3, <1>4, <1>5, FunctionFacts DEF Plain
<1> HIDE DEF D
<1>7. ASSUME NEW x \in DOMAIN F'
      PROVE  /\ x \in DOMAIN D /\ F'[x] \in Blocks(DOMAIN D)
             /\ F'[x].succ = D[x].succ /\ F'[x].icmps = D[x].icmps /\ F'[x].site = D[x].site
             /\ F'[x].tests = D[x].tests \ {"null"}
  <2> DEFINE r == D[x]
             u == F'[x]
  <2>1. x \in DOMAIN D /\ u = [r EXCEPT !.tests = @ \ {"null"}]
    BY <1>1
  <2>2. r \in Blocks(DOMAIN D)
    BY <1>5, <2>1, BlockFacts
  <2> HIDE DEF r, u
  <2>3. /\ u \in Blocks(DOMAIN D) /\ u.succ = r.succ /\ u.icmps = r.icmps /\ u.site = r.site
        /\ u.tests = r.tests \ {"null"}
    BY <2>1, <2>2 DEF Blocks
  <2> QED
    BY <2>1, <2>3 DEF u, r
<1>8. DOMAIN F' = DOMAIN D /\ F' = [x \in DOMAIN F' |-> F'[x]]
  BY <1>1
<1>9. \A x \in DOMAIN F' : Succs(F', x) = Succs(D, x)
  BY <1>7 DEF Succs
<1>10. Closed(F')
  <2>1. \A x \in DOMAIN F' : Succs(F', x) \subseteq DOMAIN F'
    BY <1>5, <1>8, <1>9, BlockFacts
  <2> QED
    BY <1>7, <1>8, <2>1, Subgraph
<1>11. TypeOK'
  <2>1. DOMAIN F' \subseteq DOMAIN B
    BY <1>3, <1>5, <1>8
  <2>2. \A C \in {F', Clone'} : \A x \in DOMAIN C : x \in DOMAIN B /\ Succs(C, x) \subseteq DOMAIN C
    BY <1>1, <1>3, <1>10, <2>1, GraphTyped
  <2> QED
    BY <1>1, <1>2, <2>2 DEF Inductive, TypeOK
<1>12. GraphsOK'
  BY <1>1, <1>2, <1>3, <1>5, <1>6, <1>8, <1>10 DEF Inductive, GraphsOK
<1>13. BranchesOK'
  <2> SUFFICES ASSUME NEW x \in DOMAIN F'
               PROVE  /\ F'[x].icmps = B[x].icmps /\ F'[x].site = B[x].site
                      /\ Succs(F', x) \subseteq Succs(B, x)
                      /\ "null" \notin B[x].icmps => SameBranch(x)'
    BY <1>1 DEF BranchesOK
  <2>1. x \in DOMAIN F /\ x \in DOMAIN D
    BY <1>5, <1>8
  <2>2. /\ F'[x].icmps = B[x].icmps /\ F'[x].site = B[x].site
        /\ Succs(F', x) \subseteq Succs(B, x)
    BY <1>4, <1>5, <1>7, <1>9, <2>1
  <2>3. ASSUME "null" \notin B[x].icmps PROVE SameBranch(x)'
    <3>1. SameBranch(x) /\ D[x] = F[x]
      BY <1>3, <1>4, <1>5, <2>1, <2>3
    <3>2. F'[x].succ = F[x].succ /\ F'[x].tests = F[x].tests \ {"null"}
      BY <1>7, <3>1
    <3>3. Lost(x)' = Lost(x) /\ "null" \in Lost(x)
      BY <1>1 DEF Lost
    <3> QED
      BY <1>1, <3>1, <3>2, <3>3 DEF SameBranch
  <2> QED
    BY <2>2, <2>3
<1>14. RemovableOK'
  BY <1>1, <1>2 DEF Inductive, RemovableOK, Overflows
<1>15. RunOK'
  BY <1>1, <1>2, <1>3, <1>6, <1>8 DEF Inductive, RunOK
<1> QED
  BY <1>11, <1>12, <1>13, <1>14, <1>15 DEF Inductive

\* A branch without a condition made a jump, as SimplifyCFG makes it.
Jumps(C) ==
    [b \in DOMAIN C |-> IF Len(C[b].succ) = 2 /\ C[b].tests = {}
                        THEN [C[b] EXCEPT !.succ = <<C[b].succ[2]>>] ELSE C[b]]

\* It goes where the branch could go, and loses no condition.
LEMMA JumpsKeep ==
    ASSUME NEW C, Closed(C), NEW x \in DOMAIN C
    PROVE  /\ Jumps(C)[x] \in Blocks(DOMAIN C)
           /\ Jumps(C)[x].icmps = C[x].icmps /\ Jumps(C)[x].site = C[x].site
           /\ Jumps(C)[x].tests = C[x].tests
           /\ Jumps(C)[x].succ = IF Len(C[x].succ) = 2 /\ C[x].tests = {}
                                 THEN <<C[x].succ[2]>> ELSE C[x].succ
           /\ Succs(Jumps(C), x) \subseteq Succs(C, x)
<1> DEFINE r == C[x]
           u == Jumps(C)[x]
           jump == <<r.succ[2]>>
<1>1. u = IF Len(r.succ) = 2 /\ r.tests = {} THEN [r EXCEPT !.succ = jump] ELSE r
  BY DEF Jumps
<1>2. r \in Blocks(DOMAIN C) /\ r.succ \in Seq(DOMAIN C)
  BY BlockFacts
<1>3. /\ Succs(Jumps(C), x) = {u.succ[i] : i \in DOMAIN u.succ}
      /\ Succs(C, x) = {r.succ[i] : i \in DOMAIN r.succ}
  BY DEF Succs
<1> HIDE DEF r, u
<1>4. CASE Len(r.succ) = 2 /\ r.tests = {}
  <2>1. DOMAIN r.succ = 1 .. 2 /\ 2 \in 1 .. 2
    BY <1>2, <1>4
  <2>2. jump \in Seq(DOMAIN C)
    BY <1>2, <2>1
  <2>3. {jump[i] : i \in DOMAIN jump} \subseteq {r.succ[i] : i \in DOMAIN r.succ}
    BY <2>1
  <2>4. u = [r EXCEPT !.succ = jump]
    BY <1>1, <1>4
  <2> HIDE DEF jump
  <2>5. /\ u \in Blocks(DOMAIN C) /\ u.succ = jump /\ u.icmps = r.icmps
        /\ u.site = r.site /\ u.tests = r.tests
    BY <1>2, <2>2, <2>4 DEF Blocks
  <2> QED
    BY <1>3, <1>4, <2>3, <2>5 DEF u, r, jump
<1>5. CASE ~ (Len(r.succ) = 2 /\ r.tests = {})
  <2>1. u = r
    BY <1>1, <1>5
  <2> QED
    BY <1>2, <1>3, <1>5, <2>1 DEF u, r
<1> QED
  BY <1>4, <1>5

\* A branch without a condition went to its second successor, to which it now jumps; what
\* can be reached leads to what can be reached.
LEMMA SimplifyCFGKeeps ==
    ASSUME Inductive, SimplifyCFG
    PROVE  Inductive'
<1> DEFINE B == program.blocks
           D == Jumps(F)
           Kept == {x \in DOMAIN D : Reaches(D, "entry", x)}
<1>1. /\ pc = "sret" /\ pc' = "simplified" /\ Clone' = Clone /\ todo = {} /\ todo' = todo
      /\ program' = program /\ Removable' = Removable
      /\ counted' = counted /\ early' = early /\ printed' = printed
      /\ at' = at /\ counter' = counter /\ faults' = faults
      /\ F' = [b \in Kept |-> D[b]]
  BY DEF SimplifyCFG, Jumps, countVars, runVars
<1>2. /\ Visited' = Visited /\ Past' = Past /\ Plain' = Plain /\ Tests' = Tests
      /\ MayStepOver' = MayStepOver /\ program.blocks' = B /\ ctr' = ctr
  BY <1>1, SameProgram
<1>3. /\ Closed(Clone) /\ Closed(F) /\ DOMAIN Clone \subseteq DOMAIN B /\ DOMAIN F \subseteq DOMAIN B
      /\ at = "entry" /\ "entry" \in DOMAIN F
  BY <1>1 DEF Inductive, GraphsOK, RunOK
<1>4. \A x \in DOMAIN F : /\ F[x].icmps = B[x].icmps /\ F[x].site = B[x].site
                          /\ Succs(F, x) \subseteq Succs(B, x)
                          /\ "null" \notin B[x].icmps => SameBranch(x)
  BY DEF Inductive, BranchesOK
<1>5. ASSUME NEW x \in DOMAIN F
      PROVE  /\ D[x] \in Blocks(DOMAIN F)
             /\ D[x].icmps = F[x].icmps /\ D[x].site = F[x].site /\ D[x].tests = F[x].tests
             /\ \/ D[x].succ = F[x].succ
                \/ /\ Len(F[x].succ) = 2 /\ F[x].tests = {}
                   /\ D[x].succ = <<F[x].succ[2]>>
             /\ Succs(D, x) \subseteq Succs(F, x)
  BY <1>3, JumpsKeep
<1>6. DOMAIN D = DOMAIN F
  BY DEF Jumps
<1> HIDE DEF D
<1>7. "entry" \in Kept
  BY <1>3, <1>6 DEF Reaches
<1>8. ASSUME NEW x \in Kept, NEW y \in Succs(D, x) PROVE y \in Kept
  <2>1. y \in DOMAIN D
    BY <1>3, <1>5, <1>6, <1>8, BlockFacts
  <2>2. ASSUME NEW S \in SUBSET DOMAIN D, "entry" \in S, \A z \in S : Succs(D, z) \subseteq S
        PROVE  y \in S
    <3>1. x \in S
      BY <1>8, <2>2 DEF Reaches
    <3> QED
      BY <1>8, <2>2, <3>1
  <2> QED
    BY <2>1, <2>2 DEF Reaches
<1>9. Kept \subseteq DOMAIN F
  BY <1>6
<1> HIDE DEF Kept
<1>10. /\ DOMAIN F' = Kept /\ F' = [x \in DOMAIN F' |-> F'[x]]
       /\ \A x \in Kept : F'[x] = D[x] /\ Succs(F', x) = Succs(D, x)
  BY <1>1 DEF Succs
<1>11. Closed(F')
  <2>1. \A x \in DOMAIN F' : F'[x] \in Blocks(DOMAIN F) /\ Succs(F', x) \subseteq DOMAIN F'
    BY <1>5, <1>8, <1>9, <1>10
  <2> QED
    BY <1>9, <1>10, <2>1, Subgraph
<1>12. TypeOK'
  <2>1. DOMAIN F' \subseteq DOMAIN B
    BY <1>3, <1>9, <1>10
  <2>2. \A C \in {F', Clone'} : \A x \in DOMAIN C : x \in DOMAIN B /\ Succs(C, x) \subseteq DOMAIN C
    BY <1>1, <1>3, <1>11, <2>1, GraphTyped
  <2> QED
    BY <1>1, <1>2, <2>2 DEF Inductive, TypeOK
<1>13. GraphsOK'
  BY <1>1, <1>2, <1>3, <1>7, <1>9, <1>10, <1>11 DEF Inductive, GraphsOK
<1>14. BranchesOK'
  <2> SUFFICES ASSUME NEW x \in DOMAIN F'
               PROVE  /\ F'[x].icmps = B[x].icmps /\ F'[x].site = B[x].site
                      /\ Succs(F', x) \subseteq Succs(B, x)
                      /\ "null" \notin B[x].icmps => SameBranch(x)'
    BY <1>1 DEF BranchesOK
  <2>1. x \in DOMAIN F /\ F'[x] = D[x] /\ Succs(F', x) = Succs(D, x)
    BY <1>9, <1>10
  <2>2. /\ F'[x].icmps = B[x].icmps /\ F'[x].site = B[x].site
        /\ Succs(F', x) \subseteq Succs(B, x)
    BY <1>4, <1>5, <2>1
  <2>3. ASSUME "null" \notin B[x].icmps PROVE SameBranch(x)'
    <3>1. SameBranch(x)
      BY <1>4, <2>1, <2>3
    <3>2. Lost(x)' = Lost(x)
      BY <1>1 DEF Lost
    <3>3. F'[x].tests = F[x].tests
      BY <1>5, <2>1
    <3>4. CASE F'[x].succ = F[x].succ
      BY <1>1, <3>1, <3>2, <3>3, <3>4 DEF SameBranch
    <3>5. CASE /\ Len(F[x].succ) = 2 /\ F[x].tests = {}
               /\ F'[x].succ = <<F[x].succ[2]>>
      <4>1. F[x].succ = B[x].succ
        BY <3>1, <3>5 DEF SameBranch
      <4> QED
        BY <1>1, <3>1, <3>2, <3>3, <3>5, <4>1 DEF SameBranch
    <3> QED
      BY <1>5, <2>1, <3>4, <3>5
  <2> QED
    BY <2>2, <2>3
<1>15. RemovableOK'
  BY <1>1, <1>2 DEF Inductive, RemovableOK, Overflows
<1>16. RunOK'
  BY <1>1, <1>2, <1>3, <1>7, <1>10 DEF RunOK
<1> QED
  BY <1>12, <1>13, <1>14, <1>15, <1>16 DEF Inductive

\* The count at the end of the pipeline is a number (UBSanCountPass.cpp:509-523).
LEMMA PrintRemainingKeeps ==
    ASSUME Inductive, PrintRemaining
    PROVE  Inductive'
<1>1. /\ pc = "simplified" /\ pc' = "compiled"
      /\ program' = program /\ F' = F /\ Clone' = Clone /\ todo' = todo /\ Removable' = Removable
      /\ counted' = GetResult /\ printed' = GetResult /\ early' = early
      /\ at' = at /\ counter' = counter /\ faults' = faults
  BY DEF PrintRemaining, passVars, runVars
<1>2. /\ ctr' = ctr /\ Visited' = Visited /\ Past' = Past /\ Plain' = Plain /\ Tests' = Tests
      /\ MayStepOver' = MayStepOver
  BY <1>1, SameProgram
<1>3. GetResult \in Nat \cup {NotCounted}
  BY CountIsNumber
<1> HIDE DEF GetResult
<1>4. TypeOK'
  BY <1>1, <1>2, <1>3 DEF Inductive, TypeOK
<1>5. GraphsOK'
  BY <1>1, <1>2 DEF Inductive, GraphsOK
<1>6. BranchesOK'
  BY <1>1 DEF Inductive, BranchesOK, SameBranch, Lost
<1>7. RemovableOK'
  BY <1>1, <1>2 DEF Inductive, RemovableOK, Overflows
<1>8. RunOK'
  BY <1>1, <1>2 DEF Inductive, RunOK
<1> QED
  BY <1>4, <1>5, <1>6, <1>7, <1>8 DEF Inductive

\* The function is called with a start that the guards before the loop let through.
LEMMA CallKeeps ==
    ASSUME Inductive, Call
    PROVE  Inductive'
<1>1. /\ pc = "compiled" /\ pc' = "run"
      /\ program' = program /\ F' = F /\ Clone' = Clone /\ todo' = todo /\ Removable' = Removable
      /\ counted' = counted /\ printed' = printed /\ early' = early /\ at' = at
      /\ counter' \in ctr.starts /\ faults' \subseteq Tests \cap {"misaligned", "argnull"}
  BY DEF Call, passVars, countVars
<1>2. /\ ctr' = ctr /\ Visited' = Visited /\ Past' = Past /\ Plain' = Plain /\ Tests' = Tests
      /\ MayStepOver' = MayStepOver
  BY <1>1, SameProgram
<1>3. program \in Programs /\ at = "entry"
  BY <1>1 DEF Inductive, TypeOK, RunOK
<1>4. counter' \in Word /\ counter' \in Visited
  <2>1. counter' \in Word /\ Iterate(counter', 0) = counter'
    BY <1>1, <1>3, CounterFacts, Iterations
  <2>2. 0 \in 0 .. 2 * Half /\ \A j \in 0 .. 0 - 1 : ~ Exits(Iterate(counter', j))
    BY SomeWord
  <2> QED
    BY <1>1, <2>1, <2>2 DEF Visited
<1>5. HasLoop(program.blocks) => at' \notin Past
  BY <1>1, <1>3, FunctionFacts DEF AfterTest
<1>6. TypeOK'
  BY <1>1, <1>2, <1>4 DEF Inductive, TypeOK
<1>7. GraphsOK'
  BY <1>1, <1>2 DEF Inductive, GraphsOK
<1>8. BranchesOK'
  BY <1>1 DEF Inductive, BranchesOK, SameBranch, Lost
<1>9. RemovableOK'
  BY <1>1, <1>2 DEF Inductive, RemovableOK, Overflows
<1>10. RunOK'
  BY <1>1, <1>2, <1>4, <1>5 DEF Inductive, RunOK
<1> QED
  BY <1>6, <1>7, <1>8, <1>9, <1>10 DEF Inductive

\* A block that is left goes to one of its successors, the second of two only if
\* nothing that it tests holds.
LEMMA TargetFacts ==
    ASSUME NEW C, Closed(C), NEW b \in DOMAIN C, C[b].succ # <<>>
    PROVE  /\ Target(C, b) \in Succs(C, b)
           /\ Len(C[b].succ) = 2 =>
                \/ Target(C, b) = C[b].succ[1]
                \/ Target(C, b) = C[b].succ[2] /\ \A t \in C[b].tests : ~ Holds(t)
<1> DEFINE succ == C[b].succ
<1>1. succ \in Seq(DOMAIN C) /\ succ # <<>>
  BY BlockFacts
<1>2. Len(succ) \in Nat \ {0} /\ DOMAIN succ = 1 .. Len(succ)
  <2> HIDE DEF succ
  <2> QED
    BY <1>1
<1>3. 1 \in DOMAIN succ /\ (Len(succ) = 2 => 2 \in DOMAIN succ)
  <2> HIDE DEF succ
  <2> QED
    BY <1>2
<1> QED
  BY <1>3, Zenon DEF Target, Succs

\* The counter of a round of the loop that the test lets pass, one step on.
LEMMA VisitedNext ==
    ASSUME program \in Programs, HasLoop(program.blocks), NEW i \in Visited, ~ Exits(i)
    PROVE  Wrap(i + ctr.step) \in Visited
<1>1. PICK s \in ctr.starts, k \in 0 .. 2 * Half :
          i = Iterate(s, k) /\ \A j \in 0 .. k - 1 : ~ Exits(Iterate(s, j))
  BY DEF Visited
<1>2. s \in Word /\ k \in Nat
  BY <1>1, CounterFacts, SomeWord
<1>3. /\ Wrap(i + ctr.step) = Iterate(s, k + 1) /\ Wrap(i + ctr.step) \in Word
      /\ Iterate(s, k + 1) \in Word
  <2>1. \A m \in Nat : Iterate(s, m) \in Word /\ Wrap(Iterate(s, m) + ctr.step) = Iterate(s, m + 1)
    BY <1>2, Iterations
  <2>2. k + 1 \in Nat
    BY <1>2
  <2>3. Wrap(i + ctr.step) = Iterate(s, k + 1)
    BY <1>1, <1>2, <2>1
  <2> QED
    BY <2>1, <2>2, <2>3
<1>4. CASE k < 2 * Half
  <2>1. k + 1 \in 0 .. 2 * Half
    BY <1>2, <1>4, SomeWord
  <2>2. ASSUME NEW j \in 0 .. (k + 1) - 1 PROVE ~ Exits(Iterate(s, j))
    <3>1. j = k \/ j \in 0 .. k - 1
      BY <1>2
    <3> QED
      BY <1>1, <3>1
  <2> QED
    BY <1>3, <2>1, <2>2 DEF Visited
<1>5. CASE k = 2 * Half
  <2>1. i = s
    BY <1>1, <1>2, <1>5, Iterations
  <2>2. Iterate(s, 0 + 1) = Wrap(i + ctr.step)
    <3>1. \A m \in Nat : Wrap(Iterate(s, m) + ctr.step) = Iterate(s, m + 1)
      BY <1>2, Iterations
    <3>2. Iterate(s, 0) = s /\ 0 \in Nat
      BY <1>2, Iterations
    <3> QED
      BY <2>1, <3>1, <3>2
  <2>3. 1 \in 0 .. 2 * Half /\ 0 \in Nat
    BY SomeWord
  <2>4. ASSUME NEW j \in 0 .. 1 - 1 PROVE ~ Exits(Iterate(s, j))
    <3>1. j = 0
      OBVIOUS
    <3> QED
      BY <1>2, <2>1, <3>1, Iterations
  <2>5. Iterate(s, 1) = Wrap(i + ctr.step)
    BY <2>2
  <2> QED
    BY <1>3, <2>3, <2>4, <2>5 DEF Visited
<1> QED
  BY <1>1, <1>2, <1>4, <1>5, SomeWord

\* One block of the run: into the blocks past the test leads only the way on from
\* a test that is not met, and only the latch moves the counter.
LEMMA StepKeeps ==
    ASSUME Inductive, Step
    PROVE  Inductive'
<1> DEFINE B == program.blocks
<1>1. /\ pc = "run" /\ pc' \in {"run", "done"}
      /\ program' = program /\ F' = F /\ Clone' = Clone /\ todo' = todo /\ Removable' = Removable
      /\ counted' = counted /\ printed' = printed /\ early' = early /\ faults' = faults
  BY DEF Step, passVars, countVars
<1>2. /\ ctr' = ctr /\ Visited' = Visited /\ Past' = Past /\ Plain' = Plain /\ Tests' = Tests
      /\ MayStepOver' = MayStepOver /\ program.blocks' = B
  BY <1>1, SameProgram
<1>3. /\ program \in Programs /\ Closed(F) /\ DOMAIN F \subseteq DOMAIN B /\ at \in DOMAIN F
      /\ counter \in Visited /\ counter \in Word
      /\ HasLoop(B) /\ at \in Past => ~ Exits(counter)
  BY <1>1 DEF Inductive, TypeOK, GraphsOK, RunOK
<1>4. /\ at' \in DOMAIN F /\ counter' \in Word /\ counter' \in Visited
      /\ HasLoop(B) /\ at' \in Past => ~ Exits(counter')
  <2>1. CASE F[at].succ = <<>>
    BY <1>3, <2>1 DEF Step
  <2>2. CASE F[at].succ # <<>>
    <3>1. /\ at' = Target(F, at)
          /\ counter' = IF at = "latch" THEN Wrap(counter + ctr.step) ELSE counter
      BY <2>2 DEF Step
    <3>2. at' \in Succs(F, at) /\ at' \in DOMAIN F
      BY <1>3, <2>2, <3>1, TargetFacts, BlockFacts
    <3>3. Succs(F, at) \subseteq Succs(B, at)
      BY <1>3 DEF Inductive, BranchesOK
    <3>4. CASE at = "latch"
      <4>1. HasLoop(B) /\ B["latch"].succ = <<"header">> /\ AfterTest(B, Past)
        BY <1>3, <3>4, FunctionFacts
      <4>2. ~ Exits(counter)
        BY <1>3, <3>4, <4>1 DEF AfterTest
      <4>3. counter' \in Visited
        BY <1>3, <3>1, <3>4, <4>1, <4>2, VisitedNext
      <4>4. counter' \in Word
        <5>1. counter + ctr.step \in Int
          BY <1>3, CounterFacts
        <5> QED
          BY <3>1, <3>4, <5>1, WrapWord
      <4>5. at' \notin Past
        <5>1. at' = "header"
          BY <3>2, <3>3, <3>4, <4>1 DEF Succs
        <5> QED
          BY <4>1, <5>1 DEF AfterTest
      <4> QED
        BY <3>2, <4>3, <4>4, <4>5
    <3>5. CASE at # "latch"
      <4>1. counter' = counter
        BY <3>1, <3>5
      <4>2. ASSUME HasLoop(B), at' \in Past, at \notin Past PROVE ~ Exits(counter)
        <5>1. /\ B[at].tests = {"exit"} /\ "null" \notin B[at].icmps
              /\ Len(B[at].succ) = 2 /\ B[at].succ[1] \notin Past
          BY <1>3, <3>2, <3>3, <4>2, FunctionFacts DEF AfterTest
        <5>2. F[at].tests = {"exit"} /\ F[at].succ = B[at].succ
          <6>1. SameBranch(at)
            BY <1>3, <5>1 DEF Inductive, BranchesOK
          <6>2. "exit" \notin Lost(at)
            BY DEF Lost
          <6> QED
            BY <5>1, <6>1, <6>2 DEF SameBranch
        <5>3. ~ Holds("exit")
          BY <1>3, <2>2, <3>1, <4>2, <5>1, <5>2, TargetFacts
        <5> QED
          BY <5>3 DEF Holds
      <4>3. HasLoop(B) /\ at' \in Past => ~ Exits(counter')
        <5>1. Exits(counter) <=> Exits(counter')
          BY <4>1
        <5> QED
          BY <1>3, <4>2, <5>1
      <4> QED
        BY <1>3, <3>2, <4>1, <4>3
    <3> QED
      BY <3>4, <3>5
  <2> QED
    BY <2>1, <2>2
<1>5. Exits(counter)' <=> Exits(counter')
  BY <1>2 DEF Exits
<1>6. TypeOK'
  BY <1>1, <1>2, <1>3, <1>4 DEF Inductive, TypeOK
<1>7. GraphsOK'
  BY <1>1, <1>2 DEF Inductive, GraphsOK
<1>8. BranchesOK'
  BY <1>1 DEF Inductive, BranchesOK, SameBranch, Lost
<1>9. RemovableOK'
  BY <1>1, <1>2 DEF Inductive, RemovableOK, Overflows
<1>10. RunOK'
  BY <1>1, <1>2, <1>4, <1>5 DEF Inductive, RunOK
<1> QED
  BY <1>6, <1>7, <1>8, <1>9, <1>10 DEF Inductive

\* The invariant survives every step of the pass and of the compiled function.
LEMMA NextInductive == Inductive /\ [Next]_vars => Inductive'
<1> SUFFICES ASSUME Inductive, [Next]_vars PROVE Inductive'
  OBVIOUS
<1>1. CASE UNCHANGED vars
  <2>1. /\ UNCHANGED <<pc, passVars, runVars>>
        /\ early' = early /\ counted' = counted /\ printed' = printed
    BY <1>1 DEF vars, countVars
  <2>2. early \in BOOLEAN /\ counted \in Nat \cup {NotCounted} /\ printed \in Nat \cup {NotCounted}
    BY DEF Inductive, TypeOK
  <2> HIDE DEF Inductive
  <2> QED
    BY <2>1, <2>2, SameFunction
<1>2. CASE PrintEarly
  BY <1>2, PrintEarlyKeeps
<1>3. CASE Collect
  BY <1>3, CollectKeeps
<1>4. CASE Decide
  BY <1>4, DecideKeeps
<1>5. CASE Optimize
  BY <1>5, OptimizeKeeps
<1>6. CASE CollectNullChecks
  BY <1>6, CollectNullChecksKeeps
<1>7. CASE SimplifyCFG
  BY <1>7, SimplifyCFGKeeps
<1>8. CASE PrintRemaining
  BY <1>8, PrintRemainingKeeps
<1>9. CASE Call
  BY <1>9, CallKeeps
<1>10. CASE Step
  BY <1>10, StepKeeps
<1>11. ASSUME NEW b \in todo, StraightenClone(b) PROVE Inductive'
  BY <1>11, StraightenCloneKeeps
<1>12. ASSUME NEW b \in todo, OptimizeNullCheck(b) PROVE Inductive'
  BY <1>12, OptimizeNullCheckKeeps
<1> QED
  BY <1>1, <1>2, <1>3, <1>4, <1>5, <1>6, <1>7, <1>8, <1>9, <1>10, <1>11, <1>12 DEF Next

\* The invariant of the pass, of which the properties below are parts.
THEOREM InductiveAlways == Spec => []Inductive
<1>1. Init => Inductive
  BY InitInductive
<1>2. Inductive /\ [Next]_vars => Inductive'
  BY NextInductive
<1> QED
  BY <1>1, <1>2, PTL DEF Spec

\* Variables keep their types, and no branch leads to a deleted block: the handler
\* that straightenOverflowBranches and OptimizeNullCheck delete has no other
\* predecessor (UBSanCountPass.cpp:145-194, 425-485).
THEOREM TypeCorrect == Spec => []TypeOK
<1>1. Inductive => TypeOK
  BY DEF Inductive
<1> QED
  BY <1>1, InductiveAlways, PTL

\* In a state of the invariant a check that was removed does not fire.
LEMMA RemovedIsSilent ==
    ASSUME Inductive
    PROVE  NoSilentOverflow
<1> SUFFICES ASSUME pc = "run", at \in Removable PROVE MayStepOver \/ ~ Overflows(counter)
  BY DEF NoSilentOverflow
<1>1. counter \in Visited /\ Removable # {}
  BY DEF Inductive, RunOK
<1> QED
  BY <1>1 DEF Inductive, RemovableOK

\* The sum of an overflow check that boundOverflowOperand and
\* rangesProveNoOverflow let the pass remove never overflows in the function as it
\* runs, whatever the analyses could answer (UBSanCountPass.cpp:71-94, 279-361).
THEOREM RemovedNeverOverflows == Spec => []NoSilentOverflow
<1>1. Inductive => NoSilentOverflow
  BY RemovedIsSilent
<1> QED
  BY <1>1, InductiveAlways, PTL

\* In a state of the invariant the compiled function branches as the original.
LEMMA BranchKept ==
    ASSUME Inductive
    PROVE  ReportsKept
<1> DEFINE B == program.blocks
<1> SUFFICES ASSUME pc = "run", F[at].succ # <<>>,
                    ~ (at \in Removable /\ MayStepOver), "null" \notin B[at].icmps
             PROVE  Target(F, at) = Target(B, at)
  BY DEF ReportsKept
<1>1. at \in DOMAIN F /\ SameBranch(at) /\ faults \subseteq {"misaligned", "argnull"}
  BY DEF Inductive, RunOK, BranchesOK
<1>2. \A t \in Lost(at) : ~ Holds(t)
  <2>1. at \in Removable => ~ Overflows(counter)
    BY RemovedIsSilent DEF NoSilentOverflow
  <2>2. ~ Holds("null")
    BY <1>1 DEF Holds
  <2>3. at \in Removable => ~ Holds("overflow")
    BY <1>1, <2>1 DEF Holds
  <2> QED
    BY <2>2, <2>3 DEF Lost
<1>3. (\E t \in F[at].tests : Holds(t)) <=> (\E t \in B[at].tests : Holds(t))
  BY <1>1, <1>2 DEF SameBranch
<1>4. CASE F[at].succ = B[at].succ
  BY <1>3, <1>4, Zenon DEF Target
<1>5. CASE /\ F[at].tests = {} /\ Len(B[at].succ) = 2
           /\ F[at].succ = <<B[at].succ[2]>>
  <2>1. Target(B, at) = B[at].succ[2]
    BY <1>3, <1>5 DEF Target
  <2>2. Len(F[at].succ) = 1 /\ F[at].succ[1] = B[at].succ[2]
    BY <1>5
  <2> QED
    BY <2>1, <2>2 DEF Target
<1> QED
  BY <1>1, <1>4, <1>5 DEF SameBranch

\* Every branch of the compiled function goes where the original's goes, so what
\* the original reports is reported; the branches at a comparison of the result
\* pointer and the checks of a counter that may step over its bound are excepted
\* (UBSanCountPass.cpp:366-485).
THEOREM ReportsAlwaysKept == Spec => []ReportsKept
<1>1. Inductive => ReportsKept
  BY BranchKept
<1> QED
  BY <1>1, InductiveAlways, PTL

-----------------------------------------------------------------------------
(* The loops the pass was written for.                                     *)

\* Less than a whole turn ahead of a word, the words begin anew at most once.
LEMMA OnTheCircle ==
    ASSUME NEW first \in Word, NEW k \in 0 .. 2 * Half - 1
    PROVE  Wrap(first + k) = IF first + k <= Hi THEN first + k ELSE first + k - 2 * Half
<1>1. Half \in Nat /\ first \in Int /\ k \in Int
  BY SomeWord DEF Word, Lo, Hi
<1>2. CASE first + k <= Hi
  <2>1. first + k \in Word
    BY <1>1, <1>2 DEF Word, Lo, Hi
  <2> QED
    BY <1>2, <2>1, WrapWord
<1>3. CASE ~ (first + k <= Hi)
  <2> DEFINE w == first + k - 2 * Half
  <2>1. w \in Word
    BY <1>1, <1>3 DEF Word, Lo, Hi
  <2>2. Wrap(w + 2 * Half * 1) = w
    <3> HIDE DEF w
    <3> QED
      BY <2>1, WholeTurn
  <2>3. w + 2 * Half * 1 = first + k
    BY <1>1
  <2> QED
    BY <1>3, <2>2, <2>3
<1> QED
  BY <1>2, <1>3

\* A range of n words has n elements.
LEMMA CircleSize ==
    ASSUME NEW first \in Word, NEW n \in 0 .. 2 * Half
    PROVE  IsFiniteSet(Circle(first, n)) /\ Cardinality(Circle(first, n)) = n
<1> DEFINE ks == 0 .. n - 1
           place == [k \in ks |-> Wrap(first + k)]
<1>1. Half \in Nat /\ n \in Nat /\ first \in Int
  BY SomeWord DEF Word, Lo, Hi
<1>2. ks \subseteq 0 .. 2 * Half - 1
  BY <1>1
<1>3. ASSUME NEW j \in ks, NEW k \in ks, Wrap(first + j) = Wrap(first + k) PROVE j = k
  <2>1. /\ Wrap(first + j) = IF first + j <= Hi THEN first + j ELSE first + j - 2 * Half
        /\ Wrap(first + k) = IF first + k <= Hi THEN first + k ELSE first + k - 2 * Half
    BY <1>2, OnTheCircle
  <2>2. j \in Int /\ k \in Int /\ 0 <= j /\ 0 <= k /\ j < 2 * Half /\ k < 2 * Half
    BY <1>1
  <2>3. Hi \in Int
    BY <1>1 DEF Hi
  <2> QED
    BY <1>1, <1>3, <2>1, <2>2, <2>3
<1>4. place \in Bijection(ks, Circle(first, n))
  <2>1. Circle(first, n) = {Wrap(first + k) : k \in ks}
    BY DEF Circle
  <2> HIDE DEF ks
  <2>2. place \in [ks -> Circle(first, n)]
    BY <2>1
  <2>3. \A j, k \in ks : place[j] = place[k] => j = k
    BY <1>3
  <2>4. \A w \in Circle(first, n) : \E k \in ks : place[k] = w
    BY <2>1
  <2> HIDE DEF place
  <2> QED
    BY <2>2, <2>3, <2>4 DEF Bijection, Injection, IsInjective, Surjection
<1>5. ExistsBijection(ks, Circle(first, n))
  BY <1>4 DEF ExistsBijection
<1>6. IsFiniteSet(ks) /\ Cardinality(ks) = n
  BY <1>1, FS_Interval
<1> QED
  BY <1>5, <1>6, FS_Bijection

\* What a range of at most half the words has of the numbers that are not negative
\* is a range too.
LEMMA UpperPart ==
    ASSUME NEW r \in Ranges, Cardinality(r) <= Half
    PROVE  r \cap (0 .. Hi) \in Ranges
<1>1. PICK first \in Word, n \in 0 .. 2 * Half : r = Circle(first, n)
  BY DEF Ranges
<1>2. /\ Half \in Nat \ {0} /\ n \in Nat /\ first \in Int /\ n <= Half
      /\ -Half <= first /\ first <= Half - 1
  BY <1>1, CircleSize, SomeWord DEF Word, Lo, Hi
<1>3. ASSUME NEW k \in 0 .. n - 1
      PROVE  Wrap(first + k) = IF first + k <= Half - 1 THEN first + k ELSE first + k - 2 * Half
  <2>1. k \in 0 .. 2 * Half - 1
    BY <1>2
  <2> QED
    BY <2>1, OnTheCircle DEF Hi
<1>4. CASE first >= 0
  <2> DEFINE m == IF n <= Half - first THEN n ELSE Half - first
  <2>1. m \in 0 .. 2 * Half /\ m <= n /\ first + m <= Half /\ (m = n \/ first + m = Half) /\ m \in Nat
    BY <1>2, <1>4
  <2> HIDE DEF m
  <2>2. ASSUME NEW w \in r \cap (0 .. Hi) PROVE w \in Circle(first, m)
    <3>1. PICK k \in 0 .. n - 1 : w = Wrap(first + k)
      BY <1>1 DEF Circle
    <3>2. first + k <= Half - 1
      BY <1>2, <1>3, <3>1 DEF Hi
    <3>3. k \in 0 .. m - 1
      BY <1>2, <2>1, <3>2
    <3> QED
      BY <3>1, <3>3 DEF Circle
  <2>3. ASSUME NEW w \in Circle(first, m) PROVE w \in r \cap (0 .. Hi)
    <3>1. PICK k \in 0 .. m - 1 : w = Wrap(first + k)
      BY DEF Circle
    <3>2. k \in 0 .. n - 1 /\ first + k <= Half - 1
      BY <1>2, <2>1
    <3>3. w = first + k
      BY <1>3, <3>1, <3>2
    <3>4. first + k \in 0 .. Hi
      BY <1>2, <1>4, <3>2 DEF Hi
    <3> QED
      BY <1>1, <3>1, <3>2, <3>3, <3>4 DEF Circle
  <2>4. r \cap (0 .. Hi) = Circle(first, m)
    BY <2>2, <2>3
  <2> QED
    BY <2>1, <2>4 DEF Ranges
<1>5. CASE first < 0
  <2> DEFINE m == IF first + n <= 0 THEN 0 ELSE first + n
  <2>1. m \in 0 .. 2 * Half /\ m \in Nat /\ m <= Half /\ 0 \in Word
    BY <1>2, <1>5 DEF Word, Lo, Hi
  <2>2. ASSUME NEW j \in 0 .. m - 1 PROVE Wrap(0 + j) = j
    <3>1. j \in 0 .. 2 * Half - 1 /\ j <= Hi /\ j \in Int
      BY <1>2, <2>1 DEF Hi
    <3> HIDE DEF m
    <3> QED
      BY <2>1, <3>1, OnTheCircle
  <2>3. ASSUME NEW w \in r \cap (0 .. Hi) PROVE w \in Circle(0, m)
    <3>1. PICK k \in 0 .. n - 1 : w = Wrap(first + k)
      BY <1>1 DEF Circle
    <3>2. w = first + k
      <4>1. first + k <= Half - 1
        BY <1>2, <1>5
      <4> QED
        BY <1>3, <3>1, <4>1
    <3>3. first + k \in 0 .. m - 1
      <4>1. first + k >= 0 /\ first + k < first + n
        BY <1>2, <3>2 DEF Hi
      <4> QED
        BY <1>2, <4>1
    <3> HIDE DEF m
    <3>4. Wrap(0 + (first + k)) = w
      BY <2>2, <3>2, <3>3
    <3> QED
      BY <3>3, <3>4 DEF Circle
  <2>4. ASSUME NEW w \in Circle(0, m) PROVE w \in r \cap (0 .. Hi)
    <3>1. PICK j \in 0 .. m - 1 : w = Wrap(0 + j)
      BY DEF Circle
    <3>2. w = j
      BY <2>2, <3>1
    <3>3. j - first \in 0 .. n - 1 /\ first + (j - first) = j /\ j <= Half - 1 /\ j \in 0 .. Hi
      BY <1>2, <1>5 DEF Hi
    <3>4. Wrap(first + (j - first)) = j
      BY <1>3, <3>3
    <3> QED
      BY <1>1, <3>2, <3>3, <3>4 DEF Circle
  <2>5. r \cap (0 .. Hi) = Circle(0, m)
    BY <2>3, <2>4
  <2> HIDE DEF m
  <2> QED
    BY <2>1, <2>5 DEF Ranges
<1> QED
  BY <1>2, <1>4, <1>5

\* The smallest range that holds numbers which are not negative has no other.
LEMMA CoverOfNaturals ==
    ASSUME NEW S, S \subseteq 0 .. Hi
    PROVE  Cover(S) \subseteq 0 .. Hi
<1> DEFINE r == Cover(S)
           t == r \cap (0 .. Hi)
<1>1. Half \in Nat \ {0} /\ 0 .. Hi \subseteq Word /\ S \subseteq Word /\ 0 \in Word /\ Half \in 0 .. 2 * Half
  BY SomeWord DEF Word, Lo, Hi
<1>2. /\ r \in Ranges /\ S \subseteq r
      /\ \A q \in Ranges : S \subseteq q => Cardinality(r) <= Cardinality(q)
  BY <1>1, CoverHolds
<1>3. 0 .. Hi = Circle(0, Half)
  <2>1. ASSUME NEW k \in 0 .. Half - 1 PROVE Wrap(0 + k) = k
    <3>1. k \in 0 .. 2 * Half - 1 /\ k <= Hi /\ k \in Int
      BY <1>1 DEF Hi
    <3> QED
      BY <1>1, <3>1, OnTheCircle
  <2>2. 0 .. Hi = 0 .. Half - 1
    BY DEF Hi
  <2> QED
    BY <2>1, <2>2 DEF Circle
<1>4. 0 .. Hi \in Ranges /\ Cardinality(0 .. Hi) = Half
  BY <1>1, <1>3, CircleSize DEF Ranges
<1>5. Cardinality(r) <= Half
  BY <1>2, <1>4
<1> HIDE DEF r
<1>6. t \in Ranges /\ S \subseteq t
  BY <1>2, <1>5, UpperPart
<1>7. r \subseteq Word /\ IsFiniteSet(r) /\ Cardinality(r) \in Nat
  BY <1>2, RangesFinite, FS_Subset
<1>8. Cardinality(t) <= Cardinality(r) /\ Cardinality(t) \in Nat /\ (Cardinality(r) = Cardinality(t) => r = t)
  <2>1. t \in SUBSET r
    OBVIOUS
  <2> HIDE DEF t
  <2> QED
    BY <1>7, <2>1, FS_Subset, FS_CardinalityType
<1>9. Cardinality(r) <= Cardinality(t)
  BY <1>2, <1>6
<1>10. r = t
  <2> HIDE DEF t
  <2> QED
    BY <1>7, <1>8, <1>9
<1> QED
  BY <1>10 DEF r

\* The smallest range that holds a single word is that word.
LEMMA CoverOfOne ==
    ASSUME NEW w \in Word
    PROVE  Cover({w}) = {w}
<1>1. /\ Cover({w}) \in Ranges /\ w \in Cover({w})
      /\ \A q \in Ranges : {w} \subseteq q => Cardinality(Cover({w})) <= Cardinality(q)
  BY CoverHolds
<1>2. {w} \in Ranges
  <2>1. Circle(w, 1) = {w}
    <3>1. Wrap(w + 0) = w
      <4>1. w + 0 = w
        BY SomeWord DEF Word, Lo, Hi
      <4> QED
        BY <4>1, WrapWord
    <3>2. 0 .. 1 - 1 = {0}
      OBVIOUS
    <3> QED
      BY <3>1, <3>2 DEF Circle
  <2>2. 1 \in 0 .. 2 * Half
    BY SomeWord
  <2> QED
    BY <2>1, <2>2 DEF Ranges
<1>3. Cardinality(Cover({w})) <= 1
  BY <1>1, <1>2, FS_Singleton
<1>4. IsFiniteSet(Cover({w}))
  BY <1>1, RangesFinite, FS_Subset
<1>5. /\ Cardinality({w}) <= Cardinality(Cover({w}))
      /\ Cardinality(Cover({w})) = Cardinality({w}) => Cover({w}) = {w}
  <2>1. {w} \in SUBSET Cover({w})
    BY <1>1
  <2> QED
    BY <1>4, <2>1, FS_Subset
<1>6. Cardinality({w}) = 1
  BY FS_Singleton
<1>7. Cardinality(Cover({w})) \in Nat
  BY <1>4, FS_CardinalityType
<1> QED
  BY <1>3, <1>5, <1>6, <1>7

\* A counter that goes down by one comes to zero from every word.
LEMMA ComesToZero ==
    ASSUME program \in Programs, ctr.step = -1, NEW s \in Word
    PROVE  \E k \in 0 .. 2 * Half : Iterate(s, k) = 0
<1>1. Half \in Nat \ {0} /\ s \in Int /\ -Half <= s /\ s <= Half - 1 /\ 0 \in Word
  BY SomeWord DEF Word, Lo, Hi
<1>2. CASE s >= 0
  <2>1. s \in 0 .. 2 * Half
    BY <1>1, <1>2
  <2>2. s + s * (-1) = 0
    BY <1>1
  <2>3. Iterate(s, s) = 0
    BY <1>1, <2>2, WrapWord DEF Iterate
  <2> QED
    BY <2>1, <2>3
<1>3. CASE s < 0
  <2>1. s + 2 * Half \in 0 .. 2 * Half
    BY <1>1, <1>3
  <2>2. s + (s + 2 * Half) * (-1) = 0 + 2 * Half * (-1)
    BY <1>1
  <2>3. Wrap(0 + 2 * Half * (-1)) = 0
    BY <1>1, WholeTurn
  <2>4. Iterate(s, s + 2 * Half) = 0
    BY <2>2, <2>3 DEF Iterate
  <2> QED
    BY <2>1, <2>4
<1> QED
  BY <1>1, <1>2, <1>3

\* The check of a counter that is counted down to zero from a start which is not
\* negative (test/test.cpp: testRotation, testCopyOptimized) is found removable by
\* boundOverflowOperand, for every width of the counter, if straightening left the
\* loop of the clone one exit (UBSanCountPass.cpp:279-328).
THEOREM CountdownsFreed == Spec => [](SingleExit(Clone) => CountdownFreed)
<1>1. Inductive => (SingleExit(Clone) => CountdownFreed)
  <2> DEFINE known == {"edge", "end"}
  <2> SUFFICES ASSUME Inductive, SingleExit(Clone), HasLoop(Clone), ctr.step = -1, ctr.exit = "ne",
                      ctr.bound = 0, ctr.starts \subseteq Nat
               PROVE  RangesProveNoOverflow(BoundOverflowOperand(Clone, known), -1)
    BY DEF CountdownFreed
  <2>1. program \in Programs
    BY DEF Inductive, TypeOK
  <2>2. /\ Half \in Nat \ {0} /\ 0 \in Word /\ 0 \in 0 .. Hi /\ 0 .. Hi \subseteq Word
        /\ -1 \in Word /\ -1 \notin 0 .. Hi
    BY SomeWord DEF Word, Lo, Hi
  <2>3. ctr.starts \subseteq 0 .. Hi /\ ctr.starts # {}
    BY <2>1, CounterFacts DEF Word
  <2>4. Starts \subseteq Word /\ ctr.starts \subseteq Starts /\ ctr.starts \subseteq StartRange(known)
    BY <2>1, StartsKnown
  <2>5. \A i \in Int : Exits(i) <=> i = 0
    BY <2>1, ExitsMeans
  <2>6. BTCComputable(Clone)
    <3>1. ASSUME NEW s \in Starts PROVE \E k \in 0 .. 2 * Half : Exits(Iterate(s, k))
      <4>1. PICK k \in 0 .. 2 * Half : Iterate(s, k) = 0
        BY <2>1, <2>4, ComesToZero
      <4> QED
        BY <2>5, <4>1
    <3> QED
      BY <3>1 DEF BTCComputable
  <2>7. EndRange = {0}
    <3>1. ASSUME NEW s \in Starts PROVE Iterate(s, BTC(s)) = 0
      <4>1. Exits(Iterate(s, BTC(s))) /\ s \in Word /\ BTC(s) \in Nat
        BY <2>4, <2>6, FirstExit
      <4>2. Iterate(s, BTC(s)) \in Int
        BY <2>1, <4>1, Iterations, CounterFacts
      <4> QED
        BY <2>5, <4>1, <4>2
    <3>2. {Iterate(s, BTC(s)) : s \in Starts} = {0}
      BY <2>3, <2>4, <3>1
    <3> QED
      BY <2>2, <3>2, CoverOfOne DEF EndRange
  <2>8. StartRange(known) \subseteq 0 .. Hi
    <3>1. CASE Starts = Word
      BY <2>3, <3>1, CoverOfNaturals DEF StartRange
    <3>2. CASE Starts # Word
      BY <2>3, <3>2 DEF StartRange, Starts
    <3> QED
      BY <3>1, <3>2
  <2>9. StartRange(known) # Word /\ EndRange # Word
    BY <2>2, <2>7, <2>8
  <2>10. Monotone(StartRange(known), EndRange)
    <3>1. Least(StartRange(known)) \in StartRange(known)
      BY <2>2, <2>3, <2>4, <2>8, Extremes
    <3>2. Greatest(EndRange) \in EndRange
      BY <2>2, <2>7, Extremes
    <3> QED
      BY <2>7, <2>8, <3>1, <3>2 DEF Monotone
  <2>11. SignedRange(Clone, known) = Word
    BY DEF SignedRange
  <2> DEFINE both == UnionWith(StartRange(known), EndRange)
             operand == IntersectWith(Word, both)
  <2>12. BoundOverflowOperand(Clone, known) = operand
    BY <2>6, <2>9, <2>10, <2>11 DEF BoundOverflowOperand
  <2>13. both \subseteq 0 .. Hi /\ 0 \in both
    <3>1. StartRange(known) \cup EndRange \subseteq 0 .. Hi /\ 0 \in StartRange(known) \cup EndRange
      BY <2>2, <2>7, <2>8
    <3>2. StartRange(known) \cup EndRange \subseteq Word
      BY <2>2, <3>1
    <3> QED
      BY <3>1, <3>2, CoverOfNaturals, CoverHolds DEF UnionWith
  <2> HIDE DEF both
  <2>14. operand \subseteq 0 .. Hi /\ 0 \in operand
    <3>1. Word \cap both \subseteq 0 .. Hi /\ 0 \in Word \cap both /\ Word \cap both \subseteq Word
      BY <2>2, <2>13
    <3> QED
      BY <3>1, CoverOfNaturals, CoverHolds DEF IntersectWith
  <2> HIDE DEF operand
  <2>15. Least(operand) \in 0 .. Hi /\ Greatest(operand) \in 0 .. Hi /\ operand # {}
    BY <2>2, <2>14, Extremes
  <2>16. Least(operand) + (-1) >= Lo /\ Greatest(operand) + (-1) <= Hi
    <3>1. \A x \in 0 .. Hi : x + (-1) >= Lo /\ x + (-1) <= Hi
      BY <2>2 DEF Lo, Hi
    <3> QED
      BY <2>15, <3>1
  <2> QED
    BY <2>12, <2>15, <2>16 DEF RangesProveNoOverflow
<1> QED
  BY <1>1, InductiveAlways, PTL

-----------------------------------------------------------------------------
(* What is printed.                                                        *)

\* The calls of handlers in the function as it is now, or as it was when a count
\* was first asked for.
SitesToReport == Cardinality(Sites(IF early THEN program.blocks ELSE F))

\* There is a result of the analysis once it was asked for, and the last one is
\* printed after everything else.
CountOK ==
    /\ pc \notin {"compiled", "run", "done"} =>
          /\ printed = NotCounted
          /\ counted = IF early THEN SitesToReport ELSE NotCounted
    /\ printed # NotCounted => printed = SitesToReport

\* What the analysis counts in a state of the invariant.
LEMMA CountOfFunction ==
    ASSUME Inductive
    PROVE  /\ Count(F) = Cardinality(Sites(F))
           /\ SitesToReport \in Nat
<1> DEFINE B == program.blocks
<1>1. DOMAIN F \in SUBSET DOMAIN B /\ IsFiniteSet(DOMAIN B)
  BY FunctionFacts DEF Inductive, TypeOK, GraphsOK
<1>2. IsFiniteSet(DOMAIN F)
  BY <1>1, FS_Subset
<1>3. /\ Count(F) = Cardinality(Sites(F)) /\ Count(F) \in Nat
      /\ Count(B) = Cardinality(Sites(B)) /\ Count(B) \in Nat
  BY <1>1, <1>2, CountsEverySite
<1> HIDE DEF Count
<1> QED
  BY <1>3 DEF SitesToReport

\* The cached count goes with the handlers it was counted from.
LEMMA CountAlways == Spec => []CountOK
<1>1. Init => CountOK
  BY DEF Init, CountOK
<1>2. Inductive /\ CountOK /\ [Next]_vars => CountOK'
  <2> SUFFICES ASSUME Inductive, CountOK, [Next]_vars PROVE CountOK'
    OBVIOUS
  <2>1. /\ Count(F) = Cardinality(Sites(F)) /\ SitesToReport \in Nat
    BY CountOfFunction
  <2> HIDE DEF Count, Inductive
  <2>2. CASE PrintEarly
    <3>1. /\ pc = "begin" /\ ~ early /\ early' /\ pc' = pc /\ F' = F /\ program' = program
          /\ printed' = printed /\ counted' = GetResult
      BY <2>2 DEF PrintEarly, passVars
    <3>2. F = program.blocks
      BY <3>1 DEF Inductive, GraphsOK
    <3>3. GetResult = Cardinality(Sites(F))
      BY <2>1, <3>1 DEF CountOK, GetResult
    <3>4. SitesToReport' = Cardinality(Sites(F))
      BY <3>1, <3>2 DEF SitesToReport, Sites, IsUBSanSite
    <3> QED
      BY <3>1, <3>3, <3>4 DEF CountOK
  <2>3. CASE PrintRemaining
    <3>1. /\ pc = "simplified" /\ pc' = "compiled" /\ early' = early /\ F' = F /\ program' = program
          /\ printed' = GetResult
      BY <2>3 DEF PrintRemaining, passVars
    <3>2. GetResult = SitesToReport
      <4>1. counted = IF early THEN SitesToReport ELSE NotCounted
        BY <3>1 DEF CountOK
      <4>2. SitesToReport # NotCounted
        BY <2>1 DEF NotCounted
      <4>3. ~ early => SitesToReport = Cardinality(Sites(F))
        BY DEF SitesToReport
      <4> HIDE DEF SitesToReport
      <4> QED
        BY <2>1, <4>1, <4>2, <4>3 DEF GetResult
    <3>3. SitesToReport' = SitesToReport
      BY <3>1 DEF SitesToReport, Sites, IsUBSanSite
    <3> QED
      BY <3>1, <3>2, <3>3 DEF CountOK
  <2>4. CASE Call \/ Step \/ UNCHANGED vars
    <3>1. /\ F' = F /\ program' = program /\ UNCHANGED <<early, counted, printed>>
          /\ pc' = pc \/ (pc \in {"compiled", "run"} /\ pc' \in {"run", "done"})
      BY <2>4 DEF Call, Step, vars, passVars, countVars
    <3>2. SitesToReport' = SitesToReport
      BY <3>1 DEF SitesToReport, Sites, IsUBSanSite
    <3> QED
      BY <3>1, <3>2 DEF CountOK
  <2>5. ASSUME /\ pc \notin {"compiled", "run", "done"} /\ program' = program
               /\ UNCHANGED <<early, counted, printed>>
        PROVE  CountOK'
    <3>1. printed = NotCounted /\ counted = IF early THEN SitesToReport ELSE NotCounted
      BY <2>5 DEF CountOK
    <3>2. early => SitesToReport' = SitesToReport
      BY <2>5 DEF SitesToReport, Sites, IsUBSanSite
    <3> QED
      BY <2>5, <3>1, <3>2 DEF CountOK
  <2>6. CASE Collect \/ Decide \/ Optimize \/ CollectNullChecks \/ SimplifyCFG
    BY <2>5, <2>6 DEF Collect, Decide, Optimize, CollectNullChecks, SimplifyCFG, passVars, countVars
  <2>7. CASE \E b \in todo : StraightenClone(b) \/ OptimizeNullCheck(b)
    BY <2>5, <2>7 DEF StraightenClone, OptimizeNullCheck, passVars, countVars
  <2> QED
    BY <2>2, <2>3, <2>4, <2>6, <2>7 DEF Next
<1> QED
  BY <1>1, <1>2, InductiveAlways, PTL DEF Spec

\* The count that is printed at the end of the pipeline is the number of the
\* handlers' calls in the function as it is compiled; but when a count was printed
\* before, it is the number of the calls there were then, since the result is never
\* invalidated (UBSanCountPass.cpp:490-524, 575; UBSanCountPass.h).
THEOREM PrintedIsCounted == Spec => [](printed # NotCounted => printed = SitesToReport)
<1>1. CountOK => (printed # NotCounted => printed = SitesToReport)
  BY DEF CountOK
<1> QED
  BY <1>1, CountAlways, PTL

-----------------------------------------------------------------------------
(* What survives.                                                           *)

\* What is assumed of the checks in a function.
LEMMA CheckFacts ==
    ASSUME program \in Programs, NEW b \in DOMAIN program.blocks
    PROVE  LET r == program.blocks[b]
           IN  /\ r.succ \in Seq(DOMAIN program.blocks)
               /\ ~ Succs(program.blocks, b) \subseteq Plain =>
                     /\ b \in Plain /\ Len(r.succ) = 2
                     /\ r.succ[1] \notin Plain /\ r.succ[2] \in Plain
                     /\ Succs(program.blocks, b) = {r.succ[1], r.succ[2]}
               /\ Len(r.succ) = 2 => r.tests # {}
               /\ r.tests \cap {"overflow", "null"} # {} =>
                     ~ Succs(program.blocks, b) \subseteq Plain
               /\ "overflow" \in r.tests => r.tests = {"overflow"}
               /\ "null" \in r.tests =>
                     \E x \in DOMAIN program.blocks : "null" \in program.blocks[x].icmps
<1> DEFINE B == program.blocks
           r == B[b]
<1>1. ChecksGuarded(B) /\ Closed(B)
  BY FrontEndAssumption, FunctionFacts
<1>2. r.succ \in Seq(DOMAIN B)
  BY <1>1, BlockFacts
<1>3. Plain = {x \in DOMAIN B : B[x].site = "none"}
  BY DEF Plain
<1>4. /\ Len(r.succ) = 2 => r.tests # {}
      /\ r.tests \cap {"overflow", "null"} # {} => ~ Succs(B, b) \subseteq Plain
      /\ "overflow" \in r.tests => r.tests = {"overflow"}
      /\ "null" \in r.tests => \E x \in DOMAIN B : "null" \in B[x].icmps
      /\ \A i \in DOMAIN r.succ : r.succ[i] \notin Plain =>
            /\ b \in Plain /\ i = 1 /\ Len(r.succ) = 2 /\ r.succ[2] \in Plain
  BY <1>1, <1>3, Zenon DEF ChecksGuarded
<1>5. ASSUME ~ Succs(B, b) \subseteq Plain
      PROVE  /\ b \in Plain /\ Len(r.succ) = 2 /\ r.succ[1] \notin Plain /\ r.succ[2] \in Plain
             /\ Succs(B, b) = {r.succ[1], r.succ[2]}
  <2>1. PICK i \in DOMAIN r.succ : r.succ[i] \notin Plain
    BY <1>5 DEF Succs
  <2>2. b \in Plain /\ i = 1 /\ Len(r.succ) = 2 /\ r.succ[2] \in Plain
    BY <1>4, <2>1
  <2>3. DOMAIN r.succ = {1, 2}
    BY <1>2, <2>2
  <2>4. Succs(B, b) = {r.succ[i_1] : i_1 \in {1, 2}}
    BY <2>3 DEF Succs
  <2> QED
    BY <2>1, <2>2, <2>4
<1> QED
  BY <1>2, <1>4, <1>5

\* A branch to a handler is straightened to the way on, and any other stays
\* (UBSanCountPass.cpp:145-194).
LEMMA StraightenCuts ==
    ASSUME NEW C, Closed(C), NEW b \in DOMAIN C
    PROVE  /\ (\A x \in Succs(C, b) : C[x].site = "none") => Straighten(C, b) = C
           /\ /\ Len(C[b].succ) = 2 /\ C[b].site = "none"
              /\ C[C[b].succ[1]].site # "none" /\ C[C[b].succ[2]].site = "none"
              => /\ Straighten(C, b)[b].succ = <<C[b].succ[2]>>
                 /\ Straighten(C, b)[b].tests = {}
<1>1. C[b].succ \in Seq(DOMAIN C)
  BY BlockFacts
<1>2. ASSUME \A x \in Succs(C, b) : C[x].site = "none"
      PROVE  Straighten(C, b) = C
  <2>1. HandlerSuccs(C, b) = {}
    BY <1>2 DEF HandlerSuccs, IsUBSanSite, Succs
  <2>2. Cardinality(HandlerSuccs(C, b)) # 1
    BY <2>1, FS_EmptySet
  <2> QED
    BY <2>2, Zenon DEF Straighten
<1>3. ASSUME Len(C[b].succ) = 2, C[b].site = "none",
             C[C[b].succ[1]].site # "none", C[C[b].succ[2]].site = "none"
      PROVE  /\ Straighten(C, b)[b].succ = <<C[b].succ[2]>>
             /\ Straighten(C, b)[b].tests = {}
  <2> DEFINE i == CHOOSE i \in HandlerSuccs(C, b) : TRUE
             handler == C[b].succ[i]
             other == C[b].succ[3 - i]
             D == [C EXCEPT ![b].succ = <<other>>, ![b].tests = {}]
  <2>1. DOMAIN C[b].succ = {1, 2}
    BY <1>1, <1>3
  <2>2. HandlerSuccs(C, b) = {1}
    BY <1>3, <2>1 DEF HandlerSuccs, IsUBSanSite
  <2>3. Cardinality(HandlerSuccs(C, b)) = 1
    BY <2>2, FS_Singleton
  <2>4. i = 1 /\ 3 - i = 2
    BY <2>2
  <2>5. handler = C[b].succ[1] /\ other = C[b].succ[2]
    BY <2>4
  <2>6. Straighten(C, b) = IF Preds(D, handler) # {} THEN D
                           ELSE [x \in DOMAIN D \ {handler} |-> D[x]]
    BY <1>3, <2>3 DEF Straighten
  <2> HIDE DEF i, handler, other
  <2>7. b # handler /\ b \in DOMAIN D
    BY <1>3, <2>5 DEF Closed
  <2>8. D[b].succ = <<other>> /\ D[b].tests = {}
    <3> DEFINE u == D[b]
               r == C[b]
               jump == <<other>>
    <3>1. r \in Blocks(DOMAIN C)
      BY BlockFacts
    <3>2. u = [r EXCEPT !.succ = jump, !.tests = {}]
      BY DEF Closed
    <3> HIDE DEF u, r, jump
    <3>3. u.succ = jump /\ u.tests = {}
      BY <3>1, <3>2 DEF Blocks
    <3> QED
      BY <3>3 DEF u, jump
  <2> HIDE DEF D
  <2>9. Straighten(C, b)[b] = D[b]
    BY <2>6, <2>7
  <2> QED
    BY <2>5, <2>8, <2>9
<1> QED
  BY <1>2, <1>3

\* A block that compares the result pointer with null has been looked at, and the handler
\* it branched to, if any, cut off.
Looked(b) == b \in DOMAIN program.blocks /\ "null" \in program.blocks[b].icmps /\ b \notin todo

Cut(b) == Looked(b) /\ ~ Succs(program.blocks, b) \subseteq Plain

\* Until SimplifyCFG, every block branches as it did or is cut off, and tests what no pass
\* took out.
BranchesCut ==
    \A b \in DOMAIN F :
        /\ b \in Removable => "overflow" \notin F[b].tests
        /\ IF pc = "sret" /\ Cut(b) THEN F[b].succ = <<program.blocks[b].succ[2]>>
           ELSE /\ F[b].succ = program.blocks[b].succ
                /\ program.blocks[b].tests \ Lost(b) \subseteq F[b].tests

\* The first null check that is looked at takes the comparison out of every test.
NullTaken ==
    (\E x \in DOMAIN program.blocks : Looked(x)) => \A b \in DOMAIN F : "null" \notin F[b].tests

\* What is compiled has the surviving handlers.
SurvivorsOK ==
    /\ pc \in {"optimised", "sret"} => BranchesCut
    /\ pc = "sret" => NullTaken
    /\ pc \in {"simplified", "compiled", "run", "done"} => Sites(F) = Survivors

\* What is said of the program and the removed checks alone stays so.
LEMMA SameSurvivors ==
    ASSUME program' = program, Removable' = Removable
    PROVE  /\ Survivors' = Survivors /\ Plain' = Plain
           /\ \A b : Lost(b)' = Lost(b)
<1>1. Plain' = Plain
  BY SameProgram
<1>2. \A b : Lost(b)' = Lost(b)
  BY DEF Lost
<1>3. \A b : StillGuards(b)' = StillGuards(b)
  BY DEF StillGuards
<1>4. Survivors' = Survivors
  BY <1>3 DEF Survivors, Sites, IsUBSanSite, Preds, Succs
<1> QED
  BY <1>1, <1>2, <1>4

\* No check was found removable when there are none.
LEMMA CollectSurvivors ==
    ASSUME Inductive, Collect
    PROVE  SurvivorsOK'
<1>1. /\ pc = "begin" /\ pc' \in {"clone", "optimised"} /\ F' = F
      /\ program' = program /\ Removable' = Removable
  BY DEF Collect
<1>2. F = program.blocks /\ Removable = {}
  BY <1>1 DEF Inductive, GraphsOK, RemovableOK
<1>3. BranchesCut'
  BY <1>1, <1>2 DEF BranchesCut
<1> QED
  BY <1>1, <1>3 DEF SurvivorsOK

\* Optimize takes overflow, and nothing else, out of what the removable checks test.
LEMMA OptimizeSurvivors ==
    ASSUME Inductive, Optimize
    PROVE  SurvivorsOK'
<1> DEFINE B == program.blocks
<1>1. /\ pc = "decided" /\ pc' = "optimised" /\ program' = program /\ Removable' = Removable
      /\ F' = [b \in DOMAIN F |->
                IF b \in Removable THEN [F[b] EXCEPT !.tests = @ \ {"overflow"}] ELSE F[b]]
  BY DEF Optimize
<1>2. Closed(F) /\ F = B
  BY <1>1 DEF Inductive, GraphsOK
<1>3. ASSUME NEW x \in DOMAIN F'
      PROVE  /\ F'[x].succ = B[x].succ /\ B[x].tests \ Lost(x) \subseteq F'[x].tests
             /\ x \in Removable => "overflow" \notin F'[x].tests
  <2> DEFINE r == F[x]
             u == F'[x]
  <2>1. x \in DOMAIN F /\ u = IF x \in Removable THEN [r EXCEPT !.tests = @ \ {"overflow"}] ELSE r
    BY <1>1
  <2>2. r \in Blocks(DOMAIN F) /\ r = B[x]
    BY <1>2, <2>1, BlockFacts
  <2>3. x \in Removable => "overflow" \in Lost(x)
    BY DEF Lost
  <2> HIDE DEF r, u
  <2>4. u.succ = r.succ /\ u.tests = IF x \in Removable THEN r.tests \ {"overflow"} ELSE r.tests
    BY <2>1, <2>2 DEF Blocks
  <2> QED
    BY <2>2, <2>3, <2>4 DEF u
<1>4. BranchesCut'
  <2>1. program.blocks' = B /\ \A b : Lost(b)' = Lost(b)
    BY <1>1, SameSurvivors
  <2> QED
    BY <1>1, <1>3, <2>1 DEF BranchesCut
<1> QED
  BY <1>1, <1>4 DEF SurvivorsOK

\* Every null check is still to be looked at.
LEMMA CollectNullChecksSurvivors ==
    ASSUME Inductive, SurvivorsOK, CollectNullChecks
    PROVE  SurvivorsOK'
<1> DEFINE B == program.blocks
<1>1. /\ pc = "optimised" /\ pc' = "sret" /\ program' = program /\ Removable' = Removable /\ F' = F
      /\ todo' = {b \in DOMAIN F : "null" \in F[b].icmps}
  BY DEF CollectNullChecks, ComparesSretToNull
<1>2. /\ Plain \subseteq DOMAIN F /\ program \in Programs
      /\ \A b \in DOMAIN F : F[b].icmps = B[b].icmps
  BY <1>1 DEF Inductive, GraphsOK, BranchesOK, TypeOK
<1>3. \A b : ~ Looked(b)'
  <2>1. ASSUME NEW b \in DOMAIN B, "null" \in B[b].icmps PROVE b \in todo'
    BY <1>1, <1>2, <2>1, FunctionFacts
  <2> QED
    BY <1>1, <2>1 DEF Looked
<1>4. BranchesCut /\ pc # "sret"
  BY <1>1 DEF SurvivorsOK
<1>5. \A b : Lost(b)' = Lost(b)
  BY <1>1, SameSurvivors
<1>6. BranchesCut'
  BY <1>1, <1>3, <1>4, <1>5 DEF BranchesCut, Cut
<1>7. NullTaken'
  BY <1>3 DEF NullTaken
<1> QED
  BY <1>1, <1>6, <1>7 DEF SurvivorsOK

\* The block that is looked at is cut off from its handler, and no other changes its way.
LEMMA OptimizeNullCheckSurvivors ==
    ASSUME Inductive, SurvivorsOK, NEW b \in todo, OptimizeNullCheck(b)
    PROVE  SurvivorsOK'
<1> DEFINE B == program.blocks
           D == Straighten(F, b)
<1>1. /\ pc = "sret" /\ pc' = pc /\ todo' = todo \ {b}
      /\ program' = program /\ Removable' = Removable
      /\ F' = [x \in DOMAIN D |-> [D[x] EXCEPT !.tests = @ \ {"null"}]]
  BY DEF OptimizeNullCheck
<1>2. /\ Closed(F) /\ b \in DOMAIN F /\ "null" \in B[b].icmps /\ program \in Programs
      /\ DOMAIN F \subseteq DOMAIN B
  BY <1>1 DEF Inductive, GraphsOK, TypeOK
<1>3. \A x \in DOMAIN F : F[x].site = B[x].site
  BY DEF Inductive, BranchesOK
<1>4. /\ Closed(D) /\ DOMAIN D \subseteq DOMAIN F
      /\ \A x \in DOMAIN D : x # b => D[x] = F[x]
  BY <1>2, StraightenKeeps
<1>5. /\ \A x \in DOMAIN F : x \in Removable => "overflow" \notin F[x].tests
      /\ \A x \in DOMAIN F :
            IF Cut(x) THEN F[x].succ = <<B[x].succ[2]>>
            ELSE F[x].succ = B[x].succ /\ B[x].tests \ Lost(x) \subseteq F[x].tests
  BY <1>1 DEF SurvivorsOK, BranchesCut
<1>6. F[b].succ = B[b].succ /\ B[b].tests \ Lost(b) \subseteq F[b].tests
  BY <1>2, <1>5 DEF Cut, Looked
<1>7. IF ~ Succs(B, b) \subseteq Plain THEN D[b].succ = <<B[b].succ[2]>> /\ D[b].tests = {}
      ELSE D = F
  <2>1. Succs(F, b) = Succs(B, b) /\ Succs(F, b) \subseteq DOMAIN F
    BY <1>2, <1>6, BlockFacts DEF Succs
  <2>2. CASE Succs(B, b) \subseteq Plain
    <3>1. \A x \in Succs(F, b) : F[x].site = "none"
      BY <1>3, <2>1, <2>2 DEF Plain
    <3> QED
      BY <1>2, <2>2, <3>1, StraightenCuts
  <2>3. CASE ~ Succs(B, b) \subseteq Plain
    <3>1. /\ b \in Plain /\ Len(B[b].succ) = 2
          /\ B[b].succ[1] \notin Plain /\ B[b].succ[2] \in Plain
          /\ Succs(B, b) = {B[b].succ[1], B[b].succ[2]}
      BY <1>2, <2>3, CheckFacts
    <3>2. /\ F[b].site = "none" /\ F[F[b].succ[1]].site # "none"
          /\ F[F[b].succ[2]].site = "none" /\ Len(F[b].succ) = 2
      BY <1>2, <1>3, <1>6, <2>1, <3>1 DEF Plain
    <3> QED
      BY <1>2, <1>6, <2>3, <3>2, StraightenCuts
  <2> QED
    BY <2>2, <2>3
<1> HIDE DEF D
<1>8. ASSUME NEW x \in DOMAIN F'
      PROVE  /\ x \in DOMAIN D /\ F'[x].succ = D[x].succ /\ F'[x].tests = D[x].tests \ {"null"}
  <2> DEFINE r == D[x]
             u == F'[x]
  <2>1. x \in DOMAIN D /\ u = [r EXCEPT !.tests = @ \ {"null"}]
    BY <1>1
  <2>2. r \in Blocks(DOMAIN D)
    BY <1>4, <2>1, BlockFacts
  <2> HIDE DEF r, u
  <2>3. u.succ = r.succ /\ u.tests = r.tests \ {"null"}
    BY <2>1, <2>2 DEF Blocks
  <2> QED
    BY <2>1, <2>3 DEF u, r
<1>9. Plain' = Plain /\ \A x : Lost(x)' = Lost(x)
  BY <1>1, SameSurvivors
<1>10. /\ \A x : x # b => (Cut(x)' <=> Cut(x))
       /\ Cut(b)' <=> ~ Succs(B, b) \subseteq Plain
  BY <1>1, <1>2, <1>9 DEF Cut, Looked, Succs
<1>11. BranchesCut'
  <2> SUFFICES ASSUME NEW x \in DOMAIN F'
               PROVE  /\ x \in Removable => "overflow" \notin F'[x].tests
                      /\ IF Cut(x)' THEN F'[x].succ = <<B[x].succ[2]>>
                         ELSE /\ F'[x].succ = B[x].succ
                              /\ B[x].tests \ Lost(x) \subseteq F'[x].tests
    BY <1>1, <1>9 DEF BranchesCut
  <2>1. /\ x \in DOMAIN D /\ x \in DOMAIN F /\ "null" \in Lost(x)
        /\ F'[x].succ = D[x].succ /\ F'[x].tests = D[x].tests \ {"null"}
    BY <1>4, <1>8 DEF Lost
  <2>2. CASE x # b
    BY <1>4, <1>5, <1>10, <2>1, <2>2
  <2>3. CASE x = b
    BY <1>5, <1>6, <1>7, <1>10, <2>1, <2>3
  <2> QED
    BY <2>2, <2>3
<1>12. NullTaken'
  BY <1>8 DEF NullTaken
<1> QED
  BY <1>1, <1>11, <1>12 DEF SurvivorsOK

\* What can be reached, but is not where the way begins, is reached from something that can.
LEMMA ReachedFrom ==
    ASSUME NEW C, NEW a \in DOMAIN C, NEW h, h # a, h \in DOMAIN C, Reaches(C, a, h),
           \A x \in DOMAIN C : Succs(C, x) \subseteq DOMAIN C
    PROVE  \E b \in DOMAIN C : Reaches(C, a, b) /\ h \in Succs(C, b)
<1> DEFINE S == {x \in DOMAIN C : Reaches(C, a, x)} \ {h}
<1>1. S \in SUBSET DOMAIN C /\ a \in S /\ h \notin S
  BY DEF Reaches
<1>2. PICK x \in S : ~ Succs(C, x) \subseteq S
  <2> HIDE DEF S
  <2> QED
    BY <1>1 DEF Reaches
<1>3. PICK y \in Succs(C, x) : y \notin S
  BY <1>2
<1>4. x \in DOMAIN C /\ Reaches(C, a, x) /\ y \in DOMAIN C
  BY <1>2
<1>5. Reaches(C, a, y)
  <2> SUFFICES ASSUME NEW T \in SUBSET DOMAIN C, a \in T, \A z \in T : Succs(C, z) \subseteq T
               PROVE  y \in T
    BY DEF Reaches
  <2>1. x \in T
    BY <1>4 DEF Reaches
  <2> QED
    BY <1>3, <2>1
<1>6. y = h
  BY <1>3, <1>4, <1>5
<1> QED
  BY <1>3, <1>4, <1>6

\* What can be reached after SimplifyCFG are the blocks without a handler, and the
\* handlers some branch still guards.
LEMMA SimplifyCFGSurvivors ==
    ASSUME Inductive, SurvivorsOK, SimplifyCFG
    PROVE  SurvivorsOK'
<1> DEFINE B == program.blocks
           D == Jumps(F)
<1>1. /\ pc = "sret" /\ pc' = "simplified" /\ todo = {}
      /\ program' = program /\ Removable' = Removable
      /\ F' = [b \in {x \in DOMAIN D : Reaches(D, "entry", x)} |-> D[b]]
  BY DEF SimplifyCFG, Jumps
<1>2. /\ Closed(F) /\ DOMAIN F \subseteq DOMAIN B /\ Plain \subseteq DOMAIN F
      /\ "entry" \in Plain /\ program \in Programs
      /\ ChecksGuarded(B)
  BY <1>1, FunctionFacts, FrontEndAssumption DEF Inductive, GraphsOK, TypeOK
<1>3. \A x \in DOMAIN F : /\ F[x].site = B[x].site /\ Succs(F, x) \subseteq Succs(B, x)
                          /\ "null" \notin B[x].icmps => SameBranch(x)
  BY DEF Inductive, BranchesOK
<1>4. /\ \A x \in DOMAIN F : x \in Removable => "overflow" \notin F[x].tests
      /\ \A x \in DOMAIN F :
            IF Cut(x) THEN F[x].succ = <<B[x].succ[2]>>
            ELSE F[x].succ = B[x].succ /\ B[x].tests \ Lost(x) \subseteq F[x].tests
      /\ \A x \in DOMAIN F : (\E y \in DOMAIN B : "null" \in B[y].icmps) => "null" \notin F[x].tests
  BY <1>1 DEF SurvivorsOK, BranchesCut, NullTaken, Looked
<1>5. DOMAIN D = DOMAIN F
  BY DEF Jumps
<1>6. \A x \in DOMAIN F :
        /\ D[x].site = F[x].site
        /\ D[x].succ = IF Len(F[x].succ) = 2 /\ F[x].tests = {} THEN <<F[x].succ[2]>> ELSE F[x].succ
        /\ Succs(D, x) \subseteq Succs(F, x)
  BY <1>2, JumpsKeep
<1>7. \A x \in DOMAIN D : Succs(D, x) \subseteq DOMAIN D
  BY <1>2, <1>5, <1>6, BlockFacts
<1> HIDE DEF D
<1>8. /\ DOMAIN F' = {x \in DOMAIN D : Reaches(D, "entry", x)}
      /\ \A x \in DOMAIN F' : F'[x].site = B[x].site
  BY <1>1, <1>3, <1>5, <1>6
<1>9. ASSUME NEW x \in Plain, NEW y \in Succs(B, x), y \in Plain
      PROVE  y \in Succs(D, x)
  <2>1. x \in DOMAIN F /\ x \in DOMAIN B
    BY <1>2
  <2>2. CASE Cut(x)
    <3>1. y = B[x].succ[2]
      BY <1>2, <1>9, <2>1, <2>2, CheckFacts DEF Cut
    <3>2. F[x].succ = <<y>>
      BY <1>4, <2>1, <2>2, <3>1
    <3>3. ~ (Len(F[x].succ) = 2 /\ F[x].tests = {})
      <4>1. Len(<<y>>) = 1
        OBVIOUS
      <4> QED
        BY <3>2, <4>1
    <3>4. D[x].succ = F[x].succ
      BY <1>6, <2>1, <3>3, Zenon
    <3> QED
      BY <3>2, <3>4 DEF Succs
  <2>3. CASE ~ Cut(x) /\ ~ (Len(F[x].succ) = 2 /\ F[x].tests = {})
    <3>1. D[x].succ = B[x].succ
      BY <1>4, <1>6, <2>1, <2>3
    <3> QED
      BY <1>9, <3>1 DEF Succs
  <2>4. CASE ~ Cut(x) /\ Len(F[x].succ) = 2 /\ F[x].tests = {}
    <3>1. F[x].succ = B[x].succ /\ B[x].tests \subseteq Lost(x) /\ D[x].succ = <<B[x].succ[2]>>
      BY <1>4, <1>6, <2>1, <2>4
    <3>2. B[x].tests # {}
      BY <1>2, <2>1, <2>4, <3>1, CheckFacts
    <3>3. B[x].tests \cap {"overflow", "null"} # {}
      BY <3>1, <3>2 DEF Lost
    <3>4. y = B[x].succ[2]
      BY <1>2, <1>9, <2>1, <3>3, CheckFacts
    <3> QED
      BY <3>1, <3>4 DEF Succs
  <2> QED
    BY <2>2, <2>3, <2>4
<1>10. Plain \subseteq DOMAIN F'
  <2> SUFFICES ASSUME NEW S \in SUBSET DOMAIN D, "entry" \in S, \A x \in S : Succs(D, x) \subseteq S
               PROVE  Plain \subseteq S
    BY <1>2, <1>5, <1>8 DEF Reaches
  <2> DEFINE T == S \cap Plain
  <2>1. T \in SUBSET Plain /\ "entry" \in T
    BY <1>2
  <2>2. \A x \in T : Succs(B, x) \cap Plain \subseteq T
    BY <1>9
  <2>3. Plain = {x \in DOMAIN B : B[x].site = "none"}
    BY DEF Plain
  <2> HIDE DEF T
  <2>4. Plain \subseteq T
    BY <1>2, <2>1, <2>2, <2>3, Zenon DEF ChecksGuarded
  <2> QED
    BY <2>4 DEF T
<1>11. ASSUME NEW h \in Sites(F') PROVE h \in Survivors
  <2>1. /\ h \in DOMAIN D /\ Reaches(D, "entry", h) /\ B[h].site # "none" /\ h \in DOMAIN B
    BY <1>2, <1>5, <1>8 DEF Sites, IsUBSanSite
  <2>2. "entry" \in DOMAIN D /\ h # "entry"
    BY <1>2, <1>5, <2>1 DEF Plain
  <2>3. PICK b \in DOMAIN D : h \in Succs(D, b)
    BY <1>7, <2>1, <2>2, ReachedFrom
  <2>4. b \in DOMAIN F /\ b \in DOMAIN B /\ h \in Succs(F, b) /\ h \in Succs(B, b)
    BY <1>2, <1>3, <1>5, <1>6, <2>3
  <2>5. /\ ~ Succs(B, b) \subseteq Plain /\ h \notin Plain
        /\ Len(B[b].succ) = 2 /\ B[b].succ[2] \in Plain
    BY <1>2, <2>1, <2>4, CheckFacts DEF Plain
  <2>6. D[b].succ # <<B[b].succ[2]>>
    <3> SUFFICES ASSUME D[b].succ = <<B[b].succ[2]>> PROVE FALSE
      OBVIOUS
    <3>1. Succs(D, b) = {B[b].succ[2]}
      BY DEF Succs
    <3> QED
      BY <2>3, <2>5, <3>1
  <2>7. ~ Cut(b) /\ F[b].succ = B[b].succ /\ F[b].tests # {}
    <3>1. ~ Cut(b)
      <4> SUFFICES ASSUME Cut(b) PROVE FALSE
        OBVIOUS
      <4>1. F[b].succ = <<B[b].succ[2]>>
        BY <1>4, <2>4
      <4>2. ~ (Len(F[b].succ) = 2 /\ F[b].tests = {})
        <5>1. Len(<<B[b].succ[2]>>) = 1
          OBVIOUS
        <5> QED
          BY <4>1, <5>1
      <4>3. D[b].succ = F[b].succ
        BY <1>6, <2>4, <4>2, Zenon
      <4> QED
        BY <2>6, <4>1, <4>3
    <3> QED
      BY <1>4, <1>6, <2>4, <2>5, <2>6, <3>1
  <2>8. "null" \notin B[b].icmps
    BY <1>1, <2>4, <2>5, <2>7 DEF Cut, Looked
  <2>9. PICK t \in F[b].tests : t \in B[b].tests
    BY <1>3, <2>4, <2>7, <2>8 DEF SameBranch
  <2>10. t # "null"
    BY <1>2, <1>4, <2>4, <2>9, CheckFacts
  <2>11. b \in Removable => t # "overflow"
    BY <1>4, <2>4
  <2>12. StillGuards(b)
    BY <2>8, <2>9, <2>10, <2>11 DEF StillGuards
  <2> QED
    BY <2>1, <2>4, <2>12 DEF Survivors, Sites, IsUBSanSite, Preds
<1>12. ASSUME NEW h \in Survivors PROVE h \in Sites(F')
  <2>1. h \in DOMAIN B /\ B[h].site # "none"
    BY DEF Survivors, Sites, IsUBSanSite
  <2>2. PICK b \in DOMAIN B : h \in Succs(B, b) /\ StillGuards(b)
    BY DEF Survivors, Preds
  <2>3. b \in Plain /\ b \in DOMAIN F
    BY <1>2, <2>1, <2>2, CheckFacts DEF Plain
  <2>4. F[b].succ = B[b].succ /\ B[b].tests \ Lost(b) \subseteq F[b].tests
    BY <1>4, <2>2, <2>3 DEF Cut, Looked, StillGuards
  <2>5. F[b].tests # {}
    <3>1. PICK t \in B[b].tests : t # "null"
      BY <2>2 DEF StillGuards
    <3>2. t = "overflow" => B[b].tests = {"overflow"}
      BY <1>2, <2>2, <3>1, CheckFacts
    <3>3. t \notin Lost(b)
      BY <2>2, <3>1, <3>2 DEF Lost, StillGuards
    <3> QED
      BY <2>4, <3>1, <3>3
  <2>6. h \in Succs(D, b)
    BY <1>6, <2>2, <2>3, <2>4, <2>5 DEF Succs
  <2>7. b \in DOMAIN D /\ Reaches(D, "entry", b) /\ h \in DOMAIN D
    BY <1>7, <1>8, <1>10, <2>3, <2>6
  <2>8. Reaches(D, "entry", h)
    BY <2>6, <2>7 DEF Reaches
  <2> QED
    BY <1>8, <2>1, <2>7, <2>8 DEF Sites, IsUBSanSite
<1>13. Survivors' = Survivors
  BY <1>1, SameSurvivors
<1>14. Sites(F)' = Sites(F')
  BY DEF Sites, IsUBSanSite
<1> QED
  BY <1>1, <1>11, <1>12, <1>13, <1>14 DEF SurvivorsOK

\* What is counted is what survives, in a pipeline that counts once: a handler is counted
\* if and only if some branch to it was neither removed nor straightened
\* (UBSanCountPass.cpp:575).
THEOREM SurvivorsAlwaysReported == Spec => []SurvivorsReported
<1>1. Init => SurvivorsOK
  BY DEF Init, SurvivorsOK
<1>2. Inductive /\ SurvivorsOK /\ [Next]_vars => SurvivorsOK'
  <2> SUFFICES ASSUME Inductive, SurvivorsOK, [Next]_vars PROVE SurvivorsOK'
    OBVIOUS
  <2>1. CASE Collect
    BY <2>1, CollectSurvivors
  <2>2. CASE Optimize
    BY <2>2, OptimizeSurvivors
  <2>3. CASE CollectNullChecks
    BY <2>3, CollectNullChecksSurvivors
  <2>4. CASE \E b \in todo : OptimizeNullCheck(b)
    BY <2>4, OptimizeNullCheckSurvivors
  <2>5. CASE SimplifyCFG
    BY <2>5, SimplifyCFGSurvivors
  <2>6. CASE PrintEarly \/ Decide \/ \E b \in todo : StraightenClone(b)
    <3>1. pc' \in {"begin", "clone", "decided"}
      BY <2>6 DEF PrintEarly, Decide, StraightenClone
    <3> QED
      BY <3>1 DEF SurvivorsOK
  <2>7. CASE PrintRemaining \/ Call \/ Step
    <3>1. /\ F' = F /\ program' = program /\ Removable' = Removable
          /\ pc \in {"simplified", "compiled", "run"} /\ pc' \in {"compiled", "run", "done"}
      BY <2>7 DEF PrintRemaining, Call, Step, passVars
    <3>2. Survivors' = Survivors /\ Sites(F)' = Sites(F)
      BY <3>1, SameSurvivors DEF Sites, IsUBSanSite
    <3> QED
      BY <3>1, <3>2 DEF SurvivorsOK
  <2>8. CASE UNCHANGED vars
    <3>1. /\ pc' = pc /\ F' = F /\ todo' = todo /\ program' = program /\ Removable' = Removable
      BY <2>8 DEF vars, passVars
    <3>2. /\ Survivors' = Survivors /\ Sites(F)' = Sites(F) /\ Plain' = Plain
          /\ \A b : Lost(b)' = Lost(b)
      BY <3>1, SameSurvivors DEF Sites, IsUBSanSite
    <3>3. BranchesCut' = BranchesCut /\ NullTaken' = NullTaken
      BY <3>1, <3>2 DEF BranchesCut, NullTaken, Cut, Looked, Succs
    <3> QED
      BY <3>1, <3>2, <3>3 DEF SurvivorsOK
  <2> QED
    BY <2>1, <2>2, <2>3, <2>4, <2>5, <2>6, <2>7, <2>8 DEF Next
<1>3. CountOK /\ SurvivorsOK => SurvivorsReported
  <2> SUFFICES ASSUME CountOK, SurvivorsOK, printed # NotCounted, ~ early
               PROVE  printed = Cardinality(Survivors)
    BY DEF SurvivorsReported
  <2>1. pc \in {"compiled", "run", "done"} /\ printed = SitesToReport
    BY DEF CountOK
  <2>2. Sites(F) = Survivors
    BY <2>1 DEF SurvivorsOK
  <2> QED
    BY <2>1, <2>2 DEF SitesToReport
<1> QED
  BY <1>1, <1>2, <1>3, CountAlways, InductiveAlways, PTL DEF Spec
=============================================================================
