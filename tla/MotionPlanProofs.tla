-------------------------- MODULE MotionPlanProofs ---------------------------
(***************************************************************************)
(* What reaches OMPL, and what the executor samples, for every robot and   *)
(* every request.                                                          *)
(*                                                                         *)
(* Most of it is about CubicSpline.  A number x is n / d, written          *)
(* Is(x, n, d), when its parts have that ratio and no common factor; the   *)
(* laws of this relation turn each equation of fractions into one of       *)
(* integers.  With them the two passes of the Thomas algorithm are shown   *)
(* to divide by no zero and to solve the system, the pieces to meet at the *)
(* waypoints, and the curve to stay near them.  The last sections are      *)
(* about Spec.                                                             *)
(***************************************************************************)
EXTENDS MotionPlan, FiniteSetTheorems, WellFoundedInduction, TLAPS

\* There is a least number in any set of numbers that has one at all.
LEMMA LeastNumber ==
    ASSUME NEW T, T \subseteq Nat, T # {}
    PROVE  \E x \in T : \A y \in T : x <= y
<1> DEFINE Before == {p \in Nat \X Nat : p[1] < p[2]}
<1>1. OpToRel(<, Nat) \subseteq Before /\ Before \subseteq OpToRel(<, Nat)
  BY Zenon DEF OpToRel
<1>2. IsWellFoundedOn(Before, Nat)
  BY <1>1, NatLessThanWellFounded, Zenon
<1>3. PICK x \in T : \A y \in T : <<y, x>> \notin Before
  <2> HIDE DEF Before
  <2> QED
    BY <1>2, WFMin, Zenon
<1>4. ASSUME NEW y \in T PROVE x <= y
  <2>1. x \in Nat /\ y \in Nat
    OBVIOUS
  <2>2. ~ (y < x)
    BY <1>3, <2>1
  <2> QED
    BY <2>1, <2>2
<1> QED
  BY <1>4

-----------------------------------------------------------------------------
(* Fractions.                                                              *)

\* The quotient by a divisor.
LEMMA ExactQuotient ==
    ASSUME NEW m \in Nat \ {0}, NEW k \in Int
    PROVE  (k * m) \div m = k
  OBVIOUS

\* A common divisor that is a combination of the two, and so the greatest one.
IsGcd(g, a, b) ==
    /\ g \in Nat \ {0}
    /\ \E k \in Nat : a = k * g
    /\ \E k \in Nat : b = k * g
    /\ \E u, v \in Int : g = u * a + v * b

\* The equation of Gcd's recursive function.
Euclid(n, f) ==
    f = [b \in 0 .. n |-> [a \in Nat |-> IF b = 0 THEN a ELSE f[a % b][b]]]

\* It has a solution.
LEMMA EuclidDefined ==
    ASSUME NEW n \in Nat
    PROVE  \E f : Euclid(n, f)
<1> DEFINE Bad == {k \in Nat : ~ \E f : Euclid(k, f)}
<1> SUFFICES ASSUME Bad # {} PROVE FALSE
  OBVIOUS
<1>1. PICK k \in Bad : \A j \in Bad : k <= j
  BY LeastNumber
<1>2. CASE k = 0
  <2> DEFINE f == [b \in 0 .. k |-> [a \in Nat |-> a]]
  <2>1. \A b \in 0 .. k : b = 0
    BY <1>2
  <2>2. f = [b \in 0 .. k |-> [a \in Nat |-> IF b = 0 THEN a ELSE f[a % b][b]]]
    BY <2>1, Zenon
  <2> QED
    BY <2>2, <1>1, Zenon DEF Euclid
<1>3. CASE k # 0
  <2>1. k - 1 \in Nat /\ k - 1 \notin Bad
    BY <1>1, <1>3
  <2>2. PICK f : Euclid(k - 1, f)
    BY <2>1
  <2> DEFINE g == [b \in 0 .. k |->
                     IF b = k THEN [a \in Nat |-> f[a % k][k]] ELSE f[b]]
  <2>3. ASSUME NEW b \in 0 .. k
        PROVE  g[b] = [a \in Nat |-> IF b = 0 THEN a ELSE g[a % b][b]]
    <3>1. CASE b = k
      <4>1. ASSUME NEW a \in Nat PROVE g[a % k][k] = f[a % k][k]
        <5>1. a % k \in 0 .. k /\ a % k # k
          BY <1>3
        <5> QED
          BY <5>1
      <4>2. g[k] = [a \in Nat |-> f[a % k][k]]
        BY <3>1
      <4> HIDE DEF g
      <4> QED
        BY <4>1, <4>2, <3>1, <1>3
    <3>2. CASE b # k
      <4>1. b \in 0 .. k - 1
        BY <3>2
      <4>2. f[b] = [a \in Nat |-> IF b = 0 THEN a ELSE f[a % b][b]]
        BY <2>2, <4>1 DEF Euclid
      <4>3. ASSUME NEW a \in Nat, b # 0 PROVE g[a % b][b] = f[a % b][b]
        <5>1. a % b \in 0 .. k /\ a % b # k
          BY <4>1, <4>3
        <5> QED
          BY <5>1
      <4>4. g[b] = f[b]
        BY <3>2
      <4> HIDE DEF g
      <4> QED
        BY <4>2, <4>3, <4>4
    <3> QED
      BY <3>1, <3>2
  <2>4. Euclid(k, g)
    <3>1. g = [b \in 0 .. k |-> g[b]]
      OBVIOUS
    <3> HIDE DEF g
    <3>2. [b \in 0 .. k |-> g[b]]
            = [b \in 0 .. k |-> [a \in Nat |-> IF b = 0 THEN a ELSE g[a % b][b]]]
      BY <2>3, Zenon
    <3> QED
      BY <3>1, <3>2, Zenon DEF Euclid
  <2> QED
    BY <2>4, <1>1
<1> QED
  BY <1>2, <1>3

\* One step of Euclid's algorithm.
LEMMA EuclidStep ==
    ASSUME NEW a \in Nat, NEW b \in Nat \ {0}, NEW g, IsGcd(g, b, a % b)
    PROVE  IsGcd(g, a, b)
<1>1. g \in Nat \ {0}
  BY DEF IsGcd
<1>2. PICK k \in Nat : b = k * g
  BY DEF IsGcd
<1> DEFINE r == a % b
           w == a \div b
<1>3. PICK l \in Nat : r = l * g
  BY DEF IsGcd
<1>4. PICK u, v \in Int : g = u * b + v * r
  BY DEF IsGcd
<1>5. w \in Nat /\ r \in Nat /\ a = w * b + r
  OBVIOUS
<1> HIDE DEF r, w
<1>6. w * k + l \in Nat /\ a = (w * k + l) * g
  BY <1>1, <1>2, <1>3, <1>5
<1>7. u - v * w \in Int /\ g = v * a + (u - v * w) * b
  BY <1>1, <1>4, <1>5
<1> QED
  BY <1>1, <1>2, <1>6, <1>7 DEF IsGcd

\* Gcd is the greatest common divisor, and one always exists unless both are zero.
LEMMA GcdIsGcd ==
    ASSUME NEW m \in Nat, NEW n \in Nat, m # 0 \/ n # 0
    PROVE  IsGcd(Gcd(m, n), m, n)
<1> DEFINE f == CHOOSE f : Euclid(n, f)
<1>1. Gcd(m, n) = f[n][m]
  BY Zenon DEF Gcd, Euclid
<1>2. Euclid(n, f)
  BY EuclidDefined
<1> HIDE DEF f
<1>3. \A b \in 0 .. n : \A a \in Nat : f[b][a] = IF b = 0 THEN a ELSE f[a % b][b]
  BY <1>2 DEF Euclid
<1> DEFINE Bad == {b \in 0 .. n : \E a \in Nat : (a # 0 \/ b # 0) /\ ~ IsGcd(f[b][a], a, b)}
<1>4. ASSUME Bad # {} PROVE FALSE
  <2>1. PICK b \in Bad : \A c \in Bad : b <= c
    <3>1. Bad \subseteq Nat
      OBVIOUS
    <3> HIDE DEF Bad
    <3> QED
      BY <1>4, <3>1, LeastNumber
  <2>2. PICK a \in Nat : (a # 0 \/ b # 0) /\ ~ IsGcd(f[b][a], a, b)
    BY <2>1
  <2>3. b \in 0 .. n
    BY <2>1
  <2>4. CASE b = 0
    <3>1. f[b][a] = a /\ a # 0
      BY <1>3, <2>2, <2>3, <2>4
    <3>2. a = 1 * a /\ b = 0 * a /\ a = 1 * a + 0 * b
      BY <2>4
    <3> QED
      BY <2>2, <3>1, <3>2 DEF IsGcd
  <2>5. CASE b # 0
    <3>1. a % b \in 0 .. n /\ a % b < b /\ b \in Nat \ {0}
      BY <2>3, <2>5
    <3>2. a % b \notin Bad
      BY <2>1, <2>3, <3>1
    <3>3. IsGcd(f[a % b][b], b, a % b)
      BY <3>1, <3>2
    <3>4. f[b][a] = f[a % b][b]
      BY <1>3, <2>3, <2>5
    <3> QED
      BY <2>2, <3>1, <3>3, <3>4, EuclidStep
  <2> QED
    BY <2>4, <2>5
<1> QED
  BY <1>1, <1>4

\* x is the number n / d: its parts have that ratio and no common factor, for a
\* combination of them is 1.
Is(x, n, d) ==
    \E p \in Int, w \in Nat \ {0} :
        x = <<p, w>> /\ p * d = n * w /\ \E u, v \in Int : u * p + v * w = 1

\* A factor can be cancelled.
LEMMA Cancel ==
    ASSUME NEW a \in Int, NEW b \in Int, NEW c \in Int, c # 0, a * c = b * c
    PROVE  a = b
<1>1. (a - b) * c = 0
  OBVIOUS
<1> QED
  BY <1>1

\* Numbers that divide each other are the same.
LEMMA Antisymmetric ==
    ASSUME NEW a \in Nat \ {0}, NEW b \in Nat \ {0}, NEW k \in Int, NEW l \in Int,
           a = k * b, b = l * a
    PROVE  a = b
<1>1. k > 0 /\ l > 0
  OBVIOUS
<1>2. a >= b
  BY <1>1
<1>3. b >= a
  BY <1>1
<1> QED
  BY <1>2, <1>3

\* Only one fraction in lowest terms is the number n / d.
LEMMA IsUnique ==
    ASSUME NEW x, NEW y, NEW n \in Int, NEW d \in Int, d # 0, Is(x, n, d), Is(y, n, d)
    PROVE  x = y
<1>1. PICK p \in Int, w \in Nat \ {0} :
        x = <<p, w>> /\ p * d = n * w /\ \E u, v \in Int : u * p + v * w = 1
  BY DEF Is
<1>2. PICK r \in Int, s \in Nat \ {0} :
        y = <<r, s>> /\ r * d = n * s /\ \E u, v \in Int : u * r + v * s = 1
  BY DEF Is
<1>3. PICK u \in Int, v \in Int : u * p + v * w = 1
  BY <1>1
<1>4. PICK a \in Int, b \in Int : a * r + b * s = 1
  BY <1>2
<1>5. p * s = r * w
  <2>1. (p * s) * d = (r * w) * d
    <3>1. (p * s) * d = (p * d) * s /\ (r * w) * d = (r * d) * w
      OBVIOUS
    <3>2. (n * w) * s = (n * s) * w
      OBVIOUS
    <3> QED
      BY <1>1, <1>2, <3>1, <3>2
  <2> QED
    BY <2>1, Cancel
<1>6. s = (u * r + v * s) * w
  <2>1. s = (u * p + v * w) * s
    BY <1>3
  <2>2. (u * p + v * w) * s = u * (p * s) + v * w * s
    OBVIOUS
  <2>3. (u * r + v * s) * w = u * (r * w) + v * w * s
    OBVIOUS
  <2> QED
    BY <1>5, <2>1, <2>2, <2>3
<1>7. w = (a * p + b * w) * s
  <2>1. w = (a * r + b * s) * w
    BY <1>4
  <2>2. (a * r + b * s) * w = a * (r * w) + b * w * s
    OBVIOUS
  <2>3. (a * p + b * w) * s = a * (p * s) + b * w * s
    OBVIOUS
  <2> QED
    BY <1>5, <2>1, <2>2, <2>3
<1>8. w = s
  <2>1. u * r + v * s \in Int /\ a * p + b * w \in Int
    OBVIOUS
  <2> QED
    BY <1>6, <1>7, <2>1, Antisymmetric
<1>9. p = r
  BY <1>5, <1>8, Cancel
<1> QED
  BY <1>1, <1>2, <1>8, <1>9

\* The same number has other numerators and denominators.
LEMMA IsSame ==
    ASSUME NEW x, NEW n \in Int, NEW d \in Int, d # 0, Is(x, n, d),
           NEW m \in Int, NEW e \in Int, n * e = m * d
    PROVE  Is(x, m, e)
<1>1. PICK p \in Int, w \in Nat \ {0} :
        x = <<p, w>> /\ p * d = n * w /\ \E u, v \in Int : u * p + v * w = 1
  BY DEF Is
<1>2. (p * e) * d = (m * w) * d
  <2>1. (p * e) * d = (p * d) * e /\ (m * w) * d = (m * d) * w /\ (n * w) * e = (n * e) * w
    OBVIOUS
  <2> QED
    BY <1>1, <2>1
<1>3. p * e = m * w
  BY <1>2, Cancel
<1> QED
  BY <1>1, <1>3 DEF Is

\* Frac is the number it is meant to be.
LEMMA FracIs ==
    ASSUME NEW n \in Int, NEW d \in Int, d # 0
    PROVE  Is(Frac(n, d), n, d)
<1> DEFINE sign == IF d < 0 THEN -1 ELSE 1
           g == Gcd(Abs(n), Abs(d))
<1>1. Abs(n) \in Nat /\ Abs(d) \in Nat \ {0} /\ sign \in {-1, 1} /\ sign * d = Abs(d)
  BY DEF Abs
<1>2. PICK tn \in {-1, 1} : Abs(n) = tn * n
  BY DEF Abs
<1>3. IsGcd(g, Abs(n), Abs(d))
  BY <1>1, GcdIsGcd
<1>4. Frac(n, d) = <<(sign * n) \div g, (sign * d) \div g>>
  BY DEF Frac
<1> HIDE DEF sign, g
<1>5. g \in Nat \ {0}
  BY <1>3 DEF IsGcd
<1>6. PICK k \in Nat : Abs(n) = k * g
  BY <1>3 DEF IsGcd
<1>7. PICK l \in Nat : Abs(d) = l * g
  BY <1>3 DEF IsGcd
<1>8. PICK u \in Int, v \in Int : g = u * Abs(n) + v * Abs(d)
  BY <1>3 DEF IsGcd
<1>9. PICK t \in {-1, 1} : sign * n = t * Abs(n)
  BY <1>1, <1>2
<1> DEFINE p == t * k
<1>10. p \in Int /\ l \in Nat \ {0}
  BY <1>1, <1>5, <1>7
<1>11. sign * n = p * g /\ sign * d = l * g
  BY <1>1, <1>5, <1>6, <1>7, <1>9
<1>12. Frac(n, d) = <<p, l>>
  BY <1>4, <1>5, <1>10, <1>11, ExactQuotient
<1>13. p * d = n * l
  <2>1. (p * d) * (sign * g) = (n * l) * (sign * g)
    <3>1. (p * d) * (sign * g) = (p * g) * (sign * d) /\ (n * l) * (sign * g) = (sign * n) * (l * g)
      BY <1>1, <1>5, <1>10
    <3>2. (sign * n) * (sign * d) \in Int
      BY <1>1
    <3> QED
      BY <1>11, <3>1
  <2>2. sign * g \in Int /\ sign * g # 0 /\ p * d \in Int /\ n * l \in Int
    BY <1>1, <1>5, <1>10
  <2> QED
    BY <2>1, <2>2, Cancel
<1>14. (u * t) * p + v * l = 1
  <2>1. g = (u * k + v * l) * g
    BY <1>5, <1>6, <1>7, <1>8
  <2>2. 1 * g = (u * k + v * l) * g /\ u * k + v * l \in Int /\ g # 0
    BY <1>5, <2>1
  <2>3. 1 = u * k + v * l
    BY <1>5, <2>2, Cancel
  <2>4. (u * t) * (t * k) = u * k
    OBVIOUS
  <2> QED
    BY <2>3, <2>4
<1>15. u * t \in Int
  OBVIOUS
<1> HIDE DEF p
<1> QED
  BY <1>10, <1>12, <1>13, <1>14, <1>15 DEF Is

\* A whole number.
LEMMA QIs ==
    ASSUME NEW n \in Int
    PROVE  Is(Q(n), n, 1)
<1>1. 0 * n + 1 * 1 = 1 /\ n * 1 = n * 1
  OBVIOUS
<1> QED
  BY <1>1 DEF Is, Q

\* The four operations, with the result brought to any denominator.
LEMMA IsSum ==
    ASSUME NEW x, NEW n \in Int, NEW d \in Int, d # 0, Is(x, n, d),
           NEW y, NEW m \in Int, NEW e \in Int, e # 0, Is(y, m, e),
           NEW r \in Int, NEW s \in Int, (n * e + m * d) * s = r * (d * e)
    PROVE  Is(x (+) y, r, s)
<1>1. PICK p \in Int, w \in Nat \ {0} : x = <<p, w>> /\ p * d = n * w
  BY DEF Is
<1>2. PICK a \in Int, b \in Nat \ {0} : y = <<a, b>> /\ a * e = m * b
  BY DEF Is
<1>3. x (+) y = Frac(p * b + a * w, w * b)
  BY <1>1, <1>2 DEF (+)
<1>4. p * b + a * w \in Int /\ w * b \in Int /\ w * b # 0 /\ d * e \in Int /\ d * e # 0
  OBVIOUS
<1>5. (p * b + a * w) * s = r * (w * b)
  <2>1. ((p * b + a * w) * s) * (d * e) = (r * (w * b)) * (d * e)
    <3>1. ((p * b + a * w) * s) * (d * e) = ((p * d) * (b * e) + (a * e) * (w * d)) * s
      OBVIOUS
    <3>2. ((n * w) * (b * e) + (m * b) * (w * d)) * s = ((n * e + m * d) * s) * (w * b)
      OBVIOUS
    <3>3. (r * (d * e)) * (w * b) = (r * (w * b)) * (d * e)
      OBVIOUS
    <3> QED
      BY <1>1, <1>2, <3>1, <3>2, <3>3
  <2>2. (p * b + a * w) * s \in Int /\ r * (w * b) \in Int
    OBVIOUS
  <2> QED
    BY <1>4, <2>1, <2>2, Cancel
<1> QED
  BY <1>3, <1>4, <1>5, FracIs, IsSame

\* The same of a difference.
LEMMA IsDifference ==
    ASSUME NEW x, NEW n \in Int, NEW d \in Int, d # 0, Is(x, n, d),
           NEW y, NEW m \in Int, NEW e \in Int, e # 0, Is(y, m, e),
           NEW r \in Int, NEW s \in Int, (n * e - m * d) * s = r * (d * e)
    PROVE  Is(x (-) y, r, s)
<1>1. PICK p \in Int, w \in Nat \ {0} : x = <<p, w>> /\ p * d = n * w
  BY DEF Is
<1>2. PICK a \in Int, b \in Nat \ {0} : y = <<a, b>> /\ a * e = m * b
  BY DEF Is
<1>3. x (-) y = Frac(p * b - a * w, w * b)
  BY <1>1, <1>2 DEF (-)
<1>4. p * b - a * w \in Int /\ w * b \in Int /\ w * b # 0 /\ d * e \in Int /\ d * e # 0
  OBVIOUS
<1>5. (p * b - a * w) * s = r * (w * b)
  <2>1. ((p * b - a * w) * s) * (d * e) = (r * (w * b)) * (d * e)
    <3>1. ((p * b - a * w) * s) * (d * e) = ((p * d) * (b * e) - (a * e) * (w * d)) * s
      OBVIOUS
    <3>2. ((n * w) * (b * e) - (m * b) * (w * d)) * s = ((n * e - m * d) * s) * (w * b)
      OBVIOUS
    <3>3. (r * (d * e)) * (w * b) = (r * (w * b)) * (d * e)
      OBVIOUS
    <3> QED
      BY <1>1, <1>2, <3>1, <3>2, <3>3
  <2>2. (p * b - a * w) * s \in Int /\ r * (w * b) \in Int
    OBVIOUS
  <2> QED
    BY <1>4, <2>1, <2>2, Cancel
<1> QED
  BY <1>3, <1>4, <1>5, FracIs, IsSame

\* Of a product.
LEMMA IsProduct ==
    ASSUME NEW x, NEW n \in Int, NEW d \in Int, d # 0, Is(x, n, d),
           NEW y, NEW m \in Int, NEW e \in Int, e # 0, Is(y, m, e),
           NEW r \in Int, NEW s \in Int, (n * m) * s = r * (d * e)
    PROVE  Is(x (.) y, r, s)
<1>1. PICK p \in Int, w \in Nat \ {0} : x = <<p, w>> /\ p * d = n * w
  BY DEF Is
<1>2. PICK a \in Int, b \in Nat \ {0} : y = <<a, b>> /\ a * e = m * b
  BY DEF Is
<1>3. x (.) y = Frac(p * a, w * b)
  BY <1>1, <1>2 DEF (.)
<1>4. p * a \in Int /\ w * b \in Int /\ w * b # 0 /\ d * e \in Int /\ d * e # 0
  OBVIOUS
<1>5. (p * a) * s = r * (w * b)
  <2>1. ((p * a) * s) * (d * e) = (r * (w * b)) * (d * e)
    <3>1. ((p * a) * s) * (d * e) = ((p * d) * (a * e)) * s
      OBVIOUS
    <3>2. ((n * w) * (m * b)) * s = ((n * m) * s) * (w * b)
      OBVIOUS
    <3>3. (r * (d * e)) * (w * b) = (r * (w * b)) * (d * e)
      OBVIOUS
    <3> QED
      BY <1>1, <1>2, <3>1, <3>2, <3>3
  <2>2. (p * a) * s \in Int /\ r * (w * b) \in Int
    OBVIOUS
  <2> QED
    BY <1>4, <2>1, <2>2, Cancel
<1> QED
  BY <1>3, <1>4, <1>5, FracIs, IsSame

\* And of a quotient by a number other than zero.
LEMMA IsQuotient ==
    ASSUME NEW x, NEW n \in Int, NEW d \in Int, d # 0, Is(x, n, d),
           NEW y, NEW m \in Int, NEW e \in Int, e # 0, Is(y, m, e), m # 0,
           NEW r \in Int, NEW s \in Int, (n * e) * s = r * (d * m)
    PROVE  Is(x (/) y, r, s)
<1>1. PICK p \in Int, w \in Nat \ {0} : x = <<p, w>> /\ p * d = n * w
  BY DEF Is
<1>2. PICK a \in Int, b \in Nat \ {0} : y = <<a, b>> /\ a * e = m * b
  BY DEF Is
<1>3. x (/) y = Frac(p * b, w * a)
  BY <1>1, <1>2 DEF (/)
<1>4. a # 0
  <2>1. m * b # 0
    OBVIOUS
  <2> QED
    BY <1>2, <2>1
<1>5. p * b \in Int /\ w * a \in Int /\ w * a # 0 /\ d * m \in Int /\ d * m # 0
  BY <1>4
<1>6. (p * b) * s = r * (w * a)
  <2>1. ((p * b) * s) * (d * m) = (r * (w * a)) * (d * m)
    <3>1. ((p * b) * s) * (d * m) = ((p * d) * (m * b)) * s
      OBVIOUS
    <3>2. ((n * w) * (a * e)) * s = ((n * e) * s) * (w * a)
      OBVIOUS
    <3>3. (r * (d * m)) * (w * a) = (r * (w * a)) * (d * m)
      OBVIOUS
    <3> QED
      BY <1>1, <1>2, <3>1, <3>2, <3>3
  <2>2. (p * b) * s \in Int /\ r * (w * a) \in Int
    OBVIOUS
  <2> QED
    BY <1>5, <2>1, <2>2, Cancel
<1> QED
  BY <1>3, <1>5, <1>6, FracIs, IsSame

\* Leq and Less compare as the numbers do.
LEMMA LeqIs ==
    ASSUME NEW x, NEW n \in Int, NEW d \in Nat \ {0}, Is(x, n, d),
           NEW y, NEW m \in Int, Is(y, m, d)
    PROVE  /\ Leq(x, y) <=> n <= m
           /\ Less(x, y) <=> n < m
<1>1. PICK p \in Int, w \in Nat \ {0} : x = <<p, w>> /\ p * d = n * w
  BY DEF Is
<1>2. PICK a \in Int, b \in Nat \ {0} : y = <<a, b>> /\ a * d = m * b
  BY DEF Is
<1>3. Leq(x, y) <=> p * b <= a * w
  BY <1>1, <1>2 DEF Leq
<1>4. (p * b) * d = n * (w * b) /\ (a * w) * d = m * (w * b)
  <2>1. (p * b) * d = (p * d) * b /\ (a * w) * d = (a * d) * w
    OBVIOUS
  <2> QED
    BY <1>1, <1>2, <2>1
<1> DEFINE A == p * b
           B == a * w
           C == w * b
<1>5. A \in Int /\ B \in Int /\ C \in Nat \ {0}
  OBVIOUS
<1>6. A * d = n * C /\ B * d = m * C
  BY <1>4
<1>7. Leq(x, y) <=> A <= B
  BY <1>3
<1> HIDE DEF A, B, C
<1>8. A <= B <=> n <= m
  <2>1. ASSUME A <= B PROVE n <= m
    <3>1. (B - A) * d >= 0
      BY <1>5, <2>1
    <3>2. (m - n) * C >= 0
      BY <1>5, <1>6, <3>1
    <3> QED
      BY <1>5, <3>2
  <2>2. ASSUME n <= m PROVE A <= B
    <3>1. (m - n) * C >= 0
      BY <1>5, <2>2
    <3>2. (B - A) * d >= 0
      BY <1>5, <1>6, <3>1
    <3> QED
      BY <1>5, <3>2
  <2> QED
    BY <2>1, <2>2
<1>9. Leq(x, y) <=> n <= m
  BY <1>7, <1>8
<1>10. n = m => x = y
  BY IsUnique
<1>11. x = y => n = m
  <2> SUFFICES ASSUME x = y PROVE n = m
    OBVIOUS
  <2>1. <<p, w>> = <<a, b>>
    BY <1>1, <1>2, Zenon
  <2>2. p = a /\ w = b
    BY <2>1
  <2>3. n * w = m * w
    BY <1>1, <1>2, <2>2
  <2> QED
    BY <2>3, Cancel
<1> QED
  BY <1>9, <1>10, <1>11 DEF Less

\* What the operations work on, and return: a number or NotFinite.
Numbers == {NotFinite} \cup {x \in Int \X (Nat \ {0}) : Is(x, x[1], x[2])}

\* A number has a numerator and a denominator.
LEMMA NumberIs ==
    ASSUME NEW x \in Numbers, x # NotFinite
    PROVE  \E n \in Int, d \in Nat \ {0} : x = <<n, d>> /\ Is(x, n, d)
  BY DEF Numbers

\* Is says that it is one.
LEMMA IsInNumbers ==
    ASSUME NEW x, NEW n, NEW d, Is(x, n, d)
    PROVE  x \in Numbers /\ x # NotFinite
<1>1. PICK p \in Int, w \in Nat \ {0} : x = <<p, w>> /\ \E u, v \in Int : u * p + v * w = 1
  BY DEF Is
<1>2. Is(x, p, w)
  BY <1>1 DEF Is
<1>3. x[1] = p /\ x[2] = w /\ x \in Int \X (Nat \ {0})
  BY <1>1
<1> QED
  BY <1>2, <1>3 DEF Numbers, NotFinite

\* Frac returns one.
LEMMA FracNumber ==
    ASSUME NEW n \in Int, NEW d \in Int
    PROVE  Frac(n, d) \in Numbers
<1>1. CASE d = 0
  BY <1>1 DEF Frac, Numbers
<1>2. CASE d # 0
  BY <1>2, FracIs, IsInNumbers
<1> QED
  BY <1>1, <1>2

\* So do the operations, whatever they are given.
LEMMA Closed ==
    ASSUME NEW x \in Numbers, NEW y \in Numbers
    PROVE  /\ x (+) y \in Numbers /\ x (-) y \in Numbers
           /\ x (.) y \in Numbers /\ x (/) y \in Numbers
<1>1. PICK p \in Int, w \in Int : x = <<p, w>>
  BY DEF Numbers, NotFinite
<1>2. PICK a \in Int, b \in Int : y = <<a, b>>
  BY DEF Numbers, NotFinite
<1>3. /\ p * b + a * w \in Int /\ p * b - a * w \in Int /\ w * b \in Int
      /\ p * a \in Int /\ p * b \in Int /\ w * a \in Int
  OBVIOUS
<1>4. x (+) y = Frac(p * b + a * w, w * b)
  BY <1>1, <1>2 DEF (+)
<1>5. x (-) y = Frac(p * b - a * w, w * b)
  BY <1>1, <1>2 DEF (-)
<1>6. x (.) y = Frac(p * a, w * b)
  BY <1>1, <1>2 DEF (.)
<1>7. x (/) y = IF b = 0 THEN NotFinite ELSE Frac(p * b, w * a)
  BY <1>1, <1>2 DEF (/)
<1> QED
  BY <1>3, <1>4, <1>5, <1>6, <1>7, FracNumber DEF Numbers

\* Whole numbers are numbers.
LEMMA QNumber ==
    ASSUME NEW n \in Int
    PROVE  Q(n) \in Numbers
  BY QIs, IsInNumbers

\* The numbers are what IsNumber tests for: no common factor but 1.
LEMMA NumbersAreNumbers ==
    ASSUME NEW x \in Numbers
    PROVE  IsNumber(x)
<1> SUFFICES ASSUME x # NotFinite PROVE IsNumber(x)
  BY DEF IsNumber
<1>1. PICK p \in Int, w \in Nat \ {0} : x = <<p, w>> /\ \E u, v \in Int : u * p + v * w = 1
  BY DEF Numbers, Is
<1>2. PICK u \in Int, v \in Int : u * p + v * w = 1
  BY <1>1
<1> DEFINE g == Gcd(Abs(p), w)
<1>3. Abs(p) \in Nat
  BY DEF Abs
<1>4. IsGcd(g, Abs(p), w)
  BY <1>3, GcdIsGcd
<1> HIDE DEF g
<1>5. g \in Nat \ {0}
  BY <1>4 DEF IsGcd
<1>6. PICK k \in Nat : Abs(p) = k * g
  BY <1>4 DEF IsGcd
<1>7. PICK l \in Nat : w = l * g
  BY <1>4 DEF IsGcd
<1>8. PICK t \in {-1, 1} : p = t * k * g
  BY <1>5, <1>6 DEF Abs
<1>9. 1 = (u * t * k + v * l) * g
  <2>1. (u * t * k + v * l) * g = u * (t * k * g) + v * (l * g)
    BY <1>5
  <2> QED
    BY <1>2, <1>7, <1>8, <2>1
<1> DEFINE m == u * t * k + v * l
<1>10. g = 1
  <2>1. m \in Int /\ 1 = m * g
    BY <1>9
  <2> HIDE DEF m
  <2>2. m >= 1
    BY <1>5, <2>1
  <2>3. (m - 1) * g >= 0
    BY <1>5, <2>1, <2>2
  <2> QED
    BY <1>5, <2>1, <2>3
<1> QED
  BY <1>1, <1>10 DEF IsNumber, g

-----------------------------------------------------------------------------
(* The two passes of the Thomas algorithm, for one joint.                  *)

\* The diagonal element of row i, after the row above it has been eliminated.
Pivot(h, i, last) == (Q(2) (.) (h[i - 1] (+) h[i])) (-) (h[i - 1] (.) last.mu)

\* Row i of the forward sweep, from the one above it.
Row(y, h, i, last) ==
    [mu |-> h[i] (/) Pivot(h, i, last),
     z |-> (Alpha(y, h, i) (-) (h[i - 1] (.) last.z)) (/) Pivot(h, i, last)]

\* The row above the first: M[0] is 0.
FirstRow == [mu |-> Q(0), z |-> Q(0)]

\* The equation of Sweep's recursive function, up to row k.
Rows(y, h, k, f) ==
    f = [i \in 0 .. k |-> IF i = 0 THEN FirstRow ELSE Row(y, h, i, f[i - 1])]

\* It has a solution.
LEMMA RowsDefined ==
    ASSUME NEW y, NEW h, NEW n \in Nat
    PROVE  \E f : Rows(y, h, n, f)
<1> DEFINE Bad == {k \in Nat : ~ \E f : Rows(y, h, k, f)}
<1> SUFFICES ASSUME Bad # {} PROVE FALSE
  OBVIOUS
<1>1. PICK k \in Bad : \A j \in Bad : k <= j
  BY LeastNumber
<1>2. CASE k = 0
  <2> DEFINE f == [i \in 0 .. k |-> FirstRow]
  <2>1. \A i \in 0 .. k : i = 0
    BY <1>2
  <2>2. f = [i \in 0 .. k |-> IF i = 0 THEN FirstRow ELSE Row(y, h, i, f[i - 1])]
    BY <2>1, Zenon
  <2> QED
    BY <2>2, <1>1, Zenon DEF Rows
<1>3. CASE k # 0
  <2>1. k - 1 \in Nat /\ k - 1 \notin Bad
    BY <1>1, <1>3
  <2>2. PICK f : Rows(y, h, k - 1, f)
    BY <2>1
  <2> DEFINE g == [i \in 0 .. k |-> IF i = k THEN Row(y, h, k, f[k - 1]) ELSE f[i]]
  <2>3. ASSUME NEW i \in 0 .. k
        PROVE  g[i] = IF i = 0 THEN FirstRow ELSE Row(y, h, i, g[i - 1])
    <3>1. i # 0 => g[i - 1] = f[i - 1]
      <4>1. i # 0 => i - 1 \in 0 .. k /\ i - 1 # k
        BY <2>1
      <4> QED
        BY <4>1
    <3>2. CASE i = k
      BY <3>1, <3>2, <1>3
    <3>3. CASE i # k
      <4>1. i \in 0 .. k - 1
        BY <3>3
      <4>2. f[i] = IF i = 0 THEN FirstRow ELSE Row(y, h, i, f[i - 1])
        BY <2>2, <4>1 DEF Rows
      <4>3. g[i] = f[i]
        BY <3>3
      <4> HIDE DEF g
      <4> QED
        BY <3>1, <4>2, <4>3
    <3> QED
      BY <3>2, <3>3
  <2>4. Rows(y, h, k, g)
    <3>1. g = [i \in 0 .. k |-> g[i]]
      OBVIOUS
    <3> HIDE DEF g
    <3>2. [i \in 0 .. k |-> g[i]]
            = [i \in 0 .. k |-> IF i = 0 THEN FirstRow ELSE Row(y, h, i, g[i - 1])]
      BY <2>3, Zenon
    <3> QED
      BY <3>1, <3>2, Zenon DEF Rows
  <2> QED
    BY <2>4, <1>1
<1> QED
  BY <1>2, <1>3

\* So the sweep computes every row from the one above it.
LEMMA SweepRows ==
    ASSUME NEW y, NEW h, NEW n \in Nat, DOMAIN h = 0 .. n
    PROVE  /\ Sweep(y, h)[0] = FirstRow
           /\ \A i \in 1 .. n : Sweep(y, h)[i] = Row(y, h, i, Sweep(y, h)[i - 1])
<1> DEFINE f == CHOOSE f : Rows(y, h, n, f)
<1>1. Sweep(y, h) = f
  BY Zenon DEF Sweep, Rows, Row, FirstRow, Pivot
<1>2. Rows(y, h, n, f)
  BY RowsDefined
<1> HIDE DEF f
<1>3. \A i \in 0 .. n : f[i] = IF i = 0 THEN FirstRow ELSE Row(y, h, i, f[i - 1])
  BY <1>2 DEF Rows
<1> QED
  BY <1>1, <1>3

\* The equation of BackSubstitution's recursive function, from row k downwards.
Upwards(sweep, n, k, M) ==
    M = [i \in k .. n |-> IF i \notin 0 .. n - 1 THEN Q(0)
                          ELSE sweep[i].z (-) (sweep[i].mu (.) M[i + 1])]

\* It has a solution.
LEMMA UpwardsDefined ==
    ASSUME NEW sweep, NEW n \in Nat, NEW steps \in 0 .. n
    PROVE  \E M : Upwards(sweep, n, n - steps, M)
<1> DEFINE Bad == {k \in 0 .. n : ~ \E M : Upwards(sweep, n, n - k, M)}
<1> SUFFICES ASSUME Bad # {} PROVE FALSE
  OBVIOUS
<1>1. PICK k \in Bad : \A j \in Bad : k <= j
  <2>1. Bad \subseteq Nat
    OBVIOUS
  <2> HIDE DEF Bad
  <2> QED
    BY <2>1, LeastNumber
<1> DEFINE up(M, i) == sweep[i].z (-) (sweep[i].mu (.) M[i + 1])
<1>2. CASE k = 0
  <2> DEFINE f == [i \in n - k .. n |-> Q(0)]
  <2>1. \A i \in n - k .. n : i \notin 0 .. n - 1
    BY <1>2
  <2>2. f = [i \in n - k .. n |-> IF i \notin 0 .. n - 1 THEN Q(0) ELSE up(f, i)]
    BY <2>1, Zenon
  <2> QED
    BY <2>2, <1>1, Zenon DEF Upwards
<1>3. CASE k # 0
  <2>1. k - 1 \in 0 .. n /\ k - 1 \notin Bad /\ k \in 1 .. n
    BY <1>1, <1>3
  <2>2. PICK f : Upwards(sweep, n, n - (k - 1), f)
    BY <2>1
  <2> DEFINE g == [i \in n - k .. n |-> IF i = n - k THEN up(f, i) ELSE f[i]]
  <2>3. ASSUME NEW i \in n - k .. n
        PROVE  g[i] = IF i \notin 0 .. n - 1 THEN Q(0) ELSE up(g, i)
    <3>1. i # n => g[i + 1] = f[i + 1]
      <4>1. i # n => i + 1 \in n - k .. n /\ i + 1 # n - k
        BY <2>1
      <4> QED
        BY <4>1
    <3>2. i \notin 0 .. n - 1 <=> i = n
      BY <2>1
    <3>3. i # n => up(g, i) = up(f, i)
      <4> HIDE DEF g
      <4> QED
        BY <3>1
    <3>4. CASE i = n - k
      <4>1. g[i] = up(f, i) /\ i # n
        BY <3>4, <2>1
      <4> HIDE DEF g, up
      <4> QED
        BY <3>2, <3>3, <4>1
    <3>5. CASE i # n - k
      <4>1. i \in n - (k - 1) .. n
        BY <3>5, <2>1
      <4>2. f[i] = IF i \notin 0 .. n - 1 THEN Q(0) ELSE up(f, i)
        BY <2>2, <4>1 DEF Upwards
      <4>3. g[i] = f[i]
        BY <3>5
      <4> HIDE DEF g, up
      <4> QED
        BY <3>2, <3>3, <4>2, <4>3
    <3> QED
      BY <3>4, <3>5
  <2>4. Upwards(sweep, n, n - k, g)
    <3>1. g = [i \in n - k .. n |-> g[i]]
      OBVIOUS
    <3> HIDE DEF g
    <3>2. [i \in n - k .. n |-> g[i]]
            = [i \in n - k .. n |-> IF i \notin 0 .. n - 1 THEN Q(0) ELSE up(g, i)]
      BY <2>3, Zenon
    <3> QED
      BY <3>1, <3>2, Zenon DEF Upwards
  <2> QED
    BY <2>4, <1>1
<1> QED
  BY <1>2, <1>3

\* So back substitution computes every M from the one after it, and the last is 0.
LEMMA BackSubstitutionRows ==
    ASSUME NEW y, NEW h, NEW n \in Nat \ {0}, DOMAIN h = 0 .. n - 1, DOMAIN y = 0 .. n
    PROVE  /\ BackSubstitution(y, h)[n] = Q(0)
           /\ \A i \in 0 .. n - 1 :
                BackSubstitution(y, h)[i] =
                    Sweep(y, h)[i].z (-) (Sweep(y, h)[i].mu (.) BackSubstitution(y, h)[i + 1])
<1> DEFINE f == CHOOSE M : Upwards(Sweep(y, h), n, 0, M)
<1>1. BackSubstitution(y, h) = f
  BY Zenon DEF BackSubstitution, Upwards
<1>2. Upwards(Sweep(y, h), n, 0, f)
  <2>1. n \in 0 .. n /\ n - n = 0
    OBVIOUS
  <2>2. \E M : Upwards(Sweep(y, h), n, 0, M)
    BY <2>1, UpwardsDefined
  <2> QED
    BY <2>2
<1> HIDE DEF f
<1>3. \A i \in 0 .. n : f[i] = IF i \notin 0 .. n - 1 THEN Q(0)
                               ELSE Sweep(y, h)[i].z (-) (Sweep(y, h)[i].mu (.) f[i + 1])
  BY <1>2 DEF Upwards
<1>4. n \in 0 .. n /\ n \notin 0 .. n - 1 /\ \A i \in 0 .. n - 1 : i \in 0 .. n
  OBVIOUS
<1> QED
  BY <1>1, <1>3, <1>4

\* Two ways to write a number have the same ratio.
LEMMA IsRatio ==
    ASSUME NEW x, NEW n \in Int, NEW d \in Int, Is(x, n, d),
           NEW m \in Int, NEW e \in Int, Is(x, m, e)
    PROVE  n * e = m * d
<1>1. PICK p \in Int, w \in Nat \ {0} : x = <<p, w>> /\ p * d = n * w
  BY DEF Is
<1>2. PICK a \in Int, b \in Nat \ {0} : x = <<a, b>> /\ a * e = m * b
  BY DEF Is
<1>3. a = p /\ b = w
  <2>1. <<p, w>> = <<a, b>>
    BY <1>1, <1>2, Zenon
  <2> QED
    BY <2>1
<1>4. (n * e) * w = (m * d) * w
  <2>1. (n * e) * w = (n * w) * e /\ (m * d) * w = (m * w) * d /\ (p * d) * e = (p * e) * d
    OBVIOUS
  <2> QED
    BY <1>1, <1>2, <1>3, <2>1
<1> QED
  BY <1>4, Cancel

\* Over a common denominator.
LEMMA SameDenominator ==
    ASSUME NEW x, NEW n \in Int, NEW d \in Int, d # 0, Is(x, n, d),
           NEW y, NEW m \in Int, Is(y, m, d)
    PROVE  Is(x (+) y, n + m, d) /\ Is(x (-) y, n - m, d)
<1>1. (n * d + m * d) * d = (n + m) * (d * d) /\ (n * d - m * d) * d = (n - m) * (d * d)
  OBVIOUS
<1>2. n + m \in Int /\ n - m \in Int
  OBVIOUS
<1>3. Is(x (+) y, n + m, d)
  BY <1>1, <1>2, IsSum
<1>4. Is(x (-) y, n - m, d)
  BY <1>1, <1>2, IsDifference
<1> QED
  BY <1>3, <1>4

-----------------------------------------------------------------------------
(* One joint that passes the whole numbers Y[0], ..., Y[n] at n steps of   *)
(* the same length H / K.                                                  *)

\* What is known of y and h, in terms of whole numbers.
Uniform(y, h, n, Y, H, K) ==
    /\ n \in Nat \ {0} /\ H \in Nat \ {0} /\ K \in Nat \ {0}
    /\ Y \in [0 .. n -> Int]
    /\ DOMAIN y = 0 .. n /\ \A i \in 0 .. n : y[i] = Q(Y[i])
    /\ DOMAIN h = 0 .. n - 1 /\ \A i \in 0 .. n - 1 : Is(h[i], H, K)

\* Three times K times the change of the difference at i.
Bend(Y, K, i) == 3 * K * (Y[i + 1] - Y[i]) - 3 * K * (Y[i] - Y[i - 1])

\* A difference of neighbours.
LEMMA DifferenceIs ==
    ASSUME NEW y, NEW h, NEW n, NEW Y, NEW H, NEW K, Uniform(y, h, n, Y, H, K),
           NEW i \in 0 .. n - 1
    PROVE  Y[i + 1] - Y[i] \in Int /\ Is(y[i + 1] (-) y[i], Y[i + 1] - Y[i], 1)
<1>1. i \in 0 .. n /\ i + 1 \in 0 .. n
  BY DEF Uniform
<1>2. Y[i] \in Int /\ Y[i + 1] \in Int /\ y[i] = Q(Y[i]) /\ y[i + 1] = Q(Y[i + 1])
  BY <1>1 DEF Uniform
<1> DEFINE A == Y[i]
           B == Y[i + 1]
<1>3. A \in Int /\ B \in Int /\ Is(y[i], A, 1) /\ Is(y[i + 1], B, 1)
  BY <1>2, QIs
<1> HIDE DEF A, B
<1>4. (B * 1 - A * 1) * 1 = (B - A) * (1 * 1)
  BY <1>3
<1>5. B - A \in Int /\ Is(y[i + 1] (-) y[i], B - A, 1)
  BY <1>3, <1>4, IsDifference
<1> QED
  BY <1>5 DEF A, B

\* The right-hand side of row i.
LEMMA AlphaIs ==
    ASSUME NEW y, NEW h, NEW n, NEW Y, NEW H, NEW K, Uniform(y, h, n, Y, H, K),
           NEW i \in 1 .. n - 1
    PROVE  Bend(Y, K, i) \in Int /\ Is(Alpha(y, h, i), Bend(Y, K, i), H)
<1>1. n \in Nat \ {0} /\ H \in Nat \ {0} /\ K \in Nat \ {0}
  BY DEF Uniform
<1>2. i \in 0 .. n - 1 /\ i - 1 \in 0 .. n - 1 /\ (i - 1) + 1 = i
  BY <1>1
<1>3. Is(h[i], H, K) /\ Is(h[i - 1], H, K)
  BY <1>2 DEF Uniform
<1> DEFINE A == Y[i + 1] - Y[i]
           B == Y[i] - Y[i - 1]
<1>4. A \in Int /\ Is(y[i + 1] (-) y[i], A, 1)
  BY <1>2, DifferenceIs
<1>5. B \in Int /\ Is(y[i] (-) y[i - 1], B, 1)
  BY <1>2, DifferenceIs
<1> HIDE DEF A, B
<1>6. Is(Q(3), 3, 1)
  BY QIs
<1>7. (3 * K) * H = (3 * K) * (1 * H) /\ 3 * K \in Int
  BY <1>1
<1>8. Is(Q(3) (/) h[i], 3 * K, H) /\ Is(Q(3) (/) h[i - 1], 3 * K, H)
  BY <1>1, <1>3, <1>6, <1>7, IsQuotient
<1>9. Is((Q(3) (/) h[i]) (.) (y[i + 1] (-) y[i]), 3 * K * A, H)
  <2>1. ((3 * K) * A) * H = (3 * K * A) * (H * 1) /\ 3 * K * A \in Int
    BY <1>1, <1>4
  <2> QED
    BY <1>1, <1>4, <1>7, <1>8, <2>1, IsProduct
<1>10. Is((Q(3) (/) h[i - 1]) (.) (y[i] (-) y[i - 1]), 3 * K * B, H)
  <2>1. ((3 * K) * B) * H = (3 * K * B) * (H * 1) /\ 3 * K * B \in Int
    BY <1>1, <1>5
  <2> QED
    BY <1>1, <1>5, <1>7, <1>8, <2>1, IsProduct
<1> DEFINE C == 3 * K * A
           D == 3 * K * B
           x == (Q(3) (/) h[i]) (.) (y[i + 1] (-) y[i])
           z == (Q(3) (/) h[i - 1]) (.) (y[i] (-) y[i - 1])
<1>11. C \in Int /\ D \in Int
  BY <1>1, <1>4, <1>5
<1>12. Is(x, C, H) /\ Is(z, D, H)
  BY <1>9, <1>10
<1>13. Alpha(y, h, i) = x (-) z
  BY DEF Alpha
<1>14. Bend(Y, K, i) = C - D
  BY DEF Bend, A, B
<1> HIDE DEF C, D, x, z
<1>15. C - D \in Int
  BY <1>11
<1>16. Is(x (-) z, C - D, H)
  BY <1>1, <1>11, <1>12, SameDenominator
<1> QED
  BY <1>13, <1>14, <1>15, <1>16

\* The pivot of a row under one with a mu between 0 and 1 is between three and four
\* times the step, so the division by it is safe (trajectory.cpp has no check).
LEMMA PivotIs ==
    ASSUME NEW y, NEW h, NEW n, NEW Y, NEW H, NEW K, Uniform(y, h, n, Y, H, K),
           NEW i \in 1 .. n - 1, NEW last,
           NEW W \in Nat \ {0}, NEW P \in 0 .. W, Is(last.mu, P, W)
    PROVE  /\ H * (4 * W - P) \in Nat \ {0} /\ K * W \in Nat \ {0}
           /\ Is(Pivot(h, i, last), H * (4 * W - P), K * W)
<1>1. n \in Nat \ {0} /\ H \in Nat \ {0} /\ K \in Nat \ {0}
  BY DEF Uniform
<1>2. i \in 0 .. n - 1 /\ i - 1 \in 0 .. n - 1
  BY <1>1
<1>3. Is(h[i], H, K) /\ Is(h[i - 1], H, K)
  BY <1>2 DEF Uniform
<1> DEFINE a == Q(2) (.) (h[i - 1] (+) h[i])
           b == h[i - 1] (.) last.mu
<1>4. Pivot(h, i, last) = a (-) b
  BY DEF Pivot
<1>5. Is(h[i - 1] (+) h[i], H + H, K)
  BY <1>1, <1>3, SameDenominator
<1>6. Is(a, 4 * H, K)
  <2>1. (2 * (H + H)) * K = (4 * H) * (1 * K) /\ H + H \in Int /\ 4 * H \in Int
    BY <1>1
  <2>2. Is(Q(2), 2, 1)
    BY QIs
  <2> QED
    BY <1>1, <1>5, <2>1, <2>2, IsProduct
<1>7. Is(b, H * P, K * W)
  <2>1. (H * P) * (K * W) = (H * P) * (K * W) /\ H * P \in Int /\ K * W \in Int
    BY <1>1
  <2> QED
    BY <1>1, <1>3, <2>1, IsProduct
<1> HIDE DEF a, b
<1>8. 4 * W - P \in Nat \ {0}
  OBVIOUS
<1>9. H * (4 * W - P) \in Nat \ {0} /\ K * W \in Nat \ {0}
  BY <1>1, <1>8
<1>10. Is(a, 4 * H * W, K * W)
  <2>1. (4 * H) * (K * W) = (4 * H * W) * K /\ 4 * H \in Int /\ 4 * H * W \in Int
    BY <1>1
  <2> QED
    BY <1>1, <1>6, <1>9, <2>1, IsSame
<1>11. Is(a (-) b, 4 * H * W - H * P, K * W)
  <2> DEFINE p == 4 * H * W
             w == H * P
             s == K * W
  <2>1. p \in Int /\ w \in Int /\ s \in Int /\ s # 0
    BY <1>1
  <2>2. Is(a, p, s) /\ Is(b, w, s)
    BY <1>7, <1>10
  <2> HIDE DEF p, w, s
  <2>3. Is(a (-) b, p - w, s)
    BY <2>1, <2>2, SameDenominator
  <2> QED
    BY <2>3 DEF p, w, s
<1>12. 4 * H * W - H * P = H * (4 * W - P)
  BY <1>1
<1> QED
  BY <1>4, <1>9, <1>11, <1>12

\* A row in whole numbers.
LEMMA RowIs ==
    ASSUME NEW y, NEW h, NEW n, NEW Y, NEW H, NEW K, Uniform(y, h, n, Y, H, K),
           NEW i \in 1 .. n - 1, NEW last,
           NEW W \in Nat \ {0}, NEW P \in 0 .. W, NEW Z \in Int,
           Is(last.mu, P, W), Is(last.z, Z, W)
    PROVE  /\ Bend(Y, K, i) \in Int /\ 4 * W - P \in Nat \ {0}
           /\ Is(Row(y, h, i, last).mu, W, 4 * W - P)
           /\ Is(Row(y, h, i, last).z, Bend(Y, K, i) * K * W - H * H * Z, H * H * (4 * W - P))
<1>1. n \in Nat \ {0} /\ H \in Nat \ {0} /\ K \in Nat \ {0}
  BY DEF Uniform
<1>2. i \in 0 .. n - 1 /\ i - 1 \in 0 .. n - 1
  BY <1>1
<1>3. Is(h[i], H, K) /\ Is(h[i - 1], H, K)
  BY <1>2 DEF Uniform
<1> DEFINE A == Bend(Y, K, i)
           pivot == Pivot(h, i, last)
           alpha == Alpha(y, h, i)
           part == h[i - 1] (.) last.z
<1>4. A \in Int /\ Is(alpha, A, H)
  BY AlphaIs
<1>5. /\ H * (4 * W - P) \in Nat \ {0} /\ K * W \in Nat \ {0}
      /\ Is(pivot, H * (4 * W - P), K * W)
  BY PivotIs
<1>6. Row(y, h, i, last).mu = h[i] (/) pivot /\ Row(y, h, i, last).z = (alpha (-) part) (/) pivot
  BY DEF Row
<1>7. 4 * W - P \in Nat \ {0}
  OBVIOUS
<1>8. Is(part, H * Z, K * W)
  <2> DEFINE p == H * Z
             s == K * W
  <2>1. p \in Int /\ s \in Int /\ (H * Z) * s = p * (K * W)
    BY <1>1
  <2> HIDE DEF p, s
  <2>2. Is(part, p, s)
    BY <1>1, <1>3, <2>1, IsProduct
  <2> QED
    BY <2>2 DEF p, s
<1> HIDE DEF A, pivot, alpha, part
<1> DEFINE R == 4 * W - P
           N == A * K * W - H * H * Z
<1>9. R \in Int /\ R # 0 /\ N \in Int
  BY <1>1, <1>4
<1>10. H * R \in Int /\ H * R # 0 /\ Is(pivot, H * R, K * W)
  BY <1>5
<1>11. Is(alpha (-) part, N, H * K * W)
  <2>1. (A * (K * W) - (H * Z) * H) * (H * K * W) = N * (H * (K * W))
    BY <1>1, <1>4
  <2>2. /\ H \in Int /\ H # 0 /\ K * W \in Int /\ K * W # 0
        /\ H * Z \in Int /\ H * K * W \in Int
    BY <1>1
  <2> HIDE DEF N
  <2> QED
    BY <1>4, <1>8, <1>9, <2>1, <2>2, IsDifference
<1> HIDE DEF R, N
<1>12. Is(h[i] (/) pivot, W, R)
  <2> DEFINE p == H * R
             s == K * W
  <2>1. (H * s) * R = W * (K * p)
    BY <1>1, <1>9
  <2>2. s \in Int /\ s # 0 /\ p \in Int /\ p # 0 /\ Is(pivot, p, s)
    BY <1>1, <1>10
  <2> HIDE DEF p, s
  <2>3. W \in Int /\ R \in Int /\ H \in Int /\ K \in Int /\ K # 0 /\ Is(h[i], H, K)
    BY <1>1, <1>3, <1>9
  <2> QED
    BY <2>1, <2>2, <2>3, IsQuotient
<1>13. Is((alpha (-) part) (/) pivot, N, H * H * R)
  <2>1. (N * (K * W)) * (H * H * R) = N * ((H * K * W) * (H * R))
    BY <1>1, <1>9
  <2>2. /\ K * W \in Int /\ K * W # 0 /\ H * K * W \in Int /\ H * K * W # 0
        /\ H * H * R \in Int
    BY <1>1, <1>9
  <2> QED
    BY <1>9, <1>10, <1>11, <2>1, <2>2, IsQuotient
<1> QED
  BY <1>4, <1>6, <1>7, <1>12, <1>13 DEF R, N, A

\* Every mu is between 0 and 1, and mu and z have a common denominator.
LEMMA SweepNumbers ==
    ASSUME NEW y, NEW h, NEW n, NEW Y, NEW H, NEW K, Uniform(y, h, n, Y, H, K),
           NEW i \in 0 .. n - 1
    PROVE  \E W \in Nat \ {0}, Z \in Int : \E P \in 0 .. W :
              Is(Sweep(y, h)[i].mu, P, W) /\ Is(Sweep(y, h)[i].z, Z, W)
<1> DEFINE row(k) == Sweep(y, h)[k]
           Good(k) == \E W \in Nat \ {0}, Z \in Int : \E P \in 0 .. W :
                         Is(row(k).mu, P, W) /\ Is(row(k).z, Z, W)
           Bad == {k \in 0 .. n - 1 : ~ Good(k)}
<1>1. n \in Nat \ {0} /\ H \in Nat \ {0} /\ K \in Nat \ {0} /\ DOMAIN h = 0 .. n - 1
  BY DEF Uniform
<1>2. row(0) = FirstRow /\ \A k \in 1 .. n - 1 : row(k) = Row(y, h, k, row(k - 1))
  <2>1. n - 1 \in Nat
    BY <1>1
  <2> QED
    BY <1>1, <2>1, SweepRows
<1> HIDE DEF row
<1>3. Good(0)
  <2>1. Is(row(0).mu, 0, 1) /\ Is(row(0).z, 0, 1)
    BY <1>2, QIs DEF FirstRow
  <2>2. 1 \in Nat \ {0} /\ 0 \in 0 .. 1 /\ 0 \in Int
    OBVIOUS
  <2> QED
    BY <2>1, <2>2
<1>4. ASSUME NEW k \in 1 .. n - 1, Good(k - 1) PROVE Good(k)
  <2>1. PICK W \in Nat \ {0}, Z \in Int : \E P \in 0 .. W :
            Is(row(k - 1).mu, P, W) /\ Is(row(k - 1).z, Z, W)
    BY <1>4
  <2>2. PICK P \in 0 .. W : Is(row(k - 1).mu, P, W) /\ Is(row(k - 1).z, Z, W)
    BY <2>1
  <2> DEFINE R == 4 * W - P
             N == Bend(Y, K, k) * K * W - H * H * Z
  <2>3. Bend(Y, K, k) \in Int /\ R \in Nat \ {0}
        /\ Is(row(k).mu, W, R) /\ Is(row(k).z, N, H * H * R)
    BY <1>2, <2>2, RowIs
  <2>4. N \in Int
    BY <1>1, <2>3
  <2>5. W <= R
    OBVIOUS
  <2> HIDE DEF R, N
  <2> DEFINE V == H * H * R
             U == H * H * W
  <2>6. V \in Nat \ {0} /\ U \in Nat /\ W * V = U * R
    BY <1>1, <2>3
  <2>7. U <= V
    <3>1. V - U = (H * H) * (R - W)
      BY <1>1, <2>3
    <3>2. H * H \in Nat /\ R - W \in Nat
      BY <1>1, <2>3, <2>5
    <3>3. (H * H) * (R - W) >= 0
      BY <3>2
    <3> HIDE DEF U, V
    <3> QED
      BY <2>6, <3>1, <3>3
  <2>8. Is(row(k).z, N, V)
    BY <2>3
  <2> HIDE DEF U, V
  <2>9. Is(row(k).mu, U, V)
    <3>1. /\ W \in Int /\ R \in Int /\ R # 0 /\ Is(row(k).mu, W, R) /\ U \in Int /\ V \in Int
          /\ W * V = U * R
      BY <2>3, <2>6
    <3> QED
      BY <3>1, IsSame
  <2>10. U \in 0 .. V
    BY <2>6, <2>7
  <2> QED
    BY <2>4, <2>6, <2>8, <2>9, <2>10
<1> HIDE DEF Good
<1>5. ASSUME Bad # {} PROVE FALSE
  <2>1. PICK k \in Bad : \A j \in Bad : k <= j
    <3>1. Bad \subseteq Nat
      OBVIOUS
    <3> HIDE DEF Bad
    <3> QED
      BY <1>5, <3>1, LeastNumber
  <2>2. k \in 1 .. n - 1 /\ ~ Good(k)
    BY <1>3, <2>1
  <2>3. k - 1 \in 0 .. n - 1 /\ ~ (k <= k - 1)
    BY <1>1, <2>2
  <2>4. Good(k - 1)
    BY <2>1, <2>3
  <2> QED
    BY <1>4, <2>2, <2>4
<1>6. Good(i)
  BY <1>5
<1> QED
  BY <1>6 DEF Good, row

\* Every M is a number too.
LEMMA MomentNumbers ==
    ASSUME NEW y, NEW h, NEW n, NEW Y, NEW H, NEW K, Uniform(y, h, n, Y, H, K),
           NEW i \in 0 .. n
    PROVE  \E W \in Nat \ {0}, m \in Int : Is(BackSubstitution(y, h)[i], m, W)
<1> DEFINE M(k) == BackSubstitution(y, h)[k]
           row(k) == Sweep(y, h)[k]
           Good(k) == \E W \in Nat \ {0}, m \in Int : Is(M(k), m, W)
           Bad == {k \in 0 .. n : ~ Good(n - k)}
<1>1. n \in Nat \ {0} /\ DOMAIN h = 0 .. n - 1 /\ DOMAIN y = 0 .. n
  BY DEF Uniform
<1>2. M(n) = Q(0) /\ \A k \in 0 .. n - 1 : M(k) = row(k).z (-) (row(k).mu (.) M(k + 1))
  BY <1>1, BackSubstitutionRows
<1>3. Good(n)
  <2>1. Is(M(n), 0, 1) /\ 1 \in Nat \ {0} /\ 0 \in Int
    BY <1>2, QIs
  <2> HIDE DEF M
  <2> QED
    BY <2>1
<1>4. ASSUME NEW k \in 0 .. n - 1, Good(k + 1) PROVE Good(k)
  <2>1. PICK W \in Nat \ {0}, m \in Int : Is(M(k + 1), m, W)
    BY <1>4
  <2>2. PICK V \in Nat \ {0}, Z \in Int : \E P \in 0 .. V :
            Is(row(k).mu, P, V) /\ Is(row(k).z, Z, V)
    BY SweepNumbers
  <2>3. PICK P \in 0 .. V : Is(row(k).mu, P, V) /\ Is(row(k).z, Z, V)
    BY <2>2
  <2>4. M(k) = row(k).z (-) (row(k).mu (.) M(k + 1))
    BY <1>2
  <2> HIDE DEF M, row
  <2> DEFINE U == V * W
             p == P * m
             w == Z * W
  <2>5. /\ U \in Nat \ {0} /\ p \in Int /\ w \in Int
        /\ (P * m) * U = p * (V * W) /\ Z * U = w * V
    OBVIOUS
  <2> HIDE DEF U, p, w
  <2>6. Is(row(k).mu (.) M(k + 1), p, U)
    <3> DEFINE x == row(k).mu
               z == M(k + 1)
    <3>1. /\ P \in Int /\ V \in Int /\ V # 0 /\ Is(x, P, V)
          /\ m \in Int /\ W \in Int /\ W # 0 /\ Is(z, m, W)
          /\ p \in Int /\ U \in Int /\ (P * m) * U = p * (V * W)
      BY <2>1, <2>3, <2>5
    <3> HIDE DEF x, z
    <3>2. Is(x (.) z, p, U)
      BY <3>1, IsProduct
    <3> QED
      BY <3>2 DEF x, z
  <2>7. Is(row(k).z, w, U)
    BY <2>3, <2>5, IsSame
  <2>8. w - p \in Int /\ Is(M(k), w - p, U)
    BY <2>4, <2>5, <2>6, <2>7, SameDenominator
  <2> QED
    BY <2>5, <2>8
<1> HIDE DEF Good
<1>5. ASSUME Bad # {} PROVE FALSE
  <2>1. PICK k \in Bad : \A j \in Bad : k <= j
    <3>1. Bad \subseteq Nat
      OBVIOUS
    <3> HIDE DEF Bad
    <3> QED
      BY <1>5, <3>1, LeastNumber
  <2>2. k \in 0 .. n /\ ~ Good(n - k)
    BY <2>1
  <2>3. k # 0
    <3>1. n - 0 = n
      BY <1>1
    <3> QED
      BY <1>3, <2>2, <3>1
  <2>4. /\ k - 1 \in 0 .. n /\ ~ (k <= k - 1)
        /\ n - k \in 0 .. n - 1 /\ n - (k - 1) = (n - k) + 1
    BY <1>1, <2>2, <2>3
  <2>5. Good(n - (k - 1))
    BY <2>1, <2>4
  <2> QED
    BY <1>4, <2>2, <2>4, <2>5
<1>6. Good(i)
  <2>1. n - i \in 0 .. n /\ n - (n - i) = i
    BY <1>1
  <2> QED
    BY <1>5, <2>1
<1> QED
  BY <1>6 DEF Good, M

\* M is what the row below it leaves of the row's own z.
LEMMA MomentIs ==
    ASSUME NEW z, NEW Z \in Int, NEW mu, NEW P \in Int, NEW V \in Nat \ {0},
           Is(z, Z, V), Is(mu, P, V),
           NEW b \in Int, NEW W \in Nat \ {0}, NEW next, Is(next, b, W)
    PROVE  Is(z (-) (mu (.) next), Z * W - P * b, V * W)
<1> DEFINE U == V * W
           p == P * b
           w == Z * W
           x == mu (.) next
<1>1. /\ U \in Int /\ U # 0 /\ p \in Int /\ w \in Int
      /\ (P * b) * U = p * (V * W) /\ Z * U = w * V
  OBVIOUS
<1>2. P \in Int /\ V \in Int /\ V # 0 /\ b \in Int /\ W \in Int /\ W # 0
  OBVIOUS
<1> HIDE DEF U, p, w
<1>3. Is(x, p, U)
  BY <1>1, <1>2, IsProduct
<1>4. Is(z, w, U)
  BY <1>1, <1>2, IsSame
<1> HIDE DEF x
<1>5. Is(z (-) x, w - p, U)
  BY <1>1, <1>3, <1>4, SameDenominator
<1> QED
  BY <1>5 DEF U, p, w, x

\* The arithmetic of the elimination.
LEMMA Elimination ==
    ASSUME NEW a \in Int, NEW b \in Int, NEW c \in Int, NEW A \in Int, NEW P \in Int,
           NEW Z \in Int, NEW V \in Int, NEW W \in Int, NEW H \in Int, NEW K \in Int, V # 0,
           a * V = Z * W - P * b,
           b * (H * H * (4 * V - P)) = (A * K * V - H * H * Z) * W - H * H * V * c
    PROVE  (a + 4 * b + c) * (H * H) = A * K * W
<1> DEFINE L == (a + 4 * b + c) * (H * H)
           R == A * K * W
<1>1. L * V = H * H * (a * V) + b * (H * H * 4 * V) + H * H * V * c
  OBVIOUS
<1>2. H * H * (a * V) = H * H * Z * W - b * (H * H * P)
  <2>1. H * H * (Z * W - P * b) = H * H * Z * W - b * (H * H * P)
    OBVIOUS
  <2> QED
    BY <2>1
<1>3. b * (H * H * 4 * V) - b * (H * H * P) = A * K * V * W - H * H * Z * W - H * H * V * c
  <2>1. b * (H * H * 4 * V) - b * (H * H * P) = b * (H * H * (4 * V - P))
    OBVIOUS
  <2>2. (A * K * V - H * H * Z) * W = A * K * V * W - H * H * Z * W
    OBVIOUS
  <2> QED
    BY <2>1, <2>2
<1>4. R * V = A * K * V * W
  OBVIOUS
<1>5. L * V = R * V
  <2> DEFINE p == H * H * (a * V)
             w == b * (H * H * 4 * V)
             r == H * H * V * c
             s == b * (H * H * P)
             t == H * H * Z * W
             u == A * K * V * W
  <2>1. /\ p \in Int /\ w \in Int /\ r \in Int /\ s \in Int /\ t \in Int /\ u \in Int
    OBVIOUS
  <2>2. L * V = p + w + r /\ p = t - s /\ w - s = u - t - r /\ R * V = u
    BY <1>1, <1>2, <1>3, <1>4
  <2> HIDE DEF p, w, r, s, t, u, L, R
  <2> QED
    BY <2>1, <2>2
<1>6. L \in Int /\ R \in Int
  OBVIOUS
<1> HIDE DEF L, R
<1>7. L = R
  BY <1>5, <1>6, Cancel
<1> QED
  BY <1>7 DEF L, R

\* The Thomas algorithm solves the system it is meant for: at every point between
\* the first and the last, h (M[i-1] + 4 M[i] + M[i+1]) is Alpha[i].
LEMMA ThomasSolves ==
    ASSUME NEW y, NEW h, NEW n, NEW Y, NEW H, NEW K, Uniform(y, h, n, Y, H, K),
           NEW i \in 1 .. n - 1,
           NEW a \in Int, NEW b \in Int, NEW c \in Int, NEW W \in Nat \ {0},
           Is(BackSubstitution(y, h)[i - 1], a, W), Is(BackSubstitution(y, h)[i], b, W),
           Is(BackSubstitution(y, h)[i + 1], c, W)
    PROVE  Bend(Y, K, i) \in Int /\ (a + 4 * b + c) * (H * H) = Bend(Y, K, i) * K * W
<1> DEFINE M(k) == BackSubstitution(y, h)[k]
           row(k) == Sweep(y, h)[k]
           A == Bend(Y, K, i)
<1>1. /\ n \in Nat \ {0} /\ H \in Nat \ {0} /\ K \in Nat \ {0}
      /\ DOMAIN h = 0 .. n - 1 /\ DOMAIN y = 0 .. n
  BY DEF Uniform
<1>2. i \in 0 .. n - 1 /\ i - 1 \in 0 .. n - 1 /\ (i - 1) + 1 = i /\ n - 1 \in Nat
  BY <1>1
<1>3. M(i - 1) = row(i - 1).z (-) (row(i - 1).mu (.) M(i))
  BY <1>1, <1>2, BackSubstitutionRows
<1>4. M(i) = row(i).z (-) (row(i).mu (.) M(i + 1))
  BY <1>1, <1>2, BackSubstitutionRows
<1>5. row(i) = Row(y, h, i, row(i - 1))
  BY <1>1, <1>2, SweepRows
<1>6. PICK V \in Nat \ {0}, Z \in Int : \E P \in 0 .. V :
          Is(row(i - 1).mu, P, V) /\ Is(row(i - 1).z, Z, V)
  BY <1>2, SweepNumbers
<1>7. PICK P \in 0 .. V : Is(row(i - 1).mu, P, V) /\ Is(row(i - 1).z, Z, V)
  BY <1>6
<1>8. /\ A \in Int /\ 4 * V - P \in Nat \ {0}
      /\ Is(row(i).mu, V, 4 * V - P)
      /\ Is(row(i).z, A * K * V - H * H * Z, H * H * (4 * V - P))
  BY <1>5, <1>7, RowIs
<1>9. Is(M(i - 1), a, W) /\ Is(M(i), b, W) /\ Is(M(i + 1), c, W)
  OBVIOUS
<1> HIDE DEF M, row, A
<1>10. a * V = Z * W - P * b
  <2>1. Is(M(i - 1), Z * W - P * b, V * W)
    <3> DEFINE z == row(i - 1).z
               mu == row(i - 1).mu
               next == M(i)
    <3>1. P \in Int /\ Is(z, Z, V) /\ Is(mu, P, V) /\ Is(next, b, W)
      BY <1>7, <1>9
    <3>2. M(i - 1) = z (-) (mu (.) next)
      BY <1>3
    <3> HIDE DEF z, mu, next
    <3>3. Is(z (-) (mu (.) next), Z * W - P * b, V * W)
      BY <3>1, MomentIs
    <3> QED
      BY <3>2, <3>3
  <2> DEFINE p == Z * W - P * b
             U == V * W
  <2>2. p \in Int /\ U \in Int /\ Is(M(i - 1), p, U)
    BY <2>1
  <2> HIDE DEF p, U
  <2>3. a * U = p * W
    BY <1>9, <2>2, IsRatio
  <2>4. (a * V) * W = p * W /\ a * V \in Int /\ W # 0
    BY <2>3 DEF U
  <2>5. a * V = p
    BY <2>2, <2>4, Cancel
  <2> QED
    BY <2>5 DEF p
<1>11. b * (H * H * (4 * V - P)) = (A * K * V - H * H * Z) * W - H * H * V * c
  <2> DEFINE R == 4 * V - P
             N == A * K * V - H * H * Z
             S == H * H * R
             T == H * H * V
  <2>1. R \in Nat \ {0} /\ N \in Int /\ Is(row(i).mu, V, R) /\ Is(row(i).z, N, S)
    BY <1>1, <1>8
  <2> HIDE DEF R, N
  <2>2. S \in Nat \ {0} /\ T \in Int /\ V * S = T * R
    <3>1. H * H \in Nat \ {0}
      BY <1>1
    <3>2. S \in Nat \ {0}
      BY <2>1, <3>1
    <3>3. T \in Int /\ V * (H * H * R) = (H * H * V) * R
      BY <1>1, <2>1
    <3> QED
      BY <3>2, <3>3
  <2> HIDE DEF S, T
  <2>3. Is(row(i).mu, T, S)
    <3>1. V \in Int /\ R \in Int /\ R # 0 /\ T \in Int /\ S \in Int /\ V * S = T * R
      BY <2>1, <2>2
    <3> QED
      BY <2>1, <3>1, IsSame
  <2>4. Is(M(i), N * W - T * c, S * W)
    BY <1>4, <1>9, <2>1, <2>2, <2>3, MomentIs
  <2> DEFINE p == N * W - T * c
             U == S * W
  <2>5. p \in Int /\ U \in Int /\ Is(M(i), p, U)
    BY <2>1, <2>2, <2>4
  <2> HIDE DEF p, U
  <2>6. b * U = p * W
    BY <1>9, <2>5, IsRatio
  <2>7. (b * S) * W = p * W /\ b * S \in Int /\ W # 0
    BY <2>2, <2>6 DEF U
  <2>8. b * S = p
    BY <2>5, <2>7, Cancel
  <2> QED
    BY <2>8 DEF p, S, N, T, R
<1>12. (a + 4 * b + c) * (H * H) = A * K * W
  <2>1. P \in Int /\ V \in Int /\ V # 0 /\ W \in Int /\ H \in Int /\ K \in Int
    BY <1>1
  <2> QED
    BY <1>8, <1>10, <1>11, <2>1, Elimination
<1> QED
  BY <1>8, <1>12 DEF A

\* A product with zero is zero, and a sum with zero is the other summand.
LEMMA Zero ==
    ASSUME NEW x, NEW n \in Int, NEW d \in Int, d # 0, Is(x, n, d),
           NEW z, Is(z, 0, 1)
    PROVE  Is(z (.) x, 0, 1) /\ Is(x (.) z, 0, 1) /\ Is(x (+) z, n, d)
<1>1. /\ 0 \in Int /\ 1 \in Int /\ 1 # 0 /\ (0 * n) * 1 = 0 * (1 * d) /\ (n * 0) * 1 = 0 * (d * 1)
      /\ (n * 1 + 0 * d) * d = n * (d * 1)
  OBVIOUS
<1>2. Is(z (.) x, 0, 1)
  BY <1>1, IsProduct
<1>3. Is(x (.) z, 0, 1)
  BY <1>1, IsProduct
<1>4. Is(x (+) z, n, d)
  BY <1>1, IsSum
<1> QED
  BY <1>2, <1>3, <1>4

\* The coefficients, in whole numbers, of a segment from place A to A + D with M
\* from a / W to b / W, that lasts H / K.
Segment(c, A, D, a, b, W, H, K) ==
    /\ A \in Int /\ D \in Int /\ a \in Int /\ b \in Int
    /\ W \in Nat \ {0} /\ H \in Nat \ {0} /\ K \in Nat \ {0}
    /\ c.a = Q(A)
    /\ Is(c.b, 6 * K * K * W * D - H * H * (2 * a + b), 6 * H * K * W)
    /\ Is(c.c, a, 2 * W)
    /\ Is(c.d, (b - a) * K, 6 * H * W)

\* They are what Coefficients computes, for any M.
LEMMA CoefficientsAre ==
    ASSUME NEW y, NEW h, NEW n, NEW Y, NEW H, NEW K, Uniform(y, h, n, Y, H, K),
           NEW i \in 0 .. n - 1, NEW M, NEW a \in Int, NEW b \in Int, NEW W \in Nat \ {0},
           Is(M[i], a, W), Is(M[i + 1], b, W),
           NEW D, D = Y[i + 1] - Y[i]
    PROVE  Segment(Coefficients(y, h, M, i), Y[i], D, a, b, W, H, K)
<1>1. n \in Nat \ {0} /\ H \in Nat \ {0} /\ K \in Nat \ {0} /\ i \in 0 .. n
  BY DEF Uniform
<1>2. Is(h[i], H, K) /\ y[i] = Q(Y[i])
  BY <1>1 DEF Uniform
<1> DEFINE diff == y[i + 1] (-) y[i]
           slope == diff (/) h[i]
           double == Q(2) (.) M[i]
           sum == double (+) M[i + 1]
           part == h[i] (.) sum
           sixth == part (/) Q(6)
           change == M[i + 1] (-) M[i]
           six == Q(6) (.) h[i]
           p == M[i]
           w == M[i + 1]
           s == h[i]
<1>3. /\ Coefficients(y, h, M, i).a = y[i]
      /\ Coefficients(y, h, M, i).b = slope (-) sixth
      /\ Coefficients(y, h, M, i).c = p (/) Q(2)
      /\ Coefficients(y, h, M, i).d = change (/) six
  BY DEF Coefficients, Slope
<1>4. D \in Int /\ Is(diff, D, 1)
  BY DifferenceIs
<1>5. Is(p, a, W) /\ Is(w, b, W) /\ Is(s, H, K)
  BY <1>2
<1>6. /\ slope = diff (/) s /\ double = Q(2) (.) p /\ sum = double (+) w
      /\ part = s (.) sum /\ sixth = part (/) Q(6)
      /\ change = w (-) p /\ six = Q(6) (.) s
  OBVIOUS
<1> HIDE DEF diff, slope, double, sum, part, sixth, change, six, p, w, s
<1>7. Is(Q(2), 2, 1) /\ Is(Q(6), 6, 1)
  BY QIs
<1>8. Is(p (/) Q(2), a, 2 * W)
  <2>1. /\ W \in Int /\ W # 0 /\ 1 \in Int /\ 1 # 0 /\ 2 \in Int /\ 2 # 0 /\ 2 * W \in Int
        /\ (a * 1) * (2 * W) = a * (W * 2)
    OBVIOUS
  <2> QED
    BY <1>5, <1>7, <2>1, IsQuotient
<1>9. Is(slope, D * K, H)
  <2>1. /\ 1 \in Int /\ 1 # 0 /\ H \in Int /\ H # 0 /\ K \in Int /\ K # 0 /\ D * K \in Int
        /\ (D * K) * H = (D * K) * (1 * H)
    BY <1>1, <1>4
  <2> QED
    BY <1>4, <1>5, <1>6, <2>1, IsQuotient
<1>10. Is(double, 2 * a, W)
  <2>1. /\ 1 \in Int /\ 1 # 0 /\ 2 \in Int /\ W \in Int /\ W # 0 /\ 2 * a \in Int
        /\ (2 * a) * W = (2 * a) * (1 * W)
    OBVIOUS
  <2> QED
    BY <1>5, <1>6, <1>7, <2>1, IsProduct
<1>11. Is(sum, 2 * a + b, W)
  <2> DEFINE e == 2 * a
  <2>1. e \in Int /\ Is(double, e, W) /\ W \in Int /\ W # 0
    BY <1>10
  <2> HIDE DEF e
  <2>2. Is(sum, e + b, W)
    BY <1>5, <1>6, <2>1, SameDenominator
  <2> QED
    BY <2>2 DEF e
<1> DEFINE S == 2 * a + b
           T == H * S
           U == K * W
<1>12. S \in Int /\ Is(sum, S, W)
  BY <1>11
<1> HIDE DEF S
<1>13. T \in Int /\ U \in Nat \ {0} /\ (H * S) * U = T * (K * W)
  BY <1>1, <1>12
<1>14. Is(part, T, U)
  <2>1. H \in Int /\ K \in Int /\ K # 0 /\ W \in Int /\ W # 0 /\ U \in Int
    BY <1>1, <1>13
  <2> HIDE DEF T, U
  <2> QED
    BY <1>5, <1>6, <1>12, <1>13, <2>1, IsProduct
<1>15. Is(sixth, T, 6 * U)
  <2> DEFINE e == 6 * U
  <2>1. /\ U \in Int /\ U # 0 /\ 1 \in Int /\ 1 # 0 /\ 6 \in Int /\ 6 # 0 /\ e \in Int
        /\ (T * 1) * e = T * (U * 6)
    BY <1>13
  <2> HIDE DEF e, T, U
  <2>2. Is(part (/) Q(6), T, e)
    BY <1>7, <1>13, <1>14, <2>1, IsQuotient
  <2> QED
    BY <1>6, <2>2 DEF e
<1>16. Is(slope (-) sixth, 6 * K * K * W * D - H * H * S, 6 * H * K * W)
  <2> DEFINE e == 6 * U
             r == 6 * K * K * W * D - H * H * S
             t == 6 * H * K * W
             f == D * K
  <2>1. /\ e \in Int /\ e # 0 /\ H \in Int /\ H # 0 /\ r \in Int /\ t \in Int /\ f \in Int
        /\ (f * e - T * H) * t = r * (H * e)
    BY <1>1, <1>4, <1>12
  <2>2. Is(slope, f, H) /\ Is(sixth, T, e)
    BY <1>9, <1>15
  <2> HIDE DEF e, r, t, f, T, U
  <2>3. Is(slope (-) sixth, r, t)
    BY <1>13, <2>1, <2>2, IsDifference
  <2> QED
    BY <2>3 DEF r, t
<1>17. Is(change, b - a, W)
  <2>1. W \in Int /\ W # 0
    OBVIOUS
  <2> QED
    BY <1>5, <1>6, <2>1, SameDenominator
<1>18. Is(six, 6 * H, K)
  <2>1. /\ 1 \in Int /\ 1 # 0 /\ 6 \in Int /\ H \in Int /\ K \in Int /\ K # 0 /\ 6 * H \in Int
        /\ (6 * H) * K = (6 * H) * (1 * K)
    BY <1>1
  <2> QED
    BY <1>5, <1>6, <1>7, <2>1, IsProduct
<1>19. Is(change (/) six, (b - a) * K, 6 * H * W)
  <2> DEFINE e == 6 * H
             f == b - a
             r == f * K
             t == 6 * H * W
  <2>1. /\ e \in Int /\ e # 0 /\ f \in Int /\ r \in Int /\ t \in Int
        /\ W \in Int /\ W # 0 /\ K \in Int /\ K # 0
        /\ (f * K) * t = r * (W * e)
    BY <1>1
  <2>2. Is(change, f, W) /\ Is(six, e, K)
    BY <1>17, <1>18
  <2> HIDE DEF e, f, r, t
  <2>3. Is(change (/) six, r, t)
    BY <2>1, <2>2, IsQuotient
  <2> QED
    BY <2>3 DEF r, t, f
<1>20. Y[i] \in Int
  BY <1>1 DEF Uniform
<1> QED
  BY <1>1, <1>2, <1>3, <1>4, <1>8, <1>16, <1>19, <1>20 DEF S, Segment

\* At its start.
LEMMA SegmentStart ==
    ASSUME NEW c, NEW A, NEW D, NEW a, NEW b, NEW W, NEW H, NEW K, Segment(c, A, D, a, b, W, H, K)
    PROVE  /\ Cubic(c, Q(0)) = Q(A)
           /\ Is(Acceleration(c, Q(0)), a, W)
           /\ Is(Velocity(c, Q(0)), 6 * K * K * W * D - H * H * (2 * a + b), 6 * H * K * W)
<1> DEFINE e == 6 * K * K * W * D - H * H * (2 * a + b)
           f == 6 * H * K * W
           g == 2 * W
           k == (b - a) * K
           l == 6 * H * W
           z == Q(0)
           p == c.b
           w == c.c
           r == c.d
           zr == z (.) r
           q2 == Q(2) (.) w
           r3 == Q(3) (.) zr
           r6 == Q(6) (.) zr
           sum == w (+) zr
           zsum == z (.) sum
           psum == p (+) zsum
           zpsum == z (.) psum
           qr == q2 (+) r3
           zqr == z (.) qr
<1>1. /\ A \in Int /\ D \in Int /\ a \in Int /\ b \in Int
      /\ W \in Nat \ {0} /\ H \in Nat \ {0} /\ K \in Nat \ {0} /\ c.a = Q(A)
  BY DEF Segment
<1>2. /\ e \in Int /\ f \in Int /\ f # 0 /\ g \in Int /\ g # 0 /\ k \in Int /\ l \in Int /\ l # 0
      /\ 1 \in Int /\ 1 # 0
  BY <1>1
<1>3. Is(p, e, f) /\ Is(w, a, g) /\ Is(r, k, l)
  BY DEF Segment
<1>4. /\ Is(z, 0, 1) /\ Is(c.a, A, 1) /\ Is(Q(2), 2, 1) /\ Is(Q(3), 3, 1) /\ Is(Q(6), 6, 1)
      /\ 2 \in Int /\ 3 \in Int /\ 6 \in Int
  BY <1>1, QIs
<1>5. /\ Cubic(c, z) = c.a (+) zpsum
      /\ Acceleration(c, z) = q2 (+) r6
      /\ Velocity(c, z) = p (+) zqr
  BY DEF Cubic, Acceleration, Velocity
<1>6. (2 * a) * W = a * (1 * g) /\ W \in Int /\ W # 0
  BY <1>1
<1> HIDE DEF e, f, g, k, l, z, p, w, r, zr, q2, r3, r6, sum, zsum, psum, zpsum, qr, zqr
<1>7. Is(zr, 0, 1)
  BY <1>2, <1>3, <1>4, Zero DEF zr
<1>8. Is(sum, a, g)
  BY <1>1, <1>2, <1>3, <1>7, Zero DEF sum
<1>9. Is(zsum, 0, 1)
  BY <1>1, <1>2, <1>4, <1>8, Zero DEF zsum
<1>10. Is(psum, e, f)
  BY <1>2, <1>3, <1>9, Zero DEF psum
<1>11. Is(zpsum, 0, 1)
  BY <1>2, <1>4, <1>10, Zero DEF zpsum
<1>12. Is(Cubic(c, z), A, 1)
  <2> DEFINE x == c.a
  <2>1. Is(x, A, 1)
    BY <1>4
  <2> HIDE DEF x
  <2>2. Is(x (+) zpsum, A, 1)
    BY <1>1, <1>2, <1>11, <2>1, Zero
  <2> QED
    BY <1>5, <2>2 DEF x
<1>13. Cubic(c, z) = Q(A)
  <2>1. Is(Q(A), A, 1)
    BY <1>1, QIs
  <2> QED
    BY <1>1, <1>2, <1>12, <2>1, IsUnique
<1>14. Is(q2, a, W)
  BY <1>1, <1>2, <1>3, <1>4, <1>6, IsProduct DEF q2
<1>15. Is(r6, 0, 1) /\ Is(r3, 0, 1)
  BY <1>2, <1>4, <1>7, Zero DEF r6, r3
<1>16. Is(Acceleration(c, z), a, W)
  BY <1>1, <1>5, <1>6, <1>14, <1>15, Zero
<1>17. Is(qr, a, W)
  BY <1>1, <1>6, <1>14, <1>15, Zero DEF qr
<1>18. Is(zqr, 0, 1)
  BY <1>1, <1>6, <1>4, <1>17, Zero DEF zqr
<1>19. Is(Velocity(c, z), e, f)
  BY <1>2, <1>3, <1>5, <1>18, Zero
<1> QED
  BY <1>13, <1>16, <1>19 DEF z, e, f

\* At its end, a step h later.
LEMMA SegmentEnd ==
    ASSUME NEW c, NEW A, NEW D, NEW a, NEW b, NEW W, NEW H, NEW K, Segment(c, A, D, a, b, W, H, K),
           NEW h, Is(h, H, K)
    PROVE  /\ Cubic(c, h) = Q(A + D)
           /\ Is(Acceleration(c, h), b, W)
           /\ Is(Velocity(c, h), 6 * K * K * W * D + H * H * (a + 2 * b), 6 * H * K * W)
<1> DEFINE e == 6 * K * K * W * D - H * H * (2 * a + b)
           f == 6 * H * K * W
           g == 2 * W
           k == (b - a) * K
           l == 6 * H * W
           p == c.b
           w == c.c
           r == c.d
           hr == h (.) r
           q2 == Q(2) (.) w
           r3 == Q(3) (.) hr
           r6 == Q(6) (.) hr
           sum == w (+) hr
           hsum == h (.) sum
           psum == p (+) hsum
           hpsum == h (.) psum
           qr == q2 (+) r3
           hqr == h (.) qr
<1>1. /\ A \in Int /\ D \in Int /\ a \in Int /\ b \in Int
      /\ W \in Nat \ {0} /\ H \in Nat \ {0} /\ K \in Nat \ {0} /\ c.a = Q(A)
  BY DEF Segment
<1>2. /\ e \in Int /\ f \in Int /\ f # 0 /\ g \in Int /\ g # 0 /\ k \in Int /\ l \in Int /\ l # 0
      /\ 1 \in Int /\ 1 # 0 /\ W \in Int /\ W # 0 /\ H \in Int /\ H # 0 /\ K \in Int /\ K # 0
  BY <1>1
<1>3. Is(p, e, f) /\ Is(w, a, g) /\ Is(r, k, l)
  BY DEF Segment
<1>4. /\ Is(c.a, A, 1) /\ Is(Q(2), 2, 1) /\ Is(Q(3), 3, 1) /\ Is(Q(6), 6, 1)
      /\ 2 \in Int /\ 3 \in Int /\ 6 \in Int
  BY <1>1, QIs
<1>5. /\ Cubic(c, h) = c.a (+) hpsum
      /\ Acceleration(c, h) = q2 (+) r6
      /\ Velocity(c, h) = p (+) hqr
  BY DEF Cubic, Acceleration, Velocity
<1> DEFINE w6 == 6 * W
           d == b - a
           m == 2 * a + b
           hm == H * m
           kw6 == 6 * K * W
           dk == D * K
           s == a + b
           hs == H * s
           kw2 == 2 * K * W
           v == 6 * K * K * W * D + H * H * (a + 2 * b)
<1>6. /\ w6 \in Int /\ w6 # 0 /\ d \in Int /\ m \in Int /\ hm \in Int /\ kw6 \in Int /\ kw6 # 0
      /\ dk \in Int /\ s \in Int /\ hs \in Int /\ kw2 \in Int /\ kw2 # 0 /\ v \in Int
  BY <1>1
<1>7. (H * k) * w6 = d * (K * l)
  BY <1>1
<1>8. (a * w6 + d * g) * w6 = m * (g * w6)
  BY <1>1
<1>9. (H * m) * kw6 = hm * (K * w6)
  BY <1>1
<1>10. (e * kw6 + hm * f) * H = dk * (f * kw6)
  BY <1>1
<1>11. (H * dk) * 1 = D * (K * H) /\ A + D \in Int
  BY <1>1
<1>12. /\ (2 * a) * W = a * (1 * g) /\ (6 * d) * W = d * (1 * w6) /\ (3 * d) * g = d * (1 * w6)
       /\ a + d = b
  BY <1>1
<1>13. (a * g + d * W) * g = s * (W * g)
  BY <1>1
<1>14. (H * s) * kw2 = hs * (K * g)
  BY <1>1
<1>15. (e * kw2 + hs * f) * f = v * (f * kw2)
  BY <1>1
<1> HIDE DEF e, f, g, k, l, p, w, r, hr, q2, r3, r6, sum, hsum, psum, hpsum, qr, hqr
<1> HIDE DEF w6, d, m, hm, kw6, dk, s, hs, kw2, v
<1>16. Is(hr, d, w6)
  BY <1>2, <1>3, <1>6, <1>7, IsProduct DEF hr
<1>17. Is(sum, m, w6)
  BY <1>1, <1>2, <1>3, <1>6, <1>8, <1>16, IsSum DEF sum
<1>18. Is(hsum, hm, kw6)
  BY <1>2, <1>6, <1>9, <1>17, IsProduct DEF hsum
<1>19. Is(psum, dk, H)
  BY <1>2, <1>3, <1>6, <1>10, <1>18, IsSum DEF psum
<1>20. Is(hpsum, D, 1)
  BY <1>1, <1>2, <1>6, <1>11, <1>19, IsProduct DEF hpsum
<1>21. Cubic(c, h) = Q(A + D)
  <2> DEFINE x == c.a
  <2>1. Is(x, A, 1)
    BY <1>4
  <2> HIDE DEF x
  <2>2. Is(x (+) hpsum, A + D, 1)
    BY <1>1, <1>2, <1>20, <2>1, SameDenominator
  <2>3. Is(Q(A + D), A + D, 1)
    BY <1>11, QIs
  <2>4. x (+) hpsum = Q(A + D)
    BY <1>2, <1>11, <2>2, <2>3, IsUnique
  <2> QED
    BY <1>5, <2>4 DEF x
<1>22. Is(q2, a, W)
  BY <1>1, <1>2, <1>3, <1>4, <1>12, IsProduct DEF q2
<1>23. Is(r6, d, W)
  BY <1>2, <1>4, <1>6, <1>12, <1>16, IsProduct DEF r6
<1>24. Is(Acceleration(c, h), b, W)
  <2>1. Is(q2 (+) r6, a + d, W)
    BY <1>1, <1>2, <1>6, <1>22, <1>23, SameDenominator
  <2> QED
    BY <1>5, <1>12, <2>1
<1>25. Is(r3, d, g)
  BY <1>2, <1>4, <1>6, <1>12, <1>16, IsProduct DEF r3
<1>26. Is(qr, s, g)
  BY <1>1, <1>2, <1>6, <1>13, <1>22, <1>25, IsSum DEF qr
<1>27. Is(hqr, hs, kw2)
  BY <1>2, <1>6, <1>14, <1>26, IsProduct DEF hqr
<1>28. Is(Velocity(c, h), v, f)
  <2>1. Is(p (+) hqr, v, f)
    BY <1>2, <1>3, <1>6, <1>15, <1>27, IsSum
  <2> QED
    BY <1>5, <2>1
<1> QED
  BY <1>21, <1>24, <1>28 DEF v, f

\* A number over a multiple of its denominator.
LEMMA Rescale ==
    ASSUME NEW x, NEW n \in Int, NEW d \in Int, d # 0, Is(x, n, d), NEW k \in Int
    PROVE  Is(x, n * k, d * k)
<1>1. n * k \in Int /\ d * k \in Int /\ n * (d * k) = (n * k) * d
  OBVIOUS
<1> DEFINE m == n * k
           e == d * k
<1>2. m \in Int /\ e \in Int /\ n * e = m * d
  BY <1>1
<1> HIDE DEF m, e
<1>3. Is(x, m, e)
  BY <1>2, IsSame
<1> QED
  BY <1>3 DEF m, e

-----------------------------------------------------------------------------
(* The trajectory fitted to the configurations p in time T.                *)

\* fitCubicSpline's t.
Knots(T, n) == [i \in 0 .. n |-> (Q(T) (/) Q(n)) (.) Q(i)]

\* Its h.
Steps(T, n) == [i \in 0 .. n - 1 |-> Knots(T, n)[i + 1] (-) Knots(T, n)[i]]

\* The places of one joint.
Places(p, n, j) == [i \in 0 .. n |-> Q(p[i + 1][j])]

\* Its M.
Moments(p, n, T, j) == BackSubstitution(Places(p, n, j), Steps(T, n))

\* The segments.
Fitted(p, n, J, T) ==
    [i \in 1 .. n |->
        [t_start |-> Knots(T, n)[i - 1], h |-> Steps(T, n)[i - 1],
         coeff |-> [j \in J |-> Coefficients(Places(p, n, j), Steps(T, n),
                                             Moments(p, n, T, j), i - 1)]]]

\* f is what fitCubicSpline returns for n + 1 configurations of the joints J.
Fits(f, J, n, p, T) ==
    /\ J # {} /\ n \in Nat \ {0} /\ T \in Int
    /\ p \in Seq([J -> Int]) /\ Len(p) = n + 1
    /\ f = FitCubicSpline(p, Q(T))

\* It has these segments.
LEMMA FitIs ==
    ASSUME NEW f, NEW J, NEW n \in Nat \ {0}, NEW p, NEW T \in Int, Fits(f, J, n, p, T)
    PROVE  f = [duration |-> Q(T), segments |-> Fitted(p, n, J, T)]
<1> USE DEF Fits
<1>1. Len(p) - 1 = n /\ p[1] \in [J -> Int] /\ ~ (n < 1)
  OBVIOUS
<1>2. DOMAIN p[1] = J
  BY <1>1
<1> DEFINE h == Steps(T, n)
           y == [j \in J |-> Places(p, n, j)]
           M == [j \in J |-> BackSubstitution(y[j], h)]
<1>3. FitCubicSpline(p, Q(T)) =
        [duration |-> Q(T),
         segments |-> [i \in 1 .. n |->
             [t_start |-> Knots(T, n)[i - 1], h |-> h[i - 1],
              coeff |-> [j \in J |-> Coefficients(y[j], h, M[j], i - 1)]]]]
  <2> DEFINE Y(N, S) == [j \in S |-> Places(p, N, j)]
             Mom(N, S) == [j \in S |-> BackSubstitution(Y(N, S)[j], Steps(T, N))]
             Fit0(N, S) ==
                [duration |-> Q(T),
                 segments |-> [i \in 1 .. N |->
                     [t_start |-> Knots(T, N)[i - 1], h |-> Steps(T, N)[i - 1],
                      coeff |-> [j \in S |-> Coefficients(Y(N, S)[j], Steps(T, N),
                                                          Mom(N, S)[j], i - 1)]]]]
             Fit1(N, S) == IF N < 1 \/ S = {} THEN EmptyTrajectory ELSE Fit0(N, S)
  <2>1. FitCubicSpline(p, Q(T)) = Fit1(Len(p) - 1, DOMAIN p[1])
    BY Zenon DEF FitCubicSpline, Knots, Steps, Places
  <2>2. Fit0(n, J) =
        [duration |-> Q(T),
         segments |-> [i \in 1 .. n |->
             [t_start |-> Knots(T, n)[i - 1], h |-> h[i - 1],
              coeff |-> [j \in J |-> Coefficients(y[j], h, M[j], i - 1)]]]]
    BY Zenon
  <2> HIDE DEF Fit0
  <2>3. FitCubicSpline(p, Q(T)) = Fit1(n, J)
    <3> HIDE DEF Fit1
    <3> QED
      BY <1>1, <1>2, <2>1
  <2>4. Fit1(n, J) = Fit0(n, J)
    BY <1>1
  <2> HIDE DEF Fit1, h, y, M
  <2> QED
    BY <2>2, <2>3, <2>4, Zenon
<1>4. \A j \in J : y[j] = Places(p, n, j) /\ M[j] = Moments(p, n, T, j)
  BY DEF Moments
<1> HIDE DEF h, y, M
<1>5. \A i \in 1 .. n :
        [j \in J |-> Coefficients(y[j], h, M[j], i - 1)]
          = [j \in J |-> Coefficients(Places(p, n, j), h, Moments(p, n, T, j), i - 1)]
  BY <1>4, Zenon
<1>6. [i \in 1 .. n |->
          [t_start |-> Knots(T, n)[i - 1], h |-> h[i - 1],
           coeff |-> [j \in J |-> Coefficients(y[j], h, M[j], i - 1)]]]
        = [i \in 1 .. n |->
             [t_start |-> Knots(T, n)[i - 1], h |-> h[i - 1],
              coeff |-> [j \in J |-> Coefficients(Places(p, n, j), h,
                                                  Moments(p, n, T, j), i - 1)]]]
  BY <1>5, Zenon
<1> QED
  BY <1>3, <1>6, Zenon DEF h, Fitted

\* The knots are T / n apart.
LEMMA KnotsAre ==
    ASSUME NEW n \in Nat \ {0}, NEW T \in Int
    PROVE  /\ \A i \in 0 .. n : Is(Knots(T, n)[i], T * i, n)
           /\ DOMAIN Steps(T, n) = 0 .. n - 1
           /\ \A i \in 0 .. n - 1 : Is(Steps(T, n)[i], T, n)
<1>1. ASSUME NEW i \in 0 .. n PROVE Is(Knots(T, n)[i], T * i, n)
  <2> DEFINE m == T * i
             x == Q(T) (/) Q(n)
  <2>1. /\ Is(Q(T), T, 1) /\ Is(Q(n), n, 1) /\ Is(Q(i), i, 1)
        /\ 1 \in Int /\ 1 # 0 /\ n \in Int /\ n # 0 /\ i \in Int /\ m \in Int
        /\ (T * 1) * n = T * (1 * n) /\ (T * i) * n = m * (n * 1)
    BY QIs
  <2>2. Knots(T, n)[i] = x (.) Q(i)
    BY DEF Knots
  <2> HIDE DEF m, x
  <2>3. Is(x, T, n)
    BY <2>1, IsQuotient DEF x
  <2>4. Is(x (.) Q(i), m, n)
    BY <2>1, <2>3, IsProduct
  <2> QED
    BY <2>2, <2>4 DEF m
<1>2. ASSUME NEW i \in 0 .. n - 1 PROVE Is(Steps(T, n)[i], T, n)
  <2> DEFINE m == T * (i + 1)
             k == T * i
             x == Knots(T, n)[i + 1]
             y == Knots(T, n)[i]
  <2>1. i \in 0 .. n /\ i + 1 \in 0 .. n
    OBVIOUS
  <2>2. Is(x, m, n) /\ Is(y, k, n)
    BY <1>1, <2>1
  <2>3. m \in Int /\ k \in Int /\ m - k = T /\ n \in Int /\ n # 0
    OBVIOUS
  <2>4. Steps(T, n)[i] = x (-) y
    BY DEF Steps
  <2> HIDE DEF m, k, x, y
  <2>5. Is(x (-) y, m - k, n)
    BY <2>2, <2>3, SameDenominator
  <2> QED
    BY <2>3, <2>4, <2>5
<1>3. DOMAIN Steps(T, n) = 0 .. n - 1
  BY DEF Steps
<1> QED
  BY <1>1, <1>2, <1>3

\* The whole numbers a joint passes through.
Passes(p, n, j) == [i \in 0 .. n |-> p[i + 1][j]]

\* A positive duration makes every joint's system one in positive steps.
LEMMA FitUniform ==
    ASSUME NEW f, NEW J, NEW n \in Nat \ {0}, NEW p, NEW T \in Nat \ {0}, Fits(f, J, n, p, T),
           NEW j \in J
    PROVE  /\ Uniform(Places(p, n, j), Steps(T, n), n, Passes(p, n, j), T, n)
           /\ \A i \in 1 .. n + 1 : p[i][j] \in Int
<1> USE DEF Fits
<1>1. \A i \in 1 .. n + 1 : p[i] \in [J -> Int]
  OBVIOUS
<1>2. \A i \in 1 .. n + 1 : p[i][j] \in Int
  BY <1>1
<1>3. \A i \in 0 .. n : i + 1 \in 1 .. n + 1
  OBVIOUS
<1>4. Passes(p, n, j) \in [0 .. n -> Int]
  BY <1>2, <1>3 DEF Passes
<1>5. DOMAIN Places(p, n, j) = 0 .. n
      /\ \A i \in 0 .. n : Places(p, n, j)[i] = Q(Passes(p, n, j)[i])
  BY DEF Places, Passes
<1>6. T \in Int
  OBVIOUS
<1>7. DOMAIN Steps(T, n) = 0 .. n - 1 /\ \A i \in 0 .. n - 1 : Is(Steps(T, n)[i], T, n)
  BY <1>6, KnotsAre
<1> QED
  BY <1>2, <1>4, <1>5, <1>7 DEF Uniform

\* Coefficients of the segment that ends at the (i + 1)st configuration.
Piece(p, n, T, j, i) ==
    Coefficients(Places(p, n, j), Steps(T, n), Moments(p, n, T, j), i - 1)

\* Every segment leads from one configuration to the next, whatever M is.
LEMMA PieceIs ==
    ASSUME NEW f, NEW J, NEW n \in Nat \ {0}, NEW p, NEW T \in Nat \ {0}, Fits(f, J, n, p, T),
           NEW j \in J, NEW i \in 1 .. n,
           NEW a \in Int, NEW b \in Int, NEW W \in Nat \ {0},
           Is(Moments(p, n, T, j)[i - 1], a, W), Is(Moments(p, n, T, j)[i], b, W)
    PROVE  Segment(Piece(p, n, T, j, i), p[i][j], p[i + 1][j] - p[i][j], a, b, W, T, n)
<1> DEFINE Y == Passes(p, n, j)
           M == Moments(p, n, T, j)
           D == p[i + 1][j] - p[i][j]
           k == i - 1
<1>1. Uniform(Places(p, n, j), Steps(T, n), n, Y, T, n)
  BY FitUniform
<1>2. i \in 1 .. n + 1 /\ k \in 0 .. n - 1 /\ k + 1 = i
  OBVIOUS
<1>3. p[i][j] \in Int
  BY <1>2, FitUniform
<1>4. Y[k] = p[i][j] /\ D = Y[k + 1] - Y[k]
  BY <1>2 DEF Passes
<1>5. Is(M[k], a, W) /\ Is(M[k + 1], b, W)
  BY <1>2
<1> HIDE DEF Y, M, D, k
<1>6. Segment(Coefficients(Places(p, n, j), Steps(T, n), M, k), Y[k], D, a, b, W, T, n)
  BY <1>1, <1>2, <1>4, <1>5, CoefficientsAre
<1>7. Piece(p, n, T, j, i) = Coefficients(Places(p, n, j), Steps(T, n), M, k)
  BY DEF Piece, M, k
<1> QED
  BY <1>4, <1>6, <1>7 DEF D

\* A function on 1 .. n is a sequence of length n.
LEMMA FunctionIsSequence ==
    ASSUME NEW n \in Nat, NEW f, DOMAIN f = 1 .. n, f = [i \in 1 .. n |-> f[i]]
    PROVE  Len(f) = n /\ (n > 0 => f # <<>>)
<1> DEFINE X == {f[i] : i \in 1 .. n}
<1>1. f \in [1 .. n -> X]
  OBVIOUS
<1> HIDE DEF X
<1>2. f \in Seq(X) /\ Len(f) = n
  BY <1>1
<1> QED
  BY <1>2

\* The segments of a trajectory and their times.
LEMMA SegmentsAre ==
    ASSUME NEW f, NEW J, NEW n \in Nat \ {0}, NEW p, NEW T \in Int, Fits(f, J, n, p, T)
    PROVE  /\ f.duration = Q(T) /\ Len(f.segments) = n /\ DOMAIN f.segments = 1 .. n
           /\ f.segments # <<>>
           /\ \A i \in 1 .. n :
                /\ Is(f.segments[i].t_start, T * (i - 1), n)
                /\ Is(f.segments[i].h, T, n)
                /\ DOMAIN f.segments[i].coeff = J
                /\ \A j \in J : f.segments[i].coeff[j] = Piece(p, n, T, j, i)
<1> DEFINE s == Fitted(p, n, J, T)
<1>1. f = [duration |-> Q(T), segments |-> s]
  BY FitIs
<1>2. f.duration = Q(T) /\ f.segments = s
  BY <1>1
<1>3. DOMAIN s = 1 .. n /\ s = [i \in 1 .. n |-> s[i]]
  BY DEF Fitted
<1>4. \A i \in 1 .. n :
        /\ s[i].t_start = Knots(T, n)[i - 1] /\ s[i].h = Steps(T, n)[i - 1]
        /\ s[i].coeff = [j \in J |-> Piece(p, n, T, j, i)]
  BY DEF Piece, Fitted
<1>5. \A i \in 1 .. n : i - 1 \in 0 .. n /\ i - 1 \in 0 .. n - 1
  OBVIOUS
<1> HIDE DEF s
<1>6. Len(s) = n /\ s # <<>>
  BY <1>3, FunctionIsSequence
<1>7. \A i \in 1 .. n : /\ Is(s[i].t_start, T * (i - 1), n)
                        /\ Is(s[i].h, T, n)
                        /\ DOMAIN s[i].coeff = J
                        /\ \A j \in J : s[i].coeff[j] = Piece(p, n, T, j, i)
  BY <1>4, <1>5, KnotsAre
<1> QED
  BY <1>2, <1>3, <1>6, <1>7

\* M at two neighbours, over a common denominator.
LEMMA TwoMoments ==
    ASSUME NEW f, NEW J, NEW n \in Nat \ {0}, NEW p, NEW T \in Nat \ {0}, Fits(f, J, n, p, T),
           NEW j \in J, NEW i \in 1 .. n
    PROVE  \E a, b \in Int, W \in Nat \ {0} :
              Is(Moments(p, n, T, j)[i - 1], a, W) /\ Is(Moments(p, n, T, j)[i], b, W)
<1> DEFINE M(k) == Moments(p, n, T, j)[k]
<1>1. Uniform(Places(p, n, j), Steps(T, n), n, Passes(p, n, j), T, n)
  BY FitUniform
<1>2. i \in 0 .. n /\ i - 1 \in 0 .. n
  OBVIOUS
<1>3. PICK V \in Nat \ {0}, a \in Int : Is(M(i - 1), a, V)
  BY <1>1, <1>2, MomentNumbers DEF Moments
<1>4. PICK W \in Nat \ {0}, b \in Int : Is(M(i), b, W)
  BY <1>1, <1>2, MomentNumbers DEF Moments
<1> HIDE DEF M
<1>5. V \in Int /\ V # 0 /\ W \in Int /\ W # 0 /\ V * W \in Nat \ {0} /\ W * V = V * W
  OBVIOUS
<1>6. Is(M(i - 1), a * W, V * W)
  BY <1>3, <1>5, Rescale
<1>7. Is(M(i), b * V, W * V)
  BY <1>4, <1>5, Rescale
<1> DEFINE U == V * W
<1>8. a * W \in Int /\ b * V \in Int /\ U \in Nat \ {0} /\ Is(M(i), b * V, U)
      /\ Is(M(i - 1), a * W, U)
  BY <1>5, <1>6, <1>7
<1> HIDE DEF U
<1> QED
  BY <1>8 DEF M

\* Every segment of a fitted trajectory is one.
LEMMA SomePiece ==
    ASSUME NEW f, NEW J, NEW n \in Nat \ {0}, NEW p, NEW T \in Nat \ {0}, Fits(f, J, n, p, T),
           NEW j \in J, NEW i \in 1 .. n
    PROVE  \E a, b \in Int, W \in Nat \ {0} :
              Segment(Piece(p, n, T, j, i), p[i][j], p[i + 1][j] - p[i][j], a, b, W, T, n)
<1>1. PICK a \in Int, b \in Int, W \in Nat \ {0} :
          Is(Moments(p, n, T, j)[i - 1], a, W) /\ Is(Moments(p, n, T, j)[i], b, W)
  BY TwoMoments
<1> QED
  BY <1>1, PieceIs

\* A time on the ith knot is in the ith segment, or at the end of the last.
LEMMA SegmentAtKnot ==
    ASSUME NEW f, NEW J, NEW n \in Nat \ {0}, NEW p, NEW T \in Nat \ {0}, Fits(f, J, n, p, T),
           NEW i \in 1 .. n + 1, NEW t, Is(t, T * (i - 1), n)
    PROVE  /\ Clamp(f.duration, t) = t
           /\ SegmentAt(f.segments, t) = IF i = n + 1 THEN n ELSE i
<1> DEFINE s == f.segments
           last == IF i = n + 1 THEN n ELSE i
<1>1. /\ f.duration = Q(T) /\ Len(s) = n /\ DOMAIN s = 1 .. n
      /\ \A k \in 1 .. n : Is(s[k].t_start, T * (k - 1), n)
  <2>1. T \in Int
    OBVIOUS
  <2> QED
    BY <2>1, SegmentsAre
<1> HIDE DEF s, last
<1>2. T * (i - 1) \in Int /\ T * n \in Int /\ T \in Int /\ n \in Int /\ n # 0
  OBVIOUS
<1>3. Is(Q(T), T * n, n) /\ Is(Q(0), 0 * n, n)
  <2>1. Is(Q(T), T, 1) /\ Is(Q(0), 0, 1) /\ 1 * n = n /\ 0 \in Int /\ 1 \in Int /\ 1 # 0
    BY QIs
  <2>2. Is(Q(T), T * n, 1 * n) /\ Is(Q(0), 0 * n, 1 * n)
    BY <1>2, <2>1, Rescale
  <2> QED
    BY <2>1, <2>2
<1> DEFINE m == T * (i - 1)
           e == T * n
<1>4. m \in Int /\ e \in Int /\ m <= e /\ 0 <= m /\ 0 * n = 0
  <2>1. e - m = T * (n + 1 - i) /\ n + 1 - i >= 0 /\ i - 1 >= 0
    OBVIOUS
  <2>2. T * (n + 1 - i) >= 0
    BY <2>1
  <2>3. m >= 0 /\ m \in Int /\ e \in Int /\ 0 * n = 0
    OBVIOUS
  <2> HIDE DEF m, e
  <2> QED
    BY <2>1, <2>2, <2>3
<1> HIDE DEF m, e
<1>5. Is(t, m, n) /\ Is(Q(T), e, n) /\ Is(Q(0), 0, n)
  BY <1>3, <1>4 DEF m, e
<1>6. ~ Less(Q(T), t) /\ ~ Less(t, Q(0))
  <2>1. Less(Q(T), t) <=> e < m
    BY <1>4, <1>5, LeqIs
  <2>2. Less(t, Q(0)) <=> m < 0
    BY <1>4, <1>5, LeqIs
  <2> QED
    BY <1>4, <2>1, <2>2
<1>7. Clamp(f.duration, t) = t
  BY <1>1, <1>6 DEF Clamp
<1> DEFINE found == {k \in DOMAIN s :
                       /\ Leq(s[k].t_start, t)
                       /\ k = Len(s) \/ Less(t, s[k + 1].t_start)}
<1>8. ASSUME NEW k \in 1 .. n
      PROVE  (Leq(s[k].t_start, t) <=> k <= i) /\ (Less(t, s[k].t_start) <=> i < k)
  <2> DEFINE g == T * (k - 1)
  <2>1. g \in Int /\ (g <= m <=> k <= i) /\ (m < g <=> i < k)
    <3>1. m - g = T * (i - k)
      BY DEF m
    <3>2. ASSUME k <= i PROVE T * (i - k) >= 0
      BY <3>2
    <3>3. ASSUME i < k PROVE T * (i - k) < 0
      BY <3>3
    <3>4. g \in Int
      OBVIOUS
    <3> HIDE DEF g
    <3> QED
      BY <1>4, <3>1, <3>2, <3>3, <3>4
  <2>2. Is(s[k].t_start, g, n)
    BY <1>1
  <2> HIDE DEF g
  <2>3. Leq(s[k].t_start, t) <=> g <= m
    BY <1>4, <1>5, <2>1, <2>2, LeqIs
  <2>4. Less(t, s[k].t_start) <=> m < g
    BY <1>4, <1>5, <2>1, <2>2, LeqIs
  <2> QED
    BY <2>1, <2>3, <2>4
<1>9. found = {last}
  <2>1. last \in 1 .. n /\ last <= i /\ (last = n \/ last = i)
    BY DEF last
  <2>2. ASSUME NEW k \in found PROVE k = last
    <3>1. k \in 1 .. n /\ k <= i
      BY <1>1, <1>8
    <3>2. k = n \/ i < k + 1
      <4>1. k # n => k + 1 \in 1 .. n
        BY <3>1
      <4> QED
        BY <1>1, <1>8, <4>1
    <3> QED
      BY <2>1, <3>1, <3>2 DEF last
  <2>3. last \in found
    <3>1. Leq(s[last].t_start, t)
      BY <1>8, <2>1
    <3>2. last = n \/ Less(t, s[last + 1].t_start)
      <4>1. last # n => last + 1 \in 1 .. n /\ last = i
        BY <2>1
      <4> QED
        BY <1>8, <4>1
    <3> QED
      BY <1>1, <2>1, <3>1, <3>2
  <2> HIDE DEF found
  <2> QED
    BY <2>2, <2>3
<1>10. SegmentAt(s, t) = last
  <2>1. SegmentAt(s, t) = IF found = {} THEN 1 ELSE CHOOSE k \in found : \A l \in found : k <= l
    BY DEF SegmentAt
  <2>2. last \in Nat
    BY DEF last
  <2> HIDE DEF found
  <2> QED
    BY <1>9, <2>1, <2>2
<1> QED
  BY <1>7, <1>10 DEF s, last

\* The trajectory passes through every configuration at its knot.
LEMMA EvalKnot ==
    ASSUME NEW f, NEW J, NEW n \in Nat \ {0}, NEW p, NEW T \in Nat \ {0}, Fits(f, J, n, p, T),
           NEW i \in 1 .. n + 1, NEW t, Is(t, T * (i - 1), n)
    PROVE  Eval(f, t) = [j \in J |-> Q(p[i][j])]
<1> DEFINE k == IF i = n + 1 THEN n ELSE i
           seg == f.segments[k]
           tau == t (-) seg.t_start
<1>1. k \in 1 .. n /\ T \in Int
  OBVIOUS
<1>2. Eval(f, t) = [j \in DOMAIN seg.coeff |-> Cubic(seg.coeff[j], tau)]
  <2>1. Clamp(f.duration, t) = t /\ SegmentAt(f.segments, t) = k
    BY SegmentAtKnot
  <2>2. f.segments # <<>>
    BY <1>1, SegmentsAre
  <2> HIDE DEF k
  <2> QED
    BY <2>1, <2>2 DEF Eval
<1>3. /\ Is(seg.t_start, T * (k - 1), n) /\ DOMAIN seg.coeff = J
      /\ \A j \in J : seg.coeff[j] = Piece(p, n, T, j, k)
  <2>1. \A l \in 1 .. n :
          /\ Is(f.segments[l].t_start, T * (l - 1), n) /\ DOMAIN f.segments[l].coeff = J
          /\ \A j \in J : f.segments[l].coeff[j] = Piece(p, n, T, j, l)
    BY <1>1, SegmentsAre
  <2> HIDE DEF k
  <2> QED
    BY <1>1, <2>1
<1>4. Is(tau, T * (i - k), n)
  <2> DEFINE m == T * (i - 1)
             g == T * (k - 1)
             x == seg.t_start
  <2>1. m \in Int /\ g \in Int /\ m - g = T * (i - k) /\ n \in Int /\ n # 0
    BY <1>1
  <2>2. Is(t, m, n) /\ Is(x, g, n)
    BY <1>3
  <2> HIDE DEF m, g, x, k
  <2>3. Is(t (-) x, m - g, n)
    BY <2>1, <2>2, SameDenominator
  <2> QED
    BY <2>1, <2>3 DEF x
<1>5. ASSUME NEW j \in J PROVE Cubic(seg.coeff[j], tau) = Q(p[i][j])
  <2>1. PICK a \in Int, b \in Int, W \in Nat \ {0} :
            Segment(Piece(p, n, T, j, k), p[k][j], p[k + 1][j] - p[k][j], a, b, W, T, n)
    BY <1>1, SomePiece
  <2> HIDE DEF tau, seg
  <2>2. CASE i = k
    <3>1. T * (i - k) = 0
      BY <2>2
    <3>2. Is(tau, 0, 1)
      <4>1. /\ Is(tau, 0, n) /\ 0 \in Int /\ n \in Int /\ n # 0 /\ 1 \in Int /\ 0 * 1 = 0 * n
        BY <1>4, <3>1
      <4> QED
        BY <4>1, IsSame
    <3>3. tau = Q(0)
      <4>1. Is(Q(0), 0, 1) /\ 0 \in Int /\ 1 \in Int /\ 1 # 0
        BY QIs
      <4> QED
        BY <3>2, <4>1, IsUnique
    <3>4. Cubic(Piece(p, n, T, j, k), tau) = Q(p[k][j])
      BY <2>1, <3>3, SegmentStart
    <3> QED
      BY <1>3, <2>2, <3>4
  <2>3. CASE i # k
    <3>1. i = k + 1 /\ T * (i - k) = T
      BY <1>1, <2>3
    <3>2. Is(tau, T, n)
      BY <1>4, <3>1
    <3>3. Cubic(Piece(p, n, T, j, k), tau) = Q(p[k][j] + (p[k + 1][j] - p[k][j]))
      BY <2>1, <3>2, SegmentEnd
    <3>4. p[k][j] \in Int /\ p[k + 1][j] \in Int
      <4>1. k \in 1 .. n + 1 /\ k + 1 \in 1 .. n + 1
        BY <1>1
      <4> QED
        BY <4>1, FitUniform
    <3>5. p[k][j] + (p[k + 1][j] - p[k][j]) = p[i][j]
      BY <3>1, <3>4
    <3> QED
      BY <1>3, <3>3, <3>5
  <2> QED
    BY <2>2, <2>3
<1> HIDE DEF seg, tau, k
<1>6. Eval(f, t) = [j \in J |-> Q(p[i][j])]
  BY <1>2, <1>3, <1>5
<1> QED
  BY <1>6

\* M is zero at both ends: the spline is a natural one.
LEMMA NaturalEnds ==
    ASSUME NEW f, NEW J, NEW n \in Nat \ {0}, NEW p, NEW T \in Nat \ {0}, Fits(f, J, n, p, T),
           NEW j \in J
    PROVE  Is(Moments(p, n, T, j)[0], 0, 1) /\ Is(Moments(p, n, T, j)[n], 0, 1)
<1> DEFINE y == Places(p, n, j)
           h == Steps(T, n)
           M(k) == BackSubstitution(y, h)[k]
<1>1. Uniform(y, h, n, Passes(p, n, j), T, n)
  BY FitUniform
<1>2. DOMAIN h = 0 .. n - 1 /\ DOMAIN y = 0 .. n
  BY <1>1 DEF Uniform
<1> HIDE DEF y, h
<1>3. M(n) = Q(0) /\ M(0) = Sweep(y, h)[0].z (-) (Sweep(y, h)[0].mu (.) M(0 + 1))
  <2>1. 0 \in 0 .. n - 1
    OBVIOUS
  <2> QED
    BY <1>2, <2>1, BackSubstitutionRows
<1>4. Sweep(y, h)[0] = FirstRow
  <2>1. n - 1 \in Nat
    OBVIOUS
  <2> QED
    BY <1>2, <2>1, SweepRows
<1>5. PICK W \in Nat \ {0}, m \in Int : Is(M(0 + 1), m, W)
  <2>1. 0 + 1 \in 0 .. n
    OBVIOUS
  <2> QED
    BY <1>1, <2>1, MomentNumbers
<1>6. Is(Q(0), 0, 1)
  BY QIs
<1>7. M(0) = Q(0) (-) (Q(0) (.) M(0 + 1))
  BY <1>3, <1>4 DEF FirstRow
<1> DEFINE x == M(0 + 1)
           z == Q(0)
           zx == z (.) x
<1>8. Is(x, m, W) /\ M(0) = z (-) zx /\ Is(z, 0, 1)
  BY <1>5, <1>6, <1>7
<1>9. M(n) = z
  BY <1>3
<1>10. /\ W \in Int /\ W # 0 /\ 0 \in Int /\ 1 \in Int /\ 1 # 0 /\ 0 - 0 = 0
  OBVIOUS
<1> HIDE DEF x, z, zx, M
<1>11. Is(zx, 0, 1)
  BY <1>8, <1>10, Zero DEF zx
<1>12. Is(z (-) zx, 0 - 0, 1)
  BY <1>8, <1>10, <1>11, SameDenominator
<1> QED
  BY <1>8, <1>9, <1>10, <1>12 DEF M, Moments, y, h

\* Two segments that meet share their M there, and the three of them satisfy the
\* equation of the row.
LEMMA TwoPieces ==
    ASSUME NEW f, NEW J, NEW n \in Nat \ {0}, NEW p, NEW T \in Nat \ {0}, Fits(f, J, n, p, T),
           NEW j \in J, NEW i \in 1 .. n - 1,
           NEW A, A = p[i + 1][j] - p[i][j], NEW B, B = p[i + 2][j] - p[i + 1][j]
    PROVE  \E a, b, c \in Int, W \in Nat \ {0} :
              /\ Segment(Piece(p, n, T, j, i), p[i][j], A, a, b, W, T, n)
              /\ Segment(Piece(p, n, T, j, i + 1), p[i + 1][j], B, b, c, W, T, n)
              /\ (a + 4 * b + c) * (T * T) = (3 * n * (B - A)) * n * W
<1> DEFINE M(k) == Moments(p, n, T, j)[k]
           Y == Passes(p, n, j)
<1>1. Uniform(Places(p, n, j), Steps(T, n), n, Y, T, n)
  BY FitUniform
<1>2. i \in 1 .. n /\ i + 1 \in 1 .. n /\ (i + 1) - 1 = i /\ i + 1 \in 0 .. n
      /\ (i + 1) + 1 = i + 2
  OBVIOUS
<1>3. PICK a \in Int, b \in Int, V \in Nat \ {0} : Is(M(i - 1), a, V) /\ Is(M(i), b, V)
  BY <1>2, TwoMoments
<1>4. PICK U \in Nat \ {0}, c \in Int : Is(M(i + 1), c, U)
  BY <1>1, <1>2, MomentNumbers DEF Moments
<1> HIDE DEF M
<1> DEFINE W == V * U
           a1 == a * U
           b1 == b * U
           c1 == c * V
<1>5. /\ W \in Nat \ {0} /\ a1 \in Int /\ b1 \in Int /\ c1 \in Int
      /\ U \in Int /\ U # 0 /\ V \in Int /\ V # 0 /\ U * V = W
  OBVIOUS
<1>6. Is(M(i - 1), a1, W) /\ Is(M(i), b1, W)
  BY <1>3, <1>5, Rescale
<1>7. Is(M(i + 1), c1, W)
  <2>1. Is(M(i + 1), c1, U * V)
    BY <1>4, <1>5, Rescale
  <2> QED
    BY <1>5, <2>1
<1> HIDE DEF W, a1, b1, c1
<1>8. Segment(Piece(p, n, T, j, i), p[i][j], A, a1, b1, W, T, n)
  BY <1>2, <1>5, <1>6, PieceIs DEF M
<1>9. Segment(Piece(p, n, T, j, i + 1), p[i + 1][j], B, b1, c1, W, T, n)
  <2> DEFINE k == i + 1
  <2>1. k \in 1 .. n /\ B = p[k + 1][j] - p[k][j]
    BY <1>2
  <2>2. Is(Moments(p, n, T, j)[k - 1], b1, W) /\ Is(Moments(p, n, T, j)[k], c1, W)
    BY <1>2, <1>6, <1>7 DEF M
  <2> HIDE DEF k
  <2>3. Segment(Piece(p, n, T, j, k), p[k][j], B, b1, c1, W, T, n)
    BY <1>5, <2>1, <2>2, PieceIs
  <2> QED
    BY <2>3 DEF k
<1>10. (a1 + 4 * b1 + c1) * (T * T) = Bend(Y, n, i) * n * W
  BY <1>1, <1>5, <1>6, <1>7, ThomasSolves DEF M, Moments
<1>11. Bend(Y, n, i) = 3 * n * (B - A)
  <2>1. A \in Int /\ B \in Int
    <3>1. i \in 1 .. n + 1 /\ i + 1 \in 1 .. n + 1 /\ i + 2 \in 1 .. n + 1
      OBVIOUS
    <3>2. p[i][j] \in Int /\ p[i + 1][j] \in Int /\ p[i + 2][j] \in Int
      BY <3>1, FitUniform
    <3> QED
      BY <3>2
  <2>2. Y[i - 1] = p[i][j] /\ Y[i] = p[i + 1][j] /\ Y[i + 1] = p[i + 2][j]
    <3>1. i - 1 \in 0 .. n /\ i \in 0 .. n /\ (i - 1) + 1 = i
      OBVIOUS
    <3> QED
      BY <1>2, <3>1 DEF Passes
  <2>3. Bend(Y, n, i) = 3 * n * B - 3 * n * A
    BY <2>2 DEF Bend
  <2> QED
    BY <2>1, <2>3
<1> QED
  BY <1>5, <1>8, <1>9, <1>10, <1>11

\* Where two segments meet, the velocity jumps by half of what the slope does: the
\* system that is solved is one for half the second derivative.
LEMMA Corner ==
    ASSUME NEW c1, NEW A0, NEW A, NEW a, NEW b, NEW W, NEW T, NEW n,
           Segment(c1, A0, A, a, b, W, T, n),
           NEW c2, NEW B0, NEW B, NEW c, Segment(c2, B0, B, b, c, W, T, n),
           (a + 4 * b + c) * (T * T) = (3 * n * (B - A)) * n * W,
           NEW h, Is(h, T, n), NEW x, Is(x, A, 1), NEW y, Is(y, B, 1)
    PROVE  /\ Acceleration(c1, h) = Acceleration(c2, Q(0))
           /\ Q(2) (.) (Velocity(c2, Q(0)) (-) Velocity(c1, h)) = (y (/) h) (-) (x (/) h)
<1>1. /\ A \in Int /\ B \in Int /\ a \in Int /\ b \in Int /\ c \in Int
      /\ W \in Nat \ {0} /\ T \in Nat \ {0} /\ n \in Nat \ {0}
  BY DEF Segment
<1>2. Acceleration(c1, h) = Acceleration(c2, Q(0))
  <2>1. Is(Acceleration(c1, h), b, W)
    BY SegmentEnd
  <2>2. Is(Acceleration(c2, Q(0)), b, W)
    BY SegmentStart
  <2>3. W \in Int /\ W # 0
    BY <1>1
  <2> QED
    BY <1>1, <2>1, <2>2, <2>3, IsUnique
<1> DEFINE e == 6 * n * n * W * B - T * T * (2 * b + c)
           f == 6 * n * n * W * A + T * T * (a + 2 * b)
           g == 6 * T * n * W
           v == Velocity(c2, Q(0))
           u == Velocity(c1, h)
           m == n * (B - A)
<1>3. Is(v, e, g)
  BY SegmentStart
<1>4. Is(u, f, g)
  BY SegmentEnd
<1>5. e \in Int /\ f \in Int /\ g \in Int /\ g # 0 /\ m \in Int
  BY <1>1
<1>6. 2 * (e - f) * T = m * g
  <2> DEFINE s == (a + 4 * b + c) * (T * T)
             r == (3 * n * (B - A)) * n * W
  <2>1. s \in Int /\ r \in Int /\ s = r
    BY <1>1
  <2>2. e - f = 2 * r - s
    BY <1>1
  <2>3. m * g = 2 * r * T
    BY <1>1
  <2> HIDE DEF e, f, m, g, s, r
  <2> QED
    BY <1>1, <1>5, <2>1, <2>2, <2>3
<1> HIDE DEF e, f, g, v, u, m
<1>7. Is(v (-) u, e - f, g)
  BY <1>3, <1>4, <1>5, SameDenominator
<1>8. Is(Q(2) (.) (v (-) u), m, T)
  <2> DEFINE d == e - f
             z == v (-) u
  <2>1. d \in Int /\ Is(z, d, g) /\ (2 * d) * T = m * (1 * g)
    BY <1>5, <1>6, <1>7, <1>1
  <2>2. Is(Q(2), 2, 1) /\ 2 \in Int /\ 1 \in Int /\ 1 # 0 /\ T \in Int
    BY <1>1, QIs
  <2> HIDE DEF d, z
  <2>3. Is(Q(2) (.) z, m, T)
    BY <1>5, <2>1, <2>2, IsProduct
  <2> QED
    BY <2>3 DEF z
<1>9. ASSUME NEW w, NEW D \in Int, Is(w, D, 1) PROVE Is(w (/) h, D * n, T)
  <2> DEFINE k == D * n
  <2>1. /\ 1 \in Int /\ 1 # 0 /\ T \in Int /\ T # 0 /\ n \in Int /\ n # 0 /\ k \in Int
        /\ (D * n) * T = k * (1 * T)
    BY <1>1
  <2> HIDE DEF k
  <2>2. Is(w (/) h, k, T)
    BY <1>9, <2>1, IsQuotient
  <2> QED
    BY <2>2 DEF k
<1>10. Is((y (/) h) (-) (x (/) h), m, T)
  <2> DEFINE k == A * n
             l == B * n
             r == x (/) h
             s == y (/) h
  <2>1. Is(r, k, T) /\ Is(s, l, T)
    BY <1>1, <1>9
  <2>2. k \in Int /\ l \in Int /\ T \in Int /\ T # 0 /\ l - k = m
    BY <1>1 DEF m
  <2> HIDE DEF k, l, r, s
  <2>3. Is(s (-) r, l - k, T)
    BY <2>1, <2>2, SameDenominator
  <2> QED
    BY <2>2, <2>3 DEF s, r
<1>11. Q(2) (.) (v (-) u) = (y (/) h) (-) (x (/) h)
  <2>1. T \in Int /\ T # 0
    BY <1>1
  <2> QED
    BY <1>5, <1>8, <1>10, <2>1, IsUnique
<1> QED
  BY <1>2, <1>11 DEF v, u

-----------------------------------------------------------------------------
(* Every sample is a number or NotFinite, whatever the duration.           *)

\* The rows of the sweep.
LEMMA SweepClosed ==
    ASSUME NEW n \in Nat \ {0}, NEW y, NEW h, DOMAIN h = 0 .. n - 1,
           \A k \in 0 .. n - 1 : h[k] \in Numbers, \A k \in 0 .. n : y[k] \in Numbers,
           NEW i \in 0 .. n - 1
    PROVE  Sweep(y, h)[i].mu \in Numbers /\ Sweep(y, h)[i].z \in Numbers
<1> DEFINE row(k) == Sweep(y, h)[k]
           Good(k) == row(k).mu \in Numbers /\ row(k).z \in Numbers
           Bad == {k \in 0 .. n - 1 : ~ Good(k)}
<1>1. row(0) = FirstRow /\ \A k \in 1 .. n - 1 : row(k) = Row(y, h, k, row(k - 1))
  <2>1. n - 1 \in Nat
    OBVIOUS
  <2> QED
    BY <2>1, SweepRows
<1>2. Q(0) \in Numbers /\ Q(2) \in Numbers /\ Q(3) \in Numbers
  BY QNumber
<1>3. Good(0)
  BY <1>1, <1>2 DEF FirstRow
<1>4. ASSUME NEW k \in 1 .. n - 1, Good(k - 1) PROVE Good(k)
  <2> HIDE DEF row
  <2>1. /\ k \in 0 .. n - 1 /\ k - 1 \in 0 .. n - 1
        /\ k \in 0 .. n /\ k - 1 \in 0 .. n /\ k + 1 \in 0 .. n
    OBVIOUS
  <2>2. /\ h[k] \in Numbers /\ h[k - 1] \in Numbers
        /\ y[k] \in Numbers /\ y[k - 1] \in Numbers /\ y[k + 1] \in Numbers
    BY <2>1
  <2> DEFINE last == row(k - 1)
  <2>3. last.mu \in Numbers /\ last.z \in Numbers
    BY <1>4
  <2>4. row(k) = Row(y, h, k, last)
    BY <1>1
  <2> HIDE DEF last
  <2>5. Pivot(h, k, last) \in Numbers
    <3>1. Q(2) (.) (h[k - 1] (+) h[k]) \in Numbers
      BY <1>2, <2>2, Closed
    <3>2. h[k - 1] (.) last.mu \in Numbers
      BY <2>2, <2>3, Closed
    <3> QED
      BY <3>1, <3>2, Closed DEF Pivot
  <2>6. Alpha(y, h, k) \in Numbers
    <3>1. (Q(3) (/) h[k]) (.) (y[k + 1] (-) y[k]) \in Numbers
      BY <1>2, <2>2, Closed
    <3>2. (Q(3) (/) h[k - 1]) (.) (y[k] (-) y[k - 1]) \in Numbers
      BY <1>2, <2>2, Closed
    <3> QED
      BY <3>1, <3>2, Closed DEF Alpha
  <2>7. h[k] (/) Pivot(h, k, last) \in Numbers
    BY <2>2, <2>5, Closed
  <2>8. (Alpha(y, h, k) (-) (h[k - 1] (.) last.z)) (/) Pivot(h, k, last) \in Numbers
    <3>1. Alpha(y, h, k) (-) (h[k - 1] (.) last.z) \in Numbers
      BY <2>2, <2>3, <2>6, Closed
    <3> QED
      BY <2>5, <3>1, Closed
  <2> QED
    BY <2>4, <2>7, <2>8 DEF Row
<1> HIDE DEF Good, row
<1>5. ASSUME Bad # {} PROVE FALSE
  <2>1. PICK k \in Bad : \A l \in Bad : k <= l
    <3>1. Bad \subseteq Nat
      OBVIOUS
    <3> HIDE DEF Bad
    <3> QED
      BY <1>5, <3>1, LeastNumber
  <2>2. k \in 1 .. n - 1 /\ ~ Good(k)
    BY <1>3, <2>1
  <2>3. k - 1 \in 0 .. n - 1 /\ ~ (k <= k - 1)
    BY <2>2
  <2>4. Good(k - 1)
    BY <2>1, <2>3
  <2> QED
    BY <1>4, <2>2, <2>4
<1>6. Good(i)
  BY <1>5
<1> QED
  BY <1>6 DEF Good, row

\* Every M.
LEMMA MomentsClosed ==
    ASSUME NEW n \in Nat \ {0}, NEW y, NEW h, DOMAIN h = 0 .. n - 1, DOMAIN y = 0 .. n,
           \A k \in 0 .. n - 1 : h[k] \in Numbers, \A k \in 0 .. n : y[k] \in Numbers,
           NEW i \in 0 .. n
    PROVE  BackSubstitution(y, h)[i] \in Numbers
<1> DEFINE M(k) == BackSubstitution(y, h)[k]
           row(k) == Sweep(y, h)[k]
           Bad == {k \in 0 .. n : M(n - k) \notin Numbers}
<1>1. M(n) = Q(0) /\ \A k \in 0 .. n - 1 : M(k) = row(k).z (-) (row(k).mu (.) M(k + 1))
  BY BackSubstitutionRows
<1>2. \A k \in 0 .. n - 1 : row(k).z \in Numbers /\ row(k).mu \in Numbers
  BY SweepClosed
<1> HIDE DEF M, row
<1>3. M(n) \in Numbers
  BY <1>1, QNumber
<1>4. ASSUME NEW k \in 0 .. n - 1, M(k + 1) \in Numbers PROVE M(k) \in Numbers
  BY <1>1, <1>2, <1>4, Closed
<1>5. ASSUME Bad # {} PROVE FALSE
  <2>1. PICK k \in Bad : \A l \in Bad : k <= l
    <3>1. Bad \subseteq Nat
      OBVIOUS
    <3> HIDE DEF Bad
    <3> QED
      BY <1>5, <3>1, LeastNumber
  <2>2. k \in 0 .. n /\ M(n - k) \notin Numbers
    BY <2>1
  <2>3. k # 0
    <3>1. n - 0 = n
      OBVIOUS
    <3> QED
      BY <1>3, <2>2, <3>1
  <2>4. /\ k - 1 \in 0 .. n /\ ~ (k <= k - 1)
        /\ n - k \in 0 .. n - 1 /\ n - (k - 1) = (n - k) + 1
    BY <2>2, <2>3
  <2>5. M(n - (k - 1)) \in Numbers
    BY <2>1, <2>4
  <2> QED
    BY <1>4, <2>2, <2>4, <2>5
<1>6. M(i) \in Numbers
  <2>1. n - i \in 0 .. n /\ n - (n - i) = i
    OBVIOUS
  <2> QED
    BY <1>5, <2>1
<1> QED
  BY <1>6 DEF M

\* A time finds some segment, whatever it is.
LEMMA SegmentAtIn ==
    ASSUME NEW s, NEW n \in Nat \ {0}, Len(s) = n, DOMAIN s = 1 .. n, NEW t
    PROVE  SegmentAt(s, t) \in 1 .. n
<1> DEFINE found == {i \in DOMAIN s :
                       /\ Leq(s[i].t_start, t)
                       /\ i = Len(s) \/ Less(t, s[i + 1].t_start)}
<1>1. SegmentAt(s, t) = IF found = {} THEN 1 ELSE CHOOSE i \in found : \A k \in found : i <= k
  BY DEF SegmentAt
<1>2. found \subseteq 1 .. n
  OBVIOUS
<1> HIDE DEF found
<1>3. ASSUME found # {} PROVE \E i \in found : \A k \in found : i <= k
  <2>1. found \subseteq Nat
    BY <1>2
  <2> QED
    BY <1>3, <2>1, LeastNumber
<1>4. 1 \in 1 .. n
  OBVIOUS
<1> QED
  BY <1>1, <1>2, <1>3, <1>4

\* Coefficients are numbers, or NotFinite if a step is zero.
LEMMA PieceClosed ==
    ASSUME NEW f, NEW J, NEW n \in Nat \ {0}, NEW p, NEW T \in Int, Fits(f, J, n, p, T),
           NEW j \in J, NEW i \in 1 .. n
    PROVE  /\ Piece(p, n, T, j, i).a \in Numbers /\ Piece(p, n, T, j, i).b \in Numbers
           /\ Piece(p, n, T, j, i).c \in Numbers /\ Piece(p, n, T, j, i).d \in Numbers
<1> DEFINE y == Places(p, n, j)
           h == Steps(T, n)
           M == Moments(p, n, T, j)
           k == i - 1
<1>1. DOMAIN h = 0 .. n - 1 /\ \A l \in 0 .. n - 1 : h[l] \in Numbers
  BY KnotsAre, IsInNumbers
<1>2. \A l \in 0 .. n : p[l + 1][j] \in Int
  <2>1. p \in Seq([J -> Int]) /\ Len(p) = n + 1
    BY DEF Fits
  <2>2. \A l \in 0 .. n : l + 1 \in 1 .. n + 1
    OBVIOUS
  <2>3. \A l \in 0 .. n : p[l + 1] \in [J -> Int]
    BY <2>1, <2>2
  <2> QED
    BY <2>3
<1>3. DOMAIN y = 0 .. n /\ \A l \in 0 .. n : y[l] \in Numbers
  BY <1>2, QNumber DEF Places
<1> HIDE DEF y, h
<1>4. \A l \in 0 .. n : M[l] \in Numbers
  BY <1>1, <1>3, MomentsClosed DEF Moments, y, h
<1>5. k \in 0 .. n - 1 /\ k \in 0 .. n /\ k + 1 \in 0 .. n
  OBVIOUS
<1>6. Piece(p, n, T, j, i) = Coefficients(y, h, M, k)
  BY DEF Piece, y, h
<1> HIDE DEF M, k
<1>7. /\ y[k] \in Numbers /\ y[k + 1] \in Numbers /\ M[k] \in Numbers /\ M[k + 1] \in Numbers
      /\ h[k] \in Numbers
  BY <1>1, <1>3, <1>4, <1>5
<1>8. Q(2) \in Numbers /\ Q(6) \in Numbers
  BY QNumber
<1>9. Slope(y, h, k) \in Numbers
  <2>1. y[k + 1] (-) y[k] \in Numbers
    BY <1>7, Closed
  <2> QED
    BY <1>7, <2>1, Closed DEF Slope
<1>10. (h[k] (.) ((Q(2) (.) M[k]) (+) M[k + 1])) (/) Q(6) \in Numbers
  <2>1. Q(2) (.) M[k] \in Numbers
    BY <1>7, <1>8, Closed
  <2>2. (Q(2) (.) M[k]) (+) M[k + 1] \in Numbers
    BY <1>7, <2>1, Closed
  <2>3. h[k] (.) ((Q(2) (.) M[k]) (+) M[k + 1]) \in Numbers
    BY <1>7, <2>2, Closed
  <2> QED
    BY <1>8, <2>3, Closed
<1>11. M[k] (/) Q(2) \in Numbers
  BY <1>7, <1>8, Closed
<1>12. (M[k + 1] (-) M[k]) (/) (Q(6) (.) h[k]) \in Numbers
  <2>1. M[k + 1] (-) M[k] \in Numbers /\ Q(6) (.) h[k] \in Numbers
    BY <1>7, <1>8, Closed
  <2> QED
    BY <2>1, Closed
<1>13. Slope(y, h, k) (-) ((h[k] (.) ((Q(2) (.) M[k]) (+) M[k + 1])) (/) Q(6)) \in Numbers
  BY <1>9, <1>10, Closed
<1> QED
  BY <1>6, <1>7, <1>11, <1>12, <1>13 DEF Coefficients

\* So a sample has every joint of the robot, and a number for each.
LEMMA EvalClosed ==
    ASSUME NEW f, NEW J, NEW n \in Nat \ {0}, NEW p, NEW T \in Int, Fits(f, J, n, p, T),
           NEW t \in Numbers
    PROVE  /\ \E i \in 1 .. n, tau \in Numbers :
                Eval(f, t) = [j \in J |-> Cubic(Piece(p, n, T, j, i), tau)]
           /\ DOMAIN Eval(f, t) = J
           /\ \A j \in J : Eval(f, t)[j] \in Numbers
<1> DEFINE s == f.segments
           u == Clamp(f.duration, t)
           i == SegmentAt(s, u)
           tau == u (-) s[i].t_start
<1>1. /\ f.duration = Q(T) /\ Len(s) = n /\ DOMAIN s = 1 .. n /\ s # <<>>
      /\ \A l \in 1 .. n :
            /\ Is(s[l].t_start, T * (l - 1), n) /\ DOMAIN s[l].coeff = J
            /\ \A j \in J : s[l].coeff[j] = Piece(p, n, T, j, l)
  <2>1. /\ f.duration = Q(T) /\ Len(f.segments) = n /\ DOMAIN f.segments = 1 .. n
        /\ f.segments # <<>>
    BY SegmentsAre
  <2>2. \A l \in 1 .. n :
          /\ Is(f.segments[l].t_start, T * (l - 1), n) /\ DOMAIN f.segments[l].coeff = J
          /\ \A j \in J : f.segments[l].coeff[j] = Piece(p, n, T, j, l)
    BY SegmentsAre
  <2> QED
    BY <2>1, <2>2
<1>2. u \in Numbers
  BY <1>1, QNumber DEF Clamp
<1>3. Eval(f, t) = [j \in DOMAIN s[i].coeff |-> Cubic(s[i].coeff[j], tau)]
  BY <1>1 DEF Eval
<1> HIDE DEF s, u
<1>4. i \in 1 .. n
  BY <1>1, SegmentAtIn
<1> HIDE DEF i
<1>5. s[i].t_start \in Numbers
  BY <1>1, <1>4, IsInNumbers
<1>6. tau \in Numbers
  BY <1>2, <1>5, Closed
<1> HIDE DEF tau
<1>7. Eval(f, t) = [j \in J |-> Cubic(Piece(p, n, T, j, i), tau)]
  BY <1>1, <1>3, <1>4
<1>8. ASSUME NEW j \in J PROVE Cubic(Piece(p, n, T, j, i), tau) \in Numbers
  <2> DEFINE c == Piece(p, n, T, j, i)
  <2>1. c.a \in Numbers /\ c.b \in Numbers /\ c.c \in Numbers /\ c.d \in Numbers
    BY <1>4, PieceClosed
  <2> HIDE DEF c
  <2>2. c.c (+) (tau (.) c.d) \in Numbers
    BY <1>6, <2>1, Closed
  <2>3. c.b (+) (tau (.) (c.c (+) (tau (.) c.d))) \in Numbers
    BY <1>6, <2>1, <2>2, Closed
  <2>4. c.a (+) (tau (.) (c.b (+) (tau (.) (c.c (+) (tau (.) c.d))))) \in Numbers
    BY <1>6, <2>1, <2>3, Closed
  <2>5. Cubic(c, tau) \in Numbers
    BY <2>4 DEF Cubic
  <2> QED
    BY <2>5 DEF c
<1> QED
  BY <1>4, <1>6, <1>7, <1>8

-----------------------------------------------------------------------------
(* A duration of zero, which fitCubicSpline does not refuse.               *)

\* Every operation passes NotFinite on.
LEMMA Absorbs ==
    ASSUME NEW x \in Numbers
    PROVE  /\ NotFinite (+) x = NotFinite /\ x (+) NotFinite = NotFinite
           /\ NotFinite (-) x = NotFinite /\ x (-) NotFinite = NotFinite
           /\ NotFinite (.) x = NotFinite /\ x (.) NotFinite = NotFinite
<1>1. PICK a \in Int, b \in Int : x = <<a, b>>
  BY DEF Numbers, NotFinite
<1>2. \A m \in Int : Frac(m, 0) = NotFinite
  BY DEF Frac
<1>3. NotFinite[1] = 0 /\ NotFinite[2] = 0 /\ x[1] = a /\ x[2] = b
  BY <1>1 DEF NotFinite
<1>4. /\ 0 * b = 0 /\ b * 0 = 0 /\ 0 * b + a * 0 \in Int /\ a * 0 + 0 * b \in Int
      /\ 0 * b - a * 0 \in Int /\ a * 0 - 0 * b \in Int /\ 0 * a \in Int /\ a * 0 \in Int
  OBVIOUS
<1>5. NotFinite (+) x = NotFinite /\ x (+) NotFinite = NotFinite
  BY <1>2, <1>3, <1>4 DEF (+)
<1>6. NotFinite (-) x = NotFinite /\ x (-) NotFinite = NotFinite
  BY <1>2, <1>3, <1>4 DEF (-)
<1>7. NotFinite (.) x = NotFinite /\ x (.) NotFinite = NotFinite
  BY <1>2, <1>3, <1>4 DEF (.)
<1> QED
  BY <1>5, <1>6, <1>7

\* Dividing by zero gives it.
LEMMA DividedByZero ==
    ASSUME NEW x \in Numbers
    PROVE  x (/) Q(0) = NotFinite
<1>1. PICK a \in Int, b \in Int : x = <<a, b>>
  BY DEF Numbers, NotFinite
<1>2. b * 0 = 0
  OBVIOUS
<1> QED
  BY <1>1, <1>2 DEF (/), Frac, NotFinite, Q

\* Then no sample is a number (all steps are zero, and every slope a quotient by one).
LEMMA EvalNotFinite ==
    ASSUME NEW f, NEW J, NEW n \in Nat \ {0}, NEW p, Fits(f, J, n, p, 0), NEW t \in Numbers,
           NEW j \in J
    PROVE  Eval(f, t)[j] = NotFinite
<1>1. PICK i \in 1 .. n, tau \in Numbers :
        Eval(f, t) = [l \in J |-> Cubic(Piece(p, n, 0, l, i), tau)]
  BY EvalClosed
<1> DEFINE c == Piece(p, n, 0, j, i)
           y == Places(p, n, j)
           h == Steps(0, n)
           M == Moments(p, n, 0, j)
           k == i - 1
           part == (h[k] (.) ((Q(2) (.) M[k]) (+) M[k + 1])) (/) Q(6)
<1>2. c.a \in Numbers /\ c.c \in Numbers /\ c.d \in Numbers
  BY PieceClosed
<1>3. h[k] = Q(0)
  <2>1. k \in 0 .. n - 1 /\ 0 \in Int
    OBVIOUS
  <2>2. Is(h[k], 0, n)
    BY <2>1, KnotsAre
  <2>3. /\ n \in Int /\ n # 0 /\ 0 \in Int /\ 1 \in Int /\ 1 # 0 /\ 0 * 1 = 0 * n
        /\ Is(Q(0), 0, 1)
    BY QIs
  <2>4. Is(h[k], 0, 1)
    BY <2>2, <2>3, IsSame
  <2> QED
    BY <2>3, <2>4, IsUnique
<1>4. c.b = Slope(y, h, k) (-) part
  BY DEF Piece, Coefficients
<1>5. y[k] \in Numbers /\ y[k + 1] \in Numbers
  <2>1. p \in Seq([J -> Int]) /\ Len(p) = n + 1
    BY DEF Fits
  <2>2. k + 1 \in 1 .. n + 1 /\ k + 2 \in 1 .. n + 1 /\ k \in 0 .. n /\ k + 1 \in 0 .. n
        /\ (k + 1) + 1 = k + 2
    OBVIOUS
  <2>3. p[k + 1][j] \in Int /\ p[k + 2][j] \in Int
    BY <2>1, <2>2
  <2> HIDE DEF k
  <2> QED
    BY <2>2, <2>3, QNumber DEF Places
<1>6. Slope(y, h, k) = NotFinite
  <2>1. y[k + 1] (-) y[k] \in Numbers
    BY <1>5, Closed
  <2> QED
    BY <1>3, <2>1, DividedByZero DEF Slope
<1>7. part \in Numbers
  <2>1. \A l \in 0 .. n : M[l] \in Numbers
    <3>1. DOMAIN h = 0 .. n - 1 /\ \A l \in 0 .. n - 1 : h[l] \in Numbers
      <4>1. 0 \in Int
        OBVIOUS
      <4> QED
        BY <4>1, KnotsAre, IsInNumbers
    <3>2. \A l \in 0 .. n : p[l + 1][j] \in Int
      <4>1. p \in Seq([J -> Int]) /\ Len(p) = n + 1
        BY DEF Fits
      <4>2. \A l \in 0 .. n : l + 1 \in 1 .. n + 1
        OBVIOUS
      <4>3. \A l \in 0 .. n : p[l + 1] \in [J -> Int]
        BY <4>1, <4>2
      <4> QED
        BY <4>3
    <3>3. DOMAIN y = 0 .. n /\ \A l \in 0 .. n : y[l] \in Numbers
      BY <3>2, QNumber DEF Places
    <3> HIDE DEF y, h
    <3> QED
      BY <3>1, <3>3, MomentsClosed DEF Moments, y, h
  <2>2. k \in 0 .. n /\ k + 1 \in 0 .. n
    OBVIOUS
  <2>3. M[k] \in Numbers /\ M[k + 1] \in Numbers
    BY <2>1, <2>2
  <2> HIDE DEF M, h, k
  <2>4. Q(2) \in Numbers /\ Q(6) \in Numbers /\ Q(0) \in Numbers
    BY QNumber
  <2>5. Q(2) (.) M[k] \in Numbers
    BY <2>3, <2>4, Closed
  <2>6. (Q(2) (.) M[k]) (+) M[k + 1] \in Numbers
    BY <2>3, <2>5, Closed
  <2>7. h[k] (.) ((Q(2) (.) M[k]) (+) M[k + 1]) \in Numbers
    BY <1>3, <2>4, <2>6, Closed
  <2> QED
    BY <2>4, <2>7, Closed
<1> HIDE DEF c, y, h, M, k, part
<1>8. c.b = NotFinite
  BY <1>4, <1>6, <1>7, Absorbs
<1>9. Cubic(c, tau) = NotFinite
  <2>1. tau (.) (c.c (+) (tau (.) c.d)) \in Numbers
    <3>1. c.c (+) (tau (.) c.d) \in Numbers
      BY <1>2, Closed
    <3> QED
      BY <3>1, Closed
  <2>2. c.b (+) (tau (.) (c.c (+) (tau (.) c.d))) = NotFinite
    BY <1>8, <2>1, Absorbs
  <2>3. tau (.) (c.b (+) (tau (.) (c.c (+) (tau (.) c.d)))) = NotFinite
    BY <2>2, Absorbs
  <2> QED
    BY <1>2, <2>3, Absorbs DEF Cubic
<1> QED
  BY <1>1, <1>9 DEF c

-----------------------------------------------------------------------------
(* The goal that reaches OMPL.                                              *)

\* In the URDF no joint has the name of a link.
NoJointNamedAsLink == \A l \in NonRoot : JointName[l] \notin Links

\* Then no joint of a segment is ever found, and every exported limit is the
\* default (robot_model.cpp:49-55).
LEMMA LimitsAreDefaults ==
    ASSUME NoJointNamedAsLink
    PROVE  /\ q_min = [j \in Joints |-> -Pi]
           /\ q_max = [j \in Joints |-> Pi]
<1>1. Joints \subseteq Links
  BY RobotAssumption DEF Joints, NonRoot
<1>2. \A j \in Joints : GetJoint(j) = {}
  BY <1>1 DEF NoJointNamedAsLink, GetJoint
<1>3. \A j \in Joints : /\ LimitOr(j, Lower, -Pi) = -Pi
                        /\ LimitOr(j, Upper, Pi) = Pi
  BY <1>2 DEF LimitOr
<1> QED
  BY <1>3 DEF q_min, q_max

\* So what the solver returns is a state of OMPL's space: both keep within the
\* same limits, though neither asks the other.
LEMMA SolutionsInSpace ==
    ASSUME NoJointNamedAsLink, NEW target
    PROVE  CartToJnt(target) \subseteq Space
<1> SUFFICES ASSUME NEW c \in CartToJnt(target) PROVE c \in Space
  OBVIOUS
<1>1. c \in Configuration /\ Within(c, [j \in Joints |-> -Pi], [j \in Joints |-> Pi])
  BY DEF CartToJnt
<1> QED
  BY <1>1, LimitsAreDefaults DEF Space

\* runOMPL reads every joint of a vector that has them all, and its goal is
\* within its bounds.
THEOREM StartAndGoalAlwaysFit ==
    ASSUME NoJointNamedAsLink
    PROVE  Spec => []StartAndGoalFit
<1>1. Init => StartAndGoalFit
  BY DEF Init, StartAndGoalFit
<1>2. StartAndGoalFit /\ [Next]_vars => StartAndGoalFit'
  <2> SUFFICES ASSUME StartAndGoalFit, [Next]_vars PROVE StartAndGoalFit'
    OBVIOUS
  <2>1. CASE SolveIK
    BY <2>1, SolutionsInSpace DEF SolveIK, StartAndGoalFit
  <2>2. CASE RunOMPL
    BY <2>2 DEF RunOMPL, StartAndGoalFit
  <2>3. CASE Fit
    BY <2>3 DEF Fit, StartAndGoalFit
  <2>4. CASE Tick
    BY <2>4 DEF Tick, StartAndGoalFit
  <2>5. CASE UNCHANGED vars
    BY <2>5 DEF vars, StartAndGoalFit
  <2> QED
    BY <2>1, <2>2, <2>3, <2>4, <2>5 DEF Next
<1> QED
  BY <1>1, <1>2, PTL DEF Spec

-----------------------------------------------------------------------------
(* The request.                                                            *)

\* What TypeOK leaves out: where the path, its status and the trajectory come from.
Inductive ==
    /\ TypeOK
    /\ pc \in {"fit", "play"} =>
          path \in Paths /\ (solved = "EXACT_SOLUTION" => Satisfies(path[Len(path)]))
    /\ pc = "play" => trajectory = FitCubicSpline(path, Q(request.duration_s))
    /\ pc # "play" => tick = 0 /\ q = Empty
    /\ q # Empty => tick > 0 /\ q = Eval(trajectory, Frac(tick - 1, TicksPerUnit))

\* A path is a sequence of configurations from the start.
LEMMA PathsAre ==
    ASSUME NEW p \in Paths
    PROVE  /\ p \in Seq(Space) /\ Len(p) \in 1 .. MaxWaypoints
           /\ p \in Seq([Joints -> Int])
           /\ \A i \in 1 .. Len(p) : p[i] \in Space
           /\ p[1] = StartState
<1>1. PICK n \in 1 .. MaxWaypoints : p \in [1 .. n -> Space]
  BY DEF Paths
<1>2. n \in Nat /\ MaxWaypoints \in Nat
  BY MotionPlanAssumption
<1>3. p \in Seq(Space) /\ Len(p) = n
  BY <1>1, <1>2
<1>4. Space \subseteq [Joints -> Int]
  BY MotionPlanAssumption DEF Space, Configuration
<1>5. p \in [1 .. n -> [Joints -> Int]]
  BY <1>1, <1>4
<1>6. p \in Seq([Joints -> Int])
  BY <1>2, <1>5
<1> QED
  BY <1>1, <1>3, <1>6 DEF Paths

\* A function on no joints is the empty sequence.
LEMMA NoJoints ==
    ASSUME NEW f, DOMAIN f = {}, f = [j \in {} |-> f[j]]
    PROVE  f = <<>>
<1>1. f \in [1 .. 0 -> {}]
  BY SMT
<1>2. f \in Seq({}) /\ Len(f) = 0
  BY <1>1
<1> QED
  BY <1>2

\* While it plays, the trajectory is fitted to a path of several configurations, or
\* there is nothing to fit.
LEMMA PlayFits ==
    ASSUME Inductive, pc = "play"
    PROVE  \/ /\ Len(path) = 1 \/ Joints = {}
              /\ trajectory = EmptyTrajectory
           \/ /\ Len(path) - 1 \in Nat \ {0} /\ request.duration_s \in Int
              /\ Fits(trajectory, Joints, Len(path) - 1, path, request.duration_s)
<1>1. path \in Paths /\ trajectory = FitCubicSpline(path, Q(request.duration_s))
  BY DEF Inductive
<1>2. /\ Len(path) \in 1 .. MaxWaypoints /\ path \in Seq([Joints -> Int])
  BY <1>1, PathsAre
<1>3. Len(path) \in Nat \ {0} /\ path[1] \in [Joints -> Int]
  BY <1>2, MotionPlanAssumption
<1>4. request.duration_s \in Int
  <2>1. request \in [target : Targets, duration_s : Durations, q_current : Seeds]
    BY DEF Inductive, TypeOK
  <2> QED
    BY <2>1, MotionPlanAssumption
<1>5. DOMAIN path[1] = Joints
  BY <1>3
<1>6. CASE Len(path) = 1 \/ Joints = {}
  <2>1. Len(path) - 1 < 1 \/ DOMAIN path[1] = {}
    <3>1. Len(path) = 1 => Len(path) - 1 < 1
      BY <1>3
    <3> QED
      BY <1>5, <1>6, <3>1
  <2>2. FitCubicSpline(path, Q(request.duration_s)) = EmptyTrajectory
    BY <2>1, Zenon DEF FitCubicSpline
  <2> QED
    BY <1>1, <1>6, <2>2
<1>7. CASE Len(path) # 1 /\ Joints # {}
  BY <1>1, <1>2, <1>3, <1>4, <1>7 DEF Fits
<1> QED
  BY <1>6, <1>7

\* A trajectory without segments gives an empty vector.
LEMMA EvalEmpty ==
    ASSUME NEW t
    PROVE  Eval(EmptyTrajectory, t) = <<>>
  BY Zenon DEF Eval, EmptyTrajectory

\* The inductive invariant.
THEOREM InductiveInvariant == Spec => []Inductive
<1>1. Init => Inductive
  <2> SUFFICES ASSUME Init PROVE Inductive
    OBVIOUS
  <2>1. Empty \in Seq(Space) /\ Len(Empty) = 0 /\ 0 <= MaxWaypoints
    BY MotionPlanAssumption DEF Empty
  <2> QED
    BY <2>1 DEF Init, Inductive, TypeOK
<1>2. Inductive /\ [Next]_vars => Inductive'
  <2> SUFFICES ASSUME Inductive, [Next]_vars PROVE Inductive'
    OBVIOUS
  <2>1. TypeOK
    BY DEF Inductive
  <2>2. CASE SolveIK
    <3>1. pc = "ik" /\ pc' \in {"ompl", "done"} /\ tick = 0 /\ q = Empty
      BY <2>2 DEF SolveIK, Inductive
    <3>2. q_goal' = Empty \/ q_goal' \in Configuration
      BY <2>2 DEF SolveIK, CartToJnt
    <3>3. UNCHANGED <<request, solved, path, trajectory, tick, q>>
      BY <2>2 DEF SolveIK
    <3> QED
      BY <2>1, <3>1, <3>2, <3>3 DEF Inductive, TypeOK
  <2>3. CASE RunOMPL
    <3>1. pc = "ompl" /\ tick = 0 /\ q = Empty /\ pc' \in {"fit", "done"}
      BY <2>3 DEF RunOMPL, Inductive
    <3>2. UNCHANGED <<request, q_goal, trajectory, tick, q>>
      BY <2>3 DEF RunOMPL
    <3>3. CASE /\ path' \in Paths
               /\ solved' = IF Satisfies(path'[Len(path')]) THEN "EXACT_SOLUTION"
                            ELSE "APPROXIMATE_SOLUTION"
      <4>1. path' \in Seq(Space) /\ Len(path') <= MaxWaypoints
        BY <3>3, PathsAre, MotionPlanAssumption
      <4>2. Paths' = Paths
        BY <3>2 DEF Paths, StartState
      <4>3. Satisfies(path[Len(path)])' <=> Satisfies(path'[Len(path')])
        BY <3>2 DEF Satisfies, GoalState
      <4> QED
        BY <2>1, <3>1, <3>2, <3>3, <4>1, <4>2, <4>3 DEF Inductive, TypeOK
    <3>4. CASE path' = Empty /\ solved' = "TIMEOUT"
      <4>1. path' \in Seq(Space) /\ Len(path') <= MaxWaypoints
        BY <3>4, MotionPlanAssumption DEF Empty
      <4>2. pc' = "done"
        BY <2>3, <3>4 DEF RunOMPL
      <4> QED
        BY <2>1, <3>1, <3>2, <3>4, <4>1, <4>2 DEF Inductive, TypeOK
    <3> QED
      BY <2>3, <3>3, <3>4 DEF RunOMPL
  <2>4. CASE Fit
    <3>1. /\ pc = "fit" /\ tick = 0 /\ q = Empty /\ pc' = "play"
          /\ trajectory' = FitCubicSpline(path, Q(request.duration_s))
          /\ UNCHANGED <<request, q_goal, solved, path, tick, q>>
          /\ path \in Paths /\ (solved = "EXACT_SOLUTION" => Satisfies(path[Len(path)]))
      BY <2>4 DEF Fit, Inductive
    <3>2. Paths' = Paths
      BY <3>1 DEF Paths, StartState
    <3>3. Satisfies(path[Len(path)])' <=> Satisfies(path[Len(path)])
      BY <3>1 DEF Satisfies, GoalState
    <3> QED
      BY <2>1, <3>1, <3>2, <3>3 DEF Inductive, TypeOK
  <2>5. CASE Tick
    <3>1. /\ pc = "play" /\ pc' = "play" /\ tick' = tick + 1
          /\ q' = Eval(trajectory, LoopTime) /\ Leq(LoopTime, trajectory.duration)
          /\ UNCHANGED <<request, q_goal, solved, path, trajectory>>
          /\ path \in Paths /\ (solved = "EXACT_SOLUTION" => Satisfies(path[Len(path)]))
          /\ trajectory = FitCubicSpline(path, Q(request.duration_s))
      BY <2>5 DEF Tick, Inductive
    <3>2. Paths' = Paths
      BY <3>1 DEF Paths, StartState
    <3>3. Satisfies(path[Len(path)])' <=> Satisfies(path[Len(path)])
      BY <3>1 DEF Satisfies, GoalState
    <3>4. tick \in Nat /\ tick + 1 \in Nat /\ (tick + 1) - 1 = tick
      BY <2>1 DEF TypeOK
    <3>5. Leq(Frac(tick' - 1, TicksPerUnit), trajectory'.duration)
      BY <3>1, <3>4 DEF LoopTime
    <3>6. q' # Empty => DOMAIN q' = Joints /\ \A j \in Joints : IsNumber(q'[j])
      <4>1. CASE trajectory = EmptyTrajectory
        BY <3>1, <4>1, EvalEmpty DEF Empty
      <4>2. CASE /\ Len(path) - 1 \in Nat \ {0} /\ request.duration_s \in Int
                 /\ Fits(trajectory, Joints, Len(path) - 1, path, request.duration_s)
        <5>1. LoopTime \in Numbers
          <6>1. tick \in Int /\ TicksPerUnit \in Int
            BY <3>4, MotionPlanAssumption
          <6> QED
            BY <6>1, FracNumber DEF LoopTime
        <5>2. DOMAIN Eval(trajectory, LoopTime) = Joints
              /\ \A j \in Joints : Eval(trajectory, LoopTime)[j] \in Numbers
          BY <4>2, <5>1, EvalClosed
        <5> QED
          BY <3>1, <5>2, NumbersAreNumbers
      <4> QED
        BY <3>1, <4>1, <4>2, PlayFits
    <3>7. tick' > 0 /\ q' = Eval(trajectory', Frac(tick' - 1, TicksPerUnit))
      BY <3>1, <3>4 DEF LoopTime
    <3>8. pc' = "play" /\ UNCHANGED <<request, q_goal, solved, path, trajectory>> /\ tick' \in Nat
      BY <3>1, <3>4
    <3>9. TypeOK'
      BY <2>1, <3>5, <3>6, <3>8 DEF TypeOK
    <3> QED
      BY <3>1, <3>2, <3>3, <3>7, <3>9 DEF Inductive
  <2>6. CASE UNCHANGED vars
    <3>1. Paths' = Paths
      BY <2>6 DEF Paths, StartState, vars
    <3>2. Satisfies(path[Len(path)])' <=> Satisfies(path[Len(path)])
      BY <2>6 DEF Satisfies, GoalState, vars
    <3> QED
      BY <2>6, <3>1, <3>2 DEF Inductive, TypeOK, vars
  <2> QED
    BY <2>2, <2>3, <2>4, <2>5, <2>6 DEF Next
<1> QED
  BY <1>1, <1>2, PTL DEF Spec

\* Its part TypeOK: every variable keeps its type, every sample has every joint and
\* a number, or NotFinite, for each, and no sample is taken past the end.
THEOREM TypeCorrect == Spec => []TypeOK
<1>1. Inductive => TypeOK
  BY DEF Inductive
<1> QED
  BY <1>1, InductiveInvariant, PTL

-----------------------------------------------------------------------------
(* The curve.                                                              *)

\* A spline is fitted to a path of several states for a positive duration.
LEMMA SplineIs ==
    ASSUME Inductive, Spline
    PROVE  /\ pc = "play" /\ path \in Paths
           /\ solved = "EXACT_SOLUTION" => Satisfies(path[Len(path)])
           /\ trajectory = FitCubicSpline(path, Q(request.duration_s))
           /\ path \in Seq(Space) /\ path[1] = StartState
           /\ \A i \in 1 .. Len(path) : path[i] \in Space
           /\ Len(path) \in Nat \ {0} /\ Len(path) # 1 /\ Len(path) - 1 \in Nat \ {0}
           /\ request.duration_s \in Nat \ {0}
<1>1. /\ pc = "play" /\ Len(path) > 1 /\ request.duration_s > 0 /\ path \in Paths
      /\ solved = "EXACT_SOLUTION" => Satisfies(path[Len(path)])
      /\ trajectory = FitCubicSpline(path, Q(request.duration_s))
  BY DEF Spline, Inductive
<1>2. /\ Len(path) \in 1 .. MaxWaypoints /\ path \in Seq(Space) /\ path[1] = StartState
      /\ \A i \in 1 .. Len(path) : path[i] \in Space
  BY <1>1, PathsAre
<1>3. Len(path) \in Nat \ {0}
  BY <1>2, MotionPlanAssumption
<1>4. Len(path) # 1 /\ Len(path) - 1 \in Nat \ {0}
  <2> DEFINE N == Len(path)
  <2>1. N > 1 /\ N \in Nat
    BY <1>1, <1>3
  <2> HIDE DEF N
  <2>2. N # 1 /\ N - 1 \in Nat \ {0}
    BY <2>1
  <2> QED
    BY <2>2 DEF N
<1>5. request.duration_s \in Int
  <2>1. request \in [target : Targets, duration_s : Durations, q_current : Seeds]
    BY DEF Inductive, TypeOK
  <2> QED
    BY <2>1, MotionPlanAssumption
<1>6. request.duration_s \in Nat \ {0}
  BY <1>1, <1>5
<1> QED
  BY <1>1, <1>2, <1>3, <1>4, <1>6

\* The ith waypoint is met on the ith knot.
LEMMA KnotMet ==
    ASSUME Inductive, Spline, NEW i \in 1 .. Len(path),
           NEW t, Is(t, request.duration_s * (i - 1), Len(path) - 1)
    PROVE  Eval(trajectory, t) = [j \in Joints |-> Q(path[i][j])]
<1>1. pc = "play" /\ Len(path) # 1 /\ request.duration_s \in Nat \ {0}
  BY SplineIs
<1>2. CASE Len(path) = 1 \/ Joints = {}
  <2>1. Len(path) # 1 /\ Joints = {}
    BY <1>1, <1>2
  <2>2. trajectory = EmptyTrajectory
    BY <1>1, PlayFits, <2>1 DEF Fits
  <2> DEFINE f == [j \in Joints |-> Q(path[i][j])]
  <2>3. f = <<>>
    <3>1. DOMAIN f = {} /\ f = [j \in {} |-> f[j]]
      BY <2>1
    <3> HIDE DEF f
    <3> QED
      BY <3>1, NoJoints
  <2> QED
    BY <2>2, <2>3, EvalEmpty
<1>3. CASE Len(path) # 1 /\ Joints # {}
  <2> DEFINE n == Len(path) - 1
             T == request.duration_s
  <2>1. n \in Nat \ {0} /\ T \in Int /\ Fits(trajectory, Joints, n, path, T)
    BY <1>1, <1>3, PlayFits
  <2>2. T \in Nat \ {0} /\ i \in 1 .. n + 1
    BY <1>1, <2>1 DEF Fits
  <2>3. Is(t, T * (i - 1), n)
    OBVIOUS
  <2> HIDE DEF n, T
  <2> QED
    BY <2>1, <2>2, <2>3, EvalKnot
<1> QED
  BY <1>2, <1>3

\* What the executor is given passes through every state of the path on time.
THEOREM WaypointsAlwaysMet == Spec => []WaypointsMet
<1>1. Inductive => WaypointsMet
  <2> SUFFICES ASSUME Inductive, Spline PROVE WaypointsMet
    BY DEF WaypointsMet
  <2> DEFINE N == Len(path)
             T == request.duration_s
  <2>1. /\ pc = "play" /\ path \in Paths
        /\ solved = "EXACT_SOLUTION" => Satisfies(path[N])
        /\ trajectory = FitCubicSpline(path, Q(T))
    BY SplineIs
  <2>2. /\ path \in Seq(Space) /\ path[1] = StartState
        /\ \A i \in 1 .. N : path[i] \in Space
    BY SplineIs
  <2>3. N \in Nat \ {0} /\ N - 1 \in Nat \ {0} /\ DOMAIN path = 1 .. N
    BY <2>2, SplineIs
  <2>4. T \in Nat \ {0}
    BY SplineIs
  <2>5. \A i \in DOMAIN path : \A j \in Joints :
          Eval(trajectory, KnotTime(i))[j] = Q(path[i][j])
    <3> SUFFICES ASSUME NEW i \in 1 .. N, NEW j \in Joints
                 PROVE  Eval(trajectory, KnotTime(i))[j] = Q(path[i][j])
      BY <2>3
    <3>1. T * (i - 1) \in Int /\ N - 1 \in Int /\ N - 1 # 0
      BY <2>3, <2>4
    <3>2. Is(KnotTime(i), T * (i - 1), N - 1)
      BY <3>1, FracIs DEF KnotTime
    <3>3. Eval(trajectory, KnotTime(i)) = [l \in Joints |-> Q(path[i][l])]
      BY <3>2, KnotMet
    <3> QED
      BY <3>3
  <2>6. Eval(trajectory, Q(0)) = [j \in Joints |-> Q(request.q_current[j])]
    <3>1. /\ 0 \in Int /\ 1 \in Int /\ 1 # 0 /\ T * (1 - 1) \in Int /\ N - 1 \in Int
          /\ 0 * (N - 1) = T * (1 - 1) * 1 /\ 1 \in 1 .. N
      BY <2>3, <2>4
    <3>2. Is(Q(0), T * (1 - 1), N - 1)
      BY <3>1, QIs, IsSame
    <3>3. Eval(trajectory, Q(0)) = [j \in Joints |-> Q(path[1][j])]
      BY <3>1, <3>2, KnotMet
    <3> QED
      BY <2>2, <3>3 DEF StartState
  <2>7. ASSUME solved = "EXACT_SOLUTION"
        PROVE  \E c \in Space : /\ Satisfies(c)
                   /\ Eval(trajectory, trajectory.duration) = [j \in Joints |-> Q(c[j])]
    <3>1. path[N] \in Space /\ Satisfies(path[N]) /\ N \in 1 .. N
      BY <2>1, <2>2, <2>3, <2>7
    <3>2. Eval(trajectory, trajectory.duration) = [j \in Joints |-> Q(path[N][j])]
      <4>1. CASE trajectory.duration = Q(T)
        <5>1. T \in Int /\ 1 \in Int /\ 1 # 0 /\ T * (N - 1) \in Int /\ N - 1 \in Int
              /\ T * (N - 1) = T * (N - 1) * 1
          BY <2>3, <2>4
        <5>2. Is(Q(T), T * (N - 1), N - 1)
          BY <5>1, QIs, IsSame
        <5> QED
          BY <3>1, <4>1, <5>2, KnotMet
      <4>2. CASE trajectory = EmptyTrajectory
        <5>1. Eval(trajectory, trajectory.duration) = Eval(trajectory, KnotTime(N))
          BY <4>2, EvalEmpty
        <5>2. T * (N - 1) \in Int /\ N - 1 \in Int /\ N - 1 # 0
          BY <2>3, <2>4
        <5>3. Is(KnotTime(N), T * (N - 1), N - 1)
          BY <5>2, FracIs DEF KnotTime
        <5> QED
          BY <3>1, <5>1, <5>3, KnotMet
      <4> QED
        <5>1. CASE Fits(trajectory, Joints, N - 1, path, T) /\ T \in Int
          BY <2>3, <4>1, <5>1, SegmentsAre
        <5> QED
          BY <2>1, <4>2, <5>1, PlayFits
    <3> QED
      BY <3>1, <3>2
  <2> QED
    BY <2>5, <2>6, <2>7 DEF WaypointsMet
<1> QED
  BY <1>1, InductiveInvariant, PTL

\* What CornersHalved says of one joint, in n segments s through p.
Halved(s, n, p, j) ==
    /\ Acceleration(s[1].coeff[j], Q(0)) = Q(0)
    /\ Acceleration(s[n].coeff[j], s[n].h) = Q(0)
    /\ \A i \in 1 .. n - 1 :
          /\ Acceleration(s[i].coeff[j], s[i].h) = Acceleration(s[i + 1].coeff[j], Q(0))
          /\ Q(2) (.) (Velocity(s[i + 1].coeff[j], Q(0)) (-) Velocity(s[i].coeff[j], s[i].h))
                = ((Q(p[i + 2][j]) (-) Q(p[i + 1][j])) (/) s[i + 1].h)
                     (-) ((Q(p[i + 1][j]) (-) Q(p[i][j])) (/) s[i].h)

\* It is true of a fitted trajectory.
LEMMA CornersOf ==
    ASSUME NEW f, NEW J, NEW n \in Nat \ {0}, NEW p, NEW T \in Nat \ {0}, Fits(f, J, n, p, T),
           NEW j \in J, NEW s, s = f.segments
    PROVE  Halved(s, n, p, j)
<1>1. \A l \in 1 .. n : Is(s[l].h, T, n) /\ s[l].coeff[j] = Piece(p, n, T, j, l)
  <2>1. T \in Int
    OBVIOUS
  <2>2. \A l \in 1 .. n : /\ Is(f.segments[l].t_start, T * (l - 1), n)
                          /\ Is(f.segments[l].h, T, n)
                          /\ DOMAIN f.segments[l].coeff = J
                          /\ \A k \in J : f.segments[l].coeff[k] = Piece(p, n, T, k, l)
    BY <2>1, SegmentsAre
  <2> QED
    BY <2>2
<1>2. \A i \in 1 .. n + 1 : p[i][j] \in Int
  BY FitUniform
<1>3. 1 \in 1 .. n /\ n \in 1 .. n /\ 0 \in Int /\ 1 \in Int /\ 1 # 0 /\ 1 - 1 = 0
  OBVIOUS
<1>4. Is(Q(0), 0, 1)
  BY <1>3, QIs
<1>5. ASSUME NEW x, NEW W \in Nat \ {0}, NEW a \in Int, Is(x, a, W), NEW z, Is(z, a, W), Is(z, 0, 1)
      PROVE  x = Q(0)
  <2>1. W \in Int /\ W # 0
    OBVIOUS
  <2>2. x = z
    BY <1>5, <2>1, IsUnique
  <2> QED
    BY <1>3, <1>4, <1>5, <2>2, IsUnique
<1>6. Acceleration(s[1].coeff[j], Q(0)) = Q(0)
  <2>1. PICK a, b \in Int, W \in Nat \ {0} :
          Is(Moments(p, n, T, j)[1 - 1], a, W) /\ Is(Moments(p, n, T, j)[1], b, W)
    BY <1>3, TwoMoments
  <2>2. Segment(Piece(p, n, T, j, 1), p[1][j], p[1 + 1][j] - p[1][j], a, b, W, T, n)
    BY <1>3, <2>1, PieceIs
  <2>3. Is(Acceleration(Piece(p, n, T, j, 1), Q(0)), a, W)
    BY <2>2, SegmentStart
  <2>4. Is(Moments(p, n, T, j)[0], a, W) /\ Is(Moments(p, n, T, j)[0], 0, 1)
    BY <1>3, <2>1, NaturalEnds
  <2> QED
    BY <1>1, <1>3, <1>5, <2>3, <2>4
<1>7. Acceleration(s[n].coeff[j], s[n].h) = Q(0)
  <2>1. PICK a, b \in Int, W \in Nat \ {0} :
          Is(Moments(p, n, T, j)[n - 1], a, W) /\ Is(Moments(p, n, T, j)[n], b, W)
    BY <1>3, TwoMoments
  <2>2. Segment(Piece(p, n, T, j, n), p[n][j], p[n + 1][j] - p[n][j], a, b, W, T, n)
    BY <1>3, <2>1, PieceIs
  <2>3. Is(s[n].h, T, n)
    BY <1>1, <1>3
  <2>4. Is(Acceleration(Piece(p, n, T, j, n), s[n].h), b, W)
    BY <2>2, <2>3, SegmentEnd
  <2>5. Is(Moments(p, n, T, j)[n], b, W) /\ Is(Moments(p, n, T, j)[n], 0, 1)
    BY <2>1, NaturalEnds
  <2> QED
    BY <1>1, <1>3, <1>5, <2>4, <2>5
<1>8. ASSUME NEW i \in 1 .. n - 1
      PROVE  /\ Acceleration(s[i].coeff[j], s[i].h) = Acceleration(s[i + 1].coeff[j], Q(0))
             /\ Q(2) (.) (Velocity(s[i + 1].coeff[j], Q(0)) (-) Velocity(s[i].coeff[j], s[i].h))
                   = ((Q(p[i + 2][j]) (-) Q(p[i + 1][j])) (/) s[i + 1].h)
                        (-) ((Q(p[i + 1][j]) (-) Q(p[i][j])) (/) s[i].h)
  <2> DEFINE P == p[i][j]
             R == p[i + 1][j]
             S == p[i + 2][j]
             h == s[i].h
  <2>1. /\ i \in 1 .. n /\ i + 1 \in 1 .. n /\ i \in 1 .. n + 1 /\ i + 1 \in 1 .. n + 1
        /\ i + 2 \in 1 .. n + 1 /\ T \in Int /\ n \in Int /\ n # 0
    OBVIOUS
  <2>2. P \in Int /\ R \in Int /\ S \in Int
    BY <1>2, <2>1
  <2>3. Is(h, T, n) /\ s[i + 1].h = h
    <3>1. Is(s[i].h, T, n) /\ Is(s[i + 1].h, T, n)
      BY <1>1, <2>1
    <3> QED
      BY <2>1, <3>1, IsUnique
  <2>4. PICK a, b, c \in Int, W \in Nat \ {0} :
          /\ Segment(Piece(p, n, T, j, i), p[i][j], R - P, a, b, W, T, n)
          /\ Segment(Piece(p, n, T, j, i + 1), p[i + 1][j], S - R, b, c, W, T, n)
          /\ (a + 4 * b + c) * (T * T) = (3 * n * ((S - R) - (R - P))) * n * W
    BY TwoPieces
  <2>5. Is(Q(R) (-) Q(P), R - P, 1) /\ Is(Q(S) (-) Q(R), S - R, 1)
    <3> HIDE DEF P, R, S
    <3> QED
      BY <1>3, <2>2, QIs, SameDenominator
  <2>6. /\ s[i].coeff[j] = Piece(p, n, T, j, i)
        /\ s[i + 1].coeff[j] = Piece(p, n, T, j, i + 1)
    BY <1>1, <2>1
  <2> HIDE DEF h
  <2>7. /\ Acceleration(Piece(p, n, T, j, i), h) = Acceleration(Piece(p, n, T, j, i + 1), Q(0))
        /\ Q(2) (.) (Velocity(Piece(p, n, T, j, i + 1), Q(0)) (-) Velocity(Piece(p, n, T, j, i), h))
              = ((Q(S) (-) Q(R)) (/) h) (-) ((Q(R) (-) Q(P)) (/) h)
    BY <2>3, <2>4, <2>5, Corner
  <2> QED
    BY <2>3, <2>6, <2>7 DEF h
<1> QED
  BY <1>6, <1>7, <1>8 DEF Halved

\* The curve's corners are half of those of the polygon, and its ends are natural.
THEOREM CornersAlwaysHalved == Spec => []CornersHalved
<1>1. Inductive => CornersHalved
  <2> SUFFICES ASSUME Inductive, Spline, NEW j \in Joints
               PROVE  LET s == trajectory.segments
                          n == Len(s)
                      IN  /\ Acceleration(s[1].coeff[j], Q(0)) = Q(0)
                          /\ Acceleration(s[n].coeff[j], s[n].h) = Q(0)
                          /\ \A i \in Interior :
                                /\ Acceleration(s[i].coeff[j], s[i].h) =
                                      Acceleration(s[i + 1].coeff[j], Q(0))
                                /\ Q(2) (.) (Velocity(s[i + 1].coeff[j], Q(0))
                                                (-) Velocity(s[i].coeff[j], s[i].h))
                                      = Secant(i + 1, j) (-) Secant(i, j)
    BY DEF CornersHalved
  <2> DEFINE s == trajectory.segments
             n == Len(path) - 1
             T == request.duration_s
  <2>1. n \in Nat \ {0} /\ T \in Nat \ {0} /\ Len(path) # 1 /\ pc = "play"
    BY SplineIs
  <2>2. Fits(trajectory, Joints, n, path, T) /\ T \in Int
    BY <2>1, PlayFits
  <2> HIDE DEF n, T
  <2>3. Len(s) = n
    BY <2>1, <2>2, SegmentsAre
  <2>4. Interior = 1 .. n - 1
    BY <2>3 DEF Interior
  <2>5. \A i \in 1 .. n - 1 :
          /\ Secant(i + 1, j) = (Q(path[i + 2][j]) (-) Q(path[i + 1][j])) (/) s[i + 1].h
          /\ Secant(i, j) = (Q(path[i + 1][j]) (-) Q(path[i][j])) (/) s[i].h
    <3>1. \A i \in 1 .. n - 1 : (i + 1) + 1 = i + 2
      BY <2>1
    <3> QED
      BY <3>1, Zenon DEF Secant
  <2> DEFINE f == trajectory
  <2>6. Fits(f, Joints, n, path, T) /\ s = f.segments
    BY <2>2
  <2> HIDE DEF s, f
  <2>7. /\ Acceleration(s[1].coeff[j], Q(0)) = Q(0)
        /\ Acceleration(s[n].coeff[j], s[n].h) = Q(0)
        /\ \A i \in 1 .. n - 1 :
              /\ Acceleration(s[i].coeff[j], s[i].h) = Acceleration(s[i + 1].coeff[j], Q(0))
              /\ Q(2) (.) (Velocity(s[i + 1].coeff[j], Q(0)) (-) Velocity(s[i].coeff[j], s[i].h))
                    = ((Q(path[i + 2][j]) (-) Q(path[i + 1][j])) (/) s[i + 1].h)
                         (-) ((Q(path[i + 1][j]) (-) Q(path[i][j])) (/) s[i].h)
    <3>1. Halved(s, n, path, j)
      BY <2>1, <2>6, CornersOf
    <3> QED
      BY <3>1 DEF Halved
  <2>8. \A i \in 1 .. n - 1 :
          /\ Acceleration(s[i].coeff[j], s[i].h) = Acceleration(s[i + 1].coeff[j], Q(0))
          /\ Q(2) (.) (Velocity(s[i + 1].coeff[j], Q(0)) (-) Velocity(s[i].coeff[j], s[i].h))
                = Secant(i + 1, j) (-) Secant(i, j)
    BY <2>5, <2>7
  <2> QED
    BY <2>3, <2>4, <2>7, <2>8 DEF s
<1> QED
  BY <1>1, InductiveInvariant, PTL

-----------------------------------------------------------------------------
(* Integers X between which the equations of the moments hold, for places  *)
(* Y between 0 and C.                                                      *)

\* The equations, with X zero at both ends.
Tridiagonal(X, Y, n, C) ==
    /\ n \in Nat \ {0} /\ C \in Nat
    /\ X \in [0 .. n -> Int] /\ Y \in [0 .. n -> 0 .. C]
    /\ X[0] = 0 /\ X[n] = 0
    /\ \A k \in 1 .. n - 1 :
          X[k - 1] + 4 * X[k] + X[k + 1] = 3 * (Y[k - 1] - 2 * Y[k] + Y[k + 1])

\* Finitely many integers have a bound.
LEMMA SomeBound ==
    ASSUME NEW n \in Nat, NEW X \in [0 .. n -> Int]
    PROVE  \E B \in Nat : \A k \in 0 .. n : -B <= X[k] /\ X[k] <= B
<1> DEFINE Bounded(m) == \E B \in Nat : \A k \in 0 .. m : -B <= X[k] /\ X[k] <= B
           Bad == {m \in 0 .. n : ~ Bounded(m)}
<1>1. Bounded(0)
  <2> DEFINE B == IF X[0] < 0 THEN -X[0] ELSE X[0]
  <2>1. B \in Nat /\ -B <= X[0] /\ X[0] <= B /\ \A k \in 0 .. 0 : k = 0
    OBVIOUS
  <2> HIDE DEF B
  <2> QED
    BY <2>1
<1>2. ASSUME NEW m \in 1 .. n, Bounded(m - 1)
      PROVE  Bounded(m)
  <2>1. PICK A \in Nat : \A k \in 0 .. m - 1 : -A <= X[k] /\ X[k] <= A
    BY <1>2
  <2> DEFINE c == IF X[m] < 0 THEN -X[m] ELSE X[m]
             B == A + c
  <2>2. c \in Nat /\ -c <= X[m] /\ X[m] <= c
    OBVIOUS
  <2> HIDE DEF c
  <2>3. B \in Nat
    BY <2>2
  <2>4. \A k \in 0 .. m : -B <= X[k] /\ X[k] <= B
    <3> SUFFICES ASSUME NEW k \in 0 .. m PROVE -B <= X[k] /\ X[k] <= B
      OBVIOUS
    <3>1. X[k] \in Int
      OBVIOUS
    <3>2. CASE k = m
      BY <2>2, <3>1, <3>2
    <3>3. CASE k \in 0 .. m - 1
      BY <2>1, <2>2, <3>1, <3>3
    <3> QED
      BY <3>2, <3>3
  <2> QED
    BY <2>3, <2>4
<1> HIDE DEF Bounded
<1>3. Bad = {}
  <2> SUFFICES ASSUME Bad # {} PROVE FALSE
    OBVIOUS
  <2>1. Bad \subseteq Nat
    OBVIOUS
  <2>2. PICK m \in Bad : \A l \in Bad : m <= l
    BY <2>1, LeastNumber
  <2>3. m \in 1 .. n
    BY <1>1, <2>2
  <2>4. m - 1 \in 0 .. n /\ ~ (m <= m - 1)
    BY <2>3
  <2>5. Bounded(m - 1)
    BY <2>2, <2>4
  <2> QED
    BY <1>2, <2>2, <2>3, <2>5
<1>4. Bounded(n)
  BY <1>3
<1> QED
  BY <1>4 DEF Bounded

\* No X is above 3 C: the largest would be at most the mean of its bounds.
LEMMA MomentsBounded ==
    ASSUME NEW X, NEW Y, NEW n, NEW C, Tridiagonal(X, Y, n, C), NEW k \in 0 .. n
    PROVE  X[k] \in Int /\ -3 * C <= X[k] /\ X[k] <= 3 * C
<1>1. /\ n \in Nat \ {0} /\ C \in Nat /\ X \in [0 .. n -> Int] /\ Y \in [0 .. n -> 0 .. C]
      /\ X[0] = 0 /\ X[n] = 0
      /\ \A l \in 1 .. n - 1 :
            X[l - 1] + 4 * X[l] + X[l + 1] = 3 * (Y[l - 1] - 2 * Y[l] + Y[l + 1])
  BY DEF Tridiagonal
<1> DEFINE Bounds(B) == \A l \in 0 .. n : -B <= X[l] /\ X[l] <= B
           S == {B \in Nat : Bounds(B)}
<1>2. S # {}
  <2>1. \E B \in Nat : \A l \in 0 .. n : -B <= X[l] /\ X[l] <= B
    BY <1>1, SomeBound
  <2> QED
    BY <2>1
<1>3. PICK B \in S : \A A \in S : B <= A
  <2>1. S \subseteq Nat
    OBVIOUS
  <2> HIDE DEF S
  <2> QED
    BY <1>2, <2>1, LeastNumber
<1>4. B \in Nat /\ \A l \in 0 .. n : X[l] \in Int /\ -B <= X[l] /\ X[l] <= B
  BY <1>1, <1>3
<1>5. B <= 3 * C
  <2> SUFFICES ASSUME B > 3 * C PROVE FALSE
    BY <1>1, <1>4
  <2>1. B - 1 \in Nat /\ ~ (B <= B - 1)
    BY <1>1, <1>4
  <2>2. ~ Bounds(B - 1)
    BY <1>3, <2>1
  <2>3. PICK l \in 0 .. n : ~ (-(B - 1) <= X[l] /\ X[l] <= B - 1)
    BY <2>2
  <2>4. X[l] = B \/ X[l] = -B
    <3>1. X[l] \in Int /\ -B <= X[l] /\ X[l] <= B
      BY <1>4
    <3> QED
      BY <1>4, <2>3, <3>1
  <2>5. l \in 1 .. n - 1
    <3>1. X[l] # 0
      BY <1>1, <1>4, <2>4
    <3> QED
      BY <1>1, <3>1
  <2> DEFINE a == X[l - 1]
             b == X[l]
             c == X[l + 1]
             p == Y[l - 1]
             r == Y[l]
             s == Y[l + 1]
  <2>6. l - 1 \in 0 .. n /\ l + 1 \in 0 .. n
    BY <1>1, <2>5
  <2>7. a + 4 * b + c = 3 * (p - 2 * r + s)
    BY <1>1, <2>5
  <2>8. p \in 0 .. C /\ r \in 0 .. C /\ s \in 0 .. C
    BY <1>1, <2>6
  <2>9. a \in Int /\ b \in Int /\ c \in Int /\ -B <= a /\ a <= B /\ -B <= c /\ c <= B
    BY <1>4, <2>6
  <2>10. b = B \/ b = -B
    BY <2>4
  <2> HIDE DEF a, b, c, p, r, s
  <2> QED
    BY <1>1, <1>4, <2>7, <2>8, <2>9, <2>10
<1>6. X[k] \in Int /\ -B <= X[k] /\ X[k] <= B
  BY <1>4
<1> QED
  BY <1>1, <1>4, <1>5, <1>6

\* What the places up to k + 1 leave open: the factor 4 / 15 is the last ratio of
\* the elimination, 2 - sqrt(3), nearly.
LEMMA LeftOf ==
    ASSUME NEW X, NEW Y, NEW n, NEW C, Tridiagonal(X, Y, n, C), NEW k \in 1 .. n - 1
    PROVE  /\ -6 * C <= 15 * X[k] + 4 * X[k + 1] - 12 * Y[k + 1] + 27 * Y[k]
           /\ 15 * X[k] + 4 * X[k + 1] - 12 * Y[k + 1] + 27 * Y[k] <= 21 * C
<1> DEFINE P(l) == 15 * X[l] + 4 * X[l + 1] - 12 * Y[l + 1] + 27 * Y[l]
           Good(l) == -6 * C <= P(l) /\ P(l) <= 21 * C
           Bad == {l \in 1 .. n - 1 : ~ Good(l)}
<1>1. /\ n \in Nat \ {0} /\ C \in Nat /\ X \in [0 .. n -> Int] /\ Y \in [0 .. n -> 0 .. C]
      /\ X[0] = 0
  BY DEF Tridiagonal
<1>2. ASSUME NEW l \in 1 .. n - 1, l = 1 \/ Good(l - 1)
      PROVE  Good(l)
  <2> DEFINE a == X[l - 1]
             b == X[l]
             c == X[l + 1]
             p == Y[l - 1]
             r == Y[l]
             s == Y[l + 1]
  <2>1. l - 1 \in 0 .. n /\ l \in 0 .. n /\ l + 1 \in 0 .. n /\ (l - 1) + 1 = l
    BY <1>1
  <2>2. a + 4 * b + c = 3 * (p - 2 * r + s)
    BY DEF Tridiagonal
  <2>3. p \in 0 .. C /\ r \in 0 .. C /\ s \in 0 .. C
    BY <1>1, <2>1
  <2>4. a \in Int /\ b \in Int /\ c \in Int /\ -3 * C <= c /\ c <= 3 * C
    BY <2>1, MomentsBounded
  <2>5. CASE l = 1
    <3>1. a = 0
      BY <1>1, <2>5
    <3> HIDE DEF a, b, c, p, r, s
    <3>2. 4 * b + c = 3 * (p - 2 * r + s)
      BY <2>2, <2>4, <3>1
    <3>3. /\ -6 * C <= 15 * b + 4 * c - 12 * s + 27 * r
          /\ 15 * b + 4 * c - 12 * s + 27 * r <= 21 * C
      BY <1>1, <2>3, <2>4, <3>2
    <3> QED
      BY <3>3 DEF b, c, r, s
  <2>6. CASE Good(l - 1)
    <3>1. /\ -6 * C <= 15 * a + 4 * b - 12 * r + 27 * p
          /\ 15 * a + 4 * b - 12 * r + 27 * p <= 21 * C
      BY <2>1, <2>6
    <3> HIDE DEF a, b, c, p, r, s, Good
    <3>2. /\ -6 * C <= 15 * b + 4 * c - 12 * s + 27 * r
          /\ 15 * b + 4 * c - 12 * s + 27 * r <= 21 * C
      BY <1>1, <2>2, <2>3, <2>4, <3>1
    <3> QED
      BY <3>2 DEF Good, b, c, r, s
  <2> QED
    BY <1>2, <2>5, <2>6
<1> HIDE DEF Good
<1>3. Bad = {}
  <2> SUFFICES ASSUME Bad # {} PROVE FALSE
    OBVIOUS
  <2>1. Bad \subseteq Nat
    OBVIOUS
  <2>2. PICK m \in Bad : \A l \in Bad : m <= l
    BY <2>1, LeastNumber
  <2>3. m \in 1 .. n - 1 /\ ~ Good(m)
    BY <2>2
  <2>4. CASE m = 1
    BY <1>2, <2>3, <2>4
  <2>5. CASE m # 1
    <3>1. m - 1 \in 1 .. n - 1 /\ ~ (m <= m - 1)
      BY <1>1, <2>3, <2>5
    <3>2. Good(m - 1)
      BY <2>2, <3>1
    <3> QED
      BY <1>2, <2>3, <3>2
  <2> QED
    BY <2>4, <2>5
<1>4. Good(k)
  BY <1>3
<1> QED
  BY <1>4 DEF Good

\* The same from the other end.
LEMMA RightOf ==
    ASSUME NEW X, NEW Y, NEW n, NEW C, Tridiagonal(X, Y, n, C), NEW k \in 1 .. n - 1
    PROVE  /\ -6 * C <= 15 * X[k] + 4 * X[k - 1] - 12 * Y[k - 1] + 27 * Y[k]
           /\ 15 * X[k] + 4 * X[k - 1] - 12 * Y[k - 1] + 27 * Y[k] <= 21 * C
<1> DEFINE U == [l \in 0 .. n |-> X[n - l]]
           V == [l \in 0 .. n |-> Y[n - l]]
           m == n - k
<1>1. /\ n \in Nat \ {0} /\ C \in Nat /\ X \in [0 .. n -> Int] /\ Y \in [0 .. n -> 0 .. C]
      /\ X[0] = 0 /\ X[n] = 0
      /\ \A l \in 1 .. n - 1 :
            X[l - 1] + 4 * X[l] + X[l + 1] = 3 * (Y[l - 1] - 2 * Y[l] + Y[l + 1])
  BY DEF Tridiagonal
<1>2. \A l \in 0 .. n : n - l \in 0 .. n
  BY <1>1
<1>3. U \in [0 .. n -> Int] /\ V \in [0 .. n -> 0 .. C]
  BY <1>1, <1>2
<1>4. U[0] = 0 /\ U[n] = 0
  BY <1>1
<1>5. ASSUME NEW l \in 1 .. n - 1
      PROVE  U[l - 1] + 4 * U[l] + U[l + 1] = 3 * (V[l - 1] - 2 * V[l] + V[l + 1])
  <2> DEFINE i == n - l
  <2>1. /\ i \in 1 .. n - 1 /\ i - 1 \in 0 .. n /\ i + 1 \in 0 .. n /\ i \in 0 .. n
        /\ l - 1 \in 0 .. n /\ l + 1 \in 0 .. n /\ l \in 0 .. n
        /\ n - (l - 1) = i + 1 /\ n - (l + 1) = i - 1
    BY <1>1
  <2>2. /\ U[l - 1] = X[i + 1] /\ U[l] = X[i] /\ U[l + 1] = X[i - 1]
        /\ V[l - 1] = Y[i + 1] /\ V[l] = Y[i] /\ V[l + 1] = Y[i - 1]
    BY <2>1
  <2>3. X[i - 1] + 4 * X[i] + X[i + 1] = 3 * (Y[i - 1] - 2 * Y[i] + Y[i + 1])
    BY <1>1, <2>1
  <2>4. /\ X[i - 1] \in Int /\ X[i] \in Int /\ X[i + 1] \in Int
        /\ Y[i - 1] \in Int /\ Y[i] \in Int /\ Y[i + 1] \in Int
    BY <1>1, <2>1
  <2> HIDE DEF U, V, i
  <2> QED
    BY <2>2, <2>3, <2>4
<1>6. Tridiagonal(U, V, n, C)
  <2> HIDE DEF U, V
  <2> QED
    BY <1>1, <1>3, <1>4, <1>5 DEF Tridiagonal
<1>7. /\ m \in 1 .. n - 1 /\ m \in 0 .. n /\ m + 1 \in 0 .. n
      /\ n - m = k /\ n - (m + 1) = k - 1
  BY <1>1
<1>8. U[m] = X[k] /\ U[m + 1] = X[k - 1] /\ V[m] = Y[k] /\ V[m + 1] = Y[k - 1]
  BY <1>7
<1> HIDE DEF U, V, m
<1> QED
  BY <1>6, <1>7, <1>8, LeftOf

\* Six times the cube of w = v + e times the place, v / w of the way along a segment
\* from p to r whose ends have the moments a and b.
Along(p, r, a, b, v, e) ==
    6 * ((v + e) * (v + e)) * (e * p + v * r) - (v * e) * ((v + 2 * e) * a + (2 * v + e) * b)

\* Between other segments no place is below the range C by a seventh of it.
LEMMA MiddleAbove ==
    ASSUME NEW p \in Nat, NEW r \in Nat, NEW C \in Nat, NEW a \in Int, NEW b \in Int,
           NEW v \in Nat, NEW e \in Nat,
           15 * a + 4 * b - 12 * r + 27 * p <= 21 * C,
           15 * b + 4 * a - 12 * p + 27 * r <= 21 * C
    PROVE  7 * Along(p, r, a, b, v, e) + 6 * C * ((v + e) * (v + e) * (v + e)) >= 0
<1> DEFINE L == 21 * C + 12 * r - 27 * p - 15 * a - 4 * b
           N == 21 * C + 12 * p - 27 * r - 15 * b - 4 * a
           w == v + e
           x1 == 7 * (v * e) * ((7 * v + 26 * e) * L + (26 * v + 7 * e) * N)
           x2 == C * (w * (1254 * ((v - e) * (v - e)) + 165 * (v * e)))
           x3 == p * (e * (8778 * (w * w) - 861 * (v * v) + 4326 * (v * e)))
           x4 == r * (v * (8778 * (w * w) - 861 * (e * e) + 4326 * (v * e)))
           goal == 7 * Along(p, r, a, b, v, e) + 6 * C * (w * w * w)
<1>1. 209 * goal = x1 + x2 + x3 + x4
  BY DEF Along
<1>2. L \in Nat /\ N \in Nat /\ w \in Nat
  OBVIOUS
<1>3. x1 \in Nat
  <2> HIDE DEF L, N
  <2>1. v * e \in Nat /\ (7 * v + 26 * e) * L \in Nat /\ (26 * v + 7 * e) * N \in Nat
    BY <1>2
  <2> DEFINE s == (7 * v + 26 * e) * L + (26 * v + 7 * e) * N
             t == v * e
  <2>2. s \in Nat /\ t \in Nat
    BY <2>1
  <2> HIDE DEF s, t
  <2>3. 7 * t * s \in Nat
    BY <2>2
  <2> QED
    BY <2>3 DEF s, t
<1>4. x2 \in Nat
  <2> DEFINE s == (v - e) * (v - e)
             t == v * e
  <2>1. s \in Nat /\ t \in Nat
    OBVIOUS
  <2> HIDE DEF s, t, w
  <2>2. 1254 * s + 165 * t \in Nat
    BY <2>1
  <2>3. w * (1254 * s + 165 * t) \in Nat
    BY <1>2, <2>2
  <2>4. C * (w * (1254 * s + 165 * t)) \in Nat
    BY <2>3
  <2> QED
    BY <2>4 DEF s, t
<1>5. x3 \in Nat
  <2> DEFINE s == 8778 * (w * w) - 861 * (v * v) + 4326 * (v * e)
  <2>1. s = 7917 * (v * v) + 21882 * (v * e) + 8778 * (e * e)
    OBVIOUS
  <2>2. v * v \in Nat /\ v * e \in Nat /\ e * e \in Nat
    OBVIOUS
  <2>3. s \in Nat
    BY <2>1, <2>2
  <2> HIDE DEF s
  <2>4. e * s \in Nat
    BY <2>3
  <2>5. p * (e * s) \in Nat
    BY <2>4
  <2> QED
    BY <2>5 DEF s
<1>6. x4 \in Nat
  <2> DEFINE s == 8778 * (w * w) - 861 * (e * e) + 4326 * (v * e)
  <2>1. s = 8778 * (v * v) + 21882 * (v * e) + 7917 * (e * e)
    OBVIOUS
  <2>2. v * v \in Nat /\ v * e \in Nat /\ e * e \in Nat
    OBVIOUS
  <2>3. s \in Nat
    BY <2>1, <2>2
  <2> HIDE DEF s
  <2>4. v * s \in Nat
    BY <2>3
  <2>5. r * (v * s) \in Nat
    BY <2>4
  <2> QED
    BY <2>5 DEF s
<1>7. goal \in Int
  BY DEF Along
<1> HIDE DEF x1, x2, x3, x4, goal
<1>8. goal >= 0
  BY <1>1, <1>3, <1>4, <1>5, <1>6, <1>7
<1> QED
  BY <1>8 DEF goal

\* Nor in the first segment, whose first moment is zero.
LEMMA EdgeAbove ==
    ASSUME NEW p \in Nat, NEW r \in Nat, NEW C \in Nat, NEW b \in Int,
           NEW v \in Nat, NEW e \in Nat,
           15 * b - 12 * p + 27 * r <= 21 * C
    PROVE  7 * Along(p, r, 0, b, v, e) + 6 * C * ((v + e) * (v + e) * (v + e)) >= 0
<1> DEFINE N == 21 * C + 12 * p - 27 * r - 15 * b
           w == v + e
           x1 == 7 * (v * e) * ((2 * v + e) * N)
           x2 == C * (v * (12 * ((v - e) * (v - e)) + 78 * (v * v) + 111 * (e * e))
                        + 90 * (e * e * e))
           x3 == p * (e * (462 * (v * v) + 1176 * (v * e) + 630 * (e * e)))
           x4 == r * (630 * (w * w) * v + 189 * (v * e) * (2 * v + e))
           goal == 7 * Along(p, r, 0, b, v, e) + 6 * C * (w * w * w)
<1>1. 15 * goal = x1 + x2 + x3 + x4
  BY DEF Along
<1>2. N \in Nat /\ w \in Nat
  OBVIOUS
<1>3. x1 \in Nat
  <2> HIDE DEF N
  <2> DEFINE s == (2 * v + e) * N
             t == v * e
  <2>1. s \in Nat /\ t \in Nat
    BY <1>2
  <2> HIDE DEF s, t
  <2>2. 7 * t * s \in Nat
    BY <2>1
  <2> QED
    BY <2>2 DEF s, t
<1>4. x2 \in Nat
  <2> DEFINE s == 12 * ((v - e) * (v - e)) + 78 * (v * v) + 111 * (e * e)
             t == e * e * e
  <2>1. (v - e) * (v - e) \in Nat /\ v * v \in Nat /\ e * e \in Nat /\ t \in Nat
    OBVIOUS
  <2>2. s \in Nat
    BY <2>1
  <2> HIDE DEF s, t
  <2>3. v * s \in Nat
    BY <2>2
  <2>4. v * s + 90 * t \in Nat
    BY <2>1, <2>3
  <2>5. C * (v * s + 90 * t) \in Nat
    BY <2>4
  <2> QED
    BY <2>5 DEF s, t
<1>5. x3 \in Nat
  <2> DEFINE s == 462 * (v * v) + 1176 * (v * e) + 630 * (e * e)
  <2>1. s \in Nat
    OBVIOUS
  <2> HIDE DEF s
  <2>2. e * s \in Nat
    BY <2>1
  <2>3. p * (e * s) \in Nat
    BY <2>2
  <2> QED
    BY <2>3 DEF s
<1>6. x4 \in Nat
  <2> DEFINE s == (w * w) * v
             t == (v * e) * (2 * v + e)
             u == 630 * s + 189 * t
  <2>1. s \in Nat /\ t \in Nat
    OBVIOUS
  <2>2. 630 * (w * w) * v = 630 * s /\ 189 * (v * e) * (2 * v + e) = 189 * t
    OBVIOUS
  <2> HIDE DEF s, t
  <2>3. u \in Nat
    BY <2>1
  <2> HIDE DEF u
  <2>4. r * u \in Nat
    BY <2>3
  <2> QED
    BY <2>2, <2>4 DEF u
<1>7. goal \in Int
  BY DEF Along
<1> HIDE DEF x1, x2, x3, x4, goal
<1>8. goal >= 0
  BY <1>1, <1>3, <1>4, <1>5, <1>6, <1>7
<1> QED
  BY <1>8 DEF goal

\* No place of a spline is below the range by more than a seventh of it.
LEMMA AboveRange ==
    ASSUME NEW X, NEW Y, NEW n, NEW C, Tridiagonal(X, Y, n, C), NEW k \in 1 .. n,
           NEW v \in Nat, NEW e \in Nat
    PROVE  7 * Along(Y[k - 1], Y[k], X[k - 1], X[k], v, e)
              + 6 * C * ((v + e) * (v + e) * (v + e)) >= 0
<1> DEFINE p == Y[k - 1]
           r == Y[k]
           a == X[k - 1]
           b == X[k]
<1>1. /\ n \in Nat \ {0} /\ C \in Nat /\ X \in [0 .. n -> Int] /\ Y \in [0 .. n -> 0 .. C]
      /\ X[0] = 0 /\ X[n] = 0
  BY DEF Tridiagonal
<1>2. k \in 0 .. n /\ k - 1 \in 0 .. n /\ (k - 1) + 1 = k
  BY <1>1
<1>3. p \in Nat /\ r \in Nat /\ a \in Int /\ b \in Int
  BY <1>1, <1>2
<1>4. k # 1 => 15 * a + 4 * b - 12 * r + 27 * p <= 21 * C
  <2> SUFFICES ASSUME k # 1 PROVE 15 * a + 4 * b - 12 * r + 27 * p <= 21 * C
    OBVIOUS
  <2> DEFINE l == k - 1
  <2>1. l \in 1 .. n - 1 /\ l + 1 = k
    BY <1>1
  <2> HIDE DEF l
  <2>2. 15 * X[l] + 4 * X[l + 1] - 12 * Y[l + 1] + 27 * Y[l] <= 21 * C
    BY <2>1, LeftOf
  <2> QED
    BY <2>1, <2>2 DEF l
<1>5. k # n => 15 * b + 4 * a - 12 * p + 27 * r <= 21 * C
  <2>1. k # n => k \in 1 .. n - 1
    BY <1>1
  <2> QED
    BY <2>1, RightOf
<1>6. k = 1 => a = 0
  BY <1>1
<1>7. k = n => b = 0
  BY <1>1
<1> HIDE DEF p, r, a, b
<1>8. CASE k # 1 /\ k # n
  <2>1. 15 * a + 4 * b - 12 * r + 27 * p <= 21 * C /\ 15 * b + 4 * a - 12 * p + 27 * r <= 21 * C
    BY <1>4, <1>5, <1>8
  <2>2. 7 * Along(p, r, a, b, v, e) + 6 * C * ((v + e) * (v + e) * (v + e)) >= 0
    BY <1>1, <1>3, <2>1, MiddleAbove
  <2> QED
    BY <2>2 DEF p, r, a, b
<1>9. CASE k = 1 /\ k # n
  <2>1. a = 0 /\ 15 * b - 12 * p + 27 * r <= 21 * C
    <3>1. a = 0 /\ 15 * b + 4 * a - 12 * p + 27 * r <= 21 * C
      BY <1>5, <1>6, <1>9
    <3> QED
      BY <1>3, <3>1
  <2>2. 7 * Along(p, r, a, b, v, e) + 6 * C * ((v + e) * (v + e) * (v + e)) >= 0
    BY <1>1, <1>3, <2>1, EdgeAbove
  <2> QED
    BY <2>2 DEF p, r, a, b
<1>10. CASE k # 1 /\ k = n
  <2>1. b = 0 /\ 15 * a - 12 * r + 27 * p <= 21 * C
    <3>1. b = 0 /\ 15 * a + 4 * b - 12 * r + 27 * p <= 21 * C
      BY <1>4, <1>7, <1>10
    <3> QED
      BY <1>3, <3>1
  <2>2. 7 * Along(r, p, 0, a, e, v) + 6 * C * ((e + v) * (e + v) * (e + v)) >= 0
    BY <1>1, <1>3, <2>1, EdgeAbove
  <2>3. Along(p, r, a, b, v, e) = Along(r, p, 0, a, e, v) /\ e + v = v + e
    BY <1>3, <2>1 DEF Along
  <2>4. 7 * Along(p, r, a, b, v, e) + 6 * C * ((v + e) * (v + e) * (v + e)) >= 0
    BY <2>2, <2>3
  <2> QED
    BY <2>4 DEF p, r, a, b
<1>11. CASE k = 1 /\ k = n
  <2>1. a = 0 /\ b = 0
    BY <1>6, <1>7, <1>11
  <2> DEFINE w == v + e
             f == e * p + v * r
             s == (w * w) * f
             t == C * (w * w * w)
  <2>2. Along(p, r, a, b, v, e) = 6 * s /\ 6 * C * (w * w * w) = 6 * t
    BY <1>1, <1>3, <2>1 DEF Along
  <2>3. s \in Nat /\ t \in Nat
    <3>1. w \in Nat /\ e * p \in Nat /\ v * r \in Nat
      BY <1>3
    <3>2. f \in Nat
      BY <3>1
    <3> HIDE DEF w, f
    <3>3. w * w \in Nat /\ w * w * w \in Nat
      BY <3>1
    <3> QED
      BY <1>1, <3>2, <3>3
  <2> HIDE DEF s, t
  <2>4. 7 * Along(p, r, a, b, v, e) + 6 * C * (w * w * w) >= 0
    BY <2>2, <2>3
  <2> QED
    BY <2>4 DEF p, r, a, b
<1> QED
  BY <1>8, <1>9, <1>10, <1>11

\* Nor above it.
LEMMA WithinRange ==
    ASSUME NEW X, NEW Y, NEW n, NEW C, Tridiagonal(X, Y, n, C), NEW k \in 1 .. n,
           NEW v \in Nat, NEW e \in Nat,
           NEW c, c = C * ((v + e) * (v + e) * (v + e)),
           NEW z, z = Along(Y[k - 1], Y[k], X[k - 1], X[k], v, e)
    PROVE  z \in Int /\ c \in Int /\ -6 * c <= 7 * z /\ 7 * z <= 48 * c
<1> DEFINE U == [l \in 0 .. n |-> 0 - X[l]]
           V == [l \in 0 .. n |-> C - Y[l]]
           p == Y[k - 1]
           r == Y[k]
           a == X[k - 1]
           b == X[k]
<1>1. /\ n \in Nat \ {0} /\ C \in Nat /\ X \in [0 .. n -> Int] /\ Y \in [0 .. n -> 0 .. C]
      /\ X[0] = 0 /\ X[n] = 0
      /\ \A l \in 1 .. n - 1 :
            X[l - 1] + 4 * X[l] + X[l + 1] = 3 * (Y[l - 1] - 2 * Y[l] + Y[l + 1])
  BY DEF Tridiagonal
<1>2. k \in 0 .. n /\ k - 1 \in 0 .. n
  BY <1>1
<1>3. p \in Int /\ r \in Int /\ a \in Int /\ b \in Int
  BY <1>1, <1>2
<1>4. Tridiagonal(U, V, n, C)
  <2>1. U \in [0 .. n -> Int] /\ V \in [0 .. n -> 0 .. C]
    <3>1. \A l \in 0 .. n : 0 - X[l] \in Int /\ C - Y[l] \in 0 .. C
      <4> SUFFICES ASSUME NEW l \in 0 .. n PROVE 0 - X[l] \in Int /\ C - Y[l] \in 0 .. C
        OBVIOUS
      <4>1. X[l] \in Int /\ Y[l] \in 0 .. C
        BY <1>1
      <4> QED
        BY <1>1, <4>1
    <3> QED
      BY <3>1
  <2>2. U[0] = 0 /\ U[n] = 0
    BY <1>1
  <2>3. ASSUME NEW l \in 1 .. n - 1
        PROVE  U[l - 1] + 4 * U[l] + U[l + 1] = 3 * (V[l - 1] - 2 * V[l] + V[l + 1])
    <3>1. l - 1 \in 0 .. n /\ l \in 0 .. n /\ l + 1 \in 0 .. n
      BY <1>1
    <3>2. /\ U[l - 1] = 0 - X[l - 1] /\ U[l] = 0 - X[l] /\ U[l + 1] = 0 - X[l + 1]
          /\ V[l - 1] = C - Y[l - 1] /\ V[l] = C - Y[l] /\ V[l + 1] = C - Y[l + 1]
      BY <3>1
    <3>3. /\ X[l - 1] \in Int /\ X[l] \in Int /\ X[l + 1] \in Int
          /\ Y[l - 1] \in Int /\ Y[l] \in Int /\ Y[l + 1] \in Int
      BY <1>1, <3>1
    <3>4. X[l - 1] + 4 * X[l] + X[l + 1] = 3 * (Y[l - 1] - 2 * Y[l] + Y[l + 1])
      BY <1>1
    <3> DEFINE x1 == X[l - 1]
               x2 == X[l]
               x3 == X[l + 1]
               y1 == Y[l - 1]
               y2 == Y[l]
               y3 == Y[l + 1]
    <3> HIDE DEF U, V, x1, x2, x3, y1, y2, y3
    <3>5. /\ x1 \in Int /\ x2 \in Int /\ x3 \in Int /\ y1 \in Int /\ y2 \in Int /\ y3 \in Int
          /\ x1 + 4 * x2 + x3 = 3 * (y1 - 2 * y2 + y3)
      BY <3>3, <3>4 DEF x1, x2, x3, y1, y2, y3
    <3>6. (0 - x1) + 4 * (0 - x2) + (0 - x3) = 3 * ((C - y1) - 2 * (C - y2) + (C - y3))
      BY <1>1, <3>5
    <3> QED
      BY <3>2, <3>6 DEF x1, x2, x3, y1, y2, y3
  <2> HIDE DEF U, V
  <2> QED
    BY <1>1, <2>1, <2>2, <2>3 DEF Tridiagonal
<1>5. U[k - 1] = 0 - a /\ U[k] = 0 - b /\ V[k - 1] = C - p /\ V[k] = C - r
  BY <1>2
<1>6. 7 * Along(V[k - 1], V[k], U[k - 1], U[k], v, e)
         + 6 * C * ((v + e) * (v + e) * (v + e)) >= 0
  <2> HIDE DEF U, V
  <2> QED
    BY <1>4, AboveRange
<1>7. 7 * Along(p, r, a, b, v, e) + 6 * C * ((v + e) * (v + e) * (v + e)) >= 0
  BY AboveRange
<1>8. 7 * Along(C - p, C - r, 0 - a, 0 - b, v, e) + 6 * C * ((v + e) * (v + e) * (v + e)) >= 0
  <2> HIDE DEF U, V, p, r, a, b
  <2> QED
    BY <1>5, <1>6
<1>9. z = Along(p, r, a, b, v, e)
  OBVIOUS
<1> HIDE DEF U, V, p, r, a, b
<1>10. /\ Along(C - p, C - r, 0 - a, 0 - b, v, e) = 6 * c - z /\ z \in Int /\ c \in Int
       /\ 6 * C * ((v + e) * (v + e) * (v + e)) = 6 * c
  <2> DEFINE A == v + 2 * e
             B == 2 * v + e
             W == (v + e) * (v + e)
             g == e * p + v * r
             m == A * a + B * b
  <2>1. z = 6 * W * g - (v * e) * m
    BY <1>9 DEF Along
  <2>2. Along(C - p, C - r, 0 - a, 0 - b, v, e) =
          6 * W * (e * (C - p) + v * (C - r)) - (v * e) * (A * (0 - a) + B * (0 - b))
    BY DEF Along
  <2>3. e * (C - p) + v * (C - r) = C * (v + e) - g
    BY <1>1, <1>3
  <2>4. A * (0 - a) + B * (0 - b) = 0 - m
    BY <1>3
  <2>5. c = W * (C * (v + e)) /\ 6 * C * ((v + e) * (v + e) * (v + e)) = 6 * c /\ c \in Int
    BY <1>1
  <2> DEFINE h == C * (v + e)
             y == v * e
  <2>6. W \in Int /\ g \in Int /\ m \in Int /\ h \in Int /\ y \in Int
    BY <1>1, <1>3
  <2>7. /\ Along(C - p, C - r, 0 - a, 0 - b, v, e) = 6 * W * (h - g) - y * (0 - m)
        /\ z = 6 * W * g - y * m /\ c = W * h
    BY <2>1, <2>2, <2>3, <2>4, <2>5
  <2> HIDE DEF W, g, m, h, y
  <2>8. /\ 6 * W * (h - g) - y * (0 - m) = 6 * (W * h) - (6 * W * g - y * m)
        /\ 6 * W * g - y * m \in Int
    BY <2>6
  <2> QED
    BY <2>5, <2>7, <2>8
<1> QED
  BY <1>7, <1>8, <1>9, <1>10

\* The moments of a joint have a common denominator.
LEMMA CommonDenominator ==
    ASSUME NEW f, NEW J, NEW n \in Nat \ {0}, NEW p, NEW T \in Nat \ {0}, Fits(f, J, n, p, T),
           NEW j \in J
    PROVE  \E W \in Nat \ {0}, A \in [0 .. n -> Int] :
              \A k \in 0 .. n : Is(Moments(p, n, T, j)[k], A[k], W)
<1> DEFINE M(k) == Moments(p, n, T, j)[k]
           Common(m) == \E W \in Nat \ {0} : \A k \in 0 .. m : \E a \in Int : Is(M(k), a, W)
           Bad == {m \in 0 .. n : ~ Common(m)}
<1>1. ASSUME NEW k \in 0 .. n PROVE \E U \in Nat \ {0}, a \in Int : Is(M(k), a, U)
  <2>1. Uniform(Places(p, n, j), Steps(T, n), n, Passes(p, n, j), T, n)
    BY FitUniform
  <2> QED
    BY <2>1, MomentNumbers DEF Moments
<1> HIDE DEF M
<1>2. Common(0)
  <2>1. PICK U \in Nat \ {0}, a \in Int : Is(M(0), a, U)
    BY <1>1
  <2>2. \A k \in 0 .. 0 : k = 0
    OBVIOUS
  <2> QED
    BY <2>1, <2>2
<1>3. ASSUME NEW m \in 1 .. n, Common(m - 1)
      PROVE  Common(m)
  <2>1. PICK V \in Nat \ {0} : \A k \in 0 .. m - 1 : \E a \in Int : Is(M(k), a, V)
    BY <1>3
  <2>2. PICK U \in Nat \ {0}, c \in Int : Is(M(m), c, U)
    BY <1>1
  <2> DEFINE W == V * U
  <2>3. W \in Nat \ {0} /\ U \in Int /\ V \in Int /\ U # 0 /\ V # 0 /\ U * V = W
    OBVIOUS
  <2>4. ASSUME NEW k \in 0 .. m PROVE \E a \in Int : Is(M(k), a, W)
    <3>1. CASE k = m
      <4>1. Is(M(m), c * V, U * V) /\ c * V \in Int
        BY <2>2, <2>3, Rescale
      <4> QED
        BY <2>3, <3>1, <4>1
    <3>2. CASE k \in 0 .. m - 1
      <4>1. PICK a \in Int : Is(M(k), a, V)
        BY <2>1, <3>2
      <4>2. Is(M(k), a * U, V * U) /\ a * U \in Int
        BY <2>3, <4>1, Rescale
      <4> QED
        BY <4>2
    <3> QED
      BY <3>1, <3>2
  <2> HIDE DEF W
  <2> QED
    BY <2>3, <2>4
<1> HIDE DEF Common
<1>4. Bad = {}
  <2> SUFFICES ASSUME Bad # {} PROVE FALSE
    OBVIOUS
  <2>1. Bad \subseteq Nat
    OBVIOUS
  <2>2. PICK m \in Bad : \A l \in Bad : m <= l
    BY <2>1, LeastNumber
  <2>3. m \in 1 .. n
    BY <1>2, <2>2
  <2>4. m - 1 \in 0 .. n /\ ~ (m <= m - 1)
    BY <2>3
  <2>5. Common(m - 1)
    BY <2>2, <2>4
  <2> QED
    BY <1>3, <2>2, <2>3, <2>5
<1>5. PICK W \in Nat \ {0} : \A k \in 0 .. n : \E a \in Int : Is(M(k), a, W)
  BY <1>4 DEF Common
<1> DEFINE A == [k \in 0 .. n |-> CHOOSE a \in Int : Is(M(k), a, W)]
<1>6. A \in [0 .. n -> Int] /\ \A k \in 0 .. n : Is(M(k), A[k], W)
  BY <1>5
<1> HIDE DEF A
<1> QED
  BY <1>6 DEF M

\* The equation of a row, for moments over W and a bend of B.
RowEquation(a, b, c, W, B, H, K) == (a + 4 * b + c) * (H * H) = B * K * W

\* The moments of three configurations satisfy the equation of the row.
LEMMA MomentRow ==
    ASSUME NEW f, NEW J, NEW n \in Nat \ {0}, NEW p, NEW T \in Nat \ {0}, Fits(f, J, n, p, T),
           NEW j \in J, NEW k \in 1 .. n - 1,
           NEW a \in Int, NEW b \in Int, NEW c \in Int, NEW W \in Nat \ {0},
           Is(Moments(p, n, T, j)[k - 1], a, W), Is(Moments(p, n, T, j)[k], b, W),
           Is(Moments(p, n, T, j)[k + 1], c, W)
    PROVE  RowEquation(a, b, c, W, Bend(Passes(p, n, j), n, k), T, n)
<1>1. Uniform(Places(p, n, j), Steps(T, n), n, Passes(p, n, j), T, n)
  BY FitUniform
<1> QED
  BY <1>1, ThomasSolves DEF Moments, RowEquation

\* Every place of joint j is between low and high.
InBounds(p, n, j, low, high) == \A i \in 1 .. n + 1 : low <= p[i][j] /\ p[i][j] <= high

\* X is T T A, over W, and Y is n n W times the height above low.
System(A, W, p, n, T, j, low, high) ==
    Tridiagonal([k \in 0 .. n |-> A[k] * (T * T)],
                [k \in 0 .. n |-> (p[k + 1][j] - low) * (n * n * W)], n,
                (high - low) * (n * n * W))

\* With it, the moments and the places above low are the X and the Y of a system.
LEMMA SystemOf ==
    ASSUME NEW f, NEW J, NEW n \in Nat \ {0}, NEW p, NEW T \in Nat \ {0}, Fits(f, J, n, p, T),
           NEW j \in J, NEW low \in Int, NEW high \in Int,
           InBounds(p, n, j, low, high),
           NEW W \in Nat \ {0}, NEW A \in [0 .. n -> Int],
           \A k \in 0 .. n : Is(Moments(p, n, T, j)[k], A[k], W)
    PROVE  System(A, W, p, n, T, j, low, high)
<1> DEFINE S == n * n * W
           H == T * T
           X == [k \in 0 .. n |-> A[k] * H]
           Y == [k \in 0 .. n |-> (p[k + 1][j] - low) * S]
           C == (high - low) * S
           P == Passes(p, n, j)
           M(k) == Moments(p, n, T, j)[k]
<1>1. S \in Nat /\ H \in Nat /\ n * n \in Nat
  OBVIOUS
<1>2. \A k \in 0 .. n : /\ p[k + 1][j] \in Int /\ P[k] = p[k + 1][j]
                        /\ low <= p[k + 1][j] /\ p[k + 1][j] <= high
  <2> SUFFICES ASSUME NEW k \in 0 .. n
               PROVE  /\ p[k + 1][j] \in Int /\ P[k] = p[k + 1][j]
                      /\ low <= p[k + 1][j] /\ p[k + 1][j] <= high
    OBVIOUS
  <2>1. k + 1 \in 1 .. n + 1
    OBVIOUS
  <2> QED
    BY <2>1, FitUniform DEF Passes, InBounds
<1>3. high - low \in Nat
  <2> DEFINE x == p[0 + 1][j]
  <2>1. x \in Int /\ low <= x /\ x <= high
    <3>1. 0 \in 0 .. n
      OBVIOUS
    <3> QED
      BY <1>2, <3>1
  <2> HIDE DEF x
  <2> QED
    BY <2>1
<1>4. C \in Nat
  <2> DEFINE R == high - low
  <2> HIDE DEF S, R
  <2>1. R * S \in Nat
    BY <1>1, <1>3 DEF R
  <2> QED
    BY <2>1 DEF R
<1>5. Uniform(Places(p, n, j), Steps(T, n), n, P, T, n)
  BY FitUniform
<1>6. X \in [0 .. n -> Int]
  <2> HIDE DEF H
  <2> QED
    BY <1>1
<1>7. Y \in [0 .. n -> 0 .. C]
  <2> SUFFICES ASSUME NEW k \in 0 .. n PROVE (p[k + 1][j] - low) * S \in 0 .. C
    OBVIOUS
  <2> DEFINE x == p[k + 1][j] - low
             R == high - low
  <2>1. x \in Nat /\ R - x \in Nat /\ R \in Nat
    <3> DEFINE y == p[k + 1][j]
    <3>1. y \in Int /\ low <= y /\ y <= high
      BY <1>2
    <3> HIDE DEF y
    <3>2. y - low \in Nat /\ (high - low) - (y - low) \in Nat
      BY <3>1
    <3> QED
      BY <1>3, <3>2 DEF y
  <2> HIDE DEF S, x, R
  <2>2. x * S \in Nat /\ (R - x) * S \in Nat /\ (R - x) * S = R * S - x * S /\ R * S \in Nat
    BY <1>1, <2>1
  <2>3. x * S \in 0 .. R * S
    BY <2>2
  <2> QED
    BY <2>3 DEF x, R
<1>8. A[0] = 0 /\ A[n] = 0
  <2>1. Is(M(0), 0, 1) /\ Is(M(n), 0, 1)
    BY NaturalEnds
  <2>2. 0 \in 0 .. n /\ n \in 0 .. n
    OBVIOUS
  <2>3. Is(M(0), A[0], W) /\ Is(M(n), A[n], W)
    BY <2>2
  <2>4. A[0] \in Int /\ A[n] \in Int /\ W \in Int /\ 0 \in Int /\ 1 \in Int
    BY <2>2
  <2> HIDE DEF M
  <2>5. A[0] * 1 = 0 * W /\ A[n] * 1 = 0 * W
    BY <2>1, <2>3, <2>4, IsRatio
  <2> QED
    BY <2>4, <2>5
<1>9. X[0] = 0 /\ X[n] = 0
  <2>1. 0 \in 0 .. n /\ n \in 0 .. n
    OBVIOUS
  <2> HIDE DEF H
  <2> QED
    BY <1>1, <1>8, <2>1
<1>10. ASSUME NEW k \in 1 .. n - 1
       PROVE  X[k - 1] + 4 * X[k] + X[k + 1] = 3 * (Y[k - 1] - 2 * Y[k] + Y[k + 1])
  <2> DEFINE a1 == A[k - 1]
             b1 == A[k]
             c1 == A[k + 1]
             x == p[k][j]
             y == p[k + 1][j]
             z == p[k + 2][j]
  <2>1. /\ k - 1 \in 0 .. n /\ k \in 0 .. n /\ k + 1 \in 0 .. n
        /\ (k - 1) + 1 = k /\ (k + 1) + 1 = k + 2
    OBVIOUS
  <2>2. a1 \in Int /\ b1 \in Int /\ c1 \in Int
    BY <2>1
  <2>3. x \in Int /\ y \in Int /\ z \in Int /\ P[k - 1] = x /\ P[k] = y /\ P[k + 1] = z
    BY <1>2, <2>1
  <2>4. Is(M(k - 1), a1, W) /\ Is(M(k), b1, W) /\ Is(M(k + 1), c1, W)
    BY <2>1
  <2>5. (a1 + 4 * b1 + c1) * (T * T) = Bend(P, n, k) * n * W
    <3>1. RowEquation(a1, b1, c1, W, Bend(P, n, k), T, n)
      <4>1. /\ Is(Moments(p, n, T, j)[k - 1], a1, W) /\ Is(Moments(p, n, T, j)[k], b1, W)
            /\ Is(Moments(p, n, T, j)[k + 1], c1, W)
        BY <2>4
      <4> HIDE DEF a1, b1, c1, M
      <4> QED
        BY <2>2, <4>1, MomentRow
    <3> HIDE DEF a1, b1, c1, P
    <3> QED
      BY <3>1 DEF RowEquation
  <2>6. /\ X[k - 1] = a1 * H /\ X[k] = b1 * H /\ X[k + 1] = c1 * H
        /\ Y[k - 1] = (x - low) * S /\ Y[k] = (y - low) * S /\ Y[k + 1] = (z - low) * S
    BY <2>1
  <2>7. Bend(P, n, k) = 3 * n * (z - y) - 3 * n * (y - x)
    BY <2>3 DEF Bend
  <2>8. (a1 + 4 * b1 + c1) * H = (3 * n * (z - y) - 3 * n * (y - x)) * n * W
    BY <2>5, <2>7
  <2> HIDE DEF X, Y, a1, b1, c1, x, y, z
  <2>9. (3 * n * (z - y) - 3 * n * (y - x)) * n * W = 3 * ((z - 2 * y + x) * S)
    BY <2>3
  <2> HIDE DEF H, S
  <2>10. (a1 + 4 * b1 + c1) * H = a1 * H + 4 * (b1 * H) + c1 * H
    BY <1>1, <2>2
  <2>11. 3 * ((z - 2 * y + x) * S) =
           3 * ((x - low) * S - 2 * ((y - low) * S) + (z - low) * S)
    BY <1>1, <2>3
  <2> QED
    BY <2>6, <2>8, <2>9, <2>10, <2>11
<1> HIDE DEF X, Y, C
<1>11. Tridiagonal(X, Y, n, C)
  BY <1>4, <1>6, <1>7, <1>9, <1>10 DEF Tridiagonal
<1> QED
  BY <1>11 DEF X, Y, C, System

\* A nonzero product.
LEMMA NonzeroProduct ==
    ASSUME NEW x \in Int, x # 0, NEW y \in Int, y # 0
    PROVE  x * y \in Int /\ x * y # 0
  OBVIOUS

\* The place v / w of the way along a segment, w = v + e, in terms of the places above
\* low and the moments in Along's units.
LEMMA CubicAlong ==
    ASSUME NEW c, NEW A, NEW D, NEW a, NEW b, NEW W, NEW H, NEW K, Segment(c, A, D, a, b, W, H, K),
           NEW v \in Nat, NEW e \in Nat, v + e # 0, NEW tau, Is(tau, H * v, K * (v + e)),
           NEW low \in Int, NEW S, S = K * K * W, NEW cube, cube = (v + e) * (v + e) * (v + e),
           NEW z, z = Along((A - low) * S, (A + D - low) * S, a * (H * H), b * (H * H), v, e)
    PROVE  Is(Cubic(c, tau), z + 6 * low * S * cube, 6 * S * cube)
<1> DEFINE w == v + e
           m0 == H * v
           d0 == K * w
           m1 == (b - a) * K
           d1 == 6 * H * W
           m2 == (b - a) * v
           d2 == 6 * w * W
           d3 == 2 * W
           m4 == 3 * a * w + (b - a) * v
           m5 == H * v * m4
           d5 == 6 * K * (w * w) * W
           m6 == 6 * K * K * W * D - H * H * (2 * a + b)
           d6 == 6 * H * K * W
           m7 == w * w * m6 + H * H * v * m4
           d7 == 6 * H * K * (w * w) * W
           m8 == v * m7
           d8 == 6 * S * cube
           cb == c.b
           cc == c.c
           cd == c.d
           x1 == tau (.) cd
           x2 == cc (+) x1
           x3 == tau (.) x2
           x4 == cb (+) x3
           x5 == tau (.) x4
<1>1. /\ A \in Int /\ D \in Int /\ a \in Int /\ b \in Int
      /\ W \in Nat \ {0} /\ H \in Nat \ {0} /\ K \in Nat \ {0} /\ c.a = Q(A)
  BY DEF Segment
<1>2. w \in Nat \ {0} /\ S = K * K * W /\ cube = w * w * w
  OBVIOUS
<1>3. S \in Nat \ {0} /\ cube \in Nat \ {0}
  <2> HIDE DEF w
  <2>1. K * K \in Nat \ {0} /\ w * w \in Nat \ {0}
    BY <1>1, <1>2
  <2> DEFINE x == K * K
             y == w * w
  <2> HIDE DEF x, y
  <2>2. x * W \in Nat \ {0} /\ y * w \in Nat \ {0}
    BY <1>1, <1>2, <2>1 DEF x, y
  <2> QED
    BY <1>2, <2>2 DEF x, y
<1>4. /\ Is(cb, m6, d6) /\ Is(cc, a, d3) /\ Is(cd, m1, d1)
      /\ Is(tau, m0, d0)
  BY DEF Segment
<1>5. Cubic(c, tau) = c.a (+) x5
  BY DEF Cubic
<1> HIDE DEF cb, cc, cd, x1, x2, x3, x4, x5
<1>6. /\ m0 \in Int /\ m1 \in Int /\ m2 \in Int /\ m4 \in Int /\ m6 \in Int
      /\ d3 \in Int /\ d3 # 0
  <2> HIDE DEF w
  <2> QED
    BY <1>1, <1>2
<1>7. /\ d0 \in Int /\ d0 # 0 /\ d1 \in Int /\ d1 # 0 /\ d2 \in Int /\ d2 # 0
  <2> HIDE DEF w
  <2> QED
    BY <1>1, <1>2
<1>8. /\ d5 \in Int /\ d5 # 0 /\ d6 \in Int /\ d6 # 0 /\ d7 \in Int /\ d7 # 0
      /\ d8 \in Int /\ d8 # 0
  <2> DEFINE y == w * w
             g == K * W
             h == H * (K * W)
  <2>1. y \in Int /\ y # 0 /\ g \in Int /\ g # 0
    BY <1>1, <1>2, NonzeroProduct
  <2>2. h \in Int /\ h # 0 /\ g * y \in Int /\ g * y # 0 /\ S * cube \in Int /\ S * cube # 0
    <3> HIDE DEF y, g
    <3>1. H \in Int /\ H # 0 /\ S \in Int /\ S # 0 /\ cube \in Int /\ cube # 0
      BY <1>1, <1>3
    <3> QED
      BY <2>1, <3>1, NonzeroProduct DEF g
  <2>3. h * y \in Int /\ h * y # 0
    <3> HIDE DEF y, h
    <3> QED
      BY <2>1, <2>2, NonzeroProduct
  <2>4. d5 = 6 * (g * y) /\ d6 = 6 * h /\ d7 = 6 * (h * y) /\ d8 = 6 * (S * cube)
    BY <1>1, <1>3
  <2> DEFINE gy == g * y
             hy == h * y
             sc == S * cube
  <2> HIDE DEF d5, d6, d7, d8, gy, hy, sc, h
  <2>5. /\ 6 * gy \in Int /\ 6 * gy # 0 /\ 6 * h \in Int /\ 6 * h # 0
        /\ 6 * hy \in Int /\ 6 * hy # 0 /\ 6 * sc \in Int /\ 6 * sc # 0
    BY <2>2, <2>3 DEF gy, hy, sc
  <2> QED
    BY <2>4, <2>5 DEF gy, hy, sc
<1>9. (m0 * m1) * d2 = m2 * (d0 * d1)
  <2> HIDE DEF w
  <2> QED
    BY <1>1, <1>2
<1>10. (a * d2 + m2 * d3) * d2 = m4 * (d3 * d2)
  <2> HIDE DEF w
  <2> QED
    BY <1>1, <1>2
<1>11. m5 \in Int /\ (m0 * m4) * d5 = m5 * (d0 * d2)
  <2> HIDE DEF w, m4
  <2> QED
    BY <1>1, <1>2, <1>6
<1>12. m7 \in Int /\ (m6 * d5 + m5 * d6) * d7 = m7 * (d6 * d5)
  <2> HIDE DEF w, m4, m6
  <2> QED
    BY <1>1, <1>2, <1>6
<1>13. m8 \in Int /\ (m0 * m7) * d8 = m8 * (d0 * d7)
  <2> HIDE DEF w, m7
  <2> QED
    BY <1>1, <1>2, <1>6, <1>12
<1>14. z + 6 * low * S * cube = A * d8 + m8
  <2> DEFINE P == A - low
             X == a * (H * H)
             Y == b * (H * H)
             k == 6 * (w * w)
             n == 2 * v + e
             l == v + 2 * e
             G == H * H * (2 * a + b) * (w * w) - H * H * v * m4
  <2>1. (A + D - low) * S = P * S + D * S
    BY <1>1, <1>3
  <2>2. e * (P * S) + v * (P * S + D * S) = w * (P * S) + v * (D * S)
    BY <1>1, <1>3
  <2>3. z = k * (w * (P * S) + v * (D * S)) - (v * e) * (l * X + n * Y)
    BY <2>1, <2>2 DEF Along
  <2>4. v * G = (v * e) * (l * X + n * Y)
    BY <1>1
  <2>5. k * (w * (P * S) + v * (D * S)) = 6 * cube * (P * S) + v * (k * (D * S))
    <3> DEFINE ps == P * S
               ds == D * S
    <3>1. ps \in Int /\ ds \in Int
      BY <1>1, <1>3
    <3> HIDE DEF ps, ds, w
    <3> QED
      BY <1>2, <3>1 DEF ps, ds
  <2>6. m7 = k * (D * S) - G
    <3> HIDE DEF w, m4
    <3> QED
      BY <1>1, <1>2, <1>6
  <2>7. A * d8 = 6 * cube * (P * S) + 6 * low * S * cube
    BY <1>1, <1>3
  <2> DEFINE kds == k * (D * S)
             cps == 6 * cube * (P * S)
             ls == 6 * low * S * cube
  <2>8. kds \in Int /\ G \in Int /\ cps \in Int /\ ls \in Int
    <3> HIDE DEF w, m4
    <3> QED
      BY <1>1, <1>2, <1>3, <1>6
  <2>9. z = (cps + v * kds) - v * G /\ m7 = kds - G /\ A * d8 = cps + ls
    <3> DEFINE left == k * (w * (P * S) + v * (D * S))
               right == (v * e) * (l * X + n * Y)
               vG == v * G
               vkds == v * kds
    <3>1. z = left - right /\ vG = right /\ left = cps + vkds
      BY <2>3, <2>4, <2>5
    <3>2. z = (cps + vkds) - vG
      <4> HIDE DEF left, right, vG, cps, vkds
      <4> QED
        BY <3>1
    <3> QED
      BY <2>6, <2>7, <3>2
  <2> HIDE DEF kds, cps, ls, G, m7, d8
  <2>10. v * (kds - G) = v * kds - v * G /\ v * kds \in Int /\ v * G \in Int
    BY <2>8
  <2>11. z + ls = A * d8 + v * m7
    BY <2>8, <2>9, <2>10
  <2> QED
    BY <2>11 DEF ls
<1> HIDE DEF w, m0, d0, m1, d1, m2, d2, d3, m4, m5, d5, m6, d6, m7, d7, m8, d8
<1>15. Is(x1, m2, d2)
  BY <1>4, <1>6, <1>7, <1>9, IsProduct DEF x1
<1>16. Is(x2, m4, d2)
  BY <1>1, <1>4, <1>6, <1>7, <1>10, <1>15, IsSum DEF x2
<1>17. Is(x3, m5, d5)
  BY <1>4, <1>6, <1>7, <1>8, <1>11, <1>16, IsProduct DEF x3
<1>18. Is(x4, m7, d7)
  BY <1>4, <1>6, <1>8, <1>11, <1>12, <1>17, IsSum DEF x4
<1>19. Is(x5, m8, d8)
  BY <1>4, <1>6, <1>7, <1>8, <1>12, <1>13, <1>18, IsProduct DEF x5
<1>20. Is(c.a, A * d8, d8)
  <2>1. Is(Q(A), A, 1) /\ 1 \in Int /\ 1 # 0 /\ 1 * d8 = d8
    BY <1>1, <1>8, QIs
  <2>2. Is(Q(A), A * d8, 1 * d8)
    BY <1>1, <1>8, <2>1, Rescale
  <2> QED
    BY <1>1, <2>1, <2>2
<1>21. Is(Cubic(c, tau), A * d8 + m8, d8)
  <2> DEFINE x == c.a
             y == A * d8
  <2>1. Is(x, y, d8) /\ y \in Int
    BY <1>1, <1>8, <1>20
  <2> HIDE DEF x, y
  <2>2. Is(x (+) x5, y + m8, d8)
    BY <1>8, <1>13, <1>19, <2>1, SameDenominator
  <2> QED
    BY <1>5, <2>2 DEF x, y
<1> QED
  BY <1>14, <1>21 DEF d8

\* The time t is m / d, and at most T.
TimeIs(t, m, d, T) == Is(t, m, d) /\ m <= T * d

\* The time m / d is in the kth of n equal parts of T.
Between(k, n, T, m, d) == T * (k - 1) * d <= m * n /\ m * n <= T * k * d

\* The times of n segments are such parts.
Timed(s, n, T) ==
    Len(s) = n /\ DOMAIN s = 1 .. n /\ \A l \in 1 .. n : Is(s[l].t_start, T * (l - 1), n)

\* eval takes a time within the duration.
LEMMA Clamped ==
    ASSUME NEW T \in Nat \ {0}, NEW t \in Numbers, t # NotFinite
    PROVE  \E m \in Nat, d \in Nat \ {0} : TimeIs(Clamp(Q(T), t), m, d, T)
<1>1. PICK k \in Int, d \in Nat \ {0} : t = <<k, d>> /\ Is(t, k, d)
  BY NumberIs
<1> DEFINE h == T * d
           capped == IF Less(Q(T), t) THEN Q(T) ELSE t
           l == IF h < k THEN h ELSE k
           m == IF l < 0 THEN 0 ELSE l
           u == IF Less(capped, Q(0)) THEN Q(0) ELSE capped
<1>2. h \in Nat /\ d \in Int /\ d # 0 /\ 0 \in Int /\ 1 \in Int /\ 1 # 0 /\ T \in Int
      /\ 1 * d = d /\ 0 * d = 0
  OBVIOUS
<1>3. Is(Q(T), h, d) /\ Is(Q(0), 0, d)
  <2>1. Is(Q(T), T, 1) /\ Is(Q(0), 0, 1)
    BY <1>2, QIs
  <2>2. Is(Q(T), T * d, 1 * d) /\ Is(Q(0), 0 * d, 1 * d)
    BY <1>2, <2>1, Rescale
  <2> QED
    BY <1>2, <2>2
<1> HIDE DEF h
<1>4. Less(Q(T), t) <=> h < k
  BY <1>1, <1>2, <1>3, LeqIs
<1>5. Is(capped, l, d)
  BY <1>1, <1>3, <1>4
<1>6. l \in Int /\ l <= h
  BY <1>2
<1> HIDE DEF capped, l
<1>7. Less(capped, Q(0)) <=> l < 0
  BY <1>2, <1>3, <1>5, <1>6, LeqIs
<1>8. Is(u, m, d)
  BY <1>3, <1>5, <1>7
<1>9. m \in Nat /\ m <= h
  BY <1>2, <1>6
<1>10. Clamp(Q(T), t) = u
  BY DEF Clamp, capped
<1> HIDE DEF u, m
<1>11. TimeIs(u, m, d, T)
  BY <1>8, <1>9 DEF h, TimeIs
<1> QED
  BY <1>9, <1>10, <1>11

\* SegmentAt finds the segment a time is in.
LEMMA SegmentAtTime ==
    ASSUME NEW s, NEW n \in Nat \ {0}, NEW T \in Nat \ {0}, Timed(s, n, T),
           NEW t, NEW m \in Nat, NEW d \in Nat \ {0}, TimeIs(t, m, d, T)
    PROVE  SegmentAt(s, t) \in 1 .. n /\ Between(SegmentAt(s, t), n, T, m, d)
<1> USE DEF Timed, TimeIs
<1> DEFINE E == n * d
           M == m * n
           start(l) == T * (l - 1) * d
           found == {i \in DOMAIN s :
                       /\ Leq(s[i].t_start, t)
                       /\ i = Len(s) \/ Less(t, s[i + 1].t_start)}
           Ends == {i \in 1 .. n : i = n \/ M < start(i + 1)}
<1>1. E \in Nat \ {0} /\ M \in Nat /\ n \in Int /\ n # 0 /\ d \in Int /\ d # 0 /\ m \in Int
      /\ d * n = E
  OBVIOUS
<1>2. Is(t, M, E)
  <2>1. Is(t, m * n, d * n)
    BY <1>1, Rescale
  <2> QED
    BY <1>1, <2>1
<1>3. ASSUME NEW l \in 1 .. n
      PROVE  /\ start(l) \in Int
             /\ Leq(s[l].t_start, t) <=> start(l) <= M
             /\ Less(t, s[l].t_start) <=> M < start(l)
  <2> DEFINE g == T * (l - 1)
             x == s[l].t_start
  <2>1. g \in Int /\ g * d \in Int /\ start(l) = g * d
    OBVIOUS
  <2>2. Is(x, g, n)
    OBVIOUS
  <2> HIDE DEF g, x
  <2>3. Is(x, g * d, n * d)
    BY <1>1, <2>1, <2>2, Rescale
  <2> DEFINE y == g * d
  <2>4. Is(x, y, E) /\ y \in Int
    BY <2>1, <2>3
  <2> HIDE DEF E, M, y
  <2>5. (Leq(x, t) <=> y <= M) /\ (Less(t, x) <=> M < y)
    BY <1>1, <1>2, <2>4, LeqIs
  <2> QED
    BY <2>1, <2>4, <2>5 DEF x, y
<1> HIDE DEF E, M, start
<1>4. start(1) = 0 /\ \A l \in 1 .. n : l # n => l + 1 \in 1 .. n
  BY DEF start
<1>5. found = {i \in Ends : start(i) <= M}
  <2>1. ASSUME NEW i \in 1 .. n
        PROVE  (i = Len(s) \/ Less(t, s[i + 1].t_start)) <=> (i = n \/ M < start(i + 1))
    <3>1. CASE i = n
      BY <3>1
    <3>2. CASE i # n
      <4>1. i + 1 \in 1 .. n
        BY <1>4, <3>2
      <4> QED
        BY <1>3, <4>1
    <3> QED
      BY <3>1, <3>2
  <2> QED
    BY <1>3, <2>1
<1>6. found # {}
  <2>1. n \in Ends /\ Ends \subseteq Nat
    OBVIOUS
  <2> HIDE DEF Ends
  <2>2. PICK k \in Ends : \A i \in Ends : k <= i
    BY <2>1, LeastNumber
  <2>3. k \in 1 .. n
    BY DEF Ends
  <2>4. start(k) <= M
    <3>1. CASE k = 1
      BY <1>1, <1>4, <3>1
    <3>2. CASE k # 1
      <4>1. k - 1 \in 1 .. n /\ ~ (k <= k - 1) /\ k - 1 # n /\ (k - 1) + 1 = k
        BY <2>3, <3>2
      <4>2. ~ (M < start(k))
        BY <2>2, <4>1 DEF Ends
      <4>3. start(k) \in Int
        BY <1>3, <2>3
      <4> QED
        BY <1>1, <4>2, <4>3
    <3> QED
      BY <3>1, <3>2
  <2> HIDE DEF found
  <2> QED
    BY <1>5, <2>4
<1> DEFINE k == SegmentAt(s, t)
<1>7. k = CHOOSE i \in found : \A l \in found : i <= l
  BY <1>6 DEF SegmentAt
<1> HIDE DEF k
<1>8. k \in found
  <2>1. found \subseteq Nat
    BY <1>5
  <2> HIDE DEF found
  <2>2. \E i \in found : \A l \in found : i <= l
    BY <1>6, <2>1, LeastNumber
  <2> QED
    BY <1>7, <2>2
<1>9. k \in 1 .. n /\ start(k) <= M /\ (k = n \/ M < start(k + 1))
  <2> HIDE DEF found
  <2> QED
    BY <1>5, <1>8
<1>10. M <= T * k * d
  <2>1. CASE k = n
    <3>1. m * n <= (T * d) * n
      <4> DEFINE h == T * d
      <4>1. h \in Nat /\ m <= h
        OBVIOUS
      <4> HIDE DEF h
      <4>2. (h - m) * n >= 0 /\ (h - m) * n = h * n - m * n
        <5>1. h - m \in Nat
          BY <4>1
        <5> QED
          BY <4>1, <5>1
      <4>3. h * n \in Int /\ m * n \in Int
        BY <4>1
      <4>4. m * n <= h * n
        <5> DEFINE a == h * n
                   b == m * n
                   c == (h - m) * n
        <5>1. c >= 0 /\ c = a - b /\ a \in Int /\ b \in Int
          BY <4>2, <4>3
        <5> HIDE DEF a, b, c
        <5>2. b <= a
          BY <5>1
        <5> QED
          BY <5>2 DEF a, b
      <4> QED
        BY <4>4 DEF h
    <3>2. (T * d) * n = T * k * d
      BY <2>1
    <3> QED
      BY <3>1, <3>2 DEF M
  <2>2. CASE k # n
    <3>1. k + 1 \in 1 .. n /\ M < start(k + 1) /\ (k + 1) - 1 = k
      BY <1>4, <1>9, <2>2
    <3>2. start(k + 1) \in Int
      BY <1>3, <3>1
    <3>3. M <= start(k + 1)
      BY <1>1, <3>1, <3>2
    <3>4. start(k + 1) = T * k * d
      BY <3>1 DEF start
    <3> QED
      BY <3>3, <3>4
  <2> QED
    BY <2>1, <2>2
<1> QED
  BY <1>9, <1>10 DEF k, M, start, Between

\* At time t every joint is v / (v + e) of the way along its kth segment.
Sampled(f, t, J, n, p, T, k, v, e) ==
    /\ v + e # 0
    /\ \E tau : /\ Is(tau, T * v, n * (v + e))
               /\ Eval(f, t) = [j \in J |-> Cubic(Piece(p, n, T, j, k), tau)]

\* A sample is a place of one segment, v / (v + e) of the way along it.
LEMMA SampleAt ==
    ASSUME NEW f, NEW J, NEW n \in Nat \ {0}, NEW p, NEW T \in Nat \ {0}, Fits(f, J, n, p, T),
           NEW t \in Numbers, t # NotFinite
    PROVE  \E k \in 1 .. n, v, e \in Nat : Sampled(f, t, J, n, p, T, k, v, e)
<1> DEFINE s == f.segments
           u == Clamp(f.duration, t)
<1>1. /\ f.duration = Q(T) /\ Len(s) = n /\ DOMAIN s = 1 .. n /\ s # <<>>
      /\ \A l \in 1 .. n :
            /\ Is(s[l].t_start, T * (l - 1), n) /\ DOMAIN s[l].coeff = J
            /\ \A j \in J : s[l].coeff[j] = Piece(p, n, T, j, l)
  <2>1. T \in Int
    OBVIOUS
  <2>2. /\ f.duration = Q(T) /\ Len(f.segments) = n /\ DOMAIN f.segments = 1 .. n
        /\ f.segments # <<>>
    BY <2>1, SegmentsAre
  <2>3. \A l \in 1 .. n :
          /\ Is(f.segments[l].t_start, T * (l - 1), n) /\ DOMAIN f.segments[l].coeff = J
          /\ \A j \in J : f.segments[l].coeff[j] = Piece(p, n, T, j, l)
    BY <2>1, SegmentsAre
  <2> QED
    BY <2>2, <2>3
<1>2. PICK m \in Nat, d \in Nat \ {0} : TimeIs(u, m, d, T)
  BY <1>1, Clamped
<1>3. Eval(f, t) = [j \in DOMAIN s[SegmentAt(s, u)].coeff |->
                       Cubic(s[SegmentAt(s, u)].coeff[j], u (-) s[SegmentAt(s, u)].t_start)]
  BY <1>1 DEF Eval
<1> HIDE DEF s, u
<1>4. PICK k \in 1 .. n : SegmentAt(s, u) = k /\ Between(k, n, T, m, d)
  <2>1. Timed(s, n, T)
    BY <1>1 DEF Timed
  <2> QED
    BY <1>2, <2>1, SegmentAtTime
<1> DEFINE start == s[k].t_start
           tau == u (-) start
           a == T * (k - 1) * d
           b == T * k * d
           c == m * n
           v == c - a
           e == b - c
           w == T * d
<1>5. Eval(f, t) = [j \in J |-> Cubic(Piece(p, n, T, j, k), tau)]
  BY <1>1, <1>3, <1>4
<1>6. a \in Int /\ b \in Int /\ c \in Int /\ b = a + w /\ w \in Nat \ {0}
  OBVIOUS
<1>7. v \in Nat /\ e \in Nat /\ v + e = w
  <2>1. a <= c /\ c <= b
    BY <1>4 DEF Between
  <2> HIDE DEF a, b, c, w
  <2> QED
    BY <1>6, <2>1
<1>8. Is(tau, v, n * d)
  <2> DEFINE g == T * (k - 1)
             E == n * d
  <2>1. /\ g \in Int /\ d \in Int /\ d # 0 /\ n \in Int /\ n # 0 /\ m \in Int
        /\ d * n = E /\ E \in Int /\ E # 0 /\ a = g * d
    OBVIOUS
  <2>2. Is(start, g, n)
    BY <1>1
  <2> HIDE DEF g, start
  <2>3. Is(start, g * d, n * d)
    BY <2>1, <2>2, Rescale
  <2>4. Is(u, m * n, d * n)
    BY <1>2, <2>1, Rescale DEF TimeIs
  <2>5. Is(start, a, E) /\ Is(u, c, E)
    BY <2>1, <2>3, <2>4
  <2> HIDE DEF a, c, E
  <2>6. Is(u (-) start, c - a, E)
    BY <1>6, <2>1, <2>5, SameDenominator
  <2> QED
    BY <2>6 DEF E
<1>9. Is(tau, T * v, n * (v + e))
  <2> DEFINE E == n * d
             N == T * v
             D == n * w
  <2>1. /\ E \in Int /\ E # 0 /\ N \in Int /\ D \in Int /\ v \in Int /\ v * D = N * E
    <3> HIDE DEF v
    <3> QED
      BY <1>7
  <2>2. Is(tau, v, E)
    BY <1>8
  <2> HIDE DEF tau, v, E, N, D
  <2>3. Is(tau, N, D)
    BY <2>1, <2>2, IsSame
  <2> QED
    BY <1>7, <2>3 DEF N, D
<1>10. Sampled(f, t, J, n, p, T, k, v, e)
  <2> HIDE DEF v, e, w, tau
  <2> QED
    BY <1>5, <1>6, <1>7, <1>9 DEF Sampled
<1> HIDE DEF v, e, w, tau
<1> QED
  BY <1>7, <1>10

\* A sample leaves the range of the path by a seventh of it at most.
LEMMA SampleNear ==
    ASSUME NEW f, NEW J, NEW n \in Nat \ {0}, NEW p, NEW T \in Nat \ {0}, Fits(f, J, n, p, T),
           NEW t \in Numbers, t # NotFinite,
           NEW j \in J, NEW low \in Int, NEW high \in Int,
           InBounds(p, n, j, low, high)
    PROVE  /\ Leq(Q(low) (-) Frac(high - low, 7), Eval(f, t)[j])
           /\ Leq(Eval(f, t)[j], Q(high) (+) Frac(high - low, 7))
<1>1. \A i \in 1 .. n + 1 : p[i][j] \in Int
  BY FitUniform
<1>2. PICK k \in 1 .. n, v \in Nat, e \in Nat : Sampled(f, t, J, n, p, T, k, v, e)
  BY SampleAt
<1>3. PICK tau : /\ v + e # 0 /\ Is(tau, T * v, n * (v + e))
                  /\ Eval(f, t) = [i \in J |-> Cubic(Piece(p, n, T, i, k), tau)]
  BY <1>2 DEF Sampled
<1>4. PICK W \in Nat \ {0}, A \in [0 .. n -> Int] :
          \A i \in 0 .. n : Is(Moments(p, n, T, j)[i], A[i], W)
  BY CommonDenominator
<1> DEFINE S == n * n * W
           C == (high - low) * S
           X == [i \in 0 .. n |-> A[i] * (T * T)]
           Y == [i \in 0 .. n |-> (p[i + 1][j] - low) * S]
           cube == (v + e) * (v + e) * (v + e)
           z == Along(Y[k - 1], Y[k], X[k - 1], X[k], v, e)
           x == Cubic(Piece(p, n, T, j, k), tau)
           E == 6 * S * cube
           R == high - low
<1>5. Tridiagonal(X, Y, n, C)
  <2>1. System(A, W, p, n, T, j, low, high)
    BY <1>4, SystemOf
  <2> QED
    BY <2>1 DEF System
<1>6. z \in Int /\ C * cube \in Int /\ -6 * (C * cube) <= 7 * z /\ 7 * z <= 48 * (C * cube)
  <2> DEFINE c == C * cube
  <2>1. c = C * ((v + e) * (v + e) * (v + e))
    OBVIOUS
  <2> HIDE DEF c, C, X, Y
  <2>2. z \in Int /\ c \in Int /\ -6 * c <= 7 * z /\ 7 * z <= 48 * c
    BY <1>5, <2>1, WithinRange
  <2> QED
    BY <2>2 DEF c
<1>7. /\ k - 1 \in 0 .. n /\ k \in 0 .. n /\ (k - 1) + 1 = k
      /\ p[k][j] \in Int /\ p[k + 1][j] \in Int
  <2>1. k \in 1 .. n + 1 /\ k + 1 \in 1 .. n + 1
    OBVIOUS
  <2>2. k - 1 \in 0 .. n /\ k \in 0 .. n /\ (k - 1) + 1 = k
    OBVIOUS
  <2> QED
    BY <1>1, <2>1, <2>2
<1>8. Is(x, z + 6 * low * S * cube, E)
  <2> DEFINE P == p[k][j]
             D == p[k + 1][j] - p[k][j]
             a == A[k - 1]
             b == A[k]
             c == Piece(p, n, T, j, k)
             R1 == p[k + 1][j]
  <2>1. a \in Int /\ b \in Int
    BY <1>7
  <2>2. P + D = R1 /\ P \in Int /\ D \in Int /\ P + D - low = R1 - low
    <3>1. P \in Int /\ R1 \in Int /\ D = R1 - P
      BY <1>7
    <3> HIDE DEF P, R1, D
    <3> QED
      BY <3>1
  <2>3. Is(Moments(p, n, T, j)[k - 1], a, W) /\ Is(Moments(p, n, T, j)[k], b, W)
    BY <1>4, <1>7
  <2>4. Segment(c, P, D, a, b, W, T, n)
    <3> HIDE DEF a, b
    <3> QED
      BY <2>1, <2>3, PieceIs DEF P, D
  <2>5. /\ Y[k - 1] = (P - low) * S /\ Y[k] = (P + D - low) * S
        /\ X[k - 1] = a * (T * T) /\ X[k] = b * (T * T)
    <3>1. P + D - low = p[k + 1][j] - low
      BY <2>2
    <3> HIDE DEF S, D
    <3> QED
      BY <1>7, <3>1
  <2>6. z = Along((P - low) * S, (P + D - low) * S, a * (T * T), b * (T * T), v, e)
    BY <2>5
  <2> HIDE DEF P, D, a, b, c, z, X, Y
  <2>7. S = n * n * W /\ cube = (v + e) * (v + e) * (v + e)
    OBVIOUS
  <2> HIDE DEF S, cube
  <2>8. Is(Cubic(c, tau), z + 6 * low * S * cube, 6 * S * cube)
    BY <1>3, <2>4, <2>6, <2>7, CubicAlong
  <2> QED
    BY <2>8 DEF c
<1>9. E \in Nat \ {0}
  <2> DEFINE w == v + e
             y == n * n
  <2>1. w \in Nat \ {0} /\ y \in Nat \ {0}
    BY <1>3
  <2> HIDE DEF w, y
  <2>2. y * W \in Nat \ {0} /\ w * w \in Nat \ {0}
    BY <2>1
  <2> DEFINE a == y * W
             b == w * w
  <2> HIDE DEF a, b
  <2>3. b * w \in Nat \ {0} /\ a \in Nat \ {0}
    BY <2>1, <2>2 DEF a, b
  <2> DEFINE c == b * w
  <2> HIDE DEF c
  <2>4. 6 * a * c \in Nat \ {0}
    BY <2>3 DEF c
  <2> QED
    BY <2>4 DEF w, y, a, b, c
<1>10. 6 * (C * cube) = R * E /\ 6 * low * S * cube = low * E /\ R \in Int
  <2>1. S \in Int /\ cube \in Int
    OBVIOUS
  <2> HIDE DEF S, cube
  <2> QED
    BY <2>1
<1>11. Eval(f, t)[j] = x
  BY <1>3
<1> HIDE DEF C, X, Y, x, z, E, R, S, cube
<1> DEFINE r == R * E
           l == low * E
           h == high * E
           F == 7 * E
           g == Frac(R, 7)
<1>12. /\ 0 <= 7 * z + r /\ 7 * z <= 8 * r /\ z \in Int
       /\ r \in Int /\ l \in Int /\ h \in Int /\ F \in Nat \ {0}
  <2>1. r \in Int /\ l \in Int /\ h \in Int /\ F \in Nat \ {0}
    BY <1>9, <1>10
  <2> DEFINE c == C * cube
  <2>2. c \in Int /\ -6 * c <= 7 * z /\ 7 * z <= 48 * c /\ 6 * c = r
    BY <1>6, <1>10
  <2> HIDE DEF c, r, l, h, F
  <2> QED
    BY <1>6, <2>1, <2>2
<1>13. h = l + r
  BY <1>9, <1>10 DEF R
<1>14. Is(x, 7 * (z + l), F)
  <2> DEFINE y == z + l
             k7 == 7
  <2>1. Is(x, y, E) /\ y \in Int /\ E \in Int /\ E # 0 /\ k7 \in Int
    BY <1>6, <1>8, <1>9, <1>10, <1>12
  <2>2. y * k7 = 7 * y /\ E * k7 = 7 * E
    BY <2>1
  <2> HIDE DEF y, k7
  <2>3. Is(x, y * k7, E * k7)
    BY <2>1, Rescale
  <2> QED
    BY <2>2, <2>3 DEF y
<1>15. Is(g, r, F)
  <2>1. Is(g, R, 7) /\ 7 \in Int /\ 7 # 0 /\ E \in Int
    BY <1>9, <1>10, FracIs
  <2> HIDE DEF g
  <2>2. Is(g, R * E, 7 * E)
    BY <1>10, <2>1, Rescale
  <2> QED
    BY <2>2
<1>16. Is(Q(low), 7 * l, F) /\ Is(Q(high), 7 * h, F)
  <2>1. F \in Int /\ 1 \in Int /\ 1 # 0 /\ low * F = 7 * l /\ high * F = 7 * h /\ 1 * F = F
    BY <1>9
  <2>2. Is(Q(low), low, 1) /\ Is(Q(high), high, 1)
    BY QIs
  <2> HIDE DEF F, l, h
  <2>3. Is(Q(low), low * F, 1 * F) /\ Is(Q(high), high * F, 1 * F)
    BY <2>1, <2>2, Rescale
  <2> QED
    BY <2>1, <2>3
<1> HIDE DEF r, l, h, F, g
<1>17. Is(Q(low) (-) g, 7 * l - r, F) /\ Is(Q(high) (+) g, 7 * h + r, F)
  <2> DEFINE ql == Q(low)
             qh == Q(high)
             l7 == 7 * l
             h7 == 7 * h
  <2>1. Is(ql, l7, F) /\ Is(qh, h7, F) /\ l7 \in Int /\ h7 \in Int /\ F \in Int /\ F # 0
    BY <1>12, <1>16
  <2> HIDE DEF ql, qh, l7, h7
  <2>2. Is(ql (-) g, l7 - r, F) /\ Is(qh (+) g, h7 + r, F)
    BY <1>12, <1>15, <2>1, SameDenominator
  <2> QED
    BY <2>2 DEF ql, qh, l7, h7
<1>18. Leq(Q(low) (-) g, x) /\ Leq(x, Q(high) (+) g)
  <2> DEFINE a == 7 * l - r
             b == 7 * (z + l)
             c == 7 * h + r
             xl == Q(low) (-) g
             xh == Q(high) (+) g
  <2>1. a \in Int /\ b \in Int /\ c \in Int /\ a <= b /\ b <= c
    BY <1>12, <1>13
  <2>2. Is(xl, a, F) /\ Is(xh, c, F) /\ Is(x, b, F) /\ F \in Nat \ {0}
    BY <1>12, <1>14, <1>17
  <2> HIDE DEF a, b, c, xl, xh
  <2>3. Leq(xl, x) <=> a <= b
    BY <2>1, <2>2, LeqIs
  <2>4. Leq(x, xh) <=> b <= c
    BY <2>1, <2>2, LeqIs
  <2> QED
    BY <2>1, <2>3, <2>4 DEF xl, xh
<1> QED
  BY <1>11, <1>18 DEF g, R

-----------------------------------------------------------------------------
(* Every sample.                                                           *)

\* The places a joint takes on a path have a least and a greatest.
LEMMA Extremes ==
    ASSUME NEW n \in Nat, NEW X \in [0 .. n -> Int], NEW S, S = {X[k] : k \in 0 .. n}
    PROVE  /\ \E x \in S : \A y \in S : x <= y
           /\ \E x \in S : \A y \in S : y <= x
<1>1. PICK B \in Nat : \A k \in 0 .. n : -B <= X[k] /\ X[k] <= B
  BY SomeBound
<1>2. 0 \in 0 .. n
  OBVIOUS
<1>3. \E x \in S : \A y \in S : x <= y
  <2> DEFINE Above == {X[k] + B : k \in 0 .. n}
  <2>1. Above \subseteq Nat /\ Above # {}
    BY <1>1, <1>2
  <2>2. PICK a \in Above : \A b \in Above : a <= b
    <3> HIDE DEF Above
    <3> QED
      BY <2>1, LeastNumber
  <2>3. PICK k \in 0 .. n : a = X[k] + B
    OBVIOUS
  <2>4. \A i \in 0 .. n : X[k] <= X[i]
    <3> TAKE i \in 0 .. n
    <3>1. X[k] + B <= X[i] + B /\ X[k] \in Int /\ X[i] \in Int
      BY <2>2, <2>3
    <3> QED
      BY <3>1
  <2> QED
    BY <2>4
<1>4. \E x \in S : \A y \in S : y <= x
  <2> DEFINE Below == {B - X[k] : k \in 0 .. n}
  <2>1. Below \subseteq Nat /\ Below # {}
    BY <1>1, <1>2
  <2>2. PICK a \in Below : \A b \in Below : a <= b
    <3> HIDE DEF Below
    <3> QED
      BY <2>1, LeastNumber
  <2>3. PICK k \in 0 .. n : a = B - X[k]
    OBVIOUS
  <2>4. \A i \in 0 .. n : X[i] <= X[k]
    <3> TAKE i \in 0 .. n
    <3>1. B - X[k] <= B - X[i] /\ X[k] \in Int /\ X[i] \in Int
      BY <2>2, <2>3
    <3> QED
      BY <3>1
  <2> QED
    BY <2>4
<1> QED
  BY <1>3, <1>4

\* A sample of a trajectory with segments was taken at a time that is not negative,
\* so the duration is not negative.
LEMMA SampleTaken ==
    ASSUME Inductive, q # Empty
    PROVE  /\ pc = "play" /\ Frac(tick - 1, TicksPerUnit) \in Numbers
           /\ Frac(tick - 1, TicksPerUnit) # NotFinite
           /\ q = Eval(trajectory, Frac(tick - 1, TicksPerUnit))
           /\ Len(path) - 1 \in Nat \ {0} /\ request.duration_s \in Nat
           /\ Fits(trajectory, Joints, Len(path) - 1, path, request.duration_s)
<1> DEFINE t == Frac(tick - 1, TicksPerUnit)
           T == request.duration_s
<1>1. pc = "play" /\ tick > 0 /\ q = Eval(trajectory, t)
  BY DEF Inductive
<1>2. tick \in Nat /\ tick - 1 \in Nat /\ TicksPerUnit \in Nat \ {0}
  BY <1>1, MotionPlanAssumption DEF Inductive, TypeOK
<1>3. Is(t, tick - 1, TicksPerUnit)
  BY <1>2, FracIs
<1>4. trajectory # EmptyTrajectory
  BY <1>1, EvalEmpty DEF Empty
<1>5. /\ Len(path) - 1 \in Nat \ {0} /\ T \in Int
      /\ Fits(trajectory, Joints, Len(path) - 1, path, T)
  BY <1>1, <1>4, PlayFits
<1>6. trajectory.duration = Q(T)
  BY <1>5, SegmentsAre
<1>7. Leq(t, Q(T))
  BY <1>1, <1>6 DEF Inductive, TypeOK
<1> HIDE DEF t, T
<1>8. T >= 0
  <2> DEFINE d == TicksPerUnit
             m == T * d
             a == tick - 1
  <2>1. /\ d \in Int /\ d # 0 /\ d \in Nat \ {0} /\ 1 * d = d
        /\ a \in Nat /\ a \in Int /\ T \in Int /\ m \in Int
    BY <1>2, <1>5
  <2>2. Is(Q(T), T, 1)
    BY <1>5, QIs
  <2>3. T < 0 => m < 0
    BY <1>5, <2>1
  <2>4. Is(t, a, d)
    BY <1>3
  <2> HIDE DEF d, a
  <2>5. Is(Q(T), T * d, 1 * d)
    <3>1. 1 \in Int /\ 1 # 0
      OBVIOUS
    <3> QED
      BY <2>1, <2>2, <3>1, Rescale
  <2>6. Is(Q(T), m, d)
    BY <2>1, <2>5
  <2> HIDE DEF m
  <2>7. Leq(t, Q(T)) <=> a <= m
    BY <2>1, <2>4, <2>6, LeqIs
  <2> QED
    BY <1>7, <2>1, <2>3, <2>7
<1>9. t \in Numbers /\ t # NotFinite
  BY <1>3, IsInNumbers
<1> QED
  BY <1>1, <1>5, <1>8, <1>9 DEF t, T

\* A sample leaves the range of its path by a seventh of that range at most, or the
\* duration is zero and it is not a number.
THEOREM SamplesAlwaysNear == Spec => []SamplesNearPath
<1>1. Inductive => SamplesNearPath
  <2> SUFFICES ASSUME Inductive, q # Empty, NEW j \in Joints
               PROVE  LET places == {path[i][j] : i \in DOMAIN path}
                          low == CHOOSE x \in places : \A y \in places : x <= y
                          high == CHOOSE x \in places : \A y \in places : y <= x
                          margin == Frac(high - low, 7)
                      IN  IF request.duration_s = 0 THEN q[j] = NotFinite
                          ELSE Leq(Q(low) (-) margin, q[j]) /\ Leq(q[j], Q(high) (+) margin)
    BY DEF SamplesNearPath
  <2> DEFINE places == {path[i][j] : i \in DOMAIN path}
             low == CHOOSE x \in places : \A y \in places : x <= y
             high == CHOOSE x \in places : \A y \in places : y <= x
             n == Len(path) - 1
             t == Frac(tick - 1, TicksPerUnit)
             T == request.duration_s
  <2>1. /\ n \in Nat \ {0} /\ T \in Nat /\ Fits(trajectory, Joints, n, path, T)
        /\ t \in Numbers /\ t # NotFinite /\ q = Eval(trajectory, t)
    BY SampleTaken
  <2>2. path \in Seq([Joints -> Int]) /\ DOMAIN path = 1 .. n + 1
    BY <2>1 DEF Fits
  <2>3. \A i \in 1 .. n + 1 : path[i][j] \in Int
    BY <2>2
  <2>4. /\ low \in places /\ \A y \in places : low <= y
        /\ high \in places /\ \A y \in places : y <= high
    <3> DEFINE X == [k \in 0 .. n |-> path[k + 1][j]]
    <3>1. \A k \in 0 .. n : k + 1 \in 1 .. n + 1
      BY <2>1
    <3>2. X \in [0 .. n -> Int] /\ n \in Nat
      BY <2>1, <2>3, <3>1
    <3>3. \A i \in 1 .. n + 1 : i - 1 \in 0 .. n /\ (i - 1) + 1 = i
      BY <2>1
    <3>4. places = {X[k] : k \in 0 .. n}
      BY <2>2, <3>1, <3>3
    <3> HIDE DEF X, places, n
    <3>5. /\ \E x \in places : \A y \in places : x <= y
          /\ \E x \in places : \A y \in places : y <= x
      BY <3>2, <3>4, Extremes
    <3> QED
      BY <3>5, Zenon
  <2>5. low \in Int /\ high \in Int
    <3>1. places \subseteq Int
      BY <2>2, <2>3
    <3> HIDE DEF places, low, high
    <3> QED
      BY <2>4, <3>1
  <2>6. InBounds(path, n, j, low, high)
    <3>1. \A i \in 1 .. n + 1 : path[i][j] \in places
      BY <2>2
    <3> HIDE DEF places, low, high
    <3> QED
      BY <2>4, <3>1 DEF InBounds
  <2> HIDE DEF places, low, high, n, t
  <2>7. T = 0 => q[j] = NotFinite
    BY <2>1, EvalNotFinite
  <2>8. T # 0 => /\ Leq(Q(low) (-) Frac(high - low, 7), q[j])
                 /\ Leq(q[j], Q(high) (+) Frac(high - low, 7))
    BY <2>1, <2>5, <2>6, SampleNear
  <2> QED
    BY <2>7, <2>8 DEF places, low, high
<1> QED
  BY <1>1, InductiveInvariant, PTL
=============================================================================
