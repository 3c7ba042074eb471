------------------------ MODULE CollisionSceneProofs ------------------------
(***************************************************************************)
(* CollisionScene's invariants, for any robot, meshes and order in which    *)
(* the broadphase reports.                                                 *)
(***************************************************************************)
EXTENDS CollisionScene, PairIndexProofs, SequenceTheorems

-----------------------------------------------------------------------------
(* The robot.                                                              *)

\* Walking down a tree whose links add delta to their parent gives one value to
\* every link.
LEMMA TreeSum ==
    ASSUME NEW delta \in [NonRoot -> Int]
    PROVE  \E f \in [Links -> Int] :
             /\ f[Base] = 0
             /\ \A l \in NonRoot : f[l] = f[Parent[l]] + delta[l]
<1> DEFINE Closed(S) ==
              /\ <<Base, 0>> \in S
              /\ \A l \in NonRoot, v \in Int :
                   <<Parent[l], v>> \in S => <<l, v + delta[l]>> \in S
           P == Links \X Int
           R == {p \in P : \A S \in SUBSET P : Closed(S) => p \in S}
<1>1. /\ Base \in Links /\ Base \notin NonRoot /\ NonRoot \subseteq Links
      /\ \A l \in Links : l = Base \/ l \in NonRoot
      /\ \A l \in NonRoot : Parent[l] \in Links /\ delta[l] \in Int
  BY RobotAssumption DEF NonRoot
<1>2. Closed(R)
  <2>1. <<Base, 0>> \in R
    BY <1>1
  <2>2. ASSUME NEW l \in NonRoot, NEW v \in Int, <<Parent[l], v>> \in R
        PROVE  <<l, v + delta[l]>> \in R
    <3>1. <<l, v + delta[l]>> \in P
      BY <1>1
    <3>2. ASSUME NEW S \in SUBSET P, Closed(S) PROVE <<l, v + delta[l]>> \in S
      BY <2>2, <3>2
    <3> QED
      BY <3>1, <3>2
  <2> QED
    BY <2>1, <2>2
<1>3. ASSUME NEW S \in SUBSET P, Closed(S) PROVE R \subseteq S
  BY <1>3
<1>4. R \in SUBSET P
  OBVIOUS
<1> HIDE DEF R
<1> DEFINE One(l) == \E v \in Int : <<l, v>> \in R /\ \A w \in Int : <<l, w>> \in R => w = v
<1>5. One(Base)
  <2>1. ASSUME NEW w \in Int, <<Base, w>> \in R, w # 0 PROVE FALSE
    <3> DEFINE S == R \ {<<Base, w>>}
    <3>1. Closed(S)
      BY <1>1, <1>2, <2>1
    <3> QED
      BY <1>3, <1>4, <2>1, <3>1
  <2> QED
    BY <1>2, <2>1
<1>6. ASSUME NEW l \in NonRoot, One(Parent[l]) PROVE One(l)
  <2>1. PICK v \in Int : <<Parent[l], v>> \in R /\ \A w \in Int : <<Parent[l], w>> \in R => w = v
    BY <1>6
  <2>2. v + delta[l] \in Int /\ <<l, v + delta[l]>> \in R
    BY <1>1, <1>2, <2>1
  <2>3. ASSUME NEW w \in Int, <<l, w>> \in R, w # v + delta[l] PROVE FALSE
    <3> DEFINE S == R \ {<<l, w>>}
    <3>1. <<Base, 0>> \in S
      BY <1>1, <1>2
    <3>2. ASSUME NEW m \in NonRoot, NEW u \in Int, <<Parent[m], u>> \in S
          PROVE  <<m, u + delta[m]>> \in S
      <4>1. <<m, u + delta[m]>> \in R
        BY <1>2, <3>2
      <4>2. CASE m = l
        <5>1. u = v
          BY <2>1, <3>2, <4>2
        <5> QED
          BY <2>3, <4>1, <4>2, <5>1
      <4>3. CASE m # l
        BY <4>1, <4>3
      <4> QED
        BY <4>2, <4>3
    <3>3. Closed(S)
      BY <3>1, <3>2
    <3> QED
      BY <1>3, <1>4, <2>3, <3>3
  <2> QED
    BY <2>2, <2>3
<1> HIDE DEF One
<1>7. \A l \in Links : One(l)
  <2> DEFINE Bad == {l \in NonRoot : ~ One(l)}
  <2>1. ASSUME Bad # {} PROVE FALSE
    <3>1. PICK l \in Bad : Parent[l] \notin Bad
      BY <2>1, RobotAssumption
    <3>2. One(Parent[l])
      BY <1>1, <1>5, <3>1
    <3> QED
      BY <1>6, <3>1, <3>2
  <2> QED
    BY <1>1, <1>5, <2>1
<1> DEFINE f == [l \in Links |-> CHOOSE v \in Int : <<l, v>> \in R]
<1>8. ASSUME NEW l \in Links
      PROVE  f[l] \in Int /\ <<l, f[l]>> \in R /\ \A w \in Int : <<l, w>> \in R => w = f[l]
  BY <1>7 DEF One
<1>9. f \in [Links -> Int]
  BY <1>8
<1> HIDE DEF f
<1>10. f[Base] = 0
  <2>1. <<Base, 0>> \in R /\ 0 \in Int /\ Base \in Links
    BY <1>1, <1>2
  <2> QED
    BY <1>8, <2>1, Zenon
<1>11. ASSUME NEW l \in NonRoot PROVE f[l] = f[Parent[l]] + delta[l]
  <2>1. Parent[l] \in Links /\ l \in Links /\ delta[l] \in Int
    BY <1>1
  <2>2. f[Parent[l]] \in Int /\ <<Parent[l], f[Parent[l]]>> \in R
    BY <1>8, <2>1
  <2>3. f[Parent[l]] + delta[l] \in Int /\ <<l, f[Parent[l]] + delta[l]>> \in R
    BY <1>2, <2>1, <2>2
  <2> QED
    BY <1>8, <2>1, <2>3
<1> QED
  BY <1>9, <1>10, <1>11

\* A configuration puts every link somewhere: forward kinematics is defined on the
\* whole tree, and a link is where its parent, its offset and its joint put it
\* (fkLink, robot_model.cpp:80-96).
THEOREM FramesDefined ==
    ASSUME NEW c \in Configurations
    PROVE  /\ Frame(c) \in [Links -> Int]
           /\ Frame(c)[Base] = 0
           /\ \A l \in NonRoot :
                Frame(c)[l] = Frame(c)[Parent[l]] + Offset[l] + (IF l \in Joints THEN c[l] ELSE 0)
<1> DEFINE joint(l) == IF l \in Joints THEN c[l] ELSE 0
           delta == [l \in NonRoot |-> Offset[l] + joint(l)]
           Sum(f) == f = [l \in Links |->
               IF l = Base THEN 0
               ELSE f[Parent[l]] + Offset[l] + (IF l \in Joints THEN c[l] ELSE 0)]
<1>1. \A l \in NonRoot : joint(l) \in Int /\ Offset[l] \in Int /\ Parent[l] \in Links
  <2>1. c \in [Joints -> Positions]
    BY Zenon DEF Configurations
  <2>2. Positions \subseteq Int
    BY SceneAssumption
  <2>3. \A l \in Joints : c[l] \in Int
    BY <2>1, <2>2
  <2>4. \A l \in NonRoot : joint(l) \in Int
    <3>1. 0 \in Int
      OBVIOUS
    <3> QED
      BY <2>3, <3>1, Zenon
  <2> QED
    BY <2>4, RobotAssumption
<1>2. delta \in [NonRoot -> Int]
  <2> HIDE DEF joint
  <2> QED
    BY <1>1
<1>3. /\ Base \in Links /\ Base \notin NonRoot /\ NonRoot \subseteq Links
      /\ \A l \in Links : l = Base \/ l \in NonRoot
  BY RobotAssumption DEF NonRoot
<1>4. PICK f \in [Links -> Int] :
        f[Base] = 0 /\ \A l \in NonRoot : f[l] = f[Parent[l]] + delta[l]
  <2> HIDE DEF delta
  <2> QED
    BY <1>2, TreeSum
<1>5. \A l \in NonRoot : f[l] = f[Parent[l]] + Offset[l] + joint(l)
  <2> HIDE DEF joint
  <2> QED
    BY <1>1, <1>4
<1>6. Sum(f)
  BY <1>3, <1>4, <1>5
<1>7. Frame(c) = CHOOSE g : Sum(g)
  BY Zenon DEF Frame
<1>8. Sum(Frame(c))
  <2> HIDE DEF Sum
  <2> QED
    BY <1>6, <1>7
<1> HIDE DEF joint
<1>9. /\ Frame(c)[Base] = 0
      /\ \A l \in NonRoot : Frame(c)[l] = Frame(c)[Parent[l]] + Offset[l] + joint(l)
  <2> HIDE DEF Frame
  <2> QED
    BY <1>3, <1>8 DEF joint
<1>10. Frame(c) \in [Links -> Int]
  <2> DEFINE g == Frame(c)
             Good == {l \in Links : g[l] \in Int}
             Bad == {l \in NonRoot : g[l] \notin Int}
  <2>1. ASSUME Bad # {} PROVE FALSE
    <3>1. PICK l \in Bad : Parent[l] \notin Bad
      BY <2>1, RobotAssumption
    <3>2. g[Parent[l]] \in Int
      BY <1>1, <1>3, <1>9, <3>1
    <3>3. g[l] \in Int
      BY <1>1, <1>9, <3>1, <3>2
    <3> QED
      BY <3>1, <3>3
  <2>2. \A l \in Links : g[l] \in Int
    BY <1>3, <1>9, <2>1
  <2>3. g = [l \in Links |-> g[l]]
    BY <1>8
  <2> HIDE DEF g
  <2>4. g \in [Links -> Int]
    BY <2>2, <2>3
  <2> QED
    BY <2>4 DEF g
<1> QED
  BY <1>9, <1>10 DEF joint

-----------------------------------------------------------------------------
(* The meshes.                                                             *)

\* What a filtering loop pushes back is of the sequence and of the set, each element
\* at most once if the sequence has none twice.
LEMMA KeptIsSome ==
    ASSUME NEW T, NEW s \in Seq(T), NEW S,
           \A i, j \in 1 .. Len(s) : s[i] = s[j] => i = j
    PROVE  /\ Kept(s, S) \in Seq(T)
           /\ \A i \in 1 .. Len(Kept(s, S)) : Kept(s, S)[i] \in S
           /\ \A i, j \in 1 .. Len(Kept(s, S)) : Kept(s, S)[i] = Kept(s, S)[j] => i = j
<1> DEFINE at == {i \in 1 .. Len(s) : s[i] \in S}
           N == Cardinality(at)
           rank == [i \in at |-> Cardinality({j \in at : j < i})]
           nth(n) == CHOOSE i \in at : Cardinality({j \in at : j < i}) = n - 1
           t == [n \in 1 .. N |-> s[nth(n)]]
<1>1. s \in [1 .. Len(s) -> T] /\ Len(s) \in Nat
  BY LenProperties
<1>2. at \subseteq Nat /\ IsFiniteSet(at) /\ N \in Nat
  <2>1. IsFiniteSet(1 .. Len(s))
    BY <1>1, FS_Interval
  <2>2. at \in SUBSET (1 .. Len(s))
    OBVIOUS
  <2>3. at \subseteq Nat
    BY <1>1
  <2> HIDE DEF at
  <2>4. IsFiniteSet(at)
    BY <2>1, <2>2, FS_Subset, Zenon
  <2> QED
    BY <2>3, <2>4, FS_CardinalityType, Zenon
<1> HIDE DEF at
<1>3. rank \in Bijection(at, 0 .. N - 1)
  BY <1>2, RankOfNumbers
<1>4. \A i \in at : rank[i] = Cardinality({j \in at : j < i})
  OBVIOUS
<1> HIDE DEF rank, N
<1>5. ASSUME NEW n \in 1 .. N PROVE nth(n) \in at /\ rank[nth(n)] = n - 1
  <2>1. n - 1 \in 0 .. N - 1
    BY <1>2
  <2>2. PICK i \in at : rank[i] = n - 1
    BY <1>3, <2>1, Zenon DEF Bijection, Surjection
  <2>3. \E j \in at : Cardinality({l \in at : l < j}) = n - 1
    BY <1>4, <2>2, Zenon
  <2>4. nth(n) \in at /\ Cardinality({l \in at : l < nth(n)}) = n - 1
    BY <2>3, Zenon
  <2> QED
    BY <1>4, <2>4, Zenon
<1> HIDE DEF nth
<1>6. \A n \in 1 .. N : nth(n) \in 1 .. Len(s) /\ s[nth(n)] \in S /\ s[nth(n)] \in T
  BY <1>1, <1>5 DEF at
<1>7. \A n, m \in 1 .. N : nth(n) = nth(m) => n = m
  BY <1>2, <1>5
<1>8. t \in [1 .. N -> T]
  BY <1>6
<1>9. t \in Seq(T) /\ Len(t) = N
  <2> HIDE DEF t
  <2>1. t \in Seq(T)
    BY <1>2, <1>8, SeqDef
  <2>2. Len(t) \in Nat /\ 1 .. Len(t) = 1 .. N
    BY <1>8, <2>1, LenProperties
  <2> QED
    BY <1>2, <2>1, <2>2
<1>10. \A i \in 1 .. N : t[i] \in S
  BY <1>6
<1>11. \A i, j \in 1 .. N : t[i] = t[j] => i = j
  BY <1>6, <1>7
<1>12. Kept(s, S) = t
  BY Zenon DEF Kept, at, nth, N
<1> HIDE DEF t
<1> QED
  BY <1>9, <1>10, <1>11, <1>12
\* The constructor loads links, none twice, however many meshes cannot be read.
LEMMA ObjectsLoaded ==
    ASSUME NEW readable, NEW objects, objects = Kept(Meshes, readable)
    PROVE  /\ objects \in Seq(Links)
           /\ \A i, j \in 1 .. Len(objects) : objects[i] = objects[j] => i = j
<1> DEFINE S == {l \in Links : Geometry[l] = "mesh"}
<1>1. LinksInOrder \in Seq(Links)
  BY RobotAssumption
<1>2. \A i, j \in 1 .. Len(LinksInOrder) : LinksInOrder[i] = LinksInOrder[j] => i = j
  <2>1. DOMAIN LinksInOrder = 1 .. Len(LinksInOrder)
    BY <1>1, LenProperties
  <2> QED
    BY <2>1, RobotAssumption
<1> HIDE DEF S
<1>3. /\ Kept(LinksInOrder, S) \in Seq(Links)
      /\ \A i, j \in 1 .. Len(Kept(LinksInOrder, S)) :
           Kept(LinksInOrder, S)[i] = Kept(LinksInOrder, S)[j] => i = j
  BY <1>1, <1>2, KeptIsSome
<1>4. /\ Meshes \in Seq(Links)
      /\ \A i, j \in 1 .. Len(Meshes) : Meshes[i] = Meshes[j] => i = j
  BY <1>3, Zenon DEF Meshes, S
<1> QED
  BY <1>4, KeptIsSome

-----------------------------------------------------------------------------
(* Contacts.                                                               *)

\* Two places that are the same are no farther apart than boxes overlap.
LEMMA TouchingBoxesOverlap ==
    ASSUME NEW x \in Int, NEW y \in Int, Touch(x, y)
    PROVE  BoxesOverlap(x, y)
BY SceneAssumption DEF Touch, BoxesOverlap, Distance

\* The two links of a pair of positions.
LEMMA PairOfLinks ==
    ASSUME TypeOK, ObjectsOK, NEW p \in UpperPairs(Len(link_objects))
    PROVE  /\ link_objects[p[1] + 1] \in Loaded /\ link_objects[p[2] + 1] \in Loaded
           /\ link_objects[p[1] + 1] # link_objects[p[2] + 1]
           /\ Loaded \subseteq Links
<1> DEFINE n == Len(link_objects)
<1>1. link_objects \in [1 .. n -> Links] /\ n \in Nat
  BY LenProperties DEF TypeOK
<1>2. p[1] + 1 \in 1 .. n /\ p[2] + 1 \in 1 .. n /\ p[1] + 1 # p[2] + 1
  <2>1. p[1] \in 0 .. n - 1 /\ p[2] \in 0 .. n - 1 /\ p[1] < p[2]
    BY DEF UpperPairs
  <2> HIDE DEF n
  <2> QED
    BY <1>1, <2>1
<1>3. Loaded = {link_objects[i] : i \in 1 .. n}
  BY <1>1 DEF Loaded
<1> QED
  BY <1>1, <1>2, <1>3 DEF ObjectsOK

\* A link that is not misplaced is where the robot has it.
LEMMA PlacedRight ==
    ASSUME PlacedOK, Configured, NEW l \in Loaded, ~ Misplaced(l)
    PROVE  tf[l] = Stands(l)
<1>1. tf[l] = PlacedAt(l)
  BY DEF PlacedOK
<1>2. FkLinkFinds(l) \/ Stands(l) = 0
  BY DEF Misplaced
<1> QED
  BY <1>1, <1>2 DEF PlacedAt

\* A contact of two positions is a contact of two links, if they are where the
\* robot has them.
LEMMA ContactOfLinks ==
    ASSUME TypeOK, ObjectsOK, PlacedOK, Configured, Contacts # {},
           \A l \in Loaded : ~ Misplaced(l)
    PROVE  \E a, b \in Loaded : InContact(a, b)
<1>1. PICK p \in UpperPairs(Len(link_objects)) : IsContact(p)
  BY DEF Contacts
<1> DEFINE a == link_objects[p[1] + 1]
           b == link_objects[p[2] + 1]
<1>2. a \in Loaded /\ b \in Loaded /\ a # b
  BY PairOfLinks
<1>3. tf[a] = Stands(a) /\ tf[b] = Stands(b)
  BY <1>2, PlacedRight
<1>4. ~ Adjacent(a, b) /\ Touch(tf[a], tf[b])
  BY <1>1 DEF IsContact
<1> HIDE DEF a, b
<1> QED
  BY <1>2, <1>3, <1>4 DEF InContact

\* And the other way round, in one order or the other.
LEMMA LinksInContact ==
    ASSUME TypeOK, PlacedOK, Configured,
           NEW a \in Loaded, NEW b \in Loaded, InContact(a, b),
           ~ Misplaced(a), ~ Misplaced(b)
    PROVE  Contacts # {}
<1> DEFINE n == Len(link_objects)
<1>1. link_objects \in [1 .. n -> Links] /\ n \in Nat
  BY LenProperties DEF TypeOK
<1>2. PICK i \in 1 .. n, j \in 1 .. n : a = link_objects[i] /\ b = link_objects[j]
  BY <1>1 DEF Loaded
<1>3. i # j /\ ~ Adjacent(a, b) /\ ~ Adjacent(b, a) /\ Touch(tf[a], tf[b]) /\ Touch(tf[b], tf[a])
  <2>1. tf[a] = Stands(a) /\ tf[b] = Stands(b)
    BY PlacedRight
  <2> QED
    BY <1>2, <2>1 DEF InContact, Adjacent, Touch
<1>4. CASE i < j
  <2> DEFINE p == <<i - 1, j - 1>>
  <2>1. p \in UpperPairs(n) /\ p[1] + 1 = i /\ p[2] + 1 = j
    <3> HIDE DEF n
    <3> QED
      BY <1>1, <1>4 DEF UpperPairs
  <2> HIDE DEF p
  <2>2. IsContact(p)
    BY <1>2, <1>3, <2>1 DEF IsContact
  <2> QED
    BY <2>1, <2>2 DEF Contacts
<1>5. CASE j < i
  <2> DEFINE p == <<j - 1, i - 1>>
  <2>1. p \in UpperPairs(n) /\ p[1] + 1 = j /\ p[2] + 1 = i
    <3> HIDE DEF n
    <3> QED
      BY <1>1, <1>5 DEF UpperPairs
  <2> HIDE DEF p
  <2>2. IsContact(p)
    BY <1>2, <1>3, <2>1 DEF IsContact
  <2> QED
    BY <2>1, <2>2 DEF Contacts
<1> QED
  BY <1>1, <1>3, <1>4, <1>5

\* The broadphase reports pairs of objects, and all the contacts unless it counts
\* the pairs in two ways.
LEMMA BroadphaseReports ==
    ASSUME Inductive, pc = "updated", Broadphase
    PROVE  /\ todo' \subseteq UpperPairs(Len(link_objects))
           /\ Configured /\ Covered => Contacts \subseteq todo'
<1> DEFINE n == Len(link_objects)
<1>1. n \in Nat /\ TypeOK /\ ObjectsOK /\ PlacedOK
  BY LenProperties DEF Inductive, TypeOK
<1>2. ASSUME Configured, NEW p \in Contacts
      PROVE  PairOverlaps(aabb, p) /\ (mode = "CPU" => PairOverlaps(tree, p))
  <2> DEFINE a == link_objects[p[1] + 1]
             b == link_objects[p[2] + 1]
  <2>1. p \in UpperPairs(n) /\ IsContact(p)
    BY DEF Contacts
  <2>2. a \in Loaded /\ b \in Loaded /\ Loaded \subseteq Links
    BY <1>1, <2>1, PairOfLinks
  <2>3. Touch(tf[a], tf[b])
    BY <2>1 DEF IsContact
  <2> HIDE DEF a, b
  <2>4. /\ aabb[a] = tf[a] /\ aabb[b] = tf[b] /\ tf[a] \in Int /\ tf[b] \in Int
        /\ mode = "CPU" => tree[a] = tf[a] /\ tree[b] = tf[b]
    BY <1>1, <1>2, <2>2 DEF PlacedOK, TypeOK
  <2>5. BoxesOverlap(tf[a], tf[b])
    BY <2>3, <2>4, TouchingBoxesOverlap
  <2> QED
    BY <2>4, <2>5 DEF PairOverlaps, a, b
<1>3. CASE mode = "CPU"
  <2>1. todo' = TreePairs
    BY <1>3 DEF Broadphase
  <2>2. \A p \in Contacts : p \in UpperPairs(n)
    BY DEF Contacts
  <2> QED
    BY <1>2, <1>3, <2>1, <2>2 DEF TreePairs
<1>4. CASE mode # "CPU"
  <2>1. PICK hits \in SUBSET ((0 .. NumPairs(n) - 1) \ InBounds) : todo' = KernelHits(hits)
    BY <1>4 DEF Broadphase
  <2>2. \A i \in 0 .. NumPairs(n) - 1 : HostPair(n, i) \in UpperPairs(n)
    <3> DEFINE host == [i \in 0 .. NumPairs(n) - 1 |-> HostPair(n, i)]
    <3>1. host \in Bijection(0 .. NumPairs(n) - 1, UpperPairs(n))
      BY <1>1, HostVisitsEveryPair
    <3>2. host \in [0 .. NumPairs(n) - 1 -> UpperPairs(n)]
      <4> HIDE DEF host, n
      <4> QED
        BY <3>1 DEF Bijection, Injection
    <3> HIDE DEF n
    <3> QED
      BY <3>2
  <2>3. todo' \subseteq UpperPairs(n)
    <3>1. InBounds \subseteq 0 .. NumPairs(n) - 1
      BY DEF InBounds
    <3> HIDE DEF n
    <3> QED
      BY <2>1, <2>2, <3>1 DEF KernelHits, n
  <2>4. ASSUME Configured, n = 2, NEW p \in Contacts PROVE p \in todo'
    <3>1. /\ NumPairs(2) = 1
          /\ \A r \in UpperPairs(2) : r = <<0, 1>>
      BY DEF NumPairs, UpperPairs
    <3>2. p = <<0, 1>>
      BY <2>4, <3>1 DEF Contacts
    <3>3. 0 \in 0 .. NumPairs(n) - 1
      BY <2>4, <3>1
    <3>4. HostPair(n, 0) = <<0, 1>>
      BY <2>2, <2>4, <3>1, <3>3
    <3>5. KernelPair(0) = <<0, 1>>
      <4>1. KernelRow(0) = 0 /\ Triangle(0) = 0
        BY RowOfItem, TriangleRows
      <4> QED
        BY <4>1 DEF KernelPair
    <3>6. 0 \in InBounds
      BY <2>4, <3>3, <3>5 DEF InBounds
    <3>7. PairOverlaps(aabb, KernelPair(0))
      BY <1>2, <2>4, <3>2, <3>5
    <3> HIDE DEF n, PairOverlaps
    <3> QED
      BY <2>1, <3>2, <3>4, <3>6, <3>7 DEF KernelHits, n
  <2> QED
    BY <1>4, <2>3, <2>4 DEF Covered
<1> QED
  BY <1>3, <1>4
-----------------------------------------------------------------------------
(* The invariant.                                                          *)

\* Before the scene is constructed there is nothing to check (collision_scene.cpp:73).
LEMMA InitInductive == Init => Inductive
<1> SUFFICES ASSUME Init PROVE Inductive
  OBVIOUS
<1> USE DEF Init
<1>1. ~ Configured
  BY DEF Configured
<1>2. link_objects \in Seq(Links) /\ Len(link_objects) = 0
  BY EmptySeq
<1>3. TypeOK
  <2>1. tf \in [Links -> Int] /\ aabb \in [Links -> Int] /\ tree \in [Links -> Int]
    OBVIOUS
  <2>2. DOMAIN stats = {"update", "collide"}
    OBVIOUS
  <2>3. /\ mode \in {"CPU", "GPU"}
        /\ pc \in {"construct", "thrown", "ready", "updated", "collide"}
        /\ collided \in BOOLEAN /\ answer \in BOOLEAN
        /\ todo = {}
    OBVIOUS
  <2> QED
    BY <1>1, <1>2, <2>1, <2>2, <2>3 DEF TypeOK
<1>4. ObjectsOK
  BY <1>1, <1>2 DEF ObjectsOK
<1>5. PlacedOK
  BY <1>1, RobotAssumption DEF PlacedOK
<1>6. SearchOK /\ AnswerOK
  BY <1>1 DEF SearchOK, AnswerOK
<1> QED
  BY <1>3, <1>4, <1>5, <1>6 DEF Inductive

\* The constructor makes an object of every mesh that can be read, and none twice; with
\* a single object the GPU manager's set-up throws (collision_scene.cpp:73-112).
LEMMA ConstructKeeps ==
    ASSUME Inductive, Construct
    PROVE  Inductive'
<1>1. PICK readable : link_objects' = Kept(Meshes, readable)
  BY DEF Construct
<1>2. /\ pc = "construct" /\ pc' \in {"thrown", "ready"}
      /\ UNCHANGED <<mode, tf, aabb, tree, q, todo, collided, answer, stats>>
  BY DEF Construct, boxes
<1>3. ~ Configured /\ ~ Configured' /\ todo' = {}
  BY <1>2 DEF Inductive, ObjectsOK, Configured
<1>4. /\ link_objects' \in Seq(Links)
      /\ \A i, j \in 1 .. Len(link_objects') : link_objects'[i] = link_objects'[j] => i = j
  BY <1>1, ObjectsLoaded
<1>5. ObjectsOK'
  BY <1>3, <1>4 DEF ObjectsOK
<1>6. PlacedOK' /\ SearchOK' /\ AnswerOK'
  BY <1>2, <1>3 DEF Inductive, PlacedOK, SearchOK, AnswerOK
<1>7. TypeOK'
  <2>1. todo = {}
    BY <1>2 DEF Inductive, ObjectsOK
  <2> QED
    BY <1>2, <1>3, <1>4, <2>1 DEF Inductive, TypeOK
<1> QED
  BY <1>5, <1>6, <1>7 DEF Inductive

\* A configuration of another size is no configuration: the answer is false, and the
\* objects stay where they are (collision_scene.cpp:136-141).
LEMMA CheckWrongSizeKeeps ==
    ASSUME Inductive, CheckWrongSize
    PROVE  Inductive'
<1>1. /\ pc = "ready" /\ ~ Configured' /\ answer' = FALSE
      /\ UNCHANGED <<mode, link_objects, tf, aabb, tree, pc, todo, collided, stats>>
  BY DEF CheckWrongSize, scene, boxes, Configured
<1>2. TypeOK'
  BY <1>1 DEF Inductive, TypeOK
<1>3. ObjectsOK' /\ SearchOK' /\ AnswerOK'
  BY <1>1 DEF Inductive, ObjectsOK, SearchOK, AnswerOK
<1>4. PlacedOK'
  BY <1>1 DEF Inductive, PlacedOK
<1> QED
  BY <1>2, <1>3, <1>4 DEF Inductive

\* Check puts every object, its box and the tree's copy of the box where the
\* configuration says (collision_scene.cpp:143-147, 232-245).
LEMMA CheckKeeps ==
    ASSUME Inductive, NEW c \in Configurations, Check(c)
    PROVE  Inductive'
<1>1. /\ pc = "ready" /\ pc' = "updated" /\ q' = c /\ tf' = Placed(c)
      /\ aabb' = [l \in Links |-> IF l \in Loaded /\ FkLinkFinds(l) THEN tf'[l] ELSE aabb[l]]
      /\ tree' = IF mode = "CPU" THEN aabb' ELSE tree
      /\ UNCHANGED <<mode, link_objects, todo, collided, answer, stats>>
  BY DEF Check, scene
<1>2. /\ Frame(c) \in [Links -> Int] /\ MeshOffset \in [Links -> Int]
      /\ tf \in [Links -> Int] /\ aabb \in [Links -> Int] /\ tree \in [Links -> Int]
  BY FramesDefined, RobotAssumption DEF Inductive, TypeOK
<1>3. Placed(c) \in [Links -> Int]
  BY <1>2 DEF Placed
<1>4. TypeOK'
  <2>1. tf' \in [Links -> Int] /\ aabb' \in [Links -> Int] /\ tree' \in [Links -> Int]
    BY <1>1, <1>2, <1>3
  <2> QED
    BY <1>1, <2>1 DEF Inductive, TypeOK
<1>5. ObjectsOK' /\ SearchOK' /\ AnswerOK'
  BY <1>1 DEF Inductive, ObjectsOK, SearchOK, AnswerOK
<1>6. PlacedOK'
  <2>1. Loaded' = Loaded /\ Loaded \subseteq Links
    <3>1. link_objects \in [1 .. Len(link_objects) -> Links]
      BY LenProperties DEF Inductive, TypeOK
    <3> QED
      BY <1>1, <3>1 DEF Loaded
  <2>2. ASSUME NEW l \in Links \ Chain PROVE tf'[l] = 0 /\ aabb'[l] = 0
    <3>1. ~ FkLinkFinds(l) /\ tf[l] = 0 /\ aabb[l] = 0
      BY DEF FkLinkFinds, Inductive, PlacedOK
    <3> QED
      BY <1>1, <3>1 DEF Placed
  <2>3. ASSUME NEW l \in Loaded
        PROVE  /\ tf'[l] = PlacedAt(l)' /\ aabb'[l] = tf'[l]
               /\ mode = "CPU" => tree'[l] = aabb'[l]
    <3>1. CASE FkLinkFinds(l)
      BY <1>1, <2>1, <3>1 DEF Placed, PlacedAt, Stands
    <3>2. CASE ~ FkLinkFinds(l)
      <4>1. tf'[l] = 0 /\ aabb'[l] = 0
        BY <2>1, <2>2, <3>2 DEF FkLinkFinds
      <4> QED
        BY <1>1, <3>2, <4>1 DEF PlacedAt
    <3> QED
      BY <3>1, <3>2
  <2> QED
    BY <1>1, <2>1, <2>2, <2>3 DEF PlacedOK
<1> QED
  BY <1>4, <1>5, <1>6 DEF Inductive

\* While a check searches, the objects stand still.
LEMMA SearchingKeeps ==
    ASSUME Inductive, UNCHANGED <<mode, link_objects, tf, aabb, tree, q>>,
           pc \notin {"construct", "thrown"}, pc' \notin {"construct", "thrown"}
    PROVE  /\ ObjectsOK' /\ PlacedOK'
           /\ Contacts' = Contacts /\ Covered' = Covered /\ Configured' = Configured
<1>1. Configured' = Configured /\ Covered' = Covered /\ Loaded' = Loaded
  BY DEF Configured, Covered, Loaded
<1>2. \A p : IsContact(p)' = IsContact(p)
  BY DEF IsContact
<1>3. Contacts' = Contacts
  <2> HIDE DEF IsContact
  <2> QED
    BY <1>2 DEF Contacts
<1>4. ObjectsOK'
  BY DEF Inductive, ObjectsOK
<1>5. PlacedOK'
  BY <1>1 DEF Inductive, PlacedOK, PlacedAt, Stands
<1> QED
  BY <1>1, <1>3, <1>4, <1>5

\* The broadphase leaves every pair that touches to the callback, on the GPU for two
\* objects (collision_scene.cpp:247-259).
LEMMA BroadphaseKeeps ==
    ASSUME Inductive, Broadphase
    PROVE  Inductive'
<1>1. /\ pc = "updated" /\ pc' = "collide" /\ collided' = FALSE
      /\ UNCHANGED <<mode, link_objects, tf, aabb, tree, q, answer, stats>>
  BY DEF Broadphase, scene, boxes
<1>2. /\ todo' \subseteq UpperPairs(Len(link_objects))
      /\ Configured /\ Covered => Contacts \subseteq todo'
  BY <1>1, BroadphaseReports
<1>3. /\ ObjectsOK' /\ PlacedOK'
      /\ Contacts' = Contacts /\ Covered' = Covered /\ Configured' = Configured
  BY <1>1, SearchingKeeps
<1>4. TypeOK'
  BY <1>1, <1>2 DEF Inductive, TypeOK, Configured
<1>5. SearchOK' /\ AnswerOK'
  BY <1>1, <1>2, <1>3 DEF SearchOK, AnswerOK
<1> QED
  BY <1>3, <1>4, <1>5 DEF Inductive

\* A pair that is taken off the search was no contact, or the search has its answer
\* (collision_scene.cpp:42-69).
LEMMA NarrowPhaseKeeps ==
    ASSUME Inductive, NEW p \in todo, NarrowPhase(p)
    PROVE  Inductive'
<1>1. /\ pc = "collide" /\ pc' = "collide"
      /\ collided' = (collided \/ IsContact(p))
      /\ todo' = IF IsContact(p) THEN {} ELSE todo \ {p}
      /\ UNCHANGED <<mode, link_objects, tf, aabb, tree, q, answer, stats>>
  BY DEF NarrowPhase, scene, boxes
<1>2. /\ ObjectsOK' /\ PlacedOK'
      /\ Contacts' = Contacts /\ Covered' = Covered /\ Configured' = Configured
  BY <1>1, SearchingKeeps
<1>3. todo' \subseteq todo /\ collided' \in BOOLEAN
  BY <1>1 DEF Inductive, TypeOK
<1>4. TypeOK'
  BY <1>1, <1>3 DEF Inductive, TypeOK, Configured
<1>5. p \in UpperPairs(Len(link_objects))
  BY DEF Inductive, TypeOK
<1>6. SearchOK'
  <2>1. CASE IsContact(p)
    <3>1. p \in Contacts /\ collided'
      BY <1>1, <1>5, <2>1 DEF Contacts
    <3> QED
      BY <1>2, <3>1 DEF SearchOK
  <2>2. CASE ~ IsContact(p)
    <3>1. p \notin Contacts /\ collided' = collided /\ todo' = todo \ {p}
      BY <1>1, <2>2, Zenon DEF Contacts, Inductive, TypeOK
    <3> QED
      BY <1>1, <1>2, <3>1 DEF Inductive, SearchOK
  <2> QED
    BY <2>1, <2>2
<1>7. AnswerOK'
  BY <1>1 DEF AnswerOK
<1> QED
  BY <1>2, <1>4, <1>6, <1>7 DEF Inductive

\* The answer is given for the configuration that the objects still have
\* (collision_scene.cpp:148-158).
LEMMA ReturnKeeps ==
    ASSUME Inductive, Return
    PROVE  Inductive'
<1>1. /\ pc = "collide" /\ pc' = "ready" /\ todo = {} /\ answer' = ~ collided
      /\ DOMAIN stats' = {"update", "collide"}
      /\ UNCHANGED <<mode, link_objects, tf, aabb, tree, q, todo, collided>>
  BY DEF Return, scene, boxes
<1>2. /\ ObjectsOK' /\ PlacedOK'
      /\ Contacts' = Contacts /\ Covered' = Covered /\ Configured' = Configured
  BY <1>1, SearchingKeeps
<1>3. TypeOK'
  <2>1. answer' \in BOOLEAN
    BY <1>1, Zenon
  <2> QED
    BY <1>1, <2>1 DEF Inductive, TypeOK, Configured
<1>4. SearchOK'
  BY <1>1 DEF SearchOK
<1>5. AnswerOK'
  BY <1>1, <1>2 DEF Inductive, SearchOK, AnswerOK
<1> QED
  BY <1>2, <1>3, <1>4, <1>5 DEF Inductive

\* One step per action of the scene.
LEMMA NextInductive == Inductive /\ [Next]_vars => Inductive'
<1> SUFFICES ASSUME Inductive, [Next]_vars PROVE Inductive'
  OBVIOUS
<1>1. CASE Construct
  BY <1>1, ConstructKeeps
<1>2. CASE CheckWrongSize
  BY <1>2, CheckWrongSizeKeeps
<1>3. ASSUME NEW c \in Configurations, Check(c) PROVE Inductive'
  BY <1>3, CheckKeeps
<1>4. CASE Broadphase
  BY <1>4, BroadphaseKeeps
<1>5. ASSUME NEW p \in todo, NarrowPhase(p) PROVE Inductive'
  BY <1>5, NarrowPhaseKeeps
<1>6. CASE Return
  BY <1>6, ReturnKeeps
<1>7. CASE UNCHANGED vars
  <2>1. UNCHANGED <<mode, link_objects, tf, aabb, tree, pc, q, todo, collided, answer, stats>>
    BY <1>7 DEF vars, scene, boxes
  <2>2. Contacts' = Contacts /\ Covered' = Covered /\ Configured' = Configured /\ Loaded' = Loaded
    BY <2>1 DEF Contacts, IsContact, Covered, Configured, Loaded
  <2>3. TypeOK'
    BY <2>1, <2>2 DEF Inductive, TypeOK
  <2>4. ObjectsOK' /\ SearchOK' /\ AnswerOK'
    BY <2>1, <2>2 DEF Inductive, ObjectsOK, SearchOK, AnswerOK
  <2>5. PlacedOK'
    BY <2>1, <2>2 DEF Inductive, PlacedOK, PlacedAt, Stands
  <2> QED
    BY <2>3, <2>4, <2>5 DEF Inductive
<1> QED
  BY <1>1, <1>2, <1>3, <1>4, <1>5, <1>6, <1>7 DEF Next

\* What ties the boxes, the search and the answer to the configuration holds through
\* every sequence of checks.
THEOREM InductiveAlways == Spec => []Inductive
<1>1. Init => Inductive
  BY InitInductive
<1>2. Inductive /\ [Next]_vars => Inductive'
  BY NextInductive
<1> QED
  BY <1>1, <1>2, PTL DEF Spec

\* The variables keep their types: every link has a place on the line, and only
\* pairs of objects wait.
THEOREM TypeCorrect == Spec => []TypeOK
<1>1. Inductive => TypeOK
  BY DEF Inductive
<1> QED
  BY <1>1, InductiveAlways, PTL

\* isCollisionFree calls a configuration free only when no two links that are not
\* adjacent touch where the robot has them, unless one has no segment and is not
\* where its object was created (collision_scene.cpp:130-156, 236-238).
THEOREM FreeIsFree == Spec => []FreeMeansFree
<1>1. Inductive => FreeMeansFree
  <2> SUFFICES ASSUME Inductive, pc = "ready", Configured, answer, Covered,
                      NEW a \in Loaded, NEW b \in Loaded, InContact(a, b),
                      ~ Misplaced(a), ~ Misplaced(b)
               PROVE  FALSE
    BY DEF FreeMeansFree, Covered
  <2>1. Contacts = {}
    BY DEF Inductive, AnswerOK
  <2> QED
    BY <2>1, LinksInContact DEF Inductive
<1> QED
  BY <1>1, InductiveAlways, PTL

\* And collided only when two of them do, with the same exception
\* (collision_scene.cpp:42-60, 236-238).
THEOREM CollidedIsContact == Spec => []CollidedMeansContact
<1>1. Inductive => CollidedMeansContact
  <2> SUFFICES ASSUME Inductive, pc = "ready", Configured, ~ answer,
                      \A l \in Loaded : ~ Misplaced(l)
               PROVE  \E a, b \in Loaded : InContact(a, b)
    BY DEF CollidedMeansContact
  <2>1. Contacts # {}
    BY DEF Inductive, AnswerOK
  <2> QED
    BY <2>1, ContactOfLinks DEF Inductive
<1> QED
  BY <1>1, InductiveAlways, PTL
=============================================================================
