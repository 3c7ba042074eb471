--------------------- MODULE GPUCollisionManagerProofs ----------------------
(***************************************************************************)
(* GPUCollisionManager's invariants, for any objects, boxes, managers to    *)
(* compare with and depth of the queue.                                    *)
(***************************************************************************)
EXTENDS GPUCollisionManager, PairIndexProofs, SequenceTheorems

-----------------------------------------------------------------------------
(* What the numberings mean for a query.                                   *)

Asked == Objects \cup Visitors

\* A query has some number of work items.
LEMMA ItemsCounted ==
    ASSUME QueryOK
    PROVE  Items \in Nat /\ Len(query.rows) \in Nat /\ Len(query.cols) \in Nat
<1>1. Len(query.rows) \in Nat /\ Len(query.cols) \in Nat
  BY DEF QueryOK
<1>2. Len(query.rows) * Len(query.cols) \in Nat
  <2>1. \A a, b \in Nat : a * b \in Nat
    OBVIOUS
  <2> QED
    BY <1>1, <2>1, Zenon
<1>3. NumPairs(Len(query.rows)) \in Nat
  BY <1>1, PairsCounted
<1> QED
  BY <1>1, <1>2, <1>3 DEF Items

\* The host takes a result to be of a pair the query is about.
LEMMA HostReadsPairs ==
    ASSUME QueryOK, NEW i \in 0 .. Items - 1
    PROVE  /\ HostReads(i) \in PairsAsked
           /\ HostReads(i) \in (0 .. Len(query.rows) - 1) \X (0 .. Len(query.cols) - 1)
<1> DEFINE n == Len(query.rows)
           m == Len(query.cols)
<1>1. n \in Nat /\ m \in Nat
  BY ItemsCounted
<1>2. CASE query.shape = "self"
  <2>1. HostReads(i) = HostPair(n, i) /\ i \in 0 .. NumPairs(n) - 1 /\ n = m
    BY <1>2 DEF HostReads, Items, QueryOK
  <2> DEFINE host == [j \in 0 .. NumPairs(n) - 1 |-> HostPair(n, j)]
  <2>2. host \in [0 .. NumPairs(n) - 1 -> UpperPairs(n)]
    <3>1. host \in Bijection(0 .. NumPairs(n) - 1, UpperPairs(n))
      BY <1>1, HostVisitsEveryPair
    <3> HIDE DEF host, n
    <3> QED
      BY <3>1 DEF Bijection, Injection
  <2>3. HostPair(n, i) \in UpperPairs(n)
    BY <2>1, <2>2
  <2> QED
    BY <1>2, <2>1, <2>3 DEF PairsAsked, UpperPairs
<1>3. CASE query.shape # "self"
  <2>1. i \in 0 .. n * m - 1
    BY <1>3 DEF Items
  <2>2. \E p \in (0 .. n - 1) \X (0 .. m - 1) : CrossIndex(m, p[1], p[2]) = i
    <3> HIDE DEF n, m
    <3> QED
      BY <1>1, <2>1, GridNumbered
  <2>3. HostReads(i) \in (0 .. n - 1) \X (0 .. m - 1)
    BY <1>3, <2>2 DEF HostReads
  <2> QED
    BY <1>3, <2>3 DEF PairsAsked
<1> QED
  BY <1>2, <1>3

\* A work item's positions are numbers.
LEMMA ItemPairs ==
    ASSUME QueryOK, NEW i \in 0 .. Items - 1
    PROVE  ItemPair(i) \in Nat \X Nat
<1> DEFINE n == Len(query.rows)
           m == Len(query.cols)
<1>1. n \in Nat /\ m \in Nat /\ i \in Nat
  BY ItemsCounted
<1>2. CASE query.shape = "self"
  BY <1>1, <1>2, ShapeOfPair DEF ItemPair
<1>3. CASE query.shape # "self"
  <2>1. i \in 0 .. n * m - 1
    BY <1>3 DEF Items
  <2>2. CrossPair(m, i) \in (0 .. n - 1) \X (0 .. m - 1)
    <3> HIDE DEF n, m
    <3> QED
      BY <1>1, <2>1, GridNumbered
  <2> QED
    BY <1>3, <2>2 DEF ItemPair
<1> QED
  BY <1>2, <1>3

\* A query against others, and a self query of at most two objects, compares the
\* pair the host takes it to have compared, and leaves out none.
LEMMA IndexedRightAgrees ==
    ASSUME QueryOK, IndexedRight
    PROVE  /\ \A i \in 0 .. Items - 1 : ItemPair(i) = HostReads(i) /\ i \notin Strays
           /\ \A p \in PairsAsked : \E i \in 0 .. Items - 1 : HostReads(i) = p
<1> DEFINE n == Len(query.rows)
           m == Len(query.cols)
<1>1. n \in Nat /\ m \in Nat
  BY ItemsCounted
<1>2. ASSUME NEW i \in 0 .. Items - 1, ItemPair(i) = HostReads(i)
      PROVE  i \notin Strays
  BY <1>1, <1>2, HostReadsPairs DEF Strays
<1>3. CASE query.shape = "self"
  <2>1. n \in 0 .. 2 /\ n = m /\ Items = NumPairs(n)
    <3>1. n \in 0 .. 2
      <4>1. n <= 2
        BY <1>3, Zenon DEF IndexedRight
      <4> HIDE DEF n
      <4> QED
        BY <1>1, <4>1
    <3>2. n = m
      BY <1>3 DEF QueryOK
    <3>3. Items = NumPairs(n)
      BY <1>3 DEF Items
    <3> QED
      BY <3>1, <3>2, <3>3
  <2>2. /\ NumPairs(0) = 0 /\ NumPairs(1) = 0 /\ NumPairs(2) = 1
        /\ UpperPairs(0) = {} /\ UpperPairs(1) = {}
        /\ \A p \in UpperPairs(2) : p = <<0, 1>>
    BY DEF NumPairs, UpperPairs
  <2>3. CASE n # 2
    BY <1>3, <2>1, <2>2, <2>3 DEF PairsAsked
  <2>4. CASE n = 2
    <3>1. Items = 1 /\ 0 \in 0 .. Items - 1
      BY <2>1, <2>2, <2>4
    <3>2. HostReads(0) \in PairsAsked /\ PairsAsked = UpperPairs(2)
      BY <1>3, <2>4, <3>1, HostReadsPairs DEF PairsAsked
    <3>3. ItemPair(0) = <<0, 1>>
      <4>1. KernelRow(0) = 0 /\ Triangle(0) = 0
        BY RowOfItem, TriangleRows
      <4> QED
        BY <1>3, <4>1 DEF ItemPair, KernelPair
    <3> QED
      BY <1>2, <2>2, <3>1, <3>2, <3>3
  <2> QED
    BY <2>3, <2>4
<1>4. CASE query.shape # "self"
  <2> DEFINE Grid == (0 .. n - 1) \X (0 .. m - 1)
  <2>1. Items = n * m /\ PairsAsked = Grid
    BY <1>4 DEF Items, PairsAsked
  <2>2. ASSUME NEW p \in Grid
        PROVE  /\ CrossIndex(m, p[1], p[2]) \in 0 .. Items - 1
               /\ CrossPair(m, CrossIndex(m, p[1], p[2])) = p
    <3>1. p = <<p[1], p[2]>> /\ p[1] \in 0 .. n - 1 /\ p[2] \in 0 .. m - 1
      OBVIOUS
    <3> HIDE DEF n, m
    <3> QED
      BY <1>1, <2>1, <3>1, GridNumberedOnce
  <2>3. ASSUME NEW i \in 0 .. Items - 1
        PROVE  /\ HostReads(i) \in Grid
               /\ CrossIndex(m, HostReads(i)[1], HostReads(i)[2]) = i
    <3>1. \E p \in Grid : CrossIndex(m, p[1], p[2]) = i
      <4> HIDE DEF n, m
      <4> QED
        BY <1>1, <2>1, GridNumbered
    <3> QED
      BY <1>4, <3>1 DEF HostReads
  <2>4. ASSUME NEW i \in 0 .. Items - 1 PROVE ItemPair(i) = HostReads(i)
    <3> HIDE DEF Grid, n
    <3> QED
      BY <1>4, <2>2, <2>3 DEF ItemPair
  <2>5. ASSUME NEW p \in Grid
        PROVE  HostReads(CrossIndex(m, p[1], p[2])) = p
    <3> DEFINE i == CrossIndex(m, p[1], p[2])
    <3>1. i \in 0 .. Items - 1
      BY <2>2
    <3> HIDE DEF i, Grid, n, m
    <3> QED
      BY <2>2, <2>3, <3>1 DEF i
  <2> HIDE DEF Grid
  <2> QED
    BY <1>2, <2>1, <2>2, <2>4, <2>5
<1> QED
  BY <1>3, <1>4
-----------------------------------------------------------------------------
(* The steps between queries.                                              *)

\* Nothing between two queries touches the queue or the results.
LEMMA BetweenKeeps ==
    ASSUME Inductive, BetweenQueries
    PROVE  QueryOK' /\ QueueOK' /\ UploadOK' /\ ResultsOK' /\ CallsOK'
<1> USE DEF BetweenQueries, transfer, answer
<1>1. query = NoQuery /\ query' = NoQuery /\ pc' = "idle" /\ NoQuery.op = "none" /\ NoQuery.shape = "none"
  BY DEF Inductive, QueryOK, NoQuery
<1>2. QueryOK'
  BY <1>1 DEF Inductive, QueryOK
<1>3. QueueOK'
  BY <1>1 DEF Inductive, QueueOK, Queued
<1>4. UploadOK'
  BY <1>1 DEF UploadOK
<1>5. ResultsOK'
  BY <1>1 DEF Inductive, ResultsOK
<1>6. CallsOK'
  BY <1>1 DEF CallsOK
<1> QED
  BY <1>2, <1>3, <1>4, <1>5, <1>6

\* The part of the types that such a step leaves alone.
LEMMA BetweenTypes ==
    ASSUME Inductive, BetweenQueries, unified' = unified,
           objects' \in Seq(Objects), capacity' \in 0 .. Cardinality(Objects),
           setUp' \in BOOLEAN, place' \in [Objects \cup Visitors -> Places]
    PROVE  TypeOK'
BY DEF Inductive, TypeOK, BetweenQueries, transfer, answer, Items

\* No more objects are registered than there are.
LEMMA RegistryFits ==
    ASSUME TypeOK, RegistryOK
    PROVE  Len(objects) \in 0 .. Cardinality(Objects) /\ objects \in [1 .. Len(objects) -> Objects]
<1>1. objects \in [1 .. Len(objects) -> Objects] /\ Len(objects) \in Nat
  BY LenProperties DEF TypeOK
<1>2. objects \in Injection(1 .. Len(objects), Objects)
  BY <1>1, Zenon DEF RegistryOK, Injection, IsInjective
<1>3. IsFiniteSet(Objects)
  BY GPUAssumption
<1>4. Cardinality(1 .. Len(objects)) <= Cardinality(Objects)
  BY <1>2, <1>3, FS_Injection, Zenon
<1>5. Cardinality(1 .. Len(objects)) = Len(objects)
  <2>1. \A n \in Nat : Cardinality(1 .. n) = n
    BY FS_Interval
  <2> QED
    BY <1>1, <2>1, Zenon
<1>6. Cardinality(Objects) \in Nat
  BY <1>3, FS_CardinalityType
<1> QED
  BY <1>1, <1>4, <1>5, <1>6

\* A new object has no room yet in the buffers: setUp is no longer true
\* (coal_gpu_collision_manager.cpp:255-262).
LEMMA RegisterKeeps ==
    ASSUME Inductive, NEW o \in Objects, Register(o)
    PROVE  Inductive'
<1> USE DEF Register
<1>1. objects \in [1 .. Len(objects) -> Objects] /\ Len(objects) \in Nat
  BY RegistryFits DEF Inductive
<1>2. /\ objects' \in Seq(Objects) /\ Len(objects') = Len(objects) + 1
      /\ objects'[Len(objects) + 1] = o
      /\ \A i \in 1 .. Len(objects) : objects'[i] = objects[i]
  BY AppendProperties DEF Inductive, TypeOK
<1>3. RegistryOK'
  <2>1. \A i \in 1 .. Len(objects) : objects[i] # o
    BY DEF Registered
  <2>2. \A i \in 1 .. Len(objects') : i \in 1 .. Len(objects) \/ i = Len(objects) + 1
    BY <1>1, <1>2
  <2>3. \A i, j \in 1 .. Len(objects) : objects[i] = objects[j] => i = j
    BY DEF Inductive, RegistryOK
  <2>4. \A i, j \in 1 .. Len(objects') : objects'[i] = objects'[j] => i = j
    <3> SUFFICES ASSUME NEW i \in 1 .. Len(objects'), NEW j \in 1 .. Len(objects'),
                        objects'[i] = objects'[j]
                 PROVE  i = j
      OBVIOUS
    <3>1. i \in 1 .. Len(objects) \/ i = Len(objects) + 1
      BY <2>2
    <3>2. j \in 1 .. Len(objects) \/ j = Len(objects) + 1
      BY <2>2
    <3> QED
      BY <1>2, <2>1, <2>3, <3>1, <3>2, Zenon
  <2> QED
    BY <2>4 DEF RegistryOK
<1>4. TypeOK'
  BY <1>2, BetweenTypes DEF Inductive, TypeOK
<1> QED
  BY <1>3, <1>4, BetweenKeeps DEF Inductive

\* With an object less, those that stay are still different from each other and fit the
\* buffers (coal_gpu_collision_manager.cpp:264-268).
LEMMA UnregisterKeeps ==
    ASSUME Inductive, NEW o \in Objects, Unregister(o)
    PROVE  Inductive'
<1> DEFINE n == Len(objects)
<1>1. n \in Nat /\ objects \in [1 .. n -> Objects]
  BY RegistryFits DEF Inductive
<1>2. PICK i \in 1 .. n :
        objects' = [j \in 1 .. n - 1 |-> objects[IF j < i THEN j ELSE j + 1]]
  BY DEF Unregister
<1>3. n - 1 \in Nat /\ objects' \in [1 .. n - 1 -> Objects]
  <2> HIDE DEF n
  <2> QED
    BY <1>1, <1>2
<1>4. objects' \in Seq(Objects) /\ Len(objects') = n - 1
  <2>1. objects' \in Seq(Objects)
    <3> HIDE DEF n
    <3> QED
      BY <1>3, SeqDef
  <2>2. Len(objects') \in Nat /\ 1 .. Len(objects') = 1 .. n - 1
    BY <1>3, <2>1, LenProperties
  <2> HIDE DEF n
  <2> QED
    BY <1>3, <2>1, <2>2
<1>5. UNCHANGED <<unified, capacity, setUp, place>> /\ BetweenQueries
  BY DEF Unregister
<1>6. RegistryOK'
  <2>1. \A j, l \in 1 .. n : objects[j] = objects[l] => j = l
    BY DEF Inductive, RegistryOK
  <2>2. \A j, l \in 1 .. n - 1 : objects'[j] = objects'[l] => j = l
    <3> HIDE DEF n
    <3> QED
      BY <1>1, <1>2, <2>1
  <2>3. capacity \in Int /\ (setUp => n <= capacity)
    BY DEF Inductive, RegistryOK, TypeOK
  <2>4. setUp => n - 1 <= capacity
    <3> HIDE DEF n
    <3> QED
      BY <1>1, <2>3
  <2> HIDE DEF n
  <2> QED
    BY <1>4, <1>5, <2>2, <2>4 DEF RegistryOK
<1>7. TypeOK'
  BY <1>4, <1>5, BetweenTypes DEF Inductive, TypeOK
<1> QED
  BY <1>5, <1>6, <1>7, BetweenKeeps DEF Inductive

\* Without objects the buffers of the last set-up are large enough
\* (coal_gpu_collision_manager.cpp:270).
LEMMA ClearKeeps ==
    ASSUME Inductive, Clear
    PROVE  Inductive'
<1> USE DEF Clear
<1>1. objects' \in Seq(Objects) /\ Len(objects') = 0
  BY EmptySeq
<1>2. RegistryOK'
  BY <1>1 DEF RegistryOK, Inductive, TypeOK
<1>3. TypeOK'
  BY <1>1, BetweenTypes DEF Inductive, TypeOK
<1> QED
  BY <1>2, <1>3, BetweenKeeps DEF Inductive

\* Setup makes room for the objects there are (coal_gpu_collision_manager.cpp:280-310).
LEMMA SetupKeeps ==
    ASSUME Inductive, Setup
    PROVE  Inductive'
<1> USE DEF Setup
<1>1. Len(objects) \in 0 .. Cardinality(Objects)
  BY RegistryFits DEF Inductive
<1>2. capacity' \in 0 .. Cardinality(Objects) /\ setUp' \in BOOLEAN
  BY <1>1 DEF Inductive, TypeOK
<1>3. RegistryOK'
  BY <1>1 DEF Inductive, RegistryOK, TypeOK
<1>4. TypeOK'
  BY <1>2, BetweenTypes DEF Inductive, TypeOK
<1> QED
  BY <1>3, <1>4, BetweenKeeps DEF Inductive

\* Objects move between queries only: boxes already taken are not those of the query to
\* come (collision_scene.cpp:232-245).
LEMMA MoveKeeps ==
    ASSUME Inductive, NEW o \in Objects \cup Visitors, NEW p \in Places, Move(o, p)
    PROVE  Inductive'
<1> USE DEF Move
<1>1. RegistryOK'
  BY DEF Inductive, RegistryOK
<1>2. TypeOK'
  BY BetweenTypes DEF Inductive, TypeOK
<1> QED
  BY <1>1, <1>2, BetweenKeeps DEF Inductive
-----------------------------------------------------------------------------
(* The steps of a query.                                                   *)

\* What appending a command, or none, does to the queue.
LEMMA Enqueued ==
    ASSUME NEW q \in Seq(Commands), NEW c \in Commands
    PROVE  /\ Append(q, c) \in Seq(Commands) /\ Len(q) \in Nat
           /\ Len(Append(q, c)) = Len(q) + 1
           /\ Append(q, c)[Len(q) + 1] = c
           /\ \A i \in 1 .. Len(q) : i \in 1 .. Len(q) + 1 /\ Append(q, c)[i] = q[i]
           /\ \A i \in 1 .. Len(q) + 1 : i \in 1 .. Len(q) \/ i = Len(q) + 1
           /\ Len(q) + 1 \in 1 .. Len(q) + 1
<1>1. Len(q) \in Nat
  BY LenProperties
<1> QED
  BY <1>1, AppendProperties

\* And taking the oldest away.
LEMMA Dequeued ==
    ASSUME NEW q \in Seq(Commands), q # <<>>
    PROVE  /\ Head(q) \in Commands /\ Tail(q) \in Seq(Commands)
           /\ Len(q) \in Nat \ {0} /\ Len(Tail(q)) = Len(q) - 1
           /\ Head(q) = q[1]
           /\ \A i \in 1 .. Len(Tail(q)) : i + 1 \in 1 .. Len(q) /\ Tail(q)[i] = q[i + 1]
           /\ \A i \in 1 .. Len(q) : i = 1 \/ (i - 1 \in 1 .. Len(Tail(q)) /\ Tail(q)[i - 1] = q[i])
<1>1. Len(q) \in Nat \ {0}
  BY EmptySeq
<1>2. /\ Head(q) \in Commands /\ Tail(q) \in Seq(Commands)
      /\ Len(Tail(q)) = Len(q) - 1
      /\ \A i \in 1 .. Len(Tail(q)) : Tail(q)[i] = q[i + 1]
  BY HeadTailProperties
<1>3. Head(q) = q[1]
  OBVIOUS
<1>4. \A i \in 1 .. Len(Tail(q)) : i + 1 \in 1 .. Len(q)
  BY <1>1, <1>2
<1>5. ASSUME NEW i \in 1 .. Len(q), i # 1
      PROVE  i - 1 \in 1 .. Len(Tail(q)) /\ Tail(q)[i - 1] = q[i]
  <2>1. i - 1 \in 1 .. Len(Tail(q)) /\ (i - 1) + 1 = i
    BY <1>1, <1>2, <1>5
  <2> QED
    BY <1>2, <2>1
<1> QED
  BY <1>1, <1>2, <1>3, <1>4, <1>5

\* What a query may be.
Queries ==
    {q \in [op : {"collide", "distance"}, shape : {"self", "one", "cross"},
            rows : Seq(Asked), cols : Seq(Asked)] :
        q.shape = "self" => q.rows = q.cols /\ Len(q.rows) <= capacity}

\* All six queries start alike, on rows and columns of registered or other objects
\* (coal_gpu_collision_manager.cpp:316-654).
LEMMA QueriesStarted ==
    ASSUME Inductive, Query
    PROVE  \E q \in Queries : Start(q)
<1>1. objects \in Seq(Asked) /\ (setUp => Len(objects) <= capacity)
  BY SeqMonotonic DEF Inductive, TypeOK, RegistryOK, Asked
<1>2. PICK op \in {"collide", "distance"} :
         \/ QuerySelf(op)
         \/ \E v \in Visitors : QueryOne(op, v)
         \/ \E others \in Others : QueryCross(op, others)
  BY DEF Query
<1>3. CASE QuerySelf(op)
  BY <1>1, <1>3 DEF QuerySelf, Queries
<1>4. ASSUME NEW v \in Visitors, QueryOne(op, v) PROVE \E q \in Queries : Start(q)
  <2>1. <<v>> \in Seq(Asked)
    BY DEF Asked
  <2> QED
    BY <1>1, <1>4, <2>1 DEF QueryOne, Queries
<1>5. ASSUME NEW others \in Others, QueryCross(op, others) PROVE \E q \in Queries : Start(q)
  <2>1. others \in Seq(Asked)
    BY GPUAssumption, SeqMonotonic DEF Asked
  <2> QED
    BY <1>1, <1>5, <2>1 DEF QueryCross, Queries
<1> QED
  BY <1>2, <1>3, <1>4, <1>5

\* While no kernel runs, no kernel is queued.
LEMMA NoKernelYet ==
    ASSUME QueueOK, pc # "launched" \/ Items = 0
    PROVE  \A i \in 1 .. Len(queue) : queue[i] # "kernel"
BY DEF QueueOK

\* Before its first pair the loop has done nothing.
LEMMA NoCallsYet == called = {} /\ k = 0 => CallsOK
<1> SUFFICES ASSUME called = {}, k = 0 PROVE CallsOK
  OBVIOUS
<1>1. 0 .. k - 1 = {}
  OBVIOUS
<1> QED
  BY <1>1 DEF CallsOK

\* And other steps do not touch what it has done.
LEMMA SameCalls ==
    ASSUME CallsOK, UNCHANGED <<query, read, k, called, min_dist>>
    PROVE  CallsOK'
<1>1. \A i : HostReads(i)' = HostReads(i)
  BY DEF HostReads
<1> HIDE DEF HostReads
<1>2. {HostReads(i) : i \in {j \in 0 .. k - 1 : read[j]}}'
        = {HostReads(i) : i \in {j \in 0 .. k - 1 : read[j]}}
  BY <1>1
<1> QED
  BY <1>1, <1>2 DEF CallsOK

\* Answers are of the query and its boxes alone.
LEMMA SameAnswers ==
    ASSUME UNCHANGED <<query, place>>
    PROVE  \A r : Answers(r)' <=> Answers(r)
<1>1. /\ Items' = Items
      /\ \A i : ItemPair(i)' = ItemPair(i) /\ RowPlace(i)' = RowPlace(i) /\ ColPlace(i)' = ColPlace(i)
      /\ \A a, b : Compare(a, b)' = Compare(a, b)
  BY DEF Items, ItemPair, RowPlace, ColPlace, Compare
<1>2. Strays' = Strays
  <2> HIDE DEF ItemPair, Items
  <2> QED
    BY <1>1 DEF Strays
<1> HIDE DEF ItemPair, Items, RowPlace, ColPlace, Compare
<1> QED
  BY <1>1, <1>2 DEF Answers

\* A query stages its boxes and queues their upload behind whatever is still queued
\* (coal_gpu_collision_manager.cpp:316-374).
LEMMA StartKeeps ==
    ASSUME Inductive, NEW q \in Queries, Start(q)
    PROVE  Inductive'
<1> DEFINE boxes == [rows |-> Extract(q.rows), cols |-> Extract(q.cols)]
<1>1. /\ pc = "idle" /\ query' = q /\ pc' = "uploaded"
      /\ UNCHANGED <<registry, results, answer>>
      /\ IF Maps(q)
         THEN /\ queue = <<>> /\ device' = boxes /\ mapped' = mapped \cup {"boxes"}
              /\ queue' = <<"unmap boxes">> /\ UNCHANGED staging
         ELSE /\ staging' = boxes /\ queue' = Append(queue, "write")
              /\ UNCHANGED <<device, mapped>>
  BY DEF Start
<1>2. queue \in Seq(Commands) /\ \A i \in 1 .. Len(queue) : queue[i] # "kernel"
  BY <1>1, NoKernelYet DEF Inductive, TypeOK
<1>3. QueryOK'
  BY <1>1 DEF Inductive, QueryOK, Queries, Asked, registry, answer
<1>4. Items' \in Nat /\ k' = 0
  <2>1. k' = 0
    BY <1>1 DEF Inductive, QueryOK, answer
  <2>2. (QueryOK => Items \in Nat)'
    BY ItemsCounted, PTL
  <2> QED
    BY <1>3, <2>1, <2>2
<1>5. queue' \in Seq(Commands) /\ mapped' \subseteq {"boxes", "results"}
  <2>1. mapped \subseteq {"boxes", "results"}
    BY DEF Inductive, TypeOK
  <2>2. Append(queue, "write") \in Seq(Commands) /\ <<"unmap boxes">> \in Seq(Commands)
    <3>1. "write" \in Commands /\ "unmap boxes" \in Commands
      BY DEF Commands
    <3>2. \A c \in Commands : <<c>> \in Seq(Commands)
      OBVIOUS
    <3> QED
      BY <1>2, <3>1, <3>2, Enqueued
  <2> QED
    BY <1>1, <2>1, <2>2
<1>6. TypeOK'
  <2>1. query'.op \in {"none", "collide", "distance"} /\ query'.shape \in {"none", "self", "one", "cross"}
    BY <1>1 DEF Queries
  <2>2. k' \in 0 .. Items'
    BY <1>4
  <2>3. UNCHANGED <<unified, setUp, stopped, objects, capacity, place, called, min_dist>>
    BY <1>1 DEF registry, answer
  <2>4. pc' = "uploaded"
    BY <1>1
  <2> QED
    BY <1>5, <2>1, <2>2, <2>3, <2>4 DEF Inductive, TypeOK
<1>7. RegistryOK'
  BY <1>1 DEF Inductive, RegistryOK, registry
<1>8. QueueOK' /\ UploadOK'
  <2>1. Boxes' = boxes
    BY <1>1 DEF Boxes, Extract, registry
  <2>2. Maps(query)' = Maps(q)
    BY <1>1 DEF Maps, registry
  <2>3. "results" \in mapped => Queued("unmap results")
    BY <1>1 DEF Inductive, QueueOK
  <2>4. CASE Maps(q)
    <3>1. /\ queue = <<>> /\ device' = boxes /\ mapped' = mapped \cup {"boxes"}
          /\ queue' = <<"unmap boxes">>
      BY <1>1, <2>4
    <3>2. 1 .. Len(queue') = {1} /\ queue'[1] = "unmap boxes" /\ 1 .. Len(queue) = {}
      <4>1. Len(<<"unmap boxes">>) = 1 /\ <<"unmap boxes">>[1] = "unmap boxes" /\ Len(<<>>) = 0
        OBVIOUS
      <4>2. 1 .. 1 = {1} /\ 1 .. 0 = {}
        OBVIOUS
      <4> QED
        BY <3>1, <4>1, <4>2, Zenon
    <3>3. \A i \in 1 .. Len(queue') : queue'[i] = "unmap boxes"
      BY <3>2
    <3>4. "results" \notin mapped'
      BY <2>3, <3>1, <3>2 DEF Queued
    <3>5. Queued("unmap boxes")' /\ ~Queued("write")'
      BY <3>2, <3>3 DEF Queued
    <3> QED
      BY <2>1, <2>2, <2>4, <3>1, <3>3, <3>4, <3>5 DEF QueueOK, UploadOK
  <2>5. CASE ~Maps(q)
    <3>1. staging' = boxes /\ queue' = Append(queue, "write") /\ mapped' = mapped
      BY <1>1, <2>5
    <3>2. /\ Len(queue) \in Nat /\ Len(queue') = Len(queue) + 1
          /\ queue'[Len(queue) + 1] = "write"
          /\ \A i \in 1 .. Len(queue) : i \in 1 .. Len(queue) + 1 /\ queue'[i] = queue[i]
          /\ \A i \in 1 .. Len(queue) + 1 : i \in 1 .. Len(queue) \/ i = Len(queue) + 1
          /\ Len(queue) + 1 \in 1 .. Len(queue) + 1
      BY <1>2, <3>1, Enqueued DEF Commands
    <3>3. \A c : Queued(c) => Queued(c)'
      BY <3>2 DEF Queued
    <3>4. Queued("write")'
      BY <3>2 DEF Queued
    <3>5. \A i \in 1 .. Len(queue') : queue'[i] # "kernel"
      BY <1>2, <3>2
    <3> QED
      BY <1>1, <2>1, <2>2, <2>3, <2>5, <3>1, <3>3, <3>4, <3>5
         DEF QueueOK, UploadOK, Inductive
  <2> QED
    BY <2>4, <2>5
<1>9. ResultsOK'
  BY <1>1 DEF Inductive, ResultsOK
<1>10. CallsOK'
  <2>1. called' = {} /\ k' = 0
    BY <1>1 DEF Inductive, QueryOK, answer
  <2>2. (called = {} /\ k = 0 => CallsOK)'
    BY NoCallsYet, PTL
  <2> QED
    BY <2>1, <2>2
<1> QED
  BY <1>3, <1>6, <1>7, <1>8, <1>9, <1>10 DEF Inductive

\* The kernel is queued behind this query's boxes; a range without pairs is refused
\* (coal_gpu_collision_manager.cpp:376-379).
LEMMA LaunchKeeps ==
    ASSUME Inductive, Launch
    PROVE  Inductive'
<1>1. /\ pc = "uploaded" /\ pc' = "launched"
      /\ queue' = IF Items = 0 THEN queue ELSE Append(queue, "kernel")
      /\ UNCHANGED <<registry, query, staging, mapped, device, results, answer>>
  BY DEF Launch
<1>2. queue \in Seq(Commands) /\ \A i \in 1 .. Len(queue) : queue[i] # "kernel"
  BY <1>1, NoKernelYet DEF Inductive, TypeOK
<1>3. Items' = Items /\ Boxes' = Boxes /\ Maps(query)' = Maps(query)
  BY <1>1 DEF Items, Boxes, Extract, Maps, registry
<1>4. /\ queue' \in Seq(Commands)
      /\ \A c : Queued(c) => Queued(c)'
      /\ \A i \in 1 .. Len(queue') : queue'[i] = "kernel" => i = Len(queue') /\ Items # 0
      /\ Items # 0 => Queued("kernel")'
      /\ ~Queued("write") => ~Queued("write")'
  <2>1. CASE Items = 0
    <3>1. queue' = queue
      BY <1>1, <2>1
    <3> QED
      BY <1>2, <2>1, <3>1 DEF Queued
  <2>2. CASE Items # 0
    <3>1. /\ queue' \in Seq(Commands) /\ Len(queue) \in Nat /\ Len(queue') = Len(queue) + 1
          /\ queue'[Len(queue) + 1] = "kernel"
          /\ \A i \in 1 .. Len(queue) : i \in 1 .. Len(queue) + 1 /\ queue'[i] = queue[i]
          /\ \A i \in 1 .. Len(queue) + 1 : i \in 1 .. Len(queue) \/ i = Len(queue) + 1
          /\ Len(queue) + 1 \in 1 .. Len(queue) + 1
      BY <1>1, <1>2, <2>2, Enqueued DEF Commands
    <3>2. \A c : Queued(c) => Queued(c)'
      BY <3>1 DEF Queued
    <3>3. \A i \in 1 .. Len(queue') : queue'[i] = "kernel" => i = Len(queue')
      BY <1>2, <3>1
    <3>4. Queued("kernel")'
      BY <3>1 DEF Queued
    <3>5. ~Queued("write") => ~Queued("write")'
      BY <3>1 DEF Queued
    <3> QED
      BY <2>2, <3>1, <3>2, <3>3, <3>4, <3>5
  <2> QED
    BY <2>1, <2>2
<1>5. TypeOK'
  BY <1>1, <1>3, <1>4 DEF Inductive, TypeOK, registry, answer
<1>6. RegistryOK' /\ QueryOK'
  BY <1>1 DEF Inductive, RegistryOK, QueryOK, registry, answer
<1>7. QueueOK'
  BY <1>1, <1>3, <1>4 DEF Inductive, QueueOK
<1>8. UploadOK'
  BY <1>1, <1>3, <1>4 DEF Inductive, UploadOK
<1>9. ResultsOK'
  BY <1>1, <1>3, <1>4 DEF Inductive, ResultsOK
<1>10. CallsOK'
  <2>1. called' = {} /\ k' = 0
    BY <1>1 DEF Inductive, QueryOK, answer
  <2>2. (called = {} /\ k = 0 => CallsOK)'
    BY NoCallsYet, PTL
  <2> QED
    BY <2>1, <2>2
<1> QED
  BY <1>5, <1>6, <1>7, <1>8, <1>9, <1>10 DEF Inductive
\* What a kernel leaves for its host, given the boxes of the query.
LEMMA KernelAnswers ==
    ASSUME QueryOK, pc # "idle", place \in [Objects \cup Visitors -> Places],
           NEW junk \in Junk
    PROVE  Answers(Kernel(Boxes, junk))
<1> DEFINE r == Kernel(Boxes, junk)
           n == Len(query.rows)
           m == Len(query.cols)
<1>1. /\ n \in Nat /\ query.rows \in [1 .. n -> Objects \cup Visitors]
      /\ m \in Nat /\ query.cols \in [1 .. m -> Objects \cup Visitors]
  BY LenProperties DEF QueryOK
<1>2. query.op \in {"collide", "distance"}
  BY DEF QueryOK
<1> SUFFICES ASSUME NEW i \in 0 .. Items - 1
             PROVE  /\ i \in DOMAIN r
                    /\ r[i] \in IF query.op = "collide" THEN BOOLEAN ELSE Int
                    /\ i \notin Strays =>
                         r[i] = Compare(RowPlace(ItemPair(i)[1]), ColPlace(ItemPair(i)[2]))
  BY DEF Answers
<1>3. /\ i \in DOMAIN r
      /\ r[i] = IF i \in Strays THEN junk[i]
                ELSE Compare(Boxes.rows[ItemPair(i)[1] + 1], Boxes.cols[ItemPair(i)[2] + 1])
  BY DEF Kernel
<1> HIDE DEF r
<1>4. CASE i \in Strays
  <2>1. junk[i] \in IF query.op = "collide" THEN BOOLEAN ELSE {0, Far - 1}
    BY <1>4 DEF Junk
  <2>2. Far - 1 \in Int
    BY GPUAssumption
  <2> QED
    BY <1>3, <1>4, <2>1, <2>2
<1>5. CASE i \notin Strays
  <2>1. ItemPair(i)[1] \in 0 .. n - 1 /\ ItemPair(i)[2] \in 0 .. m - 1
    <3>1. ItemPair(i)[1] \in Nat /\ ItemPair(i)[2] \in Nat
      BY ItemPairs
    <3>2. ~(ItemPair(i)[1] >= n \/ ItemPair(i)[2] >= m)
      BY <1>5 DEF Strays
    <3> HIDE DEF n, m
    <3> QED
      BY <1>1, <3>1, <3>2
  <2> DEFINE a == ItemPair(i)[1]
             b == ItemPair(i)[2]
  <2>2. a + 1 \in 1 .. n /\ b + 1 \in 1 .. m
    <3> HIDE DEF a, b, n, m
    <3> QED
      BY <1>1, <2>1 DEF a, b
  <2>3. Boxes.rows[a + 1] = RowPlace(a) /\ Boxes.cols[b + 1] = ColPlace(b)
    <3> HIDE DEF a, b
    <3> QED
      BY <2>2 DEF Boxes, Extract, RowPlace, ColPlace
  <2>4. RowPlace(a) \in Nat /\ ColPlace(b) \in Nat
    <3> HIDE DEF a, b
    <3> QED
      BY <1>1, <2>2, GPUAssumption DEF RowPlace, ColPlace
  <2>5. r[i] = Compare(RowPlace(a), ColPlace(b))
    BY <1>3, <1>5, <2>3
  <2>6. Compare(RowPlace(a), ColPlace(b)) \in IF query.op = "collide" THEN BOOLEAN ELSE Int
    <3> DEFINE x == RowPlace(a)
               y == ColPlace(b)
    <3>1. Overlaps(x, y) \in BOOLEAN
      BY DEF Overlaps
    <3>2. Distance(x, y) \in Int
      <4> HIDE DEF x, y
      <4> QED
        BY <2>4 DEF Distance, x, y
    <3> QED
      BY <3>1, <3>2, Zenon DEF Compare
  <2> QED
    BY <1>3, <2>5, <2>6
<1> QED
  BY <1>4, <1>5

\* The device takes the oldest command: an upload brings the staged boxes, the kernel
\* computes from those of this query.
LEMMA DeviceStepKeeps ==
    ASSUME Inductive, DeviceStep
    PROVE  Inductive'
<1>1. /\ queue # <<>> /\ queue' = Tail(queue)
      /\ UNCHANGED <<registry, pc, query, staging, answer>>
  BY DEF DeviceStep
<1>2. queue \in Seq(Commands)
  BY DEF Inductive, TypeOK
<1> DEFINE c == Head(queue)
<1>3. /\ c \in Commands /\ queue' \in Seq(Commands)
      /\ Len(queue) \in Nat \ {0} /\ Len(queue') = Len(queue) - 1
      /\ c = queue[1] /\ 1 \in 1 .. Len(queue)
      /\ \A i \in 1 .. Len(queue') : i + 1 \in 1 .. Len(queue) /\ queue'[i] = queue[i + 1]
      /\ \A i \in 1 .. Len(queue) :
           i = 1 \/ (i - 1 \in 1 .. Len(queue') /\ queue'[i - 1] = queue[i])
  BY <1>1, <1>2, Dequeued
<1>4. /\ \A d : Queued(d) /\ d # c => Queued(d)'
      /\ \A d : Queued(d)' => Queued(d)
      /\ Queued(c)
  <2> HIDE DEF c
  <2>1. ASSUME NEW d, Queued(d), d # c PROVE Queued(d)'
    BY <1>3, <2>1 DEF Queued
  <2>2. ASSUME NEW d, Queued(d)' PROVE Queued(d)
    BY <1>3, <2>2 DEF Queued
  <2> QED
    BY <1>3, <2>1, <2>2 DEF Queued
<1>5. /\ Items' = Items /\ Boxes' = Boxes /\ Maps(query)' = Maps(query)
      /\ MapsResults' = MapsResults /\ Buffer' = Buffer
  BY <1>1 DEF Items, Boxes, Extract, Maps, MapsResults, Buffer, registry
<1>6. /\ c = "write" => device' = staging /\ UNCHANGED <<results, mapped>>
      /\ c = "kernel" => /\ UNCHANGED <<device, mapped>>
                         /\ \E junk \in Junk :
                              results' = [results EXCEPT ![Buffer] = Kernel(device, junk)]
      /\ c = "unmap boxes" => mapped' = mapped \ {"boxes"} /\ UNCHANGED <<device, results>>
      /\ c = "unmap results" => mapped' = mapped \ {"results"} /\ UNCHANGED <<device, results>>
  BY DEF DeviceStep
<1>7. c \in {"write", "kernel", "unmap boxes", "unmap results"}
  BY <1>3 DEF Commands
<1> HIDE DEF c
<1>8. mapped' \subseteq mapped
  BY <1>6, <1>7
<1>9. TypeOK'
  BY <1>1, <1>3, <1>5, <1>8 DEF Inductive, TypeOK, registry, answer
<1>10. RegistryOK' /\ QueryOK'
  BY <1>1 DEF Inductive, RegistryOK, QueryOK, registry, answer
<1>11. QueueOK'
  <2>1. ASSUME NEW i \in 1 .. Len(queue'), queue'[i] = "kernel"
        PROVE  pc' = "launched" /\ Items' # 0 /\ i = Len(queue')
    <3>1. i + 1 \in 1 .. Len(queue) /\ queue[i + 1] = "kernel"
      BY <1>3, <2>1
    <3>2. pc = "launched" /\ Items # 0 /\ i + 1 = Len(queue)
      BY <3>1 DEF Inductive, QueueOK
    <3>3. i = Len(queue')
      <4>1. Len(queue) \in Nat /\ i \in Int /\ i = Len(queue) - 1
        BY <1>3, <2>1, <3>2
      <4> QED
        BY <1>3, <4>1
    <3> QED
      BY <1>1, <1>5, <3>2, <3>3
  <2>2. ASSUME "boxes" \in mapped' PROVE Queued("unmap boxes")'
    <3>1. c # "unmap boxes" /\ Queued("unmap boxes")
      BY <1>6, <1>8, <2>2 DEF Inductive, QueueOK
    <3> QED
      BY <1>4, <3>1
  <2>3. ASSUME "results" \in mapped'
        PROVE  \/ Queued("unmap results")'
               \/ pc' = "calling" /\ MapsResults' /\ query'.op = "collide"
    <3>1. c # "unmap results" /\ "results" \in mapped
      BY <1>6, <1>8, <2>3
    <3> QED
      BY <1>1, <1>4, <1>5, <3>1 DEF Inductive, QueueOK
  <2> QED
    BY <2>1, <2>2, <2>3 DEF QueueOK
<1>12. UploadOK'
  <2> SUFFICES ASSUME pc \in {"uploaded", "launched"}
               PROVE  IF Maps(query) THEN device' = Boxes /\ ~Queued("write")'
                      ELSE staging' = Boxes /\ (device' = Boxes \/ Queued("write")')
    BY <1>1, <1>5 DEF UploadOK
  <2>1. IF Maps(query) THEN device = Boxes /\ ~Queued("write")
        ELSE staging = Boxes /\ (device = Boxes \/ Queued("write"))
    BY DEF Inductive, UploadOK
  <2>2. CASE c = "write"
    BY <1>1, <1>4, <1>6, <2>1, <2>2
  <2>3. CASE c # "write"
    BY <1>1, <1>4, <1>6, <1>7, <2>1, <2>3
  <2> QED
    BY <2>2, <2>3
<1>13. ResultsOK'
  <2>1. \A r : Answers(r)' <=> Answers(r)
    BY <1>1, SameAnswers DEF registry
  <2>2. DOMAIN results' = Buffers
    BY <1>6, <1>7 DEF Inductive, ResultsOK
  <2>3. pc' = "calling" => Answers(read')
    BY <1>1 DEF Inductive, ResultsOK, answer
  <2>4. ASSUME pc = "launched", Items # 0, ~Queued("kernel")'
        PROVE  Answers(results'[Buffer])
    <3>1. CASE c = "kernel"
      <4>1. Len(queue) = 1
        BY <1>3, <3>1 DEF Inductive, QueueOK
      <4>2. ~Queued("write")
        <5>1. \A i \in 1 .. 1 : i = 1
          OBVIOUS
        <5>2. \A i \in 1 .. Len(queue) : queue[i] = "kernel"
          BY <1>3, <3>1, <4>1, <5>1, Zenon
        <5> QED
          BY <5>2 DEF Queued
      <4>3. device = Boxes
        BY <2>4, <4>2 DEF Inductive, UploadOK
      <4>4. Buffer \in DOMAIN results
        BY <2>4 DEF Inductive, ResultsOK, QueryOK, Buffer, Buffers
      <4>5. PICK junk \in Junk : results' = [results EXCEPT ![Buffer] = Kernel(device, junk)]
        BY <1>6, <3>1
      <4>6. results'[Buffer] = Kernel(Boxes, junk)
        BY <4>3, <4>4, <4>5
      <4> QED
        BY <2>4, <4>6, KernelAnswers DEF Inductive, TypeOK
    <3>2. CASE c # "kernel"
      <4>1. ~Queued("kernel") /\ results' = results
        BY <1>4, <1>6, <1>7, <2>4, <3>2
      <4> QED
        BY <2>4, <4>1 DEF Inductive, ResultsOK
    <3> QED
      BY <3>1, <3>2
  <2> QED
    BY <1>1, <1>5, <2>1, <2>2, <2>3, <2>4 DEF ResultsOK
<1>14. CallsOK'
  BY <1>1, SameCalls DEF Inductive, answer
<1> QED
  BY <1>9, <1>10, <1>11, <1>12, <1>13, <1>14 DEF Inductive

\* The blocking read or map waits until the queue is empty, so the host has this query's
\* results (coal_gpu_collision_manager.cpp:381-383).
LEMMA ReadBackKeeps ==
    ASSUME Inductive, ReadBack
    PROVE  Inductive'
<1>1. /\ pc = "launched" /\ pc' = "calling"
      /\ Items = 0 \/ queue = <<>>
      /\ read' = IF Items = 0 THEN <<>> ELSE results[Buffer]
      /\ mapped' = IF MapsResults THEN mapped \cup {"results"} ELSE mapped
      /\ queue' = IF MapsResults /\ query.op = "distance"
                  THEN Append(queue, "unmap results") ELSE queue
      /\ UNCHANGED <<registry, query, staging, device, results, k, called, min_dist, stopped>>
  BY DEF ReadBack, Fetch
<1>2. queue \in Seq(Commands) /\ mapped \subseteq {"boxes", "results"}
  BY DEF Inductive, TypeOK
<1>3. \A i \in 1 .. Len(queue) : queue[i] # "kernel"
  <2>1. CASE Items = 0
    BY <2>1 DEF Inductive, QueueOK
  <2>2. CASE queue = <<>>
    <3>1. Len(<<>>) = 0 /\ 1 .. 0 = {}
      OBVIOUS
    <3> QED
      BY <2>2, <3>1, Zenon
  <2> QED
    BY <1>1, <2>1, <2>2
<1>4. Items' = Items /\ MapsResults' = MapsResults
  BY <1>1 DEF Items, Maps, MapsResults, registry
<1>5. /\ queue' \in Seq(Commands)
      /\ \A c : Queued(c) => Queued(c)'
      /\ \A i \in 1 .. Len(queue') : queue'[i] # "kernel"
      /\ MapsResults /\ query.op = "distance" => Queued("unmap results")'
  <2>1. CASE MapsResults /\ query.op = "distance"
    <3>1. /\ queue' \in Seq(Commands) /\ Len(queue) \in Nat /\ Len(queue') = Len(queue) + 1
          /\ queue'[Len(queue) + 1] = "unmap results"
          /\ \A i \in 1 .. Len(queue) : i \in 1 .. Len(queue) + 1 /\ queue'[i] = queue[i]
          /\ \A i \in 1 .. Len(queue) + 1 : i \in 1 .. Len(queue) \/ i = Len(queue) + 1
          /\ Len(queue) + 1 \in 1 .. Len(queue) + 1
      BY <1>1, <1>2, <2>1, Enqueued DEF Commands
    <3>2. \A c : Queued(c) => Queued(c)'
      BY <3>1 DEF Queued
    <3>3. \A i \in 1 .. Len(queue') : queue'[i] # "kernel"
      BY <1>3, <3>1
    <3>4. Queued("unmap results")'
      BY <3>1 DEF Queued
    <3> QED
      BY <3>1, <3>2, <3>3, <3>4
  <2>2. CASE ~(MapsResults /\ query.op = "distance")
    <3>1. queue' = queue
      BY <1>1, <2>2
    <3> QED
      BY <1>2, <1>3, <2>2, <3>1 DEF Queued
  <2> QED
    BY <2>1, <2>2
<1>6. TypeOK'
  <2>1. mapped' \subseteq {"boxes", "results"}
    BY <1>1, <1>2
  <2> QED
    BY <1>1, <1>4, <1>5, <2>1 DEF Inductive, TypeOK, registry
<1>7. RegistryOK' /\ QueryOK'
  BY <1>1 DEF Inductive, RegistryOK, QueryOK, registry
<1>8. QueueOK'
  <2>1. ASSUME "boxes" \in mapped' PROVE Queued("unmap boxes")'
    <3>1. "boxes" \in mapped
      BY <1>1, <2>1
    <3> QED
      BY <1>5, <3>1 DEF Inductive, QueueOK
  <2>2. ASSUME "results" \in mapped'
        PROVE  \/ Queued("unmap results")'
               \/ pc' = "calling" /\ MapsResults' /\ query'.op = "collide"
    <3>1. CASE MapsResults
      <4>1. query.op \in {"collide", "distance"}
        BY <1>1 DEF Inductive, QueryOK
      <4> QED
        BY <1>1, <1>4, <1>5, <3>1, <4>1
    <3>2. CASE ~MapsResults
      <4>1. "results" \in mapped /\ pc # "calling"
        BY <1>1, <2>2, <3>2
      <4>2. Queued("unmap results")
        BY <4>1 DEF Inductive, QueueOK
      <4> QED
        BY <1>5, <4>2
    <3> QED
      BY <3>1, <3>2
  <2> QED
    BY <1>5, <2>1, <2>2 DEF QueueOK
<1>9. UploadOK'
  BY <1>1 DEF UploadOK
<1>10. ResultsOK'
  <2>1. \A r : Answers(r)' <=> Answers(r)
    BY <1>1, SameAnswers DEF registry
  <2>2. Answers(read')
    <3>1. CASE Items = 0
      <4>1. 0 .. Items - 1 = {}
        BY <3>1
      <4> QED
        BY <4>1, Zenon DEF Answers
    <3>2. CASE Items # 0
      <4>1. ~Queued("kernel")
        BY <1>3 DEF Queued
      <4> QED
        BY <1>1, <3>2, <4>1 DEF Inductive, ResultsOK
    <3> QED
      BY <3>1, <3>2
  <2> QED
    BY <1>1, <2>1, <2>2 DEF Inductive, ResultsOK
<1>11. CallsOK'
  <2>1. called' = {} /\ k' = 0
    BY <1>1 DEF Inductive, QueryOK
  <2>2. (called = {} /\ k = 0 => CallsOK)'
    BY NoCallsYet, PTL
  <2> QED
    BY <2>1, <2>2
<1> QED
  BY <1>6, <1>7, <1>8, <1>9, <1>10, <1>11 DEF Inductive

\* The query returns with everything unmapped (coal_gpu_collision_manager.cpp:355-367).
LEMMA ReturnKeeps ==
    ASSUME Inductive, Return
    PROVE  Inductive'
<1>1. /\ pc = "calling" /\ pc' = "idle" /\ query' = NoQuery
      /\ k' = 0 /\ called' = {} /\ min_dist' = Far /\ stopped' = FALSE
      /\ IF query.shape = "self" THEN UNCHANGED results
         ELSE results' = [results EXCEPT !["temporary"] = <<>>]
      /\ UNCHANGED <<registry, mapped>>
      /\ queue' = IF MapsResults /\ query.op = "collide"
                  THEN Append(queue, "unmap results") ELSE queue
  BY DEF Return, Leave
<1>2. queue \in Seq(Commands) /\ \A i \in 1 .. Len(queue) : queue[i] # "kernel"
  BY <1>1, NoKernelYet DEF Inductive, TypeOK
<1>3. /\ queue' \in Seq(Commands)
      /\ \A c : Queued(c) => Queued(c)'
      /\ \A i \in 1 .. Len(queue') : queue'[i] # "kernel"
      /\ MapsResults /\ query.op = "collide" => Queued("unmap results")'
  <2>1. CASE MapsResults /\ query.op = "collide"
    <3>1. /\ queue' \in Seq(Commands) /\ Len(queue) \in Nat /\ Len(queue') = Len(queue) + 1
          /\ queue'[Len(queue) + 1] = "unmap results"
          /\ \A i \in 1 .. Len(queue) : i \in 1 .. Len(queue) + 1 /\ queue'[i] = queue[i]
          /\ \A i \in 1 .. Len(queue) + 1 : i \in 1 .. Len(queue) \/ i = Len(queue) + 1
          /\ Len(queue) + 1 \in 1 .. Len(queue) + 1
      BY <1>1, <1>2, <2>1, Enqueued DEF Commands
    <3>2. \A c : Queued(c) => Queued(c)'
      BY <3>1 DEF Queued
    <3>3. \A i \in 1 .. Len(queue') : queue'[i] # "kernel"
      BY <1>2, <3>1
    <3>4. Queued("unmap results")'
      BY <3>1 DEF Queued
    <3> QED
      BY <3>1, <3>2, <3>3, <3>4
  <2>2. CASE ~(MapsResults /\ query.op = "collide")
    <3>1. queue' = queue
      BY <1>1, <2>2
    <3> QED
      BY <1>2, <2>2, <3>1 DEF Queued
  <2> QED
    BY <2>1, <2>2
<1>4. NoQuery.op = "none" /\ NoQuery.shape = "none"
  BY DEF NoQuery
<1>5. NoQuery \in [op : {"none", "collide", "distance"},
                   shape : {"none", "self", "one", "cross"},
                   rows : Seq(Objects \cup Visitors), cols : Seq(Objects \cup Visitors)]
  BY DEF NoQuery
<1>6. QueryOK'
  BY <1>1, <1>4, <1>5 DEF QueryOK
<1>7. TypeOK'
  <2>1. (QueryOK => Items \in Nat)'
    BY ItemsCounted, PTL
  <2>2. k' \in 0 .. Items'
    <3>1. Items' \in Nat /\ k' = 0
      BY <1>1, <1>6, <2>1, Zenon
    <3> QED
      BY <3>1
  <2>3. min_dist' \in 0 .. Far
    <3>1. Far \in 0 .. Far
      BY GPUAssumption
    <3> QED
      BY <1>1, <3>1, Zenon
  <2>4. UNCHANGED <<unified, objects, capacity, setUp, place, mapped>>
    BY <1>1 DEF registry
  <2> QED
    BY <1>1, <1>3, <1>4, <2>2, <2>3, <2>4 DEF Inductive, TypeOK
<1>8. RegistryOK'
  BY <1>1 DEF Inductive, RegistryOK, registry
<1>9. QueueOK'
  BY <1>1, <1>3 DEF Inductive, QueueOK
<1>10. UploadOK' /\ ResultsOK'
  BY <1>1 DEF Inductive, UploadOK, ResultsOK
<1>11. CallsOK'
  BY <1>1, <1>4 DEF CallsOK
<1> QED
  BY <1>6, <1>7, <1>8, <1>9, <1>10, <1>11 DEF Inductive

\* The loop over the results calls back or passes over one pair at a time, and keeps the
\* least distance so far (coal_gpu_collision_manager.cpp:656-672).
LEMMA CallNextKeeps ==
    ASSUME Inductive, CallNext
    PROVE  Inductive'
<1> DEFINE pair == HostReads(k)
           d(gap) == gap + Distance(place[query.rows[pair[1] + 1]],
                                    place[query.cols[pair[2] + 1]])
<1>1. /\ pc = "calling" /\ k < Items /\ k' = k + 1
      /\ UNCHANGED <<registry, pc, query, transfer, read>>
      /\ IF Wanted
         THEN /\ called' = called \cup {pair}
              /\ stopped' \in BOOLEAN
              /\ IF query.op = "distance"
                 THEN \E gap \in 0 .. Gap : min_dist' = IF d(gap) < min_dist THEN d(gap) ELSE min_dist
                 ELSE UNCHANGED min_dist
         ELSE UNCHANGED <<called, stopped, min_dist>>
  BY DEF CallNext
<1>2. Items \in Nat /\ k \in 0 .. Items - 1 /\ k \in Nat
  BY <1>1, ItemsCounted DEF Inductive, TypeOK
<1>3. pair \in (0 .. Len(query.rows) - 1) \X (0 .. Len(query.cols) - 1)
  BY <1>2, HostReadsPairs DEF Inductive
<1>4. min_dist \in 0 .. Far /\ Far \in Nat /\ Gap \in Nat
  BY GPUAssumption DEF Inductive, TypeOK
<1>5. \A gap \in 0 .. Gap : d(gap) \in Nat
  <2> DEFINE x == place[query.rows[pair[1] + 1]]
             y == place[query.cols[pair[2] + 1]]
  <2>1. x \in Nat /\ y \in Nat
    <3>1. /\ query.rows \in [1 .. Len(query.rows) -> Objects \cup Visitors]
          /\ query.cols \in [1 .. Len(query.cols) -> Objects \cup Visitors]
          /\ Len(query.rows) \in Nat /\ Len(query.cols) \in Nat
      BY LenProperties DEF Inductive, QueryOK
    <3>2. pair[1] + 1 \in 1 .. Len(query.rows) /\ pair[2] + 1 \in 1 .. Len(query.cols)
      <4> HIDE DEF pair
      <4> QED
        BY <1>3, <3>1
    <3> HIDE DEF pair
    <3> QED
      BY <3>1, <3>2, GPUAssumption DEF Inductive, TypeOK
  <2> HIDE DEF x, y
  <2>2. Distance(x, y) \in Nat
    BY <2>1 DEF Distance
  <2> QED
    BY <1>4, <2>2 DEF x, y
<1> HIDE DEF d, pair
<1>6. min_dist' \in 0 .. Far /\ min_dist' <= min_dist
  BY <1>1, <1>4, <1>5
<1>7. Items' = Items /\ MapsResults' = MapsResults
  BY <1>1 DEF Items, Maps, MapsResults, registry
<1>8. called' \subseteq Nat \X Nat
  <2>1. pair \in Nat \X Nat
    BY <1>3
  <2> QED
    BY <1>1, <2>1 DEF Inductive, TypeOK
<1>9. TypeOK'
  <2>1. k' \in 0 .. Items'
    BY <1>1, <1>2, <1>7
  <2>2. stopped' \in BOOLEAN
    BY <1>1, Zenon DEF Inductive, TypeOK
  <2>3. UNCHANGED <<unified, objects, capacity, setUp, place, pc, query, queue, mapped>>
    BY <1>1 DEF registry, transfer
  <2> QED
    BY <1>6, <1>8, <2>1, <2>2, <2>3 DEF Inductive, TypeOK
<1>10. RegistryOK' /\ QueryOK'
  BY <1>1 DEF Inductive, RegistryOK, QueryOK, registry
<1>11. QueueOK'
  BY <1>1, <1>7 DEF Inductive, QueueOK, Queued, transfer
<1>12. UploadOK'
  BY <1>1 DEF UploadOK
<1>13. ResultsOK'
  <2>1. \A r : Answers(r)' <=> Answers(r)
    BY <1>1, SameAnswers DEF registry
  <2> QED
    BY <1>1, <2>1 DEF Inductive, ResultsOK, transfer
<1>14. CallsOK'
  <2>1. \A i : HostReads(i)' = HostReads(i)
    BY <1>1 DEF HostReads
  <2>2. \A i \in 0 .. k : read[i] \in IF query.op = "collide" THEN BOOLEAN ELSE Int
    BY <1>1, <1>2 DEF Inductive, ResultsOK, Answers
  <2>3. 0 .. k' - 1 = (0 .. k - 1) \cup {k}
    BY <1>1, <1>2
  <2>4. query.op = "collide" =>
          called' = {HostReads(i) : i \in {j \in 0 .. k' - 1 : read[j]}}
    <3> SUFFICES ASSUME query.op = "collide"
                 PROVE  called' = {HostReads(i) : i \in {j \in 0 .. k' - 1 : read[j]}}
      OBVIOUS
    <3>1. called' = IF read[k] THEN called \cup {HostReads(k)} ELSE called
      BY <1>1 DEF Wanted, pair
    <3>2. called = {HostReads(i) : i \in {j \in 0 .. k - 1 : read[j]}}
      BY DEF Inductive, CallsOK
    <3> QED
      BY <2>3, <3>1, <3>2
  <2>5. query.op = "distance" =>
          \A i \in 0 .. k' - 1 : HostReads(i) \in called' \/ read[i] >= min_dist'
    <3> SUFFICES ASSUME query.op = "distance", NEW i \in 0 .. k' - 1, HostReads(i) \notin called'
                 PROVE  read[i] >= min_dist'
      OBVIOUS
    <3>1. read[i] \in Int
      BY <1>2, <2>2, <2>3
    <3>2. called \subseteq called'
      BY <1>1
    <3>3. read[i] >= min_dist
      <4>1. CASE i \in 0 .. k - 1
        BY <3>2, <4>1 DEF Inductive, CallsOK
      <4>2. CASE i = k
        <5>1. ~Wanted
          BY <1>1, <4>2 DEF pair
        <5>2. ~(read[i] < min_dist)
          BY <4>2, <5>1 DEF Wanted
        <5> QED
          BY <1>4, <3>1, <5>2
      <4> QED
        BY <2>3, <4>1, <4>2
    <3> QED
      BY <1>4, <1>6, <3>1, <3>3
  <2> HIDE DEF HostReads
  <2>6. {HostReads(i) : i \in {j \in 0 .. k - 1 : read[j]}}'
          = {HostReads(i) : i \in {j \in 0 .. k' - 1 : read[j]}}
    BY <1>1, <2>1
  <2> QED
    BY <1>1, <2>1, <2>4, <2>5, <2>6 DEF CallsOK
<1> QED
  BY <1>9, <1>10, <1>11, <1>12, <1>13, <1>14 DEF Inductive

-----------------------------------------------------------------------------
(* The invariant, and what follows from it.                                *)

\* A new manager has nothing registered, queued or mapped.
LEMMA InitInductive == Init => Inductive
<1> SUFFICES ASSUME Init PROVE Inductive
  OBVIOUS
<1> USE DEF Init
<1>1. /\ Len(<<>>) = 0 /\ 1 .. 0 = {} /\ \A S : <<>> \in Seq(S)
  OBVIOUS
<1>2. NoQuery.op = "none" /\ NoQuery.shape = "none" /\ NoQuery.rows = <<>> /\ NoQuery.cols = <<>>
  BY DEF NoQuery
<1>3. QueryOK
  BY <1>1, <1>2 DEF QueryOK, NoQuery
<1>4. TypeOK
  <2>1. Cardinality(Objects) \in Nat
    BY GPUAssumption, FS_CardinalityType
  <2>2. capacity \in 0 .. Cardinality(Objects)
    BY <2>1
  <2>3. k \in 0 .. Items
    <3>1. Items \in Nat /\ k = 0
      BY <1>3, ItemsCounted
    <3> QED
      BY <3>1
  <2>4. min_dist \in 0 .. Far
    BY GPUAssumption
  <2> QED
    BY <1>1, <1>2, <2>2, <2>3, <2>4 DEF TypeOK
<1>5. RegistryOK
  BY <1>1 DEF RegistryOK
<1>6. QueueOK
  BY <1>1 DEF QueueOK
<1>7. UploadOK
  BY DEF UploadOK
<1>8. ResultsOK
  BY DEF ResultsOK
<1>9. CallsOK
  BY NoCallsYet
<1> QED
  BY <1>3, <1>4, <1>5, <1>6, <1>7, <1>8, <1>9 DEF Inductive

\* A step that changes nothing.
LEMMA StutterKeeps ==
    ASSUME Inductive, UNCHANGED vars
    PROVE  Inductive'
<1>1. UNCHANGED <<unified, objects, capacity, setUp, place, pc, query, staging, queue,
                  mapped, device, results, read, k, called, min_dist, stopped>>
  BY DEF vars, registry, transfer, answer
<1>2. Items' = Items /\ MapsResults' = MapsResults /\ Boxes' = Boxes
      /\ Maps(query)' = Maps(query) /\ Buffer' = Buffer
  BY <1>1 DEF Items, MapsResults, Maps, Boxes, Extract, Buffer
<1>3. \A c : Queued(c)' <=> Queued(c)
  BY <1>1 DEF Queued
<1>4. \A r : Answers(r)' <=> Answers(r)
  BY <1>1, SameAnswers
<1>5. TypeOK'
  BY <1>1, <1>2 DEF Inductive, TypeOK
<1>6. RegistryOK' /\ QueryOK'
  BY <1>1 DEF Inductive, RegistryOK, QueryOK
<1>7. QueueOK'
  BY <1>1, <1>2, <1>3 DEF Inductive, QueueOK
<1>8. UploadOK'
  BY <1>1, <1>2, <1>3 DEF Inductive, UploadOK
<1>9. ResultsOK'
  BY <1>1, <1>2, <1>3, <1>4 DEF Inductive, ResultsOK
<1>10. CallsOK'
  BY <1>1, SameCalls DEF Inductive
<1> QED
  BY <1>5, <1>6, <1>7, <1>8, <1>9, <1>10 DEF Inductive

\* One step per action of the manager, its host or its device.
LEMMA NextInductive == Inductive /\ [Next]_vars => Inductive'
<1> SUFFICES ASSUME Inductive, [Next]_vars PROVE Inductive'
  OBVIOUS
<1>1. ASSUME NEW o \in Objects, Register(o) PROVE Inductive'
  BY <1>1, RegisterKeeps
<1>2. ASSUME NEW o \in Objects, Unregister(o) PROVE Inductive'
  BY <1>2, UnregisterKeeps
<1>3. CASE Clear
  BY <1>3, ClearKeeps
<1>4. CASE Setup
  BY <1>4, SetupKeeps
<1>5. ASSUME NEW o \in Objects \cup Visitors, NEW p \in Places, Move(o, p) PROVE Inductive'
  BY <1>5, MoveKeeps
<1>6. CASE Query
  BY <1>6, QueriesStarted, StartKeeps
<1>7. CASE Launch
  BY <1>7, LaunchKeeps
<1>8. CASE ReadBack
  BY <1>8, ReadBackKeeps
<1>9. CASE CallNext
  BY <1>9, CallNextKeeps
<1>10. CASE Return
  BY <1>10, ReturnKeeps
<1>11. CASE DeviceStep
  BY <1>11, DeviceStepKeeps
<1>12. CASE UNCHANGED vars
  BY <1>12, StutterKeeps
<1> QED
  BY <1>1, <1>2, <1>3, <1>4, <1>5, <1>6, <1>7, <1>8, <1>9, <1>10, <1>11, <1>12 DEF Next

\* The manager's calls, the host's loops and the device keep the invariant that
\* ties them together.
THEOREM InductiveAlways == Spec => []Inductive
<1>1. Init => Inductive
  BY InitInductive
<1>2. Inductive /\ [Next]_vars => Inductive'
  BY NextInductive
<1> QED
  BY <1>1, <1>2, PTL DEF Spec

\* The variables keep their types; in particular the host's position stays within
\* the results, and the callback gets pairs of positions.
THEOREM TypeCorrect == Spec => []TypeOK
<1>1. Inductive => TypeOK
  BY DEF Inductive
<1> QED
  BY <1>1, InductiveAlways, PTL

\* A self query never writes more boxes than setup() made room for
\* (coal_gpu_collision_manager.cpp:280-374).
THEOREM QueriesFit == Spec => []BuffersFit
<1>1. Inductive => BuffersFit
  BY DEF Inductive, QueryOK, BuffersFit
<1> QED
  BY <1>1, InductiveAlways, PTL

\* What the host reads is what the device made of this query's boxes, whenever the
\* device ran the commands (coal_gpu_collision_manager.cpp:369-383).
THEOREM ResultsFresh == Spec => []FreshResults
<1>1. Inductive => FreshResults
  <2> SUFFICES ASSUME Inductive, pc = "calling", NEW i \in (0 .. Items - 1) \ Strays
               PROVE  /\ i \in DOMAIN read
                      /\ read[i] = Compare(RowPlace(ItemPair(i)[1]), ColPlace(ItemPair(i)[2]))
    BY DEF FreshResults
  <2>1. Answers(read)
    BY DEF Inductive, ResultsOK
  <2> QED
    BY <2>1 DEF Answers
<1> QED
  BY <1>1, InductiveAlways, PTL

\* No kernel starts while the host has a buffer mapped, although the callback may end
\* the loop early (coal_gpu_collision_manager.cpp:340-367).
THEOREM KernelsRunUnmapped == Spec => []NoKernelOnMapped
<1>1. Inductive => NoKernelOnMapped
  <2> SUFFICES ASSUME Inductive, queue # <<>>, Head(queue) = "kernel" PROVE mapped = {}
    BY DEF NoKernelOnMapped
  <2>1. queue \in Seq(Commands) /\ mapped \subseteq {"boxes", "results"}
    BY DEF Inductive, TypeOK
  <2>2. Len(queue) \in Nat \ {0} /\ queue[1] = "kernel"
    BY <2>1, Dequeued
  <2>3. pc = "launched" /\ Len(queue) = 1
    <3>1. 1 \in 1 .. Len(queue)
      BY <2>2
    <3> QED
      BY <2>2, <3>1 DEF Inductive, QueueOK
  <2>4. \A c : Queued(c) => c = "kernel"
    <3>1. \A i \in 1 .. 1 : i = 1
      OBVIOUS
    <3> QED
      BY <2>2, <2>3, <3>1, Zenon DEF Queued
  <2>5. "boxes" \notin mapped /\ "results" \notin mapped
    BY <2>3, <2>4 DEF Inductive, QueueOK
  <2> QED
    BY <2>1, <2>5
<1> QED
  BY <1>1, InductiveAlways, PTL

\* The callback of a collide() that runs to its end gets the overlapping pairs and
\* no others, for any other managers, and for two objects of its own
\* (coal_gpu_collision_manager.cpp:316-404, 453-654).
THEOREM CollideFindsAll == Spec => []CollideComplete
<1>1. Inductive => CollideComplete
  <2> SUFFICES ASSUME Inductive, Answered, query.op = "collide", IndexedRight
               PROVE  called = {p \in PairsAsked : Overlaps(RowPlace(p[1]), ColPlace(p[2]))}
    BY DEF CollideComplete
  <2>1. /\ \A i \in 0 .. Items - 1 : ItemPair(i) = HostReads(i) /\ i \notin Strays
        /\ \A p \in PairsAsked : \E i \in 0 .. Items - 1 : HostReads(i) = p
    BY IndexedRightAgrees DEF Inductive
  <2>2. \A i \in 0 .. Items - 1 : HostReads(i) \in PairsAsked
    BY HostReadsPairs DEF Inductive
  <2>3. Answers(read)
    BY DEF Inductive, ResultsOK, Answered
  <2>4. \A i \in 0 .. Items - 1 :
          read[i] = Overlaps(RowPlace(HostReads(i)[1]), ColPlace(HostReads(i)[2]))
    BY <2>1, <2>3 DEF Answers, Compare
  <2>5. called = {HostReads(i) : i \in {j \in 0 .. Items - 1 : read[j]}}
    BY DEF Inductive, CallsOK, Answered
  <2> HIDE DEF Overlaps, HostReads
  <2> QED
    BY <2>1, <2>2, <2>4, <2>5
<1> QED
  BY <1>1, InductiveAlways, PTL

\* A pair that distance() did not give to the callback is no nearer than the nearest
\* it did give (coal_gpu_collision_manager.cpp:656-672).
THEOREM NothingNearerPruned == Spec => []PruningIsSound
<1>1. Inductive => PruningIsSound
  <2> SUFFICES ASSUME Inductive, Answered, query.op = "distance", IndexedRight,
                      NEW p \in PairsAsked \ called
               PROVE  Distance(RowPlace(p[1]), ColPlace(p[2])) >= min_dist
    BY DEF PruningIsSound
  <2>1. PICK i \in 0 .. Items - 1 : HostReads(i) = p
    BY IndexedRightAgrees DEF Inductive
  <2>2. ItemPair(i) = p /\ i \notin Strays
    BY <2>1, IndexedRightAgrees DEF Inductive
  <2>3. Answers(read)
    BY DEF Inductive, ResultsOK, Answered
  <2>4. read[i] = Distance(RowPlace(p[1]), ColPlace(p[2]))
    BY <2>2, <2>3 DEF Answers, Compare
  <2>5. HostReads(i) \in called \/ read[i] >= min_dist
    BY DEF Inductive, CallsOK, Answered
  <2> QED
    BY <2>1, <2>4, <2>5
<1> QED
  BY <1>1, InductiveAlways, PTL
=============================================================================
