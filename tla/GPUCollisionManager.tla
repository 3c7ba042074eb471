------------------------ MODULE GPUCollisionManager -------------------------
(***************************************************************************)
(* coal_gpu_collision_manager.cpp: a broadphase that compares bounding     *)
(* boxes on an OpenCL device.                                              *)
(*                                                                         *)
(* The host makes one call at a time; the device executes the commands of  *)
(* an in-order queue in its own time.  A non-blocking write reads host     *)
(* memory when the device gets to it, and only the blocking read or map at *)
(* the end of a query waits for the queue to drain.  A box is a place on a *)
(* line: boxes overlap when they are at the same place, and their distance *)
(* is the distance of their places, which never exceeds that of the        *)
(* objects inside (Gap more).                                              *)
(***************************************************************************)
EXTENDS Integers, Sequences, FiniteSets, PairIndex

CONSTANTS
    Objects,    \* objects that may be registered
    Visitors,   \* objects that queries compare with the registered ones
    Others,     \* contents of the managers a query may be given
    Places,     \* where a box can be
    MaxQueue,   \* bound: no query starts behind more pending commands
    Gap,        \* two objects are at most this much farther than their boxes
    Far         \* above every distance (numeric_limits::max())

ASSUME GPUAssumption ==
    /\ IsFiniteSet(Objects)
    /\ Objects \cap Visitors = {}
    /\ Others \subseteq Seq(Visitors) \ {<<>>}
    /\ Places \subseteq Nat
    /\ Gap \in Nat /\ Far \in Nat /\ MaxQueue \in Nat

VARIABLES
    unified,    \* has_unified_memory_
    objects,    \* objects_
    capacity,   \* objects the persistent buffers and staging are sized for
    setUp,      \* setup() has returned since the last registration
    place,      \* the box of every object
    pc,         \* where the host is in a query
    query,      \* what the query compares: [op, shape, rows, cols]
    staging,    \* host copies of the boxes of rows and cols
    queue,      \* commands the device has not executed
    mapped,     \* buffers mapped into host memory
    device,     \* device copies of the boxes of rows and cols
    results,    \* the device's result buffers
    read,       \* the results the host reads
    k,          \* the host's position in them
    called,     \* pairs given to the callback
    min_dist,   \* min_dist
    stopped     \* the callback returned true

registry == <<unified, objects, capacity, setUp, place>>
transfer == <<staging, queue, mapped, device, results>>
answer   == <<read, k, called, min_dist, stopped>>
vars == <<registry, pc, query, transfer, answer>>

Overlaps(a, b) == a = b
Distance(a, b) == IF a < b THEN b - a ELSE a - b

\* extractAABBs
Extract(objs) == [i \in 1 .. Len(objs) |-> place[objs[i]]]

NoQuery == [op |-> "none", shape |-> "none", rows |-> <<>>, cols |-> <<>>]
NoBoxes == [rows |-> <<>>, cols |-> <<>>]

\* buf_overlaps_self_, buf_distances_self_, and the buffer of the results of a
\* query against others, which lives as long as the call.
Buffers == {"collide", "distance", "temporary"}

Buffer == IF query.shape = "self" THEN query.op ELSE "temporary"

\* Work items of the query.
Items ==
    IF query.shape = "self" THEN NumPairs(Len(query.rows))
                            ELSE Len(query.rows) * Len(query.cols)

\* The pair of positions that work item i compares, and the one to which the
\* host takes the result at i to belong.
ItemPair(i) ==
    IF query.shape = "self" THEN KernelPair(i) ELSE CrossPair(Len(query.cols), i)

HostReads(i) ==
    IF query.shape = "self"
    THEN HostPair(Len(query.rows), i)
    ELSE CHOOSE p \in (0 .. Len(query.rows) - 1) \X (0 .. Len(query.cols) - 1) :
            CrossIndex(Len(query.cols), p[1], p[2]) = i

Compare(a, b) == IF query.op = "collide" THEN Overlaps(a, b) ELSE Distance(a, b)

\* Work items that compare a position past the last box: they read memory that
\* is no box.
Strays ==
    {i \in 0 .. Items - 1 : LET p == ItemPair(i) IN
        p[1] >= Len(query.rows) \/ p[2] >= Len(query.cols)}

\* The kernels; junk is what the stray items make of what they read.
Kernel(boxes, junk) ==
    [i \in 0 .. Items - 1 |->
        IF i \in Strays THEN junk[i]
        ELSE Compare(boxes.rows[ItemPair(i)[1] + 1], boxes.cols[ItemPair(i)[2] + 1])]

Junk == [Strays -> IF query.op = "collide" THEN BOOLEAN ELSE {0, Far - 1}]

-----------------------------------------------------------------------------
Init ==
    /\ unified \in BOOLEAN
    /\ objects = <<>>
    /\ capacity = 0
    /\ setUp = FALSE
    /\ place \in [Objects \cup Visitors -> Places]
    /\ pc = "idle"
    /\ query = NoQuery
    /\ staging = NoBoxes
    /\ queue = <<>>
    /\ mapped = {}
    /\ device = NoBoxes
    /\ results = [b \in Buffers |-> <<>>]
    /\ read = <<>>
    /\ k = 0
    /\ called = {}
    /\ min_dist = Far
    /\ stopped = FALSE

Registered == {objects[i] : i \in 1 .. Len(objects)}

(* The registry. *)

BetweenQueries == pc = "idle" /\ UNCHANGED <<pc, query, transfer, answer>>

\* registerObject, registerObjects; the header wants setup() called afterwards.
Register(o) ==
    /\ BetweenQueries
    /\ o \notin Registered
    /\ objects' = Append(objects, o)
    /\ setUp' = FALSE
    /\ UNCHANGED <<unified, capacity, place>>

\* unregisterObject: find and erase, which moves the later ones up.
Unregister(o) ==
    /\ BetweenQueries
    /\ \E i \in 1 .. Len(objects) :
         /\ objects[i] = o
         /\ objects' = [j \in 1 .. Len(objects) - 1 |->
                          objects[IF j < i THEN j ELSE j + 1]]
    /\ UNCHANGED <<unified, capacity, setUp, place>>

Clear ==
    /\ BetweenQueries
    /\ objects # <<>>
    /\ objects' = <<>>
    /\ UNCHANGED <<unified, capacity, setUp, place>>

\* setup() keeps the buffers it has.
SetupOnce ==
    /\ BetweenQueries
    /\ LET n == Len(objects) IN
       /\ capacity' = IF capacity = 0 THEN n ELSE capacity
       /\ setUp' = (n # 1)
    /\ UNCHANGED <<unified, objects, place>>

\* setup(): returns at once without objects; one object has no pairs, and a
\* buffer of size 0 cannot be created, so allocBuffer throws.
Setup ==
    /\ BetweenQueries
    /\ LET n == Len(objects) IN
       /\ capacity' = IF n = 0 THEN capacity ELSE n
       /\ setUp' = (n # 1)
    /\ UNCHANGED <<unified, objects, place>>

\* The owner of an object moves it and calls computeAABB.
Move(o, p) ==
    /\ BetweenQueries
    /\ place' = [place EXCEPT ![o] = p]
    /\ UNCHANGED <<unified, objects, capacity, setUp>>

-----------------------------------------------------------------------------
(* A query: collide or distance, against the objects themselves, one object *)
(* or another manager's objects.  Only the self query uses the persistent   *)
(* buffers, and only it maps them when memory is unified.                   *)

Maps(q) == unified /\ q.shape = "self"

\* The host writes the boxes itself into mapped memory, or stages them and
\* enqueues a non-blocking write; then the kernel, refused without work items.
Start(q) ==
    LET boxes == [rows |-> Extract(q.rows), cols |-> Extract(q.cols)] IN
    /\ pc = "idle"
    /\ objects # <<>>
    /\ Len(queue) <= MaxQueue
    /\ query' = q
    /\ pc' = "uploaded"
    /\ IF Maps(q)
       THEN /\ queue = <<>>             \* the blocking map
            /\ device' = boxes
            /\ mapped' = mapped \cup {"boxes"}
            /\ queue' = <<"unmap boxes">>
            /\ UNCHANGED staging
       ELSE /\ staging' = boxes
            /\ queue' = Append(queue, "write")
            /\ UNCHANGED <<device, mapped>>
    /\ UNCHANGED <<registry, results, answer>>

\* collide(callback), distance(callback), called after setup() as the header
\* wants.
QuerySelf(op) ==
    /\ setUp
    /\ Start([op |-> op, shape |-> "self", rows |-> objects, cols |-> objects])

\* collide(obj, callback), distance(obj, callback)
QueryOne(op, v) ==
    Start([op |-> op, shape |-> "one", rows |-> <<v>>, cols |-> objects])

\* collide(other_manager, callback), distance(other_manager, callback)
QueryCross(op, others) ==
    Start([op |-> op, shape |-> "cross", rows |-> objects, cols |-> others])

Launch ==
    /\ pc = "uploaded"
    /\ pc' = "launched"
    /\ queue' = IF Items = 0 THEN queue ELSE Append(queue, "kernel")
    /\ UNCHANGED <<registry, query, staging, mapped, device, results, answer>>

\* The device executes its oldest command.
DeviceStep ==
    /\ queue # <<>>
    /\ queue' = Tail(queue)
    /\ \/ /\ Head(queue) = "write"
          /\ device' = staging
          /\ UNCHANGED <<results, mapped>>
       \/ /\ Head(queue) = "kernel"
          /\ \E junk \in Junk :
                results' = [results EXCEPT ![Buffer] = Kernel(device, junk)]
          /\ UNCHANGED <<device, mapped>>
       \/ /\ Head(queue) = "unmap boxes"
          /\ mapped' = mapped \ {"boxes"}
          /\ UNCHANGED <<device, results>>
       \/ /\ Head(queue) = "unmap results"
          /\ mapped' = mapped \ {"results"}
          /\ UNCHANGED <<device, results>>
    /\ UNCHANGED <<registry, pc, query, staging, answer>>

MapsResults == Maps(query) /\ Items # 0

\* What the host sees and does once the read or map has returned: distance()
\* copies the results and unmaps them at once, collide() works on the mapping.
Fetch ==
    /\ pc = "launched"
    /\ pc' = "calling"
    /\ read' = IF Items = 0 THEN <<>> ELSE results[Buffer]
    /\ mapped' = IF MapsResults THEN mapped \cup {"results"} ELSE mapped
    /\ queue' = IF MapsResults /\ query.op = "distance"
                THEN Append(queue, "unmap results") ELSE queue
    /\ UNCHANGED <<registry, query, staging, device, results, k, called, min_dist,
                   stopped>>

\* The read does not wait for the device.
ReadAtOnce == Fetch

\* enqueueReadBuffer or enqueueMapBuffer, blocking: the queue drains first.  A
\* range of size 0 is refused without waiting.
ReadBack == (Items = 0 \/ queue = <<>>) /\ Fetch

\* Pairs that are only a little closer are skipped.
WantedByMargin == IF query.op = "collide" THEN read[k] ELSE read[k] + 1 < min_dist

\* Whether pair k goes to the callback: its boxes overlap, or are closer than the
\* nearest objects so far.
Wanted == IF query.op = "collide" THEN read[k] ELSE read[k] < min_dist

\* One pair of the host's loops; a distance callback lowers min_dist to the
\* objects' distance d when that is less, and either may stop the query.
CallNext ==
    LET pair == HostReads(k) IN
        /\ pc = "calling"
        /\ k < Items /\ ~stopped
        /\ k' = k + 1
        /\ IF Wanted
           THEN /\ called' = called \cup {pair}
                /\ stopped' \in BOOLEAN
                /\ IF query.op = "distance"
                   THEN \E gap \in 0 .. Gap :
                          LET d == gap + Distance(place[query.rows[pair[1] + 1]],
                                                  place[query.cols[pair[2] + 1]])
                          IN min_dist' = IF d < min_dist THEN d ELSE min_dist
                   ELSE UNCHANGED min_dist
           ELSE UNCHANGED <<called, stopped, min_dist>>
        /\ UNCHANGED <<registry, pc, query, transfer, read>>

\* The position in the results outlives the call.
LeaveKeepsPosition ==
    /\ pc = "calling"
    /\ k = Items \/ stopped
    /\ pc' = "idle"
    /\ query' = NoQuery
    /\ read' = <<>>
    /\ called' = {}
    /\ min_dist' = Far
    /\ stopped' = FALSE
    /\ UNCHANGED <<registry, mapped, staging, device, results, k>>

\* The call's local variables go, and the buffers of a query against others.
Leave ==
    /\ pc = "calling"
    /\ k = Items \/ stopped
    /\ pc' = "idle"
    /\ query' = NoQuery
    /\ read' = <<>>
    /\ k' = 0
    /\ called' = {}
    /\ min_dist' = Far
    /\ stopped' = FALSE
    /\ IF query.shape = "self"
       THEN UNCHANGED <<staging, device, results>>
       ELSE /\ staging' = NoBoxes
            /\ device' = NoBoxes
            /\ results' = [results EXCEPT !["temporary"] = <<>>]
    /\ UNCHANGED <<registry, mapped>>

\* An early exit leaves the results mapped.
ReturnMapped ==
    /\ Leave
    /\ queue' = IF MapsResults /\ query.op = "collide" /\ ~stopped
                THEN Append(queue, "unmap results") ELSE queue

\* The end of the loop, or the early exit of a collide(), which unmaps the results.
Return ==
    /\ Leave
    /\ queue' = IF MapsResults /\ query.op = "collide"
                THEN Append(queue, "unmap results") ELSE queue

Query ==
    \E op \in {"collide", "distance"} :
        \/ QuerySelf(op)
        \/ \E v \in Visitors : QueryOne(op, v)
        \/ \E others \in Others : QueryCross(op, others)

Next ==
    \/ \E o \in Objects : Register(o) \/ Unregister(o)
    \/ Clear
    \/ Setup
    \/ \E o \in Objects \cup Visitors, p \in Places : Move(o, p)
    \/ Query
    \/ Launch \/ ReadBack \/ CallNext \/ Return
    \/ DeviceStep

Spec == Init /\ [][Next]_vars

-----------------------------------------------------------------------------
Commands == {"write", "kernel", "unmap boxes", "unmap results"}

\* The types of the variables.
TypeOK ==
    /\ unified \in BOOLEAN /\ setUp \in BOOLEAN /\ stopped \in BOOLEAN
    /\ objects \in Seq(Objects)
    /\ capacity \in 0 .. Cardinality(Objects)
    /\ place \in [Objects \cup Visitors -> Places]
    /\ pc \in {"idle", "uploaded", "launched", "calling"}
    /\ query.op \in {"none", "collide", "distance"}
    /\ query.shape \in {"none", "self", "one", "cross"}
    /\ queue \in Seq(Commands)
    /\ mapped \subseteq {"boxes", "results"}
    /\ k \in 0 .. Items
    /\ called \subseteq Nat \X Nat
    /\ min_dist \in 0 .. Far

Answered == pc = "calling" /\ k = Items /\ ~stopped

RowPlace(i) == place[query.rows[i + 1]]
ColPlace(j) == place[query.cols[j + 1]]

\* The pairs of positions the query is about.
PairsAsked ==
    IF query.shape = "self"
    THEN UpperPairs(Len(query.rows))
    ELSE (0 .. Len(query.rows) - 1) \X (0 .. Len(query.cols) - 1)

\* The pairs the device got right: those of a query against others, and those of
\* a self query on at most two objects.
IndexedRight == query.shape # "self" \/ Len(query.rows) <= 2

\* Whatever was registered, unregistered and set up before, a self query never
\* writes more boxes than the persistent buffers hold (setup and the registry
\* functions; the header's order of calls).
BuffersFit ==
    pc # "idle" /\ query.shape = "self" => Len(query.rows) <= capacity

\* The host looks at the results of this query's boxes, never at those of an
\* earlier query or at boxes the device had not received yet: the write is
\* non-blocking, and the final read waits for all of it.
FreshResults ==
    pc = "calling" =>
        \A i \in (0 .. Items - 1) \ Strays :
            /\ i \in DOMAIN read
            /\ read[i] = Compare(RowPlace(ItemPair(i)[1]), ColPlace(ItemPair(i)[2]))

\* The device never starts a kernel on a buffer the host still has mapped: an
\* early exit of the callback loop unmaps the results as the normal end does.
NoKernelOnMapped ==
    queue # <<>> /\ Head(queue) = "kernel" => mapped = {}

\* The callback gets exactly the pairs whose boxes overlap when it does not stop
\* the query (collide, for the queries whose pairs are indexed right).
CollideComplete ==
    Answered /\ query.op = "collide" /\ IndexedRight =>
        called = {p \in PairsAsked : Overlaps(RowPlace(p[1]), ColPlace(p[2]))}

\* The pairs that distance() skips have boxes no nearer than the nearest objects
\* found, so that skipping them cannot change the answer.
PruningIsSound ==
    Answered /\ query.op = "distance" /\ IndexedRight =>
        \A p \in PairsAsked \ called :
            Distance(RowPlace(p[1]), ColPlace(p[2])) >= min_dist

\* "Each 1D work item k maps to exactly one unique pair (i, j) with i < j,
\* covering all N*(N-1)/2 pairs": so a self query gives its callback every pair
\* whose boxes overlap.
SelfPairsCovered ==
    Answered /\ query.op = "collide" /\ query.shape = "self" =>
        \A p \in PairsAsked :
            Overlaps(RowPlace(p[1]), ColPlace(p[2])) => p \in called

-----------------------------------------------------------------------------
(* The inductive invariant: what relates the host, the queue and the device *)
(* between the steps of a query.                                            *)

Queued(c) == \E i \in 1 .. Len(queue) : queue[i] = c

\* No object is registered twice, so no more are than there are.
RegistryOK ==
    /\ \A i, j \in 1 .. Len(objects) : objects[i] = objects[j] => i = j
    /\ setUp => Len(objects) <= capacity

\* A query is of non-empty lists; a self query is of what setup() has made room
\* for; until the results are read the loops have not begun.
QueryOK ==
    /\ query \in [op : {"none", "collide", "distance"},
                  shape : {"none", "self", "one", "cross"},
                  rows : Seq(Objects \cup Visitors), cols : Seq(Objects \cup Visitors)]
    /\ pc = "idle" <=> query.op = "none"
    /\ pc = "idle" => query = NoQuery
    /\ query.shape = "self" => query.rows = query.cols /\ Len(query.rows) <= capacity
    /\ pc # "calling" => k = 0 /\ called = {} /\ min_dist = Far

\* The kernel of a query is its last command; a mapped buffer has its unmapping
\* enqueued or the host still in the loop that enqueues it.
QueueOK ==
    /\ \A i \in 1 .. Len(queue) :
         queue[i] = "kernel" => pc = "launched" /\ Items # 0 /\ i = Len(queue)
    /\ "boxes" \in mapped => Queued("unmap boxes")
    /\ "results" \in mapped =>
         Queued("unmap results") \/ (pc = "calling" /\ MapsResults /\ query.op = "collide")

Boxes == [rows |-> Extract(query.rows), cols |-> Extract(query.cols)]

\* The boxes of the query are on the device, or staged and on their way.
UploadOK ==
    pc \in {"uploaded", "launched"} =>
        IF Maps(query)
        THEN device = Boxes /\ ~Queued("write")
        ELSE staging = Boxes /\ (device = Boxes \/ Queued("write"))

\* r has an answer of every work item, the comparison of the two boxes if those
\* are boxes.
Answers(r) ==
    \A i \in 0 .. Items - 1 :
        /\ i \in DOMAIN r
        /\ r[i] \in IF query.op = "collide" THEN BOOLEAN ELSE Int
        /\ i \notin Strays =>
             r[i] = Compare(RowPlace(ItemPair(i)[1]), ColPlace(ItemPair(i)[2]))

\* Once the kernel has run, its buffer has the answers, and then the host.
ResultsOK ==
    /\ DOMAIN results = Buffers
    /\ pc = "launched" /\ Items # 0 /\ ~Queued("kernel") => Answers(results[Buffer])
    /\ pc = "calling" => Answers(read)

\* What the loop has done with the results before position k.
CallsOK ==
    /\ query.op = "collide" => called = {HostReads(i) : i \in {j \in 0 .. k - 1 : read[j]}}
    /\ query.op = "distance" =>
         \A i \in 0 .. k - 1 : HostReads(i) \in called \/ read[i] >= min_dist

Inductive ==
    TypeOK /\ RegistryOK /\ QueryOK /\ QueueOK /\ UploadOK /\ ResultsOK /\ CallsOK
=============================================================================
