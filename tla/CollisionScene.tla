--------------------------- MODULE CollisionScene ---------------------------
(***************************************************************************)
(* collision_scene.cpp: is a configuration of the robot free of contacts   *)
(* between its links?  One thread asks.  A mesh is the place where it is;  *)
(* two meshes touch when they are at the same place, and their bounding    *)
(* boxes overlap up to the distance Reach.                                 *)
(***************************************************************************)
EXTENDS RobotModel, PairIndex

CONSTANTS
    Positions,  \* positions of a joint that the planner may sample
    Times,      \* what a phase of a check may take
    MaxChecks,  \* bound: checks that are timed
    Reach,      \* boxes overlap up to this distance
    Never       \* above every time (1e18)

ASSUME SceneAssumption ==
    /\ Positions \subseteq Int
    /\ Times \subseteq Nat
    /\ MaxChecks \in Nat /\ Reach \in Nat /\ Never \in Nat
    /\ \A t \in Times : t < Never

VARIABLES
    mode,           \* "CPU" or "GPU"
    link_objects,   \* link_objects_: the links whose mesh was read
    tf,             \* transform of the collision object of a link
    aabb,           \* its box, as of the last computeAABB
    tree,           \* the boxes in the CPU broadphase, as of its last update
    pc,             \* where the caller is
    q,              \* configuration being checked
    todo,           \* pairs of positions the broadphase has not reported yet
    collided,       \* NarrowPhaseCallback::collided
    answer,         \* what the last check returned
    stats           \* update_stats_ and collide_stats_

scene == <<mode, link_objects>>
boxes == <<tf, aabb, tree>>
vars == <<scene, boxes, pc, q, todo, collided, answer, stats>>

\* The state space of runOMPL: joint positions between the exported limits.
Configurations ==
    {c \in [Joints -> Positions] : \A j \in Joints : q_min[j] <= c[j] /\ c[j] <= q_max[j]}

NoConfiguration == <<>>

Loaded == {link_objects[i] : i \in DOMAIN link_objects}

Distance(a, b) == IF a < b THEN b - a ELSE a - b

Touch(a, b) == a = b
BoxesOverlap(a, b) == Distance(a, b) <= Reach

NewStats == [count |-> 0, total |-> 0, min |-> Never, max |-> 0]

\* TimingStats::record
Record(s, ms) ==
    [count |-> s.count + 1, total |-> s.total + ms,
     min |-> IF ms < s.min THEN ms ELSE s.min,
     max |-> IF ms > s.max THEN ms ELSE s.max]

-----------------------------------------------------------------------------
Init ==
    /\ mode \in {"CPU", "GPU"}
    /\ link_objects = <<>>
    /\ tf = [l \in Links |-> 0]
    /\ aabb = [l \in Links |-> 0]
    /\ tree = [l \in Links |-> 0]
    /\ pc = "construct"
    /\ q = NoConfiguration
    /\ todo = {}
    /\ collided = FALSE
    /\ answer = FALSE
    /\ stats = [update |-> NewStats, collide |-> NewStats]

\* The constructor.  A mesh that cannot be read is left out with a warning; the
\* set-up of the GPU broadphase throws when there is exactly one object.
Construct ==
    /\ pc = "construct"
    /\ \E readable \in SUBSET {Meshes[i] : i \in DOMAIN Meshes} :
          link_objects' = Kept(Meshes, readable)
    /\ pc' = IF mode = "GPU" /\ Len(link_objects') = 1 THEN "thrown" ELSE "ready"
    /\ UNCHANGED <<mode, boxes, q, todo, collided, answer, stats>>

\* isCollisionFree with another number of joints.
CheckWrongSize ==
    /\ pc = "ready"
    /\ q' = NoConfiguration
    /\ answer' = FALSE
    /\ UNCHANGED <<scene, boxes, pc, todo, collided, stats>>

Placed(c) == [l \in Links |->
    IF l \in Loaded /\ FkLinkFinds(l) THEN Frame(c)[l] + MeshOffset[l] ELSE tf[l]]

\* computeAABB before setTransform.
CheckBoxesFirst(c) ==
    /\ pc = "ready"
    /\ stats.update.count < MaxChecks
    /\ q' = c
    /\ tf' = Placed(c)
    /\ aabb' = [l \in Links |-> IF l \in Loaded /\ FkLinkFinds(l) THEN tf[l] ELSE aabb[l]]
    /\ tree' = IF mode = "CPU" THEN aabb' ELSE tree
    /\ pc' = "updated"
    /\ UNCHANGED <<scene, todo, collided, answer, stats>>

\* isCollisionFree up to the return of updateCollisionTransforms: links without
\* a segment are passed over, and the GPU broadphase's update() does nothing.
Check(c) ==
    /\ pc = "ready"
    /\ stats.update.count < MaxChecks
    /\ q' = c
    /\ tf' = Placed(c)
    /\ aabb' = [l \in Links |-> IF l \in Loaded /\ FkLinkFinds(l) THEN tf'[l] ELSE aabb[l]]
    /\ tree' = IF mode = "CPU" THEN aabb' ELSE tree
    /\ pc' = "updated"
    /\ UNCHANGED <<scene, todo, collided, answer, stats>>

\* The boxes of the objects at two positions, counted from 0.
PairOverlaps(b, p) ==
    BoxesOverlap(b[link_objects[p[1] + 1]], b[link_objects[p[2] + 1]])

\* DynamicAABBTreeCollisionManager: all pairs whose boxes overlap.
TreePairs == {p \in UpperPairs(Len(link_objects)) : PairOverlaps(tree, p)}

\* Work items of CoalGPUCollisionManager that compare two boxes that exist.
InBounds == {i \in 0 .. NumPairs(Len(link_objects)) - 1 :
                KernelPair(i)[2] < Len(link_objects)}

\* CoalGPUCollisionManager reporting by the kernel's numbering.
KernelHitsByItem(hits) ==
    {KernelPair(i) : i \in {j \in InBounds : PairOverlaps(aabb, KernelPair(j))} \cup hits}

\* CoalGPUCollisionManager: the pairs at the positions the kernel has set; an
\* item out of bounds reads no box, so hits may have it or not.
KernelHits(hits) ==
    {HostPair(Len(link_objects), i) :
        i \in {j \in InBounds : PairOverlaps(aabb, KernelPair(j))} \cup hits}

\* checkCollisions: the broadphase finds the pairs to look at.
Broadphase ==
    /\ pc = "updated"
    /\ collided' = FALSE
    /\ \/ mode = "CPU" /\ todo' = TreePairs
       \/ /\ mode = "GPU"
          /\ \E hits \in SUBSET ((0 .. NumPairs(Len(link_objects)) - 1) \ InBounds) :
                todo' = KernelHits(hits)
    /\ pc' = "collide"
    /\ UNCHANGED <<scene, boxes, q, answer, stats>>

\* The adjacency set with each pair in one order only.
IsContactOneWay(p) ==
    LET a == link_objects[p[1] + 1]
        b == link_objects[p[2] + 1]
    IN  ~ (a \in NonRoot /\ Parent[a] = b) /\ Touch(tf[a], tf[b])

\* NarrowPhaseCallback::collide on a pair of objects: links that a joint
\* connects are passed over.
IsContact(p) ==
    LET a == link_objects[p[1] + 1]
        b == link_objects[p[2] + 1]
    IN  ~ Adjacent(a, b) /\ Touch(tf[a], tf[b])

\* The broadphase reports a pair and goes on unless it is a contact.  The GPU
\* manager reports in the order of its loops, the tree in an order of its own.
NarrowPhase(p) ==
    /\ pc = "collide"
    /\ p \in todo
    /\ mode = "GPU" => \A r \in todo : ~ Before(r, p)
    /\ collided' = (collided \/ IsContact(p))
    /\ todo' = IF IsContact(p) THEN {} ELSE todo \ {p}
    /\ UNCHANGED <<scene, boxes, pc, q, answer, stats>>

\* isCollisionFree times the two phases and returns.
Return ==
    /\ pc = "collide"
    /\ todo = {}
    /\ answer' = ~ collided
    /\ \E t1, t2 \in Times :
          stats' = [update |-> Record(stats.update, t1), collide |-> Record(stats.collide, t2)]
    /\ pc' = "ready"
    /\ UNCHANGED <<scene, boxes, q, todo, collided>>

Next ==
    \/ Construct
    \/ CheckWrongSize
    \/ \E c \in Configurations : Check(c)
    \/ Broadphase
    \/ \E p \in todo : NarrowPhase(p)
    \/ Return

Spec == Init /\ [][Next]_vars

-----------------------------------------------------------------------------
Configured == q # NoConfiguration

\* Where the robot has the mesh of a link in the configuration that was asked about.
Stands(l) == Frame(q)[l] + MeshOffset[l]

\* A link without a segment that is not where its object was created: the scene
\* takes it to be there all the same.
Misplaced(l) == ~ FkLinkFinds(l) /\ Stands(l) # 0

InContact(a, b) == a # b /\ ~ Adjacent(a, b) /\ Touch(Stands(a), Stands(b))

\* The variables keep their types; the pairs that wait are pairs of objects.
TypeOK ==
    /\ mode \in {"CPU", "GPU"}
    /\ link_objects \in Seq(Links)
    /\ tf \in [Links -> Int] /\ aabb \in [Links -> Int] /\ tree \in [Links -> Int]
    /\ pc \in {"construct", "thrown", "ready", "updated", "collide"}
    /\ Configured => q \in Configurations
    /\ todo \subseteq UpperPairs(Len(link_objects))
    /\ collided \in BOOLEAN /\ answer \in BOOLEAN
    /\ DOMAIN stats = {"update", "collide"}

\* isCollisionFree answers true only when no two links that are not adjacent
\* touch, whatever was checked before: neither the boxes of the last check nor
\* the pair at which the search stopped shows through.  Two things are left to
\* FreeOfAllContacts and to SelfPairsCovered: links the scene has in the wrong place,
\* and the GPU broadphase, whose two ways to count pairs agree for two objects.
FreeMeansFree ==
    (/\ pc = "ready" /\ Configured /\ answer
     /\ mode = "CPU" \/ Len(link_objects) = 2)
    => \A a, b \in Loaded : InContact(a, b) => Misplaced(a) \/ Misplaced(b)

\* isCollisionFree answers false for a configuration only when two links that
\* are not adjacent touch: no box, no adjacent pair and no number read past the
\* boxes is ever mistaken for a contact, with either broadphase, and only a link
\* that the scene has in the wrong place can be.
CollidedMeansContact ==
    (pc = "ready" /\ Configured /\ ~ answer /\ \A l \in Loaded : ~ Misplaced(l))
    => \E a, b \in Loaded : InContact(a, b)

\* "true if no collisions, false otherwise" (collision_scene.hpp:36), after "Update
\* all collision object transforms" (:88): of no two links whatsoever, with the tree.
FreeOfAllContacts ==
    (pc = "ready" /\ Configured /\ answer /\ mode = "CPU")
    => \A a, b \in Loaded : ~ InContact(a, b)

\* "Export joint limits" (robot_model.hpp:24), "Get joint lower and upper
\* limits" (:70): the planner is only shown configurations within the limits of
\* the URDF.
SampledWithinLimits ==
    Configured => \A j \in Joints : Lower[j] <= q[j] /\ q[j] <= Upper[j]

-----------------------------------------------------------------------------
(* The inductive invariant: what the boxes, the search and the answer of a  *)
(* check have to do with the configuration that was asked about.           *)

\* No mesh is loaded twice, and nothing is asked before the meshes are loaded.
ObjectsOK ==
    /\ \A i, j \in 1 .. Len(link_objects) : link_objects[i] = link_objects[j] => i = j
    /\ pc \in {"construct", "thrown"} => ~ Configured /\ todo = {}

\* Where the scene has the mesh of a link.
PlacedAt(l) == IF FkLinkFinds(l) THEN Stands(l) ELSE 0

\* The objects and their boxes are where the configuration puts them; those of
\* links without a segment never moved.
PlacedOK ==
    /\ \A l \in Links \ Chain : tf[l] = 0 /\ aabb[l] = 0
    /\ Configured => \A l \in Loaded :
         /\ tf[l] = PlacedAt(l) /\ aabb[l] = tf[l]
         /\ mode = "CPU" => tree[l] = aabb[l]

Contacts == {p \in UpperPairs(Len(link_objects)) : IsContact(p)}

\* Whether no contact can have been left out by the broadphase.
Covered == mode = "CPU" \/ Len(link_objects) = 2

\* The search has a contact, or all of them are still to come.
SearchOK ==
    pc = "collide" /\ Configured =>
        /\ collided => Contacts # {}
        /\ ~ collided /\ Covered => Contacts \subseteq todo

\* And so for the answer.
AnswerOK ==
    pc = "ready" /\ Configured =>
        /\ ~ answer => Contacts # {}
        /\ answer /\ Covered => Contacts = {}

Inductive == TypeOK /\ ObjectsOK /\ PlacedOK /\ SearchOK /\ AnswerOK
=============================================================================
