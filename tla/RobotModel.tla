----------------------------- MODULE RobotModel ------------------------------
(***************************************************************************)
(* robot_model.cpp: the kinematics read from a URDF.  The robot is a tree  *)
(* of links; the joint above a link is fixed or moves it.  A pose is a     *)
(* place on a line: a link is Offset further than its parent, plus the     *)
(* position of its joint if that moves.  kdl_parser names the segment of   *)
(* the joint above a link after the link.                                  *)
(***************************************************************************)
EXTENDS Integers, Sequences, FiniteSets

CONSTANTS
    Links,      \* links_ of the URDF
    Base, Tip,  \* "fr3_link0", the root, and "fr3_hand"
    Parent,     \* parent link of every link but the root
    Moving,     \* links whose parent joint is not fixed
    JointName,  \* name of the joint above every link but the root
    Lower,      \* limits->lower of the joints above the links of Moving
    Upper,      \* limits->upper of them
    Offset,     \* place of a link relative to its parent
    LinksInOrder, \* links_ of the URDF, in order of name
    Geometry,   \* type of a link's collision geometry: "mesh", another or "none"
    MeshOffset, \* place of the mesh relative to the link
    Pi          \* M_PI

NonRoot == Links \ {Base}

ASSUME RobotAssumption ==
    /\ Base \in Links /\ Tip \in Links
    /\ Parent \in [NonRoot -> Links]
    /\ \A S \in SUBSET NonRoot : S # {} => \E l \in S : Parent[l] \notin S
    /\ Moving \subseteq NonRoot
    /\ DOMAIN JointName = NonRoot
    /\ Lower \in [Moving -> Int] /\ Upper \in [Moving -> Int]
    /\ Offset \in [NonRoot -> Int]
    /\ LinksInOrder \in Seq(Links)
    /\ \A i, j \in DOMAIN LinksInOrder : i # j => LinksInOrder[i] # LinksInOrder[j]
    /\ DOMAIN Geometry = Links
    /\ MeshOffset \in [Links -> Int]
    /\ Pi \in Nat

\* kdl_chain_: the links of the segments from the base to the tip, without the
\* base, which is the frame they are expressed in.
PathTo[l \in Links] == IF l = Base THEN {} ELSE PathTo[Parent[l]] \cup {l}

Chain == PathTo[Tip]

\* The joints of the chain that move, each named by the link below it.
Joints == Chain \cap Moving

\* urdf_model.getJoint(name): the link below the joint of that name, if any.
GetJoint(name) == {l \in NonRoot : JointName[l] = name}

\* The limit of the joint of a segment, which is looked up by the segment's name.
LimitOr(segment, limits, default) ==
    IF GetJoint(segment) \cap Moving = {} THEN default
    ELSE limits[CHOOSE l \in GetJoint(segment) \cap Moving : TRUE]

q_min == [j \in Joints |-> LimitOr(j, Lower, -Pi)]
q_max == [j \in Joints |-> LimitOr(j, Upper, Pi)]

\* What a loop over s that passes over the elements outside S pushes back: the
\* n-th element is the one of S with n - 1 of them before it.
Kept(s, S) ==
    LET at == {i \in 1 .. Len(s) : s[i] \in S}
    IN  [n \in 1 .. Cardinality(at) |->
            s[CHOOSE i \in at : Cardinality({j \in at : j < i}) = n - 1]]

\* link_meshes_: the links whose collision geometry is a mesh, in order of name.
Meshes == Kept(LinksInOrder, {l \in Links : Geometry[l] = "mesh"})

\* Links directly connected by a joint of the URDF, in the chain or not.
Adjacent(a, b) ==
    \/ a \in NonRoot /\ Parent[a] = b
    \/ b \in NonRoot /\ Parent[b] = a

\* JntToCart: where configuration q puts a link.  It is defined for every link;
\* a joint outside the chain has no position in q and stays at zero.
Frame(q) ==
    LET frame[l \in Links] ==
            IF l = Base THEN 0
            ELSE frame[Parent[l]] + Offset[l] + (IF l \in Joints THEN q[l] ELSE 0)
    IN  frame

\* fkLink finds the segment of a link, and fails for a link without one.
FkLinkFinds(link) == link \in Chain
=============================================================================
