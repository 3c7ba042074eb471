---------------------------- MODULE MCMotionPlan -----------------------------
(***************************************************************************)
(* An arm of two moving links.  Callers pass a seed of the right size, one *)
(* that lacks a joint and one with a joint too many.                       *)
(***************************************************************************)
EXTENDS MotionPlan

MCLinks == {"base", "link1", "link2", "hand"}
MCParent == [link1 |-> "base", link2 |-> "link1", hand |-> "link2"]
MCMoving == {"link1", "link2"}
MCJointName == [link1 |-> "joint1", link2 |-> "joint2", hand |-> "hand_joint"]
MCLower == [link1 |-> 0, link2 |-> 0]
MCUpper == [link1 |-> 1, link2 |-> 0]
MCOffset == [link1 |-> 1, link2 |-> 1, hand |-> 0]
MCLinksInOrder == <<"base", "hand", "link1", "link2">>
MCGeometry == [l \in MCLinks |-> "none"]
MCMeshOffset == [l \in MCLinks |-> 0]
MCPositions == -2 .. 2
MCSeeds == {[link1 |-> 1, link2 |-> -1], [link1 |-> 0], [link1 |-> 2, link2 |-> 0],
            [link1 |-> 0, link2 |-> 0, finger |-> 0]}
MCDurations == {-1, 0, 1}
=============================================================================
