-------------------------- MODULE MCCollisionScene ---------------------------
(***************************************************************************)
(* A hand on two moving links, with a finger that is outside the chain, as *)
(* the fingers of the FR3 are; its mesh is at a place where it can touch    *)
(* the first link.                                                          *)
(***************************************************************************)
EXTENDS CollisionScene

MCLinks == {"base", "link1", "link2", "hand", "finger"}
MCParent == [link1 |-> "base", link2 |-> "link1", hand |-> "link2", finger |-> "hand"]
MCMoving == {"link1", "link2", "finger"}
MCJointName ==
    [link1 |-> "joint1", link2 |-> "joint2", hand |-> "hand_joint", finger |-> "finger_joint"]
MCLower == [link1 |-> -1, link2 |-> 0, finger |-> 0]
MCUpper == [link1 |-> 1, link2 |-> 1, finger |-> 1]
MCOffset == [link1 |-> 1, link2 |-> 1, hand |-> 0, finger |-> 1]
MCLinksInOrder == <<"base", "finger", "hand", "link1", "link2">>
MCGeometry ==
    [base |-> "mesh", link1 |-> "mesh", link2 |-> "cylinder", hand |-> "mesh", finger |-> "mesh"]
MCMeshOffset == [base |-> 0, link1 |-> 0, link2 |-> 0, hand |-> 1, finger |-> -1]
MCPositions == -2 .. 2
=============================================================================
