SPECIFICATION Spec
CONSTANTS
    Links <- MCLinks
    Base = "base"
    Tip = "hand"
    Parent <- MCParent
    Moving <- MCMoving
    JointName <- MCJointName
    Lower <- MCLower
    Upper <- MCUpper
    Offset <- MCOffset
    LinksInOrder <- MCLinksInOrder
    Geometry <- MCGeometry
    MeshOffset <- MCMeshOffset
    Pi = 2
    Positions <- MCPositions
    Times = {1, 3}
    MaxChecks = 2
    Reach = 1
    Never = 100
CHECK_DEADLOCK FALSE
INVARIANTS TypeOK FreeMeansFree CollidedMeansContact
