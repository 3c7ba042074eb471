SPECIFICATION Spec
CONSTANTS
    Links <- MCLinks
    Base = "base"
    Tip = "hand"
    Parent <- MCParent
    Moving <- MCMoving
    JointName <- MCJointName
    Lower <- MCLower
    Upper <- MCUpper
    Offset <- MCOffset
    LinksInOrder <- MCLinksInOrder
    Geometry <- MCGeometry
    MeshOffset <- MCMeshOffset
    Pi = 1
    Positions <- MCPositions
    Targets = {1}
    Seeds <- MCSeeds
    Durations <- MCDurations
    Tolerance = 1
    MaxWaypoints = 4
    TicksPerUnit = 12
CHECK_DEADLOCK FALSE
INVARIANT VelocityContinuous
