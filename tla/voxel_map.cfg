SPECIFICATION Spec
CONSTANTS
    Positions <- SomePositions
    Poses <- SomePoses
    VoxelSize = 8
    Metre = 16
    MaxLayer = 2
    InitNum = 1
    UpdateNum = 1
    MaxPoints = 4
    MaxIterations = 3
    SlidingThresh = 3
    HalfMapSize = 1
INVARIANTS PlaneAccountsForPoints OwnPlaneMatched
PROPERTIES NearVoxelsKept
