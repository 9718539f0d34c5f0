SPECIFICATION Spec
CONSTANTS
  Depth = 2
  MaxQueue = 11
  MaxTargets = 3
INVARIANTS NeverAhead RoutesCollect
PROPERTIES ReachesDock
