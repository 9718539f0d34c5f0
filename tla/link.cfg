SPECIFICATION LinkSpec
CONSTANTS
  Scenarios <- SomeScenarios
  W = 8
  XorOf <- XorOfBytes
  SYNC1 = 7
  SYNC2 = 6
  RC_FRAME_MAX_PAYLOAD = 5
  OdomSize = 3
  PointSize = 2
  KfsSize = 3
  DebugSize = 3
  PathMax = 3
  KfsMax = 2
  ZoneMax = 1
  InfoMax = 2
  States = {0, 1, 2, 3, 4, 5, 6}
INVARIANTS
  FramesInOrder
  Resynchronises
CHECK_DEADLOCK FALSE
