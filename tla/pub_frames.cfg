SPECIFICATION Spec
CONSTANTS
  NLidars = 2
  Configured = {0}
  kMaxSourceLidar = 2
  DotNum = 2
  Ms = 2
  publish_interval_ms = 2
  PtpOffset = 5
  Wrap = 64
  Horizon = 3
  MaxQueue = 2
  MaxLost = 1
  MaxImu = 2
  ImuHorizon = 0
  Sampling = {0}
INVARIANTS PointsAccounted FrameSpan StoredRight 
CHECK_DEADLOCK FALSE
