SPECIFICATION PreprocessSpec
CONSTANTS
  LidarTypes <- Types
  Scans <- SomeScans
  N_SCANS = 2
  point_filter_num = 2
  group_size = 2
  Step = 1
  Ms = 3
  Turn = 5
INVARIANTS
  TimesUsable
  YawTimesRight
  OneFeatureEach
CHECK_DEADLOCK FALSE
