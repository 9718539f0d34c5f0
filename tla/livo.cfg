SPECIFICATION Spec
CONSTANTS
  Horizon = 9
  ScanLen = 3
  Clouds <- MCClouds
  ImuStep = 1
  ImgGap = 2
  Lag = 4
  MAX_INI_COUNT = 1
  pub_scan_num = 1
  Settings <- MCSettings
INVARIANTS CutOnce MovedOnce StatesAtTheirTimes PublishedOnce
CHECK_DEADLOCK FALSE
