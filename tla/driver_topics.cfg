SPECIFICATION DriverSpec
CONSTANTS
  l1 = l1
  l2 = l2
  DataType = DataType
  ScanPattern = ScanPattern
  NoLidar = NoLidar
  Lidars = {l1, l2}
  Defined = {}
  Options = {DataType}
  Given = {}
  MaxNotify = 2
  Settings <- MCLaunch
  File <- NoFile
  Octet = 192
  MaxFrames = 1
  MaxSamples = 0
INVARIANTS OneLidarOneTopic
CHECK_DEADLOCK FALSE
