SPECIFICATION DriverFairSpec
CONSTANTS
  l1 = l1
  l2 = l2
  DataType = DataType
  ScanPattern = ScanPattern
  NoLidar = NoLidar
  Lidars = {l1, l2}
  Defined = {l1}
  Options = {DataType, ScanPattern}
  Given = {DataType, ScanPattern}
  MaxNotify = 2
  Settings <- MCSettings
  File <- MCFile
  Octet = 192
  MaxFrames = 1
  MaxSamples = 1
INVARIANTS SamplesConfigured BitsOutstanding 
PROPERTIES SetUpEnds
CHECK_DEADLOCK FALSE
