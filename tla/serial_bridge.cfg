SPECIFICATION FairBridgeSpec
CONSTANTS
  Poses = {0, 1, 3}
  NoOrigin = NoOrigin
  External0 = TRUE
INVARIANTS PortKnown PoseRelative
PROPERTIES Recovers
