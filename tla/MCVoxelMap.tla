----------------------------- MODULE MCVoxelMap -----------------------------
(* Positions on both sides of the origin, which a cfg cannot write.        *)
EXTENDS VoxelMap

SomePositions == {-3, -1}
SomePoses == {-8, 1, 17}
=============================================================================
