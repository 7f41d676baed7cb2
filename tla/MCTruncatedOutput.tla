-------------------------- MODULE MCTruncatedOutput --------------------------
(* Bounds for TruncatedOutput: primaries with a cache at least as large as  *)
(* the one of the truncating buffer, and smaller ones.                      *)
EXTENDS TruncatedOutput

LargeRooms == {2, 3, 5}
SmallRooms == {1, 3}
Sizes == {1, 2, 3}
=============================================================================
