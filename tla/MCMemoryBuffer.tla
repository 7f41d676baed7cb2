--------------------------- MODULE MCMemoryBuffer ---------------------------
(* Model values and bounds for MemoryBuffer.                               *)
EXTENDS MemoryBuffer, TLC

CONSTANTS x, y

Chunks == {<<x, y>>, <<y>>}

Symmetry == Permutations(Heap) \cup Permutations(Buf)
=============================================================================
