------------------------- MODULE MCBackInsertBuffer -------------------------
(* Bounds for BackInsertBuffer.                                            *)
EXTENDS BackInsertBuffer

Sizes == {1, 2, 3}
=============================================================================
