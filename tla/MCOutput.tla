------------------------------ MODULE MCOutput ------------------------------
(* Bounds for Output: areas that cut every kind of character at every      *)
(* place.                                                                  *)
EXTENDS Output

Rooms == {1, 2, 3, 5}
Sizes == {1, 2, 4}
Sources == BoundedSeq({"plain", "short", "hex"}, 2)
             \cup {<<"hex", "plain", "hex">>, <<"short", "hex", "short">>}
=============================================================================
