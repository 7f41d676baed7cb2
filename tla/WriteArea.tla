----------------------------- MODULE WriteArea -----------------------------
(***************************************************************************)
(* The base class emio::buffer (buffer.hpp): the accounting of the write   *)
(* area a concrete buffer currently offers.  A write area is a record with *)
(* at least the fields                                                     *)
(*                                                                         *)
(*   len     area_.size(), the length of the span                          *)
(*   taken   used_, the part of it already handed out to callers           *)
(*                                                                         *)
(* Where the span lies is the business of the concrete buffers, whose      *)
(* records add fields of their own.  The operators are the pieces of       *)
(* get_write_area_of_max and get_write_area_of; the virtual call between   *)
(* them, request_write_area, is an action of each concrete buffer.         *)
(***************************************************************************)
EXTENDS Naturals

Min2(a, b) == IF a <= b THEN a ELSE b

(* set_write_area: a fresh span, nothing of it handed out.                 *)
Area(n) == [len |-> n, taken |-> 0]

(* remaining_capacity.                                                     *)
Remaining(w) == w.len - w.taken

(* The caller is served from the current area: it is large enough, or the  *)
(* buffer cannot grow.                                                     *)
ServedInPlace(w, fixed, size) == Remaining(w) >= size \/ fixed

(* ... in which case a fixed buffer without room answers eof.              *)
EndOfArea(w, size) == Remaining(w) = 0 /\ size # 0

(* How much a call served in place hands out.                              *)
InPlace(w, size) == Min2(Remaining(w), size)

(* used_ += n.                                                             *)
Take(w, n) == [w EXCEPT !.taken = @ + n]

(* Mutant: the area is kept.                                               *)
KeepArea(w, n) == w

(* get_write_area_of gives a too short area back before it reports eof.    *)
GiveBack(w, n) == [w EXCEPT !.taken = @ - n]
=============================================================================
