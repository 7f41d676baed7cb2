----------------------------- MODULE CharStream -----------------------------
(***************************************************************************)
(* What formatting into any buffer promises its caller: the output is a    *)
(* prefix of the text, it only ever grows, and it never exceeds the limit. *)
(* The k-th character of the text is represented by the number k.          *)
(***************************************************************************)
EXTENDS Naturals, Sequences

CONSTANT
  Limit      (* the limits a stream may be opened with                     *)

VARIABLES
  limit,     (* the output never gets longer                               *)
  accepted,  (* length of the text written so far                          *)
  output     (* what the reader of the output sees                         *)

vars == <<limit, accepted, output>>

Init ==
  /\ limit \in Limit
  /\ accepted = 0
  /\ output = <<>>

(* Characters are accepted, some of them or of earlier ones get through.   *)
Write ==
  /\ accepted' \in Nat
  /\ accepted' >= accepted
  /\ output' = [k \in 1..Len(output') |-> k]
  /\ Len(output') \in Len(output)..accepted'
  /\ Len(output') <= limit
  /\ UNCHANGED limit

(* The next text begins, behind what has been kept of this one or in a new *)
(* place, and with a limit of its own.                                     *)
Open ==
  /\ limit' \in Limit
  /\ \/ accepted' = 0 /\ output' = <<>>
     \/ accepted' \in Len(output)..accepted /\ UNCHANGED output
  /\ accepted' <= limit'

Spec == Init /\ [][Write \/ Open]_vars
=============================================================================
