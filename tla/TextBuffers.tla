---------------------------- MODULE TextBuffers ----------------------------
(***************************************************************************)
(* What a set of growing buffers promises, without memory: each live       *)
(* buffer holds the text written to it since it was constructed or reset.  *)
(* A copy duplicates the text, a move takes it and leaves the source       *)
(* empty but usable, and no step touches a buffer that it does not name.   *)
(***************************************************************************)
EXTENDS Sequences

CONSTANTS
  Buf,       (* the buffers                                                *)
  Chunk      (* the character sequences written in one call                *)

VARIABLES
  alive,     (* the buffers constructed and not yet destroyed              *)
  text       (* their content; empty for a buffer that is not alive        *)

vars == <<alive, text>>

Init ==
  /\ alive = {}
  /\ text = [b \in Buf |-> <<>>]

New(b) ==
  /\ b \notin alive
  /\ alive' = alive \cup {b}
  /\ UNCHANGED text

Extend(b, s) ==
  /\ b \in alive
  /\ text' = [text EXCEPT ![b] = @ \o s]
  /\ UNCHANGED alive

Clear(b) ==
  /\ b \in alive
  /\ text' = [text EXCEPT ![b] = <<>>]
  /\ UNCHANGED alive

Copy(b, c) ==
  /\ c \in alive \ {b}
  /\ alive' = alive \cup {b}
  /\ text' = [text EXCEPT ![b] = text[c]]

Move(b, c) ==
  /\ c \in alive \ {b}
  /\ alive' = alive \cup {b}
  /\ text' = [text EXCEPT ![b] = text[c], ![c] = <<>>]

Delete(b) ==
  /\ b \in alive
  /\ alive' = alive \ {b}
  /\ text' = [text EXCEPT ![b] = <<>>]

Next ==
  \E b \in Buf :
    \/ New(b) \/ Clear(b) \/ Delete(b)
    \/ \E s \in Chunk : Extend(b, s)
    \/ \E c \in Buf : Copy(b, c) \/ Move(b, c)

Spec == Init /\ [][Next]_vars
=============================================================================
