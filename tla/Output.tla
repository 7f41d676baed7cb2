------------------------------- MODULE Output -------------------------------
(***************************************************************************)
(* All calls of the writer, of DirectOutput and EscapedOutput, one after   *)
(* the other on the same buffer, and what the caller of emio sees of them. *)
(***************************************************************************)
EXTENDS EscapedOutput

OutputInit == Init /\ escape = NoEscape /\ area = NoArea

Next ==
  \/ DirectNext /\ UNCHANGED <<escape, area>>
  \/ EscapedNext

(* The program executes a call it has begun.                               *)
Step == (DirectStep /\ UNCHANGED <<escape, area>>) \/ EscapedStep

Spec == OutputInit /\ [][Next]_vars /\ WF_vars(Step)

(* The buffer without the part of the write area that is still empty.      *)
Seen == [sink EXCEPT !.taken = @ - area.room]

----------------------------------------------------------------------------
(* Types; the used part of a cache stays inside it (buffer.hpp:123-125),   *)
(* the rest of an area lies at its end (write_str_escaped).                *)
TypeOK ==
  /\ sink \in [kind : Kinds, room : Nat, len : Nat, taken : Nat,
               cache : Seq(Nat), out : Seq(Nat), count : Nat]
  /\ sink.taken <= sink.len /\ sink.len <= sink.room
  /\ Len(sink.cache) = sink.room
  /\ limit \in Nat
  /\ call \in [op : {"none", "write_str", "write_int", "write_escaped"},
               left : Nat]
  /\ written \in 0..MaxText
  /\ broken \in BOOLEAN
  /\ escape.at \in {"none", "open", "escape", "more", "close"}
  /\ escape.at # "none" <=> call.op = "write_escaped"
  /\ escape.size \in Nat /\ escape.found \in Nat
  /\ Len(escape.remainder) <= 3
  /\ area.room > 0 => area.from + area.room = sink.taken

Upto(n) == Text(0, n)

(* n characters, as far as the limit lets them through.                    *)
Within(n) == IF n < limit THEN n ELSE limit

(* No character is lost, repeated or swapped on its way through escapes    *)
(* and caches until a file refuses some, whatever is written and flushed   *)
(* when and wherever areas end: delivered and pending text together are    *)
(* the text (write_escaped, request_write_area, flush), and count() counts *)
(* it (counting_buffer, truncating_iterator).                              *)
NothingLost ==
  ~ broken =>
    LET flushed == written - Seen.taken IN
    CASE sink.kind = "counting" -> sink.count = flushed
      [] sink.kind = "limited"  ->
           /\ sink.count = flushed
           /\ Delivered(Seen) = Upto(Within(flushed))
           /\ Pending(Seen) = Text(flushed, Seen.taken)
      [] OTHER -> Content(Seen) = Upto(written)

(* escaped_size is what the helper still has to write, the remainder of a  *)
(* cut escape included: it reaches zero with the last character of the     *)
(* source, neither before nor after (count_size_when_escaped).             *)
SizeMatches ==
  escape.at \in {"open", "more", "close"} =>
    escape.size = Len(escape.remainder) + EncodedSize(escape.source)

(* What a failed write leaves behind: a call answers eof only when a file  *)
(* has not taken all that was written so far (flush), when a span is full  *)
(* or too small for a number, or when a number is longer than the cache    *)
(* (get_write_area_of); in particular an area for the closing quote is     *)
(* asked for only when it is needed.                                       *)
EofIsJustified ==
  [][(call # Idle /\ call' = Idle /\ written' < written + call.left) =>
       \/ sink.kind = "file" /\ Len(sink'.out) < Len(Content(Seen))
       \/ /\ sink.kind = "span"
          /\ IF call.op = "write_int" THEN sink.taken + call.left > sink.room
                                      ELSE Seen.taken = sink.room
       \/ call.op = "write_int" /\ call.left > sink.room]_vars

(* Every call of the writer returns (the loops of write_str, write_char_n  *)
(* and write_str_escaped), however small the areas are.                    *)
CallsReturn == call # Idle ~> call = Idle

(* The caller of a format function sees a growing prefix of its text.      *)
Stream == INSTANCE CharStream WITH
  Limit <- Limit \cup {MaxText},
  accepted <- written, output <- Delivered(Seen)
StreamsText == Stream!Spec
=============================================================================
