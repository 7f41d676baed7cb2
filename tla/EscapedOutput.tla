--------------------------- MODULE EscapedOutput ---------------------------
(***************************************************************************)
(* write_str_escaped and its helper (utf.hpp) as calls of the writer of    *)
(* DirectOutput: a text between quotes whose escape sequences may be cut   *)
(* by the end of a write area and are continued in the next one.           *)
(*                                                                         *)
(* A source is a sequence of "plain", "short" and "hex" characters, which  *)
(* become c, \n and \x05.  A step requests an area, encodes a character or *)
(* copies the remainder.                                                   *)
(***************************************************************************)
EXTENDS DirectOutput, SequencesExt

CONSTANTS
  Source     (* the texts that are escaped                                 *)

ASSUME SourceAssumption == Source \subseteq Seq({"plain", "short", "hex"})

VARIABLES
  escape,    (* the state of write_str_escaped and its helper              *)
  area       (* the rest of its write area                                 *)

vars == <<sink, limit, call, written, broken, escape, area>>

(* The position in write_str_escaped, src_it_ to src_end_, the remainder,  *)
(* escaped_size, and how many characters the current write_escaped found   *)
(* in its area.                                                            *)
NoEscape == [at |-> "none", source |-> <<>>, remainder |-> <<>>,
             size |-> 0, found |-> 0]

NoArea == [from |-> 0, room |-> 0]

(* Mutant: a character is counted as if it were written as \x5.            *)
CountedShort(c) == CASE c = "plain" -> 1 [] c = "short" -> 2 [] c = "hex" -> 3

(* What count_size_when_escaped adds for a character, and how many are     *)
(* written for it.                                                         *)
Counted(c) == CASE c = "plain" -> 1 [] c = "short" -> 2 [] c = "hex" -> 4
Encoded(c) == IF c = "plain" THEN 1 ELSE IF c = "short" THEN 2 ELSE 4

CountedSize(s) == FoldLeft(LAMBDA n, c : n + Counted(c), 0, s)
EncodedSize(s) == FoldLeft(LAMBDA n, c : n + Encoded(c), 0, s)

(* How many characters of the text have been encoded when this call is in  *)
(* progress: all but those of the rest of the source and the last quote.   *)
Done == written + call.left - EncodedSize(escape.source) - 1

(* t has been put into an area, at the end of the call or not.             *)
Wrote(t, next) ==
  /\ written' = written + Len(t)
  /\ call' = IF next = NoEscape THEN Idle
             ELSE [call EXCEPT !.left = @ - Len(t)]
  /\ escape' = next
  /\ UNCHANGED <<limit, broken>>

----------------------------------------------------------------------------
(* The quotes and the loop of write_str_escaped.                           *)

StartEscaped(s) ==
  /\ Start("write_escaped", EncodedSize(s) + 2)
  /\ escape' = [NoEscape EXCEPT !.at = "open", !.source = s,
                                !.size = CountedSize(s)]
  /\ UNCHANGED area

(* EMIO_TRY(area, buf.get_write_area_of_max(n)) for an area whose first    *)
(* characters are t; or the call ends with the error.                      *)
RequestArea(n, t, next) ==
  \E g \in GrantsOfMax(sink, limit, n) :
    \/ /\ g.ok
       /\ sink' = Fill(g, t)
       /\ area' = [from |-> g.from + Len(t), room |-> g.size - Len(t)]
       /\ Wrote(t, [next EXCEPT !.found = g.size - Len(t)])
    \/ /\ Fail(g)
       /\ area' = NoArea
       /\ escape' = NoEscape

OpenQuote ==
  /\ escape.at = "open"
  /\ RequestArea(escape.size + 2, Text(Done - 1, 1),
                 [escape EXCEPT !.at = "escape"])

RequestMore ==
  /\ escape.at = "more"
  /\ RequestArea(escape.size + 1, <<>>, [escape EXCEPT !.at = "escape"])

(* Mutant: the closing quote gets an area of its own.                      *)
NeverFits == FALSE

QuoteFits == area.room > 0

(* The area has room for the closing quote, or another one is requested.   *)
CloseInArea ==
  /\ escape.at = "close" /\ QuoteFits
  /\ sink' = [sink EXCEPT !.cache[area.from + 1] = written + call.left]
  /\ area' = NoArea
  /\ Wrote(<<"quote">>, NoEscape)

RequestToClose ==
  /\ escape.at = "close" /\ ~ QuoteFits
  /\ RequestArea(1, <<>>, escape)

----------------------------------------------------------------------------
(* write_escaped, called with an area.                                     *)

(* dst_it # dst_end.                                                       *)
HasSpace == area.room > 0

(* t is put into the area; the rest of it and of the source stay.          *)
Put(t, source, remainder) ==
  /\ sink' = Fill([sink |-> sink, from |-> area.from], t)
  /\ area' = [from |-> area.from + Len(t), room |-> area.room - Len(t)]
  /\ Wrote(t, [escape EXCEPT !.source = source, !.remainder = remainder])

(* Mutant: the last character is kept.                                     *)
RestWithLast(r, n) == SubSeq(r, n, Len(r))

(* What is left of the remainder r when n characters have been copied.     *)
Rest(r, n) == SubSeq(r, n + 1, Len(r))

(* write_remainder: at the beginning, and after an escape was cut.         *)
WriteRemainder ==
  /\ escape.at = "escape" /\ escape.remainder # <<>> /\ HasSpace
  /\ LET r == escape.remainder
         n == IF Len(r) <= area.room THEN Len(r) ELSE area.room
     IN Put(SubSeq(r, 1, n), escape.source, Rest(r, n))

(* The backslash is put; at least three more characters fit.               *)
Fits == area.room - 1 >= 3

AtSource ==
  /\ escape.at = "escape" /\ escape.remainder = <<>>
  /\ escape.source # <<>> /\ HasSpace

EncodeWhole ==
  /\ AtSource
  /\ LET c == Head(escape.source) IN
     /\ c = "plain" \/ Fits
     /\ Put(Text(Done, Encoded(c)), Tail(escape.source), <<>>)

(* Mutant: the remainder starts with the backslash again.                  *)
WholeEscape(c) == Text(Done, Encoded(c))

(* What the remainder holds of the escape sequence of c.                   *)
Cut(c) == Text(Done + 1, Encoded(c) - 1)

EncodeCut ==
  /\ AtSource
  /\ LET c == Head(escape.source) IN
     /\ c # "plain" /\ ~ Fits
     /\ Put(Text(Done, 1), Tail(escape.source), Cut(c))

(* Mutant: the area is counted as a whole.                                 *)
AllFound == escape.found

Written == escape.found - area.room

Complete == escape.size = Written

(* The source or the area is at its end: escaped_size says what is next.   *)
Return ==
  /\ escape.at = "escape"
  /\ ~ HasSpace \/ (escape.source = <<>> /\ escape.remainder = <<>>)
  /\ escape' = [escape EXCEPT !.size = @ - Written,
                              !.at = IF Complete THEN "close" ELSE "more"]
  /\ UNCHANGED <<sink, limit, call, written, broken, area>>

EscapedStep ==
  \/ OpenQuote \/ RequestMore \/ CloseInArea \/ RequestToClose
  \/ WriteRemainder \/ EncodeWhole \/ EncodeCut \/ Return

EscapedNext == (\E s \in Source : StartEscaped(s)) \/ EscapedStep
=============================================================================
