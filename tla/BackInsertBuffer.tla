-------------------------- MODULE BackInsertBuffer --------------------------
(***************************************************************************)
(* iterator_buffer of a back_insert_iterator (buffer.hpp): the write area  *)
(* lies in the container itself, which is resized to make room.  The k-th  *)
(* character written is the number k.  A character written behind the end  *)
(* of the container is lost.                                               *)
(***************************************************************************)
EXTENDS WriteArea, Sequences

CONSTANTS
  Capacity,    (* the smaller of Capacity and the container's capacity()   *)
  Filled,      (* sizes of containers that are handed over                 *)
  Size,        (* numbers of characters written in one call                *)
  MaxText,     (* bound: so many characters are written                    *)
  FlushedOnce  (* TRUE: flush() comes last, as out() does in format_to     *)

VARIABLES
  container,   (* the characters of the container                          *)
  used,        (* used_ of the iterator_buffer                             *)
  area,        (* the write area, from offset `from' of the container      *)
  written,     (* length of the text in the areas handed out               *)
  flushed      (* flush() has been called                                  *)

vars == <<container, used, area, written, flushed>>

Blank == 0

(* container_.resize(n).                                                   *)
Resized(c, n) == [i \in 1..n |-> IF i \in DOMAIN c THEN c[i] ELSE Blank]

AreaAt(from, n) == [from |-> from, len |-> n, taken |-> 0]

(* request_write_area(taken, n) with `front' = used_: the container grows  *)
(* by n and the area is as long as all of it.                              *)
Grown(c, n) == Resized(c, Len(c) + n)
Requested(c, front, n) == AreaAt(front, Len(c) + n)

(* The constructor.                                                        *)
Init ==
  \E size \in Filled, n \in Capacity :
    LET c == [i \in 1..size |-> Blank] IN
    /\ container = Grown(c, n)
    /\ used = 0
    /\ area = Requested(c, 0, n)
    /\ written = 0
    /\ flushed = FALSE

(* n characters are written at offset `from' of the container c.           *)
Put(c, from, n) ==
  [i \in DOMAIN c |-> IF i \in (from + 1)..(from + n) THEN written + i - from
                                                      ELSE c[i]]

(* get_write_area_of(n): there is room in the area, or it is replaced.     *)
Write(n) ==
  LET served == ServedInPlace(area, FALSE, n)
      a == IF served THEN area
                     ELSE Requested(container, used + area.taken, n)
      c == IF served THEN container ELSE Grown(container, n)
  IN
  /\ ~ (flushed /\ FlushedOnce)
  /\ written + n <= MaxText
  /\ container' = Put(c, a.from + a.taken, n)
  /\ used' = a.from
  /\ area' = Take(a, n)
  /\ written' = written + n
  /\ UNCHANGED flushed

(* flush() and out(): the container ends where the text does.              *)
Flush ==
  /\ container' = Resized(container, used + area.taken)
  /\ flushed' = TRUE
  /\ UNCHANGED <<used, area, written>>

Next == Flush \/ \E n \in Size : Write(n)

Spec == Init /\ [][Next]_vars

(* "Everything is directly written to the string" (test_buffer.cpp:667):   *)
(* it starts with what has been written, flushed or not.                   *)
DirectlyWritten ==
  \A i \in 1..written : i \in DOMAIN container /\ container[i] = i
=============================================================================
