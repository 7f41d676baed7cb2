---------------------------- MODULE DirectOutput ----------------------------
(***************************************************************************)
(* A writer (writer.hpp) on one of the Sinks, the way format_to, print,    *)
(* formatted_size and the iterator version of format_to_n use them.        *)
(*                                                                         *)
(* A call of the writer is a loop over write areas, one step for each.     *)
(* The k-th character written since the sink was opened or reset is the    *)
(* number k, so that what the sink must hold is 1, 2, ..., written.        *)
(* EscapedOutput adds the calls that escape their text, which keep their   *)
(* write area for several steps; Output puts both together.                *)
(*                                                                         *)
(* When a file does not take what it is given, the client stops writing    *)
(* and opens a new buffer or resets this one: the errors are propagated    *)
(* by EMIO_TRY up to vprint, whose buffer ends with it.                    *)
(***************************************************************************)
EXTENDS Sinks

CONSTANTS
  Room,      (* sizes of caches and spans                                  *)
  Limit,     (* the n of format_to_n                                       *)
  Size,      (* numbers of characters written in one call                  *)
  MaxText    (* bound: so many characters are written to one sink          *)

ASSUME RoomAssumption == Room \subseteq Nat \ {0}
ASSUME LimitAssumption == Limit \subseteq Nat
ASSUME SizeAssumption == Size \subseteq Nat \ {0}
ASSUME TextAssumption == MaxText \in Nat

VARIABLES
  sink,      (* the buffer                                                 *)
  limit,     (* of a truncating_iterator; MaxText for the other sinks      *)
  call,      (* the call of the writer in progress                         *)
  written,   (* length of the text put into the areas handed out           *)
  broken     (* a file has not taken all it was given                      *)

Idle == [op |-> "none", left |-> 0]

(* The buffers and limits to begin with.  A span may be empty, a cache may *)
(* not; the memory behind a pointer is as long as the text gets.           *)
Buffers ==
  {<<NewSink("span", r), MaxText>> : r \in Room \cup {0}} \cup
  {<<NewSink("pointer", MaxText), MaxText>>} \cup
  {<<NewSink(k, r), MaxText>> : k \in Cached \ {"limited"}, r \in Room} \cup
  {<<NewSink("limited", r), n>> : r \in Room, n \in Limit}

Init ==
  /\ \E b \in Buffers : sink = b[1] /\ limit = b[2]
  /\ call = Idle
  /\ written = 0
  /\ broken = FALSE

(* The API call has returned, its buffer is gone, the next one begins.     *)
Open ==
  /\ call = Idle
  /\ \E b \in Buffers : sink' = b[1] /\ limit' = b[2]
  /\ written' = 0
  /\ broken' = FALSE
  /\ UNCHANGED call

----------------------------------------------------------------------------
(* write_str and write_char_n take what they get, write_char and write_int *)
(* need one area for all their characters.                                 *)
Start(op, n) ==
  /\ call = Idle
  /\ ~ broken
  /\ written + n <= MaxText
  /\ call' = [op |-> op, left |-> n]
  /\ UNCHANGED <<sink, limit, written, broken>>

(* The area g is filled and the call has `left' characters left to write.  *)
Proceed(g, left) ==
  /\ g.ok
  /\ sink' = Fill(g, Text(written, g.size))
  /\ written' = written + g.size
  /\ call' = IF left = 0 THEN Idle ELSE [call EXCEPT !.left = left]
  /\ UNCHANGED <<limit, broken>>

(* EMIO_TRY: the call ends with the error.  Only a file that did not take  *)
(* its cache is broken: behind a number that is too long for an area the   *)
(* client may write on.                                                    *)
Fail(g) ==
  /\ ~ g.ok
  /\ sink' = g.sink
  /\ call' = Idle
  /\ broken' = g.broken
  /\ UNCHANGED <<limit, written>>

WriteChunk ==
  /\ call.op = "write_str"
  /\ \E g \in GrantsOfMax(sink, limit, call.left) :
       Proceed(g, call.left - g.size) \/ Fail(g)

WriteWhole ==
  /\ call.op = "write_int"
  /\ \E g \in GrantsOf(sink, limit, call.left) : Proceed(g, 0) \/ Fail(g)

(* flush() and out() of the buffers that have them.                        *)
Flush ==
  /\ call = Idle
  /\ ~ broken
  /\ sink.kind \notin {"span", "counting"}
  /\ \E o \in Flushes(sink, limit) :
       /\ sink' = o.sink
       /\ broken' = ~ o.ok
  /\ UNCHANGED <<limit, call, written>>

Reset ==
  /\ call = Idle
  /\ sink.kind \in Resettable
  /\ sink' = Rewound(sink)
  /\ written' = 0
  /\ broken' = FALSE
  /\ UNCHANGED <<limit, call>>

(* The client goes on with a copy of a span_buffer or a static_buffer, be  *)
(* it new or assigned to: the part that was in use is requested again and, *)
(* from the storage of a static_buffer, copied.  It has to be granted.     *)
CopySpan ==
  /\ call = Idle
  /\ sink.kind = "span"
  /\ \E g \in GrantsOf(Fresh(sink), limit, sink.taken) :
       sink' = Fill(g, Pending(sink))
  /\ UNCHANGED <<limit, call, written, broken>>

DirectStep == WriteChunk \/ WriteWhole

DirectNext ==
  \/ Open
  \/ \E op \in {"write_str", "write_int"}, n \in Size : Start(op, n)
  \/ DirectStep
  \/ Flush
  \/ Reset
  \/ CopySpan
=============================================================================
