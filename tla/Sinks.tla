------------------------------- MODULE Sinks -------------------------------
(***************************************************************************)
(* The concrete buffers of buffer.hpp that a writer fills, other than      *)
(* memory_buffer and truncating_buffer.  A sink is a write area with       *)
(*                                                                         *)
(*   kind    which buffer it is                                            *)
(*   room    the size of the cache, the span or the pointed-to memory      *)
(*   cache   the characters in there                                       *)
(*   out     what the output iterator has been given, or what the file     *)
(*           holds up to its position                                      *)
(*   count   used_ of a counting_buffer, count_ of a truncating_iterator   *)
(*                                                                         *)
(* and the kinds are                                                       *)
(*                                                                         *)
(*   "span"      span_buffer                                               *)
(*   "pointer"   iterator_buffer<char*>                                    *)
(*   "iterator"  iterator_buffer of any other iterator than a back inserter*)
(*   "limited"   the same for a truncating_iterator (format_to_n)          *)
(*   "file"      file_buffer                                               *)
(*   "counting"  counting_buffer                                           *)
(*                                                                         *)
(* An operation that may fail is a set of outcomes: a file may take any    *)
(* part of what it is given.                                               *)
(***************************************************************************)
EXTENDS WriteArea, Sequences

Kinds == {"span", "pointer", "iterator", "limited", "file", "counting"}

(* The kinds that own a cache, and make room by emptying it.               *)
Cached == {"iterator", "limited", "file", "counting"}

Blank == 0   (* a character of a cache nobody has written to               *)

(* The n characters that follow the first k of the text.                   *)
Text(k, n) == [i \in 1..n |-> k + i]

(* The constructors; a counting_buffer starts without a write area.        *)
NewSink(kind, room) ==
  [kind |-> kind, room |-> room,
   len |-> IF kind = "counting" THEN 0 ELSE room, taken |-> 0,
   cache |-> [i \in 1..room |-> Blank], out |-> <<>>, count |-> 0]

(* What has been written and not yet been flushed.                         *)
Pending(s) == SubSeq(s.cache, 1, s.taken)

(* set_write_area(cache_), or (span_).  What the memory still holds will   *)
(* be overwritten before it is read: it is forgotten.                      *)
Fresh(s) ==
  [s EXCEPT !.len = s.room, !.taken = 0, !.cache = [i \in DOMAIN @ |-> Blank]]

(* t is written to the output.                                             *)
Emit(s, t) == [s EXCEPT !.out = @ \o t]

----------------------------------------------------------------------------
(* flush()                                                                 *)

Outcome(ok, s) == [ok |-> ok, sink |-> s]

(* Mutant: the flushed characters stay in the cache.                       *)
FlushIteratorKeeps(s) == {Outcome(TRUE, Emit(s, Pending(s)))}

FlushIterator(s) == {Outcome(TRUE, Fresh(Emit(s, Pending(s))))}

(* The truncating_iterator lets `limit' characters through and counts all. *)
FlushLimited(s, limit) ==
  LET open == IF s.count < limit THEN limit - s.count ELSE 0 IN
  {Outcome(TRUE, [Fresh(Emit(s, SubSeq(s.cache, 1, Min2(s.taken, open))))
                    EXCEPT !.count = @ + s.taken])}

(* fwrite takes everything, or less: then the cache stays as it is.        *)
FlushFile(s) ==
  {Outcome(TRUE, Fresh(Emit(s, Pending(s))))} \cup
  {Outcome(FALSE, Emit(s, SubSeq(s.cache, 1, k))) : k \in 0..(s.taken - 1)}

Flushes(s, limit) ==
  CASE s.kind = "pointer"  -> {Outcome(TRUE, s)}
    [] s.kind = "iterator" -> FlushIterator(s)
    [] s.kind = "limited"  -> FlushLimited(s, limit)
    [] s.kind = "file"     -> FlushFile(s)

(* What request_write_area does to empty the cache; a counting_buffer adds *)
(* to its count what it forgets.                                           *)
MakesRoom(s, limit) ==
  IF s.kind = "counting"
    THEN {Outcome(TRUE, Fresh([s EXCEPT !.count = @ + s.taken]))}
    ELSE Flushes(s, limit)

----------------------------------------------------------------------------
(* get_write_area_of_max and get_write_area_of.  A granted area is `size'  *)
(* characters at offset `from' of the cache, already counted as taken.  A  *)
(* refused one is `broken' if a file has not taken the cache, and not if   *)
(* there is no room for the caller's characters.                           *)

Granted(s, size) ==
  [ok |-> TRUE, from |-> s.taken, size |-> size, broken |-> FALSE,
   sink |-> Take(s, size)]

Refused(s, broken) ==
  [ok |-> FALSE, from |-> s.taken, size |-> 0, broken |-> broken, sink |-> s]

GrantsOfMax(s, limit, size) ==
  IF ServedInPlace(s, s.kind = "span", size)
    THEN {IF EndOfArea(s, size) THEN Refused(s, FALSE)
                                ELSE Granted(s, InPlace(s, size))}
    ELSE {IF o.ok THEN Granted(Fresh(o.sink), Min2(size, s.room))
                  ELSE Refused(o.sink, TRUE) : o \in MakesRoom(s, limit)}

GrantsOf(s, limit, size) ==
  {IF g.ok /\ g.size < size THEN Refused(GiveBack(g.sink, g.size), FALSE)
                            ELSE g :
     g \in GrantsOfMax(s, limit, size)}

(* The caller copies the text t, as long as the area, into a granted area. *)
Fill(g, t) ==
  [g.sink EXCEPT !.cache = [i \in DOMAIN @ |->
     IF i \in (g.from + 1)..(g.from + Len(t)) THEN t[i - g.from] ELSE @[i]]]

----------------------------------------------------------------------------
(* What a reader of the output sees: the view of a span, the memory behind *)
(* a pointer, the iterator's output, the file up to its position.          *)
Delivered(s) ==
  IF s.kind \in {"span", "pointer"} THEN Pending(s)
                                    ELSE s.out

(* Delivered or about to be.                                               *)
Content(s) ==
  IF s.kind \in {"span", "pointer"} THEN Pending(s)
                                    ELSE Delivered(s) \o Pending(s)

(* reset() of span_buffer and file_buffer.  What a file holds behind its   *)
(* position is not looked at.                                              *)
Resettable == {"span", "file"}
Rewound(s) == [Fresh(s) EXCEPT !.out = <<>>]
=============================================================================
