-------------------------- MODULE TruncatedOutput --------------------------
(***************************************************************************)
(* truncating_buffer (buffer.hpp) between a writer and a primary buffer,   *)
(* the way format_to_n uses it.  One write area of the truncating buffer   *)
(* is one step, and so is one turn of the loop in its flush(), which the   *)
(* client calls or request_write_area on behalf of a write.                *)
(*                                                                         *)
(* The record trunc holds area_ and used_ of the base (len, taken), the    *)
(* members written_, used_ and limit_, and the cache.  The primary is one  *)
(* of the Sinks.  It may hold characters from before: the k-th character   *)
(* of the text is the number that follows the `base' ones in front of it.  *)
(***************************************************************************)
EXTENDS Sinks

CONSTANTS
  CacheSize,     (* of the truncating buffer                               *)
  Room,          (* sizes of the caches and spans of primaries             *)
  Limit,         (* the arguments limit                                    *)
  Size,          (* numbers of characters written in one call              *)
  MaxText        (* bound: so many characters in the primary               *)

ASSUME CacheAssumption == CacheSize \in Nat \ {0}
ASSUME RoomAssumption == Room \subseteq Nat \ {0}
ASSUME LimitAssumption == Limit \subseteq Nat
ASSUME SizeAssumption == Size \subseteq Nat \ {0}
ASSUME TextAssumption == MaxText \in Nat

VARIABLES
  primary,   (* the buffer behind the truncating one                       *)
  trunc,     (* the truncating buffer                                      *)
  call,      (* the call of the writer in progress                         *)
  flushing,  (* the call of flush() in progress: for whom, bytes_to_write  *)
  base,      (* length of what the primary held before                     *)
  accepted,  (* length of the text in the areas handed out                 *)
  failed     (* a flush has answered eof                                   *)

vars == <<primary, trunc, call, flushing, base, accepted, failed>>

Idle == [op |-> "none", left |-> 0]
NoFlush == [by |-> "none", left |-> 0]

(* The constructor.                                                        *)
NewTrunc(limit) ==
  [len |-> CacheSize, taken |-> 0, written |-> 0, used |-> 0,
   limit |-> limit, cache |-> [i \in 1..CacheSize |-> Blank]]

Primaries ==
  {NewSink(k, r) : k \in {"span", "iterator", "file"}, r \in Room}

Init ==
  /\ primary \in Primaries
  /\ \E n \in Limit : trunc = NewTrunc(n)
  /\ call = Idle
  /\ flushing = NoFlush
  /\ base = 0
  /\ accepted = 0
  /\ failed = FALSE

Ready == call = Idle /\ flushing = NoFlush

(* The next format_to_n, into another primary or, unless its file is       *)
(* broken, into the same one.                                              *)
Open ==
  /\ Ready
  /\ \E n \in Limit : trunc' = NewTrunc(n)
  /\ \/ primary' \in Primaries
     \/ ~ (failed /\ primary.kind = "file") /\ UNCHANGED primary
  /\ base' = Len(Content(primary'))
  /\ accepted' = 0
  /\ failed' = FALSE
  /\ UNCHANGED <<call, flushing>>

(* The client flushes the primary, where that is a thing to do.            *)
FlushPrimary ==
  /\ Ready /\ ~ failed
  /\ primary.kind # "span"
  /\ \E o \in Flushes(primary, MaxText) :
       /\ primary' = o.sink
       /\ failed' = ~ o.ok
  /\ UNCHANGED <<trunc, call, flushing, base, accepted>>

----------------------------------------------------------------------------
(* The writer: write_str, for which any area will do, and write_int.       *)

Start(op, n) ==
  /\ Ready /\ ~ failed
  /\ base + accepted + n <= MaxText
  /\ call' = [op |-> op, left |-> n]
  /\ UNCHANGED <<primary, trunc, flushing, base, accepted, failed>>

(* n characters are copied into the cache of t behind what is taken.       *)
Store(t, n) ==
  [Take(t, n) EXCEPT !.cache = [i \in DOMAIN @ |->
     IF i \in (t.taken + 1)..(t.taken + n) THEN base + accepted + i - t.taken
                                           ELSE @[i]]]

(* The writer is given n characters of the cache of t.                     *)
Proceed(t, n) ==
  /\ trunc' = Store(t, n)
  /\ accepted' = accepted + n
  /\ call' = IF call.left = n THEN Idle ELSE [call EXCEPT !.left = @ - n]

HasRoom == ServedInPlace(trunc, FALSE, call.left)

Write ==
  /\ call # Idle /\ flushing = NoFlush
  /\ HasRoom
  /\ Proceed(trunc, InPlace(trunc, call.left))
  /\ UNCHANGED <<primary, flushing, base, failed>>

----------------------------------------------------------------------------
(* Mutant: used_ is not advanced.                                          *)
BeginUncounted(by) ==
  /\ flushing' = [by |-> by, left |-> trunc.taken]
  /\ UNCHANGED <<primary, trunc, call, base, accepted, failed>>

(* flush() begins: bytes_to_write = get_used_count(), used_ += it.         *)
BeginFlush(by) ==
  /\ flushing' = [by |-> by, left |-> trunc.taken]
  /\ trunc' = [trunc EXCEPT !.used = @ + trunc.taken]
  /\ UNCHANGED <<primary, call, base, accepted, failed>>

Flush == Ready /\ ~ failed /\ BeginFlush("client")

Request ==
  /\ call # Idle /\ flushing = NoFlush
  /\ ~ HasRoom
  /\ BeginFlush("write")

(* Mutant: one character too many is let through.                          *)
FlushGoesPast ==
  flushing # NoFlush /\ trunc.written <= trunc.limit /\ flushing.left > 0

(* Mutant: the primary is asked once, not in a loop.                       *)
FlushGoesOnce ==
  /\ flushing # NoFlush
  /\ trunc.written < trunc.limit
  /\ flushing.left > 0 /\ flushing.left = trunc.taken

FlushGoesOn ==
  /\ flushing # NoFlush
  /\ trunc.written < trunc.limit
  /\ flushing.left > 0

(* Mutant: the limit is not looked at.                                     *)
WantsAll == flushing.left

(* What the primary is asked for.                                          *)
Wanted == Min2(flushing.left, trunc.limit - trunc.written)

(* A turn of the loop: whatever area the primary grants, it is filled from *)
(* the beginning of the cache.                                             *)
FlushChunk ==
  /\ FlushGoesOn
  /\ \E g \in GrantsOfMax(primary, MaxText, Wanted) :
       /\ g.ok
       /\ primary' = Fill(g, SubSeq(trunc.cache, 1, g.size))
       /\ trunc' = [trunc EXCEPT !.written = @ + g.size]
       /\ flushing' = [flushing EXCEPT !.left = @ - g.size]
  /\ UNCHANGED <<call, base, accepted, failed>>

(* The primary answers eof: flush() returns, and with it the write.        *)
FlushFails ==
  /\ FlushGoesOn
  /\ \E g \in GrantsOfMax(primary, MaxText, Wanted) :
       /\ ~ g.ok
       /\ primary' = g.sink
  /\ call' = Idle
  /\ flushing' = NoFlush
  /\ failed' = TRUE
  /\ UNCHANGED <<trunc, base, accepted>>

(* set_write_area(cache_), and back to the caller: a write gets as much as *)
(* it wants of the empty cache.                                            *)
Emptied == [trunc EXCEPT !.len = CacheSize, !.taken = 0]

(* Mutant: the area is not cut down to the cache.                          *)
Uncut(n) == n

(* How much of the cache a call that asks for n characters is given.       *)
FromCache(n) == Min2(n, CacheSize)

(* Mutant: the area is given back although it is large enough.             *)
TooLongOrEqual == call.op = "write_int" /\ call.left >= CacheSize

(* get_write_area_of: a number longer than the cache gets no area; the     *)
(* client may write on.                                                    *)
TooLong == call.op = "write_int" /\ call.left > CacheSize

FlushReturns ==
  /\ flushing # NoFlush /\ ~ FlushGoesOn
  /\ flushing.by = "client"
  /\ trunc' = Emptied
  /\ flushing' = NoFlush
  /\ UNCHANGED <<primary, call, base, accepted, failed>>

RequestReturns ==
  /\ flushing # NoFlush /\ ~ FlushGoesOn
  /\ flushing.by = "write"
  /\ ~ TooLong
  /\ Proceed(Emptied, FromCache(call.left))
  /\ flushing' = NoFlush
  /\ UNCHANGED <<primary, base, failed>>

RequestTooLong ==
  /\ flushing # NoFlush /\ ~ FlushGoesOn
  /\ flushing.by = "write"
  /\ TooLong
  /\ trunc' = GiveBack(Take(Emptied, CacheSize), CacheSize)
  /\ call' = Idle
  /\ flushing' = NoFlush
  /\ UNCHANGED <<primary, base, accepted, failed>>

Return == FlushReturns \/ RequestReturns \/ RequestTooLong

Next ==
  \/ Open
  \/ FlushPrimary
  \/ \E op \in {"write_str", "write_int"}, n \in Size : Start(op, n)
  \/ Write \/ Request
  \/ Flush \/ FlushChunk \/ FlushFails
  \/ Return

(* The program executes a call it has begun.                               *)
Spec ==
  /\ Init /\ [][Next]_vars
  /\ WF_vars(Write \/ Request \/ FlushChunk \/ FlushFails \/ Return)

----------------------------------------------------------------------------
(* Types of the members (buffer.hpp:693-698).                              *)
TypeOK ==
  /\ primary.kind \in {"span", "iterator", "file"}
  /\ primary.taken <= primary.len /\ Len(primary.cache) = primary.room
  /\ trunc \in [len : {CacheSize}, taken : 0..CacheSize, written : Nat,
                used : Nat, limit : Limit, cache : Seq(Nat)]
  /\ Len(trunc.cache) = CacheSize
  /\ call \in [op : {"none", "write_str", "write_int"}, left : Nat]
  /\ flushing \in [by : {"none", "client", "write"}, left : 0..CacheSize]
  /\ flushing.left <= trunc.taken
  /\ base \in 0..MaxText /\ accepted \in 0..MaxText
  /\ failed \in BOOLEAN

(* The primary holds a prefix of the text, without a gap or a repetition,  *)
(* behind what it held before, and never more than the limit, until it is  *)
(* a file that fails (truncating_buffer::flush).                           *)
PrefixInPrimary ==
  /\ ~ (failed /\ primary.kind = "file") =>
        Content(primary) = Text(0, base + trunc.written)
  /\ trunc.written <= trunc.limit

(* Nothing is forgotten between cache and primary: while all goes well,    *)
(* the characters behind the prefix are those in the cache, or are beyond  *)
(* the limit (flush, request_write_area).                                  *)
RestInCache ==
  (~ failed /\ flushing = NoFlush) =>
    /\ trunc.written = Min2(trunc.limit, accepted - trunc.taken)
    /\ Pending(trunc) = Text(base + accepted - trunc.taken, trunc.taken)

(* count() between two calls.                                              *)
Count == trunc.used + trunc.taken

(* count() is the length of the text, truncated or not; behind a flush     *)
(* that has failed, what is still in the cache may be counted twice.       *)
CountsText ==
  flushing = NoFlush =>
    \/ Count = accepted
    \/ failed /\ Count = accepted + trunc.taken

(* A call of flush or of the writer has answered eof.                      *)
Fails ==
  \/ failed' /\ ~ failed
  \/ call # Idle /\ call' = Idle /\ accepted' < accepted + call.left

(* A call fails only when the primary has no room for the text up to the   *)
(* limit, its file does not take all it holds, or a number is longer than  *)
(* the cache: what is beyond the limit never causes an error.              *)
EofIsJustified ==
  [][Fails =>
       \/ /\ primary.kind = "file"
          /\ Len(primary'.out) < Len(Content(primary))
       \/ primary.kind = "span"
          /\ primary.room < base + Min2(trunc.limit, accepted)
       \/ call.op = "write_int" /\ call.left > CacheSize]_vars

(* Every call of the writer and of flush returns.                          *)
CallsReturn == ~ Ready ~> Ready

(* The caller of format_to_n sees a growing prefix of its text behind what *)
(* was there before, of at most `limit' characters.                        *)
Stream == INSTANCE CharStream WITH
  Limit <- Nat,
  limit <- base + trunc.limit,
  accepted <- base + accepted,
  output <- Delivered(primary)
StreamsText == Stream!Spec
=============================================================================
