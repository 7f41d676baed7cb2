---------------------------- MODULE MemoryBuffer ----------------------------
(***************************************************************************)
(* emio::memory_buffer (buffer.hpp): several buffers in one memory, with   *)
(* construction, writing, reset, copy, move and destruction.               *)
(*                                                                         *)
(* The record buf[b] joins the members of memory_buffer and of its base:   *)
(*                                                                         *)
(*   used        memory_buffer::used_, what lies before the write area     *)
(*   at, from    where area_ starts: in which block, at which offset       *)
(*   len, taken  area_.size() and buffer::used_, see WriteArea             *)
(*                                                                         *)
(* A buffer that is not alive has the members its constructor starts from. *)
(***************************************************************************)
EXTENDS CtVector, WriteArea

CONSTANTS
  Chunk,         (* the non-empty character sequences written in one call  *)
  Capacity,      (* the arguments of memory_buffer(capacity)               *)
  MaxCapacity,   (* bound: vectors grow to at most so many characters      *)
  AnyCopy,       (* TRUE: buffers are copied freely; FALSE: only where     *)
                 (* CopyKeepsSize holds                                    *)
  AnyMove        (* TRUE: buffers are moved freely; FALSE: only where      *)
                 (* MoveKeepsStorage holds                                 *)

ASSUME ChunkAssumption == Chunk \subseteq Seq(Char) \ {<<>>}
ASSUME CapacityAssumption == Capacity \subseteq Nat

VARIABLES
  alive,     (* the buffers constructed and not yet destroyed              *)
  vec,       (* vec_ of every buffer                                       *)
  buf,       (* the other members of every buffer                          *)
  mem        (* the memory                                                 *)

vars == <<alive, vec, buf, mem>>

NoBuffer(b) == [used |-> 0, at |-> b, from |-> 0, len |-> 0, taken |-> 0]

Init ==
  /\ alive = {}
  /\ vec = [b \in Buf |-> EmptyVec(b)]
  /\ buf = [b \in Buf |-> NoBuffer(b)]
  /\ mem = [p \in Pointer |-> IF p \in Buf THEN Block(Storage) ELSE Freed]

(* used_ + get_used_count().                                               *)
Written(b) == buf[b].used + buf[b].taken

View(b) == SubSeq(mem[vec[b].data], 1, Written(b))

(* Mutant: what is used is subtracted twice.                               *)
AreaUpToTwice(w, n, end) ==
  [used |-> n, at |-> w.data, from |-> n, len |-> end - 2 * n, taken |-> 0]

(* The members after set_write_area, for the vector w and n characters in  *)
(* front of a write area that ends at offset end.                          *)
AreaUpTo(w, n, end) ==
  [used |-> n, at |-> w.data, from |-> n, len |-> end - n, taken |-> 0]

(* Mutant: the area is as long as the vector (test_buffer.cpp:213).        *)
RequestedTooLarge(w, used, taken, n) ==
  AreaUpTo(w, used + taken, used + taken + w.size)

(* request_write_area(taken, n) for a buffer with `used' characters before *)
(* its current area; w is its vector after the reserve.                    *)
Requested(w, used, taken, n) == AreaUpTo(w, used + taken, used + taken + n)

----------------------------------------------------------------------------
(* memory_buffer(capacity).                                                *)
Construct(b, capacity) ==
  LET n == IF capacity > Storage THEN capacity ELSE Storage IN
  /\ b \notin alive
  /\ n <= MaxCapacity
  /\ \E p \in Unused(mem) :
       /\ vec' = ReserveVec(vec, b, n, p)
       /\ mem' = ReserveMem(vec, mem, b, n, p)
  /\ buf' = [buf EXCEPT ![b] = Requested(vec'[b], 0, 0, n)]
  /\ alive' = alive \cup {b}

(* get_write_area_of(Len(s)), filled with s: there is room in the area.    *)
WriteInPlace(b, s) ==
  LET w == buf[b] IN
  /\ b \in alive
  /\ ServedInPlace(w, FALSE, Len(s))
  /\ mem' = [mem EXCEPT ![w.at] = Overlay(@, w.from + w.taken, s)]
  /\ buf' = [buf EXCEPT ![b] = Take(w, Len(s))]
  /\ UNCHANGED <<alive, vec>>

(* ... or there is not, and request_write_area makes the vector larger by  *)
(* Len(s), also when its last characters have not been handed out.         *)
WriteGrowing(b, s) ==
  LET w == buf[b]
      n == vec[b].size + Len(s)
  IN
  /\ b \in alive
  /\ ~ ServedInPlace(w, FALSE, Len(s))
  /\ n <= MaxCapacity
  /\ \E p \in Unused(mem) :
       LET v == ReserveVec(vec, b, n, p)
           r == Requested(v[b], w.used, w.taken, Len(s))
       IN
       /\ vec' = v
       /\ mem' = [ReserveMem(vec, mem, b, n, p) EXCEPT
                    ![r.at] = Overlay(@, r.from, s)]
       /\ buf' = [buf EXCEPT ![b] = Take(r, Len(s))]
  /\ UNCHANGED alive

(* Mutant: the vector is cleared and not filled again.                     *)
ClearedVecEmpty(w) == [w EXCEPT !.size = 0]

(* vec_.clear() and request_write_area(0, capacity) for the vector w.      *)
ClearedVec(w) == [w EXCEPT !.size = w.capacity]
ClearedBuf(w) == Requested(w, 0, 0, w.capacity)

Reset(b) ==
  /\ b \in alive
  /\ vec' = [vec EXCEPT ![b] = ClearedVec(@)]
  /\ buf' = [buf EXCEPT ![b] = ClearedBuf(vec[b])]
  /\ UNCHANGED <<alive, mem>>

----------------------------------------------------------------------------
(* Copy and move; a construction is an assignment to a buffer that is not  *)
(* alive.  Assigning a buffer to itself returns early.                     *)

(* After the copy the vector is as large as its capacity.                  *)
CopyKeepsSize(b, c) == External(vec, b) => vec[c].size >= vec[b].capacity

Copy(b, c) ==
  /\ c \in alive \ {b}
  /\ AnyCopy \/ CopyKeepsSize(b, c)
  /\ \E p \in Unused(mem) :
       /\ vec' = CopyVec(vec, b, c, p)
       /\ mem' = CopyMem(vec, mem, b, c, p)
  /\ buf' = [buf EXCEPT
               ![b] = AreaUpTo(vec'[b], Written(c), vec'[b].capacity)]
  /\ alive' = alive \cup {b}

(* The target has no block to free, or gets one in exchange.               *)
MoveKeepsStorage(b, c) == External(vec, b) => External(vec, c)

Move(b, c) ==
  LET v == MoveVec(vec, b, c) IN
  /\ c \in alive \ {b}
  /\ AnyMove \/ MoveKeepsStorage(b, c)
  /\ vec' = [v EXCEPT ![c] = ClearedVec(@)]
  /\ mem' = MoveMem(vec, mem, b, c)
  /\ buf' = [buf EXCEPT ![b] = AreaUpTo(v[b], Written(c), v[b].capacity),
                        ![c] = ClearedBuf(v[c])]
  /\ alive' = alive \cup {b}

Destroy(b) ==
  /\ b \in alive
  /\ vec' = [vec EXCEPT ![b] = EmptyVec(b)]
  /\ buf' = [buf EXCEPT ![b] = NoBuffer(b)]
  /\ mem' = [Release(vec, mem, b) EXCEPT ![b] = Block(Storage)]
  /\ alive' = alive \ {b}

Next ==
  \E b \in Buf :
    \/ \E n \in Capacity : Construct(b, n)
    \/ \E s \in Chunk : WriteInPlace(b, s) \/ WriteGrowing(b, s)
    \/ Reset(b)
    \/ \E c \in Buf : Copy(b, c) \/ Move(b, c)
    \/ Destroy(b)

Spec == Init /\ [][Next]_vars

----------------------------------------------------------------------------
(* Types of the four variables (buffer.hpp:231-232, ct_vector.hpp:143-146).*)
TypeOK ==
  /\ alive \subseteq Buf
  /\ vec \in [Buf -> [data : Pointer, size : Nat, capacity : Nat]]
  /\ buf \in [Buf -> [used : Nat, at : Pointer, from : Nat,
                      len : Nat, taken : Nat]]
  /\ mem \in [Pointer -> Seq(Char \cup {Junk})]

(* Memory is managed correctly: data_ of a vector points to a block of     *)
(* exactly capacity_ characters, no external block has two owners, and no  *)
(* block is left without an owner (ct_vector's destructor and assignments).*)
Ownership ==
  /\ \A b \in Buf : /\ vec[b].data \in Heap \cup {b}
                    /\ Len(mem[vec[b].data]) = vec[b].capacity
                    /\ vec[b].capacity > 0
  /\ \A b, c \in Buf : vec[b].data = vec[c].data => b = c
  /\ \A p \in Heap : mem[p] # Freed => \E b \in Buf : vec[b].data = p

(* The write area a caller is given next lies in the block the buffer owns *)
(* and behind everything written so far; the view fits the capacity        *)
(* (buffer::get_write_area_of_max, memory_buffer::request_write_area).     *)
AreaInsideBlock ==
  \A b \in alive :
    /\ buf[b].at = vec[b].data
    /\ buf[b].from = buf[b].used
    /\ buf[b].taken <= buf[b].len
    /\ buf[b].from + buf[b].len <= Len(mem[vec[b].data])

(* What makes the area fit: the vector is always filled up to its capacity *)
(* and reaches at least to the end of the area, so that growing it by n    *)
(* leaves n characters behind the area.                                    *)
SizeReachesArea ==
  \A b \in alive :
    /\ vec[b].size = vec[b].capacity
    /\ buf[b].from + buf[b].len <= vec[b].size

(* Each buffer holds exactly the text written to it, whatever is done to   *)
(* the others (memory_buffer::view).                                       *)
Texts == INSTANCE TextBuffers WITH text <- [b \in Buf |-> View(b)]
HoldsText == Texts!Spec
=============================================================================
