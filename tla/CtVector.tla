------------------------------ MODULE CtVector ------------------------------
(***************************************************************************)
(* emio::detail::ct_vector (ct_vector.hpp), the vector with inlined        *)
(* storage that memory_buffer keeps its characters in.                     *)
(*                                                                         *)
(* Memory is a function m from pointers to blocks.  A block is the         *)
(* sequence of its characters; a block that is not allocated is Freed.     *)
(* The inlined storage of the vector of b is the block of pointer b        *)
(* itself, so hold_external() reads "data points elsewhere".  The vectors  *)
(* are a function v from their owners to records with the members data_,   *)
(* size_ and capacity_.                                                    *)
(*                                                                         *)
(* Every operator returns the new v or the new m of one member function.   *)
(* A write through a dangling pointer leaves the block Freed: the          *)
(* characters are lost, and the invariants over v and m tell.              *)
(***************************************************************************)
EXTENDS Naturals, Sequences

CONSTANTS
  Buf,       (* the vectors, each standing for its inlined storage         *)
  Heap,      (* pointers operator new[] may return                         *)
  Storage,   (* StorageSize, the length of the inlined storage             *)
  Char,      (* the characters written                                     *)
  Junk       (* content of memory nobody has written to                    *)

ASSUME StorageAssumption == Storage \in Nat \ {0}
ASSUME PointerAssumption == Buf \cap Heap = {}
ASSUME JunkAssumption == Junk \notin Char

Pointer == Buf \cup Heap
Freed == <<>>

External(v, b) == v[b].data # b

Unused(m) == {p \in Heap : m[p] = Freed}

(* s with t copied over it, the first character of t at offset from.       *)
Overlay(s, from, t) ==
  [i \in 1..Len(s) |-> IF i \in (from + 1)..(from + Len(t)) THEN t[i - from]
                                                            ELSE s[i]]

(* A block of n characters, uninitialized.                                 *)
Block(n) == [i \in 1..n |-> Junk]

(* copy_n(other.data_, other.size_, data_).                                *)
CopyContent(v, m, b, c) ==
  [m EXCEPT ![v[b].data] = Overlay(@, 0, SubSeq(m[v[c].data], 1, v[c].size))]

(* The members after the default constructor.                              *)
EmptyVec(b) == [data |-> b, size |-> 0, capacity |-> Storage]

(* Mutant: nothing is freed.                                               *)
ReleaseNothing(v, m, b) == m

(* if (hold_external()) delete[] data_.                                    *)
Release(v, m, b) ==
  IF External(v, b) THEN [m EXCEPT ![v[b].data] = Freed] ELSE m

----------------------------------------------------------------------------
(* reserve(n); p is the pointer new[] returns if it is called.             *)

Grows(v, b, n) ==
  /\ ~ (n < Storage /\ ~ External(v, b))
  /\ v[b].capacity < n

ReserveVec(v, b, n, p) ==
  [v EXCEPT ![b] = IF Grows(v, b, n)
                     THEN [data |-> p, size |-> n, capacity |-> n]
                     ELSE [@ EXCEPT !.size = n]]

(* Mutant: the content is not copied to the new block.                     *)
ReserveMemEmpty(v, m, b, n, p) ==
  IF Grows(v, b, n) THEN [Release(v, m, b) EXCEPT ![p] = Block(n)] ELSE m

ReserveMem(v, m, b, n, p) ==
  IF Grows(v, b, n)
    THEN [Release(v, m, b) EXCEPT
            ![p] = Overlay(Block(n), 0, SubSeq(m[v[b].data], 1, v[b].size))]
    ELSE m

----------------------------------------------------------------------------
(* Assignment; the constructors are the assignments to an EmptyVec.        *)

CopyVec(v, b, c, p) == ReserveVec(v, b, v[c].size, p)

CopyMem(v, m, b, c, p) ==
  CopyContent(CopyVec(v, b, c, p), ReserveMem(v, m, b, v[c].size, p), b, c)

(* Ownership of an external block is handed over, an inlined one is copied *)
(* to wherever data_ of the target points.                                 *)
MoveVec(v, b, c) ==
  [v EXCEPT
     ![b] = IF External(v, c) THEN v[c] ELSE [@ EXCEPT !.size = v[c].size],
     ![c] = EmptyVec(c)]

MoveMem(v, m, b, c) ==
  IF External(v, c) THEN Release(v, m, b)
                    ELSE CopyContent(v, Release(v, m, b), b, c)
=============================================================================
