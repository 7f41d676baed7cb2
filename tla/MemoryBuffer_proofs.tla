------------------------ MODULE MemoryBuffer_proofs ------------------------
(***************************************************************************)
(* Proofs about MemoryBuffer for every set of buffers, every heap, every   *)
(* storage size and every text.                                            *)
(***************************************************************************)
EXTENDS MemoryBuffer, SequenceTheorems, TLAPS

(* Buffers are assigned only where CopyKeepsSize and MoveKeepsStorage      *)
(* hold: without it the theorems are false (runs memory_copy, memory_move).*)
CarefulClients == ~ AnyCopy /\ ~ AnyMove

Cell == Char \cup {Junk}

VecType == [data : Pointer, size : Nat, capacity : Nat]
BufType == [used : Nat, at : Pointer, from : Nat, len : Nat, taken : Nat]

----------------------------------------------------------------------------
(* What vectors and memory satisfy between any two member functions.       *)

WellTyped(v, m) ==
  /\ v \in [Buf -> VecType]
  /\ m \in [Pointer -> Seq(Cell)]

(* Inlined storage keeps its length, also while it is not in use.          *)
Inlined(v, m) ==
  \A b \in Buf : /\ Len(m[b]) = Storage
                 /\ v[b].data \in Heap \cup {b}
                 /\ v[b].data = b => v[b].capacity = Storage

Sized(v, m) ==
  \A b \in Buf : /\ Len(m[v[b].data]) = v[b].capacity
                 /\ v[b].capacity >= Storage
                 /\ v[b].capacity >= v[b].size

SingleOwner(v) == \A b, c \in Buf : v[b].data = v[c].data => b = c

NoLeak(v, m) == \A p \in Heap : m[p] # Freed => \E b \in Buf : v[b].data = p

Managed(v, m) ==
  /\ WellTyped(v, m)
  /\ Inlined(v, m)
  /\ Sized(v, m)
  /\ SingleOwner(v)
  /\ NoLeak(v, m)

(* The members r of a live buffer fit its vector w: the write area starts  *)
(* behind what has been written and ends within the vector, which fills    *)
(* its capacity.                                                           *)
Fits(w, r) ==
  /\ r.at = w.data
  /\ r.from = r.used
  /\ r.taken <= r.len
  /\ r.from + r.len <= w.size
  /\ w.size = w.capacity

(* The inductive invariant.                                                *)
IInv ==
  /\ alive \subseteq Buf
  /\ buf \in [Buf -> BufType]
  /\ Managed(vec, mem)
  /\ \A b \in Buf \ alive : vec[b] = EmptyVec(b)
  /\ \A b \in alive : Fits(vec[b], buf[b])

----------------------------------------------------------------------------
(* Copying into a block keeps the block's type and length.                 *)
LEMMA OverlayKeepsBlock ==
  ASSUME NEW S, NEW s \in Seq(S), NEW t \in Seq(S), NEW from \in Nat
  PROVE  /\ Overlay(s, from, t) \in Seq(S)
         /\ Len(Overlay(s, from, t)) = Len(s)
         /\ \A i \in 1..Len(s) :
              Overlay(s, from, t)[i] =
                IF i \in (from + 1)..(from + Len(t)) THEN t[i - from] ELSE s[i]
<1> DEFINE o == Overlay(s, from, t)
<1>1. \A i \in 1..Len(s) : o[i] \in S
  <2> TAKE i \in 1..Len(s)
  <2>1. CASE i \in (from + 1)..(from + Len(t))
    <3>1. i - from \in 1..Len(t)
      BY <2>1
    <3> QED
      BY <2>1, <3>1, ElementOfSeq DEF Overlay
  <2>2. CASE i \notin (from + 1)..(from + Len(t))
    BY <2>2, ElementOfSeq DEF Overlay
  <2> QED
    BY <2>1, <2>2
<1>2. o \in [1..Len(s) -> S]
  BY <1>1 DEF Overlay
<1>3. o \in Seq(S) /\ Len(o) = Len(s)
  BY <1>2, SeqDef, LenProperties DEF Overlay
<1> QED
  BY <1>3 DEF Overlay

(* A new block has the length asked for.                                   *)
LEMMA BlockLength ==
  ASSUME NEW n \in Nat
  PROVE  Block(n) \in Seq(Cell) /\ Len(Block(n)) = n
<1>1. Block(n) \in [1..n -> Cell]
  BY DEF Block, Cell
<1> QED
  BY <1>1, SeqDef, LenProperties DEF Block

(* Freeing the external block of b leaves every other block as it is.      *)
LEMMA ReleaseFrame ==
  ASSUME NEW v, NEW m, NEW b \in Buf, Managed(v, m)
  PROVE  LET r == Release(v, m, b) IN
         /\ r \in [Pointer -> Seq(Cell)]
         /\ \A q \in Pointer : q # v[b].data \/ q \in Buf => r[q] = m[q]
         /\ External(v, b) => r[v[b].data] = Freed
<1>1. Freed \in Seq(Cell)
  BY EmptySeq DEF Freed
<1>2. v[b].data \in Heap \cup {b} /\ v[b].data \in Pointer
  BY DEF Managed, WellTyped, VecType, Inlined, Pointer
<1> QED
  BY <1>1, <1>2, PointerAssumption
     DEF Release, External, Managed, WellTyped, Pointer

(* reserve(n) gives the vector the size n and leaves the others alone.     *)
LEMMA ReserveShape ==
  ASSUME NEW v \in [Buf -> VecType], NEW b \in Buf, NEW n \in Nat, NEW p
  PROVE  LET w == ReserveVec(v, b, n, p) IN
         /\ w[b].size = n
         /\ w[b].capacity = IF Grows(v, b, n) THEN n ELSE v[b].capacity
         /\ w[b].data = IF Grows(v, b, n) THEN p ELSE v[b].data
         /\ \A c \in Buf \ {b} : w[c] = v[c]
BY DEF ReserveVec, VecType

(* reserve(n) keeps the memory managed.                                    *)
LEMMA ReserveManaged ==
  ASSUME NEW v, NEW m, NEW b \in Buf, NEW n \in Nat, NEW p \in Unused(m),
         Managed(v, m)
  PROVE  Managed(ReserveVec(v, b, n, p), ReserveMem(v, m, b, n, p))
<1> DEFINE w == ReserveVec(v, b, n, p)
           k == ReserveMem(v, m, b, n, p)
<1>1. /\ p \in Heap /\ p \in Pointer /\ p \notin Buf /\ m[p] = Freed
      /\ v \in [Buf -> VecType] /\ m \in [Pointer -> Seq(Cell)]
  BY PointerAssumption DEF Unused, Pointer, Managed, WellTyped
<1>2. \A c \in Buf : v[c].data # p
  <2> SUFFICES ASSUME NEW c \in Buf, v[c].data = p
               PROVE  FALSE
    OBVIOUS
  <2>1. Len(m[p]) >= Storage
    BY DEF Managed, Sized
  <2> QED
    BY <1>1, <2>1, EmptySeq, StorageAssumption DEF Freed
<1>3. CASE ~ Grows(v, b, n)
  <2>1. w = [v EXCEPT ![b] = [@ EXCEPT !.size = n]] /\ k = m
    BY <1>3 DEF ReserveVec, ReserveMem
  <2>2. \A c \in Buf \ {b} : w[c] = v[c]
    BY <1>1, <2>1 DEF VecType
  <2>3. /\ w[b].size = n /\ w[b].data = v[b].data
        /\ w[b].capacity = v[b].capacity
        /\ w \in [Buf -> VecType]
    BY <1>1, <2>1 DEF VecType
  <2>4. \A c \in Buf : w[c].data = v[c].data /\ w[c].capacity = v[c].capacity
    BY <2>2, <2>3
  <2>5. v[b].capacity >= n
    BY <1>1, <1>3, StorageAssumption DEF Grows, Managed, Sized, VecType
  <2>6. Sized(w, k)
    BY <2>1, <2>2, <2>3, <2>4, <2>5 DEF Managed, Sized
  <2>7. Inlined(w, k) /\ SingleOwner(w) /\ NoLeak(w, k)
    BY <2>1, <2>4 DEF Managed, Inlined, SingleOwner, NoLeak
  <2> QED
    BY <1>1, <1>3, <2>1, <2>2, <2>3, <2>6, <2>7 DEF Managed, WellTyped
<1>4. CASE Grows(v, b, n)
  <2> DEFINE r == Release(v, m, b)
             new == Overlay(Block(n), 0, SubSeq(m[v[b].data], 1, v[b].size))
  <2>1. w = [v EXCEPT ![b] = [data |-> p, size |-> n, capacity |-> n]]
        /\ k = [r EXCEPT ![p] = new]
    BY <1>4 DEF ReserveVec, ReserveMem
  <2>2. /\ w \in [Buf -> VecType]
        /\ w[b].data = p /\ w[b].size = n /\ w[b].capacity = n
        /\ \A c \in Buf \ {b} : w[c] = v[c]
    BY <1>1, <2>1 DEF VecType
  <2>3. n >= Storage
    BY <1>4, StorageAssumption, <1>1 DEF Grows, Managed, Sized, VecType
  <2>4. new \in Seq(Cell) /\ Len(new) = n
    <3>1. /\ m[v[b].data] \in Seq(Cell)
          /\ v[b].size \in Nat /\ v[b].size <= Len(m[v[b].data])
      BY <1>1 DEF VecType, Managed, Sized
    <3>2. SubSeq(m[v[b].data], 1, v[b].size) \in Seq(Cell)
      BY <3>1, ElementOfSeq, LenProperties, SubSeqProperties
    <3>3. Block(n) \in Seq(Cell) /\ Len(Block(n)) = n /\ 0 \in Nat
      BY BlockLength
    <3> HIDE DEF new
    <3>4. LET o == Overlay(Block(n), 0, SubSeq(m[v[b].data], 1, v[b].size))
          IN  o \in Seq(Cell) /\ Len(o) = Len(Block(n))
      BY <3>2, <3>3, OverlayKeepsBlock, Zenon
    <3> QED
      BY <3>3, <3>4 DEF new
  <2>5. /\ k \in [Pointer -> Seq(Cell)]
        /\ Len(k[p]) = n
        /\ \A q \in Pointer \ {p} :
             /\ q # v[b].data \/ q \in Buf => k[q] = m[q]
             /\ External(v, b) /\ q = v[b].data => k[q] = Freed
    BY <1>1, <2>1, <2>4, ReleaseFrame
  <2>6. Inlined(w, k)
    <3> SUFFICES ASSUME NEW c \in Buf
                 PROVE  /\ Len(k[c]) = Storage
                        /\ w[c].data \in Heap \cup {c}
                        /\ w[c].data = c => w[c].capacity = Storage
      BY DEF Inlined
    <3>1. k[c] = m[c]
      BY <1>1, <2>5 DEF Pointer
    <3>2. Len(k[c]) = Storage
      BY <3>1 DEF Managed, Inlined
    <3>3. CASE c = b
      BY <1>1, <2>2, <3>2, <3>3
    <3>4. CASE c # b
      BY <2>2, <3>2, <3>4 DEF Managed, Inlined
    <3> QED
      BY <3>3, <3>4
  <2>7. Sized(w, k)
    <3> SUFFICES ASSUME NEW c \in Buf
                 PROVE  /\ Len(k[w[c].data]) = w[c].capacity
                        /\ w[c].capacity >= Storage
                        /\ w[c].capacity >= w[c].size
      BY DEF Sized
    <3>1. CASE c = b
      BY <3>1, <2>2, <2>3, <2>5
    <3>2. CASE c # b
      <4>1. v[c].data # v[b].data /\ v[c].data \in Pointer \ {p}
        BY <1>1, <1>2, <3>2 DEF Managed, SingleOwner, VecType
      <4> QED
        BY <3>2, <4>1, <2>2, <2>5 DEF Managed, Sized
    <3> QED
      BY <3>1, <3>2
  <2>8. SingleOwner(w)
    BY <1>2, <2>2 DEF Managed, SingleOwner
  <2>9. NoLeak(w, k)
    <3> SUFFICES ASSUME NEW q \in Heap, k[q] # Freed
                 PROVE  \E c \in Buf : w[c].data = q
      BY DEF NoLeak
    <3>1. CASE q = p
      BY <3>1, <2>2
    <3>2. CASE q # p
      <4>1. q \in Pointer \ {p} /\ q \notin Buf
        BY <3>2, PointerAssumption DEF Pointer
      <4>2. q # v[b].data
        BY <4>1, <2>5 DEF External
      <4>3. PICK c \in Buf : v[c].data = q
        BY <4>1, <4>2, <2>5 DEF Managed, NoLeak
      <4> QED
        BY <4>2, <4>3, <2>2
    <3> QED
      BY <3>1, <3>2
  <2> QED
    BY <1>4, <2>2, <2>5, <2>6, <2>7, <2>8, <2>9 DEF Managed, WellTyped
<1> QED
  BY <1>3, <1>4

(* Writing into the block of b, of which nothing but the content changes,  *)
(* keeps the memory managed.                                               *)
LEMMA WriteManaged ==
  ASSUME NEW v, NEW m, NEW b \in Buf, NEW from \in Nat, NEW t \in Seq(Cell),
         Managed(v, m)
  PROVE  Managed(v, [m EXCEPT ![v[b].data] = Overlay(@, from, t)])
<1> DEFINE o == Overlay(m[v[b].data], from, t)
           k == [m EXCEPT ![v[b].data] = o]
<1>1. /\ v[b].data \in Pointer /\ m \in [Pointer -> Seq(Cell)]
      /\ m[v[b].data] \in Seq(Cell)
  BY DEF Managed, WellTyped, VecType
<1>2. o \in Seq(Cell) /\ Len(o) = Len(m[v[b].data])
  BY <1>1, OverlayKeepsBlock
<1> HIDE DEF o
<1>3. /\ k \in [Pointer -> Seq(Cell)]
      /\ \A q \in Pointer : Len(k[q]) = Len(m[q])
  BY <1>1, <1>2
<1>4. \A q \in Pointer : k[q] # Freed => m[q] # Freed
  <2> SUFFICES ASSUME NEW q \in Pointer, k[q] # Freed, m[q] = Freed
               PROVE  FALSE
    OBVIOUS
  <2>1. q = v[b].data
    BY <1>1
  <2>2. Len(m[q]) >= Storage
    BY <2>1 DEF Managed, Sized
  <2> QED
    BY <2>2, EmptySeq, StorageAssumption DEF Freed
<1>5. Inlined(v, k) /\ Sized(v, k)
  BY <1>3 DEF Managed, Inlined, Sized, WellTyped, VecType, Pointer
<1>6. NoLeak(v, k)
  BY <1>4 DEF Managed, NoLeak, Pointer
<1> QED
  BY <1>3, <1>5, <1>6 DEF Managed, WellTyped, o

(* Sizes may change as long as they stay within the capacities.            *)
LEMMA ResizeManaged ==
  ASSUME NEW v, NEW m, NEW w, Managed(v, m), w \in [Buf -> VecType],
         \A b \in Buf : /\ w[b].data = v[b].data
                        /\ w[b].capacity = v[b].capacity
                        /\ w[b].size <= w[b].capacity
  PROVE  Managed(w, m)
<1>1. Sized(w, m)
  BY DEF Managed, Sized, VecType
<1>2. Inlined(w, m)
  BY DEF Managed, Inlined
<1>3. SingleOwner(w)
  BY DEF Managed, SingleOwner
<1>4. NoLeak(w, m)
  BY DEF Managed, NoLeak
<1> QED
  BY <1>1, <1>2, <1>3, <1>4 DEF Managed, WellTyped

(* The first n characters of a block are a sequence of n characters.       *)
LEMMA PrefixOfBlock ==
  ASSUME NEW s \in Seq(Cell), NEW n \in Nat, n <= Len(s)
  PROVE  /\ SubSeq(s, 1, n) \in Seq(Cell)
         /\ Len(SubSeq(s, 1, n)) = n
         /\ \A i \in 1..n : SubSeq(s, 1, n)[i] = s[i]
<1>1. \A i \in 1..n : s[i] \in Cell
  BY ElementOfSeq, LenProperties
<1> QED
  BY <1>1, SubSeqProperties

(* Copying a vector keeps the memory managed.                              *)
LEMMA CopyManaged ==
  ASSUME NEW v, NEW m, NEW b \in Buf, NEW c \in Buf, b # c,
         NEW p \in Unused(m), Managed(v, m)
  PROVE  Managed(CopyVec(v, b, c, p), CopyMem(v, m, b, c, p))
<1> DEFINE n == v[c].size
           w == ReserveVec(v, b, n, p)
           k == ReserveMem(v, m, b, n, p)
<1>1. n \in Nat
  BY DEF Managed, WellTyped, VecType
<1> HIDE DEF n
<1>2. Managed(w, k)
  BY <1>1, ReserveManaged
<1> DEFINE t == SubSeq(k[w[c].data], 1, w[c].size)
<1> HIDE DEF w, k
<1>3. t \in Seq(Cell)
  <2>1. /\ k[w[c].data] \in Seq(Cell)
        /\ w[c].size \in Nat /\ w[c].size <= Len(k[w[c].data])
    BY <1>2 DEF Managed, WellTyped, Sized, VecType
  <2> QED
    BY <2>1, PrefixOfBlock
<1> HIDE DEF t
<1>4. Managed(w, [k EXCEPT ![w[b].data] = Overlay(@, 0, t)])
  BY <1>2, <1>3, WriteManaged
<1> QED
  BY <1>2, <1>4 DEF CopyVec, CopyMem, CopyContent, n, w, k, t

(* Moving a vector keeps the memory managed, unless the target would keep  *)
(* an external block that it has freed.                                    *)
LEMMA MoveManaged ==
  ASSUME NEW v, NEW m, NEW b \in Buf, NEW c \in Buf, b # c,
         Managed(v, m), External(v, b) => External(v, c)
  PROVE  Managed(MoveVec(v, b, c), MoveMem(v, m, b, c))
<1> DEFINE w == MoveVec(v, b, c)
           k == MoveMem(v, m, b, c)
<1>1. /\ v \in [Buf -> VecType] /\ m \in [Pointer -> Seq(Cell)]
      /\ EmptyVec(c) \in VecType
  BY StorageAssumption DEF Managed, WellTyped, EmptyVec, VecType, Pointer
<1>2. CASE External(v, c)
  <2>1. /\ w = [v EXCEPT ![b] = v[c], ![c] = EmptyVec(c)]
        /\ k = Release(v, m, b)
    BY <1>2 DEF MoveVec, MoveMem
  <2>2. /\ w \in [Buf -> VecType]
        /\ w[b] = v[c] /\ w[c] = EmptyVec(c)
        /\ \A d \in Buf \ {b, c} : w[d] = v[d]
    BY <1>1, <2>1
  <2>3. v[c].data \in Heap /\ v[c].data # v[b].data /\ v[c].data \in Pointer
    BY <1>2 DEF External, Managed, Inlined, SingleOwner, Pointer
  <2>4. /\ k \in [Pointer -> Seq(Cell)]
        /\ \A q \in Pointer : q # v[b].data \/ q \in Buf => k[q] = m[q]
        /\ External(v, b) => k[v[b].data] = Freed
    BY <2>1, ReleaseFrame
  <2>5. Inlined(w, k)
    <3> SUFFICES ASSUME NEW d \in Buf
                 PROVE  /\ Len(k[d]) = Storage
                        /\ w[d].data \in Heap \cup {d}
                        /\ w[d].data = d => w[d].capacity = Storage
      BY DEF Inlined
    <3>1. Len(k[d]) = Storage
      BY <2>4 DEF Managed, Inlined, Pointer
    <3>2. CASE d = b
      BY <2>2, <2>3, <3>1, <3>2, PointerAssumption
    <3>3. CASE d = c
      BY <2>2, <3>1, <3>3 DEF EmptyVec
    <3>4. CASE d \notin {b, c}
      BY <2>2, <3>1, <3>4 DEF Managed, Inlined
    <3> QED
      BY <3>2, <3>3, <3>4
  <2>6. Sized(w, k)
    <3> SUFFICES ASSUME NEW d \in Buf
                 PROVE  /\ Len(k[w[d].data]) = w[d].capacity
                        /\ w[d].capacity >= Storage
                        /\ w[d].capacity >= w[d].size
      BY DEF Sized
    <3>1. CASE d = b
      BY <2>2, <2>3, <2>4, <3>1 DEF Managed, Sized
    <3>2. CASE d = c
      <4>1. Len(k[c]) = Storage
        BY <2>4 DEF Managed, Inlined, Pointer
      <4> QED
        BY <2>2, <3>2, <4>1, StorageAssumption DEF EmptyVec
    <3>3. CASE d \notin {b, c}
      <4>1. v[d].data # v[b].data /\ v[d].data \in Pointer
        BY <1>1, <3>3 DEF Managed, SingleOwner, VecType
      <4> QED
        BY <2>2, <2>4, <3>3, <4>1 DEF Managed, Sized
    <3> QED
      BY <3>1, <3>2, <3>3
  <2>7. SingleOwner(w)
    <3>1. \A d \in Buf \ {c} : w[d].data # c
      <4>1. w[b].data # c
        BY <2>2, <2>3, PointerAssumption
      <4>2. \A d \in Buf \ {b, c} : v[d].data # c
        BY PointerAssumption DEF Managed, Inlined
      <4> QED
        BY <2>2, <4>1, <4>2
    <3>2. \A d, e \in Buf \ {c} : w[d].data = w[e].data => d = e
      BY <2>2 DEF Managed, SingleOwner
    <3> QED
      BY <2>2, <3>1, <3>2 DEF SingleOwner, EmptyVec
  <2>8. NoLeak(w, k)
    <3> SUFFICES ASSUME NEW q \in Heap, k[q] # Freed
                 PROVE  \E d \in Buf : w[d].data = q
      BY DEF NoLeak
    <3>1. q \notin Buf /\ q \in Pointer
      BY PointerAssumption DEF Pointer
    <3>2. q # v[b].data
      BY <2>4, <3>1 DEF External
    <3>3. PICK d \in Buf : v[d].data = q
      BY <2>4, <3>1, <3>2 DEF Managed, NoLeak
    <3> QED
      BY <2>2, <3>2, <3>3
  <2> QED
    BY <2>2, <2>4, <2>5, <2>6, <2>7, <2>8 DEF Managed, WellTyped
<1>3. CASE ~ External(v, c)
  <2> DEFINE t == SubSeq(m[v[c].data], 1, v[c].size)
  <2>1. ~ External(v, b)
    BY <1>3
  <2>2. /\ w = [v EXCEPT ![b] = [@ EXCEPT !.size = v[c].size],
                         ![c] = EmptyVec(c)]
        /\ k = [m EXCEPT ![v[b].data] = Overlay(@, 0, t)]
    BY <1>3, <2>1 DEF MoveVec, MoveMem, Release, CopyContent
  <2>3. t \in Seq(Cell)
    <3>1. /\ m[v[c].data] \in Seq(Cell)
          /\ v[c].size \in Nat /\ v[c].size <= Len(m[v[c].data])
      BY <1>1 DEF VecType, Managed, Sized
    <3> QED
      BY <3>1, PrefixOfBlock
  <2> HIDE DEF t
  <2>4. Managed(v, k)
    <3> HIDE DEF k
    <3>1. Managed(v, [m EXCEPT ![v[b].data] = Overlay(@, 0, t)])
      BY <2>3, WriteManaged
    <3> QED
      BY <2>2, <3>1
  <2>5. /\ v[b].data = b /\ v[b].capacity = Storage
        /\ v[c].data = c /\ v[c].capacity = Storage
        /\ v[c].size \in Nat /\ v[c].size <= Storage
    BY <1>1, <1>3, <2>1 DEF External, Managed, Inlined, Sized, VecType
  <2>6. /\ w \in [Buf -> VecType]
        /\ w[b].data = b /\ w[b].size = v[c].size /\ w[b].capacity = Storage
        /\ w[c] = EmptyVec(c)
        /\ \A d \in Buf \ {b, c} : w[d] = v[d]
    <3> DEFINE u == [v[b] EXCEPT !.size = v[c].size]
    <3> HIDE DEF w
    <3>1. /\ u \in VecType /\ u.data = b
          /\ u.size = v[c].size /\ u.capacity = Storage
      BY <1>1, <2>5 DEF VecType
    <3>2. w = [v EXCEPT ![b] = u, ![c] = EmptyVec(c)]
      BY <1>1, <2>2
    <3> HIDE DEF u
    <3> QED
      BY <1>1, <3>1, <3>2
  <2>7. \A d \in Buf : /\ w[d].data = v[d].data
                       /\ w[d].capacity = v[d].capacity
                       /\ w[d].size <= w[d].capacity
    <3> TAKE d \in Buf
    <3>1. CASE d = b
      BY <2>5, <2>6, <3>1
    <3>2. CASE d = c
      BY <2>5, <2>6, <3>2, StorageAssumption DEF EmptyVec
    <3>3. CASE d \notin {b, c}
      BY <2>6, <3>3 DEF Managed, Sized
    <3> QED
      BY <3>1, <3>2, <3>3
  <2>8. Managed(w, k)
    BY <2>4, <2>6, <2>7, ResizeManaged
  <2> QED
    BY <2>8
<1> QED
  BY <1>2, <1>3

(* Destroying the buffer b leaves the inlined storage of b only.           *)
LEMMA DestroyManaged ==
  ASSUME NEW v, NEW m, NEW b \in Buf, Managed(v, m)
  PROVE  Managed([v EXCEPT ![b] = EmptyVec(b)],
                 [Release(v, m, b) EXCEPT ![b] = Block(Storage)])
<1> DEFINE w == [v EXCEPT ![b] = EmptyVec(b)]
           k == [Release(v, m, b) EXCEPT ![b] = Block(Storage)]
<1>1. /\ v \in [Buf -> VecType] /\ EmptyVec(b) \in VecType
      /\ b \in Pointer /\ b \notin Heap
  BY StorageAssumption, PointerAssumption
     DEF Managed, WellTyped, EmptyVec, VecType, Pointer
<1>2. /\ w \in [Buf -> VecType] /\ w[b] = EmptyVec(b)
      /\ \A d \in Buf \ {b} : w[d] = v[d]
  BY <1>1
<1>3. Block(Storage) \in Seq(Cell) /\ Len(Block(Storage)) = Storage
  BY BlockLength, StorageAssumption
<1>4. /\ k \in [Pointer -> Seq(Cell)]
      /\ k[b] = Block(Storage)
      /\ \A q \in Pointer \ {b} :
           /\ q # v[b].data \/ q \in Buf => k[q] = m[q]
           /\ External(v, b) /\ q = v[b].data => k[q] = Freed
  BY <1>1, <1>3, ReleaseFrame
<1> HIDE DEF w, k
<1>a. w[b].data = b /\ w[b].size = 0 /\ w[b].capacity = Storage
  BY <1>2 DEF EmptyVec
<1>5. Inlined(w, k)
  <2> SUFFICES ASSUME NEW d \in Buf
               PROVE  /\ Len(k[d]) = Storage
                      /\ w[d].data \in Heap \cup {d}
                      /\ w[d].data = d => w[d].capacity = Storage
    BY DEF Inlined
  <2>1. CASE d = b
    BY <1>a, <1>3, <1>4, <2>1
  <2>2. CASE d # b
    <3>1. k[d] = m[d]
      BY <1>4, <2>2 DEF Pointer
    <3> QED
      BY <1>2, <2>2, <3>1 DEF Managed, Inlined
  <2> QED
    BY <2>1, <2>2
<1>6. Sized(w, k)
  <2> SUFFICES ASSUME NEW d \in Buf
               PROVE  /\ Len(k[w[d].data]) = w[d].capacity
                      /\ w[d].capacity >= Storage
                      /\ w[d].capacity >= w[d].size
    BY DEF Sized
  <2>1. CASE d = b
    BY <1>a, <1>3, <1>4, <2>1, StorageAssumption
  <2>2. CASE d # b
    <3>1. v[d].data # v[b].data /\ v[d].data \in Pointer \ {b}
      BY <1>1, <2>2 DEF Managed, SingleOwner, Inlined, VecType
    <3> QED
      BY <1>2, <1>4, <2>2, <3>1 DEF Managed, Sized
  <2> QED
    BY <2>1, <2>2
<1>7. SingleOwner(w)
  <2>1. \A d \in Buf \ {b} : w[d].data # b
    <3> TAKE d \in Buf \ {b}
    <3>1. v[d].data \in Heap \cup {d}
      BY DEF Managed, Inlined
    <3> QED
      BY <1>1, <1>2, <3>1
  <2> QED
    BY <1>a, <1>2, <2>1 DEF Managed, SingleOwner
<1>8. NoLeak(w, k)
  <2> SUFFICES ASSUME NEW q \in Heap, k[q] # Freed
               PROVE  \E d \in Buf : w[d].data = q
    BY DEF NoLeak
  <2>1. q \in Pointer \ {b} /\ q \notin Buf
    BY PointerAssumption DEF Pointer
  <2>2. q # v[b].data
    BY <1>4, <2>1 DEF External
  <2>3. PICK d \in Buf : v[d].data = q
    BY <1>4, <2>1, <2>2 DEF Managed, NoLeak
  <2> QED
    BY <1>2, <2>2, <2>3
<1> QED
  BY <1>2, <1>4, <1>5, <1>6, <1>7, <1>8 DEF Managed, WellTyped, w, k

----------------------------------------------------------------------------
(* Every action preserves the inductive invariant.                         *)

LEMMA InitIInv == Init => IInv
<1> SUFFICES ASSUME Init PROVE IInv
  OBVIOUS
<1>1. /\ \A b \in Buf : EmptyVec(b) \in VecType /\ NoBuffer(b) \in BufType
      /\ Block(Storage) \in Seq(Cell) /\ Len(Block(Storage)) = Storage
      /\ Freed \in Seq(Cell)
  BY StorageAssumption, BlockLength, EmptySeq
     DEF EmptyVec, VecType, NoBuffer, BufType, Pointer, Freed
<1>2. WellTyped(vec, mem) /\ buf \in [Buf -> BufType]
  BY <1>1 DEF Init, WellTyped
<1>3. \A b \in Buf : mem[b] = Block(Storage) /\ vec[b] = EmptyVec(b)
  BY DEF Init, Pointer
<1>a. \A b \in Buf : /\ Len(mem[b]) = Storage
                       /\ vec[b].data = b
                       /\ vec[b].size = 0
                       /\ vec[b].capacity = Storage
  <2> TAKE b \in Buf
  <2>1. mem[b] = Block(Storage) /\ vec[b] = EmptyVec(b)
    BY <1>3
  <2>2. Len(Block(Storage)) = Storage
    BY BlockLength, StorageAssumption
  <2> QED
    BY <2>1, <2>2 DEF EmptyVec
<1>4. Inlined(vec, mem) /\ SingleOwner(vec)
  BY <1>a DEF Inlined, SingleOwner
<1>5. Sized(vec, mem)
  <2> SUFFICES ASSUME NEW b \in Buf
               PROVE  /\ Len(mem[vec[b].data]) = vec[b].capacity
                      /\ vec[b].capacity >= Storage
                      /\ vec[b].capacity >= vec[b].size
    BY DEF Sized
  <2> QED
    BY <1>a, StorageAssumption
<1>6. NoLeak(vec, mem)
  BY PointerAssumption DEF Init, NoLeak, Pointer
<1> QED
  BY <1>2, <1>3, <1>4, <1>5, <1>6 DEF IInv, Managed, Init

(* A constructor leaves a full vector and an area that covers it.          *)
LEMMA ConstructIInv ==
  ASSUME IInv, NEW b \in Buf, NEW capacity \in Capacity, Construct(b, capacity)
  PROVE  IInv'
<1> DEFINE n == IF capacity > Storage THEN capacity ELSE Storage
<1>1. n \in Nat /\ n >= Storage /\ b \notin alive
  BY CapacityAssumption, StorageAssumption DEF Construct
<1> HIDE DEF n
<1>2. PICK p \in Unused(mem) : /\ vec' = ReserveVec(vec, b, n, p)
                               /\ mem' = ReserveMem(vec, mem, b, n, p)
  BY DEF Construct, n
<1>a. Managed(vec, mem) /\ vec \in [Buf -> VecType]
  BY DEF IInv, Managed, WellTyped
<1>3. /\ Managed(vec', mem')
      /\ vec'[b].size = n
      /\ vec'[b].capacity = IF Grows(vec, b, n) THEN n ELSE vec[b].capacity
      /\ \A c \in Buf \ {b} : vec'[c] = vec[c]
  BY <1>1, <1>2, <1>a, ReserveManaged, ReserveShape
<1>4. vec'[b].capacity = n
  <2>1. vec[b] = EmptyVec(b)
    BY <1>1 DEF IInv
  <2> QED
    BY <1>1, <1>3, <2>1, StorageAssumption DEF Grows, EmptyVec
<1>5. /\ buf' = [buf EXCEPT ![b] = Requested(vec'[b], 0, 0, n)]
      /\ alive' = alive \cup {b}
  BY DEF Construct, n
<1>6. /\ Requested(vec'[b], 0, 0, n) \in BufType
      /\ Fits(vec'[b], Requested(vec'[b], 0, 0, n))
  BY <1>1, <1>3, <1>4
     DEF Requested, AreaUpTo, BufType, Fits, Managed, WellTyped, VecType
<1> QED
  BY <1>3, <1>5, <1>6 DEF IInv

(* Handing out n characters of an area that has room for them.             *)
LEMMA TakeFits ==
  ASSUME NEW w \in VecType, NEW r \in BufType, NEW n \in Nat,
         Fits(w, r), r.taken + n <= r.len
  PROVE  Take(r, n) \in BufType /\ Fits(w, Take(r, n))
<1>1. Take(r, n) = [used |-> r.used, at |-> r.at, from |-> r.from,
                    len |-> r.len, taken |-> r.taken + n]
  BY DEF Take, BufType
<1> QED
  BY <1>1 DEF BufType, Fits

(* A write that fits the area stays inside it.                             *)
LEMMA WriteInPlaceIInv ==
  ASSUME IInv, NEW b \in Buf, NEW s \in Chunk, WriteInPlace(b, s)
  PROVE  IInv'
<1>1. s \in Seq(Cell) /\ Len(s) \in Nat
  BY ChunkAssumption, LenProperties, SeqMonotonic DEF Cell
<1>2. /\ b \in alive
      /\ buf[b] \in BufType
      /\ buf[b].from + buf[b].taken \in Nat
      /\ buf[b].at = vec[b].data
      /\ Fits(vec[b], buf[b])
      /\ buf[b].len - buf[b].taken >= Len(s)
  BY DEF WriteInPlace, ServedInPlace, Remaining, IInv, Fits, BufType
<1>3. Managed(vec, mem')
  BY <1>1, <1>2, WriteManaged DEF IInv, WriteInPlace
<1>4. /\ Take(buf[b], Len(s)) \in BufType
      /\ Fits(vec[b], Take(buf[b], Len(s)))
  <2>1. vec[b] \in VecType /\ buf[b].taken + Len(s) <= buf[b].len
    BY <1>1, <1>2 DEF IInv, Managed, WellTyped, BufType
  <2> QED
    BY <1>1, <1>2, <2>1, TakeFits
<1>5. /\ buf' = [buf EXCEPT ![b] = Take(buf[b], Len(s))]
      /\ UNCHANGED <<alive, vec>>
  BY DEF WriteInPlace
<1> QED
  BY <1>3, <1>4, <1>5 DEF IInv

(* A write that makes the vector grow finds its area inside it.            *)
LEMMA WriteGrowingIInv ==
  ASSUME IInv, NEW b \in Buf, NEW s \in Chunk, WriteGrowing(b, s)
  PROVE  IInv'
<1> DEFINE n == vec[b].size + Len(s)
<1>1. s \in Seq(Cell) /\ Len(s) \in Nat /\ Len(s) > 0
  BY ChunkAssumption, LenProperties, SeqMonotonic, EmptySeq DEF Cell
<1>2. /\ b \in alive
      /\ buf[b] \in BufType /\ vec[b] \in VecType
      /\ Fits(vec[b], buf[b])
      /\ Managed(vec, mem) /\ vec \in [Buf -> VecType]
      /\ n \in Nat
  BY <1>1 DEF WriteGrowing, IInv, Managed, WellTyped, VecType
<1> DEFINE r == Requested(vec'[b], buf[b].used, buf[b].taken, Len(s))
<1> HIDE DEF n
<1>3. PICK p \in Unused(mem) :
        /\ vec' = ReserveVec(vec, b, n, p)
        /\ mem' = [ReserveMem(vec, mem, b, n, p) EXCEPT
                     ![r.at] = Overlay(@, r.from, s)]
        /\ buf' = [buf EXCEPT ![b] = Take(r, Len(s))]
  BY DEF WriteGrowing, n
<1>4. /\ Managed(vec', ReserveMem(vec, mem, b, n, p))
      /\ vec'[b].size = n
      /\ vec'[b].capacity = IF Grows(vec, b, n) THEN n ELSE vec[b].capacity
      /\ \A c \in Buf \ {b} : vec'[c] = vec[c]
  BY <1>2, <1>3, ReserveManaged, ReserveShape
<1>5. vec'[b] \in VecType
  BY <1>4 DEF Managed, WellTyped
<1>6. vec'[b].capacity = n
  <2>1. n > vec[b].capacity /\ vec[b].capacity >= Storage
    BY <1>1, <1>2 DEF n, Fits, VecType, Managed, Sized
  <2> QED
    BY <1>2, <1>4, <2>1, StorageAssumption DEF Grows, VecType
<1>7. /\ r.at = vec'[b].data
      /\ r.from = buf[b].used + buf[b].taken
      /\ r.from \in Nat
  BY <1>2 DEF Requested, AreaUpTo, BufType
<1>8. Managed(vec', mem')
  <2> DEFINE k == ReserveMem(vec, mem, b, n, p)
  <2>1. Managed(vec', k)
    BY <1>4
  <2>2. mem' = [k EXCEPT ![r.at] = Overlay(@, r.from, s)]
    BY <1>3
  <2> HIDE DEF k, r
  <2>3. mem' = [k EXCEPT ![vec'[b].data] = Overlay(@, r.from, s)]
    BY <1>7, <2>2
  <2>4. Managed(vec', [k EXCEPT ![vec'[b].data] = Overlay(@, r.from, s)])
    BY <1>1, <1>7, <2>1, WriteManaged
  <2> QED
    BY <2>3, <2>4
<1>9. Take(r, Len(s)) \in BufType /\ Fits(vec'[b], Take(r, Len(s)))
  <2>1. r = [used |-> buf[b].used + buf[b].taken,
             at |-> vec'[b].data,
             from |-> buf[b].used + buf[b].taken,
             len |-> Len(s), taken |-> 0]
    BY <1>1, <1>2 DEF Requested, AreaUpTo, BufType
  <2>2. buf[b].used + buf[b].taken + Len(s) <= n
    BY <1>1, <1>2 DEF Fits, BufType, VecType, n
  <2> HIDE DEF r
  <2>3. r \in BufType /\ Fits(vec'[b], r)
    BY <1>1, <1>2, <1>4, <1>5, <1>6, <2>1, <2>2 DEF BufType, Fits, VecType
  <2> QED
    BY <1>1, <1>5, <2>1, <2>3, TakeFits
<1> HIDE DEF r
<1>10. alive' = alive
  BY DEF WriteGrowing
<1> QED
  BY <1>2, <1>3, <1>4, <1>8, <1>9, <1>10 DEF IInv

(* reset() makes the area cover the whole vector again.                    *)
LEMMA ResetIInv ==
  ASSUME IInv, NEW b \in Buf, Reset(b)
  PROVE  IInv'
<1>1. /\ vec[b] \in VecType /\ vec \in [Buf -> VecType]
      /\ Managed(vec, mem)
  BY DEF IInv, Managed, WellTyped
<1>2. /\ ClearedVec(vec[b]) \in VecType
      /\ ClearedVec(vec[b]).data = vec[b].data
      /\ ClearedVec(vec[b]).capacity = vec[b].capacity
      /\ ClearedVec(vec[b]).size = vec[b].capacity
  BY <1>1 DEF ClearedVec, VecType
<1>3. vec' = [vec EXCEPT ![b] = ClearedVec(vec[b])]
  BY DEF Reset
<1>4. vec' \in [Buf -> VecType] /\ vec'[b] = ClearedVec(vec[b])
      /\ \A c \in Buf \ {b} : vec'[c] = vec[c]
  BY <1>1, <1>2, <1>3
<1>5. Managed(vec', mem)
  <2>1. \A c \in Buf : /\ vec'[c].data = vec[c].data
                       /\ vec'[c].capacity = vec[c].capacity
                       /\ vec'[c].size <= vec'[c].capacity
    <3> TAKE c \in Buf
    <3>1. CASE c = b
      BY <1>1, <1>2, <1>4, <3>1 DEF VecType
    <3>2. CASE c # b
      BY <1>1, <1>4, <3>2 DEF Managed, Sized
    <3> QED
      BY <3>1, <3>2
  <2> QED
    BY <1>1, <1>4, <2>1, ResizeManaged
<1>6. ClearedBuf(vec[b]) \in BufType /\ Fits(vec'[b], ClearedBuf(vec[b]))
  BY <1>1, <1>2, <1>4
     DEF ClearedBuf, Requested, AreaUpTo, BufType, VecType, Fits
<1> QED
  BY <1>4, <1>5, <1>6 DEF IInv, Reset

(* The area behind n characters, up to the end of a vector that fills its  *)
(* capacity.                                                               *)
LEMMA AreaUpToFits ==
  ASSUME NEW w \in VecType, NEW n \in Nat, n <= w.capacity,
         w.size = w.capacity
  PROVE  /\ AreaUpTo(w, n, w.capacity) \in BufType
         /\ Fits(w, AreaUpTo(w, n, w.capacity))
BY DEF AreaUpTo, BufType, VecType, Fits

(* What a live buffer c holds fits the capacity of its vector.             *)
LEMMA WrittenFits ==
  ASSUME IInv, NEW c \in alive
  PROVE  /\ Written(c) \in Nat /\ Written(c) <= vec[c].capacity
         /\ vec[c].size = vec[c].capacity /\ vec[c].capacity \in Nat
<1>1. c \in Buf /\ buf[c] \in BufType /\ vec[c] \in VecType
      /\ Fits(vec[c], buf[c])
  BY DEF IInv, Managed, WellTyped
<1> QED
  BY <1>1 DEF Written, Fits, BufType, VecType

(* A careful copy leaves a full vector that holds the copied text.         *)
LEMMA CopyIInv ==
  ASSUME CarefulClients, IInv, NEW b \in Buf, NEW c \in Buf, Copy(b, c)
  PROVE  IInv'
<1> DEFINE n == vec[c].size
<1>1. /\ c \in alive /\ b # c
      /\ Managed(vec, mem) /\ vec \in [Buf -> VecType] /\ n \in Nat
      /\ CopyKeepsSize(b, c)
  BY DEF CarefulClients, Copy, IInv, Managed, WellTyped, VecType
<1>2. PICK p \in Unused(mem) : /\ vec' = CopyVec(vec, b, c, p)
                               /\ mem' = CopyMem(vec, mem, b, c, p)
  BY DEF Copy
<1>3. Managed(vec', mem')
  BY <1>1, <1>2, CopyManaged
<1> HIDE DEF n
<1>4. /\ vec' = ReserveVec(vec, b, n, p)
  BY <1>2 DEF CopyVec, n
<1>5. /\ vec'[b].size = n
      /\ vec'[b].capacity = IF Grows(vec, b, n) THEN n ELSE vec[b].capacity
      /\ \A d \in Buf \ {b} : vec'[d] = vec[d]
      /\ vec'[b] \in VecType
  BY <1>1, <1>3, <1>4, ReserveShape DEF Managed, WellTyped
<1>6. n >= Storage
  BY <1>1, WrittenFits DEF Managed, Sized, n
<1>7. vec'[b].capacity = n
  <2>1. CASE External(vec, b)
    BY <1>1, <1>5, <1>6, <2>1, StorageAssumption
       DEF CopyKeepsSize, Grows, VecType, n
  <2>2. CASE ~ External(vec, b)
    <3>1. vec[b].capacity = Storage
      BY <2>2 DEF External, IInv, Managed, Inlined
    <3> QED
      BY <1>1, <1>5, <1>6, <3>1, StorageAssumption DEF Grows
  <2> QED
    BY <2>1, <2>2
<1>8. Written(c) \in Nat /\ Written(c) <= vec'[b].capacity
  BY <1>1, <1>7, WrittenFits DEF n
<1>9. /\ buf' = [buf EXCEPT
                     ![b] = AreaUpTo(vec'[b], Written(c), vec'[b].capacity)]
      /\ alive' = alive \cup {b}
  BY DEF Copy
<1>10. /\ AreaUpTo(vec'[b], Written(c), vec'[b].capacity) \in BufType
       /\ Fits(vec'[b], AreaUpTo(vec'[b], Written(c), vec'[b].capacity))
  BY <1>5, <1>7, <1>8, AreaUpToFits
<1> QED
  BY <1>3, <1>5, <1>9, <1>10 DEF IInv

(* What a move leaves in the two vectors.                                  *)
LEMMA MoveShape ==
  ASSUME NEW v \in [Buf -> VecType], NEW b \in Buf, NEW c \in Buf, b # c
  PROVE  LET w == MoveVec(v, b, c) IN
         /\ w[b].size = v[c].size
         /\ w[b].capacity = IF External(v, c) THEN v[c].capacity
                                              ELSE v[b].capacity
         /\ w[c] = EmptyVec(c)
         /\ \A d \in Buf \ {b, c} : w[d] = v[d]
<1>1. /\ [v[b] EXCEPT !.size = v[c].size].size = v[c].size
      /\ [v[b] EXCEPT !.size = v[c].size].capacity = v[b].capacity
  BY DEF VecType
<1>2. CASE External(v, c)
  BY <1>2 DEF MoveVec
<1>3. CASE ~ External(v, c)
  <2> DEFINE u == [v[b] EXCEPT !.size = v[c].size]
  <2>1. MoveVec(v, b, c) = [v EXCEPT ![b] = u, ![c] = EmptyVec(c)]
    BY <1>3 DEF MoveVec
  <2> HIDE DEF u
  <2>2. MoveVec(v, b, c)[b] = u
    BY <2>1
  <2> QED
    BY <1>1, <1>3, <2>1, <2>2 DEF u
<1> QED
  BY <1>2, <1>3

(* A careful move leaves both buffers full and with disjoint blocks.       *)
LEMMA MoveIInv ==
  ASSUME CarefulClients, IInv, NEW b \in Buf, NEW c \in Buf, Move(b, c)
  PROVE  IInv'
<1> DEFINE v == MoveVec(vec, b, c)
<1>1. /\ c \in alive /\ b # c
      /\ Managed(vec, mem) /\ vec \in [Buf -> VecType]
      /\ External(vec, b) => External(vec, c)
  BY DEF CarefulClients, Move, MoveKeepsStorage, IInv, Managed, WellTyped
<1>2. Managed(v, mem')
  BY <1>1, MoveManaged DEF Move
<1>3. /\ v[b].size = vec[c].size
      /\ v[b].capacity = IF External(vec, c) THEN vec[c].capacity
                                             ELSE vec[b].capacity
      /\ v[c] = EmptyVec(c)
      /\ \A d \in Buf \ {b, c} : v[d] = vec[d]
  BY <1>1, MoveShape
<1>4. /\ vec' = [v EXCEPT ![c] = ClearedVec(v[c])]
      /\ buf' = [buf EXCEPT ![b] = AreaUpTo(v[b], Written(c), v[b].capacity),
                            ![c] = ClearedBuf(v[c])]
      /\ alive' = alive \cup {b}
  BY DEF Move
<1> HIDE DEF v
<1>5. v \in [Buf -> VecType]
  BY <1>2 DEF Managed, WellTyped
<1>6. v[b].capacity = vec[c].capacity
  <2>1. CASE ~ External(vec, c)
    BY <1>1, <1>3, <2>1 DEF External, Managed, Inlined
  <2> QED
    BY <1>3, <2>1
<1>7. /\ ClearedVec(v[c]) =
           [data |-> c, size |-> Storage, capacity |-> Storage]
      /\ ClearedVec(v[c]) \in VecType
      /\ v[c].data = c /\ v[c].capacity = Storage
  BY <1>3, StorageAssumption DEF ClearedVec, EmptyVec, VecType, Pointer
<1>8. /\ vec' \in [Buf -> VecType]
      /\ vec'[b] = v[b]
      /\ vec'[c] = ClearedVec(v[c])
      /\ \A d \in Buf \ {c} : vec'[d] = v[d]
  BY <1>1, <1>4, <1>5, <1>7
<1>9. Managed(vec', mem')
  <2>1. \A d \in Buf : /\ vec'[d].data = v[d].data
                       /\ vec'[d].capacity = v[d].capacity
                       /\ vec'[d].size <= vec'[d].capacity
    <3> TAKE d \in Buf
    <3>1. CASE d = c
      BY <1>7, <1>8, <3>1, StorageAssumption
    <3>2. CASE d # c
      BY <1>2, <1>8, <3>2 DEF Managed, Sized
    <3> QED
      BY <3>1, <3>2
  <2> QED
    BY <1>2, <1>8, <2>1, ResizeManaged
<1>10. /\ AreaUpTo(v[b], Written(c), v[b].capacity) \in BufType
       /\ Fits(v[b], AreaUpTo(v[b], Written(c), v[b].capacity))
  BY <1>1, <1>3, <1>5, <1>6, WrittenFits, AreaUpToFits
<1>11. ClearedBuf(v[c]) \in BufType /\ Fits(vec'[c], ClearedBuf(v[c]))
  BY <1>7, <1>8, StorageAssumption
     DEF ClearedBuf, Requested, AreaUpTo, BufType, VecType, Fits
<1>12. \A d \in Buf \ {b, c} : vec'[d] = vec[d]
  BY <1>3, <1>8
<1>13. buf' \in [Buf -> BufType]
  BY <1>4, <1>10, <1>11 DEF IInv
<1>14. \A d \in alive' : Fits(vec'[d], buf'[d])
  <2>1. buf'[c] = ClearedBuf(v[c])
        /\ buf'[b] = AreaUpTo(v[b], Written(c), v[b].capacity)
        /\ \A d \in Buf \ {b, c} : buf'[d] = buf[d]
    BY <1>1, <1>4 DEF IInv
  <2> QED
    BY <1>4, <1>8, <1>10, <1>11, <1>12, <2>1 DEF IInv
<1> QED
  BY <1>1, <1>4, <1>9, <1>12, <1>13, <1>14 DEF IInv

(* The destructor frees the external block and nothing else.               *)
LEMMA DestroyIInv ==
  ASSUME IInv, NEW b \in Buf, Destroy(b)
  PROVE  IInv'
<1>1. Managed(vec', mem')
  BY DestroyManaged DEF Destroy, IInv
<1>2. NoBuffer(b) \in BufType
  BY DEF NoBuffer, BufType, Pointer
<1> QED
  BY <1>1, <1>2 DEF Destroy, IInv, Managed, WellTyped

(* Every step of a careful client keeps the inductive invariant.           *)
LEMMA NextIInv ==
  ASSUME CarefulClients, IInv, [Next]_vars
  PROVE  IInv'
<1>1. ASSUME NEW b \in Buf, NEW n \in Capacity, Construct(b, n) PROVE IInv'
  BY <1>1, ConstructIInv
<1>2. ASSUME NEW b \in Buf, NEW s \in Chunk, WriteInPlace(b, s) PROVE IInv'
  BY <1>2, WriteInPlaceIInv
<1>3. ASSUME NEW b \in Buf, NEW s \in Chunk, WriteGrowing(b, s) PROVE IInv'
  BY <1>3, WriteGrowingIInv
<1>4. ASSUME NEW b \in Buf, Reset(b) PROVE IInv'
  BY <1>4, ResetIInv
<1>5. ASSUME NEW b \in Buf, NEW c \in Buf, Copy(b, c) PROVE IInv'
  BY <1>5, CopyIInv
<1>6. ASSUME NEW b \in Buf, NEW c \in Buf, Move(b, c) PROVE IInv'
  BY <1>6, MoveIInv
<1>7. ASSUME NEW b \in Buf, Destroy(b) PROVE IInv'
  BY <1>7, DestroyIInv
<1>8. CASE UNCHANGED vars
  BY <1>8 DEF vars, IInv
<1> QED
  BY <1>1, <1>2, <1>3, <1>4, <1>5, <1>6, <1>7, <1>8 DEF Next

(* The inductive invariant contains the invariants of the module.          *)
LEMMA IInvImplies ==
  IInv => TypeOK /\ Ownership /\ AreaInsideBlock /\ SizeReachesArea
<1> SUFFICES ASSUME IInv
             PROVE  TypeOK /\ Ownership /\ AreaInsideBlock /\ SizeReachesArea
  OBVIOUS
<1>1. TypeOK
  BY DEF IInv, TypeOK, Managed, WellTyped, VecType, BufType, Cell
<1>2. Ownership
  <2>1. \A b \in Buf : /\ vec[b].data \in Heap \cup {b}
                       /\ Len(mem[vec[b].data]) = vec[b].capacity
                       /\ vec[b].capacity > 0
    <3> TAKE b \in Buf
    <3>1. vec[b].capacity \in Nat
      BY DEF IInv, Managed, WellTyped, VecType
    <3>2. vec[b].capacity >= Storage
      BY DEF IInv, Managed, Sized
    <3>3. vec[b].capacity > 0
      BY <3>1, <3>2, StorageAssumption
    <3> QED
      BY <3>3 DEF IInv, Managed, Inlined, Sized
  <2> QED
    BY <2>1 DEF IInv, Managed, SingleOwner, NoLeak, Ownership
<1>3. AreaInsideBlock
  BY DEF IInv, AreaInsideBlock, Fits, Managed, Sized
<1>4. SizeReachesArea
  BY DEF IInv, SizeReachesArea, Fits
<1> QED
  BY <1>1, <1>2, <1>3, <1>4

(* The inductive invariant holds in every state.                           *)
LEMMA Invariance ==
  ASSUME CarefulClients
  PROVE  Spec => []IInv
<1>1. IInv /\ [Next]_vars => IInv'
  BY NextIInv
<1> QED
  BY InitIInv, <1>1, PTL DEF Spec

----------------------------------------------------------------------------
(* The members and the memory keep their types.                            *)
THEOREM TypeCorrect ==
  ASSUME CarefulClients
  PROVE  Spec => []TypeOK
<1>1. Spec => []IInv
  BY Invariance
<1>2. IInv => TypeOK
  BY IInvImplies
<1> QED
  BY <1>1, <1>2, PTL

(* No block is leaked, shared or used after it was freed, whatever buffers *)
(* are constructed, copied, moved, reset and destroyed.                    *)
THEOREM MemoryIsManaged ==
  ASSUME CarefulClients
  PROVE  Spec => []Ownership
<1>1. Spec => []IInv
  BY Invariance
<1>2. IInv => Ownership
  BY IInvImplies
<1> QED
  BY <1>1, <1>2, PTL

(* The area handed to the next caller never leaves the buffer's own block. *)
THEOREM AreasAreInside ==
  ASSUME CarefulClients
  PROVE  Spec => []AreaInsideBlock
<1>1. Spec => []IInv
  BY Invariance
<1>2. IInv => AreaInsideBlock
  BY IInvImplies
<1> QED
  BY <1>1, <1>2, PTL

(* The vector always fills its capacity, which is why growing it by the    *)
(* requested size makes room behind the used part of the area.             *)
THEOREM VectorIsFull ==
  ASSUME CarefulClients
  PROVE  Spec => []SizeReachesArea
<1>1. Spec => []IInv
  BY Invariance
<1>2. IInv => SizeReachesArea
  BY IInvImplies
<1> QED
  BY <1>1, <1>2, PTL

----------------------------------------------------------------------------
(* memory_buffer implements TextBuffers: whatever happens to blocks, sizes *)
(* and areas, a buffer holds the text written to it.                       *)

(* View, for the vectors v, the memory m and the members u.                *)
ViewOf(v, m, u, b) == SubSeq(m[v[b].data], 1, u[b].used + u[b].taken)

(* The vector of d holds in w and k what it holds in v and m.              *)
Untouched(v, m, w, k, d) == w[d] = v[d] /\ k[w[d].data] = m[v[d].data]

(* The first n characters of the vector of b in w and k are those of the   *)
(* vector of c in v and m.                                                 *)
SameText(v, m, w, k, b, c, n) ==
  \A i \in 1..n : k[w[b].data][i] = m[v[c].data][i]

(* The members u of b stand for a text of n characters.                    *)
LengthIs(u, b, n) == u[b].used + u[b].taken = n

(* t written into the block of b.                                          *)
Put(v, m, b, from, t) == [m EXCEPT ![v[b].data] = Overlay(@, from, t)]

(* t stands in the block of b, behind n characters.                        *)
Holds(v, k, b, n, t) ==
  \A i \in 1..Len(t) : k[v[b].data][n + i] = t[i]

(* A buffer that is not alive holds nothing.                               *)
DeadAreEmpty == \A b \in Buf \ alive : buf[b] = NoBuffer(b)

TextInv == IInv /\ DeadAreEmpty

----------------------------------------------------------------------------
(* Sequences.                                                              *)

LEMMA PrefixKept ==
  ASSUME NEW s \in Seq(Cell), NEW t \in Seq(Cell), NEW n \in Nat,
         n <= Len(s), n <= Len(t), \A i \in 1..n : s[i] = t[i]
  PROVE  SubSeq(s, 1, n) = SubSeq(t, 1, n)
<1>1. /\ SubSeq(s, 1, n) \in Seq(Cell) /\ Len(SubSeq(s, 1, n)) = n
      /\ SubSeq(t, 1, n) \in Seq(Cell) /\ Len(SubSeq(t, 1, n)) = n
      /\ \A i \in 1..n : SubSeq(s, 1, n)[i] = SubSeq(t, 1, n)[i]
  BY PrefixOfBlock
<1> QED
  BY <1>1, SeqEqual

LEMMA PrefixExtended ==
  ASSUME NEW s \in Seq(Cell), NEW u \in Seq(Cell), NEW t \in Seq(Cell),
         NEW n \in Nat, n <= Len(s), n + Len(t) <= Len(u),
         \A i \in 1..n : u[i] = s[i],
         \A i \in 1..Len(t) : u[n + i] = t[i]
  PROVE  SubSeq(u, 1, n + Len(t)) = SubSeq(s, 1, n) \o t
<1> DEFINE x == SubSeq(u, 1, n + Len(t))
           y == SubSeq(s, 1, n)
           z == y \o t
<1>1. Len(t) \in Nat /\ n + Len(t) \in Nat
  BY LenProperties
<1>2. /\ x \in Seq(Cell) /\ Len(x) = n + Len(t)
      /\ \A i \in 1..(n + Len(t)) : x[i] = u[i]
  BY <1>1, PrefixOfBlock
<1>3. y \in Seq(Cell) /\ Len(y) = n /\ \A i \in 1..n : y[i] = s[i]
  BY PrefixOfBlock
<1> HIDE DEF x, y
<1>4. /\ z \in Seq(Cell) /\ Len(z) = n + Len(t)
      /\ \A i \in 1..(n + Len(t)) : z[i] = IF i <= n THEN y[i] ELSE t[i - n]
  BY <1>3, ConcatProperties
<1> HIDE DEF z
<1>5. \A i \in 1..(n + Len(t)) : x[i] = z[i]
  <2> TAKE i \in 1..(n + Len(t))
  <2>1. CASE i <= n
    <3>1. i \in 1..n
      BY <1>1, <2>1
    <3>2. x[i] = u[i] /\ y[i] = s[i] /\ z[i] = y[i] /\ u[i] = s[i]
      BY <1>2, <1>3, <1>4, <2>1, <3>1
    <3> QED
      BY <3>2
  <2>2. CASE i > n
    <3>1. i - n \in 1..Len(t) /\ n + (i - n) = i
      BY <1>1, <2>2
    <3>2. u[i] = t[i - n]
      BY <3>1
    <3> QED
      BY <1>2, <1>4, <2>2, <3>2
  <2> QED
    BY <2>1, <2>2
<1> QED
  BY <1>2, <1>4, <1>5, SeqEqual DEF x, y, z

(* A view of nothing is empty.                                             *)
LEMMA EmptyPrefix ==
  ASSUME NEW s \in Seq(Cell)
  PROVE  SubSeq(s, 1, 0) = <<>>
<1>1. SubSeq(s, 1, 0) \in Seq(Cell) /\ Len(SubSeq(s, 1, 0)) = 0
  BY PrefixOfBlock, LenProperties
<1> QED
  BY <1>1, EmptySeq

----------------------------------------------------------------------------
(* What the operations of the vectors do to the content of the memory.     *)

(* Where the blocks are.                                                   *)
LEMMA BlockOf ==
  ASSUME NEW v, NEW m, NEW b \in Buf, Managed(v, m)
  PROVE  /\ v[b].data \in Pointer /\ v[b].data \in Heap \cup {b}
         /\ m[v[b].data] \in Seq(Cell)
         /\ v[b].size \in Nat /\ v[b].capacity \in Nat
         /\ v[b].size <= v[b].capacity
         /\ Len(m[v[b].data]) = v[b].capacity
BY DEF Managed, WellTyped, VecType, Inlined, Sized, Pointer

(* Freeing the block of one buffer leaves the others theirs.               *)
LEMMA ReleaseContent ==
  ASSUME NEW v, NEW m, NEW b \in Buf, NEW d \in Buf, b # d, Managed(v, m)
  PROVE  Release(v, m, b)[v[d].data] = m[v[d].data]
<1>1. v[d].data # v[b].data /\ v[d].data \in Pointer
  BY BlockOf DEF Managed, SingleOwner
<1> QED
  BY <1>1, ReleaseFrame

(* reserve(n) copies what the vector holds to its new block.               *)
LEMMA ReserveContent ==
  ASSUME NEW v, NEW m, NEW b \in Buf, NEW n \in Nat, NEW p \in Unused(m),
         Managed(v, m), NEW w, NEW k,
         w = ReserveVec(v, b, n, p), k = ReserveMem(v, m, b, n, p)
  PROVE  /\ \A d \in Buf \ {b} : Untouched(v, m, w, k, d)
         /\ v[b].size <= n => SameText(v, m, w, k, b, b, v[b].size)
<1>1. /\ v \in [Buf -> VecType] /\ m \in [Pointer -> Seq(Cell)]
      /\ p \in Pointer /\ p \in Heap /\ m[p] = Freed
  BY DEF Managed, WellTyped, Unused, Pointer
<1>2. \A c \in Buf : v[c].data # p
  <2> SUFFICES ASSUME NEW c \in Buf, v[c].data = p
               PROVE  FALSE
    OBVIOUS
  <2>1. Len(m[p]) >= Storage
    BY DEF Managed, Sized
  <2> QED
    BY <1>1, <2>1, EmptySeq, StorageAssumption DEF Freed
<1>3. /\ w[b].data = IF Grows(v, b, n) THEN p ELSE v[b].data
      /\ \A c \in Buf \ {b} : w[c] = v[c]
  BY <1>1, ReserveShape
<1>4. CASE ~ Grows(v, b, n)
  <2>1. k = m
    BY <1>4 DEF ReserveMem
  <2> QED
    BY <1>3, <1>4, <2>1 DEF Untouched, SameText
<1>5. CASE Grows(v, b, n)
  <2> DEFINE r == Release(v, m, b)
             old == SubSeq(m[v[b].data], 1, v[b].size)
             new == Overlay(Block(n), 0, old)
  <2>1. k = [r EXCEPT ![p] = new]
    BY <1>5 DEF ReserveMem
  <2>2. r \in [Pointer -> Seq(Cell)]
    BY ReleaseFrame
  <2>3. /\ old \in Seq(Cell) /\ Len(old) = v[b].size
        /\ \A i \in 1..v[b].size : old[i] = m[v[b].data][i]
    <3> DEFINE e == m[v[b].data]
               n1 == v[b].size
    <3>1. /\ e \in Seq(Cell)
          /\ n1 \in Nat /\ n1 <= v[b].capacity /\ Len(e) = v[b].capacity
      BY BlockOf
    <3> HIDE DEF e, n1
    <3>2. n1 <= Len(e)
      BY <3>1
    <3> USE DEF e, n1
    <3> QED
      BY <3>1, <3>2, PrefixOfBlock
  <2>4. Block(n) \in Seq(Cell) /\ Len(Block(n)) = n
    BY BlockLength
  <2> HIDE DEF r, old
  <2>5. \A i \in 1..n : new[i] = IF i \in 1..Len(old) THEN old[i]
                                 ELSE Block(n)[i]
    <3>1. \A i \in 1..Len(Block(n)) :
            new[i] = IF i \in (0 + 1)..(0 + Len(old)) THEN old[i - 0]
                     ELSE Block(n)[i]
      BY <2>3, <2>4, OverlayKeepsBlock
    <3> QED
      BY <2>3, <2>4, <3>1, LenProperties
  <2> HIDE DEF new
  <2>6. k[p] = new /\ \A q \in Pointer \ {p} : k[q] = r[q]
    BY <1>1, <2>1, <2>2
  <2>7. ASSUME NEW d \in Buf \ {b} PROVE Untouched(v, m, w, k, d)
    <3>1. w[d] = v[d] /\ v[d].data \in Pointer \ {p}
      BY <1>2, <1>3, BlockOf
    <3>2. r[v[d].data] = m[v[d].data]
      BY ReleaseContent DEF r
    <3> QED
      BY <2>6, <3>1, <3>2 DEF Untouched
  <2>8. ASSUME v[b].size <= n PROVE SameText(v, m, w, k, b, b, v[b].size)
    <3>1. v[b].size \in Nat
      BY BlockOf
    <3>2. \A i \in 1..v[b].size : new[i] = m[v[b].data][i]
      BY <2>3, <2>5, <2>8, <3>1
    <3> QED
      BY <1>3, <1>5, <2>6, <3>2 DEF SameText
  <2> QED
    BY <2>7, <2>8
<1> QED
  BY <1>4, <1>5

(* Writing t into the block of b.                                          *)
LEMMA WriteContent ==
  ASSUME NEW v, NEW m, NEW b \in Buf, NEW from \in Nat, NEW t \in Seq(Cell),
         Managed(v, m), from + Len(t) <= v[b].capacity,
         NEW k, k = Put(v, m, b, from, t)
  PROVE  /\ \A d \in Buf \ {b} : Untouched(v, m, v, k, d)
         /\ SameText(v, m, v, k, b, b, from)
         /\ Holds(v, k, b, from, t)
<1>1. /\ m \in [Pointer -> Seq(Cell)] /\ v[b].data \in Pointer
      /\ m[v[b].data] \in Seq(Cell)
      /\ Len(m[v[b].data]) = v[b].capacity /\ v[b].capacity \in Nat
  BY BlockOf DEF Managed, WellTyped
<1> DEFINE o == Overlay(m[v[b].data], from, t)
<1>2. \A i \in 1..v[b].capacity :
        o[i] = IF i \in (from + 1)..(from + Len(t)) THEN t[i - from]
               ELSE m[v[b].data][i]
  BY <1>1, OverlayKeepsBlock
<1> HIDE DEF o
<1>3. k[v[b].data] = o /\ \A q \in Pointer \ {v[b].data} : k[q] = m[q]
  BY <1>1 DEF o, Put
<1>4. ASSUME NEW d \in Buf \ {b} PROVE Untouched(v, m, v, k, d)
  <2>1. v[d].data \in Pointer \ {v[b].data}
    BY BlockOf DEF Managed, SingleOwner
  <2> QED
    BY <1>3, <2>1 DEF Untouched
<1>5. Len(t) \in Nat
  BY LenProperties
<1>6. \A i \in 1..from : o[i] = m[v[b].data][i]
  BY <1>1, <1>2, <1>5
<1>7. ASSUME NEW i \in 1..Len(t) PROVE o[from + i] = t[i]
  <2>1. from + i \in 1..v[b].capacity
        /\ from + i \in (from + 1)..(from + Len(t))
        /\ (from + i) - from = i
    BY <1>1, <1>5
  <2> QED
    BY <1>2, <2>1
<1> QED
  BY <1>3, <1>4, <1>6, <1>7 DEF SameText, Holds

(* A vector that has grown by the length of t has room for t behind any    *)
(* part of what it holds.                                                  *)
LEMMA GrowText ==
  ASSUME NEW v, NEW m, NEW b \in Buf, NEW t \in Seq(Cell),
         NEW p \in Unused(m), Managed(v, m),
         NEW q \in Nat, q <= v[b].size,
         NEW n \in Nat, n = v[b].size + Len(t), NEW w, NEW h, NEW k,
         w = ReserveVec(v, b, n, p), h = ReserveMem(v, m, b, n, p),
         k = Put(w, h, b, q, t)
  PROVE  /\ \A d \in Buf \ {b} : Untouched(v, m, w, k, d)
         /\ SameText(v, m, w, k, b, b, q)
         /\ Holds(w, k, b, q, t)
         /\ q + Len(t) <= w[b].size
<1>1. Len(t) \in Nat /\ v[b].size \in Nat /\ v \in [Buf -> VecType]
  BY LenProperties, BlockOf DEF Managed, WellTyped
<1>2. Managed(w, h) /\ w[b].size = n
  BY <1>1, ReserveManaged, ReserveShape
<1>3. v[b].size <= n /\ q + Len(t) <= n
  BY <1>1
<1>4. /\ \A d \in Buf \ {b} : Untouched(v, m, w, h, d)
      /\ SameText(v, m, w, h, b, b, v[b].size)
  BY <1>3, ReserveContent
<1>5. q + Len(t) <= w[b].capacity
  <2>1. n <= w[b].capacity /\ w[b].capacity \in Nat
    BY <1>2, BlockOf
  <2> QED
    BY <1>1, <1>3, <2>1
<1>6. /\ \A d \in Buf \ {b} : Untouched(w, h, w, k, d)
      /\ SameText(w, h, w, k, b, b, q)
      /\ Holds(w, k, b, q, t)
  BY <1>2, <1>5, WriteContent
<1>7. SameText(v, m, w, k, b, b, q)
  BY <1>1, <1>4, <1>6 DEF SameText
<1> QED
  BY <1>2, <1>3, <1>4, <1>6, <1>7 DEF Untouched

(* The target of a copy holds what the source holds.                       *)
LEMMA CopyText ==
  ASSUME NEW v, NEW m, NEW b \in Buf, NEW c \in Buf, b # c,
         NEW p \in Unused(m), Managed(v, m), NEW w, NEW k,
         w = CopyVec(v, b, c, p), k = CopyMem(v, m, b, c, p)
  PROVE  /\ \A d \in Buf \ {b} : Untouched(v, m, w, k, d)
         /\ SameText(v, m, w, k, b, c, v[c].size)
<1> DEFINE n == v[c].size
           h == ReserveMem(v, m, b, n, p)
           t == SubSeq(h[w[c].data], 1, w[c].size)
<1>1. n \in Nat /\ v \in [Buf -> VecType]
  BY BlockOf DEF Managed, WellTyped
<1> HIDE DEF n
<1>2. w = ReserveVec(v, b, n, p)
  BY DEF CopyVec, n
<1>3. Managed(w, h) /\ w[b].size = n
  BY <1>1, <1>2, ReserveManaged, ReserveShape
<1>4. \A d \in Buf \ {b} : Untouched(v, m, w, h, d)
  BY <1>1, <1>2, ReserveContent
<1>5. k = Put(w, h, b, 0, t)
  BY DEF CopyVec, CopyMem, CopyContent, Put, n
<1> HIDE DEF h
<1>6. /\ t \in Seq(Cell) /\ Len(t) = n
      /\ \A i \in 1..n : t[i] = m[v[c].data][i]
  <2>1. w[c] = v[c] /\ h[w[c].data] = m[v[c].data]
    BY <1>4 DEF Untouched
  <2>2. /\ m[v[c].data] \in Seq(Cell)
        /\ v[c].size \in Nat /\ v[c].size <= v[c].capacity
        /\ Len(m[v[c].data]) = v[c].capacity
    BY BlockOf
  <2>3. v[c].size = n
    BY DEF n
  <2> QED
    BY <1>1, <2>1, <2>2, <2>3, PrefixOfBlock
<1> HIDE DEF t
<1>7. 0 \in Nat /\ 0 + Len(t) <= w[b].capacity
  <2>1. w[b].size <= w[b].capacity
    BY <1>3, BlockOf
  <2> QED
    BY <1>1, <1>3, <1>6, <2>1
<1>8. /\ \A d \in Buf \ {b} : Untouched(w, h, w, k, d)
      /\ Holds(w, k, b, 0, t)
  BY <1>3, <1>5, <1>6, <1>7, WriteContent
<1>9. \A i \in 1..n : k[w[b].data][i] = t[i]
  BY <1>1, <1>6, <1>8 DEF Holds
<1> QED
  BY <1>4, <1>6, <1>8, <1>9 DEF Untouched, SameText, n

(* The target of a move holds what the source held.                        *)
LEMMA MoveText ==
  ASSUME NEW v, NEW m, NEW b \in Buf, NEW c \in Buf, b # c,
         Managed(v, m), External(v, b) => External(v, c), NEW w, NEW k,
         w = MoveVec(v, b, c), k = MoveMem(v, m, b, c)
  PROVE  /\ \A d \in Buf \ {b, c} : Untouched(v, m, w, k, d)
         /\ SameText(v, m, w, k, b, c, v[c].size)
<1>1. v \in [Buf -> VecType] /\ \A d \in Buf \ {b, c} : w[d] = v[d]
  BY MoveShape DEF Managed, WellTyped
<1>2. CASE External(v, c)
  <2>1. k = Release(v, m, b) /\ w[b] = v[c]
    BY <1>1, <1>2 DEF MoveVec, MoveMem
  <2>2. \A d \in Buf \ {b} : k[v[d].data] = m[v[d].data]
    BY <2>1, ReleaseContent
  <2> QED
    BY <1>1, <2>1, <2>2 DEF Untouched, SameText
<1>3. CASE ~ External(v, c)
  <2> DEFINE n == v[c].size
             t == SubSeq(m[v[c].data], 1, n)
  <2>1. k = Put(v, m, b, 0, t)
    BY <1>3 DEF MoveMem, Release, CopyContent, Put
  <2>2. w[b].data = v[b].data
    <3> DEFINE u == [v[b] EXCEPT !.size = v[c].size]
    <3>1. u.data = v[b].data
      BY <1>1 DEF VecType
    <3>2. w = [v EXCEPT ![b] = u, ![c] = EmptyVec(c)]
      BY <1>3 DEF MoveVec
    <3> HIDE DEF u
    <3> QED
      BY <1>1, <3>1, <3>2
  <2>3. n \in Nat /\ m[v[c].data] \in Seq(Cell) /\ n <= Len(m[v[c].data])
    BY BlockOf
  <2>4. v[b].capacity = Storage /\ v[c].capacity = Storage
    BY <1>3 DEF External, Managed, Inlined
  <2>5. /\ t \in Seq(Cell) /\ Len(t) = n
        /\ \A i \in 1..n : t[i] = m[v[c].data][i]
    BY <2>3, PrefixOfBlock
  <2> HIDE DEF t
  <2>6. 0 \in Nat /\ 0 + Len(t) <= v[b].capacity
    <3>1. n <= v[c].capacity
      BY BlockOf
    <3> QED
      BY <2>3, <2>4, <2>5, <3>1, StorageAssumption
  <2>7. /\ \A d \in Buf \ {b} : Untouched(v, m, v, k, d)
        /\ Holds(v, k, b, 0, t)
    BY <2>1, <2>5, <2>6, WriteContent
  <2>8. \A i \in 1..n : k[v[b].data][i] = t[i]
    BY <2>3, <2>5, <2>7 DEF Holds
  <2> QED
    BY <1>1, <2>2, <2>5, <2>7, <2>8 DEF Untouched, SameText
<1> QED
  BY <1>2, <1>3

----------------------------------------------------------------------------
(* Views.                                                                  *)

(* The text of a live buffer lies inside its block.                        *)
LEMMA TextInBlock ==
  ASSUME NEW v, NEW m, NEW u, NEW b \in Buf, Managed(v, m),
         u[b] \in BufType, Fits(v[b], u[b])
  PROVE  /\ u[b].used + u[b].taken \in Nat
         /\ u[b].used + u[b].taken <= v[b].size
         /\ u[b].used + u[b].taken <= Len(m[v[b].data])
<1>1. /\ v[b].size \in Nat /\ v[b].capacity = Len(m[v[b].data])
      /\ v[b].size = v[b].capacity
  BY BlockOf DEF Fits
<1> QED
  BY <1>1 DEF Fits, BufType

(* A buffer whose vector and members are left alone keeps its text.        *)
LEMMA ViewKept ==
  ASSUME NEW v, NEW m, NEW u, NEW w, NEW k, NEW x, NEW d,
         Untouched(v, m, w, k, d), x[d] = u[d]
  PROVE  ViewOf(w, k, x, d) = ViewOf(v, m, u, d)
BY DEF Untouched, ViewOf

(* A buffer b that gets the first characters of c gets its text.           *)
LEMMA ViewTaken ==
  ASSUME NEW v, NEW m, NEW u, NEW w, NEW k, NEW x,
         NEW b \in Buf, NEW c \in Buf, Managed(v, m), Managed(w, k), NEW n,
         LengthIs(u, c, n), LengthIs(x, b, n), NEW z, z = v[c].size,
         n \in 0..z, z <= w[b].capacity,
         SameText(v, m, w, k, b, c, z)
  PROVE  ViewOf(w, k, x, b) = ViewOf(v, m, u, c)
<1>1. /\ m[v[c].data] \in Seq(Cell) /\ k[w[b].data] \in Seq(Cell)
      /\ v[c].size \in Nat /\ v[c].capacity \in Nat /\ w[b].capacity \in Nat
      /\ v[c].size <= v[c].capacity
      /\ Len(m[v[c].data]) = v[c].capacity
      /\ Len(k[w[b].data]) = w[b].capacity
  BY BlockOf
<1>2. \A i \in 1..n : k[w[b].data][i] = m[v[c].data][i]
  BY <1>1 DEF SameText
<1>3. n <= Len(k[w[b].data]) /\ n <= Len(m[v[c].data])
  BY <1>1
<1>4. SubSeq(k[w[b].data], 1, n) = SubSeq(m[v[c].data], 1, n)
  BY <1>1, <1>2, <1>3, PrefixKept
<1> QED
  BY <1>4 DEF ViewOf, LengthIs

(* A buffer whose members start anew holds nothing.                        *)
LEMMA ViewEmpty ==
  ASSUME NEW v, NEW m, NEW u, NEW b \in Buf, Managed(v, m),
         u[b].used = 0, u[b].taken = 0
  PROVE  ViewOf(v, m, u, b) = <<>>
<1>1. m[v[b].data] \in Seq(Cell)
  BY BlockOf
<1> QED
  BY <1>1, EmptyPrefix DEF ViewOf

----------------------------------------------------------------------------
(* Every step of memory_buffer is a step of TextBuffers, or none.          *)

Text == [b \in Buf |-> View(b)]

(* One buffer changes its text, the others keep theirs.                    *)
LEMMA OneText ==
  ASSUME NEW b \in Buf, NEW t, View(b)' = t,
         \A d \in Buf \ {b} : View(d)' = View(d)
  PROVE  Text' = [Text EXCEPT ![b] = t]
BY DEF Text

(* View in terms of ViewOf.                                                *)
LEMMA ViewIsViewOf ==
  /\ \A b : View(b) = ViewOf(vec, mem, buf, b)
  /\ \A b : View(b)' = ViewOf(vec', mem', buf', b)
BY DEF View, ViewOf, Written

(* What has been proved of the states of a careful client.                 *)
LEMMA TextFacts ==
  ASSUME TextInv
  PROVE  /\ Managed(vec, mem) /\ vec \in [Buf -> VecType]
         /\ buf \in [Buf -> BufType]
         /\ alive \subseteq Buf
         /\ \A b \in alive : Fits(vec[b], buf[b])
         /\ \A b \in Buf \ alive : View(b) = <<>>
<1>1. /\ Managed(vec, mem) /\ vec \in [Buf -> VecType]
      /\ buf \in [Buf -> BufType] /\ alive \subseteq Buf
      /\ \A b \in alive : Fits(vec[b], buf[b])
  BY DEF TextInv, IInv, Managed, WellTyped
<1>2. ASSUME NEW b \in Buf \ alive PROVE View(b) = <<>>
  <2>1. buf[b] = NoBuffer(b)
    BY DEF TextInv, DeadAreEmpty
  <2>2. buf[b].used = 0 /\ buf[b].taken = 0
    BY <2>1 DEF NoBuffer
  <2> QED
    BY <1>1, <2>2, ViewEmpty, ViewIsViewOf
<1> QED
  BY <1>1, <1>2

LEMMA ConstructText ==
  ASSUME TextInv, IInv', NEW b \in Buf, NEW n \in Capacity, Construct(b, n)
  PROVE  Texts!New(b)
<1> DEFINE k == IF n > Storage THEN n ELSE Storage
<1>1. k \in Nat /\ b \notin alive /\ alive' = alive \cup {b}
  BY CapacityAssumption, StorageAssumption DEF Construct
<1>2. buf' = [buf EXCEPT ![b] = Requested(vec'[b], 0, 0, k)]
  BY DEF Construct
<1> HIDE DEF k
<1>3. PICK p \in Unused(mem) : /\ vec' = ReserveVec(vec, b, k, p)
                               /\ mem' = ReserveMem(vec, mem, b, k, p)
  BY DEF Construct, k
<1>4. Managed(vec', mem')
  BY DEF IInv
<1>5. View(b)' = View(b)
  <2>1. buf'[b].used = 0 /\ buf'[b].taken = 0
    BY <1>2, TextFacts DEF Requested, AreaUpTo
  <2>2. ViewOf(vec', mem', buf', b) = <<>>
    BY <1>4, <2>1, ViewEmpty
  <2> QED
    BY <1>1, <2>2, TextFacts, ViewIsViewOf
<1>6. ASSUME NEW d \in Buf \ {b} PROVE View(d)' = View(d)
  <2>1. Untouched(vec, mem, vec', mem', d)
    BY <1>1, <1>3, TextFacts, ReserveContent
  <2>2. buf'[d] = buf[d]
    BY <1>2, TextFacts
  <2> QED
    BY <2>1, <2>2, ViewKept, ViewIsViewOf
<1>7. Text' = Text
  BY <1>5, <1>6 DEF Text
<1> QED
  BY <1>1, <1>7 DEF Texts!New, Text

(* In both cases of a write, the area holds what is written and nothing    *)
(* in front of it has changed.                                             *)
LEMMA ViewExtended ==
  ASSUME NEW v, NEW m, NEW u, NEW w, NEW k, NEW x, NEW b \in Buf,
         NEW s \in Seq(Cell), Managed(v, m), Managed(w, k),
         NEW n \in Nat, u[b].used + u[b].taken = n, n <= v[b].size,
         x[b].used + x[b].taken = n + Len(s), n + Len(s) <= w[b].size,
         SameText(v, m, w, k, b, b, n), Holds(w, k, b, n, s)
  PROVE  ViewOf(w, k, x, b) = ViewOf(v, m, u, b) \o s
<1>1. /\ m[v[b].data] \in Seq(Cell) /\ k[w[b].data] \in Seq(Cell)
      /\ v[b].size \in Nat /\ v[b].capacity \in Nat
      /\ w[b].size \in Nat /\ w[b].capacity \in Nat
      /\ v[b].size <= v[b].capacity /\ w[b].size <= w[b].capacity
      /\ Len(m[v[b].data]) = v[b].capacity
      /\ Len(k[w[b].data]) = w[b].capacity
  BY BlockOf
<1>2. Len(s) \in Nat
  BY LenProperties
<1>3. n <= Len(m[v[b].data]) /\ n + Len(s) <= Len(k[w[b].data])
  BY <1>1, <1>2
<1>4. /\ \A i \in 1..n : k[w[b].data][i] = m[v[b].data][i]
      /\ \A i \in 1..Len(s) : k[w[b].data][n + i] = s[i]
  BY DEF SameText, Holds
<1> DEFINE old == m[v[b].data]
           new == k[w[b].data]
<1>5. /\ old \in Seq(Cell) /\ new \in Seq(Cell)
      /\ n <= Len(old) /\ n + Len(s) <= Len(new)
      /\ \A i \in 1..n : new[i] = old[i]
      /\ \A i \in 1..Len(s) : new[n + i] = s[i]
  BY <1>1, <1>3, <1>4
<1> HIDE DEF old, new
<1>6. SubSeq(new, 1, n + Len(s)) = SubSeq(old, 1, n) \o s
  BY <1>5, PrefixExtended, Zenon
<1> QED
  BY <1>6 DEF ViewOf, old, new

LEMMA WriteInPlaceText ==
  ASSUME TextInv, IInv', NEW b \in Buf, NEW s \in Chunk, WriteInPlace(b, s)
  PROVE  Texts!Extend(b, s)
<1> DEFINE n == buf[b].used + buf[b].taken
<1>1. s \in Seq(Cell) /\ Len(s) \in Nat
  BY ChunkAssumption, LenProperties, SeqMonotonic DEF Cell
<1>2. /\ b \in alive /\ alive' = alive /\ vec' = vec
      /\ buf' = [buf EXCEPT ![b] = Take(buf[b], Len(s))]
      /\ mem' = [mem EXCEPT ![buf[b].at] =
                   Overlay(@, buf[b].from + buf[b].taken, s)]
      /\ buf[b].len - buf[b].taken >= Len(s)
  BY DEF WriteInPlace, ServedInPlace, Remaining
<1>3. /\ buf[b] \in BufType /\ Fits(vec[b], buf[b])
      /\ Managed(vec, mem) /\ buf \in [Buf -> BufType]
  BY <1>2, TextFacts
<1>4. n \in Nat /\ n = buf[b].from + buf[b].taken
      /\ vec[b].size \in Nat /\ vec[b].size = vec[b].capacity
      /\ n <= vec[b].size /\ n + Len(s) <= vec[b].size
  <2>1. vec[b].size \in Nat
    BY <1>3, BlockOf
  <2> QED
    BY <1>1, <1>2, <1>3, <2>1 DEF Fits, BufType
<1>5. buf'[b].used + buf'[b].taken = n + Len(s)
  <2>1. Take(buf[b], Len(s)) =
          [used |-> buf[b].used, at |-> buf[b].at, from |-> buf[b].from,
           len |-> buf[b].len, taken |-> buf[b].taken + Len(s)]
    BY <1>3 DEF Take, BufType
  <2>2. buf'[b].used = buf[b].used /\ buf'[b].taken = buf[b].taken + Len(s)
    BY <1>2, <1>3, <2>1
  <2>3. (buf[b].used + buf[b].taken) + Len(s)
          = buf[b].used + (buf[b].taken + Len(s))
    BY <1>1, <1>3 DEF BufType
  <2> QED
    BY <2>2, <2>3
<1> HIDE DEF n
<1>6. mem' = Put(vec, mem, b, n, s)
  BY <1>2, <1>3, <1>4 DEF Put, Fits
<1>7. /\ \A d \in Buf \ {b} : Untouched(vec, mem, vec, mem', d)
      /\ SameText(vec, mem, vec, mem', b, b, n)
      /\ Holds(vec, mem', b, n, s)
  BY <1>1, <1>3, <1>4, <1>6, WriteContent
<1>8. View(b)' = View(b) \o s
  <2>1. Managed(vec, mem')
    BY <1>2 DEF IInv
  <2>2. buf[b].used + buf[b].taken = n
    BY DEF n
  <2>3. ViewOf(vec, mem', buf', b) = ViewOf(vec, mem, buf, b) \o s
    BY <1>1, <1>3, <1>4, <1>5, <1>7, <2>1, <2>2, ViewExtended
  <2> QED
    BY <1>2, <2>3, ViewIsViewOf
<1>9. ASSUME NEW d \in Buf \ {b} PROVE View(d)' = View(d)
  <2>1. buf'[d] = buf[d]
    BY <1>2, <1>3
  <2>2. ViewOf(vec, mem', buf', d) = ViewOf(vec, mem, buf, d)
    BY <1>7, <2>1, ViewKept
  <2> QED
    BY <1>2, <2>2, ViewIsViewOf
<1>10. Text' = [Text EXCEPT ![b] = View(b) \o s]
  BY <1>8, <1>9, OneText
<1> QED
  BY <1>2, <1>10 DEF Texts!Extend, Text

LEMMA WriteGrowingText ==
  ASSUME TextInv, IInv', NEW b \in Buf, NEW s \in Chunk, WriteGrowing(b, s)
  PROVE  Texts!Extend(b, s)
<1> DEFINE q == buf[b].used + buf[b].taken
           n == vec[b].size + Len(s)
           r == Requested(vec'[b], buf[b].used, buf[b].taken, Len(s))
<1>1. s \in Seq(Cell) /\ Len(s) \in Nat
  BY ChunkAssumption, LenProperties, SeqMonotonic DEF Cell
<1>2. /\ b \in alive /\ alive' = alive
      /\ buf[b] \in BufType /\ Fits(vec[b], buf[b])
      /\ Managed(vec, mem) /\ buf \in [Buf -> BufType]
  BY TextFacts DEF WriteGrowing
<1>3. /\ q \in Nat /\ q <= vec[b].size
      /\ vec[b].size \in Nat /\ n \in Nat
  <2>1. q \in Nat /\ q <= vec[b].size
    BY <1>2, TextInBlock
  <2>2. vec[b].size \in Nat
    BY <1>2, BlockOf
  <2> QED
    BY <1>1, <2>1, <2>2
<1>4. PICK p \in Unused(mem) :
        /\ vec' = ReserveVec(vec, b, n, p)
        /\ mem' = [ReserveMem(vec, mem, b, n, p) EXCEPT
                     ![r.at] = Overlay(@, r.from, s)]
        /\ buf' = [buf EXCEPT ![b] = Take(r, Len(s))]
  BY DEF WriteGrowing
<1>5. /\ r = [used |-> q, at |-> vec'[b].data, from |-> q,
              len |-> (q + Len(s)) - q, taken |-> 0]
      /\ (q + Len(s)) - q = Len(s)
  BY <1>1, <1>3 DEF Requested, AreaUpTo
<1> DEFINE h == ReserveMem(vec, mem, b, n, p)
<1>6. r.at = vec'[b].data /\ r.from = q /\ r.used = q /\ r.taken = 0
  BY <1>5
<1>7. /\ vec' = ReserveVec(vec, b, n, p) /\ h = ReserveMem(vec, mem, b, n, p)
      /\ n = vec[b].size + Len(s)
  BY <1>4
<1>8. mem' = [h EXCEPT ![r.at] = Overlay(@, r.from, s)]
  BY <1>4
<1>9. Take(r, Len(s)) = [used |-> q, at |-> vec'[b].data, from |-> q,
                         len |-> Len(s), taken |-> Len(s)]
  BY <1>1, <1>5 DEF Take
<1> HIDE DEF q, n, r, h
<1>10. mem' = Put(vec', h, b, q, s)
  BY <1>6, <1>8 DEF Put
<1>11. /\ \A d \in Buf \ {b} : Untouched(vec, mem, vec', mem', d)
       /\ SameText(vec, mem, vec', mem', b, b, q)
       /\ Holds(vec', mem', b, q, s)
       /\ q + Len(s) <= vec'[b].size
  BY <1>1, <1>2, <1>3, <1>7, <1>10, GrowText
<1>12. View(b)' = View(b) \o s
  <2>1. Managed(vec', mem')
    BY DEF IInv
  <2>2. buf[b].used + buf[b].taken = q
    BY DEF q
  <2>3. buf'[b] = Take(r, Len(s))
    BY <1>2, <1>4
  <2>4. buf'[b].used + buf'[b].taken = q + Len(s)
    BY <1>9, <2>3
  <2>5. ViewOf(vec', mem', buf', b) = ViewOf(vec, mem, buf, b) \o s
    BY <1>1, <1>2, <1>3, <1>11, <2>1, <2>2, <2>4, ViewExtended
  <2> QED
    BY <2>5, ViewIsViewOf
<1>13. ASSUME NEW d \in Buf \ {b} PROVE View(d)' = View(d)
  <2>1. buf'[d] = buf[d]
    BY <1>2, <1>4
  <2> QED
    BY <1>11, <2>1, ViewKept, ViewIsViewOf
<1>14. Text' = [Text EXCEPT ![b] = View(b) \o s]
  BY <1>12, <1>13, OneText
<1> QED
  BY <1>2, <1>14 DEF Texts!Extend, Text

LEMMA ResetText ==
  ASSUME TextInv, IInv', NEW b \in Buf, Reset(b)
  PROVE  Texts!Clear(b)
<1>1. /\ b \in alive /\ alive' = alive /\ mem' = mem
      /\ vec' = [vec EXCEPT ![b] = ClearedVec(vec[b])]
      /\ buf' = [buf EXCEPT ![b] = ClearedBuf(vec[b])]
      /\ vec \in [Buf -> VecType] /\ buf \in [Buf -> BufType]
  BY TextFacts DEF Reset
<1>2. View(b)' = <<>>
  <2>1. buf'[b].used = 0 /\ buf'[b].taken = 0
    BY <1>1 DEF ClearedBuf, Requested, AreaUpTo
  <2>2. Managed(vec', mem')
    BY DEF IInv
  <2> QED
    BY <2>1, <2>2, ViewEmpty, ViewIsViewOf
<1>3. ASSUME NEW d \in Buf \ {b} PROVE View(d)' = View(d)
  <2>1. vec'[d] = vec[d] /\ buf'[d] = buf[d]
    BY <1>1
  <2>2. Untouched(vec, mem, vec', mem', d)
    BY <1>1, <2>1 DEF Untouched
  <2> QED
    BY <2>1, <2>2, ViewKept, ViewIsViewOf
<1>4. Text' = [Text EXCEPT ![b] = <<>>]
  BY <1>2, <1>3, OneText
<1> QED
  BY <1>1, <1>4 DEF Texts!Clear, Text

LEMMA DestroyText ==
  ASSUME TextInv, IInv', NEW b \in Buf, Destroy(b)
  PROVE  Texts!Delete(b)
<1>1. /\ b \in alive /\ alive' = alive \ {b}
      /\ vec' = [vec EXCEPT ![b] = EmptyVec(b)]
      /\ buf' = [buf EXCEPT ![b] = NoBuffer(b)]
      /\ mem' = [Release(vec, mem, b) EXCEPT ![b] = Block(Storage)]
      /\ vec \in [Buf -> VecType] /\ buf \in [Buf -> BufType]
      /\ Managed(vec, mem)
  BY TextFacts DEF Destroy
<1>2. View(b)' = <<>>
  <2>1. buf'[b].used = 0 /\ buf'[b].taken = 0
    BY <1>1 DEF NoBuffer
  <2>2. Managed(vec', mem')
    BY DEF IInv
  <2> QED
    BY <2>1, <2>2, ViewEmpty, ViewIsViewOf
<1>3. ASSUME NEW d \in Buf \ {b} PROVE View(d)' = View(d)
  <2>1. vec'[d] = vec[d] /\ buf'[d] = buf[d]
    BY <1>1
  <2>2. Release(vec, mem, b)[vec[d].data] = mem[vec[d].data]
    BY <1>1, ReleaseContent
  <2>3. vec[d].data # b /\ vec[d].data \in Pointer
    BY <1>1, BlockOf, PointerAssumption
  <2>4. Release(vec, mem, b) \in [Pointer -> Seq(Cell)]
    BY <1>1, ReleaseFrame
  <2>5. mem'[vec[d].data] = mem[vec[d].data]
    BY <1>1, <2>2, <2>3, <2>4
  <2>6. Untouched(vec, mem, vec', mem', d)
    BY <2>1, <2>5 DEF Untouched
  <2> QED
    BY <2>1, <2>6, ViewKept, ViewIsViewOf
<1>4. Text' = [Text EXCEPT ![b] = <<>>]
  BY <1>2, <1>3, OneText
<1> QED
  BY <1>1, <1>4 DEF Texts!Delete, Text

LEMMA CopyRefines ==
  ASSUME TextInv, IInv', NEW b \in Buf, NEW c \in Buf, Copy(b, c)
  PROVE  Texts!Copy(b, c)
<1>1. /\ c \in alive \ {b} /\ b # c /\ alive' = alive \cup {b}
      /\ buf' = [buf EXCEPT
                   ![b] = AreaUpTo(vec'[b], Written(c), vec'[b].capacity)]
      /\ buf \in [Buf -> BufType]
      /\ buf[c] \in BufType /\ Fits(vec[c], buf[c])
      /\ Managed(vec, mem) /\ vec \in [Buf -> VecType]
      /\ Managed(vec', mem')
  BY TextFacts DEF Copy, IInv
<1>2. PICK p \in Unused(mem) : /\ vec' = CopyVec(vec, b, c, p)
                               /\ mem' = CopyMem(vec, mem, b, c, p)
  BY DEF Copy
<1>3. /\ \A d \in Buf \ {b} : Untouched(vec, mem, vec', mem', d)
      /\ SameText(vec, mem, vec', mem', b, c, vec[c].size)
  BY <1>1, <1>2, CopyText
<1> DEFINE n == buf[c].used + buf[c].taken
<1>4. n \in Nat /\ n <= vec[c].size
  BY <1>1, TextInBlock
<1>5. buf'[b].used + buf'[b].taken = n
  <2>1. Written(c) = n
    BY DEF Written
  <2> HIDE DEF n
  <2>2. buf'[b].used = n /\ buf'[b].taken = 0
    BY <1>1, <2>1 DEF AreaUpTo
  <2> QED
    BY <1>4, <2>2
<1>6. vec[c].size <= vec'[b].capacity
  <2>1. vec'[b].size = vec[c].size
    <3>1. vec[c].size \in Nat
      BY <1>1, BlockOf
    <3> QED
      BY <1>1, <1>2, <3>1, ReserveShape DEF CopyVec
  <2> QED
    BY <1>1, <2>1, BlockOf
<1>7. buf[c].used + buf[c].taken = n
  OBVIOUS
<1> HIDE DEF n
<1>8. View(b)' = View(c)
  <2>1. Managed(vec, mem) /\ Managed(vec', mem')
    BY <1>1
  <2>2. SameText(vec, mem, vec', mem', b, c, vec[c].size)
    BY <1>3
  <2>3. /\ LengthIs(buf, c, n) /\ LengthIs(buf', b, n)
        /\ n \in 0..vec[c].size /\ vec[c].size <= vec'[b].capacity
    <3>1. vec[c].size \in Nat
      BY <2>1, BlockOf
    <3> QED
      BY <1>4, <1>5, <1>6, <1>7, <3>1 DEF LengthIs
  <2>4. ViewOf(vec', mem', buf', b) = ViewOf(vec, mem, buf, c)
    BY <2>1, <2>2, <2>3, ViewTaken
  <2> QED
    BY <2>4, ViewIsViewOf
<1>9. ASSUME NEW d \in Buf \ {b} PROVE View(d)' = View(d)
  <2>1. buf'[d] = buf[d]
    BY <1>1
  <2> QED
    BY <1>3, <2>1, ViewKept, ViewIsViewOf
<1>10. Text' = [Text EXCEPT ![b] = View(c)]
  BY <1>8, <1>9, OneText
<1> QED
  BY <1>1, <1>10 DEF Texts!Copy, Text

LEMMA MoveRefines ==
  ASSUME CarefulClients, TextInv, IInv', NEW b \in Buf, NEW c \in Buf,
         Move(b, c)
  PROVE  Texts!Move(b, c)
<1> DEFINE v == MoveVec(vec, b, c)
           n == buf[c].used + buf[c].taken
<1>1. /\ c \in alive \ {b} /\ b # c /\ alive' = alive \cup {b}
      /\ vec' = [v EXCEPT ![c] = ClearedVec(v[c])]
      /\ mem' = MoveMem(vec, mem, b, c)
      /\ buf' = [buf EXCEPT ![b] = AreaUpTo(v[b], Written(c), v[b].capacity),
                            ![c] = ClearedBuf(v[c])]
      /\ buf \in [Buf -> BufType]
      /\ buf[c] \in BufType /\ Fits(vec[c], buf[c])
      /\ Managed(vec, mem) /\ vec \in [Buf -> VecType]
      /\ Managed(vec', mem')
      /\ External(vec, b) => External(vec, c)
  BY TextFacts DEF Move, MoveKeepsStorage, CarefulClients, IInv
<1>2. /\ \A d \in Buf \ {b, c} : Untouched(vec, mem, v, mem', d)
      /\ SameText(vec, mem, v, mem', b, c, vec[c].size)
  BY <1>1, MoveText
<1>3. Managed(v, mem')
  BY <1>1, MoveManaged
<1>4. n \in Nat /\ n <= vec[c].size /\ n = buf[c].used + buf[c].taken
      /\ Written(c) = n
  BY <1>1, TextInBlock DEF Written
<1>5. vec[c].size <= v[b].capacity
  <2>1. v[b].size = vec[c].size
    BY <1>1, MoveShape
  <2> HIDE DEF v
  <2> QED
    BY <1>3, <2>1, BlockOf
<1> HIDE DEF v, n
<1>6. v \in [Buf -> VecType]
  BY <1>3 DEF Managed, WellTyped
<1>7. \A d \in Buf \ {c} : vec'[d] = v[d]
  BY <1>1, <1>6
<1>8. /\ buf'[b] = AreaUpTo(v[b], n, v[b].capacity)
      /\ buf'[c] = ClearedBuf(v[c])
      /\ \A d \in Buf \ {b, c} : buf'[d] = buf[d]
  BY <1>1, <1>4
<1>9. View(b)' = View(c)
  <2>1. buf'[b].used = n /\ buf'[b].taken = 0
    BY <1>8 DEF AreaUpTo
  <2>2. buf'[b].used + buf'[b].taken = n
    BY <1>4, <2>1
  <2>3. SameText(vec, mem, vec', mem', b, c, vec[c].size)
    BY <1>1, <1>2, <1>7 DEF SameText
  <2>4. vec[c].size <= vec'[b].capacity
    BY <1>1, <1>5, <1>7
  <2>5. Managed(vec, mem) /\ Managed(vec', mem')
    BY <1>1
  <2>6. /\ LengthIs(buf, c, n) /\ LengthIs(buf', b, n)
        /\ n \in 0..vec[c].size /\ vec[c].size <= vec'[b].capacity
    <3>1. vec[c].size \in Nat
      BY <2>5, BlockOf
    <3> QED
      BY <1>4, <2>2, <2>4, <3>1 DEF LengthIs
  <2>7. ViewOf(vec', mem', buf', b) = ViewOf(vec, mem, buf, c)
    BY <2>3, <2>5, <2>6, ViewTaken
  <2> QED
    BY <2>7, ViewIsViewOf
<1>10. View(c)' = <<>>
  <2>1. buf'[c].used = 0 /\ buf'[c].taken = 0
    BY <1>8 DEF ClearedBuf, Requested, AreaUpTo
  <2> QED
    BY <1>1, <2>1, ViewEmpty, ViewIsViewOf
<1>11. ASSUME NEW d \in Buf \ {b, c} PROVE View(d)' = View(d)
  <2>1. Untouched(vec, mem, vec', mem', d)
    BY <1>2, <1>7 DEF Untouched
  <2> QED
    BY <1>8, <2>1, ViewKept, ViewIsViewOf
<1>12. Text' = [Text EXCEPT ![b] = View(c), ![c] = <<>>]
  BY <1>1, <1>9, <1>10, <1>11 DEF Text
<1> QED
  BY <1>1, <1>12 DEF Texts!Move, Text

----------------------------------------------------------------------------
(* A buffer that is not alive is one that does not take part in a step, or *)
(* the one that is destroyed.                                              *)
LEMMA DeadStayEmpty ==
  ASSUME TextInv, [Next]_vars
  PROVE  DeadAreEmpty'
<1> SUFFICES ASSUME NEW d \in Buf, d \notin alive'
             PROVE  buf'[d] = NoBuffer(d)
  BY DEF DeadAreEmpty, NoBuffer
<1>1. buf \in [Buf -> BufType] /\ (d \notin alive => buf[d] = NoBuffer(d))
  BY TextFacts DEF TextInv, DeadAreEmpty
<1>2. ASSUME NEW b \in Buf, NEW n \in Capacity, Construct(b, n)
      PROVE  buf'[d] = NoBuffer(d)
  BY <1>1, <1>2 DEF Construct
<1>3. ASSUME NEW b \in Buf, NEW s \in Chunk, WriteInPlace(b, s)
      PROVE  buf'[d] = NoBuffer(d)
  BY <1>1, <1>3 DEF WriteInPlace
<1>4. ASSUME NEW b \in Buf, NEW s \in Chunk, WriteGrowing(b, s)
      PROVE  buf'[d] = NoBuffer(d)
  BY <1>1, <1>4 DEF WriteGrowing
<1>5. ASSUME NEW b \in Buf, Reset(b) PROVE buf'[d] = NoBuffer(d)
  BY <1>1, <1>5 DEF Reset
<1>6. ASSUME NEW b \in Buf, NEW c \in Buf, Copy(b, c)
      PROVE  buf'[d] = NoBuffer(d)
  BY <1>1, <1>6 DEF Copy
<1>7. ASSUME NEW b \in Buf, NEW c \in Buf, Move(b, c)
      PROVE  buf'[d] = NoBuffer(d)
  BY <1>1, <1>7 DEF Move
<1>8. ASSUME NEW b \in Buf, Destroy(b) PROVE buf'[d] = NoBuffer(d)
  BY <1>1, <1>8 DEF Destroy
<1>9. CASE UNCHANGED vars
  BY <1>1, <1>9 DEF vars
<1> QED
  BY <1>2, <1>3, <1>4, <1>5, <1>6, <1>7, <1>8, <1>9 DEF Next

LEMMA InitText == Init => TextInv /\ Texts!Init
<1> SUFFICES ASSUME Init PROVE TextInv /\ Texts!Init
  OBVIOUS
<1>1. TextInv
  BY InitIInv DEF Init, TextInv, DeadAreEmpty
<1>2. alive = {} /\ \A b \in Buf : View(b) = <<>>
  BY <1>1, TextFacts DEF Init
<1> QED
  BY <1>1, <1>2 DEF Texts!Init

LEMMA NextText ==
  ASSUME CarefulClients, TextInv, [Next]_vars
  PROVE  TextInv' /\ [Texts!Next]_(Texts!vars)
<1>1. IInv'
  BY NextIInv DEF TextInv
<1>2. TextInv'
  BY <1>1, DeadStayEmpty DEF TextInv
<1>3. ASSUME NEW b \in Buf, NEW n \in Capacity, Construct(b, n)
      PROVE  Texts!Next
  BY <1>1, <1>3, ConstructText DEF Texts!Next
<1>4. ASSUME NEW b \in Buf, NEW s \in Chunk, WriteInPlace(b, s)
      PROVE  Texts!Next
  BY <1>1, <1>4, WriteInPlaceText DEF Texts!Next
<1>5. ASSUME NEW b \in Buf, NEW s \in Chunk, WriteGrowing(b, s)
      PROVE  Texts!Next
  BY <1>1, <1>5, WriteGrowingText DEF Texts!Next
<1>6. ASSUME NEW b \in Buf, Reset(b) PROVE Texts!Next
  BY <1>1, <1>6, ResetText DEF Texts!Next
<1>7. ASSUME NEW b \in Buf, NEW c \in Buf, Copy(b, c) PROVE Texts!Next
  BY <1>1, <1>7, CopyRefines DEF Texts!Next
<1>8. ASSUME NEW b \in Buf, NEW c \in Buf, Move(b, c) PROVE Texts!Next
  BY <1>1, <1>8, MoveRefines DEF Texts!Next
<1>9. ASSUME NEW b \in Buf, Destroy(b) PROVE Texts!Next
  BY <1>1, <1>9, DestroyText DEF Texts!Next
<1>10. CASE UNCHANGED vars
  <2>1. \A b \in Buf : View(b)' = View(b)
    BY <1>10 DEF vars, View, Written
  <2> QED
    BY <1>2, <1>10, <2>1 DEF vars, Texts!vars
<1> QED
  BY <1>2, <1>3, <1>4, <1>5, <1>6, <1>7, <1>8, <1>9, <1>10 DEF Next

(* Each buffer holds exactly the text written to it since it was           *)
(* constructed or reset, a copy that of its source, a buffer that was      *)
(* moved from nothing, whatever is done to the others: memory_buffer       *)
(* implements TextBuffers.                                                 *)
THEOREM MemoryBufferHoldsText ==
  ASSUME CarefulClients
  PROVE  Spec => HoldsText
<1>1. TextInv /\ [Next]_vars => TextInv' /\ [Texts!Next]_(Texts!vars)
  BY NextText
<1> QED
  BY InitText, <1>1, PTL DEF Spec, HoldsText, Texts!Spec
=============================================================================
