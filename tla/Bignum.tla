------------------------------- MODULE Bignum -------------------------------
(***************************************************************************)
(* detail::bignum, a natural number as a sequence of blocks, the least     *)
(* significant one first.  The sequence ends where size_ does: behind it   *)
(* the array holds zeros.  Zero is no block at all after a subtraction.    *)
(***************************************************************************)
EXTENDS Integers, SequencesExt

CONSTANTS
  BlockBits,   (* 32, the bits of a block                                  *)
  Pow5PerBlock (* 13, the largest power of five that is less than a block  *)

Block == 2 ^ BlockBits

ASSUME BlockAssumption ==
  /\ {BlockBits, Pow5PerBlock} \subseteq Nat \ {0}
  /\ 10 < Block /\ 5 ^ Pow5PerBlock < Block

(* bignum(uint64_t).                                                       *)
FromNumber(n) ==
  IF n < Block THEN <<n>> ELSE <<n % Block, n \div Block>>

BlockAt(a, i) == IF i \in DOMAIN a THEN a[i] ELSE 0

(* carrying_add, borrowing_sub and carrying_mul.                           *)
CarryingAdd(a, b, carry) ==
  LET v1 == (a + b) % Block
      v2 == (v1 + carry) % Block
  IN [value |-> v2, carry |-> IF v1 < a \/ v2 < v1 THEN 1 ELSE 0]

BorrowingSub(a, b, borrow) ==
  LET v1 == (a - b) % Block
      v2 == (v1 - borrow) % Block
  IN [value |-> v2, carry |-> IF v1 > a \/ v2 > v1 THEN 1 ELSE 0]

CarryingMul(a, b, carry) ==
  [value |-> (a * b + carry) % Block, carry |-> (a * b + carry) \div Block]

(* The blocks 1 to n, each computed with the carry of the one before.      *)
Carried(n, Step(_, _)) ==
  LET Extended(r, step) ==
        [blocks |-> Append(r.blocks, step.value), carry |-> step.carry]
      upTo[r \in [blocks : Seq(Nat), carry : Nat]] ==
        IF Len(r.blocks) = n THEN r
        ELSE upTo[Extended(r, Step(Len(r.blocks) + 1, r.carry))]
  IN upTo[[blocks |-> <<>>, carry |-> 0]]

(* A carry that is left is a block of its own.                             *)
Whole(r) == IF r.carry = 0 THEN r.blocks ELSE Append(r.blocks, r.carry)

(* Leading zeros go, all of them if there is nothing else.                 *)
Trimmed(a) ==
  SubSeq(a, 1, CHOOSE n \in 0..Len(a) : /\ n > 0 => a[n] # 0
                                        /\ \A i \in (n + 1)..Len(a) : a[i] = 0)

----------------------------------------------------------------------------
(* The operations are functions of bignums.                                *)

Add[a, b \in Seq(Nat)] ==
  Whole(Carried(IF Len(a) < Len(b) THEN Len(b) ELSE Len(a), LAMBDA i, carry :
          CarryingAdd(BlockAt(a, i), BlockAt(b, i), carry)))

Sub[a, b \in Seq(Nat)] ==
  LET difference[r \in [blocks : Seq(Nat), carry : Nat]] == Trimmed(r.blocks)
  IN difference[Carried(Len(a), LAMBDA i, borrow :
                          BorrowingSub(a[i], BlockAt(b, i), borrow))]

MulSmall[a \in Seq(Nat), n \in Nat] ==
  Whole(Carried(Len(a), LAMBDA i, carry : CarryingMul(a[i], n, carry)))

(* The largest power that fits a block is multiplied as often as possible. *)
MulPow5[a \in Seq(Nat), k \in Nat] ==
  IF k >= Pow5PerBlock
    THEN MulPow5[MulSmall[a, 5 ^ Pow5PerBlock], k - Pow5PerBlock]
  ELSE IF k = 0 THEN a ELSE MulSmall[a, 5 ^ k]

(* Bits are shifted across the borders of blocks, behind whole blocks.     *)
ShiftBits[a \in Seq(Nat), bits \in Nat] ==
  Whole(Carried(Len(a), LAMBDA i, overflow :
          [value |-> ((a[i] * 2 ^ bits) % Block) + overflow,
           carry |-> (a[i] * 2 ^ bits) \div Block]))

MulPow2[a \in Seq(Nat), exp \in Nat] ==
  ShiftBits[[i \in 1..(exp \div BlockBits) |-> 0] \o a, exp % BlockBits]

Less[a, b \in Seq(Nat)] ==
  \/ Len(a) < Len(b)
  \/ /\ Len(a) = Len(b)
     /\ \E i \in DOMAIN a :
          a[i] < b[i] /\ \A j \in (i + 1)..Len(a) : a[j] = b[j]

IsZero(a) == \A i \in DOMAIN a : a[i] = 0

(* The number that is meant.                                               *)
ValueOf(a) == FoldRight(LAMBDA block, n : n * Block + block, a, 0)
=============================================================================
