------------------------------- MODULE Bitset -------------------------------
(***************************************************************************)
(* detail/bitset.hpp: a set of numbers below Bits in the bits of words,    *)
(* which validate() uses to tick off the arguments that the fields of a    *)
(* format string name.  A word is the function of its bits.                *)
(*                                                                         *)
(* A query is a loop over words, and behind it, in all_first, a loop over  *)
(* the bits of the last word; an action is one turn.  (A bitset of no bits *)
(* has no words and answers at once; it is left out.)                      *)
(*                                                                         *)
(* BitsetSpec is a bitset with a client that calls what it likes.          *)
(***************************************************************************)
EXTENDS Integers

CONSTANTS
  WordBits,   (* bits_per_word, 64                                         *)
  Bits        (* 128 in validate()                                         *)

ASSUME WordAssumption == WordBits \in Nat \ {0}
ASSUME BitsAssumption == Bits \in Nat \ {0}

VARIABLES
  words,      (* words_                                                    *)
  given,      (* the numbers that have been set                            *)
  query,      (* the query in progress: "none", "words", "bits", "all"     *)
  asked,      (* its n                                                     *)
  remaining,  (* what is left of n                                         *)
  index,      (* i, of the current word                                    *)
  lastWord,   (* last_word                                                 *)
  answer      (* of the last query: "none", "yes", "no"                    *)

bitsetVars ==
  <<words, given, query, asked, remaining, index, lastWord, answer>>

NumberOfWords ==
  (Bits \div WordBits) + IF Bits % WordBits = 0 THEN 0 ELSE 1

BitWord == [0..(WordBits - 1) -> BOOLEAN]
Zero == [b \in 0..(WordBits - 1) |-> FALSE]
Ones == [b \in 0..(WordBits - 1) |-> TRUE]

(* get_high_word_mask: 1 << (Bits % bits_per_word), less one; all bits if  *)
(* that is zero.                                                           *)
HighWordMask ==
  IF Bits % WordBits = 0 THEN Ones
  ELSE [b \in 0..(WordBits - 1) |-> b \in 0..((Bits % WordBits) - 1)]

(* last_word >>= 1.                                                        *)
Shifted(w) == [b \in 0..(WordBits - 1) |->
                 IF b = WordBits - 1 THEN FALSE ELSE w[b + 1]]

BitsetInit ==
  /\ words = [k \in 0..(NumberOfWords - 1) |-> Zero]
  /\ given = {}
  /\ query = "none" /\ asked = 0 /\ remaining = 0 /\ index = 0
  /\ lastWord = Zero
  /\ answer = "none"

----------------------------------------------------------------------------
(* Mutant: the bit is not taken modulo the size of a word.                 *)
FirstBit(pos) == IF pos < WordBits THEN pos ELSE 0

BitOf(pos) == pos % WordBits

(* set, of a number below Bits; it terminates the program for any other.   *)
SetBit(pos) ==
  /\ query = "none"
  /\ words' = [words EXCEPT ![pos \div WordBits][BitOf(pos)] = TRUE]
  /\ given' = given \cup {pos}
  /\ answer' = "none"
  /\ UNCHANGED <<query, asked, remaining, index, lastWord>>

Answered(b) ==
  /\ answer' = IF b THEN "yes" ELSE "no"
  /\ query' = "none"

(* all_first.                                                              *)
AskAllFirst(m) ==
  /\ query = "none"
  /\ asked' = m
  /\ remaining' = m /\ index' = 0
  /\ IF m > Bits THEN Answered(FALSE)
     ELSE query' = "words" /\ answer' = "none"
  /\ UNCHANGED <<words, given, lastWord>>

(* Mutant: a full word counts as one of several.                           *)
NotLess(m) == m >= WordBits

MoreWords(m) == m > WordBits

NextWord ==
  /\ query = "words" /\ MoreWords(remaining)
  /\ IF words[index] # Ones
       THEN Answered(FALSE) /\ UNCHANGED <<remaining, index>>
       ELSE /\ remaining' = remaining - WordBits /\ index' = index + 1
            /\ UNCHANGED <<query, answer>>
  /\ UNCHANGED <<words, given, asked, lastWord>>

LastWord ==
  /\ query = "words" /\ ~ MoreWords(remaining)
  /\ lastWord' = words[index]
  /\ query' = "bits"
  /\ UNCHANGED <<words, given, asked, remaining, index, answer>>

NextBit ==
  /\ query = "bits" /\ remaining # 0
  /\ IF ~ lastWord[0]
       THEN Answered(FALSE) /\ UNCHANGED <<remaining, lastWord>>
       ELSE /\ lastWord' = Shifted(lastWord)
            /\ remaining' = remaining - 1
            /\ UNCHANGED <<query, answer>>
  /\ UNCHANGED <<words, given, asked, index>>

EndOfBits ==
  /\ query = "bits" /\ remaining = 0
  /\ Answered(TRUE)
  /\ UNCHANGED <<words, given, asked, remaining, index, lastWord>>

AllFirst == NextWord \/ LastWord \/ NextBit \/ EndOfBits

(* all().                                                                  *)
AskAll ==
  /\ query = "none"
  /\ asked' = Bits
  /\ index' = 0
  /\ query' = "all" /\ answer' = "none"
  /\ UNCHANGED <<words, given, remaining, lastWord>>

NextOfAll ==
  /\ query = "all" /\ index < NumberOfWords - 1
  /\ IF words[index] # Ones
       THEN Answered(FALSE) /\ UNCHANGED index
       ELSE index' = index + 1 /\ UNCHANGED <<query, answer>>
  /\ UNCHANGED <<words, given, asked, remaining, lastWord>>

EndOfAll ==
  /\ query = "all" /\ index >= NumberOfWords - 1
  /\ Answered(words[NumberOfWords - 1] = HighWordMask)
  /\ UNCHANGED <<words, given, asked, remaining, index, lastWord>>

BitsetNext ==
  \/ \E pos \in 0..(Bits - 1) : SetBit(pos)
  \/ \E m \in Nat : AskAllFirst(m)
  \/ AskAll
  \/ AllFirst \/ NextOfAll \/ EndOfAll

BitsetSpec == BitsetInit /\ [][BitsetNext]_bitsetVars

----------------------------------------------------------------------------
(* Types.                                                                  *)
BitsetTypeOK ==
  /\ words \in [0..(NumberOfWords - 1) -> BitWord]
  /\ given \subseteq 0..(Bits - 1)
  /\ query \in {"none", "words", "bits", "all"}
  /\ asked \in Nat /\ remaining \in Nat /\ index \in Nat
  /\ lastWord \in BitWord
  /\ answer \in {"none", "yes", "no"}

(* No word is read behind the last one ("ensured by loop", bitset.hpp:61   *)
(* and 65), whatever the number of bits, also when all words are full.     *)
InsideWords == query \in {"words", "all"} => index < NumberOfWords

(* A query answers whether all the numbers below n have been set.          *)
AnswersRight ==
  answer # "none" =>
    ((answer = "yes") <=> \A p \in 0..(asked - 1) : p \in given)
=============================================================================
