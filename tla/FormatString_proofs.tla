------------------------- MODULE FormatString_proofs -------------------------
(***************************************************************************)
(* What has been checked is read again in the same way: the parser without *)
(* checks never leaves a string that the checking parser has accepted, and *)
(* it reads the same arguments with the same specs.                        *)
(*                                                                         *)
(* The two differ where they look: the checking parser rejects, the other  *)
(* one goes on with whatever is there.  So each part is shown to be read   *)
(* alike if it is accepted: the specs of core types (CoreAgrees), those of *)
(* ranges by induction over the kinds (AnyAgrees), those of a scan         *)
(* (ScanAgrees), and a field with its name (FieldRead).                    *)
(*                                                                         *)
(* The second parser starts again at the first place, so its steps are not *)
(* those of the first.  The invariant therefore keeps the places that the  *)
(* checking parser came by, with the number of the next argument and of    *)
(* the fields so far, as a set (Trail): it has the start, and with a place *)
(* the one that follows.  The second parser is always at one of them       *)
(* (Passed), behind as many fields as it has written.                      *)
(*                                                                         *)
(* With that, the bitset in which the checking parser ticks off arguments  *)
(* gives right answers (AnswersAreRight), the parser uses it as its        *)
(* specification says (UsesBitset), and so a string that is accepted names *)
(* all arguments (AllArgumentsUsed) and a call uses every one of them      *)
(* (EveryArgumentAlways).                                                  *)
(*                                                                         *)
(* A tuple of several elements is left out (WithoutTuples): its specs are  *)
(* read differently, as the run FormatStringTuple shows.                   *)
(***************************************************************************)
EXTENDS FormatGrammar, FormatSpecs_proofs

----------------------------------------------------------------------------
(* The bitset, for any size of words, number of bits and queries (Bitset): *)
(* no word behind the last is read, and the answers are right. Both are    *)
(* one inductive invariant, which says what the loops know when they are   *)
(* at a word or a bit.                                                     *)

(* The number of the first bit of word k.                                  *)
First(k) == k * WordBits

(* How far the last word has been shifted.                                 *)
Shift == asked - remaining - First(index)

(* A bit of a word is set if its number has been given.                    *)
Marked ==
  \A k \in 0..(NumberOfWords - 1), b \in 0..(WordBits - 1) :
    words[k][b] <=> First(k) + b \in given

(* All numbers below m have been given.                                    *)
AllBelow(m) == \A p \in 0..(m - 1) : p \in given

(* What the loop over the words knows in front of a word: the words before *)
(* are full.                                                               *)
AtWord ==
  query = "words" =>
    /\ asked <= Bits /\ asked = remaining + First(index)
    /\ remaining > 0 \/ index = 0
    /\ AllBelow(First(index))

(* What the loop over the bits of the last word knows: the bits shifted    *)
(* out of it have been set, the others are still there.                    *)
AtBit ==
  query = "bits" =>
    /\ asked <= Bits /\ index < NumberOfWords
    /\ Shift \in 0..WordBits /\ Shift + remaining <= WordBits
    /\ AllBelow(First(index) + Shift)
    /\ \A b \in 0..(WordBits - 1) :
         lastWord[b] <=> (b + Shift < WordBits /\ words[index][b + Shift])

(* What the loop of all() knows: the words before are full.                *)
AtAll ==
  query = "all" =>
    /\ asked = Bits /\ index < NumberOfWords
    /\ AllBelow(First(index))

(* The inductive invariant of the bitset.                                  *)
BitsetInv == BitsetTypeOK /\ Marked /\ AtWord /\ AtBit /\ AtAll /\ AnswersRight

----------------------------------------------------------------------------
(* Words and bits as a way to write numbers.                               *)

(* A word begins where the one before it ends,                             *)
LEMMA FirstIsNat ==
  ASSUME NEW k \in Nat
  PROVE  First(k) \in Nat /\ First(k + 1) = First(k) + WordBits
BY WordAssumption DEF First

(* or further on.                                                          *)
LEMMA FirstGrows ==
  ASSUME NEW j \in Nat, NEW k \in Nat, j < k
  PROVE  First(j) + WordBits <= First(k)
<1>1. PICK d \in Nat : k = j + 1 + d
  BY k - j - 1 \in Nat
<1>2. First(k) = First(j) + WordBits + First(d)
  BY <1>1, WordAssumption DEF First
<1> QED BY <1>2, FirstIsNat, WordAssumption

(* A number is a bit of a word,                                            *)
LEMMA Division ==
  ASSUME NEW p \in Nat
  PROVE  /\ p = First(p \div WordBits) + (p % WordBits)
         /\ p % WordBits \in 0..(WordBits - 1)
         /\ p \div WordBits \in Nat
BY WordAssumption DEF First

(* and of no other.                                                        *)
LEMMA Unique ==
  ASSUME NEW j \in Nat, NEW k \in Nat,
         NEW b \in 0..(WordBits - 1), NEW c \in 0..(WordBits - 1),
         First(j) + b = First(k) + c
  PROVE  j = k /\ b = c
<1> USE WordAssumption
<1>1. First(j) \in Nat /\ First(k) \in Nat
  BY FirstIsNat
<1>2. ~ j < k
  BY <1>1, FirstGrows
<1>3. ~ k < j
  BY <1>1, FirstGrows
<1> QED BY <1>1, <1>2, <1>3

(* There are as many words as it takes, and the last one is not empty.     *)
LEMMA Words ==
  /\ NumberOfWords \in Nat \ {0}
  /\ First(NumberOfWords - 1) < Bits
  /\ Bits <= First(NumberOfWords)
  /\ \A k \in Nat : First(k) < Bits => k < NumberOfWords
  /\ \A p \in 0..(Bits - 1) : p \div WordBits < NumberOfWords
  /\ Bits = First(NumberOfWords - 1)
            + IF Bits % WordBits = 0 THEN WordBits ELSE Bits % WordBits
<1> USE WordAssumption, BitsAssumption
<1> DEFINE q == Bits \div WordBits
           r == Bits % WordBits
<1>1. Bits = First(q) + r /\ r \in 0..(WordBits - 1) /\ q \in Nat
  BY Division
<1>2. First(q) \in Nat /\ First(0) = 0 /\ First(q + 1) = First(q) + WordBits
  BY <1>1, FirstIsNat DEF First
<1>3. r = 0 => q # 0
  BY <1>1, <1>2
<1>4. NumberOfWords = q + IF r = 0 THEN 0 ELSE 1
  BY DEF NumberOfWords
<1> HIDE DEF q, r
<1>5. r = 0 => First(q - 1) + WordBits = First(q) /\ First(q - 1) \in Nat
  <2> SUFFICES ASSUME r = 0 PROVE First(q - 1) + WordBits = First(q)
                                  /\ First(q - 1) \in Nat
    OBVIOUS
  <2>1. q - 1 \in Nat
    BY <1>1, <1>3
  <2>2. First((q - 1) + 1) = First(q - 1) + WordBits /\ First(q - 1) \in Nat
    BY <2>1, FirstIsNat
  <2> QED BY <2>1, <2>2, <1>1
<1>6. /\ NumberOfWords \in Nat \ {0}
      /\ First(NumberOfWords - 1) < Bits
      /\ Bits <= First(NumberOfWords)
      /\ Bits = First(NumberOfWords - 1) + IF r = 0 THEN WordBits ELSE r
  <2>1. CASE r = 0
    BY <2>1, <1>1, <1>2, <1>3, <1>4, <1>5
  <2>2. CASE r # 0
    <3>1. NumberOfWords = q + 1 /\ NumberOfWords - 1 = q
      BY <2>2, <1>1, <1>4
    <3> QED BY <3>1, <2>2, <1>1, <1>2
  <2> QED BY <2>1, <2>2
<1>7. ASSUME NEW k \in Nat, First(k) < Bits PROVE k < NumberOfWords
  <2>1. First(NumberOfWords) \in Nat /\ First(k) \in Nat
    BY <1>6, FirstIsNat
  <2>2. ~ NumberOfWords < k
    BY <2>1, <1>6, <1>7, FirstGrows
  <2>3. NumberOfWords # k
    BY <2>1, <1>6, <1>7
  <2> QED BY <2>2, <2>3, <1>6
<1>8. ASSUME NEW p \in 0..(Bits - 1) PROVE p \div WordBits < NumberOfWords
  <2>1. /\ p = First(p \div WordBits) + (p % WordBits)
        /\ p % WordBits \in 0..(WordBits - 1) /\ p \div WordBits \in Nat
    BY Division
  <2>2. First(p \div WordBits) \in Nat
    BY <2>1, FirstIsNat
  <2> HIDE DEF First
  <2> QED BY <2>1, <2>2, <1>7
<1> QED BY <1>6, <1>7, <1>8 DEF q, r
----------------------------------------------------------------------------
(* The invariant, one lemma for each action.                               *)

(* What the types tell about the words.                                    *)
LEMMA TypesOfWords ==
  ASSUME BitsetTypeOK
  PROVE  /\ Bits \in Nat \ {0} /\ NumberOfWords \in Nat \ {0}
         /\ First(index) \in Nat
         /\ \A k \in 0..(NumberOfWords - 1) :
              words[k] \in [0..(WordBits - 1) -> BOOLEAN]
<1>1. Bits \in Nat \ {0}
  BY BitsAssumption
<1> QED BY <1>1, Words, FirstIsNat DEF BitsetTypeOK, BitWord

(* It holds initially,                                                     *)
LEMMA BitsetStart ==
  ASSUME BitsetInit PROVE BitsetInv
<1>1. Bits \in Nat \ {0}
  BY BitsAssumption
<1>2. BitsetTypeOK
  BY <1>1, WordAssumption DEF BitsetInit, BitsetTypeOK, BitWord, Zero
<1>3. Marked
  BY WordAssumption DEF BitsetInit, Marked, Zero
<1> QED
  BY <1>2, <1>3 DEF BitsetInit, BitsetInv, AtWord, AtBit, AtAll, AnswersRight

(* and is kept when a bit is set,                                          *)
LEMMA SetKeeps ==
  ASSUME BitsetInv, NEW num \in 0..(Bits - 1), SetBit(num)
  PROVE  BitsetInv'
<1> DEFINE K == num \div WordBits
           B == num % WordBits
<1>1. /\ Bits \in Nat \ {0} /\ NumberOfWords \in Nat \ {0}
      /\ \A k \in 0..(NumberOfWords - 1) :
           words[k] \in [0..(WordBits - 1) -> BOOLEAN]
  BY TypesOfWords DEF BitsetInv
<1>2. /\ num = First(K) + B /\ B \in 0..(WordBits - 1) /\ K \in Nat
      /\ K < NumberOfWords
  BY <1>1, Words, Division
<1>3. words' = [words EXCEPT ![K][B] = TRUE]
  BY DEF SetBit, BitOf
<1>4. NumberOfWords' = NumberOfWords
  BY DEF SetBit, NumberOfWords
<1> HIDE DEF K, B
<1>5. BitsetTypeOK'
  <2>1. words \in [0..(NumberOfWords - 1) -> BitWord]
    BY DEF BitsetInv, BitsetTypeOK
  <2>2. [words[K] EXCEPT ![B] = TRUE] \in BitWord
    BY <1>1, <1>2 DEF BitWord
  <2>3. words' \in [0..(NumberOfWords - 1) -> BitWord]
    BY <1>3, <2>1, <2>2
  <2>4. given' \subseteq 0..(Bits - 1)
    BY DEF SetBit, BitsetInv, BitsetTypeOK
  <2> QED BY <1>4, <2>3, <2>4 DEF BitsetInv, BitsetTypeOK, SetBit
<1>6. Marked'
  <2>1. ASSUME NEW k \in 0..(NumberOfWords - 1),
               NEW b \in 0..(WordBits - 1)
        PROVE  words'[k][b] <=> First(k) + b \in given \cup {num}
    <3>1. words \in [0..(NumberOfWords - 1) -> BitWord]
      BY DEF BitsetInv, BitsetTypeOK
    <3>2. words'[k] = IF k = K THEN [words[k] EXCEPT ![B] = TRUE]
                      ELSE words[k]
      BY <3>1, <1>1, <1>2, <1>3
    <3>3. words'[k][b] <=> (k = K /\ b = B) \/ words[k][b]
      BY <3>2, <1>1, <1>2
    <3>4. First(k) + b = num <=> k = K /\ b = B
      BY <1>1, <1>2, Unique
    <3>5. words[k][b] <=> First(k) + b \in given
      BY DEF BitsetInv, Marked
    <3> QED BY <3>3, <3>4, <3>5
  <2> QED BY <2>1, <1>4 DEF SetBit, Marked, First
<1> QED
  BY <1>5, <1>6 DEF BitsetInv, SetBit, AtWord, AtBit, AtAll, AnswersRight

(* when a query begins that is about the first numbers                     *)
LEMMA AskAllFirstKeeps ==
  ASSUME BitsetInv, NEW m \in Nat, AskAllFirst(m)
  PROVE  BitsetInv'
<1>1. Bits \in Nat \ {0} /\ m \in Nat
  BY TypesOfWords DEF BitsetInv
<1>2. NumberOfWords' = NumberOfWords
  BY DEF AskAllFirst, NumberOfWords
<1>3. BitsetTypeOK' /\ Marked'
  BY <1>1, <1>2
  DEF BitsetInv, BitsetTypeOK, Marked, First, AskAllFirst, Answered
<1>4. First(0) = 0
  BY WordAssumption DEF First
<1>5. AnswersRight'
  <2>1. CASE m > Bits
    <3>1. Bits \in 0..(m - 1) /\ Bits \notin given
      BY <2>1, <1>1 DEF BitsetInv, BitsetTypeOK
    <3> QED BY <2>1, <3>1 DEF AskAllFirst, Answered, AnswersRight
  <2>2. CASE ~ m > Bits
    BY <2>2 DEF AskAllFirst, AnswersRight
  <2> QED BY <2>1, <2>2
<1>6. AtWord' /\ AtBit' /\ AtAll'
  <2>1. AllBelow(0)'
    BY DEF AllBelow
  <2> QED
    BY <2>1, <1>1, <1>4
    DEF AskAllFirst, Answered, AtWord, AtBit, AtAll, BitsetInv, First, AllBelow
<1> QED BY <1>3, <1>5, <1>6 DEF BitsetInv

(* or about all numbers.                                                   *)
LEMMA AskAllKeeps ==
  ASSUME BitsetInv, AskAll
  PROVE  BitsetInv'
<1>1. Bits \in Nat \ {0} /\ NumberOfWords \in Nat \ {0}
  BY TypesOfWords DEF BitsetInv
<1>2. NumberOfWords' = NumberOfWords
  BY DEF AskAll, NumberOfWords
<1>3. BitsetTypeOK' /\ Marked'
  BY <1>1, <1>2 DEF BitsetInv, BitsetTypeOK, Marked, First, AskAll
<1>4. First(0) = 0
  BY WordAssumption DEF First
<1>5. AllBelow(First(index))' /\ index' < NumberOfWords
  BY <1>1, <1>4 DEF AllBelow, AskAll, First
<1> QED
  BY <1>2, <1>3, <1>5
  DEF AskAll, BitsetInv, AtWord, AtBit, AtAll, AnswersRight

(* A word between the first and the last one of a query.                   *)
LEMMA FullWord ==
  ASSUME BitsetInv, NEW k \in 0..(NumberOfWords - 1), AllBelow(First(k)),
         words[k] = Ones
  PROVE  AllBelow(First(k + 1))
<1>1. First(k) \in Nat /\ First(k + 1) = First(k) + WordBits
  BY FirstIsNat
<1> SUFFICES ASSUME NEW p \in 0..(First(k + 1) - 1), p >= First(k)
             PROVE  p \in given
  BY <1>1 DEF AllBelow
<1>2. p - First(k) \in 0..(WordBits - 1)
  BY <1>1, WordAssumption
<1>3. words[k][p - First(k)]
  BY <1>2 DEF Ones
<1>4. First(k) + (p - First(k)) \in given
  BY <1>2, <1>3 DEF BitsetInv, Marked
<1> QED BY <1>1, <1>4

(* A word that is not full lacks a number.                                 *)
LEMMA HollowWord ==
  ASSUME BitsetInv, NEW k \in 0..(NumberOfWords - 1), words[k] # Ones
  PROVE  /\ First(k) \in Nat
         /\ \E p \in First(k)..(First(k) + WordBits - 1) : p \notin given
<1>1. First(k) \in Nat
  BY FirstIsNat
<1>2. words[k] \in [0..(WordBits - 1) -> BOOLEAN]
  BY TypesOfWords DEF BitsetInv
<1>3. PICK b \in 0..(WordBits - 1) : ~ words[k][b]
  BY <1>2 DEF Ones
<1>4. First(k) + b \notin given
  BY <1>3 DEF BitsetInv, Marked
<1> QED BY <1>1, <1>4, WordAssumption

(* It is kept by a turn of the loop over the words,                        *)
LEMMA NextWordKeeps ==
  ASSUME BitsetInv, NextWord
  PROVE  BitsetInv'
<1>1. /\ Bits \in Nat \ {0} /\ NumberOfWords \in Nat \ {0}
      /\ First(index) \in Nat
  BY TypesOfWords DEF BitsetInv
<1>2. NumberOfWords' = NumberOfWords
  BY DEF NextWord, NumberOfWords
<1>3. /\ asked <= Bits /\ asked = remaining + First(index)
      /\ remaining > WordBits /\ AllBelow(First(index))
      /\ remaining \in Nat /\ index \in Nat /\ asked \in Nat
  BY DEF BitsetInv, AtWord, NextWord, MoreWords, BitsetTypeOK
<1>4. index \in 0..(NumberOfWords - 1)
  <2>1. First(index) < Bits
    BY <1>1, <1>3, WordAssumption
  <2> QED BY <2>1, <1>1, <1>3, Words
<1>5. BitsetTypeOK'
  BY <1>2, <1>3, WordAssumption
  DEF BitsetInv, BitsetTypeOK, NextWord, Answered
<1>6. Marked'
  BY <1>2 DEF BitsetInv, Marked, NextWord, First
<1>7. CASE words[index] # Ones
  <2>1. PICK p \in First(index)..(First(index) + WordBits - 1) : p \notin given
    BY <1>4, <1>7, HollowWord
  <2>2. p \in 0..(asked - 1)
    BY <1>1, <1>3, WordAssumption
  <2>3. AnswersRight'
    BY <1>7, <2>1, <2>2 DEF NextWord, Answered, AnswersRight
  <2> QED
    BY <1>5, <1>6, <1>7, <2>3
    DEF BitsetInv, NextWord, Answered, AtWord, AtBit, AtAll
<1>8. CASE words[index] = Ones
  <2>1. /\ AllBelow(First(index + 1))
        /\ First(index + 1) = First(index) + WordBits
    BY <1>3, <1>4, <1>8, FullWord, FirstIsNat
  <2>2. /\ remaining' = remaining - WordBits /\ index' = index + 1
        /\ query' = query
        /\ answer' = answer /\ asked' = asked /\ given' = given
    BY <1>8 DEF NextWord
  <2>3. First(index)' = First(index + 1)
    BY <2>2 DEF First
  <2>4. /\ asked = (remaining - WordBits) + First(index + 1)
        /\ remaining - WordBits > 0
    BY <1>1, <1>3, <2>1, WordAssumption
  <2>5. AtWord'
    BY <2>1, <2>2, <2>3, <2>4, <1>3 DEF AtWord, AllBelow
  <2> QED
    BY <1>5, <1>6, <2>2, <2>5
    DEF BitsetInv, NextWord, AtBit, AtAll, AnswersRight
<1> QED BY <1>7, <1>8

(* when the last word is reached,                                          *)
LEMMA LastWordKeeps ==
  ASSUME BitsetInv, LastWord
  PROVE  BitsetInv'
<1>1. /\ Bits \in Nat \ {0} /\ NumberOfWords \in Nat \ {0}
      /\ First(index) \in Nat
  BY TypesOfWords DEF BitsetInv
<1>2. NumberOfWords' = NumberOfWords
  BY DEF LastWord, NumberOfWords
<1>3. /\ asked <= Bits /\ asked = remaining + First(index)
      /\ remaining <= WordBits
      /\ remaining > 0 \/ index = 0
      /\ AllBelow(First(index))
      /\ remaining \in Nat /\ index \in Nat /\ asked \in Nat
  BY WordAssumption DEF BitsetInv, AtWord, LastWord, MoreWords, BitsetTypeOK
<1>4. index < NumberOfWords
  <2>1. remaining > 0 => First(index) < Bits
    BY <1>1, <1>3, WordAssumption
  <2> QED BY <2>1, <1>1, <1>3, Words
<1>5. lastWord' = words[index] /\ words[index] \in BitWord
  BY <1>1, <1>3, <1>4 DEF LastWord, BitsetInv, BitsetTypeOK
<1>6. BitsetTypeOK' /\ Marked'
  BY <1>2, <1>5 DEF BitsetInv, BitsetTypeOK, Marked, First, LastWord
<1>7. Shift = 0 /\ Shift' = Shift
  BY <1>1, <1>3 DEF Shift, LastWord, First
<1>8. AtBit'
  <2>1. First(index) + 0 = First(index)
    BY <1>1
  <2>2. First(index)' = First(index)
    BY DEF LastWord, First
  <2>3. /\ Shift' = 0 /\ Shift' \in 0..WordBits
        /\ (First(index) + Shift)' = First(index)
        /\ (Shift + remaining)' = remaining
    BY <1>3, <1>7, <2>1, <2>2, WordAssumption DEF LastWord
  <2>4. \A b \in 0..(WordBits - 1) :
          lastWord'[b] <=> (b + 0 < WordBits /\ words[index][b + 0])
    BY <1>5, WordAssumption
  <2> QED
    BY <2>3, <2>4, <1>2, <1>3, <1>4 DEF AtBit, LastWord, AllBelow
<1> QED
  BY <1>6, <1>8 DEF BitsetInv, LastWord, AtWord, AtAll, AnswersRight

(* by a turn of the loop over its bits,                                    *)
LEMMA NextBitKeeps ==
  ASSUME BitsetInv, NextBit
  PROVE  BitsetInv'
<1>1. /\ Bits \in Nat \ {0} /\ NumberOfWords \in Nat \ {0}
      /\ First(index) \in Nat
  BY TypesOfWords DEF BitsetInv
<1>2. NumberOfWords' = NumberOfWords
  BY DEF NextBit, NumberOfWords
<1>3. /\ asked <= Bits /\ index < NumberOfWords
      /\ Shift \in 0..WordBits /\ Shift + remaining <= WordBits
      /\ AllBelow(First(index) + Shift)
      /\ remaining \in Nat \ {0} /\ index \in Nat /\ asked \in Nat
      /\ lastWord \in BitWord
      /\ \A b \in 0..(WordBits - 1) :
           lastWord[b] <=> (b + Shift < WordBits /\ words[index][b + Shift])
  BY DEF BitsetInv, AtBit, NextBit, BitsetTypeOK
<1>4. Shift = asked - remaining - First(index)
  BY DEF Shift
<1>5. Shift \in 0..(WordBits - 1) /\ First(index) + Shift \in 0..(asked - 1)
  BY <1>1, <1>3, <1>4, WordAssumption
<1>6. lastWord[0] <=> First(index) + Shift \in given
  <2>1. lastWord[0] <=> words[index][Shift]
    BY <1>3, <1>5, WordAssumption
  <2>2. index \in 0..(NumberOfWords - 1)
    BY <1>1, <1>3
  <2> QED BY <1>5, <2>1, <2>2 DEF BitsetInv, Marked
<1>7. Marked'
  BY <1>2 DEF BitsetInv, Marked, First, NextBit
<1>8. CASE ~ lastWord[0]
  <2>1. AnswersRight'
    BY <1>5, <1>6, <1>8 DEF NextBit, Answered, AnswersRight
  <2>2. BitsetTypeOK'
    BY <1>2, <1>8 DEF BitsetInv, BitsetTypeOK, NextBit, Answered
  <2> QED
    BY <1>7, <1>8, <2>1, <2>2
    DEF BitsetInv, NextBit, Answered, AtWord, AtBit, AtAll
<1>9. CASE lastWord[0]
  <2> DEFINE S == Shift + 1
             L == Shifted(lastWord)
  <2>1. /\ remaining' = remaining - 1 /\ lastWord' = L /\ index' = index
        /\ query' = "bits"
        /\ answer' = answer /\ asked' = asked /\ given' = given
        /\ words' = words /\ query = "bits"
    BY <1>9 DEF NextBit
  <2>2. Shift' = S /\ S \in 0..WordBits /\ S + (remaining - 1) <= WordBits
    <3>1. Shift' = asked - (remaining - 1) - First(index)
      BY <2>1 DEF Shift, First
    <3> QED BY <3>1, <1>1, <1>3, <1>4, <1>5, WordAssumption
  <2>3. L \in BitWord
    <3>1. ASSUME NEW b \in 0..(WordBits - 1), b # WordBits - 1
          PROVE  lastWord[b + 1] \in BOOLEAN
      <4>1. b + 1 \in 0..(WordBits - 1)
        BY <3>1, WordAssumption
      <4> QED BY <1>3, <4>1 DEF BitWord
    <3> QED BY <3>1 DEF Shifted, BitWord
  <2>4. AllBelow(First(index) + S)
    BY <1>1, <1>3, <1>5, <1>6, <1>9 DEF AllBelow
  <2>5. ASSUME NEW b \in 0..(WordBits - 1)
        PROVE  L[b] <=> (b + S < WordBits /\ words[index][b + S])
    <3>1. CASE b = WordBits - 1
      <4>1. ~ L[b]
        BY <3>1 DEF Shifted
      <4>2. ~ b + S < WordBits
        BY <3>1, <1>5, WordAssumption
      <4> QED BY <4>1, <4>2
    <3>2. CASE b # WordBits - 1
      <4>1. b + 1 \in 0..(WordBits - 1) /\ (b + 1) + Shift = b + S
        BY <3>2, <1>5, WordAssumption
      <4>2. L[b] = lastWord[b + 1]
        BY <3>2 DEF Shifted
      <4> QED BY <4>1, <4>2, <1>3
    <3> QED BY <3>1, <3>2
  <2> HIDE DEF S, L
  <2>6. BitsetTypeOK'
    BY <1>2, <1>3, <2>1, <2>3 DEF BitsetInv, BitsetTypeOK
  <2>7. /\ First(index)' = First(index)
        /\ (Shift + remaining)' = S + (remaining - 1)
    BY <2>1, <2>2 DEF First
  <2>8. AtBit'
    BY <2>1, <2>2, <2>4, <2>5, <2>7, <1>2, <1>3 DEF AtBit, AllBelow
  <2> QED
    BY <1>7, <2>1, <2>6, <2>8 DEF BitsetInv, AtWord, AtAll, AnswersRight
<1> QED BY <1>8, <1>9

(* at the end of that loop,                                                *)
LEMMA EndOfBitsKeeps ==
  ASSUME BitsetInv, EndOfBits
  PROVE  BitsetInv'
<1>1. NumberOfWords' = NumberOfWords
  BY DEF EndOfBits, NumberOfWords
<1>2. First(index) \in Nat /\ asked \in Nat /\ remaining = 0
  BY TypesOfWords DEF BitsetInv, BitsetTypeOK, EndOfBits
<1>3. AllBelow(asked)
  <2>1. Shift = asked - First(index)
    BY <1>2 DEF Shift
  <2>2. First(index) + Shift = asked
    BY <1>2, <2>1
  <2> QED BY <2>2 DEF BitsetInv, AtBit, EndOfBits
<1>4. BitsetTypeOK' /\ Marked'
  BY <1>1 DEF BitsetInv, BitsetTypeOK, Marked, First, EndOfBits, Answered
<1> QED
  BY <1>3, <1>4
  DEF BitsetInv, EndOfBits, Answered, AllBelow, AtWord, AtBit, AtAll,
      AnswersRight

(* and by a turn of the loop of all().                                     *)
LEMMA NextOfAllKeeps ==
  ASSUME BitsetInv, NextOfAll
  PROVE  BitsetInv'
<1>1. /\ Bits \in Nat \ {0} /\ NumberOfWords \in Nat \ {0}
      /\ First(index) \in Nat
  BY TypesOfWords DEF BitsetInv
<1>2. NumberOfWords' = NumberOfWords
  BY DEF NextOfAll, NumberOfWords
<1>3. /\ asked = Bits /\ AllBelow(First(index)) /\ index \in Nat
      /\ index < NumberOfWords - 1
  BY DEF BitsetInv, AtAll, NextOfAll, BitsetTypeOK
<1>4. BitsetTypeOK' /\ Marked'
  BY <1>2, <1>3
  DEF BitsetInv, BitsetTypeOK, Marked, First, NextOfAll, Answered
<1>5. CASE words[index] # Ones
  <2>1. PICK p \in First(index)..(First(index) + WordBits - 1) : p \notin given
    BY <1>1, <1>3, <1>5, HollowWord
  <2>2. First(index) + WordBits <= First(NumberOfWords - 1)
        /\ First(NumberOfWords - 1) < Bits
        /\ First(NumberOfWords - 1) \in Nat
    <3>1. NumberOfWords - 1 \in Nat
      BY <1>1
    <3> QED BY <3>1, <1>1, <1>3, FirstGrows, FirstIsNat, Words
  <2>3. p \in 0..(asked - 1)
    BY <1>1, <1>3, <2>2, WordAssumption
  <2>4. AnswersRight'
    BY <1>5, <2>1, <2>3 DEF NextOfAll, Answered, AnswersRight
  <2> QED
    BY <1>4, <1>5, <2>4
    DEF BitsetInv, NextOfAll, Answered, AtWord, AtBit, AtAll
<1>6. CASE words[index] = Ones
  <2>1. AllBelow(First(index + 1)) /\ index + 1 < NumberOfWords
    BY <1>1, <1>3, <1>6, FullWord
  <2>2. /\ index' = index + 1 /\ query' = query /\ answer' = answer
        /\ asked' = asked /\ given' = given
        /\ query = "all"
    BY <1>6 DEF NextOfAll
  <2>3. AtAll'
    BY <2>1, <2>2, <1>2, <1>3 DEF AtAll, AllBelow, First
  <2> QED
    BY <1>4, <2>2, <2>3 DEF BitsetInv, AtWord, AtBit, AnswersRight
<1> QED BY <1>5, <1>6

(* The last word holds the bits of the mask if the set is full.            *)
LEMMA LastOfAll ==
  ASSUME BitsetInv, NEW k \in Nat, k = NumberOfWords - 1, AllBelow(First(k))
  PROVE  words[k] = HighWordMask <=> AllBelow(Bits)
<1>0. Bits \in Nat \ {0} /\ NumberOfWords \in Nat \ {0}
  BY TypesOfWords DEF BitsetInv
<1>1. First(k) \in Nat /\ Bits \in Nat
  BY <1>0, FirstIsNat
<1>2. k \in 0..(NumberOfWords - 1)
  BY <1>0
<1>3. words[k] \in [0..(WordBits - 1) -> BOOLEAN]
  BY <1>2, TypesOfWords DEF BitsetInv
<1>4. PICK m \in 1..WordBits :
        /\ Bits = First(k) + m
        /\ m = IF Bits % WordBits = 0 THEN WordBits ELSE Bits % WordBits
  <2>1. Bits % WordBits \in 0..(WordBits - 1)
    BY <1>1, WordAssumption
  <2> QED BY <2>1, <1>0, Words, WordAssumption
<1>5. HighWordMask = [b \in 0..(WordBits - 1) |-> b \in 0..(m - 1)]
  <2>1. CASE Bits % WordBits = 0
    <3>1. HighWordMask = [b \in 0..(WordBits - 1) |-> TRUE]
      BY <2>1 DEF HighWordMask, Ones
    <3>2. \A b \in 0..(WordBits - 1) : TRUE <=> b \in 0..(m - 1)
      BY <2>1, <1>4, WordAssumption
    <3> QED BY <3>1, <3>2, Zenon
  <2>2. CASE Bits % WordBits # 0
    BY <2>2, <1>4 DEF HighWordMask
  <2> QED BY <2>1, <2>2
<1>6. \A b \in 0..(WordBits - 1) : words[k][b] <=> First(k) + b \in given
  BY <1>2 DEF BitsetInv, Marked
<1>7. given \subseteq 0..(Bits - 1)
  BY DEF BitsetInv, BitsetTypeOK
<1>8. ASSUME words[k] = HighWordMask PROVE AllBelow(Bits)
  <2> SUFFICES ASSUME NEW p \in 0..(Bits - 1), p >= First(k)
               PROVE  p \in given
    BY <1>1 DEF AllBelow
  <2>1. p - First(k) \in 0..(WordBits - 1) /\ p - First(k) < m
    BY <1>1, <1>4, WordAssumption
  <2>2. words[k][p - First(k)]
    <3> DEFINE b0 == p - First(k)
    <3>1. b0 \in 0..(WordBits - 1) /\ b0 \in 0..(m - 1)
      BY <2>1, <1>4
    <3> HIDE DEF b0
    <3>2. HighWordMask[b0]
      BY <3>1, <1>5, Zenon
    <3> QED BY <3>2, <1>8 DEF b0
  <2>3. First(k) + (p - First(k)) = p
    BY <1>1
  <2> QED BY <2>1, <2>2, <2>3, <1>6
<1>9. ASSUME AllBelow(Bits) PROVE words[k] = HighWordMask
  <2>1. ASSUME NEW b \in 0..(WordBits - 1)
        PROVE  words[k][b] = (b \in 0..(m - 1))
    <3>1. First(k) + b \in given <=> b \in 0..(m - 1)
      BY <1>1, <1>4, <1>7, <1>9, WordAssumption DEF AllBelow
    <3>2. words[k][b] \in BOOLEAN
      BY <1>3
    <3>3. words[k][b] <=> b \in 0..(m - 1)
      BY <3>1, <1>6
    <3>4. CASE words[k][b] = TRUE
      BY <3>3, <3>4, Zenon
    <3>5. CASE words[k][b] = FALSE
      <4>1. b \notin 0..(m - 1)
        BY <3>3, <3>5
      <4>2. (b \in 0..(m - 1)) = FALSE
        BY <4>1
      <4> QED BY <3>5, <4>2
    <3> QED BY <3>2, <3>4, <3>5
  <2>2. words[k] = [b \in 0..(WordBits - 1) |-> words[k][b]]
    BY <1>3
  <2> QED BY <2>1, <2>2, <1>5, Zenon
<1> QED BY <1>8, <1>9

(* The end of the loop of all().                                           *)
LEMMA EndOfAllKeeps ==
  ASSUME BitsetInv, EndOfAll
  PROVE  BitsetInv'
<1>1. NumberOfWords' = NumberOfWords
  BY DEF EndOfAll, NumberOfWords
<1>2. /\ asked = Bits /\ index = NumberOfWords - 1 /\ index \in Nat
      /\ AllBelow(First(index))
  BY TypesOfWords DEF BitsetInv, AtAll, EndOfAll, BitsetTypeOK
<1>3. words[NumberOfWords - 1] = HighWordMask <=> AllBelow(asked)
  BY <1>2, LastOfAll
<1>4. BitsetTypeOK' /\ Marked'
  BY <1>1 DEF BitsetInv, BitsetTypeOK, Marked, First, EndOfAll, Answered
<1>5. AnswersRight'
  BY <1>3 DEF EndOfAll, Answered, AllBelow, AnswersRight
<1> QED
  BY <1>4, <1>5 DEF BitsetInv, EndOfAll, Answered, AtWord, AtBit, AtAll

(* Every step of the bitset keeps the invariant.                           *)
LEMMA BitsetKeeps ==
  ASSUME BitsetInv, [BitsetNext]_bitsetVars
  PROVE  BitsetInv'
<1>1. CASE \E num \in 0..(Bits - 1) : SetBit(num)
  BY <1>1, SetKeeps
<1>2. CASE \E m \in Nat : AskAllFirst(m)
  BY <1>2, AskAllFirstKeeps
<1>3. CASE AskAll
  BY <1>3, AskAllKeeps
<1>4. CASE AllFirst
  BY <1>4, NextWordKeeps, LastWordKeeps, NextBitKeeps, EndOfBitsKeeps
  DEF AllFirst
<1>5. CASE NextOfAll \/ EndOfAll
  BY <1>5, NextOfAllKeeps, EndOfAllKeeps
<1>6. CASE UNCHANGED bitsetVars
  BY <1>6
  DEF bitsetVars, BitsetInv, BitsetTypeOK, NumberOfWords, Marked, First,
      AtWord, AtBit, Shift, AtAll, AllBelow, AnswersRight
<1> QED BY <1>1, <1>2, <1>3, <1>4, <1>5, <1>6 DEF BitsetNext

(* The invariant always holds.                                             *)
LEMMA BitsetInvariant == BitsetSpec => []BitsetInv
<1>1. BitsetInit => BitsetInv
  BY BitsetStart
<1>2. BitsetInv /\ [BitsetNext]_bitsetVars => BitsetInv'
  BY BitsetKeeps
<1> QED BY <1>1, <1>2, PTL DEF BitsetSpec

----------------------------------------------------------------------------
(* The members keep their types: set() finds the word of its bit, and a    *)
(* shifted word is a word.                                                 *)
THEOREM BitsetTypeCorrect == BitsetSpec => []BitsetTypeOK
<1>1. BitsetInv => BitsetTypeOK
  BY DEF BitsetInv
<1> QED BY <1>1, BitsetInvariant, PTL

(* What the comments at bitset.hpp:61 and 65 take from the loops: no query *)
(* reads a word behind the last one.                                       *)
THEOREM WordsAreInside == BitsetSpec => []InsideWords
<1>1. ASSUME BitsetInv PROVE InsideWords
  <2>1. CASE query = "words"
    <3>1. /\ Bits \in Nat \ {0} /\ NumberOfWords \in Nat \ {0}
          /\ First(index) \in Nat /\ remaining \in Nat /\ index \in Nat
      BY <1>1, TypesOfWords DEF BitsetInv, BitsetTypeOK
    <3>2. remaining + First(index) <= Bits /\ (remaining > 0 \/ index = 0)
      BY <1>1, <2>1 DEF BitsetInv, AtWord
    <3>3. remaining > 0 => First(index) < Bits
      BY <3>1, <3>2
    <3> QED BY <3>1, <3>2, <3>3, Words DEF InsideWords
  <2>2. CASE query # "words"
    BY <1>1, <2>2 DEF BitsetInv, AtAll, InsideWords
  <2> QED BY <2>1, <2>2
<1> QED BY <1>1, BitsetInvariant, PTL

(* all_first and all answer whether the first bits have all been set.      *)
THEOREM AnswersAreRight == BitsetSpec => []AnswersRight
<1>1. BitsetInv => AnswersRight
  BY DEF BitsetInv
<1> QED BY <1>1, BitsetInvariant, PTL

----------------------------------------------------------------------------
(* The specs of ranges and tuples (RangeSpecs).                            *)

(* A sequence of one.                                                      *)
Single(x) == [n \in 1..1 |-> x]

(* Flattening an empty sequence.                                           *)
LEMMA FlattenNone == FlattenSeq(<<>>) = <<>>
  BY DEF FlattenSeq

(* Flattening a sequence of one.                                           *)
LEMMA FlattenOne ==
  ASSUME NEW x
  PROVE  FlattenSeq(Single(x)) = x
<1> DEFINE u == Single(x)
           F(f) == [i \in 1..1 |-> IF i = 1 THEN u[i] ELSE f[i - 1] \o u[i]]
<1>1. Len(u) = 1 /\ u[1] = x
  BY DEF Single
<1> HIDE DEF u
<1>2. FlattenSeq(u) =
        LET flatten[i \in 1..1] ==
          IF i = 1 THEN u[i] ELSE flatten[i - 1] \o u[i]
        IN flatten[1]
  BY <1>1 DEF FlattenSeq
<1>3. u = F(u)
  BY DEF u, Single
<1>4. \A f : f = F(f) => f[1] = u[1]
  OBVIOUS
<1>5. (CHOOSE f : f = F(f))[1] = u[1]
  <2> HIDE DEF F
  <2> QED
    BY <1>3, <1>4
<1> QED
  BY <1>1, <1>2, <1>5 DEF u

(* Kinds of the elements.                                                  *)
Shallow == {"ints", "words", "pair", "nothing"}
Deep == {"rows", "map"}

(* The elements of each kind of range and tuple.                           *)
LEMMA ElementsOf ==
  /\ DOMAIN Elements = Shallow \cup Deep
  /\ Elements["ints"] = <<"int">> /\ Elements["words"] = <<"string">>
  /\ Elements["rows"] = <<"ints">> /\ Elements["map"] = <<"pair">>
  /\ Elements["pair"] = <<"int", "string">> /\ Elements["nothing"] = <<>>
  BY DEF Elements, Shallow, Deep

(* A kind is of a core type, of elements of core types, or of those.       *)
LEMMA CoreElements ==
  /\ \A kind \in Shallow : \A n \in DOMAIN Elements[kind] :
       IsCore(Elements[kind][n]) /\ Elements[kind][n] \in Kinds
  /\ \A kind \in Deep : \A n \in DOMAIN Elements[kind] :
       Elements[kind][n] \in Shallow
  /\ \A kind \in Kinds : IsCore(kind) \/ kind \in Shallow \cup Deep
  /\ \A kind \in Shallow \cup Deep : ~ IsCore(kind) /\ kind \in Kinds
<1>1. \A kind \in Kinds : IsCore(kind) \/ kind \in Shallow \cup Deep
  BY ElementsOf DEF IsCore
<1>2. \A kind \in Shallow \cup Deep : ~ IsCore(kind) /\ kind \in Kinds
  BY ElementsOf DEF IsCore, Kinds
<1>3. \A kind \in Deep : \A n \in DOMAIN Elements[kind] :
       Elements[kind][n] \in Shallow
  BY ElementsOf DEF Deep, Shallow
<1>4. IsCore("int") /\ IsCore("string")
      /\ "int" \in Kinds /\ "string" \in Kinds
  BY ElementsOf DEF IsCore, Shallow, Deep, Kinds
<1>5. \A kind \in Shallow : \A n \in DOMAIN Elements[kind] :
       Elements[kind][n] \in {"int", "string"}
  BY ElementsOf DEF Shallow
<1> QED
  BY <1>1, <1>2, <1>3, <1>4, <1>5

(* The functions that are defined by recursion over the kinds exist.  Two  *)
(* functions agree where each of the elements of a kind is concerned.      *)
UnspecifiedBy(f) ==
  [kind \in Kinds |->
    IF IsCore(kind)
      THEN Leaf(kind, [Closed(0) EXCEPT !.specs = Quoted(kind, @)])
    ELSE Composed(0, TRUE, TRUE,
           [n \in DOMAIN Elements[kind] |-> f[Elements[kind][n]]])]

(* Unspecified is what its recursion says.                                 *)
LEMMA UnspecifiedEquation == Unspecified = UnspecifiedBy(Unspecified)
<1> DEFINE A == UnspecifiedBy(<<>>)
           B == UnspecifiedBy(A)
           C == UnspecifiedBy(B)
<1>1. ASSUME NEW f, NEW g, NEW kind \in Kinds,
             IsCore(kind) \/ \A n \in DOMAIN Elements[kind] :
                               f[Elements[kind][n]] = g[Elements[kind][n]]
      PROVE  UnspecifiedBy(f)[kind] = UnspecifiedBy(g)[kind]
  BY <1>1 DEF UnspecifiedBy
<1> HIDE DEF A, B, C
<1>2. \A kind \in Kinds : IsCore(kind) =>
        A[kind] = B[kind] /\ B[kind] = C[kind]
  BY <1>1 DEF A, B, C
<1>3. \A kind \in Shallow : B[kind] = C[kind]
  BY <1>1, <1>2, CoreElements DEF B, C
<1>4. \A kind \in Kinds : UnspecifiedBy(C)[kind] = C[kind]
  BY <1>1, <1>2, <1>3, CoreElements DEF C
<1>5. C = UnspecifiedBy(C)
  BY <1>4 DEF C, UnspecifiedBy
<1>6. Unspecified = CHOOSE f : f = UnspecifiedBy(f)
  BY DEF Unspecified, UnspecifiedBy
<1> QED
  BY <1>5, <1>6

(* Two functions that agree on the elements of a kind.                     *)
SameElements(f, g, kind, s) ==
  \/ IsCore(kind)
  \/ \A n \in DOMAIN Elements[kind] : \A j \in Places(s) :
       f[Elements[kind][n]][j] = g[Elements[kind][n]][j]

(* What is read for a kind from i on, if parts are its elements.           *)
ValidateWith(s, kind, i, parts) ==
  IF IsCore(kind) THEN Leaf(kind, ValidateSpecs(kind, s, i))
  ELSE
    LET of == Elements[kind]
        c == PartEnd(s, {"n"})[i]
        whole[p \in Seq(ReadLeaves(s))] ==
          IF ~ AllSuit(p) THEN Failed(c)
          ELSE Composed(IF kind \in Ranges THEN p[1].at
                        ELSE BehindTuple(s, c + 1, p[1].at),
                        TRUE, c = i, p)
    IN IF Char(s, c) = Closing
         THEN Composed(c + 1, TRUE, c = i,
                       [n \in DOMAIN of |-> Unspecified[of[n]]])
       ELSE IF Char(s, c) # ":" THEN Failed(c)
       ELSE whole[parts]

(* The elements that the checking parser reads, one behind the other.      *)
PartsBy(s, f, kind, i) ==
  [n \in DOMAIN Elements[kind] |->
     f[Elements[kind][n]][PartEnd(s, {"n"})[i] + 1]]

(* One step of its recursion over the kinds.                               *)
ValidateBy(s, f) ==
  [kind \in Kinds |->
     [i \in Places(s) |-> ValidateWith(s, kind, i, PartsBy(s, f, kind, i))]]

(* The place behind the 'n' of a range.                                    *)
LEMMA BehindColon ==
  ASSUME NEW s, IsText(s), NEW i \in Places(s)
  PROVE  LET c == PartEnd(s, {"n"})[i] IN
         /\ c \in i..(i + 1) /\ c \in Places(s)
         /\ (c > i) <=> Char(s, i) = "n"
         /\ Char(s, c) # End => c \in 1..Len(s) /\ c + 1 \in Places(s)
<1> DEFINE c == PartEnd(s, {"n"})[i]
<1>1. c \in i..(i + 1) /\ c \in Places(s) /\ (c > i <=> Char(s, i) \in {"n"})
        /\ Len(s) \in Nat
  BY EndInNoPart, PartEnds, CharOfText DEF Places
<1> HIDE DEF c
<1>2. Char(s, c) # End => c \in 1..Len(s) /\ c + 1 \in Places(s)
  BY <1>1, CharOfText DEF Places
<1> QED
  BY <1>1, <1>2 DEF c

(* A step depends on what is read of the elements only.                    *)
LEMMA ValidateSame ==
  ASSUME NEW s, IsText(s), NEW f, NEW g, NEW kind \in Kinds,
         SameElements(f, g, kind, s)
  PROVE  ValidateBy(s, f)[kind] = ValidateBy(s, g)[kind]
<1> SUFFICES ASSUME NEW i \in Places(s)
             PROVE  ValidateWith(s, kind, i, PartsBy(s, f, kind, i))
                      = ValidateWith(s, kind, i, PartsBy(s, g, kind, i))
  BY DEF ValidateBy
<1> DEFINE c == PartEnd(s, {"n"})[i]
           P == PartsBy(s, f, kind, i)
           Q == PartsBy(s, g, kind, i)
<1>1. CASE IsCore(kind) \/ Char(s, c) # ":"
  BY <1>1 DEF ValidateWith
<1>2. CASE ~ IsCore(kind) /\ Char(s, c) = ":"
  <2>1. c + 1 \in Places(s)
    BY <1>2, BehindColon, EndInNoPart
  <2>2. P = Q
    BY <1>2, <2>1 DEF SameElements, PartsBy
  <2> QED
    BY <2>2
<1> QED
  BY <1>1, <1>2

(* ValidateAny is what its recursion says.                                 *)
LEMMA ValidateAnyEquation ==
  ASSUME NEW s, IsText(s)
  PROVE  ValidateAny(s) = ValidateBy(s, ValidateAny(s))
<1> DEFINE A == ValidateBy(s, <<>>)
           B == ValidateBy(s, A)
           C == ValidateBy(s, B)
           D == ValidateBy(s, C)
<1>1. ASSUME NEW kind \in Kinds, IsCore(kind)
      PROVE  A[kind] = B[kind] /\ B[kind] = C[kind]
  BY <1>1, ValidateSame DEF SameElements
<1> HIDE DEF A, B, C, D
<1>2. ASSUME NEW kind \in Shallow PROVE B[kind] = C[kind]
  <2>1. SameElements(A, B, kind, s)
    BY <1>1, CoreElements DEF SameElements
  <2>2. kind \in Kinds
    BY CoreElements
  <2> QED
    BY <2>1, <2>2, ValidateSame DEF B, C
<1>3. ASSUME NEW kind \in Kinds PROVE C[kind] = D[kind]
  <2>1. SameElements(B, C, kind, s)
    BY <1>1, <1>2, CoreElements DEF SameElements
  <2> QED
    BY <2>1, ValidateSame DEF C, D
<1>4. C = D
  BY <1>3 DEF C, D, ValidateBy
<1>5. C = ValidateBy(s, C)
  BY <1>4 DEF D
<1>6. ValidateAny(s) = CHOOSE f : f = ValidateBy(s, f)
  BY DEF ValidateAny, ValidateBy, ValidateWith, PartsBy, Places
<1> QED
  BY <1>5, <1>6

(* The same for the unchecked parser.                                      *)
ParseWith(s, kind, i, parts) ==
  IF IsCore(kind) THEN ParseCore(kind, s, i, FALSE)
  ELSE
    LET of == Elements[kind]
        c == PartEnd(s, {"n"})[i]
        closed == Char(s, c) = Closing
        from == IF closed THEN c ELSE c + 1
        whole[p \in Seq(ReadLeaves(s))] ==
          Composed(IF of = <<>> THEN c + 1
                   ELSE IF kind \in Ranges THEN p[1].at
                   ELSE BehindTuple(s, from, p[Len(p)].at),
                   \A n \in DOMAIN p : p[n].ok, c = i, p)
    IN IF Char(s, c) = End \/ (of = <<>> /\ ~ closed) THEN Failed(c)
       ELSE whole[parts]

(* The elements that the unchecked parser reads.                           *)
ElementsBy(s, f, kind, i) ==
  LET of == Elements[kind]
      c == PartEnd(s, {"n"})[i]
      closed == Char(s, c) = Closing
      from == IF closed THEN c ELSE c + 1
  IN [n \in DOMAIN of |->
        IF closed /\ IsCore(of[n]) THEN ParseCore(of[n], s, from, TRUE)
        ELSE f[of[n]][from]]

(* One step of its recursion over the kinds.                               *)
ParseBy(s, f) ==
  [kind \in Kinds |->
     [i \in Places(s) |-> ParseWith(s, kind, i, ElementsBy(s, f, kind, i))]]

(* A step depends on what is read of the elements only.                    *)
LEMMA ParseSame ==
  ASSUME NEW s, IsText(s), NEW f, NEW g, NEW kind \in Kinds,
         SameElements(f, g, kind, s)
  PROVE  ParseBy(s, f)[kind] = ParseBy(s, g)[kind]
<1> SUFFICES ASSUME NEW i \in Places(s)
             PROVE  ParseWith(s, kind, i, ElementsBy(s, f, kind, i))
                      = ParseWith(s, kind, i, ElementsBy(s, g, kind, i))
  BY DEF ParseBy
<1> DEFINE c == PartEnd(s, {"n"})[i]
           P == ElementsBy(s, f, kind, i)
           Q == ElementsBy(s, g, kind, i)
<1>1. CASE IsCore(kind) \/ Char(s, c) = End
  BY <1>1 DEF ParseWith
<1>2. CASE ~ IsCore(kind) /\ Char(s, c) # End
  <2>1. c \in Places(s) /\ c + 1 \in Places(s)
    BY <1>2, BehindColon
  <2>2. P = Q
    BY <1>2, <2>1 DEF SameElements, ElementsBy
  <2> QED
    BY <2>2
<1> QED
  BY <1>1, <1>2

(* ParseAny is what its recursion says.                                    *)
LEMMA ParseAnyEquation ==
  ASSUME NEW s, IsText(s)
  PROVE  ParseAny(s) = ParseBy(s, ParseAny(s))
<1> DEFINE A == ParseBy(s, <<>>)
           B == ParseBy(s, A)
           C == ParseBy(s, B)
           D == ParseBy(s, C)
<1>1. ASSUME NEW kind \in Kinds, IsCore(kind)
      PROVE  A[kind] = B[kind] /\ B[kind] = C[kind]
  BY <1>1, ParseSame DEF SameElements
<1> HIDE DEF A, B, C, D
<1>2. ASSUME NEW kind \in Shallow PROVE B[kind] = C[kind]
  <2>1. SameElements(A, B, kind, s)
    BY <1>1, CoreElements DEF SameElements
  <2>2. kind \in Kinds
    BY CoreElements
  <2> QED
    BY <2>1, <2>2, ParseSame DEF B, C
<1>3. ASSUME NEW kind \in Kinds PROVE C[kind] = D[kind]
  <2>1. SameElements(B, C, kind, s)
    BY <1>1, <1>2, CoreElements DEF SameElements
  <2> QED
    BY <2>1, ParseSame DEF C, D
<1>4. C = D
  BY <1>3 DEF C, D, ParseBy
<1>5. C = ParseBy(s, C)
  BY <1>4 DEF D
<1>6. ParseAny(s) = CHOOSE f : f = ParseBy(s, f)
  BY DEF ParseAny, ParseBy, ParseWith, ElementsBy, Places
<1> QED
  BY <1>5, <1>6

(* What is read of a range with elements of one kind.                      *)
LEMMA LeafRead ==
  ASSUME NEW s, NEW kind \in Kinds, NEW k \in SpecsRead(s)
  PROVE  /\ Leaf(kind, k) \in ReadLeaves(s)
         /\ Leaf(kind, k).at = k.at /\ Leaf(kind, k).ok = k.ok
         /\ Leaf(kind, k).specs =
              [brackets |-> <<>>,
                leaves |-> <<[kind |-> kind, specs |-> k.specs]>>]
<1> DEFINE L == [kind |-> kind, specs |-> k.specs]
<1>1. L \in [kind : Kinds, specs : AnySpecs(s)]
  BY DEF SpecsRead
<1> HIDE DEF L
<1>2. <<L>> \in Seq([kind : Kinds, specs : AnySpecs(s)])
      /\ <<>> \in Seq(BOOLEAN)
  BY <1>1
<1> DEFINE R == [brackets |-> <<>>, leaves |-> <<L>>]
<1>3. Leaf(kind, k) = [k EXCEPT !.specs = R]
  BY DEF Leaf, L
<1>4. R \in [brackets : Seq(BOOLEAN),
            leaves : Seq([kind : Kinds, specs : AnySpecs(s)])]
  BY <1>2
<1> HIDE DEF R
<1>5. /\ Leaf(kind, k) \in ReadLeaves(s)
      /\ Leaf(kind, k).at = k.at /\ Leaf(kind, k).ok = k.ok
      /\ Leaf(kind, k).specs = R
  BY <1>3, <1>4 DEF SpecsRead, ReadLeaves
<1> QED
  BY <1>5 DEF R, L

(* k is what is composed of x only.                                        *)
ComposedAs(s, k, j, ok, opened, x) ==
  /\ k \in ReadLeaves(s) /\ k.at = j /\ k.ok = ok
  /\ k.specs = [brackets |-> <<opened>> \o x.specs.brackets,
                leaves |-> x.specs.leaves]

(* k is what is composed of nothing.                                       *)
ComposedAlone(s, k, j, ok, opened) ==
  /\ k \in ReadLeaves(s) /\ k.at = j /\ k.ok = ok
  /\ k.specs = [brackets |-> <<opened>>, leaves |-> <<>>]

(* A range is composed of its one element.                                 *)
LEMMA ComposedRead ==
  ASSUME NEW s, NEW x, x \in ReadLeaves(s), NEW j, j \in Nat,
         NEW ok, ok \in BOOLEAN, NEW opened, opened \in BOOLEAN
  PROVE  ComposedAs(s, Composed(j, ok, opened, Single(x)), j, ok, opened, x)
<1> DEFINE P == Single(x)
<1>1. DOMAIN P = 1..1 /\ P[1] = x
  BY DEF Single
<1> HIDE DEF P
<1>2. /\ [n \in DOMAIN P |-> P[n].specs.brackets] = Single(x.specs.brackets)
      /\ [n \in DOMAIN P |-> P[n].specs.leaves] = Single(x.specs.leaves)
  BY <1>1 DEF Single
<1> DEFINE k == Composed(j, ok, opened, P)
           b == <<opened>> \o x.specs.brackets
           l == x.specs.leaves
<1>3. k = [at |-> j, ok |-> ok, specs |-> [brackets |-> b, leaves |-> l]]
  BY <1>2, FlattenOne DEF Composed
<1>4. b \in Seq(BOOLEAN) /\ l \in Seq([kind : Kinds, specs : AnySpecs(s)])
  BY DEF ReadLeaves
<1> HIDE DEF b, l
<1>5. k \in ReadLeaves(s) /\ k.at = j /\ k.ok = ok
        /\ k.specs = [brackets |-> b, leaves |-> l]
  BY <1>3, <1>4 DEF ReadLeaves
<1> QED
  BY <1>5 DEF P, b, l, ComposedAs

(* An empty tuple is composed of nothing.                                  *)
LEMMA ComposedNone ==
  ASSUME NEW s, NEW j, j \in Nat, NEW ok, ok \in BOOLEAN,
         NEW opened, opened \in BOOLEAN
  PROVE  ComposedAlone(s, Composed(j, ok, opened, <<>>), j, ok, opened)
<1> DEFINE P == <<>>
<1>1. DOMAIN P = {}
  OBVIOUS
<1>2. /\ [n \in DOMAIN P |-> P[n].specs.brackets] = <<>>
      /\ [n \in DOMAIN P |-> P[n].specs.leaves] = <<>>
  BY <1>1
<1> DEFINE k == Composed(j, ok, opened, P)
           b == <<opened>>
<1> HIDE DEF P
<1>3. k = [at |-> j, ok |-> ok,
            specs |-> [brackets |-> b \o <<>>, leaves |-> <<>>]]
  BY <1>2, FlattenNone DEF Composed
<1>4. b \in Seq(BOOLEAN) /\ b \o <<>> = b
  OBVIOUS
<1> HIDE DEF b
<1>5. <<>> \in Seq([kind : Kinds, specs : AnySpecs(s)])
  OBVIOUS
<1>6. k \in ReadLeaves(s) /\ k.at = j /\ k.ok = ok
        /\ k.specs = [brackets |-> b, leaves |-> <<>>]
  BY <1>3, <1>4, <1>5 DEF ReadLeaves
<1> QED
  BY <1>6 DEF P, b, ComposedAlone

(* A parser that has failed has read no specs.                             *)
LEMMA FailedRead ==
  ASSUME NEW s, NEW i \in Nat
  PROVE  Failed(i) \in ReadLeaves(s) /\ ~ Failed(i).ok
  BY ComposedNone DEF Failed, ComposedAlone

(* The specs of core types.                                                *)
DebugIf(kind, k, debug) ==
  [k EXCEPT !.specs = IF debug THEN Quoted(kind, @) ELSE @]

(* Turning the debug format on changes the specs only.                     *)
LEMMA QuotedRead ==
  ASSUME NEW s, NEW kind, NEW k \in SpecsRead(s), NEW debug \in BOOLEAN
  PROVE  LET q == DebugIf(kind, k, debug) IN
         /\ q \in SpecsRead(s) /\ q.at = k.at /\ q.ok = k.ok
         /\ q.specs = IF debug THEN Quoted(kind, k.specs) ELSE k.specs
         /\ ~ debug => q = k
<1> DEFINE v == IF debug THEN Quoted(kind, k.specs) ELSE k.specs
<1>1. "?" \in Shown(s)
  BY DEF Shown
<1>2. k.specs \in AnySpecs(s)
  BY DEF SpecsRead
<1>3. [k.specs EXCEPT !.type = "?"] \in AnySpecs(s)
  BY <1>1, <1>2 DEF AnySpecs
<1>4. v \in AnySpecs(s)
  BY <1>2, <1>3 DEF Quoted
<1> HIDE DEF v
<1>5. /\ [k EXCEPT !.specs = v] \in SpecsRead(s)
      /\ [k EXCEPT !.specs = v].at = k.at /\ [k EXCEPT !.specs = v].ok = k.ok
      /\ [k EXCEPT !.specs = v].specs = v
      /\ v = k.specs => [k EXCEPT !.specs = v] = k
  BY <1>4 DEF SpecsRead
<1>6. DebugIf(kind, k, debug) = [k EXCEPT !.specs = v]
  BY DEF DebugIf, v
<1> QED
  BY <1>5, <1>6 DEF v

(* What the checking parser reads for a kind from a place on.              *)
LEMMA ValidateAt ==
  ASSUME NEW s, IsText(s), NEW kind \in Kinds, NEW i \in Places(s)
  PROVE  ValidateAny(s)[kind][i] =
           ValidateWith(s, kind, i, PartsBy(s, ValidateAny(s), kind, i))
<1> DEFINE f == ValidateAny(s)
<1>1. f = ValidateBy(s, f)
  BY ValidateAnyEquation
<1> HIDE DEF f
<1>2. ValidateBy(s, f)[kind][i] =
        ValidateWith(s, kind, i, PartsBy(s, f, kind, i))
  BY DEF ValidateBy
<1>3. f[kind][i] = ValidateWith(s, kind, i, PartsBy(s, f, kind, i))
  BY <1>1, <1>2, Zenon
<1> QED
  BY <1>3 DEF f

(* What the unchecked parser reads for a kind from a place on.             *)
LEMMA ParseAt ==
  ASSUME NEW s, IsText(s), NEW kind \in Kinds, NEW i \in Places(s)
  PROVE  ParseAny(s)[kind][i] =
           ParseWith(s, kind, i, ElementsBy(s, ParseAny(s), kind, i))
<1> DEFINE f == ParseAny(s)
<1>1. f = ParseBy(s, f)
  BY ParseAnyEquation
<1> HIDE DEF f
<1>2. ParseBy(s, f)[kind][i] = ParseWith(s, kind, i, ElementsBy(s, f, kind, i))
  BY DEF ParseBy
<1>3. f[kind][i] = ParseWith(s, kind, i, ElementsBy(s, f, kind, i))
  BY <1>1, <1>2, Zenon
<1> QED
  BY <1>3 DEF f

(* The specs of a kind whose range has none.                               *)
Debugged(s, kind, i) ==
  IF IsCore(kind) THEN ParseCore(kind, s, i, TRUE) ELSE ParseAny(s)[kind][i]

(* Both parsers read a kind of argument in the same way, with specs and    *)
(* without.                                                                *)
SameFrom(s, kind, i) ==
  /\ ValidateAny(s)[kind][i] \in ReadLeaves(s)
  /\ ParseAny(s)[kind][i] \in ReadLeaves(s)
  /\ SameRead(s, i, ValidateAny(s)[kind][i], ParseAny(s)[kind][i])
  /\ Debugged(s, kind, i) \in ReadLeaves(s)
  /\ Char(s, i) = Closing =>
       LET d == Debugged(s, kind, i) IN
       d.ok /\ d.at = i + 1 /\ d.specs = Unspecified[kind].specs

(* Both parsers read the kind alike from any place on, and both leave it   *)
(* unspecified alike.                                                      *)
Agrees(s, kind) ==
  /\ Unspecified[kind] \in ReadLeaves(s)
  /\ \A i \in Places(s) : SameFrom(s, kind, i)

(* The core types are read alike.                                          *)
LEMMA CoreKind ==
  ASSUME NEW s, IsText(s), NEW kind \in Kinds, IsCore(kind)
  PROVE  Agrees(s, kind)
<1> DEFINE u == DebugIf(kind, Closed(0), TRUE)
<1>0. Closed(0) \in SpecsRead(s)
  BY ClosedRead
<1>1. u \in SpecsRead(s) /\ u.specs = Quoted(kind, Closed(0).specs)
  BY <1>0, QuotedRead
<1>2. Unspecified[kind] = Leaf(kind, u)
  BY UnspecifiedEquation DEF UnspecifiedBy, DebugIf
<1>3. Unspecified[kind] \in ReadLeaves(s)
  BY <1>1, <1>2, LeafRead
<1>4. ASSUME NEW i \in Places(s) PROVE SameFrom(s, kind, i)
  <2> DEFINE v == ValidateSpecs(kind, s, i)
             p == ParseSpecs(s, i)
             q == DebugIf(kind, p, TRUE)
  <2>1. v \in SpecsRead(s) /\ p \in SpecsRead(s)
    BY ValidateRead, ParseRead
  <2>2. ValidateAny(s)[kind][i] = Leaf(kind, v)
    <3>1. \A x : ValidateWith(s, kind, i, x) = Leaf(kind, v)
      BY DEF ValidateWith
    <3> HIDE DEF v
    <3> QED
      BY <3>1, ValidateAt
  <2>3. ParseAny(s)[kind][i] = ParseCore(kind, s, i, FALSE)
    <3>1. \A x : ParseWith(s, kind, i, x) = ParseCore(kind, s, i, FALSE)
      BY DEF ParseWith
    <3> QED
      BY <3>1, ParseAt
  <2>4. /\ ParseCore(kind, s, i, FALSE) = Leaf(kind, DebugIf(kind, p, FALSE))
        /\ ParseCore(kind, s, i, TRUE) = Leaf(kind, q)
    BY DEF ParseCore, DebugIf
  <2>5. /\ DebugIf(kind, p, FALSE) = p
        /\ q \in SpecsRead(s) /\ q.at = p.at /\ q.ok = p.ok
        /\ q.specs = Quoted(kind, p.specs)
    BY <2>1, QuotedRead
  <2>6. SameRead(s, i, v, p)
    BY CoreAgrees
  <2>7. Char(s, i) = Closing => q.ok /\ q.at = i + 1
                                  /\ q.specs = u.specs
    <3>1. SUFFICES ASSUME Char(s, i) = Closing
                   PROVE  q.ok /\ q.at = i + 1
                            /\ q.specs = u.specs
      OBVIOUS
    <3>2. p = Closed(i)
      BY <3>1 DEF ParseSpecs
    <3>3. Closed(i).ok /\ Closed(i).at = i + 1
          /\ Closed(i).specs = Closed(0).specs
      BY DEF Closed
    <3> QED
      BY <1>1, <2>5, <3>2, <3>3
  <2> HIDE DEF v, p, q, u
  <2>8. ParseAny(s)[kind][i] = Leaf(kind, p)
    BY <2>3, <2>4, <2>5
  <2>9. Debugged(s, kind, i) = Leaf(kind, q)
    BY <2>4 DEF Debugged
  <2>10. SameRead(s, i, Leaf(kind, v), Leaf(kind, p))
    <3> DEFINE R(specs) == [brackets |-> <<>>,
                            leaves |-> <<[kind |-> kind, specs |-> specs]>>]
    <3>1. /\ Leaf(kind, v).specs = R(v.specs)
          /\ Leaf(kind, p).specs = R(p.specs)
          /\ Leaf(kind, v).at = v.at /\ Leaf(kind, p).at = p.at
          /\ Leaf(kind, v).ok = v.ok /\ Leaf(kind, p).ok = p.ok
      BY <2>1, LeafRead
    <3> HIDE DEF R
    <3> QED
      BY <2>6, <3>1 DEF SameRead
  <2>11. Leaf(kind, v) \in ReadLeaves(s) /\ Leaf(kind, p) \in ReadLeaves(s)
           /\ Leaf(kind, q) \in ReadLeaves(s)
    BY <2>1, <2>5, LeafRead
  <2>12. Char(s, i) = Closing =>
           /\ Leaf(kind, q).ok /\ Leaf(kind, q).at = i + 1
           /\ Leaf(kind, q).specs = Unspecified[kind].specs
    <3>1. Char(s, i) = Closing => Leaf(kind, q).specs = Leaf(kind, u).specs
      BY <1>1, <2>5, <2>7, LeafRead
    <3> QED
      BY <1>2, <2>5, <2>7, <3>1, LeafRead
  <2> QED
    BY <2>2, <2>8, <2>9, <2>10, <2>11, <2>12 DEF SameFrom
<1> QED
  BY <1>3, <1>4 DEF Agrees

(* Ranges of elements that are read in the same way.                       *)
OneKind == {"ints", "words", "rows"}

(* A range has one kind of element.                                        *)
LEMMA OneElement ==
  ASSUME NEW kind \in OneKind
  PROVE  /\ kind \in Kinds /\ ~ IsCore(kind) /\ kind \in Ranges
         /\ DOMAIN Elements[kind] = 1..1 /\ Elements[kind] # <<>>
         /\ Elements[kind][1] \in Kinds
<1>1. kind \in Shallow \cup Deep
  BY DEF OneKind, Shallow, Deep
<1>2. kind \in Kinds /\ ~ IsCore(kind)
  BY <1>1, CoreElements
<1>3. kind \in Ranges /\ "int" \in Kinds /\ "string" \in Kinds
        /\ "ints" \in Kinds
  BY ElementsOf DEF OneKind, Ranges, Kinds, Shallow, Deep
<1>4. Elements[kind] \in {<<"int">>, <<"string">>, <<"ints">>}
  BY ElementsOf DEF OneKind
<1> QED
  BY <1>2, <1>3, <1>4

(* A sequence of one is a sequence.                                        *)
LEMMA SingleIsSeq ==
  ASSUME NEW S, NEW x \in S
  PROVE  /\ Single(x) \in Seq(S) /\ Single(x) # <<>> /\ Single(x)[1] = x
         /\ Len(Single(x)) = 1 /\ DOMAIN Single(x) = 1..1
  BY DEF Single

(* A range has brackets unless they are turned off.                        *)
Bracketed(s, i) == PartEnd(s, {"n"})[i] = i

(* What the checking parser makes of a range.                              *)
ValidatedRange(s, kind, i) ==
  LET e == Elements[kind][1]
      c == PartEnd(s, {"n"})[i]
      x == ValidateAny(s)[e][c + 1]
      v == ValidateAny(s)[kind][i] IN
  /\ Char(s, c) = Closing =>
       v = Composed(c + 1, TRUE, Bracketed(s, i), Single(Unspecified[e]))
  /\ Char(s, c) # Closing /\ (Char(s, c) # ":" \/ ~ x.ok) => v = Failed(c)
  /\ Char(s, c) # Closing /\ Char(s, c) = ":" /\ x.ok =>
       v = Composed(x.at, TRUE, Bracketed(s, i), Single(x))

(* What the unchecked parser makes of it.                                  *)
ParsedRange(s, kind, i) ==
  LET e == Elements[kind][1]
      c == PartEnd(s, {"n"})[i]
      x == IF Char(s, c) = Closing THEN Debugged(s, e, c)
           ELSE ParseAny(s)[e][c + 1] IN
  ParseAny(s)[kind][i] =
    IF Char(s, c) = End THEN Failed(c)
    ELSE Composed(x.at, x.ok, Bracketed(s, i), Single(x))

(* The checking parser does so.                                            *)
LEMMA ValidateRange ==
  ASSUME NEW s, IsText(s), NEW kind \in OneKind, NEW i \in Places(s),
         Agrees(s, Elements[kind][1])
  PROVE  ValidatedRange(s, kind, i)
<1> DEFINE e == Elements[kind][1]
           c == PartEnd(s, {"n"})[i]
           x == ValidateAny(s)[e][c + 1]
           parts == PartsBy(s, ValidateAny(s), kind, i)
<1>1. parts = Single(x)
  BY OneElement DEF PartsBy, Single
<1>2. [n \in DOMAIN Elements[kind] |-> Unspecified[Elements[kind][n]]]
        = Single(Unspecified[e])
  BY OneElement DEF Single
<1>3. ValidateAny(s)[kind][i] = ValidateWith(s, kind, i, parts)
  BY ValidateAt, OneElement
<1> HIDE DEF parts, x, c, e
<1>4. CASE Char(s, c) # ":"
  BY <1>2, <1>3, <1>4, OneElement
     DEF ValidateWith, c, e, x, ValidatedRange, Bracketed
<1>5. CASE Char(s, c) = ":"
  <2>1. c + 1 \in Places(s) /\ Char(s, c) # Closing
    BY <1>5, BehindColon, EndInNoPart DEF c, Closing
  <2>2. x \in ReadLeaves(s)
    BY <2>1 DEF Agrees, SameFrom, e, x
  <2>3. /\ parts \in Seq(ReadLeaves(s)) /\ parts # <<>> /\ parts[1] = x
        /\ DOMAIN parts = 1..1
    BY <1>1, <2>2, SingleIsSeq
  <2>4. AllSuit(parts) <=> x.ok
    BY <2>3 DEF AllSuit
  <2>5. ValidateWith(s, kind, i, parts) =
          IF ~ AllSuit(parts) THEN Failed(c)
          ELSE Composed(parts[1].at, TRUE, c = i, parts)
    BY <1>5, <2>1, <2>3, OneElement DEF ValidateWith, c
  <2> QED
    BY <1>1, <1>3, <1>5, <2>1, <2>3, <2>4, <2>5
       DEF e, c, x, ValidatedRange, Bracketed
<1> QED
  BY <1>4, <1>5

(* The unchecked parser does so.                                           *)
LEMMA ParseRange ==
  ASSUME NEW s, IsText(s), NEW kind \in OneKind, NEW i \in Places(s),
         Agrees(s, Elements[kind][1])
  PROVE  ParsedRange(s, kind, i)
<1> DEFINE e == Elements[kind][1]
           c == PartEnd(s, {"n"})[i]
           x == IF Char(s, c) = Closing THEN Debugged(s, e, c)
                ELSE ParseAny(s)[e][c + 1]
           parts == ElementsBy(s, ParseAny(s), kind, i)
<1>1. parts = Single(x)
  <2>1. parts = [n \in 1..1 |->
           IF Char(s, c) = Closing /\ IsCore(Elements[kind][n])
             THEN ParseCore(Elements[kind][n], s, c, TRUE)
           ELSE ParseAny(s)[Elements[kind][n]]
                              [IF Char(s, c) = Closing THEN c ELSE c + 1]]
    BY OneElement DEF ElementsBy
  <2>2. \A n \in 1..1 : Elements[kind][n] = e
    OBVIOUS
  <2> HIDE DEF c, e
  <2> QED
    BY <2>1, <2>2 DEF Single, Debugged
<1>3. ParseAny(s)[kind][i] = ParseWith(s, kind, i, parts)
  BY ParseAt, OneElement
<1> HIDE DEF parts, x, c, e
<1>4. CASE Char(s, c) = End
  BY <1>3, <1>4, OneElement DEF ParseWith, c, ParsedRange
<1>5. CASE Char(s, c) # End
  <2>1. c \in Places(s) /\ c + 1 \in Places(s)
    BY <1>5, BehindColon DEF c
  <2>2. x \in ReadLeaves(s)
    BY <2>1 DEF Agrees, SameFrom, e, x
  <2>3. /\ parts \in Seq(ReadLeaves(s)) /\ parts # <<>> /\ parts[1] = x
        /\ DOMAIN parts = 1..1
    BY <1>1, <2>2, SingleIsSeq
  <2>4. (\A n \in DOMAIN parts : parts[n].ok) = x.ok
    <3>1. x.ok \in BOOLEAN
      BY <2>2 DEF ReadLeaves
    <3>2. (\A n \in DOMAIN parts : parts[n].ok) <=> x.ok
      BY <2>3
    <3> QED
      BY <3>1, <3>2
  <2>5. ParseWith(s, kind, i, parts) =
          Composed(parts[1].at, \A n \in DOMAIN parts : parts[n].ok,
                    c = i, parts)
    BY <1>5, <2>3, OneElement DEF ParseWith, c
  <2> QED
    BY <1>1, <1>3, <1>5, <2>3, <2>4, <2>5
       DEF e, c, x, ParsedRange, Bracketed
<1> QED
  BY <1>4, <1>5

(* A range of elements that are read alike is read alike.                  *)
LEMMA RangeKind ==
  ASSUME NEW s, IsText(s), NEW kind \in OneKind, Agrees(s, Elements[kind][1])
  PROVE  Agrees(s, kind)
<1> DEFINE e == Elements[kind][1]
           u == Unspecified[e]
<1>1. u \in ReadLeaves(s)
  BY DEF Agrees
<1>2. Unspecified[kind] = Composed(0, TRUE, TRUE, Single(u))
  <2>1. Unspecified[kind] = UnspecifiedBy(Unspecified)[kind]
    BY UnspecifiedEquation, Zenon
  <2>2. [n \in DOMAIN Elements[kind] |-> Unspecified[Elements[kind][n]]]
          = Single(u)
    BY OneElement DEF Single
  <2> HIDE DEF u
  <2>3. UnspecifiedBy(Unspecified)[kind] = Composed(0, TRUE, TRUE, Single(u))
    BY <2>2, OneElement DEF UnspecifiedBy
  <2> QED
    BY <2>1, <2>3
<1>3. ComposedAs(s, Unspecified[kind], 0, TRUE, TRUE, u)
  <2> HIDE DEF u
  <2> QED
    BY <1>1, <1>2, ComposedRead
<1>4. ASSUME NEW i \in Places(s) PROVE SameFrom(s, kind, i)
  <2> DEFINE c == PartEnd(s, {"n"})[i]
             v == ValidateAny(s)[kind][i]
             p == ParseAny(s)[kind][i]
             ve == ValidateAny(s)[e][c + 1]
             pe == ParseAny(s)[e][c + 1]
             de == Debugged(s, e, c)
             opened == Bracketed(s, i)
             next == c + 1
  <2>1. /\ c \in i..(i + 1) /\ c \in Places(s) /\ (c > i <=> Char(s, i) = "n")
        /\ (Char(s, c) # End => c \in 1..Len(s) /\ c + 1 \in Places(s))
        /\ Len(s) \in Nat /\ i \in Int /\ c \in Nat /\ next \in Nat
    BY BehindColon, CharOfText DEF Places
  <2>2. opened \in BOOLEAN /\ (opened <=> c = i)
    BY DEF Bracketed
  <2>3. Debugged(s, kind, i) = p
    BY OneElement DEF Debugged
  <2>4. Closing # ":" /\ Closing # End /\ ":" # End /\ Closing # "n"
    BY EndInNoPart, Zenon DEF Closing
  <2> HIDE DEF opened
  <2>7. ValidatedRange(s, kind, i)
    BY ValidateRange
  <2>8. ParsedRange(s, kind, i)
    BY ParseRange
  <2>5. CASE Char(s, c) = Closing
    <3>1. v = Composed(next, TRUE, opened, Single(u))
      BY <2>5, <2>7 DEF ValidatedRange, opened
    <3>2. p = Composed(de.at, de.ok, opened, Single(de))
      BY <2>4, <2>5, <2>8 DEF ParsedRange, opened
    <3>3. de \in ReadLeaves(s) /\ de.ok = TRUE /\ de.at = next
          /\ de.specs = u.specs
      BY <2>1, <2>5 DEF Agrees, SameFrom, ReadLeaves
    <3> HIDE DEF v, p, u, de, opened, e, c
    <3>7. next \in (i + 1)..(Len(s) + 1) /\ (c = i => next = i + 1)
      BY <2>1, <2>4, <2>5
    <3> HIDE DEF next
    <3>4. ComposedAs(s, v, next, TRUE, opened, u)
      BY <1>1, <2>1, <2>2, <3>1, ComposedRead
    <3>6. ComposedAs(s, p, next, TRUE, opened, de)
      BY <2>1, <2>2, <3>2, <3>3, ComposedRead
    <3>8. SameRead(s, i, v, p)
      BY <3>3, <3>4, <3>6, <3>7 DEF SameRead, ComposedAs
    <3>9. Char(s, i) = Closing => c = i /\ (opened = TRUE)
      BY <2>1, <2>2, <2>4
    <3>10. Char(s, i) = Closing =>
             p.ok /\ p.at = i + 1 /\ p.specs = Unspecified[kind].specs
      BY <1>3, <3>3, <3>6, <3>7, <3>9 DEF ComposedAs
    <3>11. v \in ReadLeaves(s) /\ p \in ReadLeaves(s)
      BY <3>4, <3>6 DEF ComposedAs
    <3> QED
      BY <2>3, <3>8, <3>10, <3>11 DEF SameFrom, v, p
  <2>6. CASE Char(s, c) # Closing
    <3>0. /\ Char(s, c) # ":" \/ ~ ve.ok => v = Failed(c)
          /\ Char(s, c) = ":" /\ ve.ok =>
               v = Composed(ve.at, TRUE, opened, Single(ve))
      BY <2>6, <2>7 DEF ValidatedRange, opened
    <3>1. v = IF Char(s, c) # ":" \/ ~ ve.ok THEN Failed(c)
              ELSE Composed(ve.at, TRUE, opened, Single(ve))
      BY <3>0
    <3>2. p = IF Char(s, c) = End THEN Failed(c)
              ELSE Composed(pe.at, pe.ok, opened, Single(pe))
      BY <2>6, <2>8 DEF ParsedRange, opened
    <3>3. Char(s, c) # End =>
            ve \in ReadLeaves(s) /\ pe \in ReadLeaves(s)
             /\ SameRead(s, c + 1, ve, pe)
      BY <2>1 DEF Agrees, SameFrom
    <3>4. Failed(c) \in ReadLeaves(s) /\ ~ Failed(c).ok
      BY <2>1, FailedRead
    <3> HIDE DEF v, p, ve, pe, opened, e, c
    <3>5. Char(s, c) # End =>
            pe.ok \in BOOLEAN /\ pe.at \in Nat /\ ve.at \in Nat
      BY <3>3 DEF ReadLeaves
    <3>6. Char(s, c) # End => ComposedAs(s, p, pe.at, pe.ok, opened, pe)
      BY <2>2, <3>2, <3>3, <3>5, ComposedRead
    <3>7. Char(s, c) = ":" /\ ve.ok =>
            ComposedAs(s, v, ve.at, TRUE, opened, ve)
      BY <2>2, <2>4, <3>1, <3>3, <3>5, ComposedRead
    <3>8. v \in ReadLeaves(s) /\ p \in ReadLeaves(s)
      BY <3>1, <3>2, <3>4, <3>6, <3>7 DEF ComposedAs
    <3>9. ASSUME v.ok
          PROVE  p.ok /\ p.at = v.at /\ p.specs = v.specs
                   /\ v.at \in (i + 1)..(Len(s) + 1)
      <4>1. Char(s, c) = ":" /\ Char(s, c) # End /\ ve.ok
        BY <2>4, <3>1, <3>4, <3>9
      <4>2. pe.ok /\ pe.at = ve.at /\ pe.specs = ve.specs
              /\ ve.at \in ((c + 1) + 1)..(Len(s) + 1)
        BY <3>3, <4>1 DEF SameRead
      <4>3. ve.at \in (i + 1)..(Len(s) + 1)
        BY <2>1, <4>2
      <4> QED
        BY <3>6, <3>7, <4>1, <4>2, <4>3 DEF ComposedAs
    <3>10. SameRead(s, i, v, p)
      BY <3>9 DEF SameRead
    <3>11. Char(s, i) # Closing
      BY <2>1, <2>4, <2>6
    <3> QED
      BY <2>3, <3>8, <3>10, <3>11 DEF SameFrom, v, p
  <2> QED
    BY <2>5, <2>6
<1>5. Unspecified[kind] \in ReadLeaves(s)
  BY <1>3 DEF ComposedAs
<1> QED
  BY <1>4, <1>5 DEF Agrees

(* A tuple of nothing.                                                     *)
LEMMA NothingKind ==
  ASSUME NEW s, IsText(s)
  PROVE  Agrees(s, "nothing")
<1> DEFINE kind == "nothing"
<1>1. kind \in Kinds /\ ~ IsCore(kind) /\ Elements[kind] = <<>>
        /\ DOMAIN Elements[kind] = {}
  BY CoreElements, ElementsOf DEF Shallow
<1>2. \A f : [n \in DOMAIN Elements[kind] |-> f[Elements[kind][n]]] = <<>>
  BY <1>1
<1> HIDE DEF kind
<1>3. Unspecified[kind] = Composed(0, TRUE, TRUE, <<>>)
  <2>1. Unspecified[kind] = UnspecifiedBy(Unspecified)[kind]
    BY UnspecifiedEquation, Zenon
  <2>2. UnspecifiedBy(Unspecified)[kind] = Composed(0, TRUE, TRUE, <<>>)
    BY <1>1, <1>2 DEF UnspecifiedBy
  <2> QED
    BY <2>1, <2>2
<1>4. ComposedAlone(s, Unspecified[kind], 0, TRUE, TRUE)
  BY <1>3, ComposedNone
<1>5. ASSUME NEW i \in Places(s) PROVE SameFrom(s, kind, i)
  <2> DEFINE c == PartEnd(s, {"n"})[i]
             v == ValidateAny(s)[kind][i]
             p == ParseAny(s)[kind][i]
             opened == Bracketed(s, i)
             next == c + 1
  <2>1. /\ c \in i..(i + 1) /\ c \in Places(s) /\ (c > i <=> Char(s, i) = "n")
        /\ (Char(s, c) # End => c \in 1..Len(s) /\ c + 1 \in Places(s))
        /\ Len(s) \in Nat /\ i \in Int /\ c \in Nat /\ next \in Nat
    BY BehindColon, CharOfText DEF Places
  <2>2. opened \in BOOLEAN /\ (opened <=> c = i)
    BY DEF Bracketed
  <2>3. Debugged(s, kind, i) = p
    BY <1>1 DEF Debugged
  <2>4. Closing # ":" /\ Closing # End /\ ":" # End /\ Closing # "n"
    BY EndInNoPart, Zenon DEF Closing
  <2>5. PartsBy(s, ValidateAny(s), kind, i) = <<>>
          /\ ElementsBy(s, ParseAny(s), kind, i) = <<>>
    BY <1>1 DEF PartsBy, ElementsBy
  <2>6. v = ValidateWith(s, kind, i, <<>>) /\ p = ParseWith(s, kind, i, <<>>)
    BY <1>1, <2>5, ValidateAt, ParseAt
  <2>7. <<>> \in Seq(ReadLeaves(s)) /\ ~ AllSuit(<<>>)
    BY DEF AllSuit
  <2>8. v = IF Char(s, c) = Closing THEN Composed(c + 1, TRUE, opened, <<>>)
            ELSE Failed(c)
    BY <1>1, <1>2, <2>6, <2>7 DEF ValidateWith, Bracketed
  <2>9. (\A n \in DOMAIN <<>> : <<>>[n].ok) = TRUE
    OBVIOUS
  <2>10. p = IF Char(s, c) = Closing THEN Composed(c + 1, TRUE, opened, <<>>)
             ELSE Failed(c)
    BY <1>1, <2>4, <2>6, <2>7, <2>9 DEF ParseWith, Bracketed
  <2>11. Failed(c) \in ReadLeaves(s) /\ ~ Failed(c).ok
    BY <2>1, FailedRead
  <2>12. ComposedAlone(s, Composed(next, TRUE, opened, <<>>),
                      next, TRUE, opened)
    <3> HIDE DEF opened, c, next
    <3> QED
      BY <2>1, <2>2, ComposedNone
  <2>13. Char(s, c) = Closing => c + 1 \in (i + 1)..(Len(s) + 1)
    BY <2>1, <2>4
  <2>14. Char(s, i) = Closing =>
            c = i /\ Char(s, c) = Closing /\ (opened = TRUE)
    BY <2>1, <2>2, <2>4
  <2> HIDE DEF v, p, opened, c
  <2>15. SameRead(s, i, v, p)
    BY <2>8, <2>10, <2>11, <2>12, <2>13 DEF SameRead, ComposedAlone
  <2>16. v \in ReadLeaves(s) /\ p \in ReadLeaves(s)
    BY <2>8, <2>10, <2>11, <2>12 DEF ComposedAlone
  <2>17. Char(s, i) = Closing =>
           p.ok /\ p.at = i + 1 /\ p.specs = Unspecified[kind].specs
    BY <1>4, <2>10, <2>12, <2>14 DEF ComposedAlone
  <2> QED
    BY <2>3, <2>15, <2>16, <2>17 DEF SameFrom, v, p
<1>6. Unspecified[kind] \in ReadLeaves(s)
  BY <1>4 DEF ComposedAlone
<1> QED
  BY <1>5, <1>6 DEF Agrees, kind

(* A kind without a tuple of several is read alike by both parsers.        *)
LEMMA AnyAgrees ==
  ASSUME NEW s, IsText(s), NEW kind \in Kinds \ {"pair", "map"}
  PROVE  Agrees(s, kind)
<1>1. Agrees(s, "int") /\ Agrees(s, "string")
  <2>1. IsCore("int") /\ IsCore("string")
        /\ "int" \in Kinds /\ "string" \in Kinds
    BY ElementsOf DEF IsCore, Shallow, Deep, Kinds
  <2> QED
    BY <2>1, CoreKind
<1>2. Agrees(s, "ints") /\ Agrees(s, "words")
  <2>1. "ints" \in OneKind /\ "words" \in OneKind
          /\ Elements["ints"][1] = "int" /\ Elements["words"][1] = "string"
    BY ElementsOf DEF OneKind
  <2> QED
    BY <1>1, <2>1, RangeKind
<1>3. Agrees(s, "rows")
  <2>1. "rows" \in OneKind /\ Elements["rows"][1] = "ints"
    BY ElementsOf DEF OneKind
  <2> QED
    BY <1>2, <2>1, RangeKind
<1>4. IsCore(kind) \/ kind \in {"ints", "words", "rows", "nothing"}
  BY CoreElements DEF Shallow, Deep
<1> QED
  BY <1>1, <1>2, <1>3, <1>4, CoreKind, NothingKind

----------------------------------------------------------------------------
(* The specs of a scan (ScanSpecs).                                        *)

(* What is read of a scan's specs.                                         *)
ScanSpecsRead(s) ==
  [at : Nat, ok : BOOLEAN,
   specs : [alternate : BOOLEAN, width : Nat \cup {NoWidth},
            type : Range(s) \cup {"none"}]]

(* All scan specs are read up to a place of the string.                    *)
LEMMA AllScanSpecsRead ==
  ASSUME NEW s, IsText(s), NEW i \in Places(s)
  PROVE  /\ AllScanSpecs(s, i) \in ScanSpecsRead(s)
         /\ AllScanSpecs(s, i).at \in i..(Len(s) + 1)
<1> DEFINE h == PartEnd(s, {"#"})[i]
           w == DigitsEnd(s, 10)[h]
           t == PartEnd(s, Alpha)[w]
           width == ParseUnsigned(s, 10)[h]
           ok == w > h => width.ok
           wide == IF w > h THEN width.value ELSE NoWidth
           type == IF t > w THEN s[w] ELSE "none"
           alternate == h > i
<1>1. AllScanSpecs(s, i) =
        [at |-> t, ok |-> ok,
         specs |-> [alternate |-> alternate, width |-> wide, type |-> type]]
  BY DEF AllScanSpecs
<1>2. Len(s) \in Nat /\ \A k \in 1..Len(s) : s[k] \in Range(s)
  BY CharOfText
<1>3. h \in i..(i + 1) /\ h \in Places(s)
  BY EndInNoPart, PartEnds
<1>4. w \in h..(Len(s) + 1) /\ w \in Places(s) /\ width \in NumberRead
  <2> HIDE DEF h
  <2>1. IsDigitsEnd(s, 10, h, w)
    BY <1>3, DigitsEndOf
  <2>2. width \in NumberRead
    BY <1>3, UnsignedRead
  <2> QED
    BY <1>3, <2>1, <2>2 DEF IsDigitsEnd, Places
<1>5. t \in w..(w + 1) /\ t \in Places(s) /\ (t > w => w \in 1..Len(s))
  <2> HIDE DEF w
  <2> QED
    BY <1>4, EndInNoPart, PartEnds
<1> HIDE DEF h, w, t, width
<1>6. type \in Range(s) \cup {"none"}
  BY <1>2, <1>5
<1>7. wide \in Nat \cup {NoWidth} /\ ok \in BOOLEAN /\ alternate \in BOOLEAN
  BY <1>4 DEF NumberRead
<1>8. t \in i..(Len(s) + 1) /\ t \in Nat
  BY <1>2, <1>3, <1>4, <1>5 DEF Places
<1> HIDE DEF type, wide, ok, alternate
<1> QED
  BY <1>1, <1>6, <1>7, <1>8 DEF ScanSpecsRead

(* The two scan parsers agree.                                             *)
LEMMA ScanAgrees ==
  ASSUME NEW s, IsText(s), NEW i \in Places(s), NEW kind
  PROVE  /\ ValidateScanSpecs(kind, s, i) \in ScanSpecsRead(s)
         /\ ParseScanSpecs(s, i) \in ScanSpecsRead(s)
         /\ SameRead(s, i, ValidateScanSpecs(kind, s, i), ParseScanSpecs(s, i))
<1> DEFINE v == ValidateScanSpecs(kind, s, i)
           p == ParseScanSpecs(s, i)
           k == AllScanSpecs(s, i)
           vat == k.at + 1
           pat == IF k.at <= Len(s) THEN k.at + 1 ELSE k.at
           vok == /\ k.ok
                  /\ k.specs.width # 0 /\ k.specs.width <= MaxInt
                  /\ Char(s, k.at) = Closing
                  /\ Scans(kind, k.specs)
           pok == k.ok /\ (k.specs.type = "none" => k.at <= Len(s))
<1>1. i \in Nat /\ Len(s) \in Nat
  BY CharOfText DEF Places
<1>2. k \in ScanSpecsRead(s) /\ k.at \in i..(Len(s) + 1)
  BY AllScanSpecsRead
<1>3. v = [k EXCEPT !.at = vat, !.ok = vok]
      /\ p = [k EXCEPT !.at = pat, !.ok = pok]
  BY DEF ValidateScanSpecs, ParseScanSpecs
<1> HIDE DEF k
<1>4. vok \in BOOLEAN /\ pok \in BOOLEAN
  BY <1>2 DEF ScanSpecsRead
<1>5. vat \in Nat /\ pat \in Nat
  BY <1>1, <1>2
<1>6. vok => k.at \in 1..Len(s)
  BY <1>1, <1>2, CharOfText, EndInNoPart
<1>7. vok => pok /\ pat = vat /\ vat \in (i + 1)..(Len(s) + 1)
  <2>1. k.ok \in BOOLEAN
    BY <1>2 DEF ScanSpecsRead
  <2> QED
    BY <1>1, <1>2, <1>6, <2>1
<1> HIDE DEF v, p, vat, pat, vok, pok
<1>8. /\ v \in ScanSpecsRead(s) /\ v.at = vat /\ v.ok = vok
      /\ v.specs = k.specs
      /\ p \in ScanSpecsRead(s) /\ p.at = pat /\ p.ok = pok
      /\ p.specs = k.specs
  BY <1>2, <1>3, <1>4, <1>5 DEF ScanSpecsRead
<1> QED
  BY <1>7, <1>8 DEF SameRead, v, p

----------------------------------------------------------------------------
(* The arguments of an output.                                             *)

(* The arguments among the first items of an output.                       *)
ArgsIn(out, n) == Cardinality({i \in 1..n : IsArg(out[i])})

(* There are no arguments among no items.                                  *)
LEMMA NoArgs == ASSUME NEW out PROVE ArgsIn(out, 0) = 0
<1>1. {i \in 1..0 : IsArg(out[i])} = {}
  OBVIOUS
<1> QED
  BY <1>1, FS_EmptySet DEF ArgsIn

(* The number of arguments depends on the items only.                      *)
LEMMA SameArgs ==
  ASSUME NEW out, NEW new, NEW n \in Nat, \A i \in 1..n : new[i] = out[i]
  PROVE  ArgsIn(new, n) = ArgsIn(out, n)
<1>1. {i \in 1..n : IsArg(new[i])} = {i \in 1..n : IsArg(out[i])}
  OBVIOUS
<1> QED
  BY <1>1 DEF ArgsIn

(* Items that are no arguments do not count.                               *)
LEMMA SkippedArgs ==
  ASSUME NEW out, NEW n \in Nat, NEW m \in Nat, n <= m,
         \A i \in (n + 1)..m : ~ IsArg(out[i])
  PROVE  ArgsIn(out, m) = ArgsIn(out, n)
<1>1. {i \in 1..m : IsArg(out[i])} = {i \in 1..n : IsArg(out[i])}
  OBVIOUS
<1> QED
  BY <1>1 DEF ArgsIn

(* An argument counts.                                                     *)
LEMMA OneMoreArg ==
  ASSUME NEW out, NEW n \in Nat, IsArg(out[n + 1])
  PROVE  ArgsIn(out, n + 1) = ArgsIn(out, n) + 1
<1> DEFINE S == {i \in 1..n : IsArg(out[i])}
<1>1. {i \in 1..(n + 1) : IsArg(out[i])} = S \cup {n + 1}
  OBVIOUS
<1>2. IsFiniteSet(S) /\ n + 1 \notin S
  <2>1. IsFiniteSet(1..n) /\ S \in SUBSET (1..n)
    BY FS_Interval
  <2> HIDE DEF S
  <2>2. IsFiniteSet(S)
    BY <2>1, FS_Subset
  <2> QED
    BY <2>1, <2>2
<1> HIDE DEF S
<1>3. Cardinality(S \cup {n + 1}) = Cardinality(S) + 1
  BY <1>2, FS_AddElement
<1> QED
  BY <1>1, <1>3 DEF ArgsIn, S

(* There are finitely many.                                                *)
LEMMA ArgsAreNat == ASSUME NEW out, NEW n \in Nat PROVE ArgsIn(out, n) \in Nat
<1> DEFINE S == {i \in 1..n : IsArg(out[i])}
<1>1. IsFiniteSet(1..n) /\ S \in SUBSET (1..n)
  BY FS_Interval
<1> HIDE DEF S
<1>2. Cardinality(S) \in Nat
  BY <1>1, FS_Subset, FS_CardinalityType
<1> QED
  BY <1>2 DEF S, ArgsIn

(* The arguments of an output are the fields, in their order.              *)
ReadOutput(out, f) ==
  \A i \in DOMAIN out :
    IsArg(out[i]) => ArgsIn(out, i) <= Len(f) /\ out[i] = f[ArgsIn(out, i)]

(* Items that follow do not change the number among the first ones.        *)
LEMMA JoinedArgs ==
  ASSUME NEW w, NEW u, NEW v, Joined(w, u, v), NEW i \in 0..Len(u)
  PROVE  ArgsIn(w, i) = ArgsIn(u, i)
<1>1. i \in Nat /\ \A x \in 1..i : w[x] = u[x]
  BY DEF Joined
<1> QED
  BY <1>1, SameArgs

(* Text that is written adds no argument.                                  *)
LEMMA TextGrows ==
  ASSUME NEW out, IsSequence(out), NEW items, NEW new, Joined(new, out, items),
         \A x \in 1..Len(items) : ~ IsArg(items[x]), NEW f, ReadOutput(out, f)
  PROVE  ReadOutput(new, f) /\ ArgsIn(new, Len(new)) = ArgsIn(out, Len(out))
<1>1. /\ Len(out) \in Nat /\ Len(items) \in Nat
      /\ Len(new) = Len(out) + Len(items)
      /\ DOMAIN out = 1..Len(out) /\ DOMAIN new = 1..Len(new)
  BY SequenceOf DEF Joined, IsSequence
<1>2. ASSUME NEW i \in (Len(out) + 1)..Len(new) PROVE ~ IsArg(new[i])
  <2>1. i - Len(out) \in 1..Len(items) /\ Len(out) + (i - Len(out)) = i
    BY <1>1
  <2> QED
    BY <2>1 DEF Joined
<1>3. ArgsIn(new, Len(new)) = ArgsIn(new, Len(out))
  BY <1>1, <1>2, SkippedArgs
<1>4. ArgsIn(new, Len(out)) = ArgsIn(out, Len(out))
  BY <1>1, JoinedArgs
<1>5. ASSUME NEW i \in 1..Len(new), IsArg(new[i])
      PROVE  ArgsIn(new, i) <= Len(f) /\ new[i] = f[ArgsIn(new, i)]
  <2>1. i \in 1..Len(out)
    BY <1>1, <1>2, <1>5
  <2>2. new[i] = out[i] /\ ArgsIn(new, i) = ArgsIn(out, i)
    BY <1>1, <2>1, JoinedArgs DEF Joined
  <2> QED
    BY <1>1, <1>5, <2>1, <2>2 DEF ReadOutput
<1> QED
  BY <1>1, <1>3, <1>4, <1>5 DEF ReadOutput

(* Writing the next field adds it.                                         *)
LEMMA FieldGrows ==
  ASSUME NEW out, IsSequence(out), NEW x, IsArg(x), NEW new,
         Joined(new, out, <<x>>), NEW f, ReadOutput(out, f),
         NEW n \in Nat, n = ArgsIn(out, Len(out)), n < Len(f), x = f[n + 1],
         Len(f) \in Nat
  PROVE  ReadOutput(new, f) /\ ArgsIn(new, Len(new)) = n + 1
<1>1. /\ Len(out) \in Nat /\ Len(new) = Len(out) + 1
      /\ DOMAIN out = 1..Len(out) /\ DOMAIN new = 1..Len(new)
      /\ new[Len(out) + 1] = x
  BY SequenceOf, OneIsSequence DEF Joined, IsSequence
<1>2. ArgsIn(new, Len(out)) = n
  BY <1>1, JoinedArgs
<1>3. ArgsIn(new, Len(new)) = n + 1
  BY <1>1, <1>2, OneMoreArg
<1>4. ASSUME NEW i \in 1..Len(new), IsArg(new[i])
      PROVE  ArgsIn(new, i) <= Len(f) /\ new[i] = f[ArgsIn(new, i)]
  <2>1. CASE i \in 1..Len(out)
    <3>0. i \in 0..Len(out)
      BY <1>1, <2>1
    <3>1. new[i] = out[i]
      BY <2>1 DEF Joined
    <3>2. ArgsIn(new, i) = ArgsIn(out, i)
      BY <3>0, JoinedArgs
    <3> QED
      BY <1>1, <1>4, <2>1, <3>1, <3>2 DEF ReadOutput
  <2>2. CASE i = Len(out) + 1
    <3>1. n + 1 <= Len(f)
      OBVIOUS
    <3> QED
      BY <1>1, <1>3, <2>2, <3>1
  <2> QED
    BY <1>1, <2>1, <2>2
<1> QED
  BY <1>1, <1>3, <1>4 DEF ReadOutput

----------------------------------------------------------------------------
(* One step of the parsers (FormatString).                                 *)

(* Kinds without a tuple of several elements.                              *)
Flat == Kinds \ {"pair", "map"}

(* What both parsers see at a place i of the string s, if a is the number  *)
(* of the argument that is next.                                           *)
TextAt(s, i) ==
  Char(s, i) # End /\ (Char(s, i) = Opening => Char(s, i + 1) = Opening)
FieldAt(s, i) == Char(s, i) = Opening /\ Char(s, i + 1) # Opening
Numbered(s, i) == Char(s, i + 1) \in Digit
ArgAt(s, i, a) == IF Numbered(s, i) THEN ParseByte(s, i + 1).value ELSE a
NameEndAt(s, i) == IF Numbered(s, i) THEN ParseByte(s, i + 1).next ELSE i + 1
NextArg(s, i, a) == IF Numbered(s, i) THEN a ELSE (a + 1) % Byte

(* Where the parsers stop: at the end of the string, and at the argument   *)
(* number that stands for 'no further argument' (no_more_args).            *)
EndAt(s, i, a) ==
  Char(s, i) = End \/ (FieldAt(s, i) /\ ArgAt(s, i, a) = NoMoreArgs)

(* The checks.                                                             *)
TextFine(s, i) == Char(s, i) = Closing => Char(s, i + 1) = Closing
NameFine(s, i) ==
  /\ Numbered(s, i) => ParseByte(s, i + 1).ok
  /\ Char(s, NameEndAt(s, i)) \in {Closing, ":"}

(* Where the specs of the two parsers begin, and what they read there.     *)
CheckedFrom(s, i) ==
  IF Char(s, NameEndAt(s, i)) = ":" THEN NameEndAt(s, i) + 1
  ELSE NameEndAt(s, i)
UncheckedFrom(s, i) ==
  IF Char(s, NameEndAt(s, i)) \in {Closing, End} THEN NameEndAt(s, i)
  ELSE NameEndAt(s, i) + 1

Validated(t, s, k, i, a) ==
  LET j == CheckedFrom(s, i)
      kind == k[ArgAt(s, i, a) + 1]
  IN IF t = "format" THEN ValidateAny(s)[kind][j]
     ELSE ValidateScanSpecs(kind, s, j)
Parsed(t, s, k, i, a) ==
  LET j == UncheckedFrom(s, i)
      kind == k[ArgAt(s, i, a) + 1]
  IN IF t = "format" THEN ParseAny(s)[kind][j] ELSE ParseScanSpecs(s, j)

(* The field name is read.                                                 *)
LEMMA NameRead ==
  ASSUME NEW s, IsText(s), NEW i \in Places(s), FieldAt(s, i), NEW a \in Nat
  PROVE  /\ i \in 1..Len(s) /\ Len(s) \in Nat
         /\ NameEndAt(s, i) \in (i + 1)..(Len(s) + 1)
         /\ ArgAt(s, i, a) \in Nat /\ NextArg(s, i, a) \in Nat
<1>1. i \in 1..Len(s) /\ Len(s) \in Nat /\ i + 1 \in Places(s)
  BY CharOfText, EndInNoPart DEF FieldAt, Places
<1> DEFINE n == ParseUnsigned(s, 10)[i + 1]
<1>2. n \in NumberRead /\ n.next \in (i + 1)..(Len(s) + 1)
  <2> DEFINE j == i + 1
  <2>1. j \in Places(s) /\ 10 \in 2..36
    BY <1>1
  <2> HIDE DEF j
  <2>2. LET m == ParseUnsigned(s, 10)[j] IN
        m \in NumberRead /\ m.next \in j..(Len(s) + 1)
    BY <2>1, UnsignedRead
  <2> QED
    BY <2>2 DEF j
<1>3. ParseByte(s, i + 1) = [n EXCEPT !.ok = @ /\ n.value < Byte]
  BY DEF ParseByte
<1> HIDE DEF n
<1>4. ParseByte(s, i + 1).value = n.value /\ ParseByte(s, i + 1).next = n.next
  BY <1>2, <1>3 DEF NumberRead
<1>5. NameEndAt(s, i) \in (i + 1)..(Len(s) + 1)
  BY <1>1, <1>2, <1>4 DEF NameEndAt
<1>6. ArgAt(s, i, a) \in Nat
  BY <1>2, <1>4 DEF ArgAt, NumberRead
<1>7. NextArg(s, i, a) \in Nat
  BY ByteBelowWord DEF NextArg
<1> QED
  BY <1>1, <1>5, <1>6, <1>7

(* A field that has been accepted is read again in the same way.           *)
LEMMA FieldRead ==
  ASSUME NEW t, NEW s, IsText(s), NEW k \in Seq(Flat), NEW i \in Places(s),
         NEW a \in Nat, FieldAt(s, i), NameFine(s, i), ArgAt(s, i, a) < Len(k)
  PROVE  LET v == Validated(t, s, k, i, a)
             p == Parsed(t, s, k, i, a) IN
         /\ SameRead(s, i, v, p)
         /\ v.ok => /\ Char(s, i + 1) # End /\ Char(s, NameEndAt(s, i)) # End
                    /\ Numbered(s, i) => ParseByte(s, i + 1).ok
<1> DEFINE v == Validated(t, s, k, i, a)
           p == Parsed(t, s, k, i, a)
           j == CheckedFrom(s, i)
           e == NameEndAt(s, i)
           kind == k[ArgAt(s, i, a) + 1]
<1>1. /\ i \in 1..Len(s) /\ Len(s) \in Nat
      /\ e \in (i + 1)..(Len(s) + 1)
      /\ ArgAt(s, i, a) \in Nat
  BY NameRead
<1>2. Char(s, e) # End /\ e \in 1..Len(s)
  BY <1>1, EndInNoPart, CharOfText DEF NameFine
<1>3. UncheckedFrom(s, i) = j
  <2>1. ":" # Closing
    BY Zenon DEF Closing
  <2> QED
    BY <1>2, <2>1, EndInNoPart DEF UncheckedFrom, CheckedFrom,
                                                NameFine
<1>4. j \in (i + 1)..(Len(s) + 1) /\ j \in Places(s) /\ j \in Nat
  BY <1>1, <1>2 DEF CheckedFrom, Places
<1>5. ArgAt(s, i, a) + 1 \in 1..Len(k)
  BY <1>1
<1>6. kind \in Flat
  BY <1>5
<1>7. SameRead(s, j, v, p)
  <2>1. CASE t = "format"
    <3>1. SameRead(s, j, ValidateAny(s)[kind][j], ParseAny(s)[kind][j])
      <4> HIDE DEF kind, j
      <4> QED
        BY <1>4, <1>6, AnyAgrees DEF Flat, Agrees, SameFrom
    <3> QED
      BY <1>3, <2>1, <3>1 DEF Validated, Parsed
  <2>2. CASE t # "format"
    <3>1. SameRead(s, j, ValidateScanSpecs(kind, s, j), ParseScanSpecs(s, j))
      <4> HIDE DEF kind, j
      <4> QED
        BY <1>4, ScanAgrees
    <3> QED
      BY <1>3, <2>2, <3>1 DEF Validated, Parsed
  <2> QED
    BY <2>1, <2>2
<1> HIDE DEF v, p, j
<1>8. SameRead(s, i, v, p)
  BY <1>1, <1>4, <1>7 DEF SameRead
<1>9. Char(s, i + 1) # End
  <2>1. i + 1 \in 1..Len(s)
    BY <1>1, <1>2
  <2> QED
    BY <2>1, CharOfText
<1> QED
  BY <1>2, <1>8, <1>9 DEF NameFine, v, p

----------------------------------------------------------------------------
(* The trail of the checking parser.                                       *)

(* The checking parser has gone on from place i, argument a and field n.   *)
PastText(s, V, i, a, n) ==
  /\ TextAt(s, i) /\ TextFine(s, i)
  /\ <<i + TextStep(Char(s, i)), a, n>> \in V

(* The same behind a field, which is the (n + 1)th one it accepted.        *)
PastField(t, s, k, f, V, i, a, n) ==
  LET v == Validated(t, s, k, i, a) IN
  /\ FieldAt(s, i) /\ NameFine(s, i)
  /\ ArgAt(s, i, a) < Len(k) /\ ArgAt(s, i, a) # NoMoreArgs
  /\ v.ok
  /\ n < Len(f) /\ f[n + 1] = Field(ArgAt(s, i, a), v.specs)
  /\ <<v.at, NextArg(s, i, a), n + 1>> \in V

(* A place, the number of the argument that is next and that of the fields *)
(* so far.                                                                 *)
Stages(s) == Places(s) \X Nat \X Nat

(* V are the places the checking parser has come by, up to one of T: each  *)
(* is followed by the next one unless it is in T.                          *)
Trail(t, s, k, f, V, T) ==
  /\ V \subseteq Stages(s) /\ <<1, 0, 0>> \in V
  /\ \A i \in Places(s) : \A a, n \in Nat :
       <<i, a, n>> \in V => \/ <<i, a, n>> \in T
                            \/ PastText(s, V, i, a, n)
                            \/ PastField(t, s, k, f, V, i, a, n)

(* The places where it stops with all fields.                              *)
Stops(s, f) == {c \in Stages(s) : EndAt(s, c[1], c[2]) /\ c[3] = Len(f)}

(* It has come to a place; or it has come by that place on its way to the  *)
(* end of the string or of the arguments.                                  *)
Reached(t, s, k, f, i, a) ==
  \E V : /\ Trail(t, s, k, f, V, {<<i, a, Len(f)>>})
         /\ <<i, a, Len(f)>> \in V
Passed(t, s, k, f, i, a, n) ==
  \E V : Trail(t, s, k, f, V, Stops(s, f)) /\ <<i, a, n>> \in V

(* A step over text: a character, or two braces.                           *)
LEMMA StepOfText ==
  ASSUME NEW s, IsText(s), NEW i \in Places(s), TextAt(s, i), TextFine(s, i)
  PROVE  /\ i \in 1..Len(s) /\ Len(s) \in Nat
         /\ TextStep(Char(s, i)) \in 1..2
         /\ i + TextStep(Char(s, i)) \in (i + 1)..(Len(s) + 1)
<1>1. i \in 1..Len(s) /\ Len(s) \in Nat
        /\ (Char(s, i + 1) = End <=> i + 1 \notin 1..Len(s))
  BY CharOfText DEF TextAt, Places
<1>2. CASE Char(s, i) \in Brace
  <2>1. Char(s, i + 1) # End /\ TextStep(Char(s, i)) = 2
    BY <1>2, EndInNoPart DEF TextAt, TextFine, Brace, TextStep
  <2> QED
    BY <1>1, <2>1
<1>3. CASE Char(s, i) \notin Brace
  BY <1>1, <1>3 DEF TextStep
<1> QED
  BY <1>2, <1>3

(* It starts at the first place.                                           *)
LEMMA StartReached ==
  ASSUME NEW t, NEW s, IsText(s), NEW k
  PROVE  Reached(t, s, k, <<>>, 1, 0)
<1> DEFINE c == <<1, 0, 0>>
<1>1. 1 \in Places(s)
  BY CharOfText DEF Places
<1>2. c \in Stages(s)
  BY <1>1 DEF Stages
<1>3. Trail(t, s, k, <<>>, {c}, {c})
  BY <1>2 DEF Trail
<1> QED
  BY <1>3 DEF Reached

(* Going on over text.                                                     *)
LEMMA TextReached ==
  ASSUME NEW t, NEW s, IsText(s), NEW k, NEW f, Len(f) \in Nat,
         NEW i \in Places(s), NEW a \in Nat, TextAt(s, i), TextFine(s, i),
         Reached(t, s, k, f, i, a)
  PROVE  Reached(t, s, k, f, i + TextStep(Char(s, i)), a)
<1> DEFINE j == i + TextStep(Char(s, i))
           n == Len(f)
           c == <<i, a, n>>
           d == <<j, a, n>>
<1>1. PICK V : Trail(t, s, k, f, V, {c}) /\ c \in V
  BY DEF Reached
<1>2. j \in Places(s)
  BY StepOfText DEF Places
<1> HIDE DEF j
<1> DEFINE W == V \cup {d}
<1>3. W \subseteq Stages(s) /\ <<1, 0, 0>> \in W /\ V \subseteq W
  BY <1>1, <1>2 DEF Trail, Stages
<1>4. PastText(s, W, i, a, n)
  BY DEF PastText, j
<1> HIDE DEF W
<1>5. ASSUME NEW x \in Places(s), NEW b \in Nat, NEW m \in Nat,
             <<x, b, m>> \in V
      PROVE  \/ PastText(s, W, x, b, m) \/ PastField(t, s, k, f, W, x, b, m)
  <2>1. CASE <<x, b, m>> = c
    BY <1>4, <2>1
  <2>2. CASE <<x, b, m>> # c
    <3>1. PastText(s, V, x, b, m) \/ PastField(t, s, k, f, V, x, b, m)
      BY <1>1, <1>5, <2>2 DEF Trail
    <3> QED
      BY <1>3, <3>1 DEF PastText, PastField
  <2> QED
    BY <2>1, <2>2
<1>6. Trail(t, s, k, f, W, {d})
  BY <1>3, <1>5 DEF Trail, W
<1>7. d \in W
  BY DEF W
<1> QED
  BY <1>6, <1>7 DEF Reached, j

(* Going on over a field that it accepts.                                  *)
LEMMA FieldReached ==
  ASSUME NEW t, NEW s, IsText(s), NEW k \in Seq(Flat), NEW f, IsSequence(f),
         NEW i \in Places(s), NEW a \in Nat, FieldAt(s, i), NameFine(s, i),
         ArgAt(s, i, a) < Len(k), ArgAt(s, i, a) # NoMoreArgs,
         Validated(t, s, k, i, a).ok, Reached(t, s, k, f, i, a)
  PROVE  LET v == Validated(t, s, k, i, a) IN
         Reached(t, s, k, Append(f, Field(ArgAt(s, i, a), v.specs)), v.at,
                 NextArg(s, i, a))
<1> DEFINE v == Validated(t, s, k, i, a)
           x == Field(ArgAt(s, i, a), v.specs)
           g == Append(f, x)
           n == Len(f)
           c == <<i, a, n>>
           d == <<v.at, NextArg(s, i, a), n + 1>>
<1>1. PICK V : Trail(t, s, k, f, V, {c}) /\ c \in V
  BY DEF Reached
<1>2. v.at \in Places(s) /\ NextArg(s, i, a) \in Nat
  <2>1. SameRead(s, i, v, Parsed(t, s, k, i, a))
    BY FieldRead
  <2> HIDE DEF v
  <2>2. v.at \in (i + 1)..(Len(s) + 1)
    BY <2>1 DEF SameRead, v
  <2>3. i \in 1..Len(s) /\ Len(s) \in Nat /\ NextArg(s, i, a) \in Nat
    BY NameRead
  <2> QED
    BY <2>2, <2>3 DEF Places
<1>3. /\ n \in Nat /\ Len(g) = n + 1 /\ g[n + 1] = x
      /\ \A m \in 1..n : g[m] = f[m]
  <2>1. Joined(g, f, <<x>>)
    BY Appending
  <2> HIDE DEF g, x
  <2> QED
    BY <2>1, OneIsSequence DEF Joined
<1> DEFINE W == V \cup {d}
<1> HIDE DEF v, g
<1>4. W \subseteq Stages(s) /\ <<1, 0, 0>> \in W /\ V \subseteq W /\ d \in W
  BY <1>1, <1>2, <1>3 DEF Trail, Stages
<1> HIDE DEF W
<1>5. PastField(t, s, k, g, W, i, a, n)
  BY <1>3, <1>4 DEF PastField, v
<1>6. ASSUME NEW y \in Places(s), NEW b \in Nat, NEW m \in Nat,
             <<y, b, m>> \in V
      PROVE  \/ PastText(s, W, y, b, m) \/ PastField(t, s, k, g, W, y, b, m)
  <2>1. CASE <<y, b, m>> = c
    BY <1>5, <2>1
  <2>2. CASE <<y, b, m>> # c
    <3>1. PastText(s, V, y, b, m) \/ PastField(t, s, k, f, V, y, b, m)
      BY <1>1, <1>6, <2>2 DEF Trail
    <3>2. CASE PastText(s, V, y, b, m)
      BY <1>4, <3>2 DEF PastText
    <3>3. CASE PastField(t, s, k, f, V, y, b, m)
      <4>1. m < Len(g) /\ g[m + 1] = f[m + 1]
        BY <1>3, <3>3 DEF PastField
      <4> QED
        BY <1>4, <3>3, <4>1 DEF PastField
    <3> QED
      BY <3>1, <3>2, <3>3
  <2> QED
    BY <2>1, <2>2
<1>7. Trail(t, s, k, g, W, {d})
  BY <1>4, <1>6 DEF Trail, W
<1> QED
  BY <1>3, <1>4, <1>7 DEF Reached, v, g

(* At its end, it has come by the start and by all that follows.           *)
LEMMA StartPassed ==
  ASSUME NEW t, NEW s, IsText(s), NEW k, NEW f, Len(f) \in Nat,
         NEW i \in Places(s), NEW a \in Nat, EndAt(s, i, a),
         Reached(t, s, k, f, i, a)
  PROVE  Passed(t, s, k, f, 1, 0, 0)
<1> DEFINE c == <<i, a, Len(f)>>
<1>1. PICK V : Trail(t, s, k, f, V, {c})
  BY DEF Reached
<1>2. c \in Stops(s, f)
  BY DEF Stops, Stages
<1>3. Trail(t, s, k, f, V, Stops(s, f))
  BY <1>1, <1>2 DEF Trail
<1> QED
  BY <1>3 DEF Passed, Trail

(* A parser that follows the trail may go over text,                       *)
LEMMA TextPassed ==
  ASSUME NEW t, NEW s, IsText(s), NEW k, NEW f, NEW i \in Places(s),
         NEW a \in Nat, NEW n \in Nat, TextAt(s, i),
         Passed(t, s, k, f, i, a, n)
  PROVE  TextFine(s, i) /\ Passed(t, s, k, f, i + TextStep(Char(s, i)), a, n)
<1>1. PICK V : Trail(t, s, k, f, V, Stops(s, f)) /\ <<i, a, n>> \in V
  BY DEF Passed
<1>2. ~ EndAt(s, i, a) /\ ~ FieldAt(s, i)
  BY DEF EndAt, FieldAt, TextAt
<1>3. PastText(s, V, i, a, n)
  BY <1>1, <1>2 DEF Trail, Stops, PastField
<1> QED
  BY <1>1, <1>3 DEF PastText, Passed

(* and over a field, which is the next one that was accepted,              *)
LEMMA FieldPassed ==
  ASSUME NEW t, NEW s, IsText(s), NEW k, NEW f, NEW i \in Places(s),
         NEW a \in Nat, NEW n \in Nat, FieldAt(s, i),
         ArgAt(s, i, a) # NoMoreArgs, Passed(t, s, k, f, i, a, n)
  PROVE  LET v == Validated(t, s, k, i, a) IN
         /\ NameFine(s, i) /\ ArgAt(s, i, a) < Len(k) /\ v.ok
         /\ n < Len(f) /\ f[n + 1] = Field(ArgAt(s, i, a), v.specs)
         /\ Passed(t, s, k, f, v.at, NextArg(s, i, a), n + 1)
<1>1. PICK V : Trail(t, s, k, f, V, Stops(s, f)) /\ <<i, a, n>> \in V
  BY DEF Passed
<1>2. ~ EndAt(s, i, a) /\ ~ TextAt(s, i)
  BY EndInNoPart DEF EndAt, FieldAt, TextAt
<1>3. PastField(t, s, k, f, V, i, a, n)
  BY <1>1, <1>2 DEF Trail, Stops, PastText
<1> QED
  BY <1>1, <1>3 DEF PastField, Passed

(* and when it stops, it has come by all of them.                          *)
LEMMA EndPassed ==
  ASSUME NEW t, NEW s, IsText(s), NEW k, NEW f, NEW i \in Places(s),
         NEW a \in Nat, NEW n \in Nat, EndAt(s, i, a),
         Passed(t, s, k, f, i, a, n)
  PROVE  n = Len(f)
<1>1. PICK V : Trail(t, s, k, f, V, Stops(s, f)) /\ <<i, a, n>> \in V
  BY DEF Passed
<1>2. ~ TextAt(s, i)
  BY EndInNoPart DEF EndAt, FieldAt, TextAt
<1>3. FieldAt(s, i) => ArgAt(s, i, a) = NoMoreArgs
  BY EndInNoPart DEF EndAt, FieldAt
<1>4. <<i, a, n>> \in Stops(s, f)
  BY <1>1, <1>2, <1>3 DEF Trail, PastText, PastField
<1> QED
  BY <1>4 DEF Stops

----------------------------------------------------------------------------
(* Runs of text (ScanString).                                              *)

(* A run of text.                                                          *)
IsRunEnd(s, i, j) ==
  /\ j \in i..(Len(s) + 1)
  /\ Char(s, j) \in Brace \cup {End}
  /\ \A k \in i..(j - 1) : s[k] \notin Brace

(* RunEnd finds the end of a run.                                          *)
LEMMA RunEndOf ==
  ASSUME NEW s, IsText(s), NEW i \in Places(s)
  PROVE  IsRunEnd(s, i, RunEnd(s)[i])
<1> DEFINE P == {j \in Places(s) : Char(s, j) \in Brace \cup {End}}
           n == Len(s) + 1
<1>1. Len(s) \in Nat /\ i \in Int /\ n \in Int /\ i <= n /\ n \in Places(s)
  BY CharOfText DEF Places
<1>2. Char(s, n) = End
  BY <1>1, CharOfText
<1>3. n \in P
  BY <1>1, <1>2
<1> HIDE DEF P
<1>4. PICK j \in i..n : j \in P /\ \A k \in i..(j - 1) : k \notin P
  BY <1>1, <1>3, FirstPlace
<1>5. \A k \in i..(j - 1) : k \in Places(s) /\ s[k] = Char(s, k)
  BY <1>1, <1>4, CharOfText DEF Places
<1>6. \A k \in i..(j - 1) : s[k] \notin Brace
  BY <1>4, <1>5 DEF P
<1>7. IsRunEnd(s, i, j)
  BY <1>4, <1>6 DEF IsRunEnd, P
<1>8. RunEnd(s)[i] = CHOOSE x \in i..n : IsRunEnd(s, i, x)
  BY <1>1 DEF RunEnd, IsRunEnd, Places
<1> QED
  BY <1>4, <1>7, <1>8

(* The checking parser comes by the end of a run, character by character.  *)
LEMMA RunEndPassed ==
  ASSUME NEW t, NEW s, IsText(s), NEW k, NEW f, NEW i \in Places(s),
         NEW a \in Nat, NEW n \in Nat, Passed(t, s, k, f, i, a, n)
  PROVE  Passed(t, s, k, f, RunEnd(s)[i], a, n)
<1> DEFINE j == RunEnd(s)[i]
<1>1. IsRunEnd(s, i, j)
  BY RunEndOf
<1> HIDE DEF j
<1>2. i \in Int /\ i >= 1 /\ Len(s) \in Nat /\ j \in i..(Len(s) + 1)
  BY <1>1, CharOfText DEF IsRunEnd, Places
<1> DEFINE S == {m \in Nat : i + m <= j => Passed(t, s, k, f, i + m, a, n)}
<1>3. 0 \in S
  <2>1. i + 0 = i
    BY <1>2
  <2> QED
    BY <2>1
<1>4. ASSUME NEW m \in S, m \in Nat PROVE m + 1 \in S
  <2> SUFFICES ASSUME i + (m + 1) <= j
               PROVE  Passed(t, s, k, f, i + (m + 1), a, n)
    OBVIOUS
  <2> DEFINE x == i + m
  <2>1. /\ x \in i..(j - 1) /\ x \in 1..Len(s) /\ x \in Places(s)
        /\ x + 1 = i + (m + 1)
    BY <1>2, <1>4 DEF Places
  <2>2. Passed(t, s, k, f, x, a, n)
    BY <1>2, <1>4, <2>1
  <2> HIDE DEF x
  <2>3. s[x] \notin Brace /\ Char(s, x) = s[x] /\ Char(s, x) # End
    BY <1>1, <2>1, CharOfText DEF IsRunEnd
  <2>4. TextAt(s, x) /\ TextStep(Char(s, x)) = 1
    BY <2>3 DEF TextAt, Brace, TextStep
  <2>5. Passed(t, s, k, f, x + TextStep(Char(s, x)), a, n)
    BY <2>1, <2>2, <2>4, TextPassed
  <2>6. Passed(t, s, k, f, x + 1, a, n)
    BY <2>4, <2>5
  <2> QED
    BY <2>1, <2>6
<1> HIDE DEF S
<1>5. j - i \in S
  BY <1>2, <1>3, <1>4, Induction
<1>6. i + (j - i) = j
  BY <1>2
<1> QED
  BY <1>2, <1>5, <1>6 DEF S, j

(* The unchecked parser takes the text run by run, the checking one        *)
(* character by character; behind a run, both are at the same place.       *)
LEMMA RunPassed ==
  ASSUME NEW t, NEW s, IsText(s), NEW k, NEW f, NEW i \in Places(s),
         NEW a \in Nat, NEW n \in Nat, TextAt(s, i),
         Passed(t, s, k, f, i, a, n)
  PROVE  /\ NextRun(s, i) \in Places(s)
         /\ Passed(t, s, k, f, NextRun(s, i), a, n)
         /\ IsSequence(Run(s, i)) /\ i + Len(Run(s, i)) <= NextRun(s, i)
<1> DEFINE j == RunEnd(s)[i]
<1>1. IsRunEnd(s, i, j)
  BY RunEndOf
<1>2. NextRun(s, i) = IF IsEscape(s, j) THEN j + 2 ELSE j
  BY <1>1 DEF NextRun, IsRunEnd
<1>3. Run(s, i) = IF IsEscape(s, j) THEN SubSeq(s, i, j)
                  ELSE SubSeq(s, i, j - 1)
  <2>1. Run(s, i) = SubSeq(s, i, j - (IF IsEscape(s, j) THEN 0 ELSE 1))
    BY DEF Run
  <2>2. j \in Int /\ j - 0 = j
    BY <1>1, CharOfText DEF IsRunEnd, Places
  <2> HIDE DEF j
  <2> QED
    BY <2>1, <2>2
<1> HIDE DEF j
<1>4. /\ i \in Int /\ i >= 1 /\ Len(s) \in Nat
      /\ j \in i..(Len(s) + 1) /\ j \in Places(s)
      /\ Char(s, j) = End <=> j = Len(s) + 1
  BY <1>1, CharOfText DEF IsRunEnd, Places
<1>5. Passed(t, s, k, f, j, a, n)
  BY RunEndPassed DEF j
<1>6. CASE IsEscape(s, j)
  <2>1. TextAt(s, j) /\ TextStep(Char(s, j)) = 2
    <3>1. Closing # Opening
      BY Zenon DEF Closing, Opening
    <3> QED
      BY <1>6, <3>1, EndInNoPart DEF IsEscape, TextAt, TextStep, Brace
  <2>2. TextFine(s, j) /\ Passed(t, s, k, f, j + 2, a, n)
    BY <1>4, <1>5, <2>1, TextPassed
  <2>3. j + 2 \in Places(s) /\ j \in 1..Len(s)
    BY <1>4, <2>1, <2>2, StepOfText DEF Places
  <2>4. \A x \in i..j : s[x] \in Range(s)
    BY <1>4, <2>3, CharOfText
  <2>5. SubSeq(s, i, j) \in Seq(Range(s)) /\ Len(SubSeq(s, i, j)) = j - i + 1
    BY <1>4, <2>4, SubSeqProperties
  <2>6. IsSequence(SubSeq(s, i, j))
    BY <2>5, SequenceOf
  <2> QED
    BY <1>2, <1>3, <1>4, <1>6, <2>2, <2>3, <2>5, <2>6
<1>7. CASE ~ IsEscape(s, j)
  <2> DEFINE e == j - 1
  <2>1. e \in Int /\ \A x \in i..e : s[x] \in Range(s)
    BY <1>4, CharOfText
  <2>2. i + (IF i <= e THEN e - i + 1 ELSE 0) <= j
    BY <1>4
  <2> HIDE DEF e
  <2>3. /\ SubSeq(s, i, e) \in Seq(Range(s))
        /\ Len(SubSeq(s, i, e)) = IF i <= e THEN e - i + 1 ELSE 0
    BY <1>4, <2>1, SubSeqProperties
  <2>4. IsSequence(SubSeq(s, i, e))
    BY <2>3, SequenceOf
  <2> QED
    BY <1>2, <1>3, <1>4, <1>5, <1>7, <2>2, <2>3, <2>4 DEF e
<1> QED
  BY <1>6, <1>7

(* Characters that are written or read as they are.                        *)
Literals(u) == [x \in DOMAIN u |-> Literal(u[x])]

(* A literal is no argument.                                               *)
LEMMA NoArg == ASSUME NEW c PROVE ~ IsArg(Literal(c))
  BY DEF IsArg, Literal

(* A field is one.                                                         *)
LEMMA FieldIsArg == ASSUME NEW a, NEW specs PROVE IsArg(Field(a, specs))
  BY DEF IsArg, Field

(* No literal is an argument.                                              *)
LEMMA LiteralsOf ==
  ASSUME NEW u, IsSequence(u)
  PROVE  /\ IsSequence(Literals(u)) /\ Len(Literals(u)) = Len(u)
         /\ \A x \in 1..Len(Literals(u)) : ~ IsArg(Literals(u)[x])
<1>1. Len(u) \in Nat /\ DOMAIN u = 1..Len(u)
  BY SequenceOf DEF IsSequence
<1> DEFINE v == Literals(u)
           n == Len(u)
<1>2. \A x \in 1..n : v[x] = Literal(u[x])
  BY <1>1 DEF Literals
<1>3. DOMAIN v = 1..n /\ v = [x \in 1..n |-> v[x]]
  BY <1>1 DEF Literals
<1> HIDE DEF v, n
<1>4. v \in [1..n -> Range(v)]
  BY <1>3 DEF Range
<1>5. v \in Seq(Range(v)) /\ Len(v) = n
  BY <1>1, <1>3, <1>4 DEF n
<1>6. \A x \in 1..n : ~ IsArg(v[x])
  BY <1>2, NoArg
<1> QED
  BY <1>5, <1>6 DEF v, n, IsSequence

----------------------------------------------------------------------------
(* The invariant, and the actions.                                         *)

(* No argument is a tuple of several elements, or a range of such.         *)
WithoutTuples ==
  \A s \in Strings : {"pair", "map"} \cap Range(s.kinds) = {}

(* The inductive invariant.  While validating, the place is the end of a   *)
(* trail of accepted places; while formatting or scanning, it is one of    *)
(* the places on that trail, and the arguments written so far are the      *)
(* fields that the trail has there.                                        *)
Consistent(ph, t, s, k, f, i, a, o) ==
  /\ ph \in Working \cup (Final \ {"undefined"})
  /\ t \in {"format", "scan"} /\ IsText(s) /\ k \in Seq(Flat)
  /\ i \in Places(s) /\ a \in Nat
  /\ IsSequence(f) /\ IsSequence(o)
  /\ ReadOutput(o, f)
  /\ ph \in {"plain", "validating", "matching", "validated"} => o = <<>>
  /\ ph = "plain" => f = <<>>
  /\ ph \in {"validating", "matching", "validated"} =>
       Reached(t, s, k, f, i, a)
  /\ ph \in {"matching", "validated"} => EndAt(s, i, a)
  /\ ph = "formatting" => t = "format"
  /\ ph = "scanning" => t = "scan"
  /\ ph \in {"formatting", "scanning"} =>
       Passed(t, s, k, f, i, a, ArgsIn(o, Len(o)))
  /\ ph \in {"done", "leftover"} => ArgsIn(o, Len(o)) = Len(f)

ParserInv == Consistent(phase, trait, text, kinds, fields, at, auto, output)

(* An empty output.                                                        *)
LEMMA EmptySequence == IsSequence(<<>>) /\ \A f : ReadOutput(<<>>, f)
  BY DEF IsSequence, ReadOutput

(* It holds initially.                                                     *)
LEMMA ParserInit == ASSUME WithoutTuples, Init PROVE ParserInv
<1>1. PICK s \in Strings : trait = s.trait /\ text = s.text /\ kinds = s.kinds
  BY DEF Init, FormatInit
<1>2. trait \in {"format", "scan"} /\ IsText(text) /\ kinds \in Seq(Kinds)
  BY <1>1, StringsAssumption DEF IsText
<1>3. kinds \in Seq(Flat)
  <2>1. \A n \in 1..Len(kinds) : kinds[n] \in Flat
    BY <1>1, <1>2 DEF WithoutTuples, Flat, Range
  <2> QED
    BY <1>2, <2>1
<1>4. 1 \in Places(text)
  BY <1>2, CharOfText DEF Places
<1>5. Reached(trait, text, kinds, <<>>, 1, 0)
  BY <1>2, StartReached
<1>6. at = 1 /\ auto = 0 /\ fields = <<>> /\ output = <<>>
        /\ phase \in {"plain", "validating"}
  BY DEF Init, FormatInit
<1> QED
  BY <1>2, <1>3, <1>4, <1>5, <1>6, EmptySequence
     DEF ParserInv, Consistent, Working, Final

(* What the parsers see.                                                   *)
LEMMA Seen ==
  /\ AtText <=> TextAt(text, at)
  /\ AtField <=> FieldAt(text, at)
  /\ TextOk <=> TextFine(text, at)
  /\ Arg = ArgAt(text, at, auto) /\ NewAuto = NextArg(text, at, auto)
  /\ AtSentinel <=> FieldAt(text, at) /\ ArgAt(text, at, auto) = NoMoreArgs
  /\ NameOk => NameFine(text, at)
  /\ Here = Char(text, at) /\ Following = Char(text, at + 1)
  /\ Specs(SpecsAt) = Validated(trait, text, kinds, at, auto)
<1>1. Positional <=> Numbered(text, at)
  BY DEF Positional, Numbered, Following
<1>2. Name = ParseByte(text, at + 1)
  BY DEF Name
<1>3. Arg = ArgAt(text, at, auto) /\ NameEnd = NameEndAt(text, at)
        /\ NewAuto = NextArg(text, at, auto)
  BY <1>1, <1>2 DEF Arg, ArgAt, NameEnd, NameEndAt, NewAuto, NextArg
<1>4. (AtText <=> TextAt(text, at)) /\ (AtField <=> FieldAt(text, at))
        /\ (TextOk <=> TextFine(text, at))
  BY DEF AtText, TextAt, AtField, FieldAt, TextOk, TextFine, Here, Following
<1>5. AtSentinel <=> FieldAt(text, at) /\ ArgAt(text, at, auto) = NoMoreArgs
  BY <1>3, <1>4 DEF AtSentinel
<1>6. NameOk => NameFine(text, at)
  BY <1>1, <1>2, <1>3 DEF NameOk, NameFine
<1>7. Specs(SpecsAt) = Validated(trait, text, kinds, at, auto)
  BY <1>3 DEF Specs, SpecsAt, Validated, CheckedFrom
<1>8. Here = Char(text, at) /\ Following = Char(text, at + 1)
  BY DEF Here, Following
<1> QED
  BY <1>3, <1>4, <1>5, <1>6, <1>7, <1>8

(* The phases that end a run.                                              *)
LEMMA EndsBadly ==
  ASSUME ParserInv, NEW ph \in {"rejected", "terminated", "failed"},
         NEW i \in Places(text), NEW a \in Nat
  PROVE  Consistent(ph, trait, text, kinds, fields, i, a, output)
  BY DEF ParserInv, Consistent, Working, Final

(* A string without a field is written at once, without a parser.          *)
LEMMA Written ==
  ASSUME ParserInv, WritePlain PROVE ParserInv'
<1>1. /\ phase = "plain" /\ phase' = "done" /\ trait' = trait /\ text' = text
      /\ kinds' = kinds /\ fields' = fields /\ at' = at /\ auto' = auto
      /\ output' = Literals(text)
  BY DEF WritePlain, Continue, Literals
<1>2. fields = <<>> /\ output = <<>> /\ IsText(text)
  BY <1>1 DEF ParserInv, Consistent
<1> DEFINE o == Literals(text)
<1>3. IsSequence(o) /\ \A x \in 1..Len(o) : ~ IsArg(o[x])
  BY <1>2, SequenceOf, LiteralsOf DEF IsText
<1> HIDE DEF o
<1>4. Len(o) \in Nat /\ DOMAIN o = 1..Len(o)
  BY <1>3, SequenceOf DEF IsSequence
<1>5. ArgsIn(o, Len(o)) = 0
  BY <1>3, <1>4, SkippedArgs, NoArgs
<1>6. ReadOutput(o, <<>>)
  BY <1>3, <1>4 DEF ReadOutput
<1>7. Consistent("done", trait, text, kinds, fields, at, auto, o)
  BY <1>1, <1>2, <1>3, <1>5, <1>6 DEF ParserInv, Consistent, Working, Final
<1> QED
  BY <1>1, <1>7 DEF ParserInv, o

(* Each action keeps the invariant.  The checks: a character of text,      *)
LEMMA TextValidated ==
  ASSUME ParserInv, ValidateText PROVE ParserInv'
<1> DEFINE j == at + TextStep(Char(text, at))
<1>1. /\ phase = "validating" /\ phase' = phase /\ trait' = trait
      /\ text' = text
      /\ kinds' = kinds /\ fields' = fields /\ auto' = auto /\ output' = output
      /\ at' = j /\ TextAt(text, at) /\ TextFine(text, at)
  BY Seen DEF ValidateText, Continue
<1>2. /\ IsText(text) /\ at \in Places(text) /\ auto \in Nat
      /\ Len(fields) \in Nat
      /\ Reached(trait, text, kinds, fields, at, auto)
  BY <1>1, SequenceOf DEF ParserInv, Consistent, IsSequence
<1>3. j \in Places(text)
  BY <1>1, <1>2, StepOfText DEF Places
<1>4. Reached(trait, text, kinds, fields, j, auto)
  BY <1>1, <1>2, TextReached
<1> HIDE DEF j
<1>5. Consistent("validating", trait, text, kinds, fields, j, auto, output)
  BY <1>1, <1>3, <1>4 DEF ParserInv, Consistent
<1> QED
  BY <1>1, <1>5 DEF ParserInv

(* a field,                                                                *)
LEMMA FieldValidated ==
  ASSUME ParserInv, ValidateField PROVE ParserInv'
<1> DEFINE v == Validated(trait, text, kinds, at, auto)
           a == NextArg(text, at, auto)
           f == Append(fields, Field(ArgAt(text, at, auto), v.specs))
<1>1. /\ phase = "validating" /\ phase' = phase /\ trait' = trait
      /\ text' = text
      /\ kinds' = kinds /\ output' = output
      /\ FieldAt(text, at) /\ NameFine(text, at)
      /\ ArgAt(text, at, auto) # NoMoreArgs
      /\ ArgAt(text, at, auto) < Len(kinds)
      /\ v.ok /\ at' = v.at /\ fields' = f /\ auto' = a
  BY Seen DEF ValidateField, Continue, Exists
<1>2. /\ IsText(text) /\ at \in Places(text) /\ auto \in Nat
      /\ IsSequence(fields)
      /\ kinds \in Seq(Flat) /\ Reached(trait, text, kinds, fields, at, auto)
      /\ output = <<>>
  BY <1>1 DEF ParserInv, Consistent
<1>3. Reached(trait, text, kinds, f, v.at, a)
  BY <1>1, <1>2, FieldReached
<1>4. v.at \in Places(text) /\ a \in Nat
  <2>1. SameRead(text, at, v, Parsed(trait, text, kinds, at, auto))
    BY <1>1, <1>2, FieldRead
  <2> HIDE DEF v
  <2>2. v.at \in (at + 1)..(Len(text) + 1)
    BY <1>1, <2>1 DEF SameRead
  <2>3. at \in 1..Len(text) /\ Len(text) \in Nat /\ a \in Nat
    BY <1>1, <1>2, NameRead
  <2> QED
    BY <2>2, <2>3 DEF Places
<1>5. IsSequence(f)
  BY <1>2, Appending DEF Joined
<1> HIDE DEF v, a, f
<1>6. Consistent("validating", trait, text, kinds, f, v.at, a, output)
  BY <1>1, <1>2, <1>3, <1>4, <1>5, EmptySequence DEF ParserInv, Consistent
<1> QED
  BY <1>1, <1>6 DEF ParserInv

(* an error,                                                               *)
LEMMA Rejected ==
  ASSUME ParserInv, Terminate \/ RejectText \/ RejectField \/ RejectSpecs
  PROVE  ParserInv'
<1>1. /\ phase' \in {"rejected", "terminated"} /\ trait' = trait
      /\ text' = text
      /\ kinds' = kinds /\ fields' = fields /\ at' = at /\ auto' = auto
      /\ output' = output
  BY DEF Terminate, RejectText, RejectField, RejectSpecs, Continue
<1>2. at \in Places(text) /\ auto \in Nat
  BY DEF ParserInv, Consistent
<1>3. \A ph \in {"rejected", "terminated"} :
        Consistent(ph, trait, text, kinds, fields, at, auto, output)
  BY <1>2, EndsBadly
<1> QED
  BY <1>1, <1>3 DEF ParserInv

(* the end of the fields,                                                  *)
LEMMA Asked ==
  ASSUME ParserInv, AskMatched PROVE ParserInv'
<1>1. /\ phase = "validating" /\ phase' = "matching" /\ trait' = trait
      /\ text' = text /\ kinds' = kinds /\ fields' = fields /\ at' = at
      /\ auto' = auto /\ output' = output
      /\ EndAt(text, at, auto)
  BY Seen DEF AskMatched, Continue, EndAt
<1>2. Consistent("matching", trait, text, kinds, fields, at, auto, output)
  BY <1>1 DEF ParserInv, Consistent, Working
<1> QED
  BY <1>1, <1>2 DEF ParserInv

(* the check that all arguments are used,                                  *)
LEMMA Matching ==
  ASSUME ParserInv, Match PROVE ParserInv'
  BY DEF Match, stringVars, ParserInv

(* and the end.                                                            *)
LEMMA ValidationEnded ==
  ASSUME ParserInv, EndValidation PROVE ParserInv'
<1>1. /\ phase = "matching" /\ phase' \in {"validated", "rejected"}
      /\ trait' = trait
      /\ text' = text /\ kinds' = kinds /\ fields' = fields /\ at' = at
      /\ auto' = auto /\ output' = output
  BY DEF EndValidation, Continue
<1>2. Consistent("validated", trait, text, kinds, fields, at, auto, output)
  BY <1>1 DEF ParserInv, Consistent, Working
<1>3. Consistent("rejected", trait, text, kinds, fields, at, auto, output)
  BY EndsBadly DEF ParserInv, Consistent
<1> QED
  BY <1>1, <1>2, <1>3 DEF ParserInv

(* The unchecked parser starts where the checking one did.                 *)
LEMMA Begun ==
  ASSUME ParserInv, Begin PROVE ParserInv'
<1>1. /\ phase = "validated" /\ trait' = trait
      /\ phase' = IF trait = "scan" THEN "scanning" ELSE "formatting"
      /\ text' = text /\ kinds' = kinds /\ fields' = fields /\ at' = 1
      /\ auto' = 0 /\ output' = output
  BY DEF Begin, Continue
<1>2. /\ IsText(text) /\ Len(fields) \in Nat /\ at \in Places(text)
      /\ auto \in Nat /\ EndAt(text, at, auto) /\ output = <<>>
      /\ Reached(trait, text, kinds, fields, at, auto)
      /\ trait \in {"format", "scan"}
  BY <1>1, SequenceOf DEF ParserInv, Consistent, IsSequence
<1>3. Passed(trait, text, kinds, fields, 1, 0, 0) /\ 1 \in Places(text)
  BY <1>2, StartPassed, CharOfText DEF Places
<1>4. ArgsIn(output, Len(output)) = 0
  BY <1>2, NoArgs
<1>5. Consistent(IF trait = "scan" THEN "scanning" ELSE "formatting",
                 trait, text,
                 kinds, fields, 1, 0, output)
  BY <1>1, <1>2, <1>3, <1>4 DEF ParserInv, Consistent, Working
<1> QED
  BY <1>1, <1>5 DEF ParserInv

(* Writing a run of text.                                                  *)
LEMMA TextFormatted ==
  ASSUME ParserInv, FormatText PROVE ParserInv'
<1> DEFINE j == at + TextStep(Char(text, at))
           x == Literal(Here)
           o == Append(output, x)
           n == ArgsIn(output, Len(output))
<1>1. /\ phase = "formatting" /\ trait' = trait /\ text' = text
      /\ kinds' = kinds /\ fields' = fields /\ auto' = auto /\ output' = o
      /\ at' = j /\ TextAt(text, at)
      /\ phase' = IF Here = Closing /\ Following = End THEN "undefined"
                  ELSE phase
  BY Seen DEF FormatText, Continue, Skip
<1>2. /\ IsText(text) /\ at \in Places(text) /\ auto \in Nat
      /\ IsSequence(output)
      /\ ReadOutput(output, fields)
      /\ Passed(trait, text, kinds, fields, at, auto, n) /\ n \in Nat
  BY <1>1, SequenceOf, ArgsAreNat DEF ParserInv, Consistent, IsSequence
<1>3. TextFine(text, at) /\ Passed(trait, text, kinds, fields, j, auto, n)
  BY <1>1, <1>2, TextPassed
<1>4. phase' = phase
  BY <1>1, <1>3, Seen, EndInNoPart DEF TextFine
<1>5. j \in Places(text)
  BY <1>1, <1>2, <1>3, StepOfText DEF Places
<1>6. IsSequence(o) /\ ReadOutput(o, fields) /\ ArgsIn(o, Len(o)) = n
  <2>1. Joined(o, output, <<x>>)
    BY <1>2, Appending
  <2>2. \A m \in 1..Len(<<x>>) : ~ IsArg(<<x>>[m])
    BY OneIsSequence, NoArg
  <2> HIDE DEF o, x, n
  <2>3. ReadOutput(o, fields)
        /\ ArgsIn(o, Len(o)) = ArgsIn(output, Len(output))
    BY <1>2, <2>1, <2>2, TextGrows
  <2> QED
    BY <2>1, <2>3 DEF Joined, n
<1> HIDE DEF j, o, n
<1>7. Consistent("formatting", trait, text, kinds, fields, j, auto, o)
  BY <1>1, <1>3, <1>5, <1>6 DEF ParserInv, Consistent
<1> QED
  BY <1>1, <1>4, <1>7 DEF ParserInv

(* What a field of a validated string is.                                  *)
LEMMA FieldSeen ==
  ASSUME ParserInv, phase \in {"formatting", "scanning"}, AtField, ~ AtSentinel
  PROVE  LET n == ArgsIn(output, Len(output))
             p == Parsed(trait, text, kinds, at, auto)
             x == Field(Arg, p.specs) IN
         /\ Unchecked(p) /\ Exists /\ p.at \in (at + 1)..(Len(text) + 1)
         /\ NewAuto \in Nat /\ n \in Nat
         /\ n < Len(fields) /\ x = fields[n + 1]
         /\ Passed(trait, text, kinds, fields, p.at, NewAuto, n + 1)
         /\ \A o : Joined(o, output, <<x>>) =>
              ReadOutput(o, fields) /\ ArgsIn(o, Len(o)) = n + 1
<1> DEFINE n == ArgsIn(output, Len(output))
           v == Validated(trait, text, kinds, at, auto)
           p == Parsed(trait, text, kinds, at, auto)
           x == Field(Arg, p.specs)
<1>1. /\ IsText(text) /\ at \in Places(text) /\ auto \in Nat
      /\ IsSequence(output)
      /\ ReadOutput(output, fields) /\ kinds \in Seq(Flat)
      /\ IsSequence(fields)
      /\ Passed(trait, text, kinds, fields, at, auto, n)
  BY DEF ParserInv, Consistent
<1>2. n \in Nat /\ Len(fields) \in Nat
  BY <1>1, SequenceOf, ArgsAreNat DEF IsSequence
<1>3. FieldAt(text, at) /\ ArgAt(text, at, auto) # NoMoreArgs
  BY Seen
<1> HIDE DEF n
<1>4. /\ NameFine(text, at) /\ ArgAt(text, at, auto) < Len(kinds) /\ v.ok
      /\ n < Len(fields)
      /\ fields[n + 1] = Field(ArgAt(text, at, auto), v.specs)
      /\ Passed(trait, text, kinds, fields, v.at,
                NextArg(text, at, auto), n + 1)
  BY <1>1, <1>2, <1>3, FieldPassed
<1>5. /\ SameRead(text, at, v, p)
      /\ Char(text, at + 1) # End /\ Char(text, NameEndAt(text, at)) # End
      /\ Numbered(text, at) => ParseByte(text, at + 1).ok
  BY <1>1, <1>3, <1>4, FieldRead
<1> HIDE DEF v, p
<1>6. p.ok /\ p.at = v.at /\ p.specs = v.specs
      /\ v.at \in (at + 1)..(Len(text) + 1)
  BY <1>4, <1>5 DEF SameRead
<1>7. NameEnd = NameEndAt(text, at)
  BY DEF NameEnd, NameEndAt, Positional, Numbered, Following, Name
<1>8. Exists /\ Unchecked(p)
  BY <1>4, <1>5, <1>6, <1>7, Seen
     DEF Exists, Unchecked, Positional, Numbered, Following, Name
<1>9. x = fields[n + 1] /\ IsArg(x)
  BY <1>4, <1>6, Seen, FieldIsArg
<1>10. NewAuto \in Nat
  BY <1>1, <1>3, NameRead, Seen
<1> HIDE DEF x
<1>11. ASSUME NEW o, Joined(o, output, <<x>>)
       PROVE  ReadOutput(o, fields) /\ ArgsIn(o, Len(o)) = n + 1
  BY <1>1, <1>2, <1>4, <1>9, <1>11, FieldGrows DEF n
<1> QED
  BY <1>2, <1>4, <1>6, <1>8, <1>9, <1>10, <1>11, Seen DEF n, p, x

(* Writing a field.                                                        *)
LEMMA FieldFormatted ==
  ASSUME ParserInv, FormatField PROVE ParserInv'
<1> DEFINE n == ArgsIn(output, Len(output))
           p == Parsed(trait, text, kinds, at, auto)
           x == Field(Arg, p.specs)
           a == NewAuto
           o == Append(output, x)
<1>1. phase = "formatting" /\ trait = "format" /\ AtField /\ ~ AtSentinel
  BY DEF FormatField, ParserInv, Consistent
<1>2. /\ Unchecked(p) /\ Exists /\ p.at \in (at + 1)..(Len(text) + 1)
      /\ a \in Nat
      /\ Passed(trait, text, kinds, fields, p.at, a, n + 1)
      /\ \A w : Joined(w, output, <<x>>) =>
           ReadOutput(w, fields) /\ ArgsIn(w, Len(w)) = n + 1
  BY <1>1, FieldSeen
<1>3. ParseAny(text)[kinds[Arg + 1]][UncheckedSpecsAt] = p
  <2>1. NameEnd = NameEndAt(text, at)
    BY DEF NameEnd, NameEndAt, Positional, Numbered, Following, Name
  <2> QED
    BY <1>1, <2>1, Seen DEF Parsed, UncheckedFrom, UncheckedSpecsAt
<1>4. Outcome(p) \in {"formatting", "failed"}
  BY <1>2 DEF Outcome
<1>5. /\ trait' = trait /\ text' = text /\ kinds' = kinds /\ fields' = fields
      /\ auto' = a /\ phase' = Outcome(p)
      /\ at' = IF Outcome(p) = "formatting" THEN p.at ELSE at
      /\ output' = IF Outcome(p) = "formatting" THEN o ELSE output
  BY <1>2, <1>3 DEF FormatField, Continue
<1>6. /\ at \in Places(text) /\ IsText(text) /\ IsSequence(output)
  BY DEF ParserInv, Consistent
<1>7. p.at \in Places(text)
  <2>1. Len(text) \in Nat
    BY <1>6, CharOfText DEF Places
  <2> HIDE DEF p
  <2> QED
    BY <1>2, <1>6, <2>1 DEF Places
<1>8. IsSequence(o) /\ ReadOutput(o, fields) /\ ArgsIn(o, Len(o)) = n + 1
  <2>1. Joined(o, output, <<x>>)
    BY <1>6, Appending
  <2> HIDE DEF o, x, n
  <2> QED
    BY <1>2, <2>1 DEF Joined
<1> HIDE DEF p, x, a, o, n
<1>9. Consistent("formatting", trait, text, kinds, fields, p.at, a, o)
  BY <1>1, <1>2, <1>7, <1>8 DEF ParserInv, Consistent
<1>10. Consistent("failed", trait, text, kinds, fields, at, a, output)
  BY <1>2, <1>6, EndsBadly
<1> QED
  BY <1>4, <1>5, <1>9, <1>10 DEF ParserInv

(* At the end, all fields have been written.                               *)
LEMMA AtItsEnd ==
  ASSUME ParserInv, phase \in {"formatting", "scanning"},
         Here = End \/ AtSentinel
  PROVE  ArgsIn(output, Len(output)) = Len(fields)
<1> DEFINE n == ArgsIn(output, Len(output))
<1>1. /\ IsText(text) /\ at \in Places(text) /\ auto \in Nat
      /\ IsSequence(output)
      /\ Passed(trait, text, kinds, fields, at, auto, n)
  BY DEF ParserInv, Consistent
<1>2. n \in Nat
  BY <1>1, SequenceOf, ArgsAreNat DEF IsSequence
<1>3. EndAt(text, at, auto)
  BY Seen DEF EndAt
<1> HIDE DEF n
<1>4. n = Len(fields)
  BY <1>1, <1>2, <1>3, EndPassed
<1> QED
  BY <1>4 DEF n

(* The end of formatting.                                                  *)
LEMMA FormatEnded ==
  ASSUME ParserInv, EndFormat PROVE ParserInv'
<1>1. /\ phase = "formatting" /\ phase' = "done" /\ trait' = trait
      /\ text' = text /\ kinds' = kinds /\ fields' = fields /\ at' = at
      /\ auto' = auto /\ output' = output
  BY DEF EndFormat, Continue
<1>2. ArgsIn(output, Len(output)) = Len(fields)
  BY <1>1, AtItsEnd DEF EndFormat
<1>3. Consistent("done", trait, text, kinds, fields, at, auto, output)
  BY <1>1, <1>2 DEF ParserInv, Consistent, Final
<1> QED
  BY <1>1, <1>3 DEF ParserInv

(* Scanning a string without a field.                                      *)
LEMMA PlainScanned ==
  ASSUME ParserInv, ScanPlain PROVE ParserInv'
<1> DEFINE o == output \o Literals(text)
<1>1. /\ phase = "plain" /\ trait' = trait /\ text' = text
      /\ kinds' = kinds /\ fields' = fields /\ at' = at /\ auto' = auto
      /\ \/ phase' = "failed" /\ output' = output
         \/ phase' \in {"done", "leftover"} /\ output' = o
  BY DEF ScanPlain, Continue, Literals, Took, TookNothing, Finished
<1>2. fields = <<>> /\ output = <<>> /\ IsText(text)
      /\ ReadOutput(output, fields)
        /\ IsSequence(output) /\ at \in Places(text) /\ auto \in Nat
  BY <1>1 DEF ParserInv, Consistent
<1>3. IsSequence(Literals(text))
        /\ \A x \in 1..Len(Literals(text)) : ~ IsArg(Literals(text)[x])
  BY <1>2, SequenceOf, LiteralsOf DEF IsText
<1>4. Joined(o, output, Literals(text))
  BY <1>2, <1>3, Joining
<1> HIDE DEF o
<1>5. IsSequence(o) /\ ReadOutput(o, fields)
        /\ ArgsIn(o, Len(o)) = ArgsIn(output, Len(output))
  BY <1>2, <1>3, <1>4, TextGrows DEF Joined
<1>6. ArgsIn(o, Len(o)) = Len(fields)
  BY <1>2, <1>5, NoArgs
<1>7. Consistent("failed", trait, text, kinds, fields, at, auto, output)
  BY <1>2, EndsBadly
<1>8. \A ph \in {"done", "leftover"} :
        Consistent(ph, trait, text, kinds, fields, at, auto, o)
  BY <1>5, <1>6 DEF ParserInv, Consistent, Final
<1> QED
  BY <1>1, <1>7, <1>8 DEF ParserInv, o

(* Scanning text.                                                          *)
LEMMA TextScanned ==
  ASSUME ParserInv, ScanText PROVE ParserInv'
<1> DEFINE j == NextRun(text, at)
           u == Run(text, at)
           o == output \o Literals(u)
           n == ArgsIn(output, Len(output))
<1>1. /\ phase = "scanning" /\ trait' = trait /\ text' = text
      /\ kinds' = kinds /\ fields' = fields /\ auto' = auto /\ at' = j
      /\ TextAt(text, at)
      /\ \/ phase' = "failed" /\ output' = output
         \/ /\ phase' = IF j > Len(text) + 1 THEN "undefined" ELSE phase
            /\ output' = o
  BY Seen DEF ScanText, Continue, Took, TookNothing, Literals
<1>2. /\ IsText(text) /\ at \in Places(text) /\ auto \in Nat
      /\ IsSequence(output)
      /\ ReadOutput(output, fields)
      /\ Passed(trait, text, kinds, fields, at, auto, n) /\ n \in Nat
  BY <1>1, SequenceOf, ArgsAreNat DEF ParserInv, Consistent, IsSequence
<1>3. /\ j \in Places(text) /\ IsSequence(u)
      /\ Passed(trait, text, kinds, fields, j, auto, n)
  BY <1>1, <1>2, RunPassed
<1> HIDE DEF j
<1>4. ~ (j > Len(text) + 1)
  BY <1>2, <1>3, CharOfText DEF Places
<1>5. IsSequence(o) /\ ReadOutput(o, fields) /\ ArgsIn(o, Len(o)) = n
  <2>1. Joined(o, output, Literals(u))
    BY <1>2, <1>3, LiteralsOf, Joining
  <2>2. \A x \in 1..Len(Literals(u)) : ~ IsArg(Literals(u)[x])
    BY <1>3, LiteralsOf
  <2> HIDE DEF o, n, u
  <2>3. ReadOutput(o, fields)
        /\ ArgsIn(o, Len(o)) = ArgsIn(output, Len(output))
    BY <1>2, <2>1, <2>2, TextGrows
  <2> QED
    BY <2>1, <2>3 DEF Joined, n
<1> HIDE DEF o, n
<1>6. Consistent("scanning", trait, text, kinds, fields, j, auto, o)
  BY <1>1, <1>3, <1>5 DEF ParserInv, Consistent
<1>7. Consistent("failed", trait, text, kinds, fields, j, auto, output)
  BY <1>2, <1>3, EndsBadly
<1> QED
  BY <1>1, <1>4, <1>6, <1>7 DEF ParserInv

(* Scanning a field.                                                       *)
LEMMA FieldScanned ==
  ASSUME ParserInv, ScanField PROVE ParserInv'
<1> DEFINE n == ArgsIn(output, Len(output))
           p == Parsed(trait, text, kinds, at, auto)
           x == Field(Arg, p.specs)
           a == NewAuto
           o == output \o <<x>>
<1>1. phase = "scanning" /\ trait = "scan" /\ AtField /\ ~ AtSentinel
  BY DEF ScanField, ParserInv, Consistent
<1>2. /\ Unchecked(p) /\ p.at \in (at + 1)..(Len(text) + 1)
      /\ a \in Nat
      /\ Passed(trait, text, kinds, fields, p.at, a, n + 1)
      /\ \A w : Joined(w, output, <<x>>) =>
           ReadOutput(w, fields) /\ ArgsIn(w, Len(w)) = n + 1
  BY <1>1, FieldSeen
<1>3. ParseScanSpecs(text, UncheckedSpecsAt) = p
  <2>1. NameEnd = NameEndAt(text, at)
    BY DEF NameEnd, NameEndAt, Positional, Numbered, Following, Name
  <2> QED
    BY <1>1, <2>1, Seen DEF Parsed, UncheckedFrom, UncheckedSpecsAt
<1>4. /\ trait' = trait /\ text' = text /\ kinds' = kinds /\ fields' = fields
      /\ auto' = a /\ at' = p.at
      /\ \/ phase' = "failed" /\ output' = output
         \/ phase' = "scanning" /\ output' = o
  BY <1>1, <1>2, <1>3 DEF ScanField, Continue, Took
<1>5. at \in Places(text) /\ IsText(text) /\ IsSequence(output)
  BY DEF ParserInv, Consistent
<1>6. p.at \in Places(text)
  <2>1. Len(text) \in Nat
    BY <1>5, CharOfText DEF Places
  <2> HIDE DEF p
  <2> QED
    BY <1>2, <1>5, <2>1 DEF Places
<1>7. IsSequence(o) /\ ReadOutput(o, fields) /\ ArgsIn(o, Len(o)) = n + 1
  <2>1. Joined(o, output, <<x>>)
    BY <1>5, OneIsSequence, Joining
  <2> HIDE DEF o, x, n
  <2> QED
    BY <1>2, <2>1 DEF Joined
<1> HIDE DEF p, x, a, o, n
<1>8. Consistent("scanning", trait, text, kinds, fields, p.at, a, o)
  BY <1>1, <1>2, <1>6, <1>7 DEF ParserInv, Consistent
<1>9. Consistent("failed", trait, text, kinds, fields, p.at, a, output)
  BY <1>2, <1>6, EndsBadly
<1> QED
  BY <1>4, <1>8, <1>9 DEF ParserInv

(* The end of scanning.                                                    *)
LEMMA ScanEnded ==
  ASSUME ParserInv, EndScan PROVE ParserInv'
<1>1. /\ phase = "scanning" /\ phase' \in {"done", "leftover"}
      /\ trait' = trait
      /\ text' = text /\ kinds' = kinds /\ fields' = fields /\ at' = at
      /\ auto' = auto /\ output' = output
  BY DEF EndScan, Continue, Finished, TookNothing
<1>2. ArgsIn(output, Len(output)) = Len(fields)
  BY <1>1, AtItsEnd DEF EndScan
<1>3. \A ph \in {"done", "leftover"} :
        Consistent(ph, trait, text, kinds, fields, at, auto, output)
  BY <1>1, <1>2 DEF ParserInv, Consistent, Final
<1> QED
  BY <1>1, <1>3 DEF ParserInv

(* Every step keeps the invariant.                                         *)
LEMMA ParserStep == ParserInv /\ [Next]_vars => ParserInv'
<1> SUFFICES ASSUME ParserInv, [Next]_vars PROVE ParserInv'
  OBVIOUS
<1>1. CASE FormatNext
  BY <1>1, Written, TextValidated, FieldValidated, Rejected, Asked, Matching,
     ValidationEnded, Begun, TextFormatted, FieldFormatted, FormatEnded
     DEF FormatNext
<1>2. CASE ScanPlain \/ ScanText \/ ScanField \/ EndScan
  BY <1>2, PlainScanned, TextScanned, FieldScanned, ScanEnded
<1>3. CASE UNCHANGED vars
  BY <1>3 DEF vars, formatVars, stringVars, ParserInv
<1> QED
  BY <1>1, <1>2, <1>3 DEF Next

(* Whatever the parser without checks takes for granted is so in a string  *)
(* that the checking parser has accepted: format() and scan() never leave  *)
(* the string, use a value that is not there or pick an argument that does *)
(* not exist (parser_base, the debug assertions and assume_value).         *)
THEOREM ChecksSufficeAlways ==
  ASSUME WithoutTuples PROVE Spec => []ChecksSuffice
<1>1. ParserInv => ChecksSuffice
  BY DEF ParserInv, Consistent, ChecksSuffice, Working, Final
<1>2. Init => ParserInv
  BY ParserInit
<1> QED
  BY <1>1, <1>2, ParserStep, PTL DEF Spec

(* Both parsers read the same arguments with the same specs and in the     *)
(* same order, although each has a reader and an argument counter of its   *)
(* own: what is formatted or scanned is what has been validated.           *)
THEOREM ParsersAgreeAlways ==
  ASSUME WithoutTuples PROVE Spec => []ParsersAgree
<1>1. ParserInv => ParsersAgree
  <2>1. \A m : Args(m) = ArgsIn(output, m)
    BY DEF Args, ArgsIn
  <2> QED
    BY <2>1 DEF ParserInv, Consistent, ParsersAgree, ReadOutput
<1>2. Init => ParserInv
  BY ParserInit
<1> QED
  BY <1>1, <1>2, ParserStep, PTL DEF Spec

----------------------------------------------------------------------------
(* The arguments that are ticked off (Bitset).                             *)

(* What the arguments of the bitset's operations rest on.                  *)
Named ==
  IsText(text) /\ kinds \in Seq(Kinds) /\ auto \in 0..(Byte - 1)

(* The argument of a field is a number.                                    *)
LEMMA ArgIsNat == ASSUME Named, AtField PROVE Arg \in Nat
<1>1. at \in Places(text)
  <2>1. Char(text, at) # End
    BY EndInNoPart DEF AtField, Here
  <2>2. at \in DOMAIN text
    BY <2>1 DEF Char
  <2>3. DOMAIN text = 1..Len(text) /\ Len(text) \in Nat
    BY DEF Named, IsText
  <2> QED
    BY <2>2, <2>3 DEF Places
<1> QED
  BY <1>1, NameRead, Seen DEF Named

(* It holds initially,                                                     *)
LEMMA NamedInit == Init => Named
<1> SUFFICES ASSUME Init PROVE Named
  OBVIOUS
<1>1. PICK s \in Strings : text = s.text /\ kinds = s.kinds
  BY DEF Init, FormatInit
<1>2. auto \in 0..(Byte - 1)
  BY ByteBelowWord DEF Init, FormatInit
<1> QED
  BY <1>1, <1>2, StringsAssumption DEF Named, IsText

(* and every step keeps it.                                                *)
LEMMA NamedStep == Named /\ [Next]_vars => Named'
<1> SUFFICES ASSUME Named, [Next]_vars PROVE Named'
  OBVIOUS
<1>1. text' = text /\ kinds' = kinds
  BY DEF Next, FormatNext, WritePlain, ValidateText, ValidateField, Terminate,
         RejectText, RejectField, RejectSpecs, AskMatched, Match,
         EndValidation, Begin, FormatText, FormatField, EndFormat, ScanPlain,
         ScanText, ScanField, EndScan, Continue, vars, formatVars, stringVars
<1>2. auto' \in {auto, NewAuto, 0}
  BY DEF Next, FormatNext, WritePlain, ValidateText, ValidateField, Terminate,
         RejectText, RejectField, RejectSpecs, AskMatched, Match,
         EndValidation, Begin, FormatText, FormatField, EndFormat, ScanPlain,
         ScanText, ScanField, EndScan, vars, formatVars, stringVars
<1>3. NewAuto \in 0..(Byte - 1)
  BY ByteBelowWord DEF Named, NewAuto
<1>4. auto' \in 0..(Byte - 1)
  BY <1>2, <1>3, ByteBelowWord DEF Named
<1> QED
  BY <1>1, <1>4 DEF Named

(* A step of the parsers is one of the bitset or leaves it alone.          *)
LEMMA StepOfBitset ==
  Named /\ [Next]_vars => [BitsetNext]_bitsetVars
<1> SUFFICES ASSUME Named, [Next]_vars PROVE [BitsetNext]_bitsetVars
  OBVIOUS
<1>1. CASE ValidateField \/ RejectSpecs
  <2>1. AtField /\ Arg < Bits /\ SetBit(Arg)
    BY <1>1 DEF ValidateField, RejectSpecs
  <2>2. Arg \in 0..(Bits - 1)
    BY <2>1, ArgIsNat, BitsAssumption
  <2> QED
    BY <2>1, <2>2 DEF BitsetNext
<1>2. CASE AskMatched
  <2>1. AskAllFirst(Len(kinds)) /\ Len(kinds) \in Nat
    BY <1>2 DEF AskMatched, Named
  <2> QED
    BY <2>1 DEF BitsetNext
<1>3. CASE Match
  BY <1>3 DEF Match, BitsetNext
<1>4. CASE \/ WritePlain \/ ValidateText \/ Terminate \/ RejectText
           \/ RejectField \/ EndValidation \/ Begin \/ FormatText
           \/ FormatField \/ EndFormat
           \/ ScanPlain \/ ScanText \/ ScanField \/ EndScan
  BY <1>4 DEF WritePlain, ValidateText, Terminate, RejectText, RejectField,
              EndValidation, Begin, FormatText, FormatField, EndFormat,
              ScanPlain, ScanText, ScanField, EndScan
<1>5. CASE UNCHANGED vars
  BY <1>5 DEF vars, formatVars
<1> QED
  BY <1>1, <1>2, <1>3, <1>4, <1>5 DEF Next, FormatNext

(* The parsers use the bitset as its specification says.                   *)
THEOREM UsesBitset == Spec => BitsetSpec
<1>1. Init => BitsetInit
  BY DEF Init, FormatInit
<1> QED
  BY <1>1, NamedInit, NamedStep, StepOfBitset, PTL DEF Spec, BitsetSpec

----------------------------------------------------------------------------
(* Every argument is used (FormatString).                                  *)

(* The arguments of the fields.                                            *)
Ticked(f) == {f[n].arg : n \in 1..Len(f)}

(* The phases behind a validation that has succeeded, and what they are    *)
(* about: all arguments appear in the string, and nothing else.            *)
Accepted ==
  {"validated", "formatting", "scanning", "done", "leftover", "failed",
   "undefined"}

ArgumentsUsed ==
  phase \in Accepted => Ticked(fields) = 0..(Len(kinds) - 1)

(* While validating, the bitset holds the arguments of the fields; its     *)
(* answer is about all of them.                                            *)
Ticking(ph, k, f, set, q, m, a) ==
  /\ IsSequence(f) /\ Ticked(f) \subseteq 0..(Len(k) - 1)
  /\ ph \in {"validating", "matching"} => set = Ticked(f)
  /\ ph = "matching" => m = Len(k) /\ (q = "none" => a # "none")
  /\ ph = "plain" => k = <<>>
  /\ ph \in Accepted => 0..(Len(k) - 1) \subseteq Ticked(f)

TickingInv == Ticking(phase, kinds, fields, given, query, asked, answer)

(* It holds initially.                                                     *)
LEMMA TickingInit == Init => TickingInv
<1> SUFFICES ASSUME Init PROVE TickingInv
  OBVIOUS
<1>1. /\ fields = <<>> /\ given = {}
      /\ phase = "validating" \/ (phase = "plain" /\ kinds = <<>>)
  BY DEF Init, FormatInit, BitsetInit, Plain
<1>2. IsSequence(<<>>) /\ Ticked(<<>>) = {}
  BY EmptySequence DEF Ticked
<1> QED
  BY <1>1, <1>2 DEF TickingInv, Ticking, Accepted

(* An accepted field adds its argument.                                    *)
LEMMA TickedOnce ==
  ASSUME NEW f, IsSequence(f), NEW a, NEW specs
  PROVE  LET g == Append(f, Field(a, specs)) IN
         IsSequence(g) /\ Ticked(g) = Ticked(f) \cup {a}
<1> DEFINE x == Field(a, specs)
           g == Append(f, x)
           n == Len(f)
<1>1. Joined(g, f, <<x>>)
  BY Appending
<1>2. x.arg = a
  BY DEF Field
<1> HIDE DEF x, g
<1>3. n \in Nat /\ IsSequence(g) /\ Len(g) = n + 1 /\ g[n + 1] = x
      /\ \A m \in 1..n : g[m] = f[m]
  BY <1>1, OneIsSequence DEF Joined
<1> HIDE DEF n
<1>4. ASSUME NEW m \in 1..Len(g) PROVE g[m].arg \in Ticked(f) \cup {a}
  <2>1. m \in 1..n \/ m = n + 1
    BY <1>3
  <2> QED
    BY <1>2, <1>3, <2>1 DEF Ticked, n
<1>5. ASSUME NEW m \in 1..n PROVE f[m].arg \in Ticked(g)
  <2>1. m \in 1..Len(g) /\ g[m] = f[m]
    BY <1>3
  <2>2. g[m].arg \in Ticked(g)
    BY <2>1 DEF Ticked
  <2> QED
    BY <2>1, <2>2
<1>6. a \in Ticked(g)
  <2>1. n + 1 \in 1..Len(g)
    BY <1>3
  <2> QED
    BY <1>2, <1>3, <2>1 DEF Ticked
<1>7. Ticked(g) \subseteq Ticked(f) \cup {a}
  BY <1>4 DEF Ticked
<1>8. Ticked(f) \subseteq Ticked(g)
  BY <1>5 DEF Ticked, n
<1> QED
  BY <1>3, <1>6, <1>7, <1>8 DEF x, g

(* Every step keeps it.                                                    *)
LEMMA TickingStep ==
  Named /\ AnswersRight /\ TickingInv /\ [Next]_vars => TickingInv'
<1> SUFFICES ASSUME Named, AnswersRight, TickingInv, [Next]_vars
             PROVE  TickingInv'
  OBVIOUS
<1> USE DEF Continue, bitsetVars
<1>1. CASE ValidateField
  <2>1. AtField /\ Arg < Len(kinds) /\ phase = "validating"
    BY <1>1 DEF ValidateField, Exists
  <2>2. Arg \in 0..(Len(kinds) - 1)
    BY <2>1, ArgIsNat DEF Named
  <2>3. PICK specs : fields' = Append(fields, Field(Arg, specs))
    BY <1>1 DEF ValidateField
  <2>4. given' = given \cup {Arg} /\ phase' = phase /\ kinds' = kinds
    BY <1>1 DEF ValidateField, SetBit
  <2>5. IsSequence(fields') /\ Ticked(fields') = Ticked(fields) \cup {Arg}
    BY <2>3, TickedOnce DEF TickingInv, Ticking
  <2>6. Ticking("validating", kinds, fields', given', query', asked', answer')
    BY <2>1, <2>2, <2>4, <2>5 DEF TickingInv, Ticking, Accepted
  <2> QED
    BY <2>1, <2>4, <2>6 DEF TickingInv
<1>2. CASE \/ WritePlain \/ ValidateText \/ Terminate \/ RejectText
           \/ RejectField \/ RejectSpecs \/ Begin \/ FormatText
           \/ FormatField \/ EndFormat
           \/ ScanPlain \/ ScanText \/ ScanField \/ EndScan
  <2>1. /\ kinds' = kinds /\ fields' = fields
        /\ \/ phase' = phase /\ given' = given /\ phase # "matching"
           \/ phase \in Accepted /\ phase' \in Accepted
           \/ phase = "plain" /\ phase' \in Accepted
           \/ phase' \in {"rejected", "terminated"}
    BY <1>2 DEF WritePlain, ValidateText, Terminate, RejectText, RejectField,
              RejectSpecs, Begin, FormatText,
              FormatField, Outcome, EndFormat, ScanPlain, ScanText, ScanField,
              EndScan, Finished, Accepted
  <2>2. phase = "plain" => 0..(Len(kinds) - 1) \subseteq Ticked(fields)
    BY DEF TickingInv, Ticking
  <2> QED
    BY <2>1, <2>2 DEF TickingInv, Ticking, Accepted
<1>3. CASE AskMatched
  <2>1. /\ kinds' = kinds /\ fields' = fields /\ given' = given
        /\ phase = "validating" /\ phase' = "matching"
        /\ asked' = Len(kinds)
        /\ query' = "none" => answer' # "none"
    BY <1>3 DEF AskMatched, AskAllFirst, Answered
  <2> QED
    BY <2>1 DEF TickingInv, Ticking, Accepted
<1>4. CASE Match
  <2>1. /\ kinds' = kinds /\ fields' = fields /\ given' = given
        /\ phase = "matching" /\ phase' = "matching"
        /\ asked' = asked
        /\ query' = "none" => answer' # "none"
    BY <1>4 DEF Match, AllFirst, NextWord, LastWord, NextBit, EndOfBits,
                Answered, stringVars
  <2> QED
    BY <2>1 DEF TickingInv, Ticking, Accepted
<1>5. CASE EndValidation
  <2>1. /\ kinds' = kinds /\ fields' = fields
        /\ phase = "matching" /\ query = "none"
        /\ phase' = IF answer = "yes" THEN "validated" ELSE "rejected"
    BY <1>5 DEF EndValidation
  <2>2. answer = "yes" => 0..(Len(kinds) - 1) \subseteq given
    BY <2>1 DEF TickingInv, Ticking, AnswersRight
  <2> QED
    BY <2>1, <2>2 DEF TickingInv, Ticking, Accepted
<1>6. CASE UNCHANGED vars
  BY <1>6 DEF vars, formatVars, stringVars, TickingInv
<1> QED
  BY <1>1, <1>2, <1>3, <1>4, <1>5, <1>6 DEF Next, FormatNext

(* A string is accepted only if its fields name all arguments and nothing  *)
(* else; so each is formatted or scanned (validate, all_first).            *)
THEOREM AllArgumentsUsed == Spec => []ArgumentsUsed
<1>1. TickingInv => ArgumentsUsed
  BY DEF TickingInv, Ticking, ArgumentsUsed
<1> QED
  BY <1>1, UsesBitset, AnswersAreRight, NamedInit, NamedStep, TickingInit,
     TickingStep, PTL DEF Spec

(* An output that has n arguments has an m-th one, for each m up to n.     *)
LEMMA EachArg ==
  ASSUME NEW out, NEW n \in Nat, NEW m \in 1..ArgsIn(out, n)
  PROVE  \E i \in 1..n : IsArg(out[i]) /\ ArgsIn(out, i) = m
<1> DEFINE P == {i \in 0..n : m <= ArgsIn(out, i)}
<1>1. ASSUME NEW i \in 0..n PROVE ArgsIn(out, i) \in Nat
  BY ArgsAreNat
<1>2. n \in P /\ m \in Nat /\ n \in Int /\ 0 <= n
  BY <1>1
<1> HIDE DEF P
<1>3. PICK i \in 0..n : i \in P /\ \A k \in 0..(i - 1) : k \notin P
  <2> DEFINE first == 0
  <2>1. first \in Int /\ first <= n
    BY <1>2
  <2> HIDE DEF first
  <2>2. \E i \in first..n : i \in P /\ \A k \in first..(i - 1) : k \notin P
    BY <1>2, <2>1, FirstPlace
  <2> QED
    BY <2>2 DEF first
<1>4. m <= ArgsIn(out, i) /\ ArgsIn(out, 0) = 0 /\ i > 0
  BY <1>2, <1>3, NoArgs DEF P
<1> DEFINE j == i - 1
<1>5. j \in Nat /\ j \in 0..n /\ j \in 0..(i - 1) /\ i = j + 1 /\ i \in 1..n
  BY <1>3, <1>4
<1>6. ArgsIn(out, j) < m /\ ArgsIn(out, j) \in Nat
  BY <1>1, <1>2, <1>3, <1>5 DEF P
<1> HIDE DEF j
<1>7. IsArg(out[i])
  <2> SUFFICES ASSUME ~ IsArg(out[i]) PROVE FALSE
    OBVIOUS
  <2>1. \A k \in (j + 1)..i : ~ IsArg(out[k])
    BY <1>5
  <2>2. ArgsIn(out, i) = ArgsIn(out, j)
    BY <1>5, <2>1, SkippedArgs
  <2> QED
    BY <1>2, <1>4, <1>6, <2>2
<1>8. ArgsIn(out, i) = ArgsIn(out, j) + 1
  BY <1>5, <1>7, OneMoreArg
<1> QED
  BY <1>2, <1>4, <1>5, <1>6, <1>7, <1>8

(* In the end each argument has been written or read, and nothing that is  *)
(* no argument: a call never drops one of its arguments and never invents  *)
(* one (validate with all_first, parse).                                   *)
THEOREM EveryArgumentAlways ==
  ASSUME WithoutTuples PROVE Spec => []EveryArgument
<1>1. ParserInv /\ TickingInv => EveryArgument
  <2> SUFFICES ASSUME ParserInv, TickingInv, phase \in {"done", "leftover"}
               PROVE  {output[i].arg :
                         i \in {j \in DOMAIN output : IsArg(output[j])}}
                        = 0..(Len(kinds) - 1)
    BY DEF EveryArgument
  <2> DEFINE n == Len(output)
  <2>1. /\ DOMAIN output = 1..n /\ n \in Nat /\ Len(fields) \in Nat
        /\ ReadOutput(output, fields) /\ ArgsIn(output, n) = Len(fields)
    BY SequenceOf DEF ParserInv, Consistent, IsSequence
  <2>2. Ticked(fields) = 0..(Len(kinds) - 1)
    BY DEF TickingInv, Ticking, Accepted
  <2> HIDE DEF n
  <2>3. ASSUME NEW i \in 1..n, IsArg(output[i])
        PROVE  output[i].arg \in Ticked(fields)
    <3>1. output[i] = fields[ArgsIn(output, i)]
            /\ ArgsIn(output, i) <= Len(fields)
      BY <2>1, <2>3 DEF ReadOutput
    <3>2. i - 1 \in Nat /\ (i - 1) + 1 = i
      BY <2>1
    <3>3. ArgsIn(output, i) \in Nat /\ ArgsIn(output, i) # 0
      BY <2>3, <3>2, OneMoreArg, ArgsAreNat
    <3> QED
      BY <2>1, <3>1, <3>3 DEF Ticked
  <2>4. ASSUME NEW m \in 1..Len(fields)
        PROVE  \E i \in 1..n :
                 IsArg(output[i]) /\ output[i].arg = fields[m].arg
    <3>1. PICK i \in 1..n : IsArg(output[i]) /\ ArgsIn(output, i) = m
      BY <2>1, EachArg
    <3> QED
      BY <2>1, <3>1 DEF ReadOutput
  <2> QED
    BY <2>1, <2>2, <2>3, <2>4 DEF Ticked
<1>2. Init => ParserInv
  BY ParserInit
<1> QED
  BY <1>1, <1>2, ParserStep, NamedInit, NamedStep, TickingInit, TickingStep,
     UsesBitset, AnswersAreRight, PTL DEF Spec
============================================================================
