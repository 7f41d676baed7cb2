------------------------------- MODULE Reader -------------------------------
(***************************************************************************)
(* emio::reader: what is read at a position of a string.  A string is a    *)
(* sequence of characters, the position is the index of the next one.      *)
(* Behind the end stands End, which matches nothing.  An operation answers *)
(* with the position it leaves the reader at, or with whether it succeeds. *)
(***************************************************************************)
EXTENDS Integers, SequencesExt

CONSTANTS
  Word,        (* 2^32, the values of uint32_t                             *)
  Byte         (* 2^8, the values of uint8_t                               *)

ASSUME WidthAssumption == {Word, Byte} \subseteq Nat \ {0} /\ Byte <= Word

MaxInt == Word \div 2 - 1
MinInt == - (MaxInt + 1)

(* What encloses a field, and the space.                                   *)
Opening == "{"
Closing == "}"
Blank == " "

End == "end"
Char(s, i) == IF i \in DOMAIN s THEN s[i] ELSE End

Digits == <<"0", "1", "2", "3", "4", "5", "6", "7", "8", "9">>
Digit == {Digits[n] : n \in 1..10}

(* The characters between '9' and 'A', and the letters.                    *)
Between == <<":", ";", "<", "=", ">", "?", "@">>
Upper ==
  <<"A", "B", "C", "D", "E", "F", "G", "H", "I", "J", "K", "L", "M", "N",
    "O", "P", "Q", "R", "S", "T", "U", "V", "W", "X", "Y", "Z">>
Lower ==
  <<"a", "b", "c", "d", "e", "f", "g", "h", "i", "j", "k", "l", "m", "n",
    "o", "p", "q", "r", "s", "t", "u", "v", "w", "x", "y", "z">>

Alpha == Range(Upper) \cup Range(Lower)

(* char_to_digit takes every character from '0' on for a digit of some     *)
(* base; those between '9' and 'A' too.  In each row it is the index.      *)
DigitRows == <<Digits \o Between, Digits \o Upper, Digits \o Lower>>
CharValue ==
  [c \in Range(Digits \o Between) \cup Alpha |->
     CHOOSE n \in 0..35 :
       \E r \in 1..3 : n < Len(DigitRows[r]) /\ DigitRows[r][n + 1] = c]

DigitsOf ==
  [base \in 2..36 |-> {c \in DOMAIN CharValue : CharValue[c] < base}]

IsDigit(c, base) == c \in DigitsOf[base]

----------------------------------------------------------------------------
(* parse_int from a position: the digits up to the first other character.  *)

DigitsEnd(s, base) ==
  [i \in 1..(Len(s) + 1) |->
     CHOOSE j \in i..(Len(s) + 1) :
       /\ ~ IsDigit(Char(s, j), base)
       /\ \A k \in i..(j - 1) : IsDigit(s[k], base)]

(* The value of n in a type whose least value is low.                      *)
Wrapped(n, low) == ((n - low) % Word) + low

(* The value after each digit from position i on.                          *)
Accumulated(s, i, j, base, sign, low) ==
  LET acc[k \in (i - 1)..(j - 1)] ==
        IF k < i THEN 0
        ELSE Wrapped(acc[k - 1] * base + sign * CharValue[s[k]], low)
  IN acc

(* parse_int<uint32_t>: each value is compared with the one before, so a   *)
(* product that passes Word and still is no smaller goes unnoticed.        *)
ParseUnsigned(s, base) ==
  [i \in 1..(Len(s) + 1) |->
     LET j == DigitsEnd(s, base)[i]
         acc == Accumulated(s, i, j, base, 1, 0)
     IN [ok |-> i < j /\ \A k \in i..(j - 1) : acc[k] >= acc[k - 1],
         value |-> acc[j - 1], next |-> j]]

(* parse_int<uint8_t>(10), the same and a check of the range.              *)
ParseByte(s, i) ==
  LET n == ParseUnsigned(s, 10)[i] IN [n EXCEPT !.ok = @ /\ n.value < Byte]

(* parse_int<int32_t>: an overflow is undefined.  Builds wrap the value    *)
(* and find out when it turns round, or take the comparison for needless.  *)
ParseSigned(s, i, base, negative) ==
  LET j == DigitsEnd(s, base)[i]
      sign == IF negative THEN -1 ELSE 1
      acc == Accumulated(s, i, j, base, sign, MinInt)
      turns == \E k \in i..(j - 1) : sign * (acc[k] - acc[k - 1]) < 0
      result == [ok |-> i < j, value |-> acc[j - 1], next |-> j]
  IN {result, [result EXCEPT !.ok = @ /\ ~ turns]}

(* parse_sign: the position behind it, at which there must be something.   *)
SignEnd(s, i) == IF Char(s, i) \in {"+", "-"} THEN i + 1 ELSE i
Negative(s, i) == Char(s, i) = "-"

----------------------------------------------------------------------------
(* read_if_match_str, and read_until_str with keep_delimiter.              *)

Matches(s, i, u) ==
  i + Len(u) <= Len(s) + 1 /\ SubSeq(s, i, i + Len(u) - 1) = u

Occurrences(s, i, u) == {j \in i..(Len(s) + 1) : Matches(s, j, u)}

UntilStr(s, i, u) ==
  LET found == Occurrences(s, i, u)
  IN IF found = {} THEN Len(s) + 1
     ELSE CHOOSE j \in found : \A k \in found : j <= k
=============================================================================
