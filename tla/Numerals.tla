------------------------------ MODULE Numerals ------------------------------
(***************************************************************************)
(* The numerals of integers (detail/conversion.hpp): how many digits a     *)
(* number will have, which is asked before a write area is requested, and  *)
(* the digits themselves, which are then written into that area from its   *)
(* end.  The two are computed independently of each other.                 *)
(***************************************************************************)
EXTENDS Reader

Unsigned == 0..(Word - 1)

IsValidBase(base) == base \in 2..36

(* digit_to_char.                                                          *)
DigitToChar(d, upper) ==
  IF d >= 10 THEN IF upper THEN Upper[d - 9] ELSE Lower[d - 9]
  ELSE Digits[d + 1]

(* to_absolute: the two's complement of a negative number.                 *)
ToAbsolute(n) == IF n < 0 THEN (0 - (n % Word)) % Word ELSE n

(* Mutant: the smallest number of four digits is given three. *)
CountDigits10Short(n) ==
  LET count[m \in Unsigned] ==
        IF m < 10 THEN 1 ELSE IF m < 100 THEN 2
        ELSE IF m <= 1000 THEN 3 ELSE IF m < 10000 THEN 4
        ELSE 4 + count[m \div 10000]
  IN count[n]

(* count_digits_10: groups of four digits.                                 *)
CountDigits10(n) ==
  LET count[m \in Unsigned] ==
        IF m < 10 THEN 1 ELSE IF m < 100 THEN 2
        ELSE IF m < 1000 THEN 3 ELSE IF m < 10000 THEN 4
        ELSE 4 + count[m \div 10000]
  IN count[n]

(* std::bit_width.                                                         *)
BitWidth(n) ==
  LET width[m \in Unsigned] == IF m = 0 THEN 0 ELSE 1 + width[m \div 2]
  IN width[n]

BitsOf == [base \in {2, 8, 16} |->
             CASE base = 2 -> 1 [] base = 8 -> 3 [] base = 16 -> 4]

(* get_number_of_digits.                                                   *)
CountOther(n, base) ==
  LET count[m \in Unsigned] ==
        IF m < base THEN 1 ELSE 1 + count[m \div base]
  IN count[n]

NumberOfDigits(n, base) ==
  IF n = 0 THEN 1
  ELSE IF base = 10 THEN CountDigits10(n)
  ELSE IF base \in DOMAIN BitsOf
    THEN (BitWidth(n) + BitsOf[base] - 1) \div BitsOf[base]
  ELSE CountOther(n, base)

(* Mutant: the zero in front of the second digit is left out.              *)
PairWithoutZero(n) ==
  IF n < 10 THEN <<Digits[n + 1]>>
  ELSE <<Digits[(n \div 10) + 1], Digits[(n % 10) + 1]>>

(* write_decimal: two digits at a time.                                    *)
Digits2(n) == <<Digits[(n \div 10) + 1], Digits[(n % 10) + 1]>>

WriteDecimal(n) ==
  LET written[m \in Unsigned] ==
        IF m >= 100 THEN written[m \div 100] \o Digits2(m % 100)
        ELSE IF m < 10 THEN <<Digits[m + 1]>> ELSE Digits2(m)
  IN written[n]

(* write_uint, which goes on until nothing is left, and the loop of        *)
(* write_number, in which zero is a case of its own.                       *)
WriteUint(n, base, upper) ==
  LET written[m \in Unsigned] ==
        (IF m \div base = 0 THEN <<>> ELSE written[m \div base])
          \o <<DigitToChar(m % base, upper)>>
  IN written[n]

WriteOther(n, base, upper) ==
  LET written[m \in Unsigned] ==
        IF m = 0 THEN <<>>
        ELSE written[m \div base] \o <<DigitToChar(m % base, upper)>>
  IN written[n]

WriteNumber(n, base, upper) ==
  IF base = 10 THEN WriteDecimal(n)
  ELSE IF base \in DOMAIN BitsOf THEN WriteUint(n, base, upper)
  ELSE IF n = 0 THEN <<"0">> ELSE WriteOther(n, base, upper)
=============================================================================
