----------------------------- MODULE FloatText ------------------------------
(***************************************************************************)
(* How the digits of a floating-point number are laid out: in fixed or in  *)
(* exponent notation, with zeros in front of them and behind them.  The    *)
(* characters are counted first, for the padding and the write area, and   *)
(* then written into that area; both are here, each as the code has it.    *)
(* Digits are f.digits, 0.d1d2... * 10^f.exp.                              *)
(***************************************************************************)
EXTENDS FormatSpecs, Numerals

CONSTANTS
  DefaultPrecision, (* 6                                                   *)
  ExpLower,         (* -4, exponents from here ...                         *)
  ExpUpper          (* 16, ... up to here are written in fixed notation    *)

ASSUME NotationAssumption ==
  /\ DefaultPrecision \in Nat /\ {ExpLower, ExpUpper} \subseteq Int
  /\ Word >= 1000

(* parse_fp_format_specs.  At least one digit is calculated.               *)
FpFormat(type) ==
  IF type \in {"e", "E"} THEN "exp"
  ELSE IF type \in {"f", "F"} THEN "fixed" ELSE "general"

(* static_cast<int16_t>, half as wide as an int: here that is a byte.      *)
Narrowed(n) == ((n + (Byte \div 2)) % Byte) - (Byte \div 2)

FpPrecision(specs) ==
  LET p == IF specs.precision >= 0 \/ specs.type = "none"
             THEN Narrowed(specs.precision) ELSE DefaultPrecision
      q == IF FpFormat(specs.type) = "exp" THEN p + 1 ELSE p
  IN IF FpFormat(specs.type) # "fixed" /\ q = 0 THEN 1 ELSE q

FpSpecs(specs) ==
  [precision |-> FpPrecision(specs),
   format |-> FpFormat(specs.type),
   upper |-> specs.type \in {"E", "F", "G"},
   point |-> \/ specs.alternate
             \/ FpFormat(specs.type) # "general" /\ specs.precision # 0]

Zeros(n) == [i \in 1..n |-> "0"]
NoLess(n) == IF n < 0 THEN 0 ELSE n

(* The digits without the zeros at their end, of which the first stays.    *)
Significand(fp, f) ==
  LET n == CHOOSE n \in 1..Len(f.digits) :
             /\ n > 1 => f.digits[n] # 0
             /\ \A i \in (n + 1)..Len(f.digits) : f.digits[i] = 0
      kept == IF fp.format = "general" /\ Len(f.digits) > 1
                THEN SubSeq(f.digits, 1, n) ELSE f.digits
  IN [i \in DOMAIN kept |-> Digits[kept[i] + 1]]

UsesExponent(fp, exp) ==
  \/ fp.format = "exp"
  \/ /\ fp.format = "general"
     /\ exp < ExpLower
        \/ exp >= IF fp.precision > 0 THEN fp.precision ELSE ExpUpper

(* write_exponent: at least two digits.                                    *)
Exponent(exp) ==
  IF exp < 0
    THEN <<"-">> \o (IF exp > -10 THEN <<"0">> ELSE <<>>) \o WriteDecimal(-exp)
    ELSE <<"+">> \o (IF exp < 10 THEN <<"0">> ELSE <<>>) \o WriteDecimal(exp)

(* The exponent notation.                                                  *)
Scientific(fp, sig, exp) ==
  LET zeros == IF fp.point THEN NoLess(fp.precision - Len(sig)) ELSE 0
      point == fp.point \/ Len(sig) > 1
      abs == IF exp < 0 THEN -exp ELSE exp
  IN [counted |-> Len(sig) + zeros + (IF point THEN 1 ELSE 0) + 2
                    + (IF abs >= 100 THEN 3 ELSE 2),
      text |-> SubSeq(sig, 1, 1)
                 \o (IF point THEN <<".">> \o SubSeq(sig, 2, Len(sig))
                     ELSE <<>>)
                 \o Zeros(zeros) \o <<IF fp.upper THEN "E" ELSE "e">>
                 \o Exponent(exp)]

(* The fixed notation of a number below one, ...                           *)
Fraction(fp, hash, sig, exp) ==
  LET zeros == -exp - 1
      behind == IF hash THEN NoLess(fp.precision - Len(sig)) ELSE 0
  IN [counted |-> Len(sig) + 2 + zeros + behind,
      text |-> <<"0", ".">> \o Zeros(zeros) \o sig \o Zeros(behind)]

(* ... of one without a fraction, ...                                      *)
Integer(fp, hash, sig, exp) ==
  LET zeros == exp - Len(sig) + 1
      behind == IF ~ fp.point THEN 0
                ELSE IF hash THEN NoLess(fp.precision - Len(sig) - zeros)
                ELSE IF zeros = 0 THEN NoLess(fp.precision) ELSE 0
  IN [counted |-> Len(sig) + zeros + behind + (IF fp.point THEN 1 ELSE 0),
      text |-> sig \o Zeros(zeros)
                 \o (IF fp.point THEN <<".">> \o Zeros(behind) ELSE <<>>)]

(* ... and of one with both parts.                                         *)
Mixed(fp, hash, sig, exp) ==
  LET fraction == Len(sig) - (exp + 1)
      behind == IF fp.format = "fixed" /\ fraction < fp.precision
                  THEN fp.precision - fraction
                ELSE IF hash THEN NoLess(fp.precision - Len(sig)) ELSE 0
  IN [counted |-> Len(sig) + 1 + behind,
      text |-> SubSeq(sig, 1, exp + 1) \o <<".">>
                 \o SubSeq(sig, exp + 2, Len(sig)) \o Zeros(behind)]

(* write_decimal.                                                          *)
Decimal(specs, f) ==
  LET fp == FpSpecs(specs)
      sig == Significand(fp, f)
      exp == f.exp - 1
      hash == specs.alternate /\ fp.format = "general"
  IN IF UsesExponent(fp, exp) THEN Scientific(fp, sig, exp)
     ELSE IF exp < 0 THEN Fraction(fp, hash, sig, exp)
     ELSE IF exp + 1 >= Len(sig) THEN Integer(fp, hash, sig, exp)
     ELSE Mixed(fp, hash, sig, exp)
=============================================================================
