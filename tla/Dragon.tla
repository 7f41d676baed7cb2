------------------------------- MODULE Dragon -------------------------------
(***************************************************************************)
(* The decimal digits of a floating-point number (detail/format/decode.hpp *)
(* and dragon.hpp): to a number of digits or to a decimal place, or as few *)
(* as it takes to read the same number back.  The result is                *)
(*                                                                         *)
(*   0.d[1]d[2]...d[n] * 10^k                                              *)
(*                                                                         *)
(* An action is one turn of a loop, or what is done before and after it.   *)
(***************************************************************************)
EXTENDS Bignum

CONSTANTS
  FracBits,    (* 52, the bits of the fraction of a double                 *)
  ExpBits,     (* 11, the bits of its exponent                             *)
  MaxDigits10  (* 17, digits that are enough to tell any two doubles apart *)

ASSUME FloatAssumption == {FracBits, ExpBits, MaxDigits10} \subseteq Nat \ {0}

VARIABLES
  stage,       (* "idle", "exact", "shortest", "generated"                 *)
  finite,      (* finite_result_t                                          *)
  limit,       (* the mode of format_exact and number_of_digits            *)
  mant, minus, plus, scale,
  k, len, digits

dragonVars ==
  <<stage, finite, limit, mant, minus, plus, scale, k, len, digits>>

----------------------------------------------------------------------------
(* decode.                                                                 *)

Hidden == 2 ^ FracBits
LowestExp == 1 - 2 ^ (ExpBits - 1) - FracBits

Category(v) ==
  IF v.exponent = 0 /\ v.fraction = 0 THEN "zero"
  ELSE IF v.exponent < 2 ^ ExpBits - 1 THEN "finite"
  ELSE IF v.fraction = 0 THEN "infinity" ELSE "nan"

(* The number is mant * 2^exp, halfway to its neighbours minus or plus.    *)
Decode(v) ==
  IF v.exponent = 0
    THEN [mant |-> 2 * v.fraction, exp |-> LowestExp,
          minus |-> 1, plus |-> 1, inclusive |-> TRUE]
  ELSE IF v.fraction = 0
    THEN [mant |-> 4 * Hidden, exp |-> v.exponent + LowestExp - 2,
          minus |-> 1, plus |-> 2, inclusive |-> TRUE]
  ELSE [mant |-> 2 * (Hidden + v.fraction),
        exp |-> v.exponent + LowestExp - 1,
        minus |-> 1, plus |-> 1, inclusive |-> v.fraction % 2 = 0]

----------------------------------------------------------------------------
(* estimate_scaling_factor, with log10(2) rounded down to five places.     *)
Estimate(n, exp) ==
  LET nbits == CHOOSE b \in 0..n :
                 2 ^ b >= n /\ \A c \in 0..(b - 1) : 2 ^ c < n
  IN ((nbits + exp) * 30102) \div 100000

Positive(n) == IF n > 0 THEN n ELSE 0

(* Mutant: ten is five and two, of which the two is forgotten.             *)
NumeratorOfFive(n, exp, k0) ==
  MulPow2[MulPow5[FromNumber(n), Positive(-k0)], Positive(exp)]

(* n * 2^exp / 10^k0 is the first of these by the second.                  *)
Numerator(n, exp, k0) ==
  MulPow2[MulPow5[FromNumber(n), Positive(-k0)], Positive(exp) + Positive(-k0)]

Denominator(exp, k0) ==
  MulPow2[MulPow5[<<1>>, Positive(k0)], Positive(-exp) + Positive(k0)]

(* floor(m / s), found by subtracting 8, 4, 2 and 1 times s.               *)
NextDigit(m, s) ==
  LET Kept(r) == [r EXCEPT !.bit = @ - 1]
      Off(r) == [rest |-> Sub[r.rest, MulPow2[s, r.bit]],
                 digit |-> r.digit + 2 ^ r.bit, bit |-> r.bit - 1]
      reduced[r \in [rest : Seq(Nat), digit : Nat, bit : -1..3]] ==
        IF r.bit < 0 THEN r
        ELSE reduced[IF Less[r.rest, MulPow2[s, r.bit]] THEN Kept(r)
                     ELSE Off(r)]
  IN reduced[[rest |-> m, digit |-> 0, bit |-> 3]]

(* Mutant: the last digit is increased, a nine too.                        *)
RoundUpLast(d) == [d EXCEPT ![Len(d)] = @ + 1]

(* round_up.  Nines become zeros and carry into one more digit, which is   *)
(* the first one if there was none.                                        *)
Carries(d) == \A i \in DOMAIN d : d[i] = 9

RoundUp(d) ==
  IF Carries(d)
    THEN [i \in DOMAIN d |-> IF i = 1 THEN 1 ELSE 0]
  ELSE LET last == CHOOSE i \in DOMAIN d :
                     d[i] # 9 /\ \A j \in (i + 1)..Len(d) : d[j] = 9
       IN [i \in DOMAIN d |-> IF i < last THEN d[i]
                              ELSE IF i = last THEN d[i] + 1 ELSE 0]

CarriedDigit(d) == IF d = <<>> THEN 1 ELSE 0

----------------------------------------------------------------------------
(* format_exact.                                                           *)

(* Mutant: one digit of the estimate is not added when it was too low.     *)
LenOfEstimate(mode, n, k0, over) ==
  IF mode = "significand_digits" THEN n ELSE Positive(k0 + n)

LenFor(mode, n, k0, over) ==
  IF mode = "significand_digits" THEN n
  ELSE IF k0 + n < 0 THEN 0
  ELSE IF over THEN k0 + n + 1 ELSE k0 + n

(* The estimate was too low by one.                                        *)
TooLow(m, s) == ~ Less[m, s]
Scaled(over, x) == IF over THEN x ELSE MulSmall[x, 10]

StartExact(f, mode, n) ==
  \E k0 \in {Estimate(f.mant, f.exp)} :
  \E m \in {Numerator(f.mant, f.exp, k0)}, s \in {Denominator(f.exp, k0)} :
    LET over == TooLow(m, s) IN
    /\ stage' = "exact"
    /\ finite' = f
    /\ limit' = [mode |-> mode, n |-> n]
    /\ mant' = Scaled(over, m)
    /\ minus' = <<1>> /\ plus' = <<1>>
    /\ scale' = s
    /\ k' = IF over THEN k0 + 1 ELSE k0
    /\ len' = LenFor(mode, n, k0, over)
    /\ digits' = <<>>

(* Mutant: the loop turns without writing the zero.                        *)
ExactZeroKept ==
  /\ stage = "exact" /\ Len(digits) < len /\ IsZero(mant)
  /\ UNCHANGED dragonVars

(* Nothing is left: the other digits are zeros, and there is no rounding.  *)
ExactZeros ==
  /\ stage = "exact" /\ Len(digits) < len /\ IsZero(mant)
  /\ digits' = digits \o [i \in 1..(len - Len(digits)) |-> 0]
  /\ stage' = "generated"
  /\ UNCHANGED <<finite, limit, mant, minus, plus, scale, k, len>>

ExactDigit ==
  /\ stage = "exact" /\ Len(digits) < len /\ ~ IsZero(mant)
  /\ \E r \in {NextDigit(mant, scale)} :
       /\ digits' = Append(digits, r.digit)
       /\ mant' = MulSmall[r.rest, 10]
  /\ UNCHANGED <<stage, finite, limit, minus, plus, scale, k, len>>

(* Half is rounded to even, and down in front of the first digit.          *)
RoundsUp(m, half, d) ==
  \/ Less[half, m]
  \/ half = m /\ d # <<>> /\ d[Len(d)] % 2 = 1

ExactRound ==
  /\ stage = "exact" /\ Len(digits) = len
  /\ LET carries == Carries(digits) IN
     IF RoundsUp(mant, MulSmall[scale, 5], digits)
       THEN /\ k' = IF carries THEN k + 1 ELSE k
            /\ digits' = IF len = 0 /\ k + 1 > - limit.n
                           THEN <<CarriedDigit(digits)>>
                           ELSE RoundUp(digits)
       ELSE UNCHANGED <<k, digits>>
  /\ stage' = "generated"
  /\ UNCHANGED <<finite, limit, mant, minus, plus, scale, len>>

----------------------------------------------------------------------------
(* format_shortest.                                                        *)

(* Mutant: the ends of the interval never belong to the number.            *)
RoundsInside(f, a, b) == Less[a, b]

(* a < b, or a <= b if the ends of the interval belong to the number.      *)
Rounds(f, a, b) == IF f.inclusive THEN ~ Less[b, a] ELSE Less[a, b]

(* The end of the interval is above s.                                     *)
Reaches(f, s, m, up) == Rounds(f, s, Add[m, up])

StartShortest(f) ==
  \E k0 \in {Estimate(f.mant + f.plus, f.exp)} :
  \E m \in {Numerator(f.mant, f.exp, k0)}, s \in {Denominator(f.exp, k0)},
     d \in {Numerator(f.minus, f.exp, k0)},
     u \in {Numerator(f.plus, f.exp, k0)} :
    LET over == Reaches(f, s, m, u) IN
    /\ stage' = "shortest"
    /\ finite' = f
    /\ limit' = [mode |-> "shortest", n |-> MaxDigits10]
    /\ mant' = Scaled(over, m)
    /\ minus' = Scaled(over, d)
    /\ plus' = Scaled(over, u)
    /\ scale' = s
    /\ k' = IF over THEN k0 + 1 ELSE k0
    /\ len' = 0
    /\ digits' = <<>>

(* The last digit is increased if only that reads back, or both do and it  *)
(* is no farther away.                                                     *)
LastUp(m, s, down, up) == up /\ (down => ~ Less[MulPow2[m, 1], s])

ShortestDigit ==
  /\ stage = "shortest"
  /\ \E r \in {NextDigit(mant, scale)} : \E d \in {Append(digits, r.digit)} :
     LET down == Rounds(finite, r.rest, minus)
         up == Reaches(finite, scale, r.rest, plus)
         last == LastUp(r.rest, scale, down, up)
     IN
       IF down \/ up
         THEN /\ stage' = "generated"
              /\ mant' = r.rest
              /\ digits' = IF ~ last THEN d
                           ELSE IF Carries(d)
                             THEN Append(RoundUp(d), CarriedDigit(d))
                           ELSE RoundUp(d)
              /\ k' = IF last /\ Carries(d) THEN k + 1 ELSE k
              /\ UNCHANGED <<minus, plus>>
         ELSE /\ mant' = MulSmall[r.rest, 10]
              /\ minus' = MulSmall[minus, 10]
              /\ plus' = MulSmall[plus, 10]
              /\ digits' = d
              /\ UNCHANGED <<stage, k>>
  /\ UNCHANGED <<finite, limit, scale, len>>

----------------------------------------------------------------------------
DragonInit ==
  /\ stage = "idle"
  /\ finite = [mant |-> 0, exp |-> 0, minus |-> 0, plus |-> 0,
               inclusive |-> FALSE]
  /\ limit = [mode |-> "none", n |-> 0]
  /\ mant = <<1>> /\ minus = <<1>> /\ plus = <<1>> /\ scale = <<1>>
  /\ k = 0 /\ len = 0 /\ digits = <<>>

DragonNext == ExactZeros \/ ExactDigit \/ ExactRound \/ ShortestDigit
=============================================================================
