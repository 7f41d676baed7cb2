------------------------------ MODULE ValueText ------------------------------
(***************************************************************************)
(* What the text of a formatted value has to be: as long as its field, and *)
(* a numeral which reads back as the value, or as the nearest number with  *)
(* the digits that were asked for.  The numerals are read by definitions   *)
(* of their own, and floating-point numbers taken from their bits, in      *)
(* units of the smallest one.                                              *)
(***************************************************************************)
EXTENDS FormatValue

Finished == outs # <<>> /\ written = <<>> /\ phase \in {"begin", "done"}
LastArg == job.args[Len(outs)]

(* The specs with which the value is to be written: those of the text, and *)
(* what a format_spec says instead.                                        *)
Meant == job.meant

ASSUME MeaningAssumption ==
  \A j \in Jobs :
    LET parsed == ParseSpecs(j.text, 1).specs
        s == IF j.spec = Undefined THEN parsed ELSE Overwritten(parsed, j.spec)
    IN /\ j.meant.fill = s.fill /\ j.meant.align = s.align
       /\ j.meant.zero = s.zero /\ j.meant.width = s.width
       /\ j.meant.type = s.type

----------------------------------------------------------------------------
(* Reading a numeral.                                                      *)

(* The text without its padding, of which zeros do no harm.                *)
WithoutFill(t) ==
  IF Meant.fill = "0" THEN t ELSE SelectSeq(t, LAMBDA c : c # Meant.fill)

AfterSign(t) == IF Char(t, 1) \in {"+", "-", Blank} THEN 2 ELSE 1

Figures(t) == {i \in DOMAIN t : t[i] \in Digit}
Number(t, I) ==
  FoldLeft(LAMBDA n, i : IF i \in I THEN n * 10 + CharValue[t[i]] ELSE n, 0,
           [i \in 1..Len(t) |-> i])

IndexOf(t, C) ==
  IF \E i \in DOMAIN t : t[i] \in C
    THEN CHOOSE i \in DOMAIN t : t[i] \in C ELSE Len(t) + 1

(* A number in decimal or exponent notation is n * 10^exp.                 *)
DigitsBehind(t) ==
  LET behind == IndexOf(t, {"."})..IndexOf(t, {"e", "E"})
  IN Cardinality(Figures(t) \cap behind)

ReadFloat(t) ==
  LET e == IndexOf(t, {"e", "E"})
      exp == Number(t, {i \in Figures(t) : i > e})
  IN [n |-> Number(t, {i \in Figures(t) : i < e}),
      exp |-> (IF Char(t, e + 1) = "-" THEN -exp ELSE exp)
                - DigitsBehind(t)]

----------------------------------------------------------------------------
(* A floating-point number is Units / Unit, its neighbours are as far away *)
(* as Ulp and half of that below a power of two.                           *)
Unit == 2 ^ (- LowestExp - 1)
Ulp(v) == 2 ^ (IF v.exponent = 0 THEN 0 ELSE v.exponent - 1)
Units(v) ==
  Ulp(v) * (v.fraction + IF v.exponent = 0 THEN 0 ELSE Hidden)

(* The power of ten above it.                                              *)
Magnitude(v) ==
  CHOOSE x \in -3..3 : /\ Units(v) * 1000 < Unit * 10 ^ (x + 3)
                       /\ x > -3 => Units(v) * 1000 >= Unit * 10 ^ (x + 2)

IsFinite(a) == a.kind = "float" /\ Category(a.value) \in {"zero", "finite"}
IsWord(a) == a.kind = "float" /\ ~ IsFinite(a)

(* Numbers stand to the right, everything else to the left.                *)
UsualAlign(a) ==
  IF \/ Meant.type = "c" \/ a.kind = "string" \/ IsWord(a)
     \/ a.kind \in {"bool", "char"} /\ Meant.type \in {"none", "s", "?"}
    THEN "<" ELSE ">"

AsFewAsPossible(s) == s.type = "none" /\ s.precision = -1

(* The place of the last digit that was asked for.                         *)
Precision == IF Meant.precision = -1 THEN DefaultPrecision ELSE Meant.precision
LastPlace(v) ==
  IF Meant.type \in {"f", "F"} THEN - Precision
  ELSE IF Meant.type \in {"e", "E"} THEN Magnitude(v) - (Precision + 1)
  ELSE Magnitude(v) - IF Precision = 0 THEN 1 ELSE Precision

----------------------------------------------------------------------------
(* Types; a bignum has no leading zero blocks, and no more digits are      *)
(* generated than the buffer of format_decimal has room for.               *)
TypeOK ==
  /\ phase \in {"overwrite", "begin", "digits", "lead", "left", "body",
                "right", "done", "failed"}
  /\ stage \in {"idle", "exact", "shortest", "generated"}
  /\ Len(outs) <= Len(job.args)
  /\ shape.counted \in Nat /\ shape.size \in Nat
  /\ work.width \in Nat
  /\ phase \in {"lead", "left", "body", "right"} => work.width <= specs.width
  /\ \A b \in {mant, minus, plus, scale} :
       /\ \A i \in DOMAIN b : b[i] \in 0..(Block - 1)
       /\ b # <<>> => b[Len(b)] # 0
  /\ \A i \in DOMAIN digits : digits[i] \in 0..9
  /\ limit.mode = "shortest" => Len(digits) <= MaxDigits10

(* What is written into a write area fills it, no more and no less: the    *)
(* digits of a number were counted by another function, or from the        *)
(* exponent and the precision.                                             *)
FillsArea == shape.counted = Len(shape.text)

(* A finished text is the value between two runs of the fill character,    *)
(* as long as the field or as the value itself.  The runs are where the    *)
(* alignment says, as equal as can be in the center, and between the sign  *)
(* and the digits under the zero flag.  (An escape sequence in quotes is   *)
(* longer than it is announced, formatter.hpp:499.)                        *)
Layout ==
  Finished /\ LastArg.kind # "digits" =>
    LET t == outs[Len(outs)]
        natural == Len(InFront) + Len(shape.text)
        all == IF Meant.width > shape.size THEN Meant.width - shape.size ELSE 0
        zero == Meant.zero /\ ~ IsWord(LastArg)
        fill == IF Meant.zero /\ ~ zero THEN Blank ELSE Meant.fill
        Run(n) == [i \in 1..n |-> fill]
        align == IF Meant.align = "none" THEN UsualAlign(LastArg)
                 ELSE Meant.align
    IN /\ LastArg.kind = "char" \/ shape.size = natural
       /\ \E l \in 0..all :
            /\ align = "<" => l = 0
            /\ align = ">" => l = all
            /\ align = "^" => all - 2 * l \in {0, 1}
            /\ t = IF zero THEN InFront \o Run(all) \o shape.text
                   ELSE Run(l) \o InFront \o shape.text \o Run(all - l)

(* A formatter formats the same value alike, however often it is used.     *)
SameForAll ==
  \A i, j \in DOMAIN outs : job.args[i] = job.args[j] => outs[i] = outs[j]

(* The numeral of an integer reads back as the integer, with its sign, in  *)
(* every base, behind the prefix of that base.  (What is around it is a    *)
(* matter of Layout.)                                                      *)
ReadsBack ==
  Finished /\ LastArg.kind \in {"int", "unsigned", "pointer", "digits"}
    /\ Meant.type # "c" =>
    LET n == LastArg.value
        t == InFront \o shape.text
        base == IF LastArg.kind = "digits" THEN LastArg.base
                ELSE IF LastArg.kind = "pointer" THEN 16
                ELSE BaseOfType(Meant.type)
        skipped == IF shape.prefix = <<>> THEN 0 ELSE IF base = 8 THEN 1 ELSE 2
        read == ParseUnsigned(t, base)[AfterSign(t) + skipped]
    IN /\ read.ok /\ read.next = Len(t) + 1
       /\ read.value = IF n < 0 THEN -n ELSE n
       /\ (Char(t, 1) = "-") <=> n < 0
       /\ LastArg.kind = "digits" => outs[Len(outs)] = t

(* The digits of a floating-point number are those of the nearest number   *)
(* with as many digits, and of two equally near ones those of the even     *)
(* one (the comment at dragon.hpp:175).                                    *)
Nearest ==
  Finished /\ IsFinite(LastArg) /\ ~ AsFewAsPossible(Meant) =>
    LET v == LastArg.value
        r == ReadFloat(WithoutFill(outs[Len(outs)]))
        place == IF Units(v) = 0 THEN 0 ELSE LastPlace(v)
        low == IF r.exp < place THEN r.exp ELSE place
        shift == IF low < 0 THEN -low ELSE 0
        number == r.n * 10 ^ (r.exp + shift)
        step == 10 ^ (place + shift)
        twice == 2 * (Unit * number - Units(v) * 10 ^ shift)
    IN /\ Units(v) = 0 => r.n = 0
       /\ Units(v) # 0 =>
            /\ number % step = 0
            /\ twice \in (- Unit * step)..(Unit * step)
            /\ twice \in {- Unit * step, Unit * step} =>
                 (number \div step) % 2 = 0

(* Without a precision the digits are those that read back as the number,  *)
(* the fewest that do, and of these the nearest.                           *)
Shortest ==
  Finished /\ IsFinite(LastArg) /\ AsFewAsPossible(Meant)
    /\ Units(LastArg.value) # 0 =>
    LET v == LastArg.value
        r == ReadFloat(WithoutFill(outs[Len(outs)]))
        cut == CHOOSE z \in 0..4 : r.n % 10 ^ z = 0 /\ r.n % 10 ^ (z + 1) # 0
        n == r.n \div 10 ^ cut
        exp == r.exp + cut
        shift == IF exp < 0 THEN -exp ELSE 0
        at == 4 * Units(v) * 10 ^ shift
        Four(m, e) == 4 * Unit * m * 10 ^ (e + shift)
        below == (IF v.fraction = 0 /\ v.exponent > 1 THEN 1 ELSE 2)
                   * Ulp(v) * 10 ^ shift
        above == 2 * Ulp(v) * 10 ^ shift
        In(x) == IF v.fraction % 2 = 0 THEN x \in (at - below)..(at + above)
                 ELSE x \in (at - below + 1)..(at + above - 1)
        Off(x) == IF x < at THEN at - x ELSE x - at
    IN /\ In(Four(n, exp))
       /\ \A m \in {n \div 10, (n \div 10) + 1} : ~ In(Four(m, exp + 1))
       /\ \A m \in {n - 1, n + 1} :
            In(Four(m, exp)) => Off(Four(n, exp)) <= Off(Four(m, exp))

(* The comment at dragon.hpp:304: what has been generated and what remains *)
(* are together the number, and what remains gives a digit.                *)
Remainder ==
  stage \in {"exact", "shortest"} =>
    LET v == Units(Arg.value)
        n == Len(digits)
        number == FoldLeft(LAMBDA a, d : a * 10 + d, 0, digits)
        up == Positive(n + 1 - k)
        down == Positive(k - n - 1)
    IN /\ (v * 10 ^ up - Unit * 10 * number * 10 ^ down) * ValueOf(scale)
            = Unit * ValueOf(mant) * 10 ^ down
       /\ ValueOf(mant) < 10 * ValueOf(scale)
       /\ stage = "shortest" =>
            ValueOf(Add[mant, plus]) <= 10 * ValueOf(scale)

(* Every value is formatted: the loops over its digits end.                *)
Completes == <>(phase \in {"done", "failed"})

(* As many digits stand behind the point as the precision of a fixed or an *)
(* exponent notation says.                                                 *)
ShowsPrecision ==
  Finished /\ IsFinite(LastArg) /\ Meant.type \in {"e", "E", "f", "F"} =>
    DigitsBehind(outs[Len(outs)]) = Precision
=============================================================================
