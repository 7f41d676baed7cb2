---------------------------- MODULE FormatSpecs ----------------------------
(***************************************************************************)
(* The format specification of a replacement field: the checked parser     *)
(* (validate_format_specs and the check_..._specs functions) that runs     *)
(* once over a format string, and the unchecked one (parse_format_specs)   *)
(* that runs over it again each time something is formatted.               *)
(*                                                                         *)
(* A value the unchecked parser uses although it is not there is behind    *)
(* the end of the string, where the checked one has answered an error.     *)
(***************************************************************************)
EXTENDS Reader

CONSTANT
  MaxPrecision (* 1100, digits of a floating-point number                  *)

Align == {"<", "^", ">"}
Sign == {"+", "-", Blank}
IntType == {"b", "B", "c", "d", "o", "O", "x", "X"}
FloatType == {"e", "E", "f", "F", "g", "G"}
StringType == {"s", "?"}

----------------------------------------------------------------------------
(* The two parsers share their text: one part of the specs after the other *)
(* is skipped if it is there.  A part starts where the previous one ends.  *)

AlignEnd(s) ==
  [i \in 1..(Len(s) + 1) |->
     IF Char(s, i + 1) \in Align THEN i + 2
     ELSE IF Char(s, i) \in Align THEN i + 1 ELSE i]

PartEnd(s, S) ==
  [i \in 1..(Len(s) + 1) |-> IF Char(s, i) \in S THEN i + 1 ELSE i]

PrecisionEnd(s) ==
  [i \in 1..(Len(s) + 1) |->
     IF Char(s, i) = "." THEN DigitsEnd(s, 10)[i + 1] ELSE i]

(* format_specs, "none" and -1 where nothing is given.                     *)
NoSpecs ==
  [fill |-> Blank, align |-> "none", sign |-> "none", alternate |-> FALSE,
   zero |-> FALSE, width |-> 0, precision |-> -1, type |-> "none"]

(* format_specs as a type: what can be read from the text s, or is set if  *)
(* nothing is given.                                                       *)
Shown(s) == Range(s) \cup {"none", "0", ">", "?", Blank}
AnySpecs(s) ==
  [fill : Shown(s), align : Shown(s), sign : Shown(s), alternate : BOOLEAN,
   zero : BOOLEAN, width : Nat, precision : Int, type : Shown(s)]

(* What a parser has when it has read all parts from i on: its position,   *)
(* whether parse_int succeeded, and the specs.  The alignment ends at a,   *)
(* the sign at g, the hash at h, the zero at z, the width at w, the        *)
(* precision at p, the type at t.  Behind an alignment the zero flag is    *)
(* ignored.                                                                *)
AllSpecs(s, i) ==
  LET a == AlignEnd(s)[i]
      g == PartEnd(s, Sign)[a]
      h == PartEnd(s, {"#"})[g]
      z == PartEnd(s, {"0"})[h]
      w == DigitsEnd(s, 10)[z]
      p == PrecisionEnd(s)[w]
      t == PartEnd(s, Alpha \cup {"?"})[p]
      width == ParseUnsigned(s, 10)[z]
      precision == ParseUnsigned(s, 10)[w + 1]
      zero == z > h /\ a = i
  IN
  [at |-> t,
   ok |-> (w > z => width.ok) /\ (p > w => precision.ok),
   specs |->
     [fill |-> IF a = i + 2 THEN s[i] ELSE IF zero THEN "0" ELSE Blank,
      align |-> IF a > i THEN s[a - 1] ELSE IF zero THEN ">" ELSE "none",
      sign |-> IF g > a THEN s[a] ELSE "none",
      alternate |-> h > g,
      zero |-> zero,
      width |-> IF w > z THEN width.value ELSE 0,
      precision |-> IF p > w THEN precision.value ELSE -1,
      type |-> IF t > p THEN s[p] ELSE "none"]]

----------------------------------------------------------------------------
(* formatter<Arg>::validate and ::parse, which return the position behind  *)
(* the closing brace, the specs, and whether they succeeded.               *)

Closed(i) == [at |-> i + 1, ok |-> TRUE, specs |-> NoSpecs]

(* The check_..._specs functions of the types.                             *)
Integral(specs) ==
  /\ specs.precision = -1
  /\ specs.type \in IntType \cup {"none"}

Bare(specs) == ~ specs.alternate /\ specs.sign = "none" /\ ~ specs.zero

BareWord(specs) == Bare(specs) /\ specs.precision = -1

Allows(kind, specs) ==
  \/ kind = "int" /\ Integral(specs)
  \/ kind = "unsigned" /\ Integral(specs) /\ specs.sign = "none"
  \/ kind = "bool" /\ IF specs.type \in {"none", "s"}
                        THEN specs.precision = -1 ELSE Integral(specs)
  \/ kind = "char" /\ IF specs.type \in {"none", "c", "?"}
                        THEN BareWord(specs) ELSE Integral(specs)
  \/ kind = "pointer" /\ specs.type \in {"none", "p"} /\ BareWord(specs)
  \/ kind = "float" /\ specs.type \in FloatType \cup {"none"}
                     /\ specs.precision <= MaxPrecision
  \/ kind = "string" /\ specs.type \in StringType \cup {"none"}
                      /\ Bare(specs)
                      /\ (specs.type = "?" => specs.precision = -1)

(* validate_format_specs: width and precision fit an int32_t, and nothing  *)
(* but the brace follows.                                                  *)
Checked(kind, s, k) ==
  [k EXCEPT !.at = @ + 1,
            !.ok = /\ @
                   /\ k.specs.width <= MaxInt
                   /\ k.specs.precision <= MaxInt
                   /\ Char(s, k.at) = Closing
                   /\ Allows(kind, k.specs)]

ValidateSpecs(kind, s, i) ==
  IF Char(s, i) = Closing THEN Closed(i)
  ELSE IF Char(s, i) \in {Opening, End} THEN [Closed(i) EXCEPT !.ok = FALSE]
  ELSE Checked(kind, s, AllSpecs(s, i))

(* parse_format_specs: two characters are looked at, and the last one is   *)
(* skipped whatever it is.  Not ok means that it has used a value that is  *)
(* not there; pop() after a type stops at the end.  A sign in front of a   *)
(* precision, which parse_int would take, is left to the checks.           *)
ParseSpecs(s, i) ==
  IF Char(s, i) = Closing THEN Closed(i)
  ELSE IF i >= Len(s) THEN [Closed(i) EXCEPT !.ok = FALSE]
  ELSE LET k == AllSpecs(s, i) IN
       [k EXCEPT !.at = IF @ <= Len(s) THEN @ + 1 ELSE @,
                 !.ok = @ /\ (k.specs.type = "none" => k.at <= Len(s))]
=============================================================================
