---------------------------- MODULE FormatValue -----------------------------
(***************************************************************************)
(* The formatting of values: formatter<T>::format and write_arg of the     *)
(* core types.  One formatter, whose specs have been parsed, formats one   *)
(* value after the other, as it does for the elements of a range.  A       *)
(* format_spec may overwrite the width and the precision before.  What is  *)
(* written goes to a buffer that does not end.                             *)
(*                                                                         *)
(* A value is a record of its kind and what there is to tell; one of kind  *)
(* "digits" is an integer that a user writes with writer::write_int.  The  *)
(* shape of a value is what has been found out before anything is written. *)
(***************************************************************************)
EXTENDS FloatText, Padding, Dragon

CONSTANT
  Jobs         (* records of the values (args), their specs (text), the    *)
               (* format_spec, and what both together mean (meant)         *)

(* The values of all integer types.                                        *)
AnyInt == MinInt..(Word - 1)

Args ==
  [kind : {"int", "unsigned", "pointer"}, value : AnyInt]
    \cup [kind : {"digits"}, value : AnyInt, base : Int, upper : BOOLEAN]
    \cup [kind : {"bool"}, value : BOOLEAN]
    \cup [kind : {"char"}, value : STRING, code : AnyInt]
    \cup [kind : {"string"}, value : Seq(STRING)]
    \cup [kind : {"float"}, value : [negative : BOOLEAN, exponent : Nat,
                                    fraction : Nat]]

(* The checks of the format string have accepted the specs.                *)
ASSUME JobsAssumption ==
  \A j \in Jobs :
    /\ j.args \in Seq(Args) /\ j.args # <<>>
    /\ j.text \in Seq(STRING \ {End})
    /\ {j.spec.width, j.spec.precision} \subseteq Int
    /\ \A i \in DOMAIN j.args :
         j.args[i].kind # "digits" =>
           ValidateSpecs(j.args[i].kind, j.text, 1).ok

(* The exponent of a number has three digits at most.                      *)
Guessed(x) == x \in -998..998
Estimated(v) ==
  LET f == Decode(v) IN
  Guessed(Estimate(f.mant, f.exp)) /\ Guessed(Estimate(f.mant + f.plus, f.exp))

ASSUME ExponentAssumption ==
  \A j \in Jobs : \A i \in DOMAIN j.args :
    j.args[i].kind = "float" /\ Category(j.args[i].value) = "finite" =>
      Estimated(j.args[i].value)

VARIABLES
  job,
  specs,       (* formatter::specs_                                        *)
  work,        (* the copy of them that write_arg gets                     *)
  shape,
  phase,       (* "overwrite", "begin", "digits", "lead", "left", "body",  *)
               (* "right", "done", "failed"                                *)
  written,     (* the text of the current value                            *)
  outs         (* the texts of the values before                           *)

valueVars == <<job, specs, work, shape, phase, written, outs>>
vars == <<valueVars, dragonVars>>

Arg == job.args[Len(outs) + 1]

(* format_spec: what is not defined does not overwrite anything.           *)
NotDefined == - MaxInt
Undefined == [width |-> NotDefined, precision |-> NotDefined]

(* overwrite_spec, set_width and set_precision.                            *)
Overwritten(s, spec) ==
  [s EXCEPT
     !.width = IF spec.width = NotDefined THEN @ ELSE NoLess(spec.width),
     !.precision = IF spec.precision = NotDefined THEN @
                   ELSE NoLess(spec.precision)]

Overwrite ==
  /\ phase = "overwrite"
  /\ specs' = Overwritten(specs, job.spec)
  /\ phase' = "begin"
  /\ UNCHANGED <<job, work, shape, written, outs, dragonVars>>

----------------------------------------------------------------------------
(* Shapes: the default alignment, what stands in front of the value, the   *)
(* size that is announced to the padding, the size of the write area for   *)
(* the value, and the value.                                               *)

(* The words, in lower case.                                               *)
NonFinite == [infinity |-> <<"i", "n", "f">>, nan |-> <<"n", "a", "n">>]
BoolWord ==
  [b \in BOOLEAN |-> IF b THEN <<"t", "r", "u", "e">>
                     ELSE <<"f", "a", "l", "s", "e">>]

(* What is written by write_char and write_str.                            *)
Plain(text) ==
  [align |-> "<", sign |-> <<>>, prefix |-> <<>>, size |-> Len(text),
   counted |-> Len(text), text |-> text]

(* With write_str_escaped; the newline stands for what is escaped.         *)
Escaped(s, quote) ==
  <<quote>> \o FlattenSeq([i \in DOMAIN s |-> IF s[i] = "\n"
                             THEN <<"\\", "n">> ELSE <<s[i]>>]) \o <<quote>>

(* make_write_int_options.                                                 *)
BaseOfType(type) ==
  IF type \in {"x", "X"} THEN 16 ELSE IF type \in {"b", "B"} THEN 2
  ELSE IF type = "o" THEN 8 ELSE 10

PrefixOfType(type) ==
  IF type \in {"b", "B", "x", "X"} THEN <<"0", type>>
  ELSE IF type = "o" THEN <<"0">> ELSE <<>>

(* try_write_sign and try_write_prefix, what they find.                    *)
SignOf(s, negative) ==
  IF negative THEN <<"-">>
  ELSE IF s.sign \in {"+", Blank} THEN <<s.sign>> ELSE <<>>

(* write_arg for integers.                                                 *)
IntShape(s, n) ==
  LET type == s.type
      base == BaseOfType(type)
      abs == ToAbsolute(n)
      prefix == IF ~ s.alternate \/ (type = "o" /\ n = 0) THEN <<>>
                ELSE PrefixOfType(type)
      counted == NumberOfDigits(abs, base)
  IN IF type = "c" THEN Plain(<<"character">>)
     ELSE [align |-> ">", sign |-> SignOf(s, n < 0), prefix |-> prefix,
           size |-> counted + Len(prefix) + Len(SignOf(s, n < 0)),
           counted |-> counted,
           text |-> WriteNumber(abs, base, type = "X")]

FloatShape(s, v, f) ==
  LET d == Decimal(s, f)
      sign == SignOf(s, v.negative)
  IN [align |-> ">", sign |-> sign, prefix |-> <<>>,
      size |-> d.counted + Len(sign), counted |-> d.counted, text |-> d.text]

(* Infinities and NaN.                                                     *)
WordShape(s, v) ==
  LET sign == SignOf(s, v.negative) IN
  [Plain(NonFinite[Category(v)]) EXCEPT !.sign = sign, !.size = @ + Len(sign)]

----------------------------------------------------------------------------
(* formatter::format and write_arg up to where the size is known.          *)

(* Mutant: write_arg works on the specs of the formatter itself.           *)
NotCopied == IF outs = <<>> THEN specs ELSE work

Copied == specs

Ready(s) ==
  /\ shape' = s
  /\ phase' = "lead"
  /\ UNCHANGED <<job, specs, written, outs, dragonVars>>

AsWritten(kind) == phase = "begin" /\ Arg.kind = kind /\ work' = Copied

(* A type that the checks accept and make_write_int_options does not know. *)
Fail ==
  /\ phase = "begin" /\ Arg.kind # "digits" /\ specs.type = "O"
  /\ phase' = "failed"
  /\ UNCHANGED <<job, specs, work, shape, written, outs, dragonVars>>

BeginInt ==
  /\ specs.type # "O"
  /\ \E kind \in {"int", "unsigned"} : AsWritten(kind)
  /\ Ready(IntShape(work', Arg.value))

BeginBool ==
  /\ specs.type # "O" /\ AsWritten("bool")
  /\ Ready(IF specs.type \in {"none", "s"} THEN Plain(BoolWord[Arg.value])
           ELSE IntShape(work', IF Arg.value THEN 1 ELSE 0))

(* A character with quotes is padded as three, whatever it is.             *)
BeginChar ==
  /\ specs.type # "O" /\ AsWritten("char")
  /\ Ready(IF specs.type \in {"none", "c"} THEN Plain(<<Arg.value>>)
           ELSE IF specs.type = "?"
             THEN [Plain(Escaped(<<Arg.value>>, "'")) EXCEPT !.size = 3]
           ELSE IntShape(work', Arg.code))

BeginPointer ==
  /\ phase = "begin" /\ Arg.kind = "pointer"
  /\ work' = [Copied EXCEPT !.alternate = TRUE, !.type = "x"]
  /\ Ready(IntShape(work', Arg.value))

BeginString ==
  /\ AsWritten("string")
  /\ LET s == Arg.value
         n == specs.precision
     IN Ready(Plain(IF specs.type = "?" THEN Escaped(s, "\"")
                    ELSE IF n \in 0..Len(s) THEN SubSeq(s, 1, n) ELSE s))

(* Words are not padded with zeros.                                        *)
BeginWord ==
  /\ phase = "begin" /\ Arg.kind = "float"
  /\ Category(Arg.value) \in {"infinity", "nan"}
  /\ work' = IF specs.zero THEN [Copied EXCEPT !.fill = Blank, !.zero = FALSE]
             ELSE Copied
  /\ Ready(WordShape(work', Arg.value))

BeginZero ==
  /\ AsWritten("float") /\ Category(Arg.value) = "zero"
  /\ Ready(FloatShape(work', Arg.value, [digits |-> <<0>>, exp |-> 1]))

(* format_decimal.                                                         *)
BeginFinite ==
  /\ AsWritten("float") /\ Category(Arg.value) = "finite"
  /\ LET fp == FpSpecs(specs)
         f == Decode(Arg.value)
     IN IF fp.format = "general" /\ fp.precision = -1 THEN StartShortest(f)
        ELSE StartExact(f, IF fp.format = "fixed" THEN "decimal_point"
                           ELSE "significand_digits", fp.precision)
  /\ phase' = "digits"
  /\ UNCHANGED <<job, specs, shape, written, outs>>

Generate ==
  /\ phase = "digits"
  /\ DragonNext
  /\ UNCHANGED valueVars

(* Nothing left of a number that is fixed is a zero.                       *)
Generated ==
  /\ phase = "digits" /\ stage = "generated"
  /\ shape' = FloatShape(work, Arg.value,
                         IF digits = <<>> THEN [digits |-> <<0>>, exp |-> 1]
                         ELSE [digits |-> digits, exp |-> k])
  /\ phase' = "lead"
  /\ stage' = "idle"
  /\ UNCHANGED <<job, specs, work, written, outs>>
  /\ UNCHANGED <<finite, limit, mant, minus, plus, scale, k, len, digits>>

----------------------------------------------------------------------------
(* From try_write_sign on: the text.                                       *)

Fill(n) == [i \in 1..n |-> work.fill]

Goes(from, to, text) ==
  /\ phase = from
  /\ phase' = to
  /\ written' = written \o text
  /\ UNCHANGED <<job, specs, shape, dragonVars>>

(* Under the zero flag sign and prefix come before the padding.            *)
InFront == shape.sign \o shape.prefix

Lead ==
  /\ Goes("lead", "left", IF work.zero THEN InFront ELSE <<>>)
  /\ work' = IF work.align = "none" THEN [work EXCEPT !.align = shape.align]
             ELSE work
  /\ UNCHANGED outs

PadLeft ==
  /\ Goes("left", "body", Fill(LeftFill(work.width, work.align, shape.size)))
  /\ work' = [work EXCEPT
       !.width = WidthLeft(work.width, work.align, shape.size)]
  /\ UNCHANGED outs

Body ==
  /\ Goes("body", "right",
          (IF work.zero THEN <<>> ELSE InFront) \o shape.text)
  /\ UNCHANGED <<work, outs>>

PadRight ==
  /\ phase = "right"
  /\ outs' = Append(outs, written \o Fill(RightFill(work.width, work.align)))
  /\ written' = <<>>
  /\ phase' = IF Len(outs') < Len(job.args) THEN "begin" ELSE "done"
  /\ UNCHANGED <<job, specs, work, shape, dragonVars>>

(* writer::write_int.                                                      *)
WriteInt ==
  /\ phase = "begin" /\ Arg.kind = "digits"
  /\ LET n == Arg.value
         abs == ToAbsolute(n)
         text == WriteNumber(abs, Arg.base, Arg.upper)
         sign == IF n < 0 THEN <<"-">> ELSE <<>>
     IN IF IsValidBase(Arg.base)
          THEN /\ shape' = [Plain(text) EXCEPT
                              !.sign = sign,
                              !.counted = NumberOfDigits(abs, Arg.base)]
               /\ outs' = Append(outs, sign \o text)
               /\ phase' = "done"
          ELSE /\ phase' = "failed"
               /\ UNCHANGED <<shape, outs>>
  /\ UNCHANGED <<job, specs, work, written, dragonVars>>

----------------------------------------------------------------------------
(* Only specs that have been validated are parsed.                         *)
Init ==
  /\ job \in Jobs
  /\ specs = ParseSpecs(job.text, 1).specs
  /\ work = specs
  /\ shape = Plain(<<>>)
  /\ phase = IF job.spec = Undefined THEN "begin" ELSE "overwrite"
  /\ written = <<>> /\ outs = <<>>
  /\ DragonInit

Begin ==
  \/ BeginInt \/ BeginBool \/ BeginChar \/ BeginPointer \/ BeginString
  \/ BeginWord \/ BeginZero \/ BeginFinite

Next ==
  \/ Overwrite \/ Fail \/ Begin \/ Generate \/ Generated
  \/ Lead \/ PadLeft \/ Body \/ PadRight \/ WriteInt

Spec == Init /\ [][Next]_vars /\ WF_vars(Next)
=============================================================================
