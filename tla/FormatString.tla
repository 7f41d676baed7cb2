---------------------------- MODULE FormatString ----------------------------
(***************************************************************************)
(* From a format string to its output: validated_string_storage::from      *)
(* decides whether the string is plain, validate() runs the checking       *)
(* parser_base over it, and parse() runs the unchecking one over it again, *)
(* handing literal text and arguments to the writer.                       *)
(*                                                                         *)
(* A step consumes one literal character, one escape or one replacement    *)
(* field.  The unchecking parser asserts in debug builds only: where it    *)
(* would leave the string, use a value that is not there or pick an        *)
(* argument that does not exist, the phase is "undefined".                 *)
(*                                                                         *)
(* The output is a sequence of items: a character, or an argument with its *)
(* specs.  Writing it never fails (see DirectOutput for buffers that do).  *)
(* A scan string is validated by the same parser; what is done with it     *)
(* then is told by ScanString.                                             *)
(***************************************************************************)
EXTENDS ScanSpecs, RangeSpecs, Bitset

CONSTANTS
  Strings,   (* records of a trait ("format" or "scan"), a format or scan  *)
             (* string (text) and the kinds of the arguments (kinds)       *)
  Input      (* the strings that are scanned                               *)

ASSUME StringsAssumption ==
  \A s \in Strings :
    /\ s.trait \in {"format", "scan"} /\ s.kinds \in Seq(Kinds)
    /\ s.text \in Seq(STRING \ {End})
ASSUME InputAssumption == Input \subseteq Seq(STRING \ {End})

(* The validator ticks off 128 arguments at most, the last of 256 numbers  *)
(* stands for no argument.                                                 *)
ASSUME MatchedAssumption == Bits < Byte

VARIABLES
  trait,     (* "format" or "scan"                                         *)
  text,      (* the format or scan string                                  *)
  kinds,     (* the kinds of the arguments                                 *)
  phase,     (* who is at work, or how it ended                            *)
  at,        (* position of the reader                                     *)
  auto,      (* increment_arg_number_                                      *)
  mode,      (* use_positional_args_                                       *)
  fields,    (* the replacement fields that have been validated            *)
  output,    (* the items that have been written, or read                  *)
  input      (* what is scanned                                            *)

stringVars ==
  <<trait, text, kinds, phase, at, auto, mode, fields, output, input>>
formatVars == <<stringVars, bitsetVars>>

NoMoreArgs == Byte - 1

Field(arg, specs) == [arg |-> arg, specs |-> specs]
Literal(c) == [char |-> c]

Brace == {Opening, Closing}

(* check_if_plain_string, asked only when there are no arguments.          *)
Plain(s, k) == k = <<>> /\ \A i \in DOMAIN s : s[i] \notin Brace

FormatInit ==
  /\ \E s \in Strings : trait = s.trait /\ text = s.text /\ kinds = s.kinds
  /\ phase = IF Plain(text, kinds) THEN "plain" ELSE "validating"
  /\ at = 1
  /\ auto = 0
  /\ mode = "unset"
  /\ fields = <<>>
  /\ output = <<>>
  /\ input = <<>>
  /\ BitsetInit

Continue(p) ==
  /\ phase' = p
  /\ UNCHANGED <<trait, text, kinds>>

(* A plain string is written as it is.                                     *)
WritePlain ==
  /\ phase = "plain" /\ trait = "format"
  /\ output' = [i \in DOMAIN text |-> Literal(text[i])]
  /\ Continue("done")
  /\ UNCHANGED <<at, auto, mode, fields, input, bitsetVars>>

----------------------------------------------------------------------------
(* What the parsers see at their position.                                 *)

Here == Char(text, at)
Following == Char(text, at + 1)
AtText == Here # End /\ (Here = Opening => Following = Opening)
AtField == Here = Opening /\ Following # Opening

(* The field name, or the argument that is next where none is given.       *)
Positional == Following \in Digit
Name == ParseByte(text, at + 1)
Arg == IF Positional THEN Name.value ELSE auto
NameEnd == IF Positional THEN Name.next ELSE at + 1
NewMode == IF Positional THEN "positional" ELSE "auto"
NewAuto == IF Positional THEN auto ELSE (auto + 1) % Byte

(* The argument number that stands for "no further argument".              *)
AtSentinel == AtField /\ Arg = NoMoreArgs

Exists == Arg < Len(kinds)

(* Mutants: text does not advance the reader; every character does by two. *)
NoStep(c) == 0
LongStep(c) == 2

(* A literal character is one step, an escape is two.                      *)
TextStep(c) == IF c \in Brace THEN 2 ELSE 1

----------------------------------------------------------------------------
(* validate().                                                             *)

(* parse_replacement_field and parse_field_name of the checking parser.    *)
NameOk ==
  /\ Positional => Name.ok
  /\ mode \in {"unset", NewMode}
  /\ Char(text, NameEnd) \in {Closing, ":"}

(* The formatter or scanner of the argument checks the specs.              *)
SpecsAt == IF Char(text, NameEnd) = ":" THEN NameEnd + 1 ELSE NameEnd

Specs(i) ==
  IF trait = "format" THEN ValidateAny(text)[kinds[Arg + 1]][i]
  ELSE ValidateScanSpecs(kinds[Arg + 1], text, i)

(* Mutant: a closing brace needs no second one.                            *)
SingleBraceOk == TRUE

(* A closing brace of the text is doubled.                                 *)
TextOk == Here = Closing => Following = Closing

ValidateText ==
  /\ phase = "validating"
  /\ AtText /\ TextOk
  /\ at' = at + TextStep(Here)
  /\ Continue(phase)
  /\ UNCHANGED <<auto, mode, fields, output, input, bitsetVars>>

ValidateField ==
  /\ phase = "validating"
  /\ AtField /\ NameOk /\ ~ AtSentinel
  /\ Exists /\ Arg < Bits
  /\ \E i \in {SpecsAt} : \E k \in {Specs(i)} :
       /\ k.ok
       /\ at' = k.at
       /\ fields' = Append(fields, Field(Arg, k.specs))
  /\ SetBit(Arg)
  /\ auto' = NewAuto
  /\ mode' = NewMode
  /\ Continue(phase)
  /\ UNCHANGED <<output, input>>

(* bitset::set terminates the program, before the specs are checked.       *)
Terminate ==
  /\ phase = "validating"
  /\ AtField /\ NameOk /\ ~ AtSentinel
  /\ Exists /\ Arg >= Bits
  /\ Continue("terminated")
  /\ UNCHANGED <<at, auto, mode, fields, output, input, bitsetVars>>

RejectText ==
  /\ phase = "validating"
  /\ AtText /\ ~ TextOk
  /\ Continue("rejected")
  /\ UNCHANGED <<at, auto, mode, fields, output, input, bitsetVars>>

RejectField ==
  /\ phase = "validating"
  /\ AtField
  /\ ~ NameOk \/ (~ AtSentinel /\ ~ Exists)
  /\ Continue("rejected")
  /\ UNCHANGED <<at, auto, mode, fields, output, input, bitsetVars>>

RejectSpecs ==
  /\ phase = "validating"
  /\ AtField /\ NameOk /\ ~ AtSentinel
  /\ Exists /\ Arg < Bits
  /\ \E i \in {SpecsAt} : ~ Specs(i).ok
  /\ SetBit(Arg)
  /\ Continue("rejected")
  /\ UNCHANGED <<at, auto, mode, fields, output, input>>

(* Mutant: as many arguments are asked for as there are fields.            *)
AskFields ==
  /\ phase = "validating"
  /\ Here = End \/ (AtSentinel /\ NameOk)
  /\ AskAllFirst(Len(fields))
  /\ Continue("matching")
  /\ UNCHANGED <<at, auto, mode, fields, output, input>>

(* matched.all_first(arg_cnt), which takes the steps of Bitset.            *)
AskMatched ==
  /\ phase = "validating"
  /\ Here = End \/ (AtSentinel /\ NameOk)
  /\ AskAllFirst(Len(kinds))
  /\ Continue("matching")
  /\ UNCHANGED <<at, auto, mode, fields, output, input>>

Match == phase = "matching" /\ AllFirst /\ UNCHANGED stringVars

EndValidation ==
  /\ phase = "matching" /\ query = "none"
  /\ Continue(IF answer = "yes" THEN "validated" ELSE "rejected")
  /\ UNCHANGED <<at, auto, mode, fields, output, input, bitsetVars>>

(* A valid string is read again, by a new reader and a new parser.         *)
Begin ==
  /\ phase = "validated"
  /\ at' = 1 /\ auto' = 0 /\ mode' = "unset"
  /\ IF trait = "scan"
       THEN Continue("scanning") /\ input' \in Input
       ELSE Continue("formatting") /\ UNCHANGED input
  /\ UNCHANGED <<fields, output, bitsetVars>>

----------------------------------------------------------------------------
(* parse().                                                                *)

(* Mutant: the second brace of an escape is read as text again.            *)
SingleStep(c) == 1

(* An escape is skipped without a look at its second brace.                *)
Skip(c) == TextStep(c)

FormatText ==
  /\ phase = "formatting"
  /\ AtText
  /\ at' = at + Skip(Here)
  /\ output' = Append(output, Literal(Here))
  /\ Continue(IF Here = Closing /\ Following = End THEN "undefined" ELSE phase)
  /\ UNCHANGED <<auto, mode, fields, input, bitsetVars>>

(* Mutant: what stands behind the name is read as specs.                   *)
FromNameEnd == NameEnd

(* Whatever stands behind the name and is no closing brace is skipped;     *)
(* Unchecked excludes the end.                                             *)
UncheckedSpecsAt ==
  IF Char(text, NameEnd) \in {Closing, End} THEN NameEnd ELSE NameEnd + 1

(* What parse_field_name, apply and parse_format_specs take for granted.   *)
Unchecked(k) ==
  /\ Following # End
  /\ Positional => Name.ok
  /\ Char(text, NameEnd) # End
  /\ Exists
  /\ k.ok

(* make_write_int_options knows fewer types than check_integral_specs.     *)
Formattable(specs) ==
  \A n \in DOMAIN specs.leaves :
    ~ /\ specs.leaves[n].kind \in {"int", "unsigned", "bool", "char"}
      /\ specs.leaves[n].specs.type = "O"

Outcome(k) ==
  IF ~ Unchecked(k) THEN "undefined"
  ELSE IF Formattable(k.specs) THEN "formatting" ELSE "failed"

FormatField ==
  /\ phase = "formatting"
  /\ AtField /\ ~ AtSentinel
  /\ \E i \in {UncheckedSpecsAt} :
     \E k \in IF Exists THEN {ParseAny(text)[kinds[Arg + 1]][i]}
              ELSE {Failed(i)} :
       /\ Continue(Outcome(k))
       /\ at' = IF Outcome(k) = "formatting" THEN k.at ELSE at
       /\ output' = IF Outcome(k) = "formatting"
                      THEN Append(output, Field(Arg, k.specs)) ELSE output
  /\ auto' = NewAuto
  /\ mode' = NewMode
  /\ UNCHANGED <<fields, input, bitsetVars>>

EndFormat ==
  /\ phase = "formatting"
  /\ Here = End \/ AtSentinel
  /\ Continue("done")
  /\ UNCHANGED <<at, auto, mode, fields, output, input, bitsetVars>>

FormatNext ==
  \/ WritePlain
  \/ ValidateText \/ ValidateField \/ Terminate
  \/ RejectText \/ RejectField \/ RejectSpecs
  \/ AskMatched \/ Match \/ EndValidation \/ Begin
  \/ FormatText \/ FormatField \/ EndFormat
=============================================================================
