----------------------------- MODULE ScanString -----------------------------
(***************************************************************************)
(* Scanning: the unchecking parser goes over a validated scan string,      *)
(* matches its text against the input and has the scanner of each argument *)
(* read the input.  A step is what the parser hands over at once: a run of *)
(* text up to the first brace of an escape or up to the next field, or a   *)
(* field.                                                                  *)
(*                                                                         *)
(* emio::scan and emio::scan_from differ in the end only: the first takes  *)
(* what is left of the input for an error ("leftover").                    *)
(***************************************************************************)
EXTENDS FormatString

VARIABLES
  pos,       (* position of the reader of the input                        *)
  ends,      (* for each item of output, the position behind what it read  *)
  values     (* what has been assigned to the arguments                    *)

scanVars == <<pos, ends, values>>
vars == <<formatVars, scanVars>>

Working ==
  {"plain", "validating", "matching", "validated", "formatting",
   "scanning"}
Final ==
  {"rejected", "terminated", "done", "leftover", "failed", "undefined"}

(* An argument of a scan is an integer, a character or a view of input.    *)
Unset == [unset |-> TRUE]
Numeric(n) == [number |-> n]
View(i, j) == [from |-> i, next |-> j]

Init ==
  /\ FormatInit
  /\ pos = 1
  /\ ends = <<>>
  /\ values = [n \in DOMAIN kinds |-> Unset]

(* The items have been read, one character each or, for a field, up to j.  *)
Took(items, j) ==
  /\ pos' = j
  /\ output' = output \o items
  /\ ends' = ends \o [n \in DOMAIN items |-> j - Len(items) + n]

TookNothing == UNCHANGED <<pos, output, ends>>

Finished(in, i) == IF i = Len(in) + 1 THEN "done" ELSE "leftover"

(* vscan_from: a plain string is matched as it is.                         *)
ScanPlain ==
  /\ phase = "plain" /\ trait = "scan"
  /\ input' \in Input
  /\ IF Matches(input', 1, text)
       THEN /\ Took([n \in DOMAIN text |-> Literal(text[n])], Len(text) + 1)
            /\ Continue(Finished(input', Len(text) + 1))
       ELSE TookNothing /\ Continue("failed")
  /\ UNCHANGED <<at, auto, mode, fields, values, bitsetVars>>

----------------------------------------------------------------------------
(* parser_base<disabled>::parse and scan_parser::process.                  *)

RunEnd(s) ==
  [i \in 1..(Len(s) + 1) |->
     CHOOSE j \in i..(Len(s) + 1) :
       /\ Char(s, j) \in Brace \cup {End}
       /\ \A k \in i..(j - 1) : s[k] \notin Brace]

IsEscape(s, i) ==
  \/ Char(s, i) = Closing
  \/ Char(s, i) = Opening /\ Char(s, i + 1) = Opening

(* A run includes the first brace of an escape, the next starts behind.    *)
Run(s, i) ==
  SubSeq(s, i, RunEnd(s)[i] - (IF IsEscape(s, RunEnd(s)[i]) THEN 0 ELSE 1))
NextRun(s, i) ==
  RunEnd(s)[i] + (IF IsEscape(s, RunEnd(s)[i]) THEN 2 ELSE 0)

ScanText ==
  /\ phase = "scanning"
  /\ AtText
  /\ at' = NextRun(text, at)
  /\ \E run \in {Run(text, at)} :
       IF Matches(input, pos, run)
         THEN /\ Took([n \in DOMAIN run |-> Literal(run[n])], pos + Len(run))
              /\ Continue(IF at' > Len(text) + 1 THEN "undefined" ELSE phase)
         ELSE TookNothing /\ Continue("failed")
  /\ UNCHANGED <<auto, mode, fields, input, values, bitsetVars>>

----------------------------------------------------------------------------
(* read_arg and read_string: whether reading succeeds, what it assigns to  *)
(* the argument (or Unset, if nothing) and where it leaves the reader.     *)

Result(ok, value, next) == [ok |-> ok, value |-> value, next |-> next]
Nothing(i) == Result(FALSE, Unset, i)

ReadChar(i) ==
  IF i <= Len(input) THEN Result(TRUE, Literal(input[i]), i + 1)
  ELSE Nothing(i)

(* Mutant: a leading zero does not make a number octal.                    *)
NeverOctal(s, i) ==
  IF Char(s, i) # "0" THEN 10
  ELSE IF Char(s, i + 1) \in {"b", "B"} THEN 2
  ELSE IF Char(s, i + 1) \in {"x", "X"} THEN 16 ELSE 10

(* determine_base and get_base.                                            *)
DetermineBase(s, i) ==
  IF Char(s, i) # "0" \/ Char(s, i + 1) = End THEN 10
  ELSE IF s[i + 1] \in {"b", "B"} THEN 2
  ELSE IF s[i + 1] \in {"x", "X"} THEN 16 ELSE 8

BaseOf == [none |-> 10, d |-> 10, b |-> 2, o |-> 8, x |-> 16]

Base(s, i, specs) ==
  IF specs.type = "none" /\ specs.alternate THEN DetermineBase(s, i)
  ELSE BaseOf[specs.type]

(* parse_alternate_form and disallow_sign.                                 *)
PrefixSize(base) == IF base = 8 THEN 1 ELSE 2
AlternateOk(s, i, base) ==
  /\ Char(s, i) = "0"
  /\ base = 2 => Char(s, i + 1) \in {"b", "B"}
  /\ base = 16 => Char(s, i + 1) \in {"x", "X"}
  /\ Char(s, i + PrefixSize(base)) \notin {"+", "-"}

(* The integers of a type; one that is smaller than its core type is read  *)
(* as an integer of the core type first.                                   *)
Holds(kind, n) ==
  CASE kind = "int" -> n \in MinInt..MaxInt
    [] kind = "unsigned" -> n \in 0..(Word - 1)
    [] kind = "byte" -> n \in (- (Byte \div 2))..(Byte \div 2 - 1)

ParseNumber(kind, s, i, base, negative) ==
  IF kind = "unsigned"
    THEN {[ParseUnsigned(s, base)[i] EXCEPT !.ok = @ /\ ~ negative]}
    ELSE ParseSigned(s, i, base, negative)

(* Mutants: a number may be shorter than the width; a number out of range  *)
(* is assigned.                                                            *)
AnyLength(kind, n, i, specs) ==
  IF ~ n.ok \/ ~ Holds(kind, n.value) THEN Nothing(i)
  ELSE Result(TRUE, Numeric(n.value),
              IF specs.width = NoWidth THEN n.next ELSE i + specs.width)
AssignedFirst(kind, n, i, specs) ==
  IF ~ n.ok \/ (specs.width # NoWidth /\ n.next # i + specs.width)
    THEN Nothing(i)
  ELSE Result(Holds(kind, n.value), Numeric(n.value), n.next)

(* What follows once the digits have been parsed from a field at i.  Core  *)
(* types are assigned even if the number is shorter than the width.        *)
AfterDigits(kind, n, i, specs) ==
  IF ~ n.ok THEN Nothing(i)
  ELSE IF specs.width # NoWidth /\ n.next # i + specs.width
    THEN IF kind = "byte" THEN Nothing(i)
         ELSE Result(FALSE, Numeric(n.value), i)
  ELSE IF Holds(kind, n.value) THEN Result(TRUE, Numeric(n.value), n.next)
  ELSE Nothing(n.next)

(* read_arg of an integer: a subreader over the width, the sign, the       *)
(* prefix, the digits.                                                     *)
ReadInt(kind, specs, i) ==
  LET bounded == specs.width # NoWidth
      s == IF bounded /\ i + specs.width <= Len(input) + 1
             THEN SubSeq(input, 1, i + specs.width - 1) ELSE input
      g == SignEnd(s, i)
      base == Base(s, g, specs)
      prefixed == specs.alternate /\ base # 10
      p == IF prefixed THEN g + PrefixSize(base) ELSE g
  IN IF \/ bounded /\ i + specs.width > Len(input) + 1
        \/ prefixed /\ ~ AlternateOk(s, g, base)
       THEN {Nothing(i)}
       ELSE {AfterDigits(kind, n, i, specs) :
               n \in ParseNumber(kind, s, p, base, Negative(s, i))}

(* The position of the next field from a position of text on, and the text *)
(* up to it with escapes undone.                                           *)
NextField(s) ==
  LET at_field[i \in 1..(Len(s) + 2)] ==
        IF i > Len(s) \/ (s[i] = Opening /\ ~ IsEscape(s, i)) THEN i
        ELSE at_field[i + TextStep(s[i])]
  IN at_field

TextFrom(s) ==
  LET text_from[i \in 1..(Len(s) + 2)] ==
        IF i > Len(s) \/ (s[i] = Opening /\ ~ IsEscape(s, i)) THEN <<>>
        ELSE <<s[i]>> \o text_from[i + TextStep(s[i])]
  IN text_from

(* read_string_complex: how much of the delimiter d has been matched after *)
(* each character of the input from i on.                                  *)
Matched(d, i) ==
  LET m[j \in (i - 1)..Len(input)] ==
        IF j < i THEN 0
        ELSE IF m[j - 1] < Len(d) /\ input[j] = d[m[j - 1] + 1]
          THEN m[j - 1] + 1 ELSE 0
  IN m

(* Where the end of the delimiter d has been read; in front of another     *)
(* field, only if a character follows.                                     *)
ComplexEnds(d, i, more) ==
  {j \in i..Len(input) :
     Matched(d, i)[j] = Len(d) /\ (more => j < Len(input))}

(* Mutant: the delimiter is captured as well.                              *)
WithDelimiter(d, i, more) ==
  LET found == ComplexEnds(d, i, more) IN
  IF found = {} THEN Nothing(i)
  ELSE LET next == 1 + CHOOSE j \in found : \A k \in found : j <= k
       IN Result(TRUE, View(i, next), next)

ReadComplex(d, i, more) ==
  LET found == ComplexEnds(d, i, more) IN
  IF found = {} THEN Nothing(i)
  ELSE LET j == CHOOSE j \in found : \A k \in found : j <= k
           next == j - Len(d) + 1
       IN Result(TRUE, View(i, next), next)

(* read_string, where the scan string goes on at f: a given width, what    *)
(* is left, up to an escape and the text behind it, or up to the text.     *)
ReadString(specs, i, f) ==
  LET b == RunEnd(text)[f]
      end == Len(input) + 1
      bounded == specs.width # NoWidth
      next == IF bounded THEN i + specs.width
              ELSE IF f > Len(text) THEN end
              ELSE UntilStr(input, i, SubSeq(text, f, b - 1))
  IN IF ~ bounded /\ IsEscape(text, b)
       THEN ReadComplex(TextFrom(text)[b], i, NextField(text)[b] <= Len(text))
     ELSE IF next > end \/ (~ bounded /\ f <= Len(text) /\ i = end)
       THEN Nothing(i)
     ELSE Result(TRUE, View(i, next), next)

(* scanner<Arg>::scan, behind a field that ends at f.                      *)
Read(kind, specs, i, f) ==
  IF kind = "char" THEN {ReadChar(i)}
  ELSE IF kind = "string" THEN {ReadString(specs, i, f)}
  ELSE ReadInt(kind, specs, i)

ScanField ==
  /\ phase = "scanning"
  /\ AtField /\ ~ AtSentinel
  /\ \E i \in {UncheckedSpecsAt} : \E k \in {ParseScanSpecs(text, i)} :
       /\ at' = k.at
       /\ IF ~ Unchecked(k)
            THEN Continue("undefined") /\ TookNothing /\ UNCHANGED values
            ELSE \E r \in Read(kinds[Arg + 1], k.specs, pos, k.at) :
              /\ values' = IF r.value = Unset THEN values
                           ELSE [values EXCEPT ![Arg + 1] = r.value]
              /\ IF r.ok
                   THEN /\ Continue(phase)
                        /\ Took(<<Field(Arg, k.specs)>>, r.next)
                   ELSE /\ Continue("failed")
                        /\ pos' = r.next
                        /\ UNCHANGED <<output, ends>>
  /\ auto' = NewAuto
  /\ mode' = NewMode
  /\ UNCHANGED <<fields, input, bitsetVars>>

EndScan ==
  /\ phase = "scanning"
  /\ Here = End \/ AtSentinel
  /\ Continue(Finished(input, pos))
  /\ UNCHANGED <<at, auto, mode, fields, input, values, bitsetVars>>
  /\ TookNothing

Next ==
  \/ FormatNext /\ UNCHANGED scanVars
  \/ ScanPlain \/ ScanText \/ ScanField \/ EndScan

(* The program executes the call it has begun.                             *)
Spec == Init /\ [][Next]_vars /\ WF_vars(Next)
=============================================================================
