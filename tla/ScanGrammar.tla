---------------------------- MODULE ScanGrammar ----------------------------
(***************************************************************************)
(* What a scan owes to its caller: which part of the input every item of   *)
(* the scan string stands for, and what the arguments are assigned.  The   *)
(* numerals a field can read are given by a grammar, as in FormatGrammar.  *)
(***************************************************************************)
EXTENDS FormatGrammar

(* The notations of an integer field: a base and the prefix it demands.    *)
PrefixesOf ==
  [base \in {2, 8, 10, 16} |->
     CASE base = 2 -> {<<"0", "b">>, <<"0", "B">>}
       [] base = 8 -> {<<"0">>}
       [] base = 10 -> {<<>>}
       [] base = 16 -> {<<"0", "x">>, <<"0", "X">>}]

Notations(specs) ==
  LET bases == IF specs.alternate /\ specs.type = "none" THEN {2, 8, 10, 16}
               ELSE {BaseOf[specs.type]}
  IN UNION {{[base |-> b, prefix |-> p] :
               p \in IF specs.alternate THEN PrefixesOf[b] ELSE {<<>>}} :
              b \in bases}

(* With a base above ten, ':' and what else stands between '9' and 'A' are *)
(* figures as well.                                                        *)
FiguresOf(base) == {c \in DOMAIN CharValue : CharValue[c] < base}

(* The integers that u stands for: [sign] [prefix] digit+.  A number with  *)
(* a leading zero is not decimal where the prefix tells the base.          *)
IntegersOf(specs, u) ==
  LET sign == IF Len(u) > 0 /\ u[1] \in {"+", "-"} THEN 1 ELSE 0
      figures(n) == SubSeq(u, sign + Len(n.prefix) + 1, Len(u))
      fits(n) ==
        /\ Len(u) > sign + Len(n.prefix)
        /\ Matches(u, sign + 1, n.prefix)
        /\ Range(figures(n)) \subseteq FiguresOf(n.base)
        /\ n.base = 10 /\ specs.alternate /\ specs.type = "none"
             => u[sign + 1] # "0" \/ Len(u) = sign + 1
      number(n) == FoldLeft(LAMBDA m, c : n.base * m + CharValue[c], 0,
                            figures(n))
  IN {IF u[1] = "-" THEN - number(n) ELSE number(n) :
        n \in {m \in Notations(specs) : fits(m)}}

(* The part of the input that the i-th item has read.                      *)
Start(i) == IF i = 1 THEN 1 ELSE ends[i - 1]
Part(i) == SubSeq(input, Start(i), ends[i] - 1)

(* What has been read are the characters of the text, the integers the     *)
(* specs describe, and as many characters as a width demands: writing the  *)
(* parts one after the other gives the input up to the reader's position   *)
(* (parse, read_arg, read_string).                                         *)
PartsOfInput ==
  trait = "scan" =>
    /\ \A i \in DOMAIN ends :
         LET item == output[i] IN
         /\ Start(i) <= ends[i]
         /\ IF ~ IsArg(item) THEN Part(i) = <<item.char>>
            ELSE /\ item.specs.width # NoWidth =>
                      Len(Part(i)) = item.specs.width
                 /\ kinds[item.arg + 1] \in ScannedInt =>
                      IntegersOf(item.specs, Part(i)) # {}
    /\ phase \in {"scanning", "done", "leftover"} =>
         pos = Start(Len(ends) + 1)
    /\ phase = "done" => pos = Len(input) + 1

(* Every argument holds what the last field that names it has read, the    *)
(* others are untouched.  A field that fails assigns its argument only if  *)
(* it has a width (read_arg, scanner<T>::scan).                            *)
Assigned ==
  trait = "scan" =>
    \A n \in DOMAIN kinds :
      LET readers == {i \in DOMAIN ends :
                        IsArg(output[i]) /\ output[i].arg + 1 = n}
          i == CHOOSE i \in readers : \A j \in readers : j <= i
          current == Args(Len(output)) + 1
      IN \/ IF readers = {} THEN values[n] = Unset
            ELSE CASE kinds[n] = "char" -> values[n] = Literal(Part(i)[1])
                   [] kinds[n] = "string" ->
                        values[n] = View(Start(i), ends[i])
                   [] kinds[n] \in ScannedInt ->
                        \E m \in IntegersOf(output[i].specs, Part(i)) :
                          Holds(kinds[n], m) => values[n] = Numeric(m)
         \/ /\ phase = "failed" /\ current <= Len(fields)
            /\ fields[current].arg + 1 = n
            /\ fields[current].specs.width # NoWidth

----------------------------------------------------------------------------
(* The step that reads a field of one of the kinds K.                      *)
Reads(K) ==
  /\ phase = "scanning" /\ AtField /\ kinds[Arg + 1] \in K
  /\ at' # at

Specified == fields[Args(Len(output)) + 1].specs

(* "5000000000" of 32 bits and the like: the value that passes Word is no  *)
(* smaller than the one before it.                                         *)
Unnoticed(n, base) == n >= Word + n \div base

(* The longest numeral is read if the type can hold it, and with a width   *)
(* if it is as long; otherwise the field fails and leaves the input where  *)
(* it was, or behind a number out of range (read_arg, parse_int).  An      *)
(* unsigned number has no minus.  This is not claimed of a lone zero that  *)
(* "#" reads without a type in front of other text, nor of numbers that an *)
(* int cannot hold.                                                        *)
ReadsIntegers ==
  [][Reads(ScannedInt) =>
       LET specs == Specified
           kind == kinds[Arg + 1]
           unsigned == kind = "unsigned"
           part(j) == SubSeq(input, pos, j - 1)
           last == Len(input) + 1
           legal == {j \in pos..last : IntegersOf(specs, part(j)) # {}}
           wanted == IF specs.width = NoWidth THEN legal
                     ELSE legal \cap {pos + specs.width}
           longest == CHOOSE j \in wanted : \A k \in wanted : k <= j
           zero == /\ specs.alternate /\ specs.type = "none"
                   /\ Char(input, longest - 1) = "0" /\ longest < last
                   /\ longest <= SignEnd(input, pos) + 1
       IN IF wanted = {} THEN phase' = "failed" /\ pos' = pos
          ELSE \/ specs.width = NoWidth /\ zero
               \/ \E n \in IntegersOf(specs, part(longest)) :
                    IF Holds(kind, n) /\ ~ (unsigned /\ Negative(input, pos))
                      THEN /\ phase' = "scanning" /\ pos' = longest
                           /\ values'[Arg + 1] = Numeric(n)
                      ELSE \/ phase' = "failed" /\ pos' \in {pos, longest}
                           \/ ~ unsigned /\ ~ Holds("int", n)
                           \/ \E b \in {2, 8, 10, 16} : Unnoticed(n, b)]_vars

(* A string without a width ends where the text behind it begins for the   *)
(* first time; without that text in the input the scan fails, at once or   *)
(* at the end of the input (read_string, read_string_complex).             *)
StopsAtText ==
  [][Reads({"string"}) /\ Specified.width = NoWidth =>
       LET delimiter == TextFrom(text)[at']
           found == Occurrences(input, pos, delimiter)
       IN \/ delimiter = <<>>
          \/ /\ found = {}
             /\ phase' = "failed" \/ pos' = Len(input) + 1
          \/ /\ found # {}
             /\ phase' = "scanning" /\ pos' \in found
             /\ \A j \in found : pos' <= j]_vars
=============================================================================
