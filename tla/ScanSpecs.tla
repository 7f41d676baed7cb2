----------------------------- MODULE ScanSpecs -----------------------------
(***************************************************************************)
(* The specification of a replacement field of a scan string, again with a *)
(* checked parser (validate_format_specs of detail/scan/scanner.hpp and    *)
(* its check functions) and an unchecked one (parse_format_specs).         *)
(***************************************************************************)
EXTENDS FormatSpecs

NoWidth == -1

(* detail::scan::format_specs.                                             *)
NoScanSpecs == [alternate |-> FALSE, width |-> NoWidth, type |-> "none"]

(* What both parsers have read when they get to position `at'.             *)
AllScanSpecs(s, i) ==
  LET h == PartEnd(s, {"#"})[i]
      w == DigitsEnd(s, 10)[h]
      t == PartEnd(s, Alpha)[w]
      width == ParseUnsigned(s, 10)[h]
  IN
  [at |-> t,
   ok |-> w > h => width.ok,
   specs |-> [alternate |-> h > i,
              width |-> IF w > h THEN width.value ELSE NoWidth,
              type |-> IF t > w THEN s[w] ELSE "none"]]

ScannedInt == {"int", "unsigned", "byte"}

(* check_char_specs, check_integral_specs and check_string_specs.          *)
Scans(kind, specs) ==
  \/ /\ kind = "char"
     /\ specs.type \in {"none", "c"} /\ ~ specs.alternate /\ specs.width <= 1
  \/ kind \in ScannedInt /\ specs.type \in {"none", "b", "d", "o", "x"}
  \/ /\ kind = "string"
     /\ specs.type \in {"none", "s"} /\ ~ specs.alternate

ValidateScanSpecs(kind, s, i) ==
  LET k == AllScanSpecs(s, i) IN
  [k EXCEPT !.at = @ + 1,
            !.ok = /\ @
                   /\ k.specs.width # 0 /\ k.specs.width <= MaxInt
                   /\ Char(s, k.at) = Closing
                   /\ Scans(kind, k.specs)]

(* The last character is skipped whatever it is.                           *)
ParseScanSpecs(s, i) ==
  LET k == AllScanSpecs(s, i) IN
  [k EXCEPT !.at = IF @ <= Len(s) THEN @ + 1 ELSE @,
            !.ok = @ /\ (k.specs.type = "none" => k.at <= Len(s))]
=============================================================================
