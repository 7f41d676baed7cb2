------------------------- MODULE ScanString_proofs --------------------------
(***************************************************************************)
(* Types of both parsers, and what a scan reads: the parts of the input    *)
(* that the items of a scan string stand for follow one another without a  *)
(* gap, and each is what its item allows (PartsOfInputAlways); every       *)
(* argument holds what its last field has read (AssignedAlways); a field   *)
(* of an integer reads no less than the longest numeral that stands at its *)
(* place, or fails (ReadsIntegersAlways); and a string is read up to the   *)
(* text behind its field (StopsAtTextAlways).                              *)
(*                                                                         *)
(* A field is read by code that walks along the input and looks at one     *)
(* character after the other; the properties speak of the part that has    *)
(* been read, on its own.  So the lemmas carry what the code sees at a     *)
(* place of the input over to that part: it is the same text (SameCut),    *)
(* its prefix stands at the same place (PartStands), and its digits are    *)
(* the ones the number has been made of (NumeralRead).                     *)
(*                                                                         *)
(* That number is accumulated in a machine word.  It is right as long as   *)
(* the type holds the number the digits stand for: in magnitude, the true  *)
(* partial sums only grow (NumbersGrow), so if the last one is in range,   *)
(* all are, and no step has wrapped (AccumulatesNumber, ParsedExactly).    *)
(* Conversely, a numeral of any notation that stands in the input is the   *)
(* beginning of the one that the code finds there, except for a lone zero  *)
(* (LegalIsRead); so the longest is found (IntegerOwed).                   *)
(*                                                                         *)
(* The text behind a field is what the scanner looks for, up to the end of *)
(* its run (TextUpTo); that is the next field or the end of the string,    *)
(* unless the run ends at an escape (EndsAtField).                         *)
(*                                                                         *)
(* The invariants (PartsInv, AssignedInv) say it of the items read so far, *)
(* and that the next one begins where the last one ended; literal text is  *)
(* matched as a run of items of one character each (RunRead).              *)
(***************************************************************************)
EXTENDS FormatString_proofs, ScanGrammar

----------------------------------------------------------------------------
(* What the scanners read (ScanString).                                    *)

(* The sign is skipped.                                                    *)
LEMMA SignEnds ==
  ASSUME NEW s, IsText(s), NEW i \in Places(s)
  PROVE  SignEnd(s, i) \in i..(Len(s) + 1)
<1>1. Len(s) \in Nat /\ i \in Int /\ (Char(s, i) = End <=> i \notin 1..Len(s))
  BY CharOfText DEF Places
<1>2. End \notin {"+", "-"}
  BY DEF End
<1> QED
  BY <1>1, <1>2 DEF SignEnd, Places

(* The prefix of a base is skipped if it is there.                         *)
LEMMA PrefixEnds ==
  ASSUME NEW s, IsText(s), NEW i \in Places(s), NEW base \in {2, 8, 16},
         AlternateOk(s, i, base)
  PROVE  i + PrefixSize(base) \in i..(Len(s) + 1)
<1>1. /\ Len(s) \in Nat /\ i \in Int
      /\ (Char(s, i) = End <=> i \notin 1..Len(s))
      /\ (Char(s, i + 1) = End <=> i + 1 \notin 1..Len(s))
  BY CharOfText DEF Places
<1>2. End # "0" /\ End \notin {"b", "B"} /\ End \notin {"x", "X"}
  BY DEF End
<1>3. i \in 1..Len(s)
  BY <1>1, <1>2 DEF AlternateOk
<1>4. CASE base = 8
  BY <1>1, <1>3, <1>4 DEF PrefixSize
<1>5. CASE base # 8
  <2>1. i + 1 \in 1..Len(s)
    BY <1>1, <1>2, <1>5 DEF AlternateOk
  <2> QED
    BY <1>1, <1>3, <1>5, <2>1 DEF PrefixSize
<1> QED
  BY <1>4, <1>5

(* The bases of the notations.                                             *)
LEMMA BaseIsKnown ==
  ASSUME NEW s, NEW i, NEW specs,
         specs.type \in {"none", "b", "d", "o", "x"}
  PROVE  Base(s, i, specs) \in {2, 8, 10, 16}
<1>1. DetermineBase(s, i) \in {2, 8, 10, 16}
  BY DEF DetermineBase
<1>2. BaseOf[specs.type] \in {2, 8, 10, 16}
  BY DEF BaseOf
<1> QED
  BY <1>1, <1>2 DEF Base

(* Wherever the number that has been parsed ends, it ends in the string.   *)
LEMMA NumberEnds ==
  ASSUME NEW s, IsText(s), NEW i \in Places(s), NEW base \in {2, 8, 10, 16},
         NEW kind, NEW negative,
         NEW n \in ParseNumber(kind, s, i, base, negative)
  PROVE  n.next \in i..(Len(s) + 1)
<1>1. base \in 2..36
  OBVIOUS
<1> DEFINE m == ParseUnsigned(s, base)[i]
<1>2. m \in NumberRead /\ m.next = DigitsEnd(s, base)[i]
        /\ m.next \in i..(Len(s) + 1)
  BY <1>1, UnsignedRead
<1>3. CASE kind = "unsigned"
  <2>1. n = [m EXCEPT !.ok = @ /\ ~ negative]
    BY <1>3 DEF ParseNumber
  <2> HIDE DEF m
  <2> QED
    BY <1>2, <2>1 DEF NumberRead
<1>4. CASE kind # "unsigned"
  <2>1. n \in ParseSigned(s, i, base, negative)
    BY <1>4 DEF ParseNumber
  <2>2. n.next = DigitsEnd(s, base)[i]
    BY <2>1 DEF ParseSigned
  <2> QED
    BY <1>2, <2>2
<1> QED
  BY <1>3, <1>4


(* An integer is read up to a place of the input.                          *)
LEMMA IntIsInside ==
  ASSUME IsText(input), NEW i \in Places(input), NEW kind, NEW specs,
         specs.width \in Nat \cup {NoWidth},
         specs.type \in {"none", "b", "d", "o", "x"},
         NEW r \in ReadInt(kind, specs, i)
  PROVE  r.next \in i..(Len(input) + 1)
<1> DEFINE end == Len(input) + 1
           bounded == specs.width # NoWidth
           s == IF bounded /\ i + specs.width <= Len(input) + 1
                  THEN SubSeq(input, 1, i + specs.width - 1) ELSE input
           g == SignEnd(s, i)
           base == Base(s, g, specs)
           prefixed == specs.alternate /\ base # 10
           p == IF prefixed THEN g + PrefixSize(base) ELSE g
<1>1. Len(input) \in Nat /\ i \in 1..end /\ i \in Nat
  BY CharOfText DEF Places
<1>2. \/ r = Nothing(i)
      \/ /\ prefixed => AlternateOk(s, g, base)
         /\ \E n \in ParseNumber(kind, s, p, base, Negative(s, i)) :
              r = AfterDigits(kind, n, i, specs)
  BY DEF ReadInt
<1>3. Nothing(i).next = i
  BY DEF Nothing, Result
<1>4. IsText(s) /\ Len(s) \in Nat /\ Len(s) <= Len(input) /\ i \in Places(s)
  <2>1. CASE bounded /\ i + specs.width <= Len(input) + 1
    <3> DEFINE e == i + specs.width - 1
    <3>1. s = SubSeq(input, 1, e)
      BY <2>1
    <3>2. e \in Nat /\ e <= Len(input) /\ i <= e + 1
      BY <1>1, <2>1 DEF NoWidth
    <3> HIDE DEF e, s
    <3>3. \A x \in 1..e : input[x] \in STRING \ {End}
      BY <1>1, <3>2, ElementOfSeq DEF IsText
    <3>4. SubSeq(input, 1, e) \in Seq(STRING \ {End})
            /\ Len(SubSeq(input, 1, e)) = IF 1 <= e THEN e - 1 + 1 ELSE 0
      BY <3>2, <3>3, SubSeqProperties
    <3>5. Len(s) = e
      BY <3>1, <3>2, <3>4
    <3> QED
      BY <1>1, <3>1, <3>2, <3>4, <3>5 DEF IsText, Places
  <2>2. CASE ~ (bounded /\ i + specs.width <= Len(input) + 1)
    BY <1>1, <2>2
  <2> QED
    BY <2>1, <2>2
<1> HIDE DEF s
<1>5. g \in i..(Len(s) + 1) /\ g \in Places(s)
  BY <1>1, <1>4, SignEnds DEF Places
<1> HIDE DEF g
<1>6. base \in {2, 8, 10, 16}
  BY BaseIsKnown
<1> HIDE DEF base
<1>7. CASE r = Nothing(i)
  BY <1>1, <1>3, <1>7
<1>8. ASSUME prefixed => AlternateOk(s, g, base),
             NEW n \in ParseNumber(kind, s, p, base, Negative(s, i)),
             r = AfterDigits(kind, n, i, specs)
      PROVE  r.next \in i..end
  <2>1. p \in g..(Len(s) + 1)
    <3>1. CASE prefixed
      <4>1. base \in {2, 8, 16} /\ p = g + PrefixSize(base)
        BY <1>6, <3>1
      <4>2. AlternateOk(s, g, base)
        BY <1>8, <3>1
      <4>3. g + PrefixSize(base) \in g..(Len(s) + 1)
        BY <1>4, <1>5, <4>1, <4>2, PrefixEnds
      <4> QED
        BY <4>1, <4>3
    <3>2. CASE ~ prefixed
      BY <1>4, <1>5, <3>2 DEF Places
    <3> QED
      BY <3>1, <3>2
  <2>2. p \in i..(Len(s) + 1) /\ p \in Places(s)
    BY <1>1, <1>4, <1>5, <2>1 DEF Places
  <2> HIDE DEF p
  <2>3. n.next \in p..(Len(s) + 1)
    BY <1>4, <1>6, <1>8, <2>2, NumberEnds
  <2>4. n.next \in i..end
    BY <1>1, <1>4, <2>2, <2>3
  <2>5. r.next \in {i, n.next}
    BY <1>8 DEF AfterDigits, Nothing, Result
  <2> QED
    BY <1>1, <2>4, <2>5
<1> QED
  BY <1>2, <1>7, <1>8

(* The recursion of Matched: what the next character makes of n.           *)
Advanced(d, c, n) == IF n < Len(d) /\ c = d[n + 1] THEN n + 1 ELSE 0

(* No more of the delimiter has been matched than has been read.           *)
LEMMA MatchedInput ==
  ASSUME IsText(input), NEW d, NEW i \in Places(input)
  PROVE  \A j \in i..Len(input) : Matched(d, i)[j] \in 0..(j - i + 1)
<1> DEFINE e == Len(input)
           D == (i - 1)..e
           G == [p \in Int \X Nat |-> Advanced(d, input[p[1]], p[2])]
           Round(f) ==
             [j \in D |-> IF j < i THEN 0
                ELSE IF f[j - 1] < Len(d) /\ input[j] = d[f[j - 1] + 1]
                  THEN f[j - 1] + 1 ELSE 0]
<1>1. e \in Nat /\ i \in Int /\ i \in 1..(e + 1)
  BY CharOfText DEF Places
<1> HIDE DEF e
<1>2. ASSUME NEW c, NEW n \in Nat PROVE Advanced(d, c, n) \in 0..(n + 1)
  BY DEF Advanced
<1>3. G \in [Int \X Nat -> Nat]
  <2>1. \A p \in Int \X Nat : Advanced(d, input[p[1]], p[2]) \in Nat
    BY <1>2
  <2> QED
    BY <2>1
<1> HIDE DEF G
<1>4. PICK f : IsRun(f, Nat, 0, G, i - 1, e - (i - 1))
  <2>1. i - 1 \in Int /\ e - (i - 1) \in Nat
    BY <1>1
  <2> QED
    BY <1>3, <2>1, RunExists
<1>5. f \in [D -> Nat] /\ f[i - 1] = 0
        /\ \A j \in i..e : f[j] = G[<<j, f[j - 1]>>]
  <2>1. (i - 1) + (e - (i - 1)) = e /\ (i - 1) + 1 = i
    BY <1>1
  <2> QED
    BY <1>4, <2>1 DEF IsRun
<1>6. ASSUME NEW j \in i..e
      PROVE  /\ j \in D /\ j - 1 \in D /\ ~ (j < i) /\ f[j - 1] \in Nat
             /\ f[j] = Advanced(d, input[j], f[j - 1])
  <2>1. j \in D /\ j - 1 \in D /\ ~ (j < i) /\ j \in Int
    BY <1>1
  <2>2. f[j - 1] \in Nat
    BY <1>5, <2>1
  <2> QED
    BY <1>5, <2>1, <2>2 DEF G
<1>7. ASSUME NEW j \in D PROVE f[j] = Round(f)[j]
  <2>1. CASE j < i
    <3>1. j = i - 1
      BY <1>1, <2>1
    <3> QED
      BY <1>5, <2>1, <3>1
  <2>2. CASE ~ (j < i)
    <3>1. j \in i..e
      BY <1>1, <2>2
    <3> QED
      BY <1>6, <3>1, <2>2 DEF Advanced
  <2> QED
    BY <2>1, <2>2
<1>8. f = Round(f)
  BY <1>5, <1>7
<1> DEFINE m == Matched(d, i)
<1>9. m = CHOOSE g : g = Round(g)
  BY DEF Matched, e
<1>10. m = Round(m)
  <2> HIDE DEF Round, m
  <2> QED
    BY <1>8, <1>9
<1> HIDE DEF m
<1>11. m[i - 1] = 0
  <2>1. i - 1 \in D
    BY <1>1
  <2> QED
    BY <1>1, <1>10, <2>1
<1>12. ASSUME NEW j \in i..e PROVE m[j] = Advanced(d, input[j], m[j - 1])
  <2>1. j \in D /\ ~ (j < i)
    BY <1>1
  <2> QED
    BY <1>10, <2>1 DEF Advanced
<1> DEFINE S == {n \in Nat : (i - 1) + n <= e => m[(i - 1) + n] \in 0..n}
<1>13. 0 \in S
  <2>1. (i - 1) + 0 = i - 1
    BY <1>1
  <2> QED
    BY <1>11, <2>1
<1>14. ASSUME NEW n \in S, n \in Nat PROVE n + 1 \in S
  <2> SUFFICES ASSUME (i - 1) + (n + 1) <= e
               PROVE  m[(i - 1) + (n + 1)] \in 0..(n + 1)
    BY <1>14
  <2> DEFINE j == (i - 1) + (n + 1)
  <2>1. j \in i..e /\ j - 1 = (i - 1) + n /\ (i - 1) + n <= e
    BY <1>1, <1>14
  <2>2. m[j - 1] \in 0..n
    BY <1>14, <2>1
  <2> HIDE DEF j
  <2>3. Advanced(d, input[j], m[j - 1]) \in 0..(m[j - 1] + 1)
    BY <1>2, <2>2
  <2>4. m[j] \in 0..(n + 1)
    BY <1>12, <1>14, <2>1, <2>2, <2>3
  <2> QED
    BY <2>4 DEF j
<1> HIDE DEF S
<1>15. ASSUME NEW j \in i..e PROVE m[j] \in 0..(j - i + 1)
  <2>1. j - i + 1 \in Nat /\ (i - 1) + (j - i + 1) = j /\ j <= e
    BY <1>1
  <2>2. j - i + 1 \in S
    BY <1>13, <1>14, <2>1, Induction
  <2> QED
    BY <2>1, <2>2 DEF S
<1> QED
  BY <1>15 DEF m, e

(* The text behind a string is found at a place of the input, if at all.   *)
LEMMA UntilIsInside ==
  ASSUME NEW s, IsText(s), NEW i \in Places(s), NEW u
  PROVE  /\ UntilStr(s, i, u) \in i..(Len(s) + 1)
         /\ Occurrences(s, i, u) # {} =>
              /\ UntilStr(s, i, u) \in Occurrences(s, i, u)
              /\ \A k \in Occurrences(s, i, u) : UntilStr(s, i, u) <= k
<1> DEFINE P == Occurrences(s, i, u)
           n == Len(s) + 1
<1>1. Len(s) \in Nat /\ i \in Int /\ n \in Int /\ i <= n
  BY CharOfText DEF Places
<1>2. P \subseteq i..n
  BY DEF Occurrences
<1> HIDE DEF P
<1>3. ASSUME NEW x \in P PROVE \E j \in P : \A k \in P : j <= k
  <2>1. x \in Int /\ i <= x
    BY <1>1, <1>2
  <2>2. PICK j \in i..x : j \in P /\ \A k \in i..(j - 1) : k \notin P
    BY <1>1, <1>3, <2>1, FirstPlace
  <2>3. ASSUME NEW k \in P PROVE j <= k
    <3>1. k \in Int /\ i <= k /\ j \in Int
      BY <1>1, <1>2, <2>1
    <3> QED
      BY <1>1, <2>2, <3>1
  <2> QED
    BY <2>2, <2>3
<1>4. UntilStr(s, i, u) = IF P = {} THEN n
                          ELSE CHOOSE j \in P : \A k \in P : j <= k
  BY DEF UntilStr, P
<1>5. P # {} =>
        UntilStr(s, i, u) \in P /\ \A k \in P : UntilStr(s, i, u) <= k
  <2> DEFINE least == CHOOSE j \in P : \A k \in P : j <= k
  <2>1. P # {} => least \in P /\ \A k \in P : least <= k
    BY <1>3
  <2> HIDE DEF least
  <2> QED
    BY <1>4, <2>1 DEF least
<1>6. UntilStr(s, i, u) \in i..n
  <2>1. P = {} => UntilStr(s, i, u) = n
    BY <1>4
  <2>2. n \in i..n
    BY <1>1
  <2> HIDE DEF n
  <2> QED
    BY <1>2, <1>5, <2>1, <2>2
<1> QED
  BY <1>5, <1>6 DEF P

(* A string in front of a delimiter is read up to a place of the input.    *)
LEMMA ComplexIsInside ==
  ASSUME IsText(input), NEW d, NEW i \in Places(input), NEW more
  PROVE  ReadComplex(d, i, more).next \in i..(Len(input) + 1)
<1> DEFINE P == ComplexEnds(d, i, more)
<1>1. Len(input) \in Nat /\ i \in Int /\ i <= Len(input) + 1
  BY CharOfText DEF Places
<1>2. P \subseteq i..Len(input) /\ \A j \in P : Matched(d, i)[j] = Len(d)
  BY DEF ComplexEnds
<1>3. CASE P = {}
  BY <1>1, <1>3 DEF ReadComplex, Nothing, Result
<1>4. CASE P # {}
  <2> HIDE DEF P
  <2>1. PICK x \in P : TRUE
    BY <1>4
  <2>2. x \in Int /\ i <= x
    BY <1>1, <1>2
  <2>3. PICK y \in i..x : y \in P /\ \A k \in i..(y - 1) : k \notin P
    BY <1>1, <2>1, <2>2, FirstPlace
  <2>4. ASSUME NEW k \in P PROVE y <= k
    <3>1. k \in Int /\ i <= k /\ y \in Int
      BY <1>1, <1>2, <2>2
    <3> QED
      BY <1>1, <2>3, <3>1
  <2> DEFINE j == CHOOSE j \in P : \A k \in P : j <= k
  <2>5. j \in P
    BY <2>3, <2>4
  <2>6. ReadComplex(d, i, more).next = j - Len(d) + 1
    BY <1>4 DEF ReadComplex, Result, P
  <2> HIDE DEF j
  <2>7. j \in i..Len(input) /\ Matched(d, i)[j] = Len(d)
    BY <1>2, <2>5
  <2>8. Len(d) \in 0..(j - i + 1)
    BY <2>7, MatchedInput
  <2> QED
    BY <1>1, <2>6, <2>7, <2>8
<1> QED
  BY <1>3, <1>4

(* So is a string.                                                         *)
LEMMA StringIsInside ==
  ASSUME IsText(input), NEW i \in Places(input), NEW specs, NEW f,
         specs.width \in Nat \cup {NoWidth}
  PROVE  ReadString(specs, i, f).next \in i..(Len(input) + 1)
<1> DEFINE b == RunEnd(text)[f]
           end == Len(input) + 1
           bounded == specs.width # NoWidth
           next == IF bounded THEN i + specs.width
                   ELSE IF f > Len(text) THEN end
                   ELSE UntilStr(input, i, SubSeq(text, f, b - 1))
<1>1. Len(input) \in Nat /\ i \in Nat /\ i <= end
  BY CharOfText DEF Places
<1>2. CASE ~ bounded /\ IsEscape(text, b)
  <2>1. ReadString(specs, i, f) =
          ReadComplex(TextFrom(text)[b], i, NextField(text)[b] <= Len(text))
    BY <1>2 DEF ReadString
  <2> QED
    BY <2>1, ComplexIsInside
<1>3. CASE ~ (~ bounded /\ IsEscape(text, b))
  <2>1. ReadString(specs, i, f) =
          IF next > end \/ (~ bounded /\ f <= Len(text) /\ i = end)
            THEN Nothing(i) ELSE Result(TRUE, View(i, next), next)
    BY <1>3 DEF ReadString
  <2>2. next \in Nat /\ i <= next
    <3>1. CASE bounded
      BY <1>1, <3>1 DEF NoWidth
    <3>2. CASE ~ bounded
      <4>1. UntilStr(input, i, SubSeq(text, f, b - 1)) \in i..end
        BY UntilIsInside
      <4> QED
        BY <1>1, <3>2, <4>1
    <3> QED
      BY <3>1, <3>2
  <2> HIDE DEF next
  <2> QED
    BY <1>1, <2>1, <2>2 DEF Nothing, Result
<1> QED
  BY <1>2, <1>3

(* Whatever a scanner does, it leaves the reader inside the input.         *)
LEMMA ReadIsInside ==
  ASSUME IsText(input), NEW i \in Places(input), NEW kind, NEW specs, NEW f,
         specs.width \in Nat \cup {NoWidth}, Scans(kind, specs),
         NEW r \in Read(kind, specs, i, f)
  PROVE  r.next \in i..(Len(input) + 1)
<1>1. CASE kind = "char"
  <2>1. r = ReadChar(i)
    BY <1>1 DEF Read
  <2>2. Len(input) \in Nat /\ i \in Nat /\ i <= Len(input) + 1
    BY CharOfText DEF Places
  <2> QED
    BY <2>1, <2>2 DEF ReadChar, Nothing, Result
<1>2. CASE kind = "string"
  <2>1. r = ReadString(specs, i, f)
    BY <1>2 DEF Read
  <2> QED
    BY <2>1, StringIsInside
<1>3. CASE kind \notin {"char", "string"}
  <2>1. r \in ReadInt(kind, specs, i)
    BY <1>3 DEF Read
  <2>2. specs.type \in {"none", "b", "d", "o", "x"}
    BY <1>3 DEF Scans
  <2> QED
    BY <2>1, <2>2, IntIsInside
<1> QED
  BY <1>1, <1>2, <1>3

----------------------------------------------------------------------------
(* Types (FormatGrammar).                                                  *)

(* What ParserInv does not tell: the mode, the readers and what they have  *)
(* written, which is no more than they have come by of the text; a place   *)
(* in the input for each item of a scan.                                   *)
Typed(ph, t, s, k, i, md, o, in, p, e, v) ==
  /\ md \in {"unset", "auto", "positional"}
  /\ Len(o) <= Len(s) /\ (ph \in {"formatting", "scanning"} => Len(o) < i)
  /\ in \in Input \cup {<<>>} /\ p \in Places(in)
  /\ ph \in {"plain", "validating", "matching", "validated"} => p = 1
  /\ IsSequence(e) /\ Len(e) = IF t = "scan" THEN Len(o) ELSE 0
  /\ DOMAIN v = DOMAIN k

(* The same of the variables.                                              *)
TypedInv ==
  Typed(phase, trait, text, kinds, at, mode, output, input, pos, ends, values)

(* The items of an action.                                                 *)
LEMMA TookItems ==
  ASSUME NEW items, IsSequence(items), IsSequence(ends), NEW j, Took(items, j)
  PROVE  /\ pos' = j /\ output' = output \o items /\ IsSequence(ends')
         /\ Len(ends') = Len(ends) + Len(items)
<1> DEFINE n == Len(items)
           places == [m \in DOMAIN items |-> j - n + m]
<1>1. n \in Nat /\ DOMAIN items = 1..n
  BY SequenceOf DEF IsSequence
<1>2. ends' = ends \o places /\ pos' = j /\ output' = output \o items
  BY DEF Took
<1>3. IsSequence(places) /\ Len(places) = n
  <2>1. DOMAIN places = 1..n /\ places = [m \in 1..n |-> places[m]]
    BY <1>1
  <2> HIDE DEF places
  <2>2. places \in [1..n -> Range(places)]
    BY <2>1 DEF Range
  <2>3. places \in Seq(Range(places)) /\ Len(places) = n
    BY <1>1, <2>1, <2>2
  <2> QED
    BY <2>3 DEF IsSequence
<1> HIDE DEF places
<1>4. Joined(ends \o places, ends, places)
  BY <1>3, Joining
<1> QED
  BY <1>2, <1>3, <1>4 DEF Joined

(* It holds initially.                                                     *)
LEMMA TypedInit == ASSUME WithoutTuples, Init PROVE TypedInv
<1>1. ParserInv
  BY ParserInit
<1>2. Len(text) \in Nat
  BY <1>1, CharOfText DEF ParserInv, Consistent, Places
<1>3. /\ mode = "unset" /\ output = <<>> /\ input = <<>> /\ pos = 1
      /\ ends = <<>> /\ DOMAIN values = DOMAIN kinds
      /\ phase \in {"plain", "validating"}
  BY DEF Init, FormatInit
<1>4. IsSequence(<<>>) /\ Len(<<>>) = 0 /\ 1 \in Places(<<>>)
  BY EmptySequence DEF Places
<1> QED
  BY <1>2, <1>3, <1>4 DEF TypedInv, Typed

(* Reading and checking a string leaves the input alone.                   *)
LEMMA CheckingTyped ==
  ASSUME TypedInv, UNCHANGED <<trait, text, kinds, output, input, scanVars>>,
         phase' \in {"validating", "matching", "validated"} => pos = 1,
         phase' \notin {"plain", "formatting", "scanning"},
         mode' \in {mode, "auto", "positional"}
  PROVE  TypedInv'
  BY DEF TypedInv, Typed, scanVars

(* The actions of the checking parser, and the end of the other.           *)
LEMMA ChecksTyped ==
  ASSUME ParserInv, TypedInv,
         \/ ValidateText \/ ValidateField \/ Terminate \/ RejectText
         \/ RejectField \/ RejectSpecs \/ AskMatched \/ Match
         \/ EndValidation \/ EndFormat,
         UNCHANGED scanVars
  PROVE  TypedInv'
<1>1. /\ UNCHANGED <<trait, text, kinds, output, input>>
      /\ mode' \in {mode, "auto", "positional"}
      /\ \/ phase \in {"validating", "matching"}
            /\ phase' \in {"validating", "matching", "validated", "rejected",
                           "terminated"}
         \/ phase' = "done"
  BY DEF ValidateText, ValidateField, Terminate, RejectText, RejectField,
         RejectSpecs, AskMatched, Match, EndValidation, EndFormat, Continue,
         stringVars, NewMode
<1>2. phase \in {"validating", "matching"} => pos = 1
  BY DEF TypedInv, Typed
<1> QED
  BY <1>1, <1>2, CheckingTyped

(* The input is a text.                                                    *)
LEMMA InputIsText ==
  ASSUME TypedInv PROVE IsText(input) /\ pos \in Places(input)
<1>1. <<>> \in Seq(STRING \ {End})
  OBVIOUS
<1> QED
  BY <1>1, InputAssumption DEF TypedInv, Typed, IsText

(* Places of the input.                                                    *)
LEMMA PlaceOf ==
  ASSUME NEW s, IsText(s), NEW i \in Places(s),
         NEW j \in i..(Len(s) + 1)
  PROVE  j \in Places(s)
  BY CharOfText DEF Places

(* The start of the second reader.                                         *)
LEMMA BeginTyped ==
  ASSUME ParserInv, TypedInv, Begin, UNCHANGED scanVars PROVE TypedInv'
<1>1. /\ phase = "validated" /\ phase' \in {"scanning", "formatting"}
      /\ trait' = trait /\ text' = text /\ kinds' = kinds /\ at' = 1
      /\ mode' = "unset" /\ output' = output
      /\ pos' = pos /\ ends' = ends /\ values' = values
      /\ input' \in Input \/ input' = input
  BY DEF Begin, Continue, scanVars
<1>2. output = <<>> /\ pos = 1 /\ input' \in Input \cup {<<>>}
  BY <1>1 DEF ParserInv, Consistent, TypedInv, Typed
<1>3. <<>> \in Seq(STRING \ {End})
  OBVIOUS
<1>4. Len(text) \in Nat
  BY CharOfText DEF ParserInv, Consistent, Places
<1>5. ASSUME NEW s \in Input \cup {<<>>} PROVE 1 \in Places(s)
  <2>1. IsText(s)
    BY <1>3, InputAssumption DEF IsText
  <2> QED
    BY <2>1, CharOfText DEF Places
<1>6. Typed(phase', trait, text, kinds, 1, "unset", <<>>, input', 1, ends,
            values)
  BY <1>1, <1>2, <1>4, <1>5 DEF TypedInv, Typed
<1> QED
  BY <1>1, <1>2, <1>6 DEF TypedInv

(* A plain string is written.                                              *)
LEMMA WrittenTyped ==
  ASSUME ParserInv, TypedInv, WritePlain, UNCHANGED scanVars PROVE TypedInv'
<1> DEFINE o == Literals(text)
<1>1. /\ phase' = "done" /\ trait = "format"
      /\ trait' = trait /\ text' = text /\ kinds' = kinds /\ at' = at
      /\ mode' = mode /\ output' = o /\ input' = input
      /\ pos' = pos /\ ends' = ends /\ values' = values
  BY DEF WritePlain, Continue, scanVars, Literals
<1>2. IsSequence(text)
  BY SequenceOf DEF ParserInv, Consistent, IsText
<1>3. Len(o) = Len(text) /\ Len(text) \in Nat
  BY <1>2, LiteralsOf, SequenceOf DEF IsSequence
<1> HIDE DEF o
<1>4. Typed("done", trait, text, kinds, at, mode, o, input, pos, ends, values)
  BY <1>1, <1>3 DEF TypedInv, Typed
<1> QED
  BY <1>1, <1>4 DEF TypedInv

(* Formatting text.                                                        *)
LEMMA TextTyped ==
  ASSUME ParserInv, TypedInv, FormatText, UNCHANGED scanVars PROVE TypedInv'
<1> DEFINE j == at + TextStep(Char(text, at))
           o == Append(output, Literal(Here))
           n == ArgsIn(output, Len(output))
<1>1. /\ phase = "formatting" /\ phase' \in {"formatting", "undefined"}
      /\ trait' = trait /\ text' = text /\ kinds' = kinds /\ at' = j
      /\ mode' = mode /\ output' = o /\ input' = input
      /\ pos' = pos /\ ends' = ends /\ values' = values
      /\ TextAt(text, at)
  BY Seen DEF FormatText, Continue, Skip, scanVars
<1>2. /\ IsText(text) /\ at \in Places(text) /\ auto \in Nat
      /\ IsSequence(output) /\ trait = "format"
      /\ Passed(trait, text, kinds, fields, at, auto, n) /\ n \in Nat
  BY <1>1, SequenceOf, ArgsAreNat DEF ParserInv, Consistent, IsSequence
<1>3. TextFine(text, at)
  BY <1>1, <1>2, TextPassed
<1>4. j \in (at + 1)..(Len(text) + 1) /\ at \in 1..Len(text)
        /\ Len(text) \in Nat
  BY <1>1, <1>2, <1>3, StepOfText
<1> HIDE DEF j, n
<1>5. Len(o) = Len(output) + 1 /\ Len(output) \in Nat
  BY <1>2, Appending, OneIsSequence DEF Joined
<1> HIDE DEF o
<1>6. Len(output) < at
  BY <1>1 DEF TypedInv, Typed
<1>7. \A ph \in {"formatting", "undefined"} :
        Typed(ph, trait, text, kinds, j, mode, o, input, pos, ends, values)
  BY <1>2, <1>4, <1>5, <1>6 DEF TypedInv, Typed
<1> QED
  BY <1>1, <1>7 DEF TypedInv

(* Formatting a field.                                                     *)
LEMMA FieldTyped ==
  ASSUME ParserInv, TypedInv, FormatField, UNCHANGED scanVars PROVE TypedInv'
<1> DEFINE p == Parsed(trait, text, kinds, at, auto)
           o == Append(output, Field(Arg, p.specs))
<1>1. phase = "formatting" /\ trait = "format" /\ AtField /\ ~ AtSentinel
  BY DEF FormatField, ParserInv, Consistent
<1>2. Exists /\ p.at \in (at + 1)..(Len(text) + 1)
  BY <1>1, FieldSeen
<1>3. ParseAny(text)[kinds[Arg + 1]][UncheckedSpecsAt] = p
  <2>1. NameEnd = NameEndAt(text, at)
    BY DEF NameEnd, NameEndAt, Positional, Numbered, Following, Name
  <2> QED
    BY <1>1, <2>1, Seen DEF Parsed, UncheckedFrom, UncheckedSpecsAt
<1>4. /\ trait' = trait /\ text' = text /\ kinds' = kinds /\ input' = input
      /\ pos' = pos /\ ends' = ends /\ values' = values
      /\ mode' \in {"auto", "positional"}
      /\ \/ phase' = "formatting" /\ at' = p.at /\ output' = o
         \/ phase' \in {"failed", "undefined"} /\ output' = output
  BY <1>2, <1>3 DEF FormatField, Continue, scanVars, Outcome, NewMode
<1>5. Len(o) = Len(output) + 1 /\ Len(output) \in Nat
  BY Appending, OneIsSequence DEF Joined, ParserInv, Consistent
<1>6. Len(text) \in Nat /\ at \in Places(text)
  BY CharOfText DEF ParserInv, Consistent, Places
<1> HIDE DEF p, o
<1>7. Len(output) < at
  BY <1>1 DEF TypedInv, Typed
<1>8. ASSUME NEW m \in {"auto", "positional"}
      PROVE  /\ Typed("formatting", trait, text, kinds, p.at, m, o,
                      input, pos, ends, values)
             /\ \A ph \in {"failed", "undefined"} : \A i :
                  Typed(ph, trait, text, kinds, i, m, output, input, pos,
                        ends, values)
  BY <1>1, <1>2, <1>5, <1>6, <1>7 DEF TypedInv, Typed, Places
<1> QED
  BY <1>4, <1>8 DEF TypedInv

(* A plain string is matched.                                              *)
LEMMA PlainTyped ==
  ASSUME ParserInv, TypedInv, ScanPlain PROVE TypedInv'
<1> DEFINE u == Literals(text)
           j == Len(text) + 1
<1>1. /\ phase = "plain" /\ trait = "scan"
      /\ trait' = trait /\ text' = text /\ kinds' = kinds /\ mode' = mode
      /\ values' = values /\ input' \in Input
      /\ \/ /\ Matches(input', 1, text) /\ Took(u, j)
            /\ phase' \in {"done", "leftover"}
         \/ /\ pos' = pos /\ output' = output /\ ends' = ends
            /\ phase' = "failed"
  BY DEF ScanPlain, Continue, Literals, TookNothing, Finished
<1>2. output = <<>> /\ pos = 1 /\ Len(ends) = 0 /\ IsSequence(ends)
  BY <1>1 DEF ParserInv, Consistent, TypedInv, Typed
<1>3. IsText(text) /\ Len(text) \in Nat /\ IsSequence(text)
  BY CharOfText, SequenceOf DEF ParserInv, Consistent, Places, IsText
<1>4. IsSequence(u) /\ Len(u) = Len(text)
  BY <1>3, LiteralsOf
<1> HIDE DEF u
<1>5. Joined(output \o u, output, u)
  BY <1>2, <1>4, EmptySequence, Joining
<1>6. ASSUME NEW s \in Input PROVE IsText(s) /\ 1 \in Places(s)
  <2>1. IsText(s)
    BY InputAssumption DEF IsText
  <2> QED
    BY <2>1, CharOfText DEF Places
<1>7. ASSUME NEW s \in Input, Matches(s, 1, text) PROVE j \in Places(s)
  BY <1>3, <1>6, <1>7, CharOfText DEF Places, Matches
<1> HIDE DEF j
<1>8. CASE Took(u, j) /\ Matches(input', 1, text)
           /\ phase' \in {"done", "leftover"}
  <2>1. /\ pos' = j /\ output' = output \o u /\ IsSequence(ends')
        /\ Len(ends') = Len(ends) + Len(u)
    BY <1>2, <1>4, <1>8, TookItems
  <2>2. Len(output \o u) = Len(text)
    BY <1>2, <1>3, <1>4, <1>5 DEF Joined
  <2>3. Len(ends') = Len(text)
    BY <1>2, <1>3, <1>4, <2>1
  <2>4. j \in Places(input')
    BY <1>1, <1>7, <1>8
  <2> HIDE DEF u
  <2>5. ASSUME NEW e, IsSequence(e), Len(e) = Len(text),
               NEW s \in Input, j \in Places(s)
        PROVE  \A ph \in {"done", "leftover"} :
                 Typed(ph, trait, text, kinds, at, mode, output \o u, s, j, e,
                       values)
    BY <1>1, <1>3, <2>2, <2>5 DEF TypedInv, Typed
  <2>6. at' = at
    BY DEF ScanPlain
  <2> QED
    BY <1>1, <1>8, <2>1, <2>3, <2>4, <2>5, <2>6 DEF TypedInv
<1>9. CASE pos' = pos /\ output' = output /\ ends' = ends
           /\ phase' = "failed"
  <2>1. ASSUME NEW s \in Input
        PROVE  Typed("failed", trait, text, kinds, at, mode, output, s, pos,
                     ends, values)
    BY <1>2, <1>6 DEF TypedInv, Typed
  <2>2. at' = at
    BY DEF ScanPlain
  <2> QED
    BY <1>1, <1>9, <2>1, <2>2 DEF TypedInv
<1> QED
  BY <1>1, <1>8, <1>9

(* A run of text is matched.                                               *)
LEMMA RunTyped ==
  ASSUME ParserInv, TypedInv, ScanText PROVE TypedInv'
<1> DEFINE run == Run(text, at)
           u == Literals(run)
           i == NextRun(text, at)
           j == pos + Len(run)
           n == ArgsIn(output, Len(output))
<1>1. /\ phase = "scanning" /\ trait' = trait /\ text' = text
      /\ kinds' = kinds /\ mode' = mode /\ values' = values /\ at' = i
      /\ input' = input /\ TextAt(text, at)
      /\ \/ /\ Matches(input, pos, run) /\ Took(u, j)
            /\ phase' \in {"scanning", "undefined"}
         \/ /\ pos' = pos /\ output' = output /\ ends' = ends
            /\ phase' = "failed"
  BY Seen DEF ScanText, Continue, Literals, TookNothing
<1>2. /\ IsText(text) /\ at \in Places(text) /\ auto \in Nat
      /\ IsSequence(output) /\ trait = "scan"
      /\ Passed(trait, text, kinds, fields, at, auto, n) /\ n \in Nat
  BY <1>1, SequenceOf, ArgsAreNat DEF ParserInv, Consistent, IsSequence
<1>3. /\ i \in Places(text) /\ IsSequence(run) /\ at + Len(run) <= i
  BY <1>1, <1>2, RunPassed
<1> HIDE DEF i, run, n
<1>4. IsSequence(u) /\ Len(u) = Len(run)
  BY <1>3, LiteralsOf
<1> HIDE DEF u
<1>5. Joined(output \o u, output, u)
  BY <1>2, <1>4, Joining
<1>6. /\ IsText(input) /\ pos \in Places(input) /\ Len(input) \in Nat
      /\ Len(text) \in Nat
  BY <1>2, InputIsText, CharOfText DEF Places
<1>7. /\ Len(output) < at /\ IsSequence(ends) /\ Len(ends) = Len(output)
      /\ Len(output) \in Nat /\ Len(run) \in Nat
  BY <1>1, <1>2, <1>4, <1>5 DEF TypedInv, Typed, Joined
<1>8. CASE Took(u, j) /\ Matches(input, pos, run)
           /\ phase' \in {"scanning", "undefined"}
  <2>1. /\ pos' = j /\ output' = output \o u /\ IsSequence(ends')
        /\ Len(ends') = Len(ends) + Len(u)
    BY <1>4, <1>7, <1>8, TookItems
  <2>2. Len(output \o u) = Len(output) + Len(run)
    BY <1>4, <1>5 DEF Joined
  <2>3. Len(ends') = Len(output) + Len(run)
    BY <1>4, <1>7, <2>1
  <2>4. j \in Places(input)
    BY <1>6, <1>7, <1>8 DEF Matches, Places
  <2>5. Len(output) + Len(run) < i /\ Len(output) + Len(run) <= Len(text)
    BY <1>2, <1>3, <1>6, <1>7 DEF Places
  <2> HIDE DEF j
  <2>6. ASSUME NEW e, IsSequence(e), Len(e) = Len(output) + Len(run)
        PROVE  \A ph \in {"scanning", "undefined"} :
                 Typed(ph, trait, text, kinds, i, mode, output \o u, input, j,
                       e, values)
    BY <1>2, <2>2, <2>4, <2>5, <2>6 DEF TypedInv, Typed
  <2> QED
    BY <1>1, <1>8, <2>1, <2>3, <2>6 DEF TypedInv
<1>9. CASE pos' = pos /\ output' = output /\ ends' = ends
           /\ phase' = "failed"
  <2>1. Typed("failed", trait, text, kinds, i, mode, output, input, pos, ends,
              values)
    BY DEF TypedInv, Typed
  <2> QED
    BY <1>1, <1>9, <2>1 DEF TypedInv
<1> QED
  BY <1>1, <1>8, <1>9

(* The specs of a field of a validated scan string.                        *)
LEMMA ScanSpecsSeen ==
  ASSUME ParserInv, phase = "scanning", AtField, ~ AtSentinel
  PROVE  LET p == ParseScanSpecs(text, UncheckedSpecsAt) IN
         /\ Unchecked(p) /\ p.at \in (at + 1)..(Len(text) + 1)
         /\ Scans(kinds[Arg + 1], p.specs)
         /\ p.specs.width \in (Nat \ {0}) \cup {NoWidth}
<1> DEFINE n == ArgsIn(output, Len(output))
           v == Validated(trait, text, kinds, at, auto)
           p == Parsed(trait, text, kinds, at, auto)
           e == NameEndAt(text, at)
           j == CheckedFrom(text, at)
           kind == kinds[Arg + 1]
           k == AllScanSpecs(text, j)
           ok == /\ k.ok
                 /\ k.specs.width # 0 /\ k.specs.width <= MaxInt
                 /\ Char(text, k.at) = Closing
                 /\ Scans(kind, k.specs)
           after == k.at + 1
<1>1. /\ IsText(text) /\ at \in Places(text) /\ auto \in Nat
      /\ IsSequence(output) /\ kinds \in Seq(Flat) /\ trait = "scan"
      /\ Passed(trait, text, kinds, fields, at, auto, n)
  BY DEF ParserInv, Consistent
<1>2. n \in Nat
  BY <1>1, SequenceOf, ArgsAreNat DEF IsSequence
<1>3. /\ FieldAt(text, at) /\ ArgAt(text, at, auto) # NoMoreArgs
      /\ Arg = ArgAt(text, at, auto)
  BY Seen
<1> HIDE DEF n
<1>4. NameFine(text, at) /\ ArgAt(text, at, auto) < Len(kinds) /\ v.ok
  BY <1>1, <1>2, <1>3, FieldPassed
<1>5. SameRead(text, at, v, p)
  BY <1>1, <1>3, <1>4, FieldRead
<1>6. v = ValidateScanSpecs(kind, text, j)
  BY <1>1, <1>3 DEF Validated
<1>7. p = ParseScanSpecs(text, UncheckedSpecsAt)
  <2>1. NameEnd = NameEndAt(text, at)
    BY DEF NameEnd, NameEndAt, Positional, Numbered, Following, Name
  <2> QED
    BY <1>1, <2>1, Seen DEF Parsed, UncheckedFrom, UncheckedSpecsAt
<1>8. j \in Places(text)
  <2>1. e \in (at + 1)..(Len(text) + 1) /\ at \in Nat /\ Len(text) \in Nat
    BY <1>1, <1>3, NameRead DEF Places
  <2>2. e \in 1..Len(text)
    BY <1>1, <1>4, <2>1, EndInNoPart, CharOfText DEF NameFine
  <2> QED
    BY <2>2, <2>1 DEF CheckedFrom, Places
<1> HIDE DEF v, p, j
<1>9. k \in ScanSpecsRead(text)
  BY <1>1, <1>8, AllScanSpecsRead
<1>10. v = [k EXCEPT !.at = after, !.ok = ok]
  BY <1>6 DEF ValidateScanSpecs
<1> HIDE DEF k
<1>11. v.ok = ok /\ v.specs = k.specs
       /\ k.specs.width \in Nat \cup {NoWidth}
  <2> HIDE DEF ok, after
  <2> QED
    BY <1>9, <1>10 DEF ScanSpecsRead
<1>12. k.specs.width # 0 /\ Scans(kind, k.specs)
  <2>1. ok
    BY <1>4, <1>11
  <2> QED
    BY <2>1
<1> HIDE DEF ok
<1>13. p.specs = k.specs
  BY <1>4, <1>5, <1>11 DEF SameRead
<1>14. Unchecked(p) /\ p.at \in (at + 1)..(Len(text) + 1)
  BY FieldSeen DEF p
<1> QED
  BY <1>7, <1>11, <1>12, <1>13, <1>14

(* A field is scanned.                                                     *)
LEMMA ScanFieldTyped ==
  ASSUME ParserInv, TypedInv, ScanField PROVE TypedInv'
<1> DEFINE p == ParseScanSpecs(text, UncheckedSpecsAt)
           kind == kinds[Arg + 1]
           u == <<Field(Arg, p.specs)>>
<1>1. phase = "scanning" /\ trait = "scan" /\ AtField /\ ~ AtSentinel
  BY DEF ScanField, ParserInv, Consistent
<1>2. /\ Unchecked(p) /\ p.at \in (at + 1)..(Len(text) + 1)
      /\ Scans(kind, p.specs) /\ p.specs.width \in Nat \cup {NoWidth}
  BY <1>1, ScanSpecsSeen
<1>3. PICK r \in Read(kind, p.specs, pos, p.at) :
        /\ values' = IF r.value = Unset THEN values
                     ELSE [values EXCEPT ![Arg + 1] = r.value]
        /\ \/ phase' = "scanning" /\ Took(u, r.next)
           \/ /\ phase' = "failed" /\ pos' = r.next
              /\ output' = output /\ ends' = ends
  BY <1>1, <1>2 DEF ScanField, Continue
<1>4. /\ trait' = trait /\ text' = text /\ kinds' = kinds /\ at' = p.at
      /\ input' = input /\ mode' \in {"auto", "positional"}
  BY <1>1, <1>2 DEF ScanField, Continue, NewMode
<1>5. /\ IsText(text) /\ at \in Places(text) /\ IsSequence(output)
      /\ IsText(input) /\ pos \in Places(input)
      /\ Len(output) < at /\ Len(output) \in Nat
      /\ IsSequence(ends) /\ Len(ends) = Len(output)
      /\ DOMAIN values = DOMAIN kinds
  BY <1>1, InputIsText, SequenceOf
     DEF ParserInv, Consistent, TypedInv, Typed, IsSequence
<1> HIDE DEF p, kind
<1>6. r.next \in Places(input)
  BY <1>2, <1>5, ReadIsInside, PlaceOf
<1>7. DOMAIN values' = DOMAIN kinds
  BY <1>3, <1>5
<1>8. Len(text) \in Nat /\ at \in Nat
  BY <1>5, CharOfText DEF Places
<1>9. IsSequence(u) /\ Len(u) = 1
  BY OneIsSequence
<1> HIDE DEF u
<1>10. Joined(output \o u, output, u)
  BY <1>5, <1>9, Joining
<1>11. Len(output \o u) = Len(output) + 1
  BY <1>9, <1>10 DEF Joined
<1>12. CASE phase' = "scanning" /\ Took(u, r.next)
  <2>1. /\ pos' = r.next /\ output' = output \o u /\ IsSequence(ends')
        /\ Len(ends') = Len(ends) + Len(u)
    BY <1>5, <1>9, <1>12, TookItems
  <2>2. Len(ends') = Len(output) + 1
    BY <1>5, <1>9, <2>1
  <2>3. Len(output) + 1 < p.at /\ Len(output) + 1 <= Len(text)
    BY <1>2, <1>5, <1>8
  <2>4. ASSUME NEW e, IsSequence(e), Len(e) = Len(output) + 1,
               NEW v, DOMAIN v = DOMAIN kinds,
               NEW m \in {"auto", "positional"}
        PROVE  Typed("scanning", trait, text, kinds, p.at, m, output \o u,
                     input, r.next, e, v)
    BY <1>1, <1>6, <1>11, <2>3, <2>4 DEF TypedInv, Typed
  <2> QED
    BY <1>4, <1>7, <1>12, <2>1, <2>2, <2>4 DEF TypedInv
<1>13. CASE /\ phase' = "failed" /\ pos' = r.next
            /\ output' = output /\ ends' = ends
  <2>1. ASSUME NEW v, DOMAIN v = DOMAIN kinds,
               NEW m \in {"auto", "positional"}
        PROVE  Typed("failed", trait, text, kinds, p.at, m, output, input,
                     r.next, ends, v)
    BY <1>1, <1>6, <2>1 DEF TypedInv, Typed
  <2> QED
    BY <1>4, <1>7, <1>13, <2>1 DEF TypedInv
<1> QED
  BY <1>3, <1>12, <1>13

(* The end of scanning.                                                    *)
LEMMA EndScanTyped == ASSUME ParserInv, TypedInv, EndScan PROVE TypedInv'
<1>1. /\ phase = "scanning" /\ phase' \in {"done", "leftover"}
      /\ UNCHANGED <<trait, text, kinds, at, mode, output, input, scanVars>>
  BY DEF EndScan, Continue, Finished, TookNothing, scanVars
<1> QED
  BY <1>1 DEF TypedInv, Typed, scanVars

(* Every step keeps it.                                                    *)
LEMMA TypedStep == ParserInv /\ TypedInv /\ [Next]_vars => TypedInv'
<1> SUFFICES ASSUME ParserInv, TypedInv, [Next]_vars PROVE TypedInv'
  OBVIOUS
<1>1. CASE FormatNext /\ UNCHANGED scanVars
  BY <1>1, WrittenTyped, ChecksTyped, BeginTyped, TextTyped, FieldTyped
     DEF FormatNext
<1>2. CASE ScanPlain \/ ScanText \/ ScanField \/ EndScan
  BY <1>2, PlainTyped, RunTyped, ScanFieldTyped, EndScanTyped
<1>3. CASE UNCHANGED vars
  BY <1>3 DEF vars, formatVars, stringVars, scanVars, TypedInv
<1> QED
  BY <1>1, <1>2, <1>3 DEF Next

(* Every state is well typed.  In particular, no reader ever stands        *)
(* outside of its string: neither those of the two parsers in the format   *)
(* string nor, whatever the scanners do, the one in the input; and the     *)
(* arguments that are assigned are those that were given.                  *)
THEOREM StringTypeCorrect ==
  ASSUME WithoutTuples PROVE Spec => []TypeOK
<1>1. ParserInv /\ TypedInv /\ Named /\ TickingInv /\ BitsetTypeOK => TypeOK
  <2> SUFFICES ASSUME ParserInv, TypedInv, Named, TickingInv, BitsetTypeOK
               PROVE  TypeOK
    OBVIOUS
  <2>1. phase \in Working \cup Final /\ at \in 1..(Len(text) + 1)
    BY DEF ParserInv, Consistent, Places
  <2>2. ASSUME NEW i \in DOMAIN fields PROVE fields[i].arg < Len(kinds)
    <3>1. i \in 1..Len(fields)
      BY SequenceOf DEF TickingInv, Ticking, IsSequence
    <3>2. fields[i].arg \in Ticked(fields)
      BY <3>1 DEF Ticked
    <3>3. fields[i].arg \in 0..(Len(kinds) - 1) /\ Len(kinds) \in Nat
      BY <3>2 DEF TickingInv, Ticking, Named
    <3> QED
      BY <3>3
  <2> QED
    BY <2>1, <2>2 DEF TypedInv, Typed, Named, Places, TypeOK
<1>2. Init => ParserInv /\ TypedInv
  BY ParserInit, TypedInit
<1> QED
  BY <1>1, <1>2, ParserStep, TypedStep, NamedInit, NamedStep, TickingInit,
     TickingStep, UsesBitset, BitsetTypeCorrect, AnswersAreRight, PTL DEF Spec

----------------------------------------------------------------------------
(* The parts of the input (ScanGrammar).                                   *)

(* A part of a text.                                                       *)
LEMMA CutOf ==
  ASSUME NEW s, IsText(s), NEW a \in Int, NEW b \in Int,
         1 <= a, a <= b + 1, b <= Len(s)
  PROVE  LET u == SubSeq(s, a, b) IN
         /\ IsText(u) /\ Len(u) = b - a + 1 /\ DOMAIN u = 1..(b - a + 1)
         /\ \A x \in 1..(b - a + 1) : u[x] = s[a + x - 1]
<1>1. Len(s) \in Nat
  BY DEF IsText
<1>2. \A x \in a..b : s[x] \in STRING \ {End}
  BY <1>1, ElementOfSeq DEF IsText
<1> DEFINE u == SubSeq(s, a, b)
<1>3. /\ u \in Seq(STRING \ {End})
      /\ Len(u) = IF a <= b THEN b - a + 1 ELSE 0
      /\ \A x \in 1..(b - a + 1) : u[x] = s[a + x - 1]
  BY <1>2, SubSeqProperties
<1> HIDE DEF u
<1>4. Len(u) = b - a + 1 /\ DOMAIN u = 1..Len(u)
  BY <1>3
<1> QED
  BY <1>3, <1>4 DEF u, IsText

(* Short sequences.                                                        *)
LEMMA ShortSequences ==
  ASSUME NEW S, NEW w \in Seq(S)
  PROVE  /\ Len(w) = 0 => w = <<>>
         /\ Len(w) = 1 => w = <<w[1]>>
         /\ Len(w) = 2 => w = <<w[1], w[2]>>
  OBVIOUS

(* Two texts have the same characters from a place of each on.             *)
SameArea(s, a, b, t, c, e) ==
  /\ 1 <= a /\ a <= b + 1 /\ b <= Len(s)
  /\ 1 <= c /\ e - c = b - a /\ e <= Len(t)
  /\ \A x \in 1..(b - a + 1) : s[a + x - 1] = t[c + x - 1]

SamePart(s, a, b, t, c, e) == SubSeq(s, a, b) = SubSeq(t, c, e)

(* Their parts from there on are the same.                                 *)
LEMMA SameCut ==
  ASSUME NEW s, IsText(s), NEW t, IsText(t), NEW a \in Int, NEW b \in Int,
         NEW c \in Int, NEW e \in Int, SameArea(s, a, b, t, c, e)
  PROVE  SamePart(s, a, b, t, c, e)
<1> USE DEF SameArea
<1> DEFINE u == SubSeq(s, a, b)
           v == SubSeq(t, c, e)
           n == b - a + 1
<1>1. IsText(u) /\ Len(u) = n /\ \A x \in 1..n : u[x] = s[a + x - 1]
  BY CutOf
<1>2. IsText(v) /\ Len(v) = n /\ \A x \in 1..n : v[x] = t[c + x - 1]
  <2>1. c <= e + 1 /\ e - c + 1 = n
    OBVIOUS
  <2> HIDE DEF n
  <2> QED
    BY <2>1, CutOf
<1> HIDE DEF u, v
<1>3. \A x \in 1..n : u[x] = v[x]
  BY <1>1, <1>2
<1> HIDE DEF n
<1>4. u = v
  BY <1>1, <1>2, <1>3, SeqEqual DEF IsText
<1> QED
  BY <1>4 DEF u, v, SamePart

(* The number of a numeral without sign and prefix.                        *)
NumberOf(base, u) == FoldLeft(LAMBDA k, c : base * k + CharValue[c], 0, u)

(* With its sign.                                                          *)
Signed(negative, n) == IF negative THEN - n ELSE n

(* Which numerals IntegersOf accepts.                                      *)
LEMMA NumeralStands ==
  ASSUME NEW specs, NEW u, NEW sign \in {0, 1}, NEW n \in Notations(specs),
         sign = (IF Len(u) > 0 /\ u[1] \in {"+", "-"} THEN 1 ELSE 0),
         Len(u) > sign + Len(n.prefix), Matches(u, sign + 1, n.prefix),
         Range(SubSeq(u, sign + Len(n.prefix) + 1, Len(u)))
           \subseteq FiguresOf(n.base),
         n.base = 10 /\ specs.alternate /\ specs.type = "none"
           => u[sign + 1] # "0" \/ Len(u) = sign + 1
  PROVE  Signed(u[1] = "-",
                NumberOf(n.base, SubSeq(u, sign + Len(n.prefix) + 1, Len(u))))
           \in IntegersOf(specs, u)
<1> DEFINE s == IF Len(u) > 0 /\ u[1] \in {"+", "-"} THEN 1 ELSE 0
           figures(m) == SubSeq(u, s + Len(m.prefix) + 1, Len(u))
           fits(m) ==
             /\ Len(u) > s + Len(m.prefix)
             /\ Matches(u, s + 1, m.prefix)
             /\ Range(figures(m)) \subseteq FiguresOf(m.base)
             /\ m.base = 10 /\ specs.alternate /\ specs.type = "none"
                  => u[s + 1] # "0" \/ Len(u) = s + 1
           value(m) == Signed(u[1] = "-", NumberOf(m.base, figures(m)))
<1>1. IntegersOf(specs, u) =
        {value(m) : m \in {k \in Notations(specs) : fits(k)}}
  BY DEF IntegersOf, Signed, NumberOf
<1>2. fits(n)
  OBVIOUS
<1>3. value(n) \in IntegersOf(specs, u)
  <2> HIDE DEF fits, value
  <2> QED
    BY <1>1, <1>2
<1> QED
  BY <1>3

(* A prefix that has been found is that of one of the notations.           *)
LEMMA PrefixFound ==
  ASSUME NEW s, IsText(s), NEW g \in Places(s), NEW base \in {2, 8, 16},
         AlternateOk(s, g, base)
  PROVE  LET u == SubSeq(s, g, g + PrefixSize(base) - 1) IN
         u \in PrefixesOf[base] /\ Len(u) = PrefixSize(base)
<1> DEFINE n == PrefixSize(base)
           u == SubSeq(s, g, g + n - 1)
<1>1. g + n \in g..(Len(s) + 1) /\ Len(s) \in Nat /\ g \in Nat /\ g >= 1
        /\ n \in 1..2
  BY PrefixEnds, CharOfText DEF Places, PrefixSize
<1>2. IsText(u) /\ Len(u) = n /\ \A x \in 1..n : u[x] = s[g + x - 1]
  <2> DEFINE b == g + n - 1
  <2>1. b \in Int /\ g <= b + 1 /\ b <= Len(s) /\ b - g + 1 = n /\ g \in Int
    BY <1>1
  <2> HIDE DEF b
  <2> HIDE DEF n
  <2>2. /\ IsText(SubSeq(s, g, b)) /\ Len(SubSeq(s, g, b)) = n
        /\ \A x \in 1..n : SubSeq(s, g, b)[x] = s[g + x - 1]
    BY <1>1, <2>1, CutOf
  <2> QED
    BY <2>2 DEF b
<1>3. Char(s, g) = s[g] /\ (n = 2 => Char(s, g + 1) = s[g + 1])
  BY <1>1, CharOfText
<1> HIDE DEF u
<1>4. CASE base = 8
  <2>1. n = 1
    BY <1>4 DEF PrefixSize
  <2>2. s[g] = "0" /\ u[1] = s[g]
    BY <1>1, <1>2, <1>3, <2>1 DEF AlternateOk
  <2>3. u = <<"0">>
    BY <1>2, <2>1, <2>2, ShortSequences DEF IsText
  <2>4. PrefixesOf[8] = {<<"0">>}
    BY DEF PrefixesOf
  <2> QED
    BY <1>2, <1>4, <2>1, <2>3, <2>4 DEF u
<1>5. CASE base # 8
  <2>1. n = 2
    BY <1>5 DEF PrefixSize
  <2>2. s[g] = "0" /\ u[1] = s[g] /\ u[2] = s[g + 1]
    BY <1>1, <1>2, <1>3, <2>1 DEF AlternateOk
  <2>3. s[g + 1] = Char(s, g + 1)
    BY <1>3, <2>1
  <2>4. \/ base = 2 /\ u[2] \in {"b", "B"}
        \/ base = 16 /\ u[2] \in {"x", "X"}
    BY <1>5, <2>2, <2>3 DEF AlternateOk
  <2>5. u = <<u[1], u[2]>>
    BY <1>2, <2>1, ShortSequences DEF IsText
  <2>6. u = <<"0", u[2]>>
    BY <2>2, <2>5
  <2>7. u \in PrefixesOf[base]
    <3>1. PrefixesOf[2] = {<<"0", "b">>, <<"0", "B">>}
          /\ PrefixesOf[16] = {<<"0", "x">>, <<"0", "X">>}
      BY DEF PrefixesOf
    <3> QED
      BY <2>4, <2>6, <3>1
  <2> QED
    BY <1>2, <2>7 DEF u
<1> QED
  BY <1>4, <1>5

(* A part of a text that starts with a sign and a prefix.                  *)
IsPart(s, i, sign, g, len, p, d, prefix, F, u) ==
  /\ 1 <= i /\ g = i + sign /\ p = g + len /\ p < d /\ d <= Len(s) + 1
  /\ prefix = SubSeq(s, g, p - 1) /\ Len(prefix) = len
  /\ \A k \in p..(d - 1) : s[k] \in F
  /\ u = SubSeq(s, i, d - 1)

(* It is a text with the same characters, so the prefix stands in it at    *)
(* the same place.                                                         *)
LEMMA PartStands ==
  ASSUME NEW s, IsText(s), NEW i \in Nat, NEW sign \in Nat, NEW g \in Nat,
         NEW len \in Nat, NEW p \in Nat, NEW d \in Nat, NEW prefix, NEW F,
         NEW u, IsPart(s, i, sign, g, len, p, d, prefix, F, u)
  PROVE  /\ IsText(u) /\ Len(u) = d - i /\ u[1] = s[i] /\ u[sign + 1] = s[g]
         /\ Matches(u, sign + 1, prefix)
         /\ SubSeq(u, sign + len + 1, Len(u)) = SubSeq(s, p, d - 1)
         /\ Range(SubSeq(u, sign + len + 1, Len(u))) \subseteq F
<1> SUFFICES ASSUME NEW size, size = Len(s), 1 <= i, g = i + sign, p = g + len,
                    p < d, d <= size + 1, prefix = SubSeq(s, g, p - 1),
                    Len(prefix) = len, \A k \in p..(d - 1) : s[k] \in F,
                    u = SubSeq(s, i, d - 1)
             PROVE  /\ IsText(u) /\ Len(u) = d - i /\ u[1] = s[i]
                    /\ u[sign + 1] = s[g] /\ Matches(u, sign + 1, prefix)
                    /\ SubSeq(u, sign + len + 1, Len(u)) = SubSeq(s, p, d - 1)
                    /\ Range(SubSeq(u, sign + len + 1, Len(u))) \subseteq F
  BY DEF IsPart
<1>1. size \in Nat
  BY DEF IsText
<1> DEFINE n == d - i
<1>2. IsText(u) /\ Len(u) = n /\ \A x \in 1..n : u[x] = s[i + x - 1]
  <2> DEFINE b == d - 1
  <2>1. b \in Int /\ i <= b + 1 /\ b <= Len(s) /\ b - i + 1 = n /\ i \in Int
    BY <1>1
  <2> HIDE DEF b
  <2>2. LET v == SubSeq(s, i, b) IN
        /\ IsText(v) /\ Len(v) = b - i + 1
        /\ \A x \in 1..(b - i + 1) : v[x] = s[i + x - 1]
    BY <2>1, CutOf
  <2> QED
    BY <2>1, <2>2 DEF b
<1>3. n \in Nat /\ 1 \in 1..n /\ i + 1 - 1 = i
      /\ sign + 1 \in 1..n /\ i + (sign + 1) - 1 = g
  BY <1>1
<1>4. u[1] = s[i] /\ u[sign + 1] = s[g]
  <2> HIDE DEF n
  <2>1. \A x, y : x \in 1..n /\ i + x - 1 = y => u[x] = s[y]
    BY <1>2
  <2> QED
    BY <1>3, <2>1
<1>5. Matches(u, sign + 1, prefix)
  <2> DEFINE a == sign + 1
             b == sign + 1 + len - 1
             e == p - 1
  <2>1. /\ a \in Int /\ b \in Int /\ 1 <= a /\ a <= b + 1 /\ b <= n
        /\ g \in Int /\ 1 <= g /\ e \in Int /\ e <= size
        /\ e - g = b - a /\ a + len <= n + 1
    BY <1>1
  <2>2. ASSUME NEW x \in 1..(b - a + 1)
        PROVE  u[a + x - 1] = s[g + x - 1]
    <3>1. a + x - 1 \in 1..n /\ i + (a + x - 1) - 1 = g + x - 1
      BY <1>1
    <3>2. u[a + x - 1] = s[i + (a + x - 1) - 1]
      <4> HIDE DEF a, n
      <4> QED
        BY <1>2, <3>1
    <3> HIDE DEF a, b, n
    <3> QED
      BY <3>1, <3>2
  <2>3. prefix = SubSeq(s, g, e)
    OBVIOUS
  <2> HIDE DEF a, b, n, e
  <2>4. SameArea(u, a, b, s, g, e)
    BY <1>2, <2>1, <2>2 DEF SameArea
  <2>5. SamePart(u, a, b, s, g, e)
    BY <1>2, <2>1, <2>4, SameCut
  <2>6. SubSeq(u, a, b) = prefix
    BY <2>3, <2>5 DEF SamePart
  <2> QED
    BY <1>2, <2>1, <2>6 DEF Matches, a, b
<1>6. Range(SubSeq(u, sign + len + 1, Len(u))) \subseteq F
  <2> DEFINE a == sign + len + 1
  <2>1. /\ a \in Int /\ n \in Int /\ 1 <= a /\ a <= n + 1 /\ n <= n
    BY <1>1
  <2>2. ASSUME NEW x \in 1..(n - a + 1) PROVE u[a + x - 1] \in F
    <3>1. a + x - 1 \in 1..n /\ i + (a + x - 1) - 1 \in p..(d - 1)
      BY <1>1
    <3>2. u[a + x - 1] = s[i + (a + x - 1) - 1]
      <4> HIDE DEF a, n
      <4> QED
        BY <1>2, <3>1
    <3> HIDE DEF a, n
    <3> QED
      BY <3>1, <3>2
  <2> HIDE DEF a, n
  <2>3. /\ DOMAIN SubSeq(u, a, n) = 1..(n - a + 1)
        /\ \A x \in 1..(n - a + 1) : SubSeq(u, a, n)[x] = u[a + x - 1]
    <3>1. IsText(u) /\ n <= Len(u)
      BY <1>2, <2>1
    <3> QED
      BY <2>1, <3>1, CutOf
  <2>4. Range(SubSeq(u, a, n)) \subseteq F
    BY <2>2, <2>3 DEF Range
  <2> QED
    BY <1>2, <2>4 DEF a
<1>7. SubSeq(u, sign + len + 1, Len(u)) = SubSeq(s, p, d - 1)
  <2> DEFINE a == sign + len + 1
             e == d - 1
  <2>1. /\ a \in Int /\ n \in Int /\ 1 <= a /\ a <= n + 1 /\ n <= n
        /\ p \in Int /\ 1 <= p /\ e \in Int /\ e <= size /\ e - p = n - a
    BY <1>1
  <2>2. ASSUME NEW x \in 1..(n - a + 1) PROVE u[a + x - 1] = s[p + x - 1]
    <3>1. a + x - 1 \in 1..n /\ i + (a + x - 1) - 1 = p + x - 1
      BY <1>1
    <3> HIDE DEF a, n
    <3> QED
      BY <1>2, <3>1
  <2> HIDE DEF a, n, e
  <2>3. SameArea(u, a, n, s, p, e)
    BY <1>2, <2>1, <2>2 DEF SameArea
  <2>4. SamePart(u, a, n, s, p, e)
    BY <1>2, <2>1, <2>3, SameCut
  <2> QED
    BY <1>2, <2>4 DEF SamePart, a, e
<1> QED
  BY <1>2, <1>4, <1>5, <1>6, <1>7

(* The notation that goes with a base.                                     *)
LEMMA NotationOf ==
  ASSUME NEW specs, NEW base \in {2, 8, 10, 16}, NEW prefix,
         \/ specs.alternate /\ specs.type = "none"
         \/ base = BaseOf[specs.type],
         prefix \in IF specs.alternate THEN PrefixesOf[base] ELSE {<<>>}
  PROVE  [base |-> base, prefix |-> prefix] \in Notations(specs)
<1> DEFINE B == IF specs.alternate /\ specs.type = "none" THEN {2, 8, 10, 16}
                ELSE {BaseOf[specs.type]}
           N(b) == {[base |-> b, prefix |-> q] :
                      q \in IF specs.alternate THEN PrefixesOf[b] ELSE {<<>>}}
<1>1. base \in B
  OBVIOUS
<1>2. [base |-> base, prefix |-> prefix] \in N(base)
  OBVIOUS
<1>3. Notations(specs) = UNION {N(b) : b \in B}
  BY DEF Notations
<1> HIDE DEF N, B
<1> QED
  BY <1>1, <1>2, <1>3

(* What ReadInt takes for an integer: the sign ends at g, the prefix at p  *)
(* and the digits at d.                                                    *)
IsNumeral(s, i, specs, g, base, p, d) ==
  /\ g = SignEnd(s, i) /\ base = Base(s, g, specs)
  /\ IF specs.alternate /\ base # 10
       THEN AlternateOk(s, g, base) /\ p = g + PrefixSize(base)
       ELSE p = g
  /\ d = DigitsEnd(s, base)[p] /\ p < d

(* Its parts.                                                              *)
LEMMA NumeralParts ==
  ASSUME NEW s, IsText(s), NEW i \in Places(s), NEW specs,
         specs.type \in {"none", "b", "d", "o", "x"}, NEW g, NEW base, NEW p,
         NEW d, IsNumeral(s, i, specs, g, base, p, d)
  PROVE  /\ i \in Nat /\ g \in Nat /\ p \in Nat /\ d \in Nat /\ Len(s) \in Nat
         /\ 1 <= i /\ i <= g /\ g <= p /\ p < d /\ d <= Len(s) + 1
         /\ g - i = IF Char(s, i) \in {"+", "-"} THEN 1 ELSE 0
         /\ base \in {2, 8, 10, 16} /\ Len(SubSeq(s, g, p - 1)) = p - g
         /\ SubSeq(s, g, p - 1)
              \in IF specs.alternate THEN PrefixesOf[base] ELSE {<<>>}
         /\ \A k \in p..(d - 1) : s[k] \in FiguresOf(base)
<1> DEFINE end == Len(s) + 1
           prefix == SubSeq(s, g, p - 1)
<1>1. Len(s) \in Nat /\ i \in 1..end /\ end \in Nat
  BY CharOfText DEF Places
<1>2. g \in i..end /\ g \in Places(s)
  <2>1. g \in i..end
    BY SignEnds DEF IsNumeral
  <2> QED
    BY <1>1, <2>1 DEF Places
<1>3. base \in {2, 8, 10, 16} /\ base \in 2..36
  BY BaseIsKnown DEF IsNumeral
<1>4. g - i = IF Char(s, i) \in {"+", "-"} THEN 1 ELSE 0
  BY <1>1 DEF IsNumeral, SignEnd
<1>5. /\ p \in g..end /\ Len(prefix) = p - g
      /\ prefix \in IF specs.alternate THEN PrefixesOf[base] ELSE {<<>>}
  <2>1. CASE specs.alternate /\ base # 10
    <3>1. base \in {2, 8, 16} /\ AlternateOk(s, g, base)
            /\ p = g + PrefixSize(base)
      BY <1>3, <2>1 DEF IsNumeral
    <3>2. g + PrefixSize(base) \in g..end
      BY <1>2, <3>1, PrefixEnds
    <3>3. /\ SubSeq(s, g, g + PrefixSize(base) - 1) \in PrefixesOf[base]
          /\ Len(SubSeq(s, g, g + PrefixSize(base) - 1)) = PrefixSize(base)
      BY <1>2, <3>1, PrefixFound
    <3>4. PrefixSize(base) \in Nat
      BY DEF PrefixSize
    <3>5. p - g = PrefixSize(base)
      BY <1>1, <1>2, <3>1, <3>4
    <3>6. p \in g..end
      BY <3>1, <3>2
    <3>7. prefix \in PrefixesOf[base] /\ Len(prefix) = PrefixSize(base)
      <4>1. p - 1 = g + PrefixSize(base) - 1
        BY <1>1, <1>2, <3>1, <3>4
      <4> DEFINE b == g + PrefixSize(base) - 1
      <4>2. p - 1 = b
        BY <4>1
      <4> HIDE DEF b
      <4>3. prefix = SubSeq(s, g, b)
        BY <4>2
      <4> HIDE DEF prefix
      <4> QED
        BY <3>3, <4>3 DEF b
    <3> HIDE DEF prefix
    <3> QED
      BY <2>1, <3>5, <3>6, <3>7
  <2>2. CASE ~ (specs.alternate /\ base # 10)
    <3>1. p = g
      BY <2>2 DEF IsNumeral
    <3> DEFINE b == g - 1
    <3>2. b \in Int /\ g \in Int /\ 1 <= g /\ g <= b + 1 /\ b <= Len(s)
          /\ b - g + 1 = 0 /\ p - g = 0
      BY <1>1, <1>2, <3>1
    <3>3. prefix = SubSeq(s, g, b)
      BY <3>1
    <3> HIDE DEF b, prefix
    <3>4. IsText(SubSeq(s, g, b)) /\ Len(SubSeq(s, g, b)) = b - g + 1
      BY <3>2, CutOf
    <3>5. prefix = <<>> /\ Len(prefix) = 0
      BY <3>2, <3>3, <3>4, ShortSequences DEF IsText
    <3>6. PrefixesOf[10] = {<<>>}
      BY DEF PrefixesOf
    <3>7. prefix \in IF specs.alternate THEN PrefixesOf[base] ELSE {<<>>}
      BY <2>2, <3>5, <3>6
    <3> QED
      BY <1>1, <1>2, <3>1, <3>2, <3>5, <3>7
  <2> QED
    BY <2>1, <2>2
<1> HIDE DEF prefix
<1>6. p \in Places(s)
  BY <1>1, <1>2, <1>5 DEF Places
<1>7. p < d /\ d \in p..end /\ \A k \in p..(d - 1) : s[k] \in FiguresOf(base)
  <2>1. d = DigitsEnd(s, base)[p] /\ p < d
    BY DEF IsNumeral
  <2>2. IsDigitsEnd(s, base, p, d)
    BY <1>3, <1>6, <2>1, DigitsEndOf
  <2>3. \A c : IsDigit(c, base) => c \in FiguresOf(base)
    BY <1>3 DEF IsDigit, DigitsOf, FiguresOf
  <2> QED
    BY <2>1, <2>2, <2>3 DEF IsDigitsEnd
<1>8. /\ i \in Nat /\ g \in Nat /\ p \in Nat /\ d \in Nat
      /\ 1 <= i /\ i <= g /\ g <= p /\ d <= end
  BY <1>1, <1>2, <1>5, <1>7
<1> QED
  BY <1>1, <1>3, <1>4, <1>5, <1>7, <1>8 DEF prefix

(* It is an integer that the specs allow.                                  *)
LEMMA NumeralRead ==
  ASSUME NEW s, IsText(s), NEW i \in Places(s), NEW specs,
         specs.type \in {"none", "b", "d", "o", "x"}, NEW g, NEW base, NEW p,
         NEW d, IsNumeral(s, i, specs, g, base, p, d)
  PROVE  Signed(Negative(s, i), NumberOf(base, SubSeq(s, p, d - 1)))
           \in IntegersOf(specs, SubSeq(s, i, d - 1))
<1> DEFINE size == Len(s)
           u == SubSeq(s, i, d - 1)
           sign == g - i
           len == p - g
           prefix == SubSeq(s, g, p - 1)
           n == [base |-> base, prefix |-> prefix]
           F == FiguresOf(base)
<1>1. /\ i \in Nat /\ g \in Nat /\ p \in Nat /\ d \in Nat /\ size \in Nat
      /\ 1 <= i /\ i <= g /\ g <= p /\ p < d /\ d <= size + 1
      /\ sign = IF Char(s, i) \in {"+", "-"} THEN 1 ELSE 0
      /\ base \in {2, 8, 10, 16} /\ Len(prefix) = len
      /\ prefix \in IF specs.alternate THEN PrefixesOf[base] ELSE {<<>>}
      /\ \A k \in p..(d - 1) : s[k] \in F
  BY NumeralParts
<1>2. /\ sign \in Nat /\ len \in Nat /\ g = i + sign /\ p = g + len
      /\ i \in 1..size /\ g \in 1..size
      /\ (g + 1 \notin 1..size => d - i = sign + 1)
  <2>1. /\ i \in Nat /\ g \in Nat /\ p \in Nat /\ d \in Nat /\ size \in Nat
        /\ 1 <= i /\ i <= g /\ g <= p /\ p < d /\ d <= size + 1
    BY <1>1
  <2> HIDE DEF size
  <2> QED
    BY <2>1
<1> HIDE DEF sign, len
<1>3. Char(s, i) = s[i] /\ Char(s, g) = s[g]
        /\ (Char(s, g + 1) = End => d - i = sign + 1)
  <2>1. Char(s, g + 1) = End <=> g + 1 \notin 1..Len(s)
    BY <1>1, CharOfText
  <2> QED
    BY <1>1, <1>2, <2>1, CharOfText
<1>4. size = Len(s) /\ prefix = SubSeq(s, g, p - 1) /\ u = SubSeq(s, i, d - 1)
  OBVIOUS
<1> HIDE DEF u, prefix, size, F
<1>5. /\ IsText(u) /\ Len(u) = d - i /\ u[1] = s[i] /\ u[sign + 1] = s[g]
      /\ Matches(u, sign + 1, prefix)
      /\ SubSeq(u, sign + len + 1, Len(u)) = SubSeq(s, p, d - 1)
      /\ Range(SubSeq(u, sign + len + 1, Len(u))) \subseteq F
  <2>1. IsPart(s, i, sign, g, len, p, d, prefix, F, u)
    BY <1>1, <1>2, <1>4 DEF IsPart
  <2>2. i \in Nat /\ sign \in Nat /\ g \in Nat /\ len \in Nat /\ p \in Nat
        /\ d \in Nat
    BY <1>1, <1>2
  <2> QED
    BY <2>1, <2>2, PartStands
<1>6. n \in Notations(specs) /\ n.base = base /\ n.prefix = prefix
  <2>1. \/ specs.alternate /\ specs.type = "none"
        \/ base = BaseOf[specs.type]
    BY DEF Base, IsNumeral
  <2> QED
    BY <1>1, <2>1, NotationOf
<1>7. base = 10 /\ specs.alternate /\ specs.type = "none"
        => u[sign + 1] # "0" \/ Len(u) = sign + 1
  <2> SUFFICES ASSUME base = 10, specs.alternate, specs.type = "none",
                      s[g] = "0"
               PROVE  d - i = sign + 1
    BY <1>5
  <2>1. DetermineBase(s, g) = 10
    BY DEF Base, IsNumeral
  <2> QED
    BY <1>3, <2>1 DEF DetermineBase
<1>8. sign \in {0, 1} /\ Len(u) > 0 /\ Len(u) > sign + len
  BY <1>1, <1>2, <1>5
<1>9. sign = IF Len(u) > 0 /\ u[1] \in {"+", "-"} THEN 1 ELSE 0
  BY <1>1, <1>3, <1>5, <1>8
<1> HIDE DEF n
<1>10. Signed(u[1] = "-", NumberOf(base, SubSeq(u, sign + len + 1, Len(u))))
         \in IntegersOf(specs, u)
  BY <1>1, <1>5, <1>6, <1>7, <1>8, <1>9, NumeralStands DEF F
<1>11. Negative(s, i) = (u[1] = "-")
  BY <1>3, <1>5 DEF Negative
<1> QED
  BY <1>5, <1>10, <1>11 DEF u

----------------------------------------------------------------------------
(* A number without a sign ends behind its digits.                         *)
LEMMA UnsignedParts ==
  ASSUME NEW s, IsText(s), NEW i \in Places(s), NEW base \in {2, 8, 10, 16}
  PROVE  /\ ParseUnsigned(s, base)[i] \in NumberRead
         /\ ParseUnsigned(s, base)[i].next = DigitsEnd(s, base)[i]
         /\ ParseUnsigned(s, base)[i].ok
              => i < ParseUnsigned(s, base)[i].next
<1>1. base \in 2..36
  OBVIOUS
<1> QED
  BY <1>1, UnsignedRead

(* A number that has been parsed ends behind its digits.                   *)
LEMMA NumberOfDigitsRead ==
  ASSUME NEW s, IsText(s), NEW p \in Places(s), NEW base \in {2, 8, 10, 16},
         NEW kind, NEW negative,
         NEW n \in ParseNumber(kind, s, p, base, negative), n.ok
  PROVE  n.next = DigitsEnd(s, base)[p] /\ p < n.next
<1> DEFINE m == ParseUnsigned(s, base)[p]
           j == DigitsEnd(s, base)[p]
<1>1. m \in NumberRead /\ m.next = j /\ (m.ok => p < m.next)
  BY UnsignedParts
<1>4. CASE kind = "unsigned"
  <2>1. n = [m EXCEPT !.ok = @ /\ ~ negative]
    BY <1>4 DEF ParseNumber
  <2> HIDE DEF m, j
  <2>2. n.next = m.next /\ m.ok
    BY <1>1, <2>1 DEF NumberRead
  <2> QED
    BY <1>1, <2>2 DEF j
<1>5. CASE kind # "unsigned"
  <2> DEFINE sign == IF negative THEN -1 ELSE 1
             acc == Accumulated(s, p, j, base, sign, MinInt)
             turns == \E k \in p..(j - 1) : sign * (acc[k] - acc[k - 1]) < 0
             grows == p < j
             result == [ok |-> grows, value |-> acc[j - 1], next |-> j]
  <2>1. n \in {result, [result EXCEPT !.ok = @ /\ ~ turns]}
    BY <1>5 DEF ParseNumber, ParseSigned
  <2>2. grows \in BOOLEAN /\ turns \in BOOLEAN
    OBVIOUS
  <2> HIDE DEF j, acc, turns, grows
  <2>3. n.next = j /\ grows
    BY <2>1, <2>2
  <2> QED
    BY <2>3 DEF j, grows
<1> QED
  BY <1>4, <1>5

(* The first characters of a text have the same parts as the text.         *)
LEMMA FirstOfPart ==
  ASSUME NEW s, IsText(s), NEW e \in Nat, e <= Len(s), NEW a \in Nat,
         NEW b \in Nat, 1 <= a, a <= b, b <= e
  PROVE  SubSeq(SubSeq(s, 1, e), a, b) = SubSeq(s, a, b)
<1> DEFINE u == SubSeq(s, 1, e)
<1>1. Len(s) \in Nat
  BY DEF IsText
<1>2. IsText(u) /\ Len(u) = e /\ \A x \in 1..e : u[x] = s[x]
  <2>1. 1 \in Int /\ e \in Int /\ 1 <= 1 /\ 1 <= e + 1 /\ e <= Len(s)
        /\ e - 1 + 1 = e
    OBVIOUS
  <2> DEFINE first == 1
  <2>2. first \in Int /\ 1 <= first /\ first <= e + 1 /\ e - first + 1 = e
    OBVIOUS
  <2>3. \A x \in 1..e : first + x - 1 = x
    OBVIOUS
  <2> HIDE DEF first
  <2>4. LET v == SubSeq(s, first, e) IN
        /\ IsText(v) /\ Len(v) = e - first + 1
        /\ \A x \in 1..(e - first + 1) : v[x] = s[first + x - 1]
    BY <2>1, <2>2, CutOf
  <2> QED
    BY <2>2, <2>3, <2>4 DEF first
<1> HIDE DEF u
<1>3. SameArea(u, a, b, s, a, b)
  <2> SUFFICES ASSUME NEW x \in 1..(b - a + 1)
               PROVE  u[a + x - 1] = s[a + x - 1]
    BY <1>1, <1>2 DEF SameArea
  <2>1. a + x - 1 \in 1..e
    BY <1>1
  <2> QED
    BY <1>2, <2>1
<1>4. SamePart(u, a, b, s, a, b)
  BY <1>2, <1>3, SameCut
<1> QED
  BY <1>4 DEF SamePart, u

(* The largest of several places.                                          *)
LEMMA GreatestOf ==
  ASSUME NEW n \in Nat, NEW t, t \subseteq 1..(n + 1)
  PROVE  /\ n + 1 \in t => Max(t) = n + 1
         /\ t # {} => Max(t) \in t /\ \A y \in t : y <= Max(t)
<1>1. ASSUME n + 1 \in t PROVE Max(t) = n + 1
  <2>1. \A y \in t : n + 1 >= y
    OBVIOUS
  <2>2. \A x \in t : (\A y \in t : x >= y) => x = n + 1
    BY <1>1, <2>1
  <2>3. \E x \in t : \A y \in t : x >= y
    BY <1>1, <2>1
  <2>4. Max(t) \in t /\ \A y \in t : Max(t) >= y
    BY <2>3 DEF Max
  <2> QED
    BY <2>2, <2>4
<1> DEFINE S == {k \in Nat : \A u \in SUBSET (1..k) : u # {} =>
                               \E x \in u : \A y \in u : x >= y}
<1>2. 0 \in S
  <2>1. 1..0 = {}
    OBVIOUS
  <2> QED
    BY <2>1
<1>3. ASSUME NEW k \in S, k \in Nat PROVE k + 1 \in S
  <2> SUFFICES ASSUME NEW u \in SUBSET (1..(k + 1)), u # {}
               PROVE  \E x \in u : \A y \in u : x >= y
    OBVIOUS
  <2>1. CASE k + 1 \in u
    BY <2>1
  <2>2. CASE k + 1 \notin u
    <3>1. u \in SUBSET (1..k)
      BY <2>2
    <3> QED
      BY <1>3, <3>1
  <2> QED
    BY <2>1, <2>2
<1>4. n + 1 \in S
  BY <1>2, <1>3, Induction
<1>5. t # {} => \E x \in t : \A y \in t : x >= y
  BY <1>4
<1>6. t # {} => Max(t) \in t /\ \A y \in t : Max(t) >= y
  BY <1>5 DEF Max
<1>7. t # {} => \A y \in t : y <= Max(t)
  <2> DEFINE m == Max(t)
  <2> HIDE DEF m
  <2>1. t # {} => m \in t /\ \A y \in t : m >= y
    BY <1>6 DEF m
  <2>2. t # {} => \A y \in t : y <= m
    BY <2>1
  <2> QED
    BY <2>2 DEF m
<1> QED
  BY <1>1, <1>6, <1>7

(* What a fold of the digits w does.                                       *)
Folding(h, base, w, n) ==
  h = [t \in SUBSET (1..n) |->
         IF t = {} THEN 0 ELSE base * h[t \ {Max(t)}] + w[Max(t)]]

Folded(base, w, n) == \E h \in [SUBSET (1..n) -> Nat] : Folding(h, base, w, n)

(* It exists.                                                              *)
LEMMA FoldingExists ==
  ASSUME NEW base \in Nat, NEW w, NEW n \in Nat, \A i \in 1..n : w[i] \in Nat
  PROVE  Folded(base, w, n)
<1> DEFINE S == {k \in Nat : k <= n => Folded(base, w, k)}
<1>1. 0 \in S
  <2> DEFINE h == [t \in SUBSET (1..0) |-> 0]
  <2>1. h \in [SUBSET (1..0) -> Nat] /\ 1..0 = {}
    OBVIOUS
  <2>2. Folding(h, base, w, 0)
    BY <2>1 DEF Folding
  <2> QED
    BY <2>1, <2>2 DEF Folded
<1>2. ASSUME NEW k \in S, k \in Nat PROVE k + 1 \in S
  <2> SUFFICES ASSUME k + 1 <= n PROVE Folded(base, w, k + 1)
    BY <1>2
  <2>0. k <= n /\ Folded(base, w, k)
    <3>1. k <= n
      BY <1>2
    <3> QED
      BY <1>2, <3>1
  <2>1. PICK g \in [SUBSET (1..k) -> Nat] : Folding(g, base, w, k)
    BY <2>0 DEF Folded
  <2> DEFINE h == [t \in SUBSET (1..(k + 1)) |->
                     IF k + 1 \in t THEN base * g[t \ {k + 1}] + w[k + 1]
                     ELSE g[t]]
  <2>2. \A t \in SUBSET (1..(k + 1)) :
          /\ t \ {k + 1} \in SUBSET (1..k)
          /\ k + 1 \notin t => t \in SUBSET (1..k)
    BY <1>2
  <2>3. h \in [SUBSET (1..(k + 1)) -> Nat]
    <3>1. ASSUME NEW t \in SUBSET (1..(k + 1))
          PROVE  (IF k + 1 \in t THEN base * g[t \ {k + 1}] + w[k + 1]
                  ELSE g[t]) \in Nat
      <4>1. w[k + 1] \in Nat
        BY <1>2
      <4>2. CASE k + 1 \in t
        <5> PICK m \in Nat : m = g[t \ {k + 1}]
          BY <2>2
        <5> QED
          BY <4>1, <4>2
      <4>3. CASE k + 1 \notin t
        BY <2>2, <4>3
      <4> QED
        BY <4>2, <4>3
    <3> QED
      BY <3>1
  <2>4. ASSUME NEW t \in SUBSET (1..(k + 1))
        PROVE  h[t] = IF t = {} THEN 0
                      ELSE base * h[t \ {Max(t)}] + w[Max(t)]
    <3>1. CASE k + 1 \in t
      <4>1. Max(t) = k + 1
        BY <1>2, <3>1, GreatestOf
      <4>2. k + 1 \notin t \ {k + 1} /\ t \ {k + 1} \in SUBSET (1..(k + 1))
        OBVIOUS
      <4>3. h[t \ {k + 1}] = g[t \ {k + 1}]
        BY <4>2
      <4> QED
        BY <3>1, <4>1, <4>3
    <3>2. CASE k + 1 \notin t
      <4>1. t \in SUBSET (1..k) /\ h[t] = g[t]
        BY <2>2, <3>2
      <4>2. g[t] = IF t = {} THEN 0 ELSE base * g[t \ {Max(t)}] + w[Max(t)]
        BY <2>1, <4>1 DEF Folding
      <4>3. t \ {Max(t)} \in SUBSET (1..(k + 1)) /\ k + 1 \notin t \ {Max(t)}
        BY <3>2
      <4>4. h[t \ {Max(t)}] = g[t \ {Max(t)}]
        BY <4>3
      <4> QED
        BY <4>1, <4>2, <4>4
    <3> QED
      BY <3>1, <3>2
  <2> HIDE DEF h
  <2>5. Folding(h, base, w, k + 1)
    BY <2>3, <2>4 DEF Folding
  <2> QED
    BY <2>3, <2>5 DEF Folded
<1> HIDE DEF S
<1>3. n \in S
  BY <1>1, <1>2, Induction
<1> QED
  BY <1>3 DEF S

(* The numbers of the first digits of u.                                   *)
NumbersOf(p, base, u) ==
  /\ p \in [0..Len(u) -> Nat] /\ p[0] = 0
  /\ \A k \in 1..Len(u) : /\ CharValue[u[k]] \in Nat
                          /\ p[k] = base * p[k - 1] + CharValue[u[k]]

(* It goes through the digits from left to right.                          *)
LEMMA FoldingAdds ==
  ASSUME NEW base \in Nat, NEW u, NEW n \in Nat, n = Len(u),
         NEW w, \A k \in 1..n : w[k] \in Nat /\ w[k] = CharValue[u[k]],
         NEW h, Folding(h, base, w, n)
  PROVE  \E p : NumbersOf(p, base, u) /\ p[n] = h[1..n]
<1> DEFINE p == [k \in 0..n |-> h[1..k]]
           S == {k \in Nat : k <= n => h[1..k] \in Nat}
<1>1. h[1..0] = 0
  <2>1. 1..0 = {} /\ {} \in SUBSET (1..n)
    OBVIOUS
  <2> QED
    BY <2>1 DEF Folding
<1>2. ASSUME NEW k \in Nat, k < n
      PROVE  h[1..(k + 1)] = base * h[1..k] + w[k + 1]
  <2>0. k + 1 \in Nat /\ k + 1 <= n /\ k + 1 \in 1..(k + 1)
    BY <1>2
  <2>1. /\ 1..(k + 1) \in SUBSET (1..n) /\ 1..(k + 1) # {}
        /\ (1..(k + 1)) \ {k + 1} = 1..k
    <3>1. \A i \in 1..(k + 1) : i \in 1..n
      BY <2>0
    <3>2. \A i : i \in 1..(k + 1) /\ i # k + 1 <=> i \in 1..k
      BY <1>2
    <3> QED
      BY <2>0, <3>1, <3>2
  <2>2. Max(1..(k + 1)) = k + 1
    BY <1>2, <2>0, GreatestOf
  <2>3. \A t \in SUBSET (1..n) :
          t # {} => h[t] = base * h[t \ {Max(t)}] + w[Max(t)]
    BY DEF Folding
  <2>4. h[1..(k + 1)] = base * h[(1..(k + 1)) \ {Max(1..(k + 1))}]
                          + w[Max(1..(k + 1))]
    BY <2>1, <2>3, Zenon
  <2> QED
    BY <2>1, <2>2, <2>4, Zenon
<1>3. 0 \in S
  BY <1>1
<1>4. ASSUME NEW k \in S, k \in Nat PROVE k + 1 \in S
  <2>1. CASE k + 1 <= n
    <3>1. k < n /\ k + 1 \in 1..n /\ h[1..k] \in Nat
      BY <1>4, <2>1
    <3>2. h[1..(k + 1)] = base * h[1..k] + w[k + 1] /\ w[k + 1] \in Nat
      BY <1>2, <1>4, <3>1
    <3> PICK a \in Nat : a = h[1..k]
      BY <3>1
    <3>3. h[1..(k + 1)] \in Nat
      BY <3>2
    <3> QED
      BY <3>3, <1>4
  <2>2. CASE ~ (k + 1 <= n)
    BY <2>2, <1>4
  <2> QED
    BY <2>1, <2>2
<1>5. \A k \in 0..n : h[1..k] \in Nat
  <2>1. \A k \in Nat : k \in S
    <3> HIDE DEF S
    <3> QED
      BY <1>3, <1>4, Induction
  <2> QED
    BY <2>1
<1>6. p \in [0..n -> Nat] /\ p[0] = 0 /\ p[n] = h[1..n]
  BY <1>1, <1>5
<1>7. ASSUME NEW k \in 1..n
      PROVE  /\ CharValue[u[k]] \in Nat
             /\ p[k] = base * p[k - 1] + CharValue[u[k]]
  <2>1. k - 1 \in Nat /\ k - 1 < n /\ (k - 1) + 1 = k /\ k - 1 \in 0..n
        /\ k \in 0..n
    OBVIOUS
  <2>2. h[1..k] = base * h[1..(k - 1)] + w[k]
    BY <1>2, <2>1
  <2> QED
    BY <2>1, <2>2
<1> HIDE DEF p
<1>8. NumbersOf(p, base, u)
  BY <1>6, <1>7 DEF NumbersOf
<1> QED
  BY <1>6, <1>8

(* So the number of a numeral is that of its last first digits.            *)
LEMMA NumberIsRead ==
  ASSUME NEW base \in Nat, NEW u, IsText(u),
         \A k \in 1..Len(u) : CharValue[u[k]] \in Nat
  PROVE  \E p : NumbersOf(p, base, u) /\ p[Len(u)] = NumberOf(base, u)
<1> PICK n \in Nat : n = Len(u)
  BY DEF IsText
<1> DEFINE w == [k \in 1..n |-> CharValue[u[k]]]
           F(h) == h = [t \in SUBSET (1..n) |->
                          IF t = {} THEN 0
                          ELSE base * h[t \ {Max(t)}] + CharValue[u[Max(t)]]]
<1>1. \A k \in 1..n : w[k] \in Nat /\ w[k] = CharValue[u[k]]
  OBVIOUS
<1> HIDE DEF w
<1>2. ASSUME NEW t \in SUBSET (1..n), t # {}
      PROVE  w[Max(t)] = CharValue[u[Max(t)]]
  <2>1. t \subseteq 1..(n + 1)
    OBVIOUS
  <2>2. Max(t) \in 1..n
    BY <1>2, <2>1, GreatestOf
  <2> QED
    BY <1>1, <2>2
<1>3. \A h : Folding(h, base, w, n) <=> F(h)
  <2> SUFFICES ASSUME NEW h PROVE Folding(h, base, w, n) <=> F(h)
    OBVIOUS
  <2>1. [t \in SUBSET (1..n) |->
           IF t = {} THEN 0 ELSE base * h[t \ {Max(t)}] + w[Max(t)]]
        = [t \in SUBSET (1..n) |->
           IF t = {} THEN 0 ELSE base * h[t \ {Max(t)}] + CharValue[u[Max(t)]]]
    BY <1>2
  <2> QED
    BY <2>1 DEF Folding
<1>4. \E h : Folding(h, base, w, n)
  <2>1. Folded(base, w, n)
    BY <1>1, FoldingExists
  <2> QED
    BY <2>1 DEF Folded
<1>5. PICK h : Folding(h, base, w, n) /\ NumberOf(base, u) = h[1..n]
  <2>0. DOMAIN u = 1..n
    BY DEF IsText
  <2>1. NumberOf(base, u) = (CHOOSE h : F(h))[1..n]
    BY <2>0 DEF NumberOf, FoldLeft, MapThenFoldSet
  <2> HIDE DEF F
  <2> QED
    BY <1>3, <1>4, <2>1
<1>6. \E p : NumbersOf(p, base, u) /\ p[n] = h[1..n]
  BY <1>1, <1>5, FoldingAdds
<1> QED
  BY <1>5, <1>6

(* With every digit the number grows.                                      *)
LEMMA NumbersGrow ==
  ASSUME NEW base \in 2..36, NEW u, NEW n \in Nat, n = Len(u), NEW p,
         NumbersOf(p, base, u)
  PROVE  \A k \in 0..n : p[k] \in Nat /\ \A x \in 0..k : p[x] <= p[k]
<1>1. /\ \A k \in 0..n : p[k] \in Nat
      /\ \A k \in 1..n : /\ CharValue[u[k]] \in Nat
                         /\ p[k] = base * p[k - 1] + CharValue[u[k]]
  BY DEF NumbersOf
<1>2. ASSUME NEW k \in 1..n PROVE p[k - 1] <= p[k]
  <2> PICK a \in Nat : a = p[k - 1]
    BY <1>1
  <2> PICK b \in Nat : b = p[k]
    BY <1>1
  <2> PICK c \in Nat : c = CharValue[u[k]]
    BY <1>1
  <2>1. b = base * a + c
    BY <1>1
  <2>2. base * a >= a
    OBVIOUS
  <2> PICK d \in Nat : d = base * a
    OBVIOUS
  <2>3. a <= b
    BY <2>1, <2>2
  <2> QED
    BY <2>3
<1> DEFINE S == {k \in Nat : k <= n => \A x \in 0..k : p[x] <= p[k]}
<1>3. 0 \in S
  <2>1. \A x \in 0..0 : x = 0
    OBVIOUS
  <2>2. p[0] \in Nat
    BY <1>1
  <2> QED
    BY <2>1, <2>2
<1>4. ASSUME NEW m \in S, m \in Nat PROVE m + 1 \in S
  <2> SUFFICES ASSUME m + 1 <= n, NEW x \in 0..(m + 1)
               PROVE  p[x] <= p[m + 1]
    BY <1>4
  <2>1. (m + 1) - 1 = m /\ m + 1 \in 1..n /\ m \in 0..n /\ x \in 0..n
          /\ m <= n /\ m + 1 \in 0..n
    BY <1>4
  <2>2. p[m] \in Nat /\ p[m + 1] \in Nat /\ p[x] \in Nat
    BY <1>1, <2>1
  <2>3. p[m] <= p[m + 1]
    BY <1>2, <2>1
  <2>4. CASE x = m + 1
    BY <2>2, <2>4
  <2>5. CASE x # m + 1
    <3>1. x \in 0..m
      BY <1>4, <2>5
    <3>2. p[x] <= p[m]
      BY <1>4, <2>1, <3>1
    <3> QED
      BY <2>2, <2>3, <3>2
  <2> QED
    BY <2>4, <2>5
<1>5. ASSUME NEW k \in 0..n PROVE \A x \in 0..k : p[x] <= p[k]
  <2>0. k \in Nat /\ k <= n
    OBVIOUS
  <2>1. k \in S
    <3> HIDE DEF S
    <3> QED
      BY <1>3, <1>4, <2>0, Induction
  <2> QED
    BY <2>0, <2>1
<1> QED
  BY <1>1, <1>5

(* A digit more of a number with a sign.                                   *)
SignedSum(base, sign, a, c) ==
  (sign * a) * base + sign * c = sign * (base * a + c)

(* The sign may be given to the digits as well.                            *)
LEMMA SignedStep ==
  ASSUME NEW base \in {2, 8, 10, 16}, NEW a \in Nat, NEW c \in Nat,
         NEW sign \in {-1, 1}
  PROVE  SignedSum(base, sign, a, c)
<1>1. CASE sign = 1
  BY <1>1 DEF SignedSum
<1>2. CASE sign = -1
  BY <1>2 DEF SignedSum
<1> QED
  BY <1>1, <1>2

(* The characters of t from place i on are those of u.                     *)
StandsAt(u, t, i) == \A x \in 1..Len(u) : t[(i - 1) + x] = u[x]

(* None of the first numbers, with their sign, is wrapped.                 *)
Unwrapped(p, m, sign, low) ==
  \A k \in 0..m : Wrapped(sign * p[k], low) = sign * p[k]

(* From place i to j, the first m numbers have been read.                  *)
Follows(t, i, j, base, sign, low, p, m) ==
  \A k \in 0..m :
    Accumulated(t, i, j, base, sign, low)[(i - 1) + k] = sign * p[k]

(* The number behind the k-th digit is the k-th number, as it wraps.       *)
WrapsTo(t, i, j, base, sign, low, p, k) ==
  Accumulated(t, i, j, base, sign, low)[(i - 1) + k]
    = Wrapped(sign * p[k], low)

(* The recursion of the digits that parse_int reads.                       *)
Accumulates(t, i, j, base, sign, low) ==
  LET acc == Accumulated(t, i, j, base, sign, low) IN
  /\ acc[i - 1] = 0
  /\ \A y \in i..(j - 1) :
       acc[y] = Wrapped(acc[y - 1] * base + sign * CharValue[t[y]], low)

(* This is how the numbers are accumulated.                                *)
LEMMA AccumulatedSteps ==
  ASSUME NEW t, NEW i \in Int, NEW j \in Int, i <= j, NEW base \in Int,
         NEW sign \in Int, NEW low \in Int, low <= 0,
         \A y \in i..(j - 1) : CharValue[t[y]] \in Int
  PROVE  Accumulates(t, i, j, base, sign, low)
  BY AccumulatedOf DEF Accumulates

(* The l digits of u with the numbers p stand from place i on up to j.     *)
Reading(t, i, j, base, sign, low, p, u, l) ==
  /\ i \in Nat /\ i > 0 /\ l \in Nat /\ j = i + l
  /\ base \in {2, 8, 10, 16} /\ sign \in {-1, 1} /\ low \in Int /\ low <= 0
  /\ Len(u) = l /\ StandsAt(u, t, i) /\ NumbersOf(p, base, u)

(* So it is if all before have been read.                                  *)
LEMMA AccumulatesOne ==
  ASSUME NEW t, NEW i, NEW j, NEW base, NEW sign, NEW low, NEW p, NEW u,
         NEW l, Reading(t, i, j, base, sign, low, p, u, l), NEW m \in Nat
  PROVE  /\ Follows(t, i, j, base, sign, low, p, 0)
         /\ Follows(t, i, j, base, sign, low, p, m) /\ m < l
              => WrapsTo(t, i, j, base, sign, low, p, m + 1)
<1> i \in Nat /\ i > 0 /\ l \in Nat /\ j = i + l
  BY DEF Reading
<1> base \in {2, 8, 10, 16} /\ sign \in {-1, 1} /\ low \in Int /\ low <= 0
  BY DEF Reading
<1>0. Len(u) = l /\ StandsAt(u, t, i) /\ NumbersOf(p, base, u)
  BY DEF Reading
<1>1. /\ p[0] = 0 /\ \A k \in 0..l : p[k] \in Nat
      /\ \A k \in 1..l : /\ CharValue[u[k]] \in Nat
                         /\ p[k] = base * p[k - 1] + CharValue[u[k]]
  BY <1>0 DEF NumbersOf
<1>2. \A x \in 1..l : t[(i - 1) + x] = u[x]
  BY <1>0 DEF StandsAt
<1> DEFINE acc == Accumulated(t, i, j, base, sign, low)
<1>3. \A y \in i..(j - 1) : CharValue[t[y]] \in Int
  <2> SUFFICES ASSUME NEW y \in i..(j - 1)
               PROVE  CharValue[t[y]] \in Int
    OBVIOUS
  <2> PICK x \in 1..l : x = y - (i - 1)
    OBVIOUS
  <2>1. (i - 1) + x = y
    OBVIOUS
  <2>2. t[y] = u[x] /\ CharValue[u[x]] \in Nat
    BY <1>1, <1>2, <2>1
  <2>3. Nat \subseteq Int
    OBVIOUS
  <2> QED
    BY <2>2, <2>3, Zenon
<1>4. /\ acc[i - 1] = 0
      /\ \A y \in i..(j - 1) :
           acc[y] = Wrapped(acc[y - 1] * base + sign * CharValue[t[y]], low)
  <2>1. i \in Int /\ j \in Int /\ i <= j /\ base \in Int /\ sign \in Int
    OBVIOUS
  <2>2. Accumulates(t, i, j, base, sign, low)
    BY <1>3, <2>1, AccumulatedSteps, Zenon
  <2> QED
    BY <2>2, Zenon DEF Accumulates
<1> HIDE DEF acc
<1>5. acc[(i - 1) + 0] = sign * p[0]
  <2>1. (i - 1) + 0 = i - 1 /\ sign * 0 = 0
    OBVIOUS
  <2> QED
    BY <1>1, <1>4, <2>1
<1>6. ASSUME acc[(i - 1) + m] = sign * p[m], m < l
      PROVE  acc[(i - 1) + (m + 1)] = Wrapped(sign * p[m + 1], low)
  <2> PICK y \in i..(j - 1) : y = (i - 1) + (m + 1)
    BY <1>6
  <2> PICK z \in 1..l : z = m + 1
    BY <1>6
  <2>1. y - 1 = (i - 1) + m /\ z - 1 = m /\ y = (i - 1) + z /\ m \in 0..l
          /\ z \in 0..l
    BY <1>6
  <2> PICK a \in Nat : a = p[m]
    BY <1>1, <2>1
  <2> PICK b \in Nat : b = p[z]
    BY <1>1, <2>1
  <2> PICK c \in Nat : c = CharValue[u[z]]
    BY <1>1
  <2>2. acc[y - 1] = sign * a
    BY <1>6, <2>1
  <2>3. b = base * a + c
    BY <1>1, <2>1
  <2>4. acc[y] = Wrapped((sign * a) * base + sign * c, low)
    <3>1. t[y] = u[z]
      BY <1>2, <2>1
    <3>2. acc[y] = Wrapped(acc[y - 1] * base + sign * CharValue[t[y]], low)
      BY <1>4
    <3> QED
      BY <2>2, <3>1, <3>2
  <2>5. (sign * a) * base + sign * c = sign * b
    <3>1. SignedSum(base, sign, a, c)
      BY SignedStep
    <3> QED
      BY <2>3, <3>1, Zenon DEF SignedSum
  <2> QED
    BY <2>1, <2>4, <2>5
<1>7. \A k \in 0..0 : acc[(i - 1) + k] = sign * p[k]
  <2>1. \A k \in 0..0 : k = 0
    OBVIOUS
  <2> QED
    BY <1>5, <2>1
<1>8. Follows(t, i, j, base, sign, low, p, m)
        => acc[(i - 1) + m] = sign * p[m]
  BY DEF Follows, acc
<1> QED
  BY <1>6, <1>7, <1>8 DEF Follows, WrapsTo, acc

(* Then parse_int comes by these numbers, with their sign.                 *)
LEMMA AccumulatesNumber ==
  ASSUME NEW t, NEW i, NEW j, NEW base, NEW sign, NEW low, NEW p, NEW u,
         NEW l, Reading(t, i, j, base, sign, low, p, u, l),
         NEW m \in Nat, m <= l, Unwrapped(p, m, sign, low)
  PROVE  Follows(t, i, j, base, sign, low, p, m)
<1> DEFINE F(k) == Follows(t, i, j, base, sign, low, p, k)
           W(k) == WrapsTo(t, i, j, base, sign, low, p, k)
           S == {k \in Nat : k <= m => F(k)}
<1>1. ASSUME NEW k \in Nat PROVE F(0) /\ (F(k) /\ k < l => W(k + 1))
  BY AccumulatesOne, Zenon
<1>2. ASSUME NEW k \in Nat, k + 1 <= m, F(k), W(k + 1) PROVE F(k + 1)
  <2>1. Wrapped(sign * p[k + 1], low) = sign * p[k + 1]
    <3>1. k + 1 \in 0..m
      BY <1>2
    <3> QED
      BY <3>1 DEF Unwrapped
  <2> DEFINE acc == Accumulated(t, i, j, base, sign, low)
  <2>2. acc[(i - 1) + (k + 1)] = sign * p[k + 1]
    BY <1>2, <2>1, Zenon DEF WrapsTo
  <2>3. \A x \in 0..k : acc[(i - 1) + x] = sign * p[x]
    BY <1>2, Zenon DEF Follows
  <2> HIDE DEF acc
  <2>4. ASSUME NEW x \in 0..(k + 1) PROVE acc[(i - 1) + x] = sign * p[x]
    <3>1. x \in 0..k \/ x = k + 1
      OBVIOUS
    <3> QED
      BY <2>2, <2>3, <3>1, Zenon
  <2> QED
    BY <2>4, Zenon DEF Follows, acc
<1> HIDE DEF F, W
<1>3. 0 \in S
  BY <1>1
<1>4. ASSUME NEW k \in S, k \in Nat PROVE k + 1 \in S
  <2>1. k + 1 <= m => k < l /\ k <= m
    BY DEF Reading
  <2> QED
    BY <1>1, <1>2, <1>4, <2>1
<1> HIDE DEF S
<1>5. m \in S
  BY <1>3, <1>4, Induction
<1> QED
  BY <1>5 DEF S, F

(* A number that fits is not wrapped.                                      *)
LEMMA NotWrapped ==
  ASSUME NEW n \in Int, NEW low \in Int, low <= n, n < low + Word
  PROVE  Wrapped(n, low) = n
<1> PICK W \in Nat : W = Word /\ W > 0
  BY ByteBelowWord
<1>1. n - low \in 0..(W - 1)
  OBVIOUS
<1>2. (n - low) % W = n - low
  BY <1>1
<1> QED
  BY <1>2 DEF Wrapped

(* The least value of the core type of an argument.                        *)
LowestOf(kind) == IF kind = "unsigned" THEN 0 ELSE MinInt

(* What a type holds lies in the range of its core type.                   *)
LEMMA HeldInRange ==
  ASSUME NEW kind \in ScannedInt, NEW n \in Int, Holds(kind, n)
  PROVE  LowestOf(kind) <= n /\ n < LowestOf(kind) + Word
<1> PICK W \in Nat : W = Word /\ W > 0
  BY ByteBelowWord
<1> PICK B \in Nat : B = Byte /\ B > 0
  BY ByteBelowWord
<1>1. B <= W
  BY WidthAssumption
<1>2. MinInt = - (W \div 2) /\ MaxInt = W \div 2 - 1
  BY DEF MinInt, MaxInt
<1>3. B \div 2 <= W \div 2 /\ W \div 2 + W \div 2 <= W /\ W \div 2 \in Nat
      /\ B \div 2 \in Nat /\ W \div 2 + 0 < W
  BY <1>1
<1>4. CASE kind = "int"
  BY <1>2, <1>3, <1>4 DEF Holds, LowestOf
<1>5. CASE kind = "unsigned"
  BY <1>5 DEF Holds, LowestOf
<1>6. CASE kind = "byte"
  <2>1. n \in (- (B \div 2))..(B \div 2 - 1)
    BY <1>6 DEF Holds
  <2> PICK h \in Nat : h = B \div 2
    BY <1>3
  <2> PICK e \in Nat : e = W \div 2
    BY <1>3
  <2>2. LowestOf(kind) = - e
    BY <1>2, <1>6 DEF LowestOf
  <2> QED
    BY <1>3, <2>1, <2>2
<1> QED
  BY <1>4, <1>5, <1>6 DEF ScannedInt

(* This is a range with zero in it.                                        *)
LEMMA LowOf == MinInt \in Int /\ MinInt <= 0 /\ 0 < MinInt + Word
<1> PICK W \in Nat : W = Word /\ W > 0
  BY ByteBelowWord
<1>2. MinInt = - (W \div 2) /\ W \div 2 \in Nat /\ W \div 2 < W
  BY DEF MinInt, MaxInt
<1> QED
  BY <1>2

(* The digits u from place p on, in front of place j.                      *)
DigitsAt(s, base, p, j, u) ==
  j = DigitsEnd(s, base)[p] /\ u = SubSeq(s, p, j - 1)

(* The number m of the digits u.                                           *)
HasNumber(m, base, u) ==
  m \in Nat /\ \E v : NumbersOf(v, base, u) /\ v[Len(u)] = m

(* Where they lie.                                                         *)
DigitsLie(s, p, j, u) ==
  /\ j \in Nat /\ p \in Nat /\ 1 <= p /\ p <= j /\ j - p \in Nat
  /\ Len(u) = j - p /\ StandsAt(u, s, p)

(* Digits have a number.                                                   *)
LEMMA DigitsNumber ==
  ASSUME NEW s, IsText(s), NEW p \in Places(s), NEW base \in {2, 8, 10, 16},
         NEW j, NEW u, DigitsAt(s, base, p, j, u)
  PROVE  DigitsLie(s, p, j, u) /\ HasNumber(NumberOf(base, u), base, u)
<1>0. j = DigitsEnd(s, base)[p] /\ u = SubSeq(s, p, j - 1)
  BY DEF DigitsAt
<1>1. base \in 2..36 /\ base \in Nat /\ Len(s) \in Nat /\ p \in Nat /\ 1 <= p
  BY CharOfText DEF Places
<1>2. IsDigitsEnd(s, base, p, j)
  BY <1>0, <1>1, DigitsEndOf
<1>3. j \in p..(Len(s) + 1) /\ j \in Nat
        /\ \A k \in p..(j - 1) : IsDigit(s[k], base)
  BY <1>1, <1>2 DEF IsDigitsEnd
<1>4. IsText(u) /\ Len(u) = j - p /\ \A x \in 1..(j - p) : u[x] = s[p + x - 1]
  <2> PICK e \in Int : e = j - 1
    BY <1>3
  <2>1. p \in Int /\ 1 <= p /\ p <= e + 1 /\ e <= Len(s) /\ e - p + 1 = j - p
    BY <1>1, <1>3
  <2>2. /\ IsText(SubSeq(s, p, e)) /\ Len(SubSeq(s, p, e)) = e - p + 1
        /\ \A x \in 1..(e - p + 1) : SubSeq(s, p, e)[x] = s[p + x - 1]
    BY <2>1, CutOf
  <2> QED
    BY <1>0, <2>1, <2>2
<1>5. \A k \in 1..Len(u) : CharValue[u[k]] \in Nat
  <2> SUFFICES ASSUME NEW k \in 1..(j - p) PROVE CharValue[u[k]] \in Nat
    BY <1>4
  <2> PICK y \in p..(j - 1) : y = p + k - 1
    BY <1>1, <1>3
  <2>1. u[k] = s[y] /\ s[y] \in DOMAIN CharValue
    BY <1>1, <1>3, <1>4, DigitIsChar
  <2>2. CharValue[u[k]] \in 0..35
    BY <2>1, ValueOfChar
  <2>3. 0..35 \subseteq Nat
    OBVIOUS
  <2> QED
    BY <2>2, <2>3, Zenon
<1>6. IsText(u) /\ Len(u) \in Nat
  BY <1>1, <1>3, <1>4
<1>7. \E v : NumbersOf(v, base, u) /\ v[Len(u)] = NumberOf(base, u)
  BY <1>1, <1>5, <1>6, NumberIsRead
<1>8. NumberOf(base, u) \in Nat
  <2> PICK v : NumbersOf(v, base, u) /\ v[Len(u)] = NumberOf(base, u)
    BY <1>7
  <2>1. Len(u) \in 0..Len(u) /\ v \in [0..Len(u) -> Nat]
    BY <1>6 DEF NumbersOf
  <2>2. v[Len(u)] \in Nat
    BY <2>1
  <2> QED
    BY <2>2
<1>9. StandsAt(u, s, p)
  <2> SUFFICES ASSUME NEW x \in 1..(j - p) PROVE s[(p - 1) + x] = u[x]
    BY <1>4 DEF StandsAt
  <2>1. (p - 1) + x = p + x - 1
    BY <1>1, <1>3
  <2> QED
    BY <1>4, <2>1
<1> QED
  BY <1>1, <1>3, <1>4, <1>7, <1>8, <1>9 DEF HasNumber, DigitsLie

(* All numbers of u have been read, up to m.                               *)
Exactly(s, p, j, base, sign, low, u, m) ==
  \E v : /\ NumbersOf(v, base, u) /\ v[Len(u)] = m
         /\ Follows(s, p, j, base, sign, low, v, Len(u))

(* If that fits, parse_int comes by it.                                    *)
LEMMA ExactlyAccumulated ==
  ASSUME NEW s, IsText(s), NEW p \in Places(s), NEW base \in {2, 8, 10, 16},
         NEW j, NEW u, DigitsAt(s, base, p, j, u),
         NEW m, HasNumber(m, base, u),
         NEW sign \in {-1, 1}, NEW low \in Int, low <= 0, 0 < low + Word,
         low <= sign * m, sign * m < low + Word
  PROVE  Exactly(s, p, j, base, sign, low, u, m)
<1>0. DigitsLie(s, p, j, u)
  BY DigitsNumber, Zenon
<1>1. /\ j \in Nat /\ p \in Nat /\ 1 <= p /\ p <= j /\ j - p \in Nat
      /\ Len(u) = j - p /\ StandsAt(u, s, p)
  BY <1>0 DEF DigitsLie
<1> DEFINE n == Len(u)
<1>2. PICK v : NumbersOf(v, base, u) /\ v[n] = m
  BY DEF HasNumber
<1>3. m \in Nat
  BY DEF HasNumber
<1>3a. n \in Nat /\ n = Len(u) /\ p > 0 /\ j = p + n
  BY <1>1
<1>3b. base \in 2..36
  OBVIOUS
<1> HIDE DEF n
<1>4. ASSUME NEW k \in 0..n PROVE v[k] \in Nat /\ v[k] <= m
  <2>1. \A y \in 0..n : v[y] \in Nat /\ \A x \in 0..y : v[x] <= v[y]
    BY <1>2, <1>3a, <1>3b, NumbersGrow
  <2>2. n \in 0..n
    BY <1>3a
  <2> QED
    BY <1>2, <2>1, <2>2
<1>5. ASSUME NEW k \in 0..n PROVE Wrapped(sign * v[k], low) = sign * v[k]
  <2>1. v[k] \in Nat /\ v[k] <= m /\ m \in Nat /\ Word \in Nat
    BY <1>3, <1>4, ByteBelowWord
  <2> DEFINE a == sign * v[k]
  <2>2. a \in Int /\ low <= a /\ a < low + Word
    <3>1. CASE sign = 1
      BY <2>1, <3>1
    <3>2. CASE sign = -1
      BY <2>1, <3>2
    <3> QED
      BY <3>1, <3>2
  <2> HIDE DEF a
  <2>3. Wrapped(a, low) = a
    BY <2>2, NotWrapped
  <2> QED
    BY <2>3 DEF a
<1>6. Unwrapped(v, n, sign, low)
  BY <1>5 DEF Unwrapped
<1>7. Follows(s, p, j, base, sign, low, v, n)
  <2>1. Reading(s, p, j, base, sign, low, v, u, n) /\ n <= n
    BY <1>1, <1>2, <1>3a DEF Reading
  <2> QED
    BY <1>3a, <1>6, <2>1, AccumulatesNumber, Zenon
<1> QED
  BY <1>2, <1>7 DEF Exactly, n

(* A number that the type of the argument can hold is parsed exactly.      *)
LEMMA ParsedExactly ==
  ASSUME NEW s, IsText(s), NEW p \in Places(s), NEW base \in {2, 8, 10, 16},
         NEW kind \in ScannedInt, NEW negative \in BOOLEAN,
         NEW n \in ParseNumber(kind, s, p, base, negative), n.ok,
         NEW u, DigitsAt(s, base, p, n.next, u),
         NEW m, HasNumber(m, base, u), Holds(kind, Signed(negative, m))
  PROVE  n.value = Signed(negative, m)
<1> DEFINE sign == IF negative THEN -1 ELSE 1
           low == LowestOf(kind)
           acc == Accumulated(s, p, n.next, base, sign, low)
<1>1. /\ m \in Nat /\ sign \in {-1, 1} /\ Signed(negative, m) \in Int
      /\ Signed(negative, m) = sign * m
  BY DEF HasNumber, Signed
<1>2. low <= Signed(negative, m) /\ Signed(negative, m) < low + Word
  BY <1>1, HeldInRange
<1>3. low \in Int /\ low <= 0 /\ 0 < low + Word
  BY LowOf, ByteBelowWord DEF LowestOf
<1>4. n.next = DigitsEnd(s, base)[p]
  BY DEF DigitsAt
<1>5. acc[n.next - 1] = sign * m
  <2> HIDE DEF sign, low
  <2>1. Exactly(s, p, n.next, base, sign, low, u, m)
    BY <1>1, <1>2, <1>3, ExactlyAccumulated
  <2>2. DigitsLie(s, p, n.next, u)
    BY DigitsNumber, Zenon
  <2>3. Len(u) \in 0..Len(u) /\ (p - 1) + Len(u) = n.next - 1
    BY <2>2 DEF DigitsLie
  <2>4. PICK v : /\ v[Len(u)] = m
                 /\ Follows(s, p, n.next, base, sign, low, v, Len(u))
    BY <2>1 DEF Exactly
  <2>5. acc[(p - 1) + Len(u)] = sign * v[Len(u)]
    BY <2>3, <2>4 DEF Follows
  <2> QED
    BY <2>3, <2>4, <2>5
<1>6. n.value = acc[n.next - 1]
  <2>1. CASE kind = "unsigned"
    <3> DEFINE r == ParseUnsigned(s, base)[p]
    <3>1. n = [r EXCEPT !.ok = @ /\ ~ negative] /\ r \in NumberRead
      BY <2>1, UnsignedParts DEF ParseNumber
    <3>2. r.value = Accumulated(s, p, n.next, base, 1, 0)[n.next - 1]
      BY <1>4 DEF ParseUnsigned, Places
    <3> HIDE DEF r
    <3>3. n.value = r.value /\ ~ negative
      BY <3>1 DEF NumberRead
    <3>4. sign = 1 /\ low = 0
      BY <2>1, <3>3 DEF LowestOf
    <3> QED
      BY <3>2, <3>3, <3>4
  <2>2. CASE kind # "unsigned"
    <3> DEFINE j == DigitsEnd(s, base)[p]
               b == Accumulated(s, p, j, base, sign, MinInt)
               turns == \E k \in p..(j - 1) : sign * (b[k] - b[k - 1]) < 0
               result == [ok |-> p < j, value |-> b[j - 1], next |-> j]
    <3>1. n \in {result, [result EXCEPT !.ok = @ /\ ~ turns]}
      BY <2>2 DEF ParseNumber, ParseSigned
    <3>2. n.value = b[j - 1]
      BY <3>1
    <3>3. low = MinInt
      BY <2>2 DEF LowestOf
    <3> QED
      BY <1>4, <3>2, <3>3
  <2> QED
    BY <2>1, <2>2
<1> QED
  BY <1>1, <1>5, <1>6

(* A number that the core type of the argument can hold is accepted.       *)
LEMMA ParsedWell ==
  ASSUME NEW s, IsText(s), NEW p \in Places(s), NEW base \in {2, 8, 10, 16},
         NEW kind \in ScannedInt, NEW negative \in BOOLEAN,
         NEW n \in ParseNumber(kind, s, p, base, negative),
         NEW u, NEW j, DigitsAt(s, base, p, j, u), p < j,
         NEW m, HasNumber(m, base, u),
         Holds(IF kind = "unsigned" THEN kind ELSE "int", Signed(negative, m)),
         ~ (kind = "unsigned" /\ negative)
  PROVE  n.ok
<1> DEFINE sign == IF negative THEN -1 ELSE 1
           low == LowestOf(kind)
           acc == Accumulated(s, p, j, base, sign, low)
<1>1. /\ m \in Nat /\ sign \in {-1, 1} /\ Signed(negative, m) \in Int
      /\ Signed(negative, m) = sign * m
  BY DEF HasNumber, Signed
<1>2. low <= Signed(negative, m) /\ Signed(negative, m) < low + Word
  <2> DEFINE core == IF kind = "unsigned" THEN kind ELSE "int"
  <2>1. core \in ScannedInt /\ LowestOf(core) = low
    BY DEF ScannedInt, LowestOf
  <2> HIDE DEF low
  <2> QED
    BY <1>1, <2>1, HeldInRange
<1>3. low \in Int /\ low <= 0 /\ 0 < low + Word
  BY LowOf, ByteBelowWord DEF LowestOf
<1>4. j = DigitsEnd(s, base)[p] /\ j \in Nat /\ p \in Nat /\ 1 <= p
        /\ Len(u) = j - p
  <2>1. DigitsLie(s, p, j, u)
    BY DigitsNumber, Zenon
  <2> QED
    BY <2>1 DEF DigitsAt, DigitsLie
<1>5. Exactly(s, p, j, base, sign, low, u, m)
  <2> HIDE DEF sign, low
  <2> QED
    BY <1>1, <1>2, <1>3, ExactlyAccumulated
<1>6. ASSUME NEW k \in p..(j - 1)
      PROVE  /\ acc[k] \in Int /\ acc[k - 1] \in Int
             /\ ~ (sign * (acc[k] - acc[k - 1]) < 0)
  <2>1. PICK v : /\ NumbersOf(v, base, u)
                 /\ Follows(s, p, j, base, sign, low, v, Len(u))
    BY <1>5 DEF Exactly
  <2> PICK l \in Nat : l = Len(u)
    BY <1>4
  <2> PICK x \in 1..l : x = k - (p - 1)
    BY <1>4
  <2>2. /\ x - 1 \in 0..l /\ x \in 0..l /\ (p - 1) + x = k
        /\ (p - 1) + (x - 1) = k - 1 /\ x - 1 \in 0..x
    BY <1>4
  <2>3. acc[k] = sign * v[x] /\ acc[k - 1] = sign * v[x - 1]
    <3>1. \A y \in 0..l : acc[(p - 1) + y] = sign * v[y]
      BY <2>1 DEF Follows
    <3> HIDE DEF acc
    <3> QED
      BY <2>2, <3>1
  <2>4. v[x] \in Nat /\ v[x - 1] \in Nat /\ v[x - 1] <= v[x]
    <3>1. base \in 2..36
      OBVIOUS
    <3>2. \A y \in 0..l : v[y] \in Nat /\ \A z \in 0..y : v[z] <= v[y]
      BY <2>1, <3>1, NumbersGrow
    <3> QED
      BY <2>2, <3>2
  <2> PICK a \in Nat : a = v[x]
    BY <2>4
  <2> PICK b \in Nat : b = v[x - 1]
    BY <2>4
  <2> HIDE DEF acc
  <2>5. sign = 1 \/ sign = -1
    OBVIOUS
  <2> HIDE DEF sign
  <2>6. CASE sign = 1
    BY <2>3, <2>4, <2>6
  <2>7. CASE sign = -1
    <3>1. acc[k] = - a /\ acc[k - 1] = - b /\ b <= a
      BY <2>3, <2>4, <2>7
    <3> PICK e \in Int : e = acc[k] - acc[k - 1] /\ e <= 0
      BY <3>1
    <3>2. ~ ((-1) * e < 0)
      OBVIOUS
    <3>3. - a \in Int /\ - b \in Int
      OBVIOUS
    <3> QED
      BY <2>7, <3>1, <3>2, <3>3
  <2> QED
    BY <2>5, <2>6, <2>7
<1>7. CASE kind = "unsigned"
  <2> DEFINE r == ParseUnsigned(s, base)[p]
  <2>1. n = [r EXCEPT !.ok = @ /\ ~ negative] /\ ~ negative /\ r \in NumberRead
    BY <1>7, UnsignedParts DEF ParseNumber
  <2>2. sign = 1 /\ low = 0
    BY <2>1, <1>7 DEF LowestOf
  <2>3. r.ok = (p < j /\ \A k \in p..(j - 1) : acc[k] >= acc[k - 1])
    <3>1. r.ok = LET i == DigitsEnd(s, base)[p]
                     a == Accumulated(s, p, i, base, 1, 0)
                 IN p < i /\ \A k \in p..(i - 1) : a[k] >= a[k - 1]
      BY DEF ParseUnsigned, Places
    <3> QED
      BY <1>4, <2>2, <3>1
  <2>4. ASSUME NEW k \in p..(j - 1) PROVE acc[k] >= acc[k - 1]
    <3>1. /\ acc[k] \in Int /\ acc[k - 1] \in Int
          /\ ~ (1 * (acc[k] - acc[k - 1]) < 0)
      <4> HIDE DEF acc
      <4> QED
        BY <1>6, <2>2
    <3> HIDE DEF acc
    <3> QED
      BY <3>1
  <2>5. r.ok
    <3> HIDE DEF r, acc
    <3> QED
      BY <2>3, <2>4
  <2> HIDE DEF r
  <2> QED
    BY <2>1, <2>5 DEF NumberRead
<1>8. CASE kind # "unsigned"
  <2> DEFINE turns == \E k \in p..(j - 1) : sign * (acc[k] - acc[k - 1]) < 0
             result == [ok |-> p < j, value |-> acc[j - 1], next |-> j]
  <2>1. n \in {result, [result EXCEPT !.ok = @ /\ ~ turns]}
    <3>1. low = MinInt
      BY <1>8 DEF LowestOf
    <3> QED
      BY <1>4, <1>8, <3>1 DEF ParseNumber, ParseSigned
  <2>2. ~ turns
    <3> HIDE DEF acc, sign
    <3> QED
      BY <1>6
  <2> HIDE DEF turns, acc
  <2> QED
    BY <2>1, <2>2
<1> QED
  BY <1>7, <1>8

(* An overflow that goes unnoticed is one of the kind described.           *)
LEMMA UnnoticedNumber ==
  ASSUME NEW s, IsText(s), NEW p \in Places(s), NEW base \in {2, 8, 10, 16},
         ParseUnsigned(s, base)[p].ok,
         NEW u, NEW j, DigitsAt(s, base, p, j, u),
         NEW m, HasNumber(m, base, u), m >= Word
  PROVE  Unnoticed(m, base)
<1> DEFINE acc == Accumulated(s, p, j, base, 1, 0)
           l == j - p
<1>1. p < j /\ \A k \in p..(j - 1) : acc[k] >= acc[k - 1]
  <2>1. j = DigitsEnd(s, base)[p]
    BY DEF DigitsAt
  <2> QED
    BY <2>1 DEF ParseUnsigned, Places
<1>2. DigitsLie(s, p, j, u)
  BY DigitsNumber, Zenon
<1>3. /\ j \in Nat /\ p \in Nat /\ 1 <= p /\ l \in Nat /\ l >= 1
      /\ Len(u) = l /\ StandsAt(u, s, p) /\ j = p + l
  BY <1>1, <1>2 DEF DigitsLie
<1>4. PICK v : NumbersOf(v, base, u) /\ v[l] = m
  BY <1>3 DEF HasNumber
<1> HIDE DEF l
<1>5. \A k \in 0..l : v[k] \in Nat /\ \A x \in 0..k : v[x] <= v[k]
  <2>1. base \in 2..36
    OBVIOUS
  <2> QED
    BY <1>3, <1>4, <2>1, NumbersGrow
<1> PICK h \in Nat : h = l - 1
  BY <1>3
<1>6. h \in 0..l /\ l \in 0..l /\ h + 1 = l /\ h < l /\ h <= l /\ l \in 1..l
  BY <1>3
<1> PICK a \in Nat : a = v[h]
  BY <1>5, <1>6
<1> PICK W \in Nat : W = Word /\ W > 0
  BY ByteBelowWord
<1>7. PICK c \in Nat : m = base * a + c /\ c < base
  <2>1. CharValue[u[l]] < base /\ CharValue[u[l]] \in Nat
    <3>1. IsDigitsEnd(s, base, p, j) /\ base \in 2..36
      <4>1. j = DigitsEnd(s, base)[p] /\ base \in 2..36
        BY DEF DigitsAt
      <4> QED
        BY <4>1, DigitsEndOf
    <3>2. IsDigit(s[j - 1], base)
      BY <1>1, <1>3, <3>1 DEF IsDigitsEnd
    <3>3. s[(p - 1) + l] = u[l] /\ (p - 1) + l = j - 1
      BY <1>3, <1>6 DEF StandsAt
    <3>4. CharValue[u[l]] < base
      BY <3>1, <3>2, <3>3 DEF IsDigit, DigitsOf
    <3>5. CharValue[u[l]] \in Nat
      BY <1>3, <1>4, <1>6 DEF NumbersOf
    <3> QED
      BY <3>4, <3>5
  <2>2. v[l] = base * v[l - 1] + CharValue[u[l]]
    BY <1>3, <1>4, <1>6 DEF NumbersOf
  <2> QED
    BY <1>4, <2>1, <2>2
<1>8. m \in Nat /\ m \div base = a
  <2> PICK d \in Nat : d = m
    BY DEF HasNumber
  <2>1. CASE base = 2
    BY <1>7, <2>1
  <2>2. CASE base = 8
    BY <1>7, <2>2
  <2>3. CASE base = 10
    BY <1>7, <2>3
  <2>4. CASE base = 16
    BY <1>7, <2>4
  <2> QED
    BY <2>1, <2>2, <2>3, <2>4
<1>9. m >= W + a
  <2>1. CASE a >= W
    <3>1. base * a >= 2 * a
      OBVIOUS
    <3> PICK d \in Nat : d = base * a
      OBVIOUS
    <3> QED
      BY <1>7, <2>1, <3>1
  <2>2. CASE a < W
    <3>1. Reading(s, p, j, base, 1, 0, v, u, l)
      BY <1>3, <1>4 DEF Reading
    <3>2. Unwrapped(v, h, 1, 0)
      <4> SUFFICES ASSUME NEW k \in 0..h
                   PROVE  Wrapped(1 * v[k], 0) = 1 * v[k]
        BY DEF Unwrapped
      <4>1. v[k] \in Nat /\ v[k] <= a
        BY <1>5, <1>6
      <4> PICK b \in Nat : b = v[k]
        BY <4>1
      <4>2. b \in Int /\ 0 <= b /\ b < 0 + Word /\ 1 * b = b /\ 0 \in Int
        BY <2>2, <4>1
      <4>3. Wrapped(b, 0) = b
        BY <4>2, NotWrapped
      <4> QED
        BY <4>2, <4>3
    <3>3. Follows(s, p, j, base, 1, 0, v, h)
      BY <1>6, <3>1, <3>2, AccumulatesNumber, Zenon
    <3>4. WrapsTo(s, p, j, base, 1, 0, v, h + 1)
      BY <1>6, <3>1, <3>3, AccumulatesOne, Zenon
    <3>5. acc[(p - 1) + h] = 1 * v[h]
      <4>1. h \in 0..h
        OBVIOUS
      <4> QED
        BY <3>3, <4>1 DEF Follows
    <3>6. acc[(p - 1) + l] = Wrapped(1 * v[l], 0)
      BY <1>6, <3>4 DEF WrapsTo
    <3>7. (p - 1) + h = j - 2 /\ (p - 1) + l = j - 1 /\ (j - 1) - 1 = j - 2
            /\ j - 1 \in p..(j - 1)
      BY <1>1, <1>3
    <3>8. acc[j - 1] >= acc[j - 2]
      BY <1>1, <3>7
    <3>9. 1 * v[h] = a /\ 1 * v[l] = m
      BY <1>4, <1>8
    <3>10. Wrapped(m, 0) >= a
      BY <3>5, <3>6, <3>7, <3>8, <3>9
    <3>11. m % W <= m - W
      BY <1>8
    <3>12. Wrapped(m, 0) = m % W
      BY <1>8 DEF Wrapped
    <3> QED
      BY <1>8, <3>10, <3>11, <3>12
  <2> QED
    BY <2>1, <2>2
<1> QED
  BY <1>8, <1>9 DEF Unnoticed

(* A number that fits has some digit; no sign is one, and no second        *)
(* character of a prefix is an octal one.                                  *)
LEMMA SignIsNoDigit ==
  ASSUME NEW e \in {"+", "-"} PROVE e \notin DOMAIN CharValue
<1>1. \A x \in 1..10 : Digits[x] # e
  BY DEF Digits
<1>2. \A x \in 1..26 : Upper[x] # e
  BY DEF Upper
<1>3. \A x \in 1..26 : Lower[x] # e
  BY DEF Lower
<1>4. \A x \in 1..7 : Between[x] # e
  <2>1. ";" # e
    <3>1. ";" # "+" /\ ";" # "-"
      BY Zenon
    <3> QED
      BY <3>1, Zenon
  <2>2. ASSUME NEW c, c # e, NEW row, row = <<":", c, "<", "=", ">", "?", "@">>
        PROVE  \A x \in 1..7 : row[x] # e
    BY <2>2
  <2> QED
    BY <2>1, <2>2, Zenon DEF Between
<1>5. e \notin Range(Digits \o Between)
  <2>1. IsRow(Digits, 10) /\ IsRow(Between, 7)
    BY RowsAsSeqs DEF IsRow
  <2>2. Range(Digits \o Between) = Range(Digits) \cup Range(Between)
    BY <2>1, InRow
  <2> QED
    BY <1>1, <1>4, <2>2, Rows, BetweenRow DEF Range
<1>6. e \notin Alpha
  BY <1>2, <1>3, Rows DEF Alpha, Range
<1> QED
  BY <1>5, <1>6 DEF CharValue

(* The letters of the other prefixes are no octal digits.                  *)
LEMMA OctalDigit ==
  ASSUME NEW c, IsDigit(c, 8) PROVE c \notin {"b", "B", "x", "X"}
<1>1. c \in DOMAIN CharValue /\ CharValue[c] < 8 /\ CharValue[c] \in 0..35
  <2>1. c \in DOMAIN CharValue /\ CharValue[c] < 8
    BY DEF IsDigit, DigitsOf
  <2> QED
    BY <2>1, ValueOfChar
<1>2. PICK r \in 1..3 : DigitRows[r][CharValue[c] + 1] = c
  BY <1>1, RowOfChar
<1>3. PICK x \in 1..10 : x = CharValue[c] + 1
  BY <1>1
<1>4. DigitRows[r][x] = Digits[x]
  <2>1. IsRow(Digits, 10) /\ IsRow(Between, 7) /\ IsRow(Upper, 26)
          /\ IsRow(Lower, 26)
    BY RowsAsSeqs DEF IsRow
  <2>2. Begins(Digits, Digits \o Between, 10)
    BY <2>1, InRow
  <2>3. Begins(Digits, Digits \o Upper, 10)
    BY <2>1, InRow
  <2>4. Begins(Digits, Digits \o Lower, 10)
    BY <2>1, InRow
  <2>5. DigitRows[1] = Digits \o Between /\ DigitRows[2] = Digits \o Upper
          /\ DigitRows[3] = Digits \o Lower
    BY DEF DigitRows
  <2>6. r = 1 \/ r = 2 \/ r = 3
    OBVIOUS
  <2> QED
    BY <2>2, <2>3, <2>4, <2>5, <2>6, Zenon DEF Begins
<1>5. Digits[x] = c
  BY <1>2, <1>3, <1>4
<1>6. \A y \in 1..10 : Digits[y] \notin {"b", "B", "x", "X"}
  BY DEF Digits
<1> QED
  BY <1>5, <1>6

(* A notation that fits u, read from a text: the prefix q of base b, then  *)
(* digits up to j.                                                         *)
Noted(s, i, j, specs, b, q) ==
  LET g == SignEnd(s, i) IN
  /\ b \in {2, 8, 10, 16}
  /\ \/ specs.alternate /\ specs.type = "none"
     \/ b = BaseOf[specs.type]
  /\ q \in IF specs.alternate THEN PrefixesOf[b] ELSE {<<>>}
  /\ Len(q) \in Nat /\ g + Len(q) < j
  /\ \A x \in 1..Len(q) : s[g + x - 1] = q[x]
  /\ \A k \in (g + Len(q))..(j - 1) : IsDigit(s[k], b)
  /\ b = 10 /\ specs.alternate /\ specs.type = "none"
       => s[g] # "0" \/ j = g + 1

(* Lengths of the prefixes.                                                *)
LEMMA PrefixesAre ==
  ASSUME NEW b \in {2, 8, 10, 16}, NEW q \in PrefixesOf[b]
  PROVE  /\ b = 10 => q = <<>>
         /\ b = 8 => Len(q) = 1 /\ q[1] = "0"
         /\ b = 2 => Len(q) = 2 /\ q[1] = "0" /\ q[2] \in {"b", "B"}
         /\ b = 16 => Len(q) = 2 /\ q[1] = "0" /\ q[2] \in {"x", "X"}
         /\ Len(q) \in 0..2
<1>1. /\ PrefixesOf[2] = {<<"0", "b">>, <<"0", "B">>}
      /\ PrefixesOf[8] = {<<"0">>} /\ PrefixesOf[10] = {<<>>}
      /\ PrefixesOf[16] = {<<"0", "x">>, <<"0", "X">>}
  BY DEF PrefixesOf
<1>2. CASE b = 2
  BY <1>1, <1>2
<1>3. CASE b = 8
  BY <1>1, <1>3
<1>4. CASE b = 10
  BY <1>1, <1>4
<1>5. CASE b = 16
  BY <1>1, <1>5
<1> QED
  BY <1>2, <1>3, <1>4, <1>5

(* Every notation has a base and a prefix of it.                           *)
LEMMA NotationHas ==
  ASSUME NEW specs, specs.type \in {"none", "b", "d", "o", "x"},
         NEW n \in Notations(specs)
  PROVE  /\ n.base \in {2, 8, 10, 16}
         /\ \/ specs.alternate /\ specs.type = "none"
            \/ n.base = BaseOf[specs.type]
         /\ n.prefix \in IF specs.alternate THEN PrefixesOf[n.base] ELSE {<<>>}
<1> DEFINE B == IF specs.alternate /\ specs.type = "none" THEN {2, 8, 10, 16}
                ELSE {BaseOf[specs.type]}
           N(b) == {[base |-> b, prefix |-> q] :
                      q \in IF specs.alternate THEN PrefixesOf[b] ELSE {<<>>}}
<1>1. Notations(specs) = UNION {N(b) : b \in B}
  BY DEF Notations
<1>2. PICK b \in B : n \in N(b)
  <2> HIDE DEF N, B
  <2> QED
    BY <1>1
<1>3. BaseOf[specs.type] \in {2, 8, 10, 16}
  BY DEF BaseOf
<1>4. n.base = b /\ n.prefix \in IF specs.alternate THEN PrefixesOf[b]
                                 ELSE {<<>>}
  BY <1>2
<1> QED
  BY <1>3, <1>4

(* An integer that the specs allow has one of these notations.             *)
LEMMA HasNotation ==
  ASSUME NEW s, IsText(s), NEW i \in Places(s), NEW j \in i..(Len(s) + 1),
         NEW specs, specs.type \in {"none", "b", "d", "o", "x"},
         IntegersOf(specs, SubSeq(s, i, j - 1)) # {}
  PROVE  \E b, q : Noted(s, i, j, specs, b, q)
<1> DEFINE u == SubSeq(s, i, j - 1)
           g == SignEnd(s, i)
           sign == IF Len(u) > 0 /\ u[1] \in {"+", "-"} THEN 1 ELSE 0
           rest(m) == SubSeq(u, sign + Len(m.prefix) + 1, Len(u))
           fits(m) ==
             /\ Len(u) > sign + Len(m.prefix)
             /\ Matches(u, sign + 1, m.prefix)
             /\ Range(rest(m)) \subseteq FiguresOf(m.base)
             /\ m.base = 10 /\ specs.alternate /\ specs.type = "none"
                  => u[sign + 1] # "0" \/ Len(u) = sign + 1
           value(m) == Signed(u[1] = "-", NumberOf(m.base, rest(m)))
<1>1. IntegersOf(specs, u) =
        {value(m) : m \in {k \in Notations(specs) : fits(k)}}
  BY DEF IntegersOf, Signed, NumberOf
<1>2. PICK n \in Notations(specs) : fits(n)
  <2> HIDE DEF fits, value
  <2> QED
    BY <1>1
<1>3. /\ n.base \in {2, 8, 10, 16}
      /\ \/ specs.alternate /\ specs.type = "none"
         \/ n.base = BaseOf[specs.type]
      /\ n.prefix \in IF specs.alternate THEN PrefixesOf[n.base] ELSE {<<>>}
  BY NotationHas
<1>l. PICK l \in Nat : l = Len(n.prefix)
  <2>1. Len(<<>>) = 0
    OBVIOUS
  <2> QED
    BY <1>3, <2>1, PrefixesAre
<1>4. Len(s) \in Nat /\ i \in Nat /\ 1 <= i /\ j \in Nat /\ i <= j
        /\ j <= Len(s) + 1
  BY CharOfText DEF Places
<1>5. IsText(u) /\ Len(u) = j - i /\ \A x \in 1..(j - i) : u[x] = s[i + x - 1]
  <2> PICK e \in Int : e = j - 1
    BY <1>4
  <2>1. i \in Int /\ 1 <= i /\ i <= e + 1 /\ e <= Len(s) /\ e - i + 1 = j - i
    BY <1>4
  <2>2. /\ IsText(SubSeq(s, i, e)) /\ Len(SubSeq(s, i, e)) = e - i + 1
        /\ \A x \in 1..(e - i + 1) : SubSeq(s, i, e)[x] = s[i + x - 1]
    BY <2>1, CutOf
  <2> QED
    BY <2>1, <2>2
<1>6a. j - i > sign + l
  BY <1>2, <1>5, <1>l
<1>6. /\ Matches(u, sign + 1, n.prefix)
      /\ Range(SubSeq(u, sign + l + 1, j - i)) \subseteq FiguresOf(n.base)
      /\ n.base = 10 /\ specs.alternate /\ specs.type = "none"
           => u[sign + 1] # "0" \/ j - i = sign + 1
  BY <1>2, <1>5, <1>l
<1>7. sign \in Nat /\ 1 \in 1..(j - i) /\ i \in 1..Len(s)
        /\ i + 1 - 1 = i
  <2>1. sign \in Nat
    OBVIOUS
  <2> HIDE DEF sign
  <2> QED
    BY <1>4, <1>6a, <2>1
<1>8. g = i + sign
  <2>1. u[1] = s[i] /\ Char(s, i) = s[i] /\ Len(u) > 0
    BY <1>4, <1>5, <1>7, CharOfText
  <2> HIDE DEF u
  <2> QED
    BY <1>4, <2>1 DEF SignEnd
<1> HIDE DEF u, g, sign, fits, value, rest
<1>9. g \in Nat /\ g + l < j /\ g >= 1 /\ sign \in Nat
        /\ (j - i = sign + 1 => j = g + 1) /\ sign + 1 \in 1..(j - i)
        /\ i + (sign + 1) - 1 = g
  <2>1. g \in Nat /\ g >= 1
    BY <1>4, <1>7, <1>8
  <2>2. g + l < j
    BY <1>4, <1>6a, <1>7, <1>8
  <2>3. j - i = sign + 1 => j = g + 1
    BY <1>4, <1>7, <1>8
  <2>4. sign + 1 \in 1..(j - i)
    BY <1>4, <1>6a, <1>7
  <2>5. i + (sign + 1) - 1 = g
    BY <1>4, <1>7, <1>8
  <2> QED
    BY <1>7, <2>1, <2>2, <2>3, <2>4, <2>5
<1>10. ASSUME NEW x \in 1..l PROVE s[g + x - 1] = n.prefix[x]
  <2> DEFINE a == sign + 1
             c == sign + 1 + l - 1
  <2>1. n.prefix = SubSeq(u, a, c)
    BY <1>6, <1>l DEF Matches
  <2>2. a \in Int /\ c \in Int /\ 1 <= a /\ a <= c + 1 /\ c <= j - i
          /\ c - a + 1 = l
    BY <1>4, <1>6a, <1>9
  <2>3. a + x - 1 \in 1..(j - i) /\ i + (a + x - 1) - 1 = g + x - 1
    BY <1>4, <1>6a, <1>8, <1>9
  <2> HIDE DEF a, c
  <2>4. \A y \in 1..(c - a + 1) : SubSeq(u, a, c)[y] = u[a + y - 1]
    BY <1>5, <2>2, CutOf
  <2>5. n.prefix[x] = u[a + x - 1]
    BY <2>1, <2>2, <2>4
  <2> QED
    BY <1>5, <2>3, <2>5
<1>11. ASSUME NEW k \in (g + l)..(j - 1) PROVE IsDigit(s[k], n.base)
  <2> DEFINE a == sign + l + 1
             c == j - i
  <2>1. a \in Int /\ c \in Int /\ 1 <= a /\ a <= c + 1 /\ c <= Len(u)
    BY <1>4, <1>5, <1>6a, <1>9
  <2> PICK x \in 1..(c - a + 1) : x = k - (g + l) + 1
    BY <1>4, <1>6a, <1>8, <1>9
  <2>2. a + x - 1 \in 1..(j - i) /\ i + (a + x - 1) - 1 = k
    BY <1>4, <1>6a, <1>8, <1>9
  <2> HIDE DEF a
  <2>3. u[a + x - 1] = s[k]
    BY <1>5, <2>2
  <2> HIDE DEF c
  <2>4. /\ DOMAIN SubSeq(u, a, c) = 1..(c - a + 1)
        /\ \A y \in 1..(c - a + 1) : SubSeq(u, a, c)[y] = u[a + y - 1]
    BY <1>5, <2>1, CutOf
  <2>5. Range(SubSeq(u, a, c)) \subseteq FiguresOf(n.base)
    BY <1>6 DEF a, c
  <2>6. SubSeq(u, a, c)[x] \in FiguresOf(n.base)
    BY <2>4, <2>5 DEF Range
  <2>7. s[k] \in FiguresOf(n.base)
    BY <2>3, <2>4, <2>6
  <2> QED
    <3>1. n.base \in 2..36
      BY <1>3
    <3> HIDE DEF c
    <3> QED
      BY <2>7, <3>1 DEF FiguresOf, IsDigit, DigitsOf
<1>12. u[sign + 1] = s[g]
  BY <1>5, <1>9
<1>13. Noted(s, i, j, specs, n.base, n.prefix)
  BY <1>3, <1>6, <1>9, <1>10, <1>11, <1>12, <1>l DEF Noted, g
<1> QED
  BY <1>13

(* A zero that "#" takes for a number of its own, in front of other text.  *)
LoneZero(s, i, j, specs) ==
  /\ specs.alternate /\ specs.type = "none" /\ j = SignEnd(s, i) + 1
  /\ Char(s, j - 1) = "0" /\ Char(s, j) # End

(* Where ReadInt expects digits from p on.                                 *)
Opens(s, i, specs, g, base, p) ==
  /\ g = SignEnd(s, i) /\ base = Base(s, g, specs)
  /\ IF specs.alternate /\ base # 10
       THEN AlternateOk(s, g, base) /\ p = g + PrefixSize(base)
       ELSE p = g

(* A notation in the text is the one that ReadInt finds, unless a zero     *)
(* comes first.                                                            *)
LEMMA NotedIsRead ==
  ASSUME NEW s, IsText(s), NEW i \in Places(s), NEW j \in i..(Len(s) + 1),
         NEW specs, specs.type \in {"none", "b", "d", "o", "x"},
         NEW b, NEW q, Noted(s, i, j, specs, b, q)
  PROVE  \/ LoneZero(s, i, j, specs)
         \/ Opens(s, i, specs, SignEnd(s, i), b, SignEnd(s, i) + Len(q))
<1> DEFINE g == SignEnd(s, i)
<1>1. /\ Len(s) \in Nat /\ i \in Nat /\ 1 <= i /\ j \in Nat
      /\ j <= Len(s) + 1 /\ g \in Nat /\ 1 <= g
  BY SignEnds, CharOfText DEF Places
<1>2. /\ b \in {2, 8, 10, 16}
      /\ \/ specs.alternate /\ specs.type = "none"
         \/ b = BaseOf[specs.type]
      /\ q \in IF specs.alternate THEN PrefixesOf[b] ELSE {<<>>}
      /\ Len(q) \in Nat /\ g + Len(q) < j
      /\ \A x \in 1..Len(q) : s[g + x - 1] = q[x]
      /\ \A k \in (g + Len(q))..(j - 1) : IsDigit(s[k], b)
      /\ b = 10 /\ specs.alternate /\ specs.type = "none"
           => s[g] # "0" \/ j = g + 1
  BY DEF Noted
<1> HIDE DEF g
<1>l. PICK l \in Nat : l = Len(q)
  BY <1>2
<1>3. /\ g + l < j /\ \A x \in 1..l : s[g + x - 1] = q[x]
      /\ \A k \in (g + l)..(j - 1) : IsDigit(s[k], b)
  BY <1>2, <1>l
<1>4. /\ g \in 1..Len(s) /\ g + l \in 1..Len(s) /\ g + l \in (g + l)..(j - 1)
      /\ (g + 1 \notin 1..Len(s) => j = g + 1)
      /\ g + l \in Int /\ g + 1 \in Int /\ g \in Int
  BY <1>1, <1>3
<1>5. /\ Char(s, g) = s[g] /\ Char(s, g + l) = s[g + l]
      /\ (g + 1 \in 1..Len(s) => Char(s, g + 1) = s[g + 1])
      /\ (Char(s, g + 1) = End => j = g + 1)
  BY <1>4, CharOfText
<1>6. IsDigit(Char(s, g + l), b) /\ Char(s, g + l) \notin {"+", "-"}
        /\ Char(s, g + l) # End
  <2>1. b \in 2..36 /\ IsDigit(Char(s, g + l), b)
    BY <1>2, <1>3, <1>4, <1>5
  <2> QED
    BY <2>1, DigitIsChar, SignIsNoDigit
<1>7. CASE ~ specs.alternate
  <2>1. l = 0 /\ b = BaseOf[specs.type] /\ g + l = g
    BY <1>1, <1>2, <1>7, <1>l
  <2>2. Base(s, g, specs) = b
    BY <1>7, <2>1 DEF Base
  <2> QED
    BY <1>7, <1>l, <2>1, <2>2 DEF Opens, g
<1>8. CASE specs.alternate
  <2>1. /\ b = 10 => l = 0 /\ g + l = g
        /\ b = 8 => l = 1 /\ s[g] = "0"
        /\ b = 2 => l = 2 /\ s[g] = "0" /\ Char(s, g + 1) \in {"b", "B"}
        /\ b = 16 => l = 2 /\ s[g] = "0" /\ Char(s, g + 1) \in {"x", "X"}
    <3>1. /\ b = 10 => l = 0
          /\ b = 8 => l = 1 /\ q[1] = "0"
          /\ b = 2 => l = 2 /\ q[1] = "0" /\ q[2] \in {"b", "B"}
          /\ b = 16 => l = 2 /\ q[1] = "0" /\ q[2] \in {"x", "X"}
      <4>1. q \in PrefixesOf[b] /\ b \in {2, 8, 10, 16} /\ Len(<<>>) = 0
        BY <1>2, <1>8
      <4> QED
        BY <1>l, <4>1, PrefixesAre
    <3>2. l >= 1 => s[g] = q[1]
      <4>1. g + 1 - 1 = g /\ (l >= 1 => 1 \in 1..l)
        BY <1>1
      <4> QED
        BY <1>3, <4>1
    <3>3. l >= 2 => Char(s, g + 1) = q[2]
      <4>1. g + 2 - 1 = g + 1 /\ (l >= 2 => 2 \in 1..l /\ g + 1 \in 1..Len(s))
        BY <1>1, <1>3
      <4> QED
        BY <1>3, <1>5, <4>1
    <3>4. l = 0 => g + l = g
      BY <1>1
    <3> QED
      BY <3>1, <3>2, <3>3, <3>4
  <2>2. b # 10 => l = PrefixSize(b) /\ AlternateOk(s, g, b)
    <3>1. b # 10 => l = PrefixSize(b)
      BY <1>2, <2>1 DEF PrefixSize
    <3>2. b # 10 => Char(s, g) = "0"
      BY <1>2, <1>5, <2>1
    <3> QED
      BY <1>6, <2>1, <3>1, <3>2 DEF AlternateOk
  <2>3. CASE specs.type # "none"
    <3>1. Base(s, g, specs) = b
      BY <1>2, <2>3 DEF Base
    <3> QED
      BY <1>8, <1>l, <2>1, <2>2, <3>1 DEF Opens, g
  <2>4. CASE specs.type = "none"
    <3>1. Base(s, g, specs) = DetermineBase(s, g)
      BY <1>8, <2>4 DEF Base
    <3>2. ASSUME DetermineBase(s, g) = b PROVE Opens(s, i, specs, g, b, g + l)
      BY <1>8, <2>1, <2>2, <3>1, <3>2 DEF Opens, g
    <3>3. CASE b = 10
      <4>1. CASE s[g] # "0" \/ Char(s, g + 1) = End
        <5>1. DetermineBase(s, g) = b
          BY <1>5, <3>3, <4>1 DEF DetermineBase
        <5> QED
          BY <1>l, <3>2, <5>1 DEF g
      <4>2. CASE s[g] = "0" /\ Char(s, g + 1) # End
        <5>1. j = g + 1 /\ j - 1 = g
          BY <1>1, <1>2, <1>8, <2>4, <3>3, <4>2
        <5> QED
          BY <1>5, <1>8, <2>4, <4>2, <5>1 DEF LoneZero, g
      <4> QED
        BY <4>1, <4>2
    <3>4. CASE b # 10
      <4>1. Char(s, g) = "0" /\ Char(s, g + 1) # End
        <5>1. g + 1 \in 1..Len(s)
          <6>1. l >= 1
            BY <1>2, <2>1, <3>4
          <6> QED
            BY <1>1, <1>3, <6>1
        <5>2. Char(s, g + 1) # End
          BY <1>4, <5>1, CharOfText
        <5> QED
          BY <2>2, <3>4, <5>2 DEF AlternateOk
      <4>2. Char(s, g + 1) = s[g + 1]
        BY <1>4, <1>5, <4>1, CharOfText
      <4>3. b = 8 => Char(s, g + 1) \notin {"b", "B", "x", "X"}
        <5>1. b = 8 => IsDigit(Char(s, g + 1), 8)
          BY <1>6, <2>1
        <5> QED
          BY <5>1, OctalDigit
      <4>4. DetermineBase(s, g) = b
        BY <1>2, <2>1, <3>4, <4>1, <4>2, <4>3 DEF DetermineBase
      <4> QED
        BY <1>l, <3>2, <4>4 DEF g
    <3> QED
      BY <3>3, <3>4
  <2> QED
    BY <2>3, <2>4
<1> QED
  BY <1>7, <1>8

(* An integer that the specs allow is the beginning of what ReadInt takes  *)
(* for a numeral, or such a zero.                                          *)
LEMMA LegalIsRead ==
  ASSUME NEW s, IsText(s), NEW i \in Places(s), NEW j \in i..(Len(s) + 1),
         NEW specs, specs.type \in {"none", "b", "d", "o", "x"},
         IntegersOf(specs, SubSeq(s, i, j - 1)) # {}
  PROVE  \/ LoneZero(s, i, j, specs)
         \/ \E g, base, p, d : /\ Opens(s, i, specs, g, base, p)
                               /\ IsNumeral(s, i, specs, g, base, p, d)
                               /\ j <= d /\ d <= Len(s) + 1
<1>1. PICK b, q : Noted(s, i, j, specs, b, q)
  BY HasNotation
<1> DEFINE g == SignEnd(s, i)
           p == g + Len(q)
           d == DigitsEnd(s, b)[p]
<1>2. CASE LoneZero(s, i, j, specs)
  BY <1>2
<1>3. CASE Opens(s, i, specs, g, b, p)
  <2>1. /\ Len(s) \in Nat /\ i \in Nat /\ 1 <= i /\ j \in Nat
        /\ j <= Len(s) + 1 /\ g \in Nat /\ 1 <= g
    BY SignEnds, CharOfText DEF Places
  <2>2. /\ b \in 2..36 /\ p < j /\ Len(q) \in Nat
        /\ \A k \in p..(j - 1) : IsDigit(s[k], b)
    BY <1>1 DEF Noted
  <2> HIDE DEF g
  <2>3. p \in Nat /\ 1 <= p /\ p < j
    BY <2>1, <2>2
  <2> HIDE DEF p
  <2>4. p \in Places(s)
    BY <2>1, <2>3 DEF Places
  <2>5. IsDigitsEnd(s, b, p, d)
    BY <2>2, <2>4, DigitsEndOf
  <2> HIDE DEF d
  <2>6. d \in p..(Len(s) + 1) /\ ~ IsDigit(Char(s, d), b)
    BY <2>5 DEF IsDigitsEnd
  <2>7. j <= d /\ d <= Len(s) + 1 /\ p < d
    <3>1. d \in Nat /\ d <= Len(s) + 1 /\ p <= d
      BY <2>1, <2>3, <2>6
    <3>2. ASSUME d < j PROVE FALSE
      <4>1. d \in p..(j - 1) /\ d \in 1..Len(s) /\ d \in Int
        BY <2>1, <2>3, <3>1, <3>2
      <4>2. s[d] = Char(s, d)
        BY <4>1, CharOfText
      <4> QED
        BY <2>2, <2>6, <4>1, <4>2
    <3> QED
      BY <2>1, <2>3, <3>1, <3>2
  <2>8. IsNumeral(s, i, specs, g, b, p, d)
    BY <1>3, <2>7 DEF Opens, IsNumeral, d
  <2> QED
    BY <1>3, <2>7, <2>8
<1> QED
  BY <1>1, <1>2, <1>3, NotedIsRead

(* What reading the integer m from i up to d gives: it is assigned if the  *)
(* type can hold it, otherwise the field fails; numbers that an int cannot *)
(* hold and overflows that go unnoticed are left open.                     *)
Delivers(kind, m, negative, r, i, d) ==
  IF Holds(kind, m) /\ ~ (kind = "unsigned" /\ negative)
    THEN r.ok /\ r.next = d /\ r.value = Numeric(m)
    ELSE \/ ~ r.ok /\ r.next \in {i, d}
         \/ kind # "unsigned" /\ ~ Holds("int", m)
         \/ \E b \in {2, 8, 10, 16} : Unnoticed(m, b)

(* A numeral is delivered, whichever number has been parsed.               *)
LEMMA NumberDelivered ==
  ASSUME NEW s, IsText(s), NEW i \in Places(s), NEW kind \in ScannedInt,
         NEW specs, specs.type \in {"none", "b", "d", "o", "x"},
         NEW g, NEW base, NEW p, NEW d,
         IsNumeral(s, i, specs, g, base, p, d),
         NEW n \in ParseNumber(kind, s, p, base, Negative(s, i)),
         NEW r, r = AfterDigits(kind, n, i, specs),
         specs.width # NoWidth => d = i + specs.width
  PROVE  \E m \in IntegersOf(specs, SubSeq(s, i, d - 1)) :
           Delivers(kind, m, Negative(s, i), r, i, d)
<1> DEFINE u == SubSeq(s, p, d - 1)
           negative == Negative(s, i)
           m0 == NumberOf(base, u)
           m == Signed(negative, m0)
           unsigned == kind = "unsigned"
<1>1. m \in IntegersOf(specs, SubSeq(s, i, d - 1))
  BY NumeralRead
<1>2. p \in Places(s) /\ base \in {2, 8, 10, 16} /\ p < d
  <2>1. /\ i \in Nat /\ g \in Nat /\ p \in Nat /\ d \in Nat /\ Len(s) \in Nat
        /\ 1 <= i /\ i <= g /\ g <= p /\ p < d /\ d <= Len(s) + 1
        /\ base \in {2, 8, 10, 16}
    BY NumeralParts
  <2> QED
    BY <2>1 DEF Places
<1>3. DigitsAt(s, base, p, d, u) /\ d = DigitsEnd(s, base)[p]
  BY DEF IsNumeral, DigitsAt
<1>4. HasNumber(m0, base, u)
  BY <1>2, <1>3, DigitsNumber
<1>5. negative \in BOOLEAN /\ m0 \in Nat /\ m \in Int
  BY <1>4 DEF Negative, HasNumber, Signed
<1>6. n.ok => n.next = d
  BY <1>2, <1>3, NumberOfDigitsRead
<1> HIDE DEF u, negative, m0
<1>7. n \in ParseNumber(kind, s, p, base, negative)
  BY DEF negative
<1> DEFINE core == IF unsigned THEN kind ELSE "int"
<1>8. Holds(core, m) /\ ~ (unsigned /\ negative) => n.ok
  BY <1>2, <1>3, <1>4, <1>5, <1>7, ParsedWell
<1>9. n.ok /\ Holds(core, m) => n.value = m
  <2>1. core \in ScannedInt /\ n \in ParseNumber(core, s, p, base, negative)
    BY <1>7 DEF ScannedInt, ParseNumber
  <2>2. n.ok => DigitsAt(s, base, p, n.next, u)
    BY <1>3, <1>6
  <2> HIDE DEF m, core
  <2> QED
    BY <1>2, <1>4, <1>5, <2>1, <2>2, ParsedExactly DEF m
<1>10. Holds(kind, m) => Holds(core, m)
  <2>1. CASE kind = "byte"
    <3> PICK B \in Nat : B = Byte /\ B > 0
      BY ByteBelowWord
    <3> PICK W \in Nat : W = Word /\ W > 0
      BY ByteBelowWord
    <3>1. B <= W
      BY WidthAssumption
    <3>2. MinInt = - (W \div 2) /\ MaxInt = W \div 2 - 1
      BY DEF MinInt, MaxInt
    <3> PICK x \in Nat : x = B \div 2
      OBVIOUS
    <3> PICK y \in Nat : y = W \div 2
      OBVIOUS
    <3>3. x <= y
      BY <3>1
    <3>4. ASSUME NEW z \in (- x)..(x - 1) PROVE z \in (- y)..(y - 1)
      BY <3>3
    <3> HIDE DEF m
    <3>5. Holds(kind, m) => m \in (- x)..(x - 1)
      BY <2>1 DEF Holds
    <3>6. m \in (- y)..(y - 1) => Holds("int", m)
      BY <3>2 DEF Holds
    <3> QED
      BY <2>1, <3>4, <3>5, <3>6
  <2>2. CASE kind # "byte"
    BY <2>2 DEF ScannedInt
  <2> QED
    BY <2>1, <2>2
<1> HIDE DEF m, core
<1>11. CASE Holds(kind, m) /\ ~ (unsigned /\ negative)
  <2>1. n.ok /\ n.next = d /\ n.value = m
    BY <1>6, <1>8, <1>9, <1>10, <1>11
  <2>2. r = Result(TRUE, Numeric(m), d)
    BY <1>11, <2>1 DEF AfterDigits
  <2>3. Delivers(kind, m, negative, r, i, d)
    BY <1>11, <2>2 DEF Delivers, Result
  <2> QED
    BY <1>1, <2>3 DEF negative
<1>12. CASE ~ (Holds(kind, m) /\ ~ (unsigned /\ negative))
  <2> SUFFICES \/ ~ r.ok /\ r.next \in {i, d}
               \/ ~ unsigned /\ ~ Holds("int", m)
               \/ \E b \in {2, 8, 10, 16} : Unnoticed(m, b)
    BY <1>1, <1>12 DEF Delivers, negative
  <2>1. CASE ~ n.ok
    BY <2>1 DEF AfterDigits, Nothing, Result
  <2>2. CASE n.ok /\ unsigned
    <3> DEFINE w == ParseUnsigned(s, base)[p]
    <3>1. n = [w EXCEPT !.ok = @ /\ ~ negative] /\ w \in NumberRead
      BY <1>2, <1>7, <2>2, UnsignedParts DEF ParseNumber
    <3>2. ~ negative /\ w.ok
      <4> HIDE DEF w
      <4> QED
        BY <2>2, <3>1 DEF NumberRead
    <3>3. m = m0 /\ ~ Holds(kind, m)
      BY <1>12, <3>2 DEF m, Signed
    <3>4. m0 >= Word
      <4> PICK W \in Nat : W = Word /\ W > 0
        BY ByteBelowWord
      <4> QED
        BY <1>5, <2>2, <3>3 DEF Holds
    <3>5. Unnoticed(m0, base)
      BY <1>2, <1>3, <1>4, <3>2, <3>4, UnnoticedNumber
    <3> QED
      BY <1>2, <3>3, <3>5
  <2>3. CASE n.ok /\ ~ unsigned /\ Holds("int", m)
    <3>1. n.value = m /\ n.next = d /\ ~ Holds(kind, m)
      BY <1>6, <1>9, <1>12, <2>3 DEF core
    <3>2. r = Nothing(n.next)
      BY <2>3, <3>1 DEF AfterDigits
    <3> QED
      BY <3>1, <3>2 DEF Nothing, Result
  <2> QED
    BY <2>1, <2>2, <2>3
<1> QED
  BY <1>11, <1>12

(* What ReadInt looks at: the input, cut off behind the width.             *)
IsCut(s, i, width) ==
  /\ IsText(s) /\ i \in Places(s)
  /\ IF width = NoWidth THEN s = input
     ELSE /\ s = SubSeq(input, 1, i + width - 1)
          /\ Len(s) = i + width - 1 /\ Len(s) <= Len(input)

(* What it answers: nothing if the prefix is missing, or what it makes of  *)
(* the digits.                                                             *)
Answers(kind, specs, s, i, r) ==
  \/ /\ r = Nothing(i)
     /\ \A g, base, p : ~ Opens(s, i, specs, g, base, p)
  \/ \E g, base, p : /\ Opens(s, i, specs, g, base, p) /\ p \in Places(s)
                     /\ base \in {2, 8, 10, 16}
                     /\ \E n \in ParseNumber(kind, s, p, base,
                                            Negative(s, i)) :
                          r = AfterDigits(kind, n, i, specs)

(* ReadInt fails at once if the input is shorter than the width; otherwise *)
(* it reads what it has cut off.                                           *)
LEMMA ReadIntAnswers ==
  ASSUME IsText(input), NEW i \in Places(input), NEW kind, NEW specs,
         specs.width \in Nat \cup {NoWidth},
         specs.type \in {"none", "b", "d", "o", "x"},
         NEW r \in ReadInt(kind, specs, i)
  PROVE  \/ /\ specs.width # NoWidth /\ i + specs.width > Len(input) + 1
            /\ r = Nothing(i)
         \/ \E s : IsCut(s, i, specs.width) /\ Answers(kind, specs, s, i, r)
<1> DEFINE end == Len(input) + 1
           bounded == specs.width # NoWidth
           e == i + specs.width - 1
           s == IF bounded /\ i + specs.width <= Len(input) + 1
                  THEN SubSeq(input, 1, i + specs.width - 1) ELSE input
           g == SignEnd(s, i)
           base == Base(s, g, specs)
           prefixed == specs.alternate /\ base # 10
           p == IF prefixed THEN g + PrefixSize(base) ELSE g
<1>1. Len(input) \in Nat /\ i \in 1..end /\ i \in Nat
  BY CharOfText DEF Places
<1>2. CASE bounded /\ i + specs.width > Len(input) + 1
  BY <1>2 DEF ReadInt
<1>3. CASE ~ (bounded /\ i + specs.width > Len(input) + 1)
  <2>1. IF prefixed /\ ~ AlternateOk(s, g, base) THEN r = Nothing(i)
        ELSE \E n \in ParseNumber(kind, s, p, base, Negative(s, i)) :
               r = AfterDigits(kind, n, i, specs)
    BY <1>3 DEF ReadInt
  <2>2. s = IF bounded THEN SubSeq(input, 1, e) ELSE input
    BY <1>1, <1>3 DEF NoWidth
  <2>3. bounded => e \in Nat /\ e <= Len(input) /\ i <= e + 1
    BY <1>1, <1>3 DEF NoWidth
  <2> HIDE DEF s, e
  <2>4. IsCut(s, i, specs.width)
    <3>1. CASE bounded
      <4> DEFINE first == 1
      <4>1. /\ first \in Int /\ 1 <= first /\ first <= e + 1
            /\ e - first + 1 = e /\ e \in Int
        BY <2>3, <3>1
      <4>2. s = SubSeq(input, first, e)
        BY <2>2, <3>1
      <4> HIDE DEF first
      <4>3. IsText(s) /\ Len(s) = e
        BY <2>3, <3>1, <4>1, <4>2, CutOf
      <4>4. i \in Places(s) /\ s = SubSeq(input, 1, e) /\ Len(s) <= Len(input)
        BY <1>1, <2>2, <2>3, <3>1, <4>3 DEF Places
      <4> QED
        BY <3>1, <4>3, <4>4 DEF IsCut, e
    <3>2. CASE ~ bounded
      BY <2>2, <3>2 DEF IsCut
    <3> QED
      BY <3>1, <3>2
  <2>5. IsText(s) /\ i \in Places(s)
    BY <2>4 DEF IsCut
  <2>6. base \in {2, 8, 10, 16}
    BY BaseIsKnown
  <2>7. g \in i..(Len(s) + 1) /\ Len(s) \in Nat /\ g \in Places(s)
    <3>1. g \in i..(Len(s) + 1) /\ Len(s) \in Nat
      BY <2>5, SignEnds, CharOfText DEF Places
    <3> QED
      BY <1>1, <3>1 DEF Places
  <2> HIDE DEF g, base
  <2>8. CASE prefixed /\ ~ AlternateOk(s, g, base)
    <3>1. r = Nothing(i)
      BY <2>1, <2>8
    <3>2. \A h, b, q : ~ Opens(s, i, specs, h, b, q)
      BY <2>8 DEF Opens, g, base
    <3> QED
      BY <2>4, <3>1, <3>2 DEF Answers
  <2>9. CASE ~ (prefixed /\ ~ AlternateOk(s, g, base))
    <3>1. p \in Places(s)
      <4>1. CASE prefixed
        <5>1. base \in {2, 8, 16} /\ p = g + PrefixSize(base)
          BY <2>6, <4>1
        <5>2. g + PrefixSize(base) \in g..(Len(s) + 1)
          BY <2>5, <2>7, <2>9, <4>1, <5>1, PrefixEnds
        <5>3. p \in g..(Len(s) + 1)
          BY <5>1, <5>2
        <5> HIDE DEF p
        <5> QED
          BY <1>1, <2>7, <5>3 DEF Places
      <4>2. CASE ~ prefixed
        BY <2>7, <4>2
      <4> QED
        BY <4>1, <4>2
    <3>2. Opens(s, i, specs, g, base, p)
      BY <2>9 DEF Opens, g, base
    <3>3. \E n \in ParseNumber(kind, s, p, base, Negative(s, i)) :
            r = AfterDigits(kind, n, i, specs)
      BY <2>1, <2>9
    <3> HIDE DEF p
    <3> QED
      BY <2>4, <2>6, <3>1, <3>2, <3>3 DEF Answers
  <2> QED
    BY <2>8, <2>9
<1> QED
  BY <1>2, <1>3

(* The first character of a part.                                          *)
LEMMA FirstOfCut ==
  ASSUME NEW s, IsText(s), NEW i \in 1..Len(s), NEW d \in Nat, i < d,
         d <= Len(s) + 1
  PROVE  SubSeq(s, i, d - 1)[1] = s[i]
<1> DEFINE b == d - 1
           u == SubSeq(s, i, b)
<1>1. /\ Len(s) \in Nat /\ i \in Int /\ b \in Int /\ 1 <= i /\ i <= b + 1
      /\ b <= Len(s) /\ i + 1 - 1 = i /\ 1 \in 1..(b - i + 1)
  BY DEF IsText
<1> HIDE DEF b
<1>2. \A x \in 1..(b - i + 1) : u[x] = s[i + x - 1]
  BY <1>1, CutOf
<1>3. u[1] = s[i + 1 - 1]
  BY <1>1, <1>2
<1> QED
  BY <1>1, <1>3 DEF b

(* In front of the cut it is the input.                                    *)
LEMMA CutIsInput ==
  ASSUME IsText(input), NEW s, NEW i \in Places(input),
         NEW width \in Nat \cup {NoWidth}, IsCut(s, i, width),
         NEW d \in Nat, i < d, d <= Len(s) + 1
  PROVE  SubSeq(s, i, d - 1) = SubSeq(input, i, d - 1)
<1>1. Len(input) \in Nat /\ i \in Nat /\ 1 <= i
  BY CharOfText DEF Places
<1>2. CASE width # NoWidth
  <2> DEFINE e == i + width - 1
             b == d - 1
  <2>1. /\ s = SubSeq(input, 1, e) /\ Len(s) = e /\ e <= Len(input)
    BY <1>2 DEF IsCut
  <2>2. e \in Nat /\ b \in Nat /\ i <= b /\ b <= e
    BY <1>1, <1>2, <2>1 DEF NoWidth
  <2> HIDE DEF b, e
  <2>3. SubSeq(SubSeq(input, 1, e), i, b) = SubSeq(input, i, b)
    BY <1>1, <2>1, <2>2, FirstOfPart
  <2> QED
    BY <2>1, <2>3 DEF b
<1>3. CASE width = NoWidth
  BY <1>3 DEF IsCut
<1> QED
  BY <1>2, <1>3

(* An integer that the specs allow stands in s from i up to j.             *)
Legal(specs, s, i, j) == IntegersOf(specs, SubSeq(s, i, j - 1)) # {}

(* What reading s comes to: nothing of the length demanded is an integer,  *)
(* or the longest of those that are is delivered.                          *)
Comes(kind, specs, s, i, r) ==
  \/ /\ ~ r.ok /\ r.next = i
     /\ \A j \in i..(Len(s) + 1) :
          Legal(specs, s, i, j) /\ (specs.width # NoWidth => j = Len(s) + 1)
            => LoneZero(s, i, j, specs)
  \/ \E d \in (i + 1)..(Len(s) + 1) :
       /\ specs.width # NoWidth => d = Len(s) + 1
       /\ \A j \in i..(Len(s) + 1) :
            Legal(specs, s, i, j) => j <= d \/ LoneZero(s, i, j, specs)
       /\ \E m \in IntegersOf(specs, SubSeq(s, i, d - 1)) :
            Delivers(kind, m, Negative(s, i), r, i, d)

(* This is what reading the cut comes to.                                  *)
LEMMA AnswersCome ==
  ASSUME NEW s, IsText(s), NEW i \in Places(s), NEW kind \in ScannedInt,
         NEW specs, specs.type \in {"none", "b", "d", "o", "x"},
         specs.width \in Nat \cup {NoWidth},
         specs.width # NoWidth => Len(s) = i + specs.width - 1,
         NEW r, Answers(kind, specs, s, i, r)
  PROVE  Comes(kind, specs, s, i, r)
<1>1. Len(s) \in Nat /\ i \in Nat
  BY CharOfText DEF Places
<1>2. Nothing(i).next = i /\ ~ Nothing(i).ok
  BY DEF Nothing, Result
<1>3. CASE r = Nothing(i) /\ \A g, base, p : ~ Opens(s, i, specs, g, base, p)
  <2>1. ASSUME NEW j \in i..(Len(s) + 1), Legal(specs, s, i, j)
        PROVE  LoneZero(s, i, j, specs)
    BY <1>3, <2>1, LegalIsRead DEF Legal
  <2> QED
    BY <1>2, <1>3, <2>1 DEF Comes
<1>4. ASSUME NEW g, NEW base \in {2, 8, 10, 16}, NEW p \in Places(s),
             Opens(s, i, specs, g, base, p),
             NEW n \in ParseNumber(kind, s, p, base, Negative(s, i)),
             r = AfterDigits(kind, n, i, specs)
      PROVE  Comes(kind, specs, s, i, r)
  <2> DEFINE d == DigitsEnd(s, base)[p]
             bounded == specs.width # NoWidth
  <2>1. ASSUME NEW j \in i..(Len(s) + 1), Legal(specs, s, i, j),
               ~ LoneZero(s, i, j, specs)
        PROVE  IsNumeral(s, i, specs, g, base, p, d) /\ j <= d
    <3>1. PICK h, b, q, e : /\ Opens(s, i, specs, h, b, q)
                            /\ IsNumeral(s, i, specs, h, b, q, e)
                            /\ j <= e /\ e <= Len(s) + 1
      BY <2>1, LegalIsRead DEF Legal
    <3>2. h = g /\ b = base
      BY <1>4, <3>1 DEF Opens
    <3>3. q = p
      BY <1>4, <3>1, <3>2 DEF Opens
    <3>4. e = d
      BY <3>1, <3>2, <3>3 DEF IsNumeral
    <3> QED
      BY <3>1, <3>2, <3>3, <3>4
  <2>2. n.ok => n.next = d /\ p < d
    BY <1>4, NumberOfDigitsRead
  <2>3. n.ok => IsNumeral(s, i, specs, g, base, p, d)
    BY <1>4, <2>2 DEF Opens, IsNumeral
  <2> HIDE DEF d
  <2>4. CASE /\ IsNumeral(s, i, specs, g, base, p, d)
             /\ bounded => d = Len(s) + 1
    <3>1. d \in (i + 1)..(Len(s) + 1)
      <4>1. /\ i \in Nat /\ g \in Nat /\ p \in Nat /\ d \in Nat
            /\ i <= g /\ g <= p /\ p < d /\ d <= Len(s) + 1
        BY <2>4, NumeralParts
      <4> QED
        BY <1>1, <4>1
    <3>2. bounded => d = i + specs.width
      BY <1>1, <2>4 DEF NoWidth
    <3>3. \E m \in IntegersOf(specs, SubSeq(s, i, d - 1)) :
            Delivers(kind, m, Negative(s, i), r, i, d)
      BY <1>4, <2>4, <3>2, NumberDelivered
    <3>4. \A j \in i..(Len(s) + 1) :
            Legal(specs, s, i, j) => j <= d \/ LoneZero(s, i, j, specs)
      BY <2>1
    <3> QED
      BY <2>4, <3>1, <3>3, <3>4 DEF Comes
  <2>5. CASE ~ (/\ IsNumeral(s, i, specs, g, base, p, d)
                /\ bounded => d = Len(s) + 1)
    <3>1. bounded => Len(s) + 1 = i + specs.width
      BY <1>1 DEF NoWidth
    <3>2. n.ok => bounded /\ n.next # i + specs.width
      BY <2>2, <2>3, <2>5, <3>1
    <3>3. ~ r.ok /\ r.next = i
      BY <1>2, <1>4, <3>2 DEF AfterDigits, Result
    <3>4. ASSUME NEW j \in i..(Len(s) + 1), Legal(specs, s, i, j),
                 bounded => j = Len(s) + 1, ~ LoneZero(s, i, j, specs)
          PROVE  FALSE
      <4>1. IsNumeral(s, i, specs, g, base, p, d) /\ j <= d
        BY <2>1, <3>4
      <4>2. d \in Nat /\ d <= Len(s) + 1
        BY <4>1, NumeralParts
      <4>3. bounded => d = Len(s) + 1
        BY <1>1, <3>4, <4>1, <4>2
      <4> QED
        BY <2>5, <4>1, <4>3
    <3> QED
      BY <3>3, <3>4 DEF Comes
  <2> QED
    BY <2>4, <2>5
<1> QED
  BY <1>3, <1>4 DEF Answers

(* The value is an integer that u stands for, unless it is out of range.   *)
IntegerRead(kind, specs, u, value) ==
  \E m \in IntegersOf(specs, u) : Holds(kind, m) => value = Numeric(m)

(* No value is Unset.                                                      *)
LEMMA SomeValue ==
  ASSUME NEW c, NEW i, NEW j
  PROVE  Literal(c) # Unset /\ Numeric(c) # Unset /\ View(i, j) # Unset
<1>1. DOMAIN Unset = {"unset"}
  BY DEF Unset
<1>2. DOMAIN Literal(c) = {"char"} /\ DOMAIN Numeric(c) = {"number"}
        /\ DOMAIN View(i, j) = {"from", "next"}
  BY DEF Literal, Numeric, View
<1> QED
  BY <1>1, <1>2

(* An integer that has been read is one that the specs allow.              *)
LEMMA IntPart ==
  ASSUME IsText(input), NEW i \in Places(input), NEW kind \in ScannedInt,
         NEW specs,
         specs.width \in Nat \cup {NoWidth},
         specs.type \in {"none", "b", "d", "o", "x"},
         NEW r \in ReadInt(kind, specs, i), r.ok
  PROVE  /\ IntegerRead(kind, specs, SubSeq(input, i, r.next - 1), r.value)
         /\ specs.width # NoWidth => r.next = i + specs.width
         /\ r.value # Unset
<1>1. ~ Nothing(i).ok
  BY DEF Nothing, Result
<1>2. PICK s : IsCut(s, i, specs.width) /\ Answers(kind, specs, s, i, r)
  BY <1>1, ReadIntAnswers
<1>3. PICK g, base, p :
        /\ Opens(s, i, specs, g, base, p) /\ p \in Places(s)
        /\ base \in {2, 8, 10, 16}
        /\ \E n \in ParseNumber(kind, s, p, base, Negative(s, i)) :
             r = AfterDigits(kind, n, i, specs)
  BY <1>1, <1>2 DEF Answers
<1>4. PICK n \in ParseNumber(kind, s, p, base, Negative(s, i)) :
        r = AfterDigits(kind, n, i, specs)
  BY <1>3
<1>5. /\ n.ok /\ r.next = n.next /\ r.value = Numeric(n.value)
      /\ specs.width # NoWidth => n.next = i + specs.width
  BY <1>4 DEF AfterDigits, Nothing, Result
<1>6. IsText(s) /\ i \in Places(s)
  BY <1>2 DEF IsCut
<1>7. n.next = DigitsEnd(s, base)[p] /\ p < n.next
  BY <1>3, <1>5, <1>6, NumberOfDigitsRead
<1> DEFINE d == n.next
<1>8. IsNumeral(s, i, specs, g, base, p, d)
  BY <1>3, <1>7 DEF IsNumeral, Opens
<1>9. i < d /\ d <= Len(s) + 1 /\ d \in Nat
  <2> HIDE DEF d
  <2>1. /\ i \in Nat /\ g \in Nat /\ p \in Nat /\ d \in Nat
        /\ i <= g /\ g <= p /\ p < d /\ d <= Len(s) + 1
    BY <1>6, <1>8, NumeralParts
  <2> QED
    BY <2>1
<1> DEFINE w == SubSeq(s, p, d - 1)
           m == Signed(Negative(s, i), NumberOf(base, w))
<1>10. m \in IntegersOf(specs, SubSeq(s, i, d - 1))
  <2> HIDE DEF d
  <2> QED
    BY <1>6, <1>8, NumeralRead
<1>11. Holds(kind, m) => n.value = m
  <2>1. DigitsAt(s, base, p, n.next, w)
    BY <1>7 DEF DigitsAt
  <2>2. HasNumber(NumberOf(base, w), base, w)
    BY <1>3, <1>6, <2>1, DigitsNumber
  <2>3. Negative(s, i) \in BOOLEAN
    BY DEF Negative
  <2> HIDE DEF w, d
  <2> QED
    BY <1>3, <1>5, <1>6, <2>1, <2>2, <2>3, ParsedExactly
<1>12. SubSeq(s, i, d - 1) = SubSeq(input, i, d - 1)
  <2> HIDE DEF d
  <2> QED
    BY <1>2, <1>9, CutIsInput
<1> QED
  BY <1>5, <1>10, <1>11, <1>12, SomeValue DEF IntegerRead

(* A part of one character.                                                *)
LEMMA OneChar ==
  ASSUME NEW s, IsText(s), NEW a \in 1..Len(s)
  PROVE  SubSeq(s, a, a) = <<s[a]>>
<1>1. a \in Int /\ 1 <= a /\ a <= a + 1 /\ a <= Len(s) /\ a - a + 1 = 1
  BY DEF IsText
<1> DEFINE u == SubSeq(s, a, a)
<1>2. /\ IsText(u) /\ Len(u) = a - a + 1
      /\ \A x \in 1..(a - a + 1) : u[x] = s[a + x - 1]
  BY <1>1, CutOf
<1> HIDE DEF u
<1>3. Len(u) = 1 /\ u[1] = s[a]
  <2>1. 1 \in 1..(a - a + 1) /\ a + 1 - 1 = a
    BY <1>1
  <2> QED
    BY <1>1, <1>2, <2>1
<1>4. u = <<s[a]>>
  BY <1>2, <1>3, ShortSequences DEF IsText
<1> QED
  BY <1>4 DEF u

(* What reading the input from a on up to b makes of an argument.          *)
ValueRead(kind, specs, in, a, b, value) ==
  /\ value # Unset /\ kind \in ScannedInt \cup {"char", "string"}
  /\ kind = "char" => value = Literal(SubSeq(in, a, b - 1)[1])
  /\ kind = "string" => value = View(a, b)
  /\ kind \in ScannedInt =>
       IntegerRead(kind, specs, SubSeq(in, a, b - 1), value)

(* What a field has read is what its specs describe.                       *)
LEMMA FieldPart ==
  ASSUME IsText(input), NEW i \in Places(input), NEW kind, NEW specs, NEW f,
         specs.width \in Nat \cup {NoWidth}, specs.width # 0,
         Scans(kind, specs), NEW r \in Read(kind, specs, i, f), r.ok
  PROVE  /\ specs.width # NoWidth => r.next = i + specs.width
         /\ ValueRead(kind, specs, input, i, r.next, r.value)
<1>1. ~ Nothing(i).ok
  BY DEF Nothing, Result
<1>2. CASE kind = "char"
  <2>1. r = ReadChar(i)
    BY <1>2 DEF Read
  <2>2. r.next = i + 1 /\ r.value = Literal(input[i]) /\ i <= Len(input)
    BY <1>1, <2>1 DEF ReadChar, Result
  <2>3. specs.width <= 1
    BY <1>2 DEF Scans, ScannedInt
  <2>4. specs.width # NoWidth => specs.width = 1
    BY <2>3
  <2>5. i \in 1..Len(input) /\ r.next - 1 = i
    BY <2>2, CharOfText DEF Places
  <2>6. SubSeq(input, i, r.next - 1)[1] = input[i]
    BY <2>5, OneChar
  <2> QED
    BY <1>2, <2>2, <2>4, <2>6, SomeValue DEF ScannedInt, ValueRead
<1>3. CASE kind = "string"
  <2>1. r = ReadString(specs, i, f)
    BY <1>3 DEF Read
  <2>2. specs.width # NoWidth => r.next = i + specs.width
    BY <1>1, <2>1 DEF ReadString, Result
  <2>3. r.value = View(i, r.next)
    BY <1>1, <2>1 DEF ReadString, ReadComplex, Result
  <2> QED
    BY <1>3, <2>2, <2>3, SomeValue DEF ScannedInt, ValueRead
<1>4. CASE kind \notin {"char", "string"}
  <2>1. r \in ReadInt(kind, specs, i)
    BY <1>4 DEF Read
  <2>2. kind \in ScannedInt /\ specs.type \in {"none", "b", "d", "o", "x"}
    BY <1>4 DEF Scans
  <2>3. /\ IntegerRead(kind, specs, SubSeq(input, i, r.next - 1), r.value)
        /\ specs.width # NoWidth => r.next = i + specs.width
        /\ r.value # Unset
    BY <2>1, <2>2, IntPart
  <2> QED
    BY <1>4, <2>2, <2>3 DEF ValueRead
<1> QED
  BY <1>2, <1>3, <1>4

(* A field that fails leaves its argument alone unless it has a width.     *)
LEMMA FailureAssigns ==
  ASSUME NEW i, NEW kind, NEW specs, NEW f,
         NEW r \in Read(kind, specs, i, f), ~ r.ok, r.value # Unset
  PROVE  specs.width # NoWidth
<1>1. CASE kind = "char"
  BY <1>1 DEF Read, ReadChar, Nothing, Result
<1>2. CASE kind = "string"
  BY <1>2 DEF Read, ReadString, ReadComplex, Nothing, Result
<1>3. CASE kind \notin {"char", "string"}
  <2>1. ASSUME NEW n, r = AfterDigits(kind, n, i, specs)
        PROVE  specs.width # NoWidth
    BY <2>1 DEF AfterDigits, Nothing, Result
  <2>2. r \in ReadInt(kind, specs, i)
    BY <1>3 DEF Read
  <2>3. r = Nothing(i) \/ \E n : r = AfterDigits(kind, n, i, specs)
    BY <2>2 DEF ReadInt
  <2>4. Nothing(i).value = Unset
    BY DEF Nothing, Result
  <2> QED
    BY <2>1, <2>3, <2>4
<1> QED
  BY <1>1, <1>2, <1>3

----------------------------------------------------------------------------
(* Where the n-th of several items begins that are read from p on and end  *)
(* at the places e.                                                        *)
From(p, e, n) == IF n = 1 THEN p ELSE e[n - 1]

(* What is said of an item that has read the part of the input from a on   *)
(* in front of b, with arguments of the kinds k.                           *)
ItemRead(k, in, item, a, b) ==
  /\ a <= b
  /\ IF ~ IsArg(item) THEN SubSeq(in, a, b - 1) = <<item.char>>
     ELSE /\ item.specs.width # NoWidth =>
               Len(SubSeq(in, a, b - 1)) = item.specs.width
          /\ k[item.arg + 1] \in ScannedInt =>
               IntegersOf(item.specs, SubSeq(in, a, b - 1)) # {}

(* So it is of all items of an output.                                     *)
ItemsRead(k, in, o, e, p) ==
  \A n \in 1..Len(e) : ItemRead(k, in, o[n], From(p, e, n), e[n])

(* More items are read from where the others end.                          *)
LEMMA MoreItems ==
  ASSUME NEW k, NEW in, NEW o, NEW e, Len(e) = Len(o), NEW p,
         NEW items, NEW places, Len(places) = Len(items),
         NEW o2, Joined(o2, o, items), NEW e2, Joined(e2, e, places),
         ItemsRead(k, in, o, e, p), NEW q, q = From(p, e, Len(e) + 1),
         ItemsRead(k, in, items, places, q)
  PROVE  /\ ItemsRead(k, in, o2, e2, p)
         /\ From(p, e2, Len(e2) + 1) = From(q, places, Len(places) + 1)
<1> DEFINE m == Len(e)
           l == Len(places)
<1>1. /\ m \in Nat /\ l \in Nat /\ Len(e2) = m + l
      /\ \A x \in 1..m : e2[x] = e[x] /\ o2[x] = o[x]
      /\ \A x \in 1..l : e2[m + x] = places[x] /\ o2[m + x] = items[x]
  BY DEF Joined
<1> HIDE DEF m, l
<1>2. ASSUME NEW n \in 1..m PROVE From(p, e2, n) = From(p, e, n)
  <2>1. n # 1 => n - 1 \in 1..m
    BY <1>1
  <2> QED
    BY <1>1, <2>1 DEF From
<1>3. ASSUME NEW n \in 1..(l + 1) PROVE From(p, e2, m + n) = From(q, places, n)
  <2>1. CASE n = 1
    <3>1. m + n = m + 1 /\ (m # 0 => m \in 1..m) /\ (m + 1) - 1 = m
      BY <1>1, <2>1
    <3>2. q = From(p, e, m + 1)
      BY DEF m
    <3>3. From(p, e2, m + 1) = From(p, e, m + 1)
      BY <1>1, <3>1 DEF From
    <3> QED
      BY <2>1, <3>1, <3>2, <3>3 DEF From
  <2>2. CASE n # 1
    <3>1. n - 1 \in 1..l /\ m + n # 1 /\ (m + n) - 1 = m + (n - 1)
      BY <1>1, <2>2
    <3> QED
      BY <1>1, <2>2, <3>1 DEF From
  <2> QED
    BY <2>1, <2>2
<1>4. ASSUME NEW x \in 1..(m + l)
      PROVE  ItemRead(k, in, o2[x], From(p, e2, x), e2[x])
  <2>1. CASE x \in 1..m
    <3>1. ItemRead(k, in, o[x], From(p, e, x), e[x])
      BY <2>1 DEF ItemsRead, m
    <3> QED
      BY <1>1, <1>2, <2>1, <3>1
  <2>2. CASE x \notin 1..m
    <3> DEFINE n == x - m
    <3>1. n \in 1..l /\ n \in 1..(l + 1) /\ x = m + n
      BY <1>1, <2>2
    <3> HIDE DEF n
    <3>2. ItemRead(k, in, items[n], From(q, places, n), places[n])
      BY <3>1 DEF ItemsRead, l
    <3>3. From(p, e2, x) = From(q, places, n)
      BY <1>3, <3>1
    <3>4. e2[x] = places[n] /\ o2[x] = items[n]
      BY <1>1, <3>1
    <3> QED
      BY <3>2, <3>3, <3>4
  <2> QED
    BY <2>1, <2>2
<1>5. From(p, e2, Len(e2) + 1) = From(q, places, l + 1)
  <2>1. l + 1 \in 1..(l + 1) /\ Len(e2) + 1 = m + (l + 1)
    BY <1>1
  <2> QED
    BY <1>3, <2>1
<1> QED
  BY <1>1, <1>4, <1>5 DEF ItemsRead, l

(* Text that the input matches is read character by character.             *)
LEMMA RunRead ==
  ASSUME NEW in, IsText(in), NEW p \in Places(in), NEW run, IsSequence(run),
         Matches(in, p, run), NEW k, NEW places,
         IsSequence(places), Len(places) = Len(run),
         \A n \in 1..Len(run) : places[n] = p + n
  PROVE  /\ ItemsRead(k, in, Literals(run), places, p)
         /\ From(p, places, Len(places) + 1) = p + Len(run)
<1> DEFINE l == Len(run)
<1>1. /\ Len(in) \in Nat /\ p \in Nat /\ 1 <= p
      /\ l \in Nat /\ DOMAIN run = 1..l
  BY CharOfText, SequenceOf DEF Places, IsSequence
<1>2. p + l <= Len(in) + 1 /\ SubSeq(in, p, p + l - 1) = run
  BY DEF Matches
<1>3. ASSUME NEW n \in 1..l PROVE run[n] = in[p + n - 1]
  <2> DEFINE b == p + l - 1
  <2>1. b \in Int /\ p \in Int /\ p <= b + 1 /\ b <= Len(in)
        /\ b - p + 1 = l
    BY <1>1, <1>2
  <2>2. SubSeq(in, p, b) = run
    BY <1>2
  <2> HIDE DEF b, l
  <2>3. \A x \in 1..(b - p + 1) : SubSeq(in, p, b)[x] = in[p + x - 1]
    BY <1>1, <2>1, CutOf
  <2> QED
    BY <2>1, <2>2, <2>3
<1>4. ASSUME NEW n \in 1..(l + 1) PROVE From(p, places, n) = p + n - 1
  <2>1. CASE n = 1
    BY <1>1, <2>1 DEF From
  <2>2. CASE n # 1
    <3>1. n - 1 \in 1..l /\ p + (n - 1) = p + n - 1
      BY <1>1, <2>2
    <3> QED
      BY <2>2, <3>1 DEF From
  <2> QED
    BY <2>1, <2>2
<1>5. ASSUME NEW n \in 1..l
      PROVE  ItemRead(k, in, Literals(run)[n], From(p, places, n), places[n])
  <2> DEFINE a == p + n - 1
             b == places[n]
             x == Literals(run)[n]
  <2>1. a \in 1..Len(in) /\ p + n - 1 = a /\ b = p + n /\ b - 1 = a /\ a <= b
    BY <1>1, <1>2
  <2>2. n \in 1..(l + 1)
    BY <1>1
  <2>3. From(p, places, n) = a
    BY <1>4, <2>2
  <2>4. x = Literal(run[n]) /\ ~ IsArg(x) /\ x.char = run[n]
    BY <1>1, NoArg DEF Literals, Literal
  <2>5. run[n] = in[a]
    BY <1>3
  <2> HIDE DEF a, b, x
  <2>6. SubSeq(in, a, a) = <<in[a]>>
    BY <2>1, OneChar
  <2>7. ItemRead(k, in, x, a, b)
    BY <2>1, <2>4, <2>5, <2>6 DEF ItemRead
  <2> QED
    BY <2>3, <2>7 DEF x, b
<1>6. From(p, places, l + 1) = p + l
  <2>1. l + 1 \in 1..(l + 1) /\ p + (l + 1) - 1 = p + l
    BY <1>1
  <2> QED
    BY <1>4, <2>1
<1> QED
  BY <1>5, <1>6 DEF ItemsRead

(* What the items have read starts at pos, each part where the one before  *)
(* ends, and is what the items stand for.                                  *)
PartsKnown(ph, t, k, in, p, e, o) ==
  t = "scan" =>
    /\ ItemsRead(k, in, o, e, 1)
    /\ ph \in {"scanning", "done", "leftover"} => p = From(1, e, Len(e) + 1)
    /\ ph = "done" => p = Len(in) + 1

(* The same of the variables.                                              *)
PartsInv == PartsKnown(phase, trait, kinds, input, pos, ends, output)

(* The places at which items of one character end.                         *)
EndsOf(items, j) == [n \in DOMAIN items |-> j - Len(items) + n]

(* The places where new items end are joined to the others.                *)
LEMMA TookEnds ==
  ASSUME NEW items, IsSequence(items), IsSequence(ends), NEW j \in Int,
         Took(items, j)
  PROVE  LET places == EndsOf(items, j) IN
         /\ IsSequence(places) /\ Len(places) = Len(items)
         /\ \A n \in 1..Len(items) : places[n] = j - Len(items) + n
         /\ Joined(ends', ends, places)
         /\ pos' = j /\ output' = output \o items
<1> DEFINE n == Len(items)
           places == EndsOf(items, j)
<1>1. n \in Nat /\ DOMAIN items = 1..n
  BY SequenceOf DEF IsSequence
<1>2. ends' = ends \o places /\ pos' = j /\ output' = output \o items
  BY DEF Took, EndsOf
<1>3. \A m \in 1..n : places[m] = j - n + m
  BY <1>1 DEF EndsOf
<1>4. IsSequence(places) /\ Len(places) = n
  <2>1. DOMAIN places = 1..n /\ places = [m \in 1..n |-> places[m]]
    BY <1>1 DEF EndsOf
  <2> HIDE DEF places
  <2>2. places \in [1..n -> Range(places)]
    BY <2>1 DEF Range
  <2>3. places \in Seq(Range(places)) /\ Len(places) = n
    BY <1>1, <2>1, <2>2
  <2> QED
    BY <2>3 DEF IsSequence
<1> HIDE DEF places
<1>5. Joined(ends \o places, ends, places)
  BY <1>4, Joining
<1> QED
  BY <1>2, <1>3, <1>4, <1>5 DEF places

(* No items.                                                               *)
LEMMA NothingRead ==
  ASSUME NEW k, NEW in, NEW o, NEW e, Len(e) = 0, NEW p
  PROVE  ItemsRead(k, in, o, e, p) /\ From(p, e, Len(e) + 1) = p
  BY DEF ItemsRead, From

(* It holds initially.                                                     *)
LEMMA PartsInit == ASSUME WithoutTuples, Init PROVE PartsInv
<1>1. phase \in {"plain", "validating"} /\ Len(ends) = 0
  BY DEF Init, FormatInit
<1> QED
  BY <1>1, NothingRead DEF PartsInv, PartsKnown

(* Reading and checking the string, and formatting.                        *)
LEMMA PartsFormat ==
  ASSUME ParserInv, TypedInv, PartsInv, FormatNext, UNCHANGED scanVars
  PROVE  PartsInv'
<1>1. CASE Begin
  <2>1. /\ phase = "validated" /\ phase' \in {"scanning", "formatting"}
        /\ trait' = trait /\ output' = output /\ pos' = pos /\ ends' = ends
    BY <1>1 DEF Begin, Continue, scanVars
  <2>2. trait = "scan" => Len(ends) = 0 /\ pos = 1
    BY <2>1 DEF ParserInv, Consistent, TypedInv, Typed
  <2>3. PartsKnown(phase', trait, kinds', input', pos, ends, output)
    BY <2>1, <2>2, NothingRead DEF PartsKnown
  <2> QED
    BY <2>1, <2>3 DEF PartsInv
<1>2. CASE \/ ValidateText \/ ValidateField \/ Terminate \/ RejectText
           \/ RejectField \/ RejectSpecs \/ AskMatched \/ Match
           \/ EndValidation
  <2>1. /\ trait' = trait /\ kinds' = kinds /\ output' = output
        /\ input' = input /\ pos' = pos /\ ends' = ends
        /\ phase' \notin {"scanning", "done", "leftover"}
    BY <1>2 DEF ValidateText, ValidateField, Terminate, RejectText,
         RejectField, RejectSpecs, AskMatched, Match, EndValidation, Continue,
         stringVars, scanVars
  <2> QED
    BY <2>1 DEF PartsInv, PartsKnown
<1>3. CASE WritePlain \/ FormatText \/ FormatField \/ EndFormat
  <2>1. trait' = "format"
    BY <1>3 DEF WritePlain, FormatText, FormatField, EndFormat, Continue,
         ParserInv, Consistent
  <2> QED
    BY <2>1 DEF PartsInv, PartsKnown
<1> QED
  BY <1>1, <1>2, <1>3 DEF FormatNext

(* Items that are read behind the others.                                  *)
LEMMA PartsGrow ==
  ASSUME ParserInv, NEW in, NEW items, IsSequence(items),
         NEW j \in Int, Took(items, j), IsSequence(ends),
         Len(ends) = Len(output), ItemsRead(kinds, in, output, ends, 1),
         pos = From(1, ends, Len(ends) + 1),
         ItemsRead(kinds, in, items, EndsOf(items, j), pos),
         From(pos, EndsOf(items, j), Len(items) + 1) = j
  PROVE  /\ ItemsRead(kinds, in, output', ends', 1)
         /\ pos' = From(1, ends', Len(ends') + 1) /\ pos' = j
<1> DEFINE places == EndsOf(items, j)
           o2 == output'
           e2 == ends'
<1>1. /\ IsSequence(places) /\ Len(places) = Len(items)
      /\ Joined(e2, ends, places) /\ pos' = j /\ o2 = output \o items
  BY TookEnds
<1>2. Joined(o2, output, items)
  <2>1. IsSequence(output)
    BY DEF ParserInv, Consistent
  <2> HIDE DEF o2
  <2> QED
    BY <1>1, <2>1, Joining
<1> HIDE DEF places, o2, e2
<1>3. ItemsRead(kinds, in, items, places, pos)
        /\ From(pos, places, Len(places) + 1) = j
  BY <1>1 DEF places
<1>4. /\ ItemsRead(kinds, in, o2, e2, 1)
      /\ From(1, e2, Len(e2) + 1) = From(pos, places, Len(places) + 1)
  BY <1>1, <1>2, <1>3, MoreItems
<1> QED
  BY <1>1, <1>3, <1>4 DEF o2, e2

(* A plain string has been matched.                                        *)
LEMMA PartsPlain ==
  ASSUME ParserInv, TypedInv, PartsInv, ScanPlain PROVE PartsInv'
<1> DEFINE u == Literals(text)
           j == Len(text) + 1
<1>1. /\ phase = "plain" /\ trait = "scan"
      /\ trait' = trait /\ kinds' = kinds /\ input' \in Input
      /\ \/ /\ Matches(input', 1, text) /\ Took(u, j)
            /\ phase' = Finished(input', j)
         \/ /\ pos' = pos /\ output' = output /\ ends' = ends
            /\ phase' = "failed"
  BY DEF ScanPlain, Continue, Literals, TookNothing
<1>2. output = <<>> /\ pos = 1 /\ Len(ends) = 0 /\ IsSequence(ends)
        /\ Len(ends) = Len(output)
  BY <1>1 DEF ParserInv, Consistent, TypedInv, Typed
<1>3. IsText(text) /\ Len(text) \in Nat /\ IsSequence(text)
  BY CharOfText, SequenceOf DEF ParserInv, Consistent, Places, IsText
<1>4. IsSequence(u) /\ Len(u) = Len(text) /\ j \in Int /\ DOMAIN u = 1..Len(u)
  BY <1>3, LiteralsOf, SequenceOf DEF IsSequence
<1>5. CASE Matches(input', 1, text) /\ Took(u, j)
           /\ phase' = Finished(input', j)
  <2> DEFINE in == input'
             places == EndsOf(u, j)
  <2>1. IsText(in) /\ 1 \in Places(in) /\ Matches(in, 1, text)
    <3>1. IsText(in)
      BY <1>1, InputAssumption DEF IsText
    <3> HIDE DEF in
    <3>2. 1 \in Places(in)
      BY <3>1, CharOfText DEF Places
    <3> QED
      BY <1>5, <3>1, <3>2 DEF in
  <2>2. /\ IsSequence(places) /\ Len(places) = Len(u)
        /\ \A n \in 1..Len(u) : places[n] = j - Len(u) + n
    BY <1>2, <1>4, <1>5, TookEnds
  <2> HIDE DEF places, in, u
  <2>3. \A n \in 1..Len(text) : places[n] = 1 + n
    BY <1>3, <1>4, <2>2
  <2>4. /\ ItemsRead(kinds, in, Literals(text), places, 1)
        /\ From(1, places, Len(places) + 1) = 1 + Len(text)
    BY <1>3, <1>4, <2>1, <2>2, <2>3, RunRead
  <2>5. ItemsRead(kinds, in, u, places, pos)
        /\ From(pos, places, Len(u) + 1) = j
    BY <1>2, <1>3, <2>2, <2>4 DEF u
  <2>6. ItemsRead(kinds, in, output, ends, 1)
        /\ pos = From(1, ends, Len(ends) + 1)
    BY <1>2, NothingRead
  <2>7. /\ ItemsRead(kinds, in, output', ends', 1)
        /\ pos' = From(1, ends', Len(ends') + 1) /\ pos' = j
    BY <1>2, <1>4, <1>5, <2>5, <2>6, PartsGrow DEF places
  <2>8. phase' = "done" => j = Len(in) + 1
    BY <1>5 DEF Finished, in
  <2> QED
    BY <1>1, <2>7, <2>8 DEF PartsInv, PartsKnown, in
<1>6. CASE pos' = pos /\ output' = output /\ ends' = ends
           /\ phase' = "failed"
  BY <1>2, <1>6, NothingRead DEF PartsInv, PartsKnown
<1> QED
  BY <1>1, <1>5, <1>6

(* A run of text has been matched.                                         *)
LEMMA PartsRun ==
  ASSUME ParserInv, TypedInv, PartsInv, ScanText PROVE PartsInv'
<1> DEFINE run == Run(text, at)
           u == Literals(run)
           j == pos + Len(run)
           n == ArgsIn(output, Len(output))
<1>1. /\ phase = "scanning" /\ trait' = trait /\ kinds' = kinds
      /\ input' = input /\ TextAt(text, at)
      /\ \/ /\ Matches(input, pos, run) /\ Took(u, j)
            /\ phase' \in {"scanning", "undefined"}
         \/ /\ pos' = pos /\ output' = output /\ ends' = ends
            /\ phase' = "failed"
  BY Seen DEF ScanText, Continue, Literals, TookNothing
<1>2. /\ IsText(text) /\ at \in Places(text) /\ auto \in Nat
      /\ trait = "scan" /\ Passed(trait, text, kinds, fields, at, auto, n)
  BY <1>1 DEF ParserInv, Consistent
<1>3. n \in Nat
  BY SequenceOf, ArgsAreNat DEF ParserInv, Consistent, IsSequence
<1>4. IsSequence(run)
  BY <1>1, <1>2, <1>3, RunPassed
<1> HIDE DEF run, n
<1>5. /\ IsText(input) /\ pos \in Places(input) /\ pos \in Int
      /\ IsSequence(ends) /\ Len(ends) = Len(output)
      /\ ItemsRead(kinds, input, output, ends, 1)
      /\ pos = From(1, ends, Len(ends) + 1)
  BY <1>1, <1>2, InputIsText
     DEF TypedInv, Typed, PartsInv, PartsKnown, Places
<1>6. IsSequence(u) /\ Len(u) = Len(run) /\ Len(run) \in Nat /\ j \in Int
  BY <1>4, <1>5, LiteralsOf, SequenceOf DEF IsSequence
<1>7. CASE Matches(input, pos, run) /\ Took(u, j)
           /\ phase' \in {"scanning", "undefined"}
  <2> DEFINE places == EndsOf(u, j)
  <2>1. /\ IsSequence(places) /\ Len(places) = Len(u)
        /\ \A m \in 1..Len(u) : places[m] = j - Len(u) + m
    BY <1>5, <1>6, <1>7, TookEnds
  <2> HIDE DEF places, u
  <2>2. \A m \in 1..Len(run) : places[m] = pos + m
    BY <1>5, <1>6, <2>1
  <2>3. /\ ItemsRead(kinds, input, Literals(run), places, pos)
        /\ From(pos, places, Len(places) + 1) = pos + Len(run)
    BY <1>4, <1>5, <1>6, <1>7, <2>1, <2>2, RunRead
  <2>4. ItemsRead(kinds, input, u, places, pos)
        /\ From(pos, places, Len(u) + 1) = j
    BY <2>1, <2>3 DEF u
  <2> HIDE DEF j
  <2>5. /\ ItemsRead(kinds, input, output', ends', 1)
        /\ pos' = From(1, ends', Len(ends') + 1) /\ pos' = j
    BY <1>5, <1>6, <1>7, <2>4, PartsGrow DEF places
  <2> QED
    BY <1>1, <1>7, <2>5 DEF PartsInv, PartsKnown
<1>8. CASE pos' = pos /\ output' = output /\ ends' = ends
           /\ phase' = "failed"
  BY <1>1, <1>5, <1>8 DEF PartsInv, PartsKnown
<1> QED
  BY <1>1, <1>7, <1>8

(* A field has been read.                                                  *)
LEMMA PartsField ==
  ASSUME ParserInv, TypedInv, PartsInv, ScanField PROVE PartsInv'
<1> DEFINE p == ParseScanSpecs(text, UncheckedSpecsAt)
           kind == kinds[Arg + 1]
           x == Field(Arg, p.specs)
           u == <<x>>
<1>1. phase = "scanning" /\ trait = "scan" /\ AtField /\ ~ AtSentinel
  BY DEF ScanField, ParserInv, Consistent
<1>2. /\ Unchecked(p) /\ Scans(kind, p.specs)
      /\ p.specs.width \in (Nat \ {0}) \cup {NoWidth}
  BY <1>1, ScanSpecsSeen
<1>3. PICK r \in Read(kind, p.specs, pos, p.at) :
        \/ r.ok /\ phase' = "scanning" /\ Took(u, r.next)
        \/ phase' = "failed" /\ output' = output /\ ends' = ends
  BY <1>1, <1>2 DEF ScanField, Continue
<1>4. trait' = trait /\ kinds' = kinds /\ input' = input
  BY <1>1, <1>2 DEF ScanField, Continue
<1>5. /\ IsText(input) /\ pos \in Places(input) /\ pos \in Nat /\ 1 <= pos
      /\ IsSequence(ends) /\ Len(ends) = Len(output) /\ Len(input) \in Nat
      /\ ItemsRead(kinds, input, output, ends, 1)
      /\ pos = From(1, ends, Len(ends) + 1)
  BY <1>1, InputIsText, CharOfText
     DEF TypedInv, Typed, PartsInv, PartsKnown, Places
<1>6. x.arg = Arg /\ x.specs = p.specs /\ IsArg(x)
  BY FieldIsArg DEF Field
<1> DEFINE specs == p.specs
           f == p.at
<1>7. /\ specs.width \in Nat \cup {NoWidth} /\ specs.width # 0
      /\ Scans(kind, specs) /\ r \in Read(kind, specs, pos, f)
  BY <1>2 DEF NoWidth
<1>8. x.specs = specs /\ kinds[x.arg + 1] = kind
  BY <1>6
<1> HIDE DEF p, kind, x, specs, f
<1>9. CASE r.ok /\ phase' = "scanning" /\ Took(u, r.next)
  <2> DEFINE j == r.next
             places == EndsOf(u, j)
  <2>1. j \in pos..(Len(input) + 1)
    BY <1>5, <1>7, ReadIsInside
  <2>2. /\ specs.width # NoWidth => j = pos + specs.width
        /\ kind \in ScannedInt =>
             IntegersOf(specs, SubSeq(input, pos, j - 1)) # {}
    <3>1. /\ specs.width # NoWidth => j = pos + specs.width
          /\ ValueRead(kind, specs, input, pos, j, r.value)
      BY <1>5, <1>7, <1>9, FieldPart
    <3> QED
      BY <3>1 DEF ValueRead, IntegerRead
  <2>3. IsSequence(u) /\ Len(u) = 1 /\ u[1] = x
    BY OneIsSequence
  <2> HIDE DEF j, u
  <2>4. j \in Int /\ pos <= j /\ j - 1 + 1 = j
    BY <1>5, <2>1
  <2>5. Took(u, j)
    BY <1>9 DEF j
  <2>6. /\ IsSequence(places) /\ Len(places) = Len(u)
        /\ \A m \in 1..Len(u) : places[m] = j - Len(u) + m
    BY <1>5, <2>3, <2>4, <2>5, TookEnds
  <2> HIDE DEF places
  <2>7. Len(places) = 1 /\ places[1] = j
    <3>1. 1 \in 1..Len(u)
      BY <2>3
    <3>2. places[1] = j - Len(u) + 1
      BY <2>6, <3>1
    <3> QED
      BY <2>3, <2>4, <2>6, <3>2
  <2>8. Len(SubSeq(input, pos, j - 1)) = j - pos
    <3> DEFINE b == j - 1
    <3>1. b \in Int /\ pos \in Int /\ pos <= b + 1 /\ b <= Len(input)
          /\ b - pos + 1 = j - pos
      BY <1>5, <2>1
    <3> HIDE DEF b
    <3>2. Len(SubSeq(input, pos, b)) = b - pos + 1
      BY <1>5, <3>1, CutOf
    <3> QED
      BY <3>1, <3>2 DEF b
  <2>9. specs.width # NoWidth => Len(SubSeq(input, pos, j - 1)) = specs.width
    <3> SUFFICES ASSUME specs.width # NoWidth PROVE j - pos = specs.width
      BY <2>8
    <3>1. specs.width \in Nat /\ j = pos + specs.width
      BY <1>7, <2>2
    <3> QED
      BY <1>5, <3>1
  <2>10. ItemRead(kinds, input, x, pos, j)
    BY <1>6, <1>8, <2>2, <2>4, <2>9 DEF ItemRead
  <2>11. ItemsRead(kinds, input, u, places, pos)
    <3>1. \A m \in 1..Len(places) : m = 1
      BY <2>7
    <3>2. From(pos, places, 1) = pos
      BY DEF From
    <3> QED
      BY <2>3, <2>7, <2>10, <3>1, <3>2 DEF ItemsRead
  <2>12. From(pos, places, Len(u) + 1) = j
    BY <2>3, <2>7 DEF From
  <2>13. /\ ItemsRead(kinds, input, output', ends', 1)
         /\ pos' = From(1, ends', Len(ends') + 1) /\ pos' = j
    BY <1>5, <2>3, <2>4, <2>5, <2>11, <2>12, PartsGrow DEF places
  <2> QED
    BY <1>4, <1>9, <2>13 DEF PartsInv, PartsKnown
<1>10. CASE phase' = "failed" /\ output' = output /\ ends' = ends
  BY <1>4, <1>5, <1>10 DEF PartsInv, PartsKnown
<1> QED
  BY <1>3, <1>9, <1>10

(* The end of scanning.                                                    *)
LEMMA PartsEnd == ASSUME ParserInv, TypedInv, PartsInv, EndScan PROVE PartsInv'
<1>1. /\ phase = "scanning" /\ phase' = Finished(input, pos)
      /\ UNCHANGED <<trait, kinds, output, input, pos, ends>>
  BY DEF EndScan, Continue, TookNothing, scanVars
<1>2. phase' \in {"done", "leftover"}
        /\ (phase' = "done" => pos = Len(input) + 1)
  BY <1>1 DEF Finished
<1> QED
  BY <1>1, <1>2 DEF PartsInv, PartsKnown

(* Every step keeps it.                                                    *)
LEMMA PartsStep ==
  ParserInv /\ TypedInv /\ PartsInv /\ [Next]_vars => PartsInv'
<1> SUFFICES ASSUME ParserInv, TypedInv, PartsInv, [Next]_vars PROVE PartsInv'
  OBVIOUS
<1>1. CASE FormatNext /\ UNCHANGED scanVars
  BY <1>1, PartsFormat
<1>2. CASE ScanPlain \/ ScanText \/ ScanField \/ EndScan
  BY <1>2, PartsPlain, PartsRun, PartsField, PartsEnd
<1>3. CASE UNCHANGED vars
  BY <1>3 DEF vars, formatVars, stringVars, scanVars, PartsInv
<1> QED
  BY <1>1, <1>2, <1>3 DEF Next

(* The parts that the items of a scan have read make up the input as far   *)
(* as it has been read, and all of it if the scan succeeds; text is read   *)
(* as it is, a width demands as many characters, and an integer field has  *)
(* read a numeral of the notation that its specs ask for (read_arg, parse, *)
(* vscan_from).                                                            *)
THEOREM PartsOfInputAlways ==
  ASSUME WithoutTuples PROVE Spec => []PartsOfInput
<1>1. ParserInv /\ TypedInv /\ PartsInv => PartsOfInput
  <2> SUFFICES ASSUME ParserInv, TypedInv, PartsInv, trait = "scan"
               PROVE  PartsOfInput
    BY DEF PartsOfInput
  <2>1. DOMAIN ends = 1..Len(ends)
    BY SequenceOf DEF TypedInv, Typed, IsSequence
  <2>2. \A i : Start(i) = From(1, ends, i)
    BY DEF Start, From
  <2>3. \A i \in 1..Len(ends) :
          ItemRead(kinds, input, output[i], Start(i), ends[i])
    BY <2>2 DEF PartsInv, PartsKnown, ItemsRead
  <2>4. /\ phase \in {"scanning", "done", "leftover"} =>
             pos = Start(Len(ends) + 1)
        /\ phase = "done" => pos = Len(input) + 1
    BY <2>2 DEF PartsInv, PartsKnown
  <2> QED
    BY <2>1, <2>3, <2>4 DEF PartsOfInput, ItemRead, Part
<1>2. Init => ParserInv /\ TypedInv /\ PartsInv
  BY ParserInit, TypedInit, PartsInit
<1> QED
  BY <1>1, <1>2, ParserStep, TypedStep, PartsStep, PTL DEF Spec

----------------------------------------------------------------------------
(* What the arguments hold.                                                *)

(* An item that reads the n-th argument.                                   *)
IsReader(item, n) == IsArg(item) /\ item.arg + 1 = n

(* The n-th argument is untouched, or holds what the last item that reads  *)
(* it has read.                                                            *)
HeldBy(k, in, o, e, v, n) ==
  \/ v[n] = Unset /\ \A i \in 1..Len(e) : ~ IsReader(o[i], n)
  \/ \E i \in 1..Len(e) :
       /\ IsReader(o[i], n)
       /\ \A j \in 1..Len(e) : IsReader(o[j], n) => j <= i
       /\ ValueRead(k[n], o[i].specs, in, From(1, e, i), e[i], v[n])

(* Items that do not read an argument leave it alone.                      *)
LEMMA HeldStill ==
  ASSUME NEW k, NEW in, NEW o, NEW e, Len(e) = Len(o), NEW n,
         NEW items, NEW places, Len(places) = Len(items),
         NEW o2, Joined(o2, o, items), NEW e2, Joined(e2, e, places),
         NEW v, NEW v2, v2[n] = v[n], HeldBy(k, in, o, e, v, n),
         \A x \in 1..Len(items) : ~ IsReader(items[x], n)
  PROVE  HeldBy(k, in, o2, e2, v2, n)
<1> DEFINE m == Len(e)
           l == Len(places)
<1>1. /\ m \in Nat /\ l \in Nat /\ Len(e2) = m + l
      /\ \A x \in 1..m : e2[x] = e[x] /\ o2[x] = o[x]
      /\ \A x \in 1..l : o2[m + x] = items[x]
  BY DEF Joined
<1> HIDE DEF m, l
<1>2. ASSUME NEW x \in 1..(m + l), IsReader(o2[x], n)
      PROVE  x \in 1..m /\ IsReader(o[x], n)
  <2>1. CASE x \in 1..m
    BY <1>1, <1>2, <2>1
  <2>2. CASE x \notin 1..m
    <3>1. x - m \in 1..l /\ x = m + (x - m)
      BY <1>1, <2>2
    <3>2. ~ IsReader(o2[m + (x - m)], n)
      BY <1>1, <3>1 DEF l
    <3> QED
      BY <1>2, <3>1, <3>2
  <2> QED
    BY <2>1, <2>2
<1>3. CASE v[n] = Unset /\ \A x \in 1..m : ~ IsReader(o[x], n)
  BY <1>1, <1>2, <1>3 DEF HeldBy
<1>4. CASE \E x \in 1..m :
             /\ IsReader(o[x], n)
             /\ \A y \in 1..m : IsReader(o[y], n) => y <= x
             /\ ValueRead(k[n], o[x].specs, in, From(1, e, x), e[x], v[n])
  <2>1. PICK x \in 1..m :
             /\ IsReader(o[x], n)
             /\ \A y \in 1..m : IsReader(o[y], n) => y <= x
             /\ ValueRead(k[n], o[x].specs, in, From(1, e, x), e[x], v[n])
    BY <1>4
  <2>2. x \in 1..(m + l) /\ e2[x] = e[x] /\ o2[x] = o[x]
    BY <1>1
  <2>3. From(1, e2, x) = From(1, e, x)
    <3>1. x # 1 => x - 1 \in 1..m
      BY <1>1
    <3> QED
      BY <1>1, <3>1 DEF From
  <2>4. \A y \in 1..(m + l) : IsReader(o2[y], n) => y <= x
    BY <1>2, <2>1
  <2> QED
    BY <1>1, <2>1, <2>2, <2>3, <2>4 DEF HeldBy
<1> QED
  BY <1>3, <1>4 DEF HeldBy, m

(* An item that reads an argument determines it.                           *)
LEMMA HeldAnew ==
  ASSUME NEW k, NEW in, NEW o, NEW e, Len(e) = Len(o), NEW n, NEW x, NEW j,
         NEW items, Len(items) = 1, items[1] = x,
         NEW places, Len(places) = 1, places[1] = j,
         NEW o2, Joined(o2, o, items), NEW e2, Joined(e2, e, places),
         NEW v2, IsReader(x, n), NEW q, q = From(1, e, Len(e) + 1),
         ValueRead(k[n], x.specs, in, q, j, v2[n])
  PROVE  HeldBy(k, in, o2, e2, v2, n)
<1> DEFINE m == Len(e)
<1>1. /\ m \in Nat /\ Len(e2) = m + 1
      /\ \A y \in 1..m : e2[y] = e[y] /\ o2[y] = o[y]
      /\ e2[m + 1] = j /\ o2[m + 1] = x
  BY DEF Joined
<1>2. q = From(1, e, m + 1)
  OBVIOUS
<1> HIDE DEF m
<1>3. From(1, e2, m + 1) = q
  <2>1. m + 1 # 1 => m \in 1..m /\ (m + 1) - 1 = m
    BY <1>1
  <2> QED
    BY <1>1, <1>2, <2>1 DEF From
<1>4. m + 1 \in 1..(m + 1) /\ \A y \in 1..(m + 1) : y <= m + 1
  BY <1>1
<1> QED
  BY <1>1, <1>3, <1>4 DEF HeldBy

(* Before anything has been read, the arguments are untouched.             *)
LEMMA HeldFirst ==
  ASSUME NEW k, NEW in, NEW o, NEW e, Len(e) = 0, NEW v, NEW n
  PROVE  HeldBy(k, in, o, e, v, n) <=> v[n] = Unset
  BY DEF HeldBy

(* The field behind those that have been read failed, and has a width.     *)
FailedAt(f, o, n) ==
  LET c == ArgsIn(o, Len(o)) + 1 IN
  c <= Len(f) /\ f[c].arg + 1 = n /\ f[c].specs.width # NoWidth

(* Every argument is held by what has been read, or was assigned when the  *)
(* last field failed.                                                      *)
AssignedKnown(ph, t, k, in, o, e, v, f) ==
  t = "scan" =>
    \A n \in DOMAIN k :
      HeldBy(k, in, o, e, v, n) \/ (ph = "failed" /\ FailedAt(f, o, n))

(* The same of the variables.                                              *)
AssignedInv ==
  AssignedKnown(phase, trait, kinds, input, output, ends, values, fields)

(* It holds initially.                                                     *)
LEMMA AssignedInit == ASSUME WithoutTuples, Init PROVE AssignedInv
<1>1. Len(ends) = 0 /\ \A n \in DOMAIN kinds : values[n] = Unset
  BY DEF Init
<1>2. \A n \in DOMAIN kinds : HeldBy(kinds, input, output, ends, values, n)
  BY <1>1, HeldFirst
<1> QED
  BY <1>2 DEF AssignedInv, AssignedKnown

(* Reading and checking the string, and formatting.                        *)
LEMMA AssignedFormat ==
  ASSUME ParserInv, TypedInv, AssignedInv, FormatNext, UNCHANGED scanVars
  PROVE  AssignedInv'
<1>1. CASE Begin
  <2>1. /\ phase = "validated" /\ trait' = trait /\ kinds' = kinds
        /\ ends' = ends /\ values' = values
    BY <1>1 DEF Begin, Continue, scanVars
  <2>2. trait = "scan" => Len(ends) = 0
    BY <2>1 DEF ParserInv, Consistent, TypedInv, Typed
  <2>3. ASSUME trait = "scan", NEW n \in DOMAIN kinds
        PROVE  HeldBy(kinds, input', output', ends, values, n)
    BY <2>1, <2>2, <2>3, HeldFirst DEF AssignedInv, AssignedKnown
  <2>4. AssignedKnown(phase', trait, kinds, input', output', ends, values,
                      fields')
    BY <2>3 DEF AssignedKnown
  <2> QED
    BY <2>1, <2>4 DEF AssignedInv
<1>2. CASE \/ ValidateText \/ ValidateField \/ Terminate \/ RejectText
           \/ RejectField \/ RejectSpecs \/ AskMatched \/ Match
           \/ EndValidation
  <2>1. /\ trait' = trait /\ kinds' = kinds /\ output' = output
        /\ input' = input /\ ends' = ends /\ values' = values
        /\ phase # "failed"
    BY <1>2 DEF ValidateText, ValidateField, Terminate, RejectText,
         RejectField, RejectSpecs, AskMatched, Match, EndValidation, Continue,
         stringVars, scanVars
  <2>2. AssignedKnown(phase', trait, kinds, input, output, ends, values,
                      fields')
    BY <2>1 DEF AssignedInv, AssignedKnown
  <2> QED
    BY <2>1, <2>2 DEF AssignedInv
<1>3. CASE WritePlain \/ FormatText \/ FormatField \/ EndFormat
  <2>1. trait' = "format"
    BY <1>3 DEF WritePlain, FormatText, FormatField, EndFormat, Continue,
         ParserInv, Consistent
  <2> QED
    BY <2>1 DEF AssignedInv, AssignedKnown
<1> QED
  BY <1>1, <1>2, <1>3 DEF FormatNext

(* No item of a run of text reads an argument.                             *)
LEMMA AssignedText ==
  ASSUME ParserInv, AssignedInv, trait = "scan", phase # "failed",
         NEW u, IsSequence(u), NEW j \in Int, Took(Literals(u), j),
         IsSequence(ends), Len(ends) = Len(output), NEW in,
         in = input \/ Len(ends) = 0
  PROVE  \A n \in DOMAIN kinds :
           HeldBy(kinds, in, output', ends', values, n)
<1> DEFINE items == Literals(u)
           places == EndsOf(items, j)
           o2 == output'
           e2 == ends'
<1>1. IsSequence(items) /\ \A x \in 1..Len(items) : ~ IsArg(items[x])
  BY LiteralsOf
<1>2. /\ Len(places) = Len(items) /\ Joined(e2, ends, places)
      /\ o2 = output \o items
  BY <1>1, TookEnds
<1>3. IsSequence(output)
  BY DEF ParserInv, Consistent
<1> HIDE DEF items, places, o2, e2
<1>4. Joined(o2, output, items)
  BY <1>1, <1>2, <1>3, Joining
<1>5. ASSUME NEW n \in DOMAIN kinds
      PROVE  HeldBy(kinds, in, output, ends, values, n)
  <2>1. HeldBy(kinds, input, output, ends, values, n)
    BY <1>5 DEF AssignedInv, AssignedKnown
  <2> QED
    BY <2>1, HeldFirst
<1>6. ASSUME NEW n \in DOMAIN kinds PROVE HeldBy(kinds, in, o2, e2, values, n)
  <2>1. \A x \in 1..Len(items) : ~ IsReader(items[x], n)
    BY <1>1 DEF IsReader
  <2>2. HeldBy(kinds, in, output, ends, values, n)
    BY <1>5
  <2> QED
    BY <1>2, <1>4, <2>1, <2>2, HeldStill
<1> QED
  BY <1>6 DEF o2, e2

(* A plain string has been matched.                                        *)
LEMMA AssignedPlain ==
  ASSUME ParserInv, TypedInv, AssignedInv, ScanPlain PROVE AssignedInv'
<1> DEFINE j == Len(text) + 1
<1>1. /\ phase = "plain" /\ trait = "scan"
      /\ trait' = trait /\ kinds' = kinds /\ values' = values
      /\ \/ Took(Literals(text), j)
         \/ output' = output /\ ends' = ends
  BY DEF ScanPlain, Continue, Literals, TookNothing
<1>2. Len(ends) = 0 /\ IsSequence(ends) /\ Len(ends) = Len(output)
  BY <1>1 DEF ParserInv, Consistent, TypedInv, Typed
<1>3. IsSequence(text) /\ j \in Int
  BY CharOfText, SequenceOf DEF ParserInv, Consistent, Places, IsText
<1> HIDE DEF j
<1>4. \A n \in DOMAIN kinds :
        HeldBy(kinds, input', output', ends', values, n)
  <2>1. CASE Took(Literals(text), j)
    <3> DEFINE in == input'
    <3>1. in = input \/ Len(ends) = 0
      BY <1>2
    <3> HIDE DEF in
    <3>2. \A n \in DOMAIN kinds :
            HeldBy(kinds, in, output', ends', values, n)
      BY <1>1, <1>2, <1>3, <2>1, <3>1, AssignedText
    <3> QED
      BY <3>2 DEF in
  <2>2. CASE output' = output /\ ends' = ends
    <3>1. ASSUME NEW n \in DOMAIN kinds, NEW in
          PROVE  HeldBy(kinds, in, output, ends, values, n)
      BY <1>1, <1>2, <3>1, HeldFirst DEF AssignedInv, AssignedKnown
    <3> QED
      BY <2>2, <3>1
  <2> QED
    BY <1>1, <2>1, <2>2
<1>5. AssignedKnown(phase', trait, kinds, input', output', ends', values,
                    fields')
  BY <1>4 DEF AssignedKnown
<1> QED
  BY <1>1, <1>5 DEF AssignedInv

(* A run of text has been matched.                                         *)
LEMMA AssignedRun ==
  ASSUME ParserInv, TypedInv, AssignedInv, ScanText PROVE AssignedInv'
<1> DEFINE run == Run(text, at)
           j == pos + Len(run)
           n == ArgsIn(output, Len(output))
<1>1. /\ phase = "scanning" /\ trait' = trait /\ kinds' = kinds
      /\ input' = input /\ values' = values /\ TextAt(text, at)
      /\ \/ Took(Literals(run), j)
         \/ output' = output /\ ends' = ends
  BY Seen DEF ScanText, Continue, Literals, TookNothing
<1>2. /\ IsText(text) /\ at \in Places(text) /\ auto \in Nat
      /\ trait = "scan" /\ Passed(trait, text, kinds, fields, at, auto, n)
  BY <1>1 DEF ParserInv, Consistent
<1>3. n \in Nat
  BY SequenceOf, ArgsAreNat DEF ParserInv, Consistent, IsSequence
<1>4. IsSequence(run)
  BY <1>1, <1>2, <1>3, RunPassed
<1> HIDE DEF run, n
<1>5. j \in Int /\ IsSequence(ends) /\ Len(ends) = Len(output)
  BY <1>2, <1>4, InputIsText, SequenceOf
     DEF TypedInv, Typed, Places, IsSequence
<1> HIDE DEF j
<1>6. \A m \in DOMAIN kinds :
        HeldBy(kinds, input, output', ends', values, m)
  <2>1. CASE Took(Literals(run), j)
    BY <1>1, <1>2, <1>4, <1>5, <2>1, AssignedText
  <2>2. CASE output' = output /\ ends' = ends
    BY <1>1, <1>2, <2>2 DEF AssignedInv, AssignedKnown
  <2> QED
    BY <1>1, <2>1, <2>2
<1>7. AssignedKnown(phase', trait, kinds, input, output', ends', values,
                    fields')
  BY <1>6 DEF AssignedKnown
<1> QED
  BY <1>1, <1>7 DEF AssignedInv

(* A field has been read.                                                  *)
LEMMA AssignedField ==
  ASSUME ParserInv, TypedInv, PartsInv, AssignedInv, ScanField
  PROVE  AssignedInv'
<1> DEFINE p == ParseScanSpecs(text, UncheckedSpecsAt)
           kind == kinds[Arg + 1]
           x == Field(Arg, p.specs)
           u == <<x>>
           c == ArgsIn(output, Len(output))
<1>1. phase = "scanning" /\ trait = "scan" /\ AtField /\ ~ AtSentinel
  BY DEF ScanField, ParserInv, Consistent
<1>2. /\ Unchecked(p) /\ Scans(kind, p.specs)
      /\ p.specs.width \in (Nat \ {0}) \cup {NoWidth}
  BY <1>1, ScanSpecsSeen
<1>3. p = Parsed(trait, text, kinds, at, auto)
  <2>1. NameEnd = NameEndAt(text, at)
    BY DEF NameEnd, NameEndAt, Positional, Numbered, Following, Name
  <2> QED
    BY <1>1, <2>1, Seen DEF Parsed, UncheckedFrom, UncheckedSpecsAt
<1>4. c < Len(fields) /\ x = fields[c + 1] /\ c \in Nat
        /\ Len(fields) \in Nat
  <2>1. Len(fields) \in Nat
    BY SequenceOf DEF ParserInv, Consistent, IsSequence
  <2> QED
    BY <1>1, <1>3, <2>1, FieldSeen
<1>5. PICK r \in Read(kind, p.specs, pos, p.at) :
        /\ values' = IF r.value = Unset THEN values
                     ELSE [values EXCEPT ![Arg + 1] = r.value]
        /\ \/ r.ok /\ phase' = "scanning" /\ Took(u, r.next)
           \/ /\ ~ r.ok /\ phase' = "failed"
              /\ output' = output /\ ends' = ends
  BY <1>1, <1>2 DEF ScanField, Continue
<1>6. trait' = trait /\ kinds' = kinds /\ input' = input /\ fields' = fields
  BY <1>1, <1>2 DEF ScanField, Continue
<1>7. /\ IsText(input) /\ pos \in Places(input) /\ Len(input) \in Nat
      /\ pos \in Nat
      /\ IsSequence(ends) /\ Len(ends) = Len(output) /\ IsSequence(output)
      /\ pos = From(1, ends, Len(ends) + 1) /\ DOMAIN values = DOMAIN kinds
      /\ \A n \in DOMAIN kinds :
           HeldBy(kinds, input, output, ends, values, n)
  BY <1>1, InputIsText, CharOfText
     DEF TypedInv, Typed, PartsInv, PartsKnown, Places, ParserInv, Consistent,
         AssignedInv, AssignedKnown
<1> DEFINE specs == p.specs
           f == p.at
           a == Arg + 1
<1>8. /\ specs.width \in Nat \cup {NoWidth} /\ specs.width # 0
      /\ Scans(kind, specs) /\ r \in Read(kind, specs, pos, f)
  BY <1>2 DEF NoWidth
<1>9. /\ x.specs = specs /\ kinds[a] = kind
      /\ \A n : IsReader(x, n) <=> n = a
  BY FieldIsArg DEF IsReader, Field
<1>10. ASSUME NEW n \in DOMAIN kinds, n # a PROVE values'[n] = values[n]
  BY <1>5, <1>7, <1>10
<1>11. r.value # Unset /\ a \in DOMAIN kinds => values'[a] = r.value
  BY <1>5, <1>7
<1>12. r.value = Unset => values' = values
  BY <1>5
<1>13. x.arg + 1 = a
  BY DEF Field
<1> HIDE DEF p, kind, x, specs, f, c, a
<1>14. CASE r.ok /\ phase' = "scanning" /\ Took(u, r.next)
  <2> DEFINE j == r.next
             places == EndsOf(u, j)
             o2 == output'
             e2 == ends'
             v2 == values'
  <2>1. j \in pos..(Len(input) + 1)
    BY <1>7, <1>8, ReadIsInside
  <2>2. ValueRead(kind, specs, input, pos, j, r.value)
    BY <1>7, <1>8, <1>14, FieldPart
  <2>3. IsSequence(u) /\ Len(u) = 1 /\ u[1] = x
    BY OneIsSequence
  <2> HIDE DEF j, u
  <2>4. j \in Int
    BY <1>7, <2>1
  <2>5. Took(u, j)
    BY <1>14 DEF j
  <2>6. /\ Len(places) = Len(u)
        /\ \A m \in 1..Len(u) : places[m] = j - Len(u) + m
        /\ Joined(e2, ends, places) /\ o2 = output \o u
    BY <1>7, <2>3, <2>4, <2>5, TookEnds
  <2> HIDE DEF places, o2, e2, v2
  <2>7. Len(places) = 1 /\ places[1] = j
    <3>1. 1 \in 1..Len(u)
      BY <2>3
    <3>2. places[1] = j - Len(u) + 1
      BY <2>6, <3>1
    <3> QED
      BY <2>3, <2>4, <2>6, <3>2
  <2>8. Joined(o2, output, u)
    BY <1>7, <2>3, <2>6, Joining
  <2>9. ASSUME NEW n \in DOMAIN kinds PROVE HeldBy(kinds, input, o2, e2, v2, n)
    <3>1. CASE n = a
      <4>1. v2[n] = r.value
        BY <1>11, <2>2, <2>9, <3>1 DEF v2, ValueRead
      <4>2. ValueRead(kinds[n], x.specs, input, pos, j, v2[n])
        BY <1>9, <2>2, <3>1, <4>1
      <4>3. IsReader(x, n)
        BY <1>9, <3>1
      <4> QED
        BY <1>7, <2>3, <2>6, <2>7, <2>8, <4>2, <4>3, HeldAnew
    <3>2. CASE n # a
      <4>1. v2[n] = values[n]
        BY <1>10, <2>9, <3>2 DEF v2
      <4>2. \A y \in 1..Len(u) : ~ IsReader(u[y], n)
        <5>1. \A y \in 1..Len(u) : y = 1
          BY <2>3
        <5> QED
          BY <1>9, <2>3, <3>2, <5>1
      <4>3. HeldBy(kinds, input, output, ends, values, n)
        BY <1>7, <2>9
      <4> QED
        BY <1>7, <2>6, <2>8, <4>1, <4>2, <4>3, HeldStill
    <3> QED
      BY <3>1, <3>2
  <2>10. AssignedKnown(phase', trait, kinds, input, o2, e2, v2, fields)
    BY <2>9 DEF AssignedKnown
  <2> QED
    BY <1>6, <2>10 DEF AssignedInv, o2, e2, v2
<1>15. CASE ~ r.ok /\ phase' = "failed" /\ output' = output /\ ends' = ends
  <2> DEFINE v2 == values'
  <2>1. ASSUME NEW n \in DOMAIN kinds
        PROVE  \/ HeldBy(kinds, input, output, ends, v2, n)
               \/ FailedAt(fields, output, n)
    <3>1. CASE v2[n] = values[n]
      <4>1. HeldBy(kinds, input, output, ends, values, n)
        BY <1>7, <2>1
      <4> HIDE DEF v2
      <4> QED
        BY <3>1, <4>1 DEF HeldBy
    <3>2. CASE v2[n] # values[n]
      <4>1. n = a /\ r.value # Unset
        BY <1>10, <1>12, <2>1, <3>2
      <4>2. specs.width # NoWidth
        BY <1>8, <1>15, <4>1, FailureAssigns
      <4> QED
        BY <1>4, <1>9, <1>13, <4>1, <4>2 DEF FailedAt, c
    <3> QED
      BY <3>1, <3>2
  <2> HIDE DEF v2
  <2>2. AssignedKnown("failed", trait, kinds, input, output, ends, v2, fields)
    BY <2>1 DEF AssignedKnown
  <2> QED
    BY <1>6, <1>15, <2>2 DEF AssignedInv, v2
<1> QED
  BY <1>5, <1>14, <1>15

(* The end of scanning.                                                    *)
LEMMA AssignedEnd ==
  ASSUME ParserInv, AssignedInv, EndScan PROVE AssignedInv'
<1>1. /\ phase # "failed"
      /\ UNCHANGED <<trait, kinds, output, input, ends, values, fields>>
  BY DEF EndScan, Continue, TookNothing
<1>2. AssignedKnown(phase', trait, kinds, input, output, ends, values, fields)
  BY <1>1 DEF AssignedInv, AssignedKnown
<1> QED
  BY <1>1, <1>2 DEF AssignedInv

(* Every step keeps it.                                                    *)
LEMMA AssignedStep ==
  ParserInv /\ TypedInv /\ PartsInv /\ AssignedInv /\ [Next]_vars
    => AssignedInv'
<1> SUFFICES ASSUME ParserInv, TypedInv, PartsInv, AssignedInv, [Next]_vars
             PROVE  AssignedInv'
  OBVIOUS
<1>1. CASE FormatNext /\ UNCHANGED scanVars
  BY <1>1, AssignedFormat
<1>2. CASE ScanPlain \/ ScanText \/ ScanField \/ EndScan
  BY <1>2, AssignedPlain, AssignedRun, AssignedField, AssignedEnd
<1>3. CASE UNCHANGED vars
  BY <1>3 DEF vars, formatVars, stringVars, scanVars, AssignedInv
<1> QED
  BY <1>1, <1>2, <1>3 DEF Next

(* Every argument of a scan holds what the last field that names it has    *)
(* read - the character, the view of the part of the input, or the number  *)
(* that its numeral stands for - and is untouched if there is none, except *)
(* by a field of a width that fails (read_arg, scanner<T>::scan).          *)
THEOREM AssignedAlways ==
  ASSUME WithoutTuples PROVE Spec => []Assigned
<1>1. TypedInv /\ AssignedInv => Assigned
  <2> SUFFICES ASSUME TypedInv, AssignedInv, trait = "scan",
                      NEW n \in DOMAIN kinds
               PROVE
        LET readers == {i \in DOMAIN ends :
                          IsArg(output[i]) /\ output[i].arg + 1 = n}
            i == CHOOSE i \in readers : \A j \in readers : j <= i
            current == Args(Len(output)) + 1
        IN \/ IF readers = {} THEN values[n] = Unset
              ELSE CASE kinds[n] = "char" -> values[n] = Literal(Part(i)[1])
                     [] kinds[n] = "string" ->
                          values[n] = View(Start(i), ends[i])
                     [] kinds[n] \in ScannedInt ->
                          \E m \in IntegersOf(output[i].specs, Part(i)) :
                            Holds(kinds[n], m) => values[n] = Numeric(m)
           \/ /\ phase = "failed" /\ current <= Len(fields)
              /\ fields[current].arg + 1 = n
              /\ fields[current].specs.width # NoWidth
    BY DEF Assigned
  <2> DEFINE readers == {i \in DOMAIN ends :
                           IsArg(output[i]) /\ output[i].arg + 1 = n}
             last == CHOOSE i \in readers : \A j \in readers : j <= i
             current == Args(Len(output)) + 1
  <2>1. DOMAIN ends = 1..Len(ends) /\ Len(ends) \in Nat
    BY SequenceOf DEF TypedInv, Typed, IsSequence
  <2>2. \A i : i \in readers <=> i \in 1..Len(ends) /\ IsReader(output[i], n)
    BY <2>1 DEF IsReader
  <2>3. readers \subseteq Nat
    BY <2>1
  <2> HIDE DEF readers
  <2>4. CASE values[n] = Unset
             /\ \A i \in 1..Len(ends) : ~ IsReader(output[i], n)
    <3>1. readers = {}
      BY <2>2, <2>4
    <3> QED
      BY <2>4, <3>1 DEF readers
  <2>5. CASE \E i \in 1..Len(ends) :
               /\ IsReader(output[i], n)
               /\ \A j \in 1..Len(ends) : IsReader(output[j], n) => j <= i
               /\ ValueRead(kinds[n], output[i].specs, input,
                            From(1, ends, i), ends[i], values[n])
    <3>1. PICK i \in 1..Len(ends) :
               /\ IsReader(output[i], n)
               /\ \A j \in 1..Len(ends) : IsReader(output[j], n) => j <= i
               /\ ValueRead(kinds[n], output[i].specs, input,
                            From(1, ends, i), ends[i], values[n])
      BY <2>5
    <3>2. i \in readers /\ \A j \in readers : j <= i
      BY <2>2, <3>1
    <3>3. last \in readers /\ \A j \in readers : j <= last
      BY <3>2
    <3> HIDE DEF last
    <3>4. last = i
      BY <2>3, <3>2, <3>3
    <3>5. From(1, ends, i) = Start(i)
      BY DEF Start, From
    <3>6. ValueRead(kinds[n], output[last].specs, input, Start(last),
                    ends[last], values[n])
      BY <3>1, <3>4, <3>5
    <3>7. /\ kinds[n] \in ScannedInt \cup {"char", "string"}
          /\ kinds[n] = "char" => values[n] = Literal(Part(last)[1])
          /\ kinds[n] = "string" => values[n] = View(Start(last), ends[last])
          /\ kinds[n] \in ScannedInt =>
               \E m \in IntegersOf(output[last].specs, Part(last)) :
                 Holds(kinds[n], m) => values[n] = Numeric(m)
      BY <3>6 DEF ValueRead, IntegerRead, Part
    <3>8. readers # {}
      BY <3>2
    <3>9. (CASE kinds[n] = "char" -> values[n] = Literal(Part(last)[1])
             [] kinds[n] = "string" ->
                  values[n] = View(Start(last), ends[last])
             [] kinds[n] \in ScannedInt ->
                  \E m \in IntegersOf(output[last].specs, Part(last)) :
                    Holds(kinds[n], m) => values[n] = Numeric(m))
      BY <3>7 DEF ScannedInt
    <3> QED
      BY <3>8, <3>9 DEF readers, last
  <2>6. CASE phase = "failed" /\ FailedAt(fields, output, n)
    <3>1. current = ArgsIn(output, Len(output)) + 1
      BY DEF Args, ArgsIn
    <3>2. /\ current <= Len(fields) /\ fields[current].arg + 1 = n
          /\ fields[current].specs.width # NoWidth
      BY <2>6, <3>1 DEF FailedAt
    <3> QED
      BY <2>6, <3>2
  <2> QED
    BY <2>4, <2>5, <2>6 DEF AssignedInv, AssignedKnown, HeldBy
<1>2. Init => ParserInv /\ TypedInv /\ PartsInv /\ AssignedInv
  BY ParserInit, TypedInit, PartsInit, AssignedInit
<1> QED
  BY <1>1, <1>2, ParserStep, TypedStep, PartsStep, AssignedStep, PTL DEF Spec
----------------------------------------------------------------------------
(* Which numeral a field reads (ReadsIntegers).                            *)

(* What a field at i owes, where reading it gives r.                       *)
Owed(kind, specs, i, r) ==
  LET last == Len(input) + 1
      legal == {j \in i..last : Legal(specs, input, i, j)}
      wanted == IF specs.width = NoWidth THEN legal
                ELSE legal \cap {i + specs.width}
      longest == CHOOSE j \in wanted : \A k \in wanted : k <= j
      zero == /\ specs.alternate /\ specs.type = "none"
              /\ Char(input, longest - 1) = "0" /\ longest < last
              /\ longest <= SignEnd(input, i) + 1
  IN IF wanted = {} THEN ~ r.ok /\ r.next = i
     ELSE \/ specs.width = NoWidth /\ zero
          \/ \E n \in IntegersOf(specs, SubSeq(input, i, longest - 1)) :
               Delivers(kind, n, Negative(input, i), r, i, longest)

(* Reading an integer does what it owes.                                   *)
LEMMA IntegerOwed ==
  ASSUME IsText(input), NEW i \in Places(input), NEW kind \in ScannedInt,
         NEW specs, specs.width \in Nat \cup {NoWidth}, specs.width # 0,
         specs.type \in {"none", "b", "d", "o", "x"},
         NEW r \in ReadInt(kind, specs, i)
  PROVE  Owed(kind, specs, i, r)
<1> DEFINE last == Len(input) + 1
           legal == {j \in i..last : Legal(specs, input, i, j)}
           wanted == IF specs.width = NoWidth THEN legal
                     ELSE legal \cap {i + specs.width}
           longest == CHOOSE j \in wanted : \A k \in wanted : k <= j
           zero == /\ specs.alternate /\ specs.type = "none"
                   /\ Char(input, longest - 1) = "0" /\ longest < last
                   /\ longest <= SignEnd(input, i) + 1
           delivered ==
             \E n \in IntegersOf(specs, SubSeq(input, i, longest - 1)) :
               Delivers(kind, n, Negative(input, i), r, i, longest)
<1>1. Len(input) \in Nat /\ i \in Nat /\ 1 <= i /\ i <= last
  BY CharOfText DEF Places
<1>2. Nothing(i).next = i /\ ~ Nothing(i).ok
  BY DEF Nothing, Result
<1>3. legal \subseteq 1..last /\ wanted \subseteq legal
  BY <1>1
<1>4. \A j : j \in legal <=> j \in i..last /\ Legal(specs, input, i, j)
  OBVIOUS
<1>5. wanted # {} => longest \in wanted /\ \A k \in wanted : k <= longest
  <2>1. wanted \subseteq 1..(Len(input) + 1) /\ Len(input) \in Nat
    BY <1>1, <1>3
  <2> HIDE DEF wanted
  <2>2. wanted # {} => \E j \in wanted : \A k \in wanted : k <= j
    BY <2>1, GreatestOf
  <2> QED
    BY <2>2
<1>6. SUFFICES IF wanted = {} THEN ~ r.ok /\ r.next = i
               ELSE (specs.width = NoWidth /\ zero) \/ delivered
  BY DEF Owed
<1> HIDE DEF longest, legal
<1>7. CASE /\ specs.width # NoWidth /\ i + specs.width > Len(input) + 1
           /\ r = Nothing(i)
  <2>1. i + specs.width \notin i..last
    BY <1>1, <1>7 DEF NoWidth
  <2>2. wanted = {}
    BY <1>4, <1>7, <2>1
  <2> QED
    BY <1>2, <1>7, <2>2
<1>8. ASSUME NEW s, IsCut(s, i, specs.width), Answers(kind, specs, s, i, r)
      PROVE  IF wanted = {} THEN ~ r.ok /\ r.next = i
             ELSE (specs.width = NoWidth /\ zero) \/ delivered
  <2>1. /\ IsText(s) /\ i \in Places(s) /\ Len(s) \in Nat
        /\ specs.width # NoWidth => Len(s) = i + specs.width - 1
    BY <1>8, CharOfText DEF IsCut
  <2>2. Comes(kind, specs, s, i, r)
    BY <1>8, <2>1, AnswersCome
  <2>3. CASE specs.width = NoWidth
    <3>1. s = input /\ wanted = legal
      BY <1>8, <2>3 DEF IsCut
    <3> HIDE DEF wanted
    <3>2. ASSUME wanted # {}, LoneZero(input, i, longest, specs)
          PROVE  zero
      <4>1. longest \in i..last
        BY <1>4, <1>5, <3>1, <3>2
      <4>2. /\ specs.alternate /\ specs.type = "none"
            /\ longest = SignEnd(input, i) + 1
            /\ Char(input, longest - 1) = "0" /\ Char(input, longest) # End
        BY <3>2 DEF LoneZero
      <4>3. longest \in Int /\ longest \in 1..Len(input)
        BY <1>1, <4>1, <4>2, CharOfText
      <4>4. longest < last /\ longest <= longest
        BY <1>1, <4>3
      <4> QED
        BY <4>2, <4>4
    <3>3. CASE /\ ~ r.ok /\ r.next = i
               /\ \A j \in i..(Len(s) + 1) :
                    /\ Legal(specs, s, i, j)
                    /\ specs.width # NoWidth => j = Len(s) + 1
                    => LoneZero(s, i, j, specs)
      <4>1. ASSUME wanted # {} PROVE zero
        <5>1. longest \in i..(Len(s) + 1) /\ Legal(specs, s, i, longest)
          BY <1>4, <1>5, <3>1, <4>1
        <5> QED
          BY <2>3, <3>1, <3>2, <3>3, <4>1, <5>1
      <4> QED
        BY <2>3, <3>3, <4>1
    <3>4. ASSUME NEW d \in (i + 1)..(Len(s) + 1),
                 \A j \in i..(Len(s) + 1) :
                   Legal(specs, s, i, j) => j <= d \/ LoneZero(s, i, j, specs),
                 \E m \in IntegersOf(specs, SubSeq(s, i, d - 1)) :
                   Delivers(kind, m, Negative(s, i), r, i, d)
          PROVE  wanted # {} /\ (zero \/ delivered)
      <4>1. Legal(specs, input, i, d)
        BY <3>1, <3>4 DEF Legal
      <4>2. d \in i..last
        BY <1>1, <3>1, <3>4
      <4>3. d \in wanted
        BY <1>4, <3>1, <4>1, <4>2
      <4>4. longest \in wanted /\ d <= longest
        BY <1>5, <4>3
      <4>5. longest \in i..last /\ Legal(specs, input, i, longest)
        BY <1>4, <3>1, <4>4
      <4>6. longest <= d \/ LoneZero(input, i, longest, specs)
        BY <3>1, <3>4, <4>5
      <4>7. CASE longest <= d
        <5>1. longest = d
          BY <1>1, <4>2, <4>4, <4>5, <4>7
        <5> QED
          BY <3>1, <3>4, <4>3, <5>1
      <4>8. CASE LoneZero(input, i, longest, specs)
        BY <3>2, <4>3, <4>8
      <4> QED
        BY <4>6, <4>7, <4>8
    <3> QED
      BY <2>2, <2>3, <3>3, <3>4 DEF Comes
  <2>4. CASE specs.width # NoWidth
    <3> DEFINE d == Len(s) + 1
    <3>1. /\ d = i + specs.width /\ d \in (i + 1)..last /\ d \in i..last
          /\ d \in Nat /\ i < d /\ d <= Len(s) + 1
      <4>1. Len(s) <= Len(input) /\ Len(s) = i + specs.width - 1
        BY <1>8, <2>4 DEF IsCut
      <4> QED
        BY <1>1, <2>1, <2>4, <4>1 DEF NoWidth
    <3>2. SubSeq(s, i, d - 1) = SubSeq(input, i, d - 1)
      <4> DEFINE w == specs.width
      <4>1. w \in Nat \cup {NoWidth} /\ IsCut(s, i, w)
        BY <1>8
      <4> HIDE DEF d, w
      <4> QED
        BY <3>1, <4>1, CutIsInput
    <3>3. Negative(s, i) = Negative(input, i)
      <4>1. i \in 1..Len(s) /\ i \in 1..Len(input) /\ i \in Int
        BY <1>1, <2>1, <3>1
      <4>2. s[i] = input[i]
        <5>1. SubSeq(s, i, d - 1)[1] = s[i]
          BY <2>1, <3>1, <4>1, FirstOfCut
        <5>2. SubSeq(input, i, d - 1)[1] = input[i]
          BY <1>1, <3>1, <4>1, FirstOfCut
        <5> QED
          BY <3>2, <5>1, <5>2
      <4> QED
        BY <2>1, <4>1, <4>2, CharOfText DEF Negative
    <3>4. Legal(specs, s, i, d) <=> Legal(specs, input, i, d)
      BY <3>2 DEF Legal
    <3>5. wanted = IF Legal(specs, s, i, d) THEN {d} ELSE {}
      BY <1>4, <2>4, <3>1, <3>4
    <3>6. ~ LoneZero(s, i, d, specs)
      <4>1. d \notin 1..Len(s) /\ d \in Int
        BY <2>1
      <4> QED
        BY <2>1, <4>1, CharOfText DEF LoneZero
    <3> HIDE DEF wanted
    <3>7. CASE /\ ~ r.ok /\ r.next = i
               /\ \A j \in i..(Len(s) + 1) :
                    /\ Legal(specs, s, i, j)
                    /\ specs.width # NoWidth => j = Len(s) + 1
                    => LoneZero(s, i, j, specs)
      <4>1. d \in i..(Len(s) + 1)
        BY <1>1, <2>1, <3>1
      <4>2. ~ Legal(specs, s, i, d)
        BY <3>6, <3>7, <4>1
      <4> QED
        BY <3>5, <3>7, <4>2
    <3>8. CASE \E m \in IntegersOf(specs, SubSeq(s, i, d - 1)) :
                 Delivers(kind, m, Negative(s, i), r, i, d)
      <4>1. wanted = {d}
        BY <3>5, <3>8 DEF Legal
      <4>2. longest = d
        BY <1>5, <4>1
      <4> HIDE DEF d
      <4> QED
        BY <3>2, <3>3, <3>8, <4>1, <4>2
    <3> QED
      BY <2>2, <2>4, <3>7, <3>8 DEF Comes
  <2> QED
    BY <2>3, <2>4
<1> QED
  BY <1>7, <1>8, ReadIntAnswers

(* A step takes the answer r of a scanner.                                 *)
Takes(r) ==
  /\ phase' = (IF r.ok THEN "scanning" ELSE "failed") /\ pos' = r.next
  /\ r.value # Unset => values'[Arg + 1] = r.value

(* It is the step that reads a field, and the specs are those of the field *)
(* that has been validated.                                                *)
LEMMA ReadingStep ==
  ASSUME ParserInv, TypedInv, AssignedInv, [Next]_vars, NEW K, Reads(K)
  PROVE  /\ IsText(input) /\ pos \in Places(input)
         /\ Scans(kinds[Arg + 1], Specified)
         /\ Specified.width \in (Nat \ {0}) \cup {NoWidth}
         /\ IsText(text) /\ trait = "scan"
         /\ \E f \in Places(text) : \E a, n \in Nat :
              /\ at' = f /\ Passed(trait, text, kinds, fields, f, a, n)
              /\ \E r \in Read(kinds[Arg + 1], Specified, pos, f) : Takes(r)
<1> DEFINE p == ParseScanSpecs(text, UncheckedSpecsAt)
           kind == kinds[Arg + 1]
           n == ArgsIn(output, Len(output))
           a == Arg + 1
<1>1. phase = "scanning" /\ AtField /\ at' # at
  BY DEF Reads
<1>2. ScanField
  <2>1. ~ AtText
    BY <1>1 DEF AtText, AtField
  <2>2. ~ FormatNext
    BY <1>1
       DEF FormatNext, WritePlain, ValidateText, ValidateField, Terminate,
           RejectText, RejectField, RejectSpecs, AskMatched, Match,
           EndValidation, Begin, FormatText, FormatField, EndFormat
  <2> QED
    BY <1>1, <2>1, <2>2
       DEF Next, ScanPlain, ScanText, EndScan, vars, formatVars, stringVars
<1>3. ~ AtSentinel
  BY <1>2 DEF ScanField
<1>4. /\ Unchecked(p) /\ Scans(kind, p.specs)
      /\ p.specs.width \in (Nat \ {0}) \cup {NoWidth}
  BY <1>1, <1>3, ScanSpecsSeen
<1>5. /\ IsText(text) /\ at \in Places(text) /\ auto \in Nat
      /\ kinds \in Seq(Flat) /\ trait = "scan"
  BY <1>1 DEF ParserInv, Consistent
<1>6. p = Parsed(trait, text, kinds, at, auto)
  <2>1. NameEnd = NameEndAt(text, at)
    BY DEF NameEnd, NameEndAt, Positional, Numbered, Following, Name
  <2> QED
    BY <1>1, <1>5, <2>1, Seen DEF Parsed, UncheckedFrom, UncheckedSpecsAt
<1>7. /\ Arg < Len(kinds) /\ Field(Arg, p.specs) = fields[n + 1]
      /\ p.at \in (at + 1)..(Len(text) + 1) /\ NewAuto \in Nat /\ n \in Nat
      /\ Passed(trait, text, kinds, fields, p.at, NewAuto, n + 1)
  BY <1>1, <1>3, <1>6, FieldSeen DEF Exists
<1>8. p.specs = Specified
  <2>1. Args(Len(output)) = n
    BY DEF Args, ArgsIn
  <2> HIDE DEF p, n
  <2> QED
    BY <1>7, <2>1 DEF Specified, Field
<1>9. IsText(input) /\ pos \in Places(input) /\ DOMAIN values = DOMAIN kinds
  BY <1>1, InputIsText
     DEF TypedInv, Typed, Places, ParserInv, Consistent, AssignedInv,
         AssignedKnown
<1>10. a \in DOMAIN kinds
  <2>1. Arg \in Nat
    BY <1>1, <1>5, Seen, NameRead
  <2> QED
    BY <1>5, <1>7, <2>1
<1>11. p.at \in Places(text)
  <2>1. at \in Nat /\ 1 <= at /\ Len(text) \in Nat
    BY <1>5, CharOfText DEF Places
  <2> HIDE DEF p
  <2> QED
    BY <1>7, <2>1 DEF Places
<1>12. at' = p.at
  BY <1>2 DEF ScanField
<1>13. PICK r \in Read(kind, p.specs, pos, p.at) :
         /\ values' = IF r.value = Unset THEN values
                      ELSE [values EXCEPT ![a] = r.value]
         /\ IF r.ok THEN phase' = "scanning" /\ pos' = r.next
            ELSE phase' = "failed" /\ pos' = r.next
  BY <1>1, <1>2, <1>4 DEF ScanField, Continue, Took
<1> HIDE DEF p, kind, a, n
<1>14. r.value # Unset => values'[a] = r.value
  BY <1>9, <1>10, <1>13
<1>15. Takes(r)
  BY <1>13, <1>14 DEF Takes, a
<1>16. /\ p.at \in Places(text) /\ NewAuto \in Nat /\ n + 1 \in Nat
       /\ at' = p.at
       /\ Passed(trait, text, kinds, fields, p.at, NewAuto, n + 1)
       /\ r \in Read(kind, Specified, pos, p.at)
  BY <1>7, <1>8, <1>11, <1>12, <1>13
<1>17. \E f \in Places(text) : \E c, m \in Nat :
         /\ at' = f /\ Passed(trait, text, kinds, fields, f, c, m)
         /\ \E w \in Read(kind, Specified, pos, f) : Takes(w)
  BY <1>15, <1>16
<1> QED
  BY <1>4, <1>5, <1>8, <1>9, <1>17 DEF kind

(* The step that reads a field of an integer answers as it owes.           *)
LEMMA IntegerStep ==
  ASSUME ParserInv, TypedInv, AssignedInv, [Next]_vars, Reads(ScannedInt)
  PROVE  \E r : Owed(kinds[Arg + 1], Specified, pos, r) /\ Takes(r)
<1> DEFINE kind == kinds[Arg + 1]
           specs == Specified
<1>1. kind \in ScannedInt
  BY DEF Reads
<1>2. PICK f : \E r \in Read(kind, specs, pos, f) : Takes(r)
  BY ReadingStep
<1>3. /\ IsText(input) /\ pos \in Places(input) /\ Scans(kind, specs)
      /\ specs.width \in (Nat \ {0}) \cup {NoWidth}
  BY ReadingStep
<1> HIDE DEF kind, specs
<1>4. PICK r \in ReadInt(kind, specs, pos) : Takes(r)
  BY <1>1, <1>2 DEF Read, ScannedInt
<1>5. specs.type \in {"none", "b", "d", "o", "x"} /\ specs.width # 0
        /\ specs.width \in Nat \cup {NoWidth}
  BY <1>1, <1>3 DEF Scans, ScannedInt, NoWidth
<1>6. Owed(kind, specs, pos, r)
  BY <1>1, <1>3, <1>4, <1>5, IntegerOwed
<1> QED
  BY <1>4, <1>6 DEF kind, specs

(* A field of an integer reads the longest numeral that stands at its      *)
(* place, of the length its width demands, and assigns the number if the   *)
(* type can hold it; otherwise it fails and leaves the reader in front or  *)
(* behind (read_arg, parse_int).                                           *)
THEOREM ReadsIntegersAlways ==
  ASSUME WithoutTuples PROVE Spec => ReadsIntegers
<1>1. ParserInv /\ TypedInv /\ AssignedInv /\ [Next]_vars =>
        [Reads(ScannedInt) =>
          LET specs == Specified
              kind == kinds[Arg + 1]
              unsigned == kind = "unsigned"
              part(j) == SubSeq(input, pos, j - 1)
              last == Len(input) + 1
              legal == {j \in pos..last : IntegersOf(specs, part(j)) # {}}
              wanted == IF specs.width = NoWidth THEN legal
                        ELSE legal \cap {pos + specs.width}
              longest == CHOOSE j \in wanted : \A k \in wanted : k <= j
              zero == /\ specs.alternate /\ specs.type = "none"
                      /\ Char(input, longest - 1) = "0" /\ longest < last
                      /\ longest <= SignEnd(input, pos) + 1
          IN IF wanted = {} THEN phase' = "failed" /\ pos' = pos
             ELSE \/ specs.width = NoWidth /\ zero
                  \/ \E n \in IntegersOf(specs, part(longest)) :
                       IF Holds(kind, n) /\ ~ (unsigned
                                                 /\ Negative(input, pos))
                         THEN /\ phase' = "scanning" /\ pos' = longest
                              /\ values'[Arg + 1] = Numeric(n)
                         ELSE \/ phase' = "failed" /\ pos' \in {pos, longest}
                              \/ ~ unsigned /\ ~ Holds("int", n)
                              \/ \E b \in {2, 8, 10, 16} :
                                   Unnoticed(n, b)]_vars
  <2> DEFINE specs == Specified
             kind == kinds[Arg + 1]
             unsigned == kind = "unsigned"
             last == Len(input) + 1
             legal == {j \in pos..last : Legal(specs, input, pos, j)}
             wanted == IF specs.width = NoWidth THEN legal
                       ELSE legal \cap {pos + specs.width}
             longest == CHOOSE j \in wanted : \A k \in wanted : k <= j
             zero == /\ specs.alternate /\ specs.type = "none"
                     /\ Char(input, longest - 1) = "0" /\ longest < last
                     /\ longest <= SignEnd(input, pos) + 1
             numbers == IntegersOf(specs, SubSeq(input, pos, longest - 1))
             negative == Negative(input, pos)
  <2> SUFFICES ASSUME ParserInv, TypedInv, AssignedInv, [Next]_vars,
                      Reads(ScannedInt)
               PROVE
        IF wanted = {} THEN phase' = "failed" /\ pos' = pos
        ELSE \/ specs.width = NoWidth /\ zero
             \/ \E n \in numbers :
                  IF Holds(kind, n) /\ ~ (unsigned /\ negative)
                    THEN /\ phase' = "scanning" /\ pos' = longest
                         /\ values'[Arg + 1] = Numeric(n)
                    ELSE \/ phase' = "failed" /\ pos' \in {pos, longest}
                         \/ ~ unsigned /\ ~ Holds("int", n)
                         \/ \E b \in {2, 8, 10, 16} : Unnoticed(n, b)
    BY DEF Legal
  <2>1. PICK r : Owed(kind, specs, pos, r) /\ Takes(r)
    BY IntegerStep
  <2>2. /\ phase' = (IF r.ok THEN "scanning" ELSE "failed") /\ pos' = r.next
        /\ r.value # Unset => values'[Arg + 1] = r.value
    BY <2>1 DEF Takes
  <2>3. IF wanted = {} THEN ~ r.ok /\ r.next = pos
        ELSE \/ specs.width = NoWidth /\ zero
             \/ \E n \in numbers : Delivers(kind, n, negative, r, pos, longest)
    BY <2>1 DEF Owed
  <2> HIDE DEF zero, longest, numbers, negative, kind
  <2>4. ASSUME NEW n \in numbers,
               Delivers(kind, n, negative, r, pos, longest)
        PROVE  IF Holds(kind, n) /\ ~ (unsigned /\ negative)
                 THEN /\ phase' = "scanning" /\ pos' = longest
                      /\ values'[Arg + 1] = Numeric(n)
                 ELSE \/ phase' = "failed" /\ pos' \in {pos, longest}
                      \/ ~ unsigned /\ ~ Holds("int", n)
                      \/ \E b \in {2, 8, 10, 16} : Unnoticed(n, b)
    BY <2>2, <2>4, SomeValue DEF Delivers
  <2> QED
    BY <2>2, <2>3, <2>4
<1>2. Init => ParserInv /\ TypedInv /\ PartsInv /\ AssignedInv
  BY ParserInit, TypedInit, PartsInit, AssignedInit
<1> QED
  BY <1>1, <1>2, ParserStep, TypedStep, PartsStep, AssignedStep, PTL
     DEF Spec, ReadsIntegers
----------------------------------------------------------------------------
(* Where a string ends (StopsAtText).                                      *)

(* The first character of a part and the others.                           *)
LEMMA FirstAndRest ==
  ASSUME NEW s, IsText(s), NEW x \in 1..Len(s), NEW e \in Int, x <= e,
         e <= Len(s)
  PROVE  <<s[x]>> \o SubSeq(s, x + 1, e) = SubSeq(s, x, e)
<1> DEFINE y == x + 1
           one == <<s[x]>>
           v == SubSeq(s, y, e)
           w == SubSeq(s, x, e)
<1>1. x \in Int /\ 1 <= x /\ x <= e + 1 /\ y \in Int /\ 1 <= y /\ y <= e + 1
        /\ e - y + 1 = e - x
  BY DEF IsText
<1>2. /\ IsText(w) /\ Len(w) = e - x + 1
      /\ \A k \in 1..(e - x + 1) : w[k] = s[x + k - 1]
  BY <1>1, CutOf
<1> HIDE DEF w
<1>3. /\ IsText(v) /\ Len(v) = e - x
      /\ \A k \in 1..(e - x) : v[k] = s[y + k - 1]
  <2> HIDE DEF y
  <2>1. /\ IsText(v) /\ Len(v) = e - y + 1
        /\ \A k \in 1..(e - y + 1) : v[k] = s[y + k - 1]
    BY <1>1, CutOf
  <2> HIDE DEF v
  <2> QED
    BY <1>1, <2>1
<1> HIDE DEF v
<1>4. IsSequence(one) /\ Len(one) = 1 /\ one[1] = s[x] /\ IsSequence(v)
  BY <1>3, OneIsSequence, SequenceOf DEF IsText
<1> DEFINE u == one \o v
<1> HIDE DEF one
<1>5. Joined(u, one, v)
  BY <1>4, Joining
<1> HIDE DEF u
<1>6. /\ IsSequence(u) /\ Len(u) = e - x + 1 /\ u[1] = s[x]
      /\ \A k \in 1..(e - x) : u[1 + k] = s[y + k - 1]
  <2>1. 1 \in 1..Len(one)
    BY <1>4
  <2>2. /\ IsSequence(u) /\ Len(u) = Len(one) + Len(v) /\ u[1] = one[1]
        /\ \A k \in 1..Len(v) : u[Len(one) + k] = v[k]
    BY <1>5, <2>1 DEF Joined
  <2>3. Len(u) = e - x + 1
    BY <1>1, <1>3, <1>4, <2>2
  <2>4. \A k \in 1..(e - x) : u[1 + k] = v[k]
    BY <1>3, <1>4, <2>2
  <2> QED
    BY <1>3, <1>4, <2>2, <2>3, <2>4
<1>7. ASSUME NEW k \in 1..(e - x + 1) PROVE u[k] = w[k]
  <2>1. CASE k = 1
    <3>1. x + 1 - 1 = x
      BY <1>1
    <3> QED
      BY <1>2, <1>6, <1>7, <2>1, <3>1
  <2>2. CASE k # 1
    <3>1. PICK h \in 1..(e - x) : h = k - 1
      BY <1>1, <1>7, <2>2
    <3>2. 1 + h = k /\ y + h - 1 = x + k - 1
      BY <1>1, <3>1
    <3>3. u[k] = s[x + k - 1]
      BY <1>6, <3>1, <3>2
    <3> QED
      BY <1>2, <1>7, <3>3
  <2> QED
    BY <2>1, <2>2
<1>8. u = w
  <2>1. u \in Seq(Range(u)) /\ w \in Seq(STRING)
    BY <1>2, <1>6 DEF IsSequence, IsText
  <2>2. DOMAIN u = 1..Len(u) /\ DOMAIN w = 1..Len(w)
    BY <2>1
  <2> QED
    BY <1>2, <1>6, <1>7, <2>1, <2>2
<1> QED
  BY <1>8 DEF u, one, v, w

(* TextFrom is defined by its recursion.                                   *)
LEMMA TextFromOf ==
  ASSUME NEW s, IsText(s), NEW i \in 1..(Len(s) + 2)
  PROVE  TextFrom(s)[i] =
           IF i > Len(s) \/ (s[i] = Opening /\ ~ IsEscape(s, i)) THEN <<>>
           ELSE <<s[i]>> \o TextFrom(s)[i + TextStep(s[i])]
<1> DEFINE n == Len(s) + 1
           T == STRING \ {End}
           V == Seq(T)
           D == 1..(Len(s) + 2)
           stops(x) == x > Len(s) \/ (s[x] = Opening /\ ~ IsEscape(s, x))
           leaves == {m \in 0..n : stops(n + 1 - m)}
           E == [m \in 0..n |-> <<>>]
           J == [m \in 0..n |-> m - TextStep(s[n + 1 - m])]
           G == [q \in (0..n) \X V |->
                   IF q[1] \in leaves THEN <<>>
                   ELSE <<s[n + 1 - q[1]]>> \o q[2]]
           Round(f) == [x \in D |-> IF stops(x) THEN <<>>
                                    ELSE <<s[x]>> \o f[x + TextStep(s[x])]]
<1>1. Len(s) \in Nat /\ \A x \in 1..Len(s) : s[x] \in T
  BY ElementOfSeq DEF IsText
<1>2. \A c : TextStep(c) \in {1, 2}
  BY DEF TextStep
<1>3. \A m \in 0..n : m \notin leaves =>
        n + 1 - m \in 1..Len(s) /\ m - TextStep(s[n + 1 - m]) \in 0..(m - 1)
  <2> SUFFICES ASSUME NEW m \in 0..n, m \notin leaves
               PROVE  n + 1 - m \in 1..Len(s)
                      /\ m - TextStep(s[n + 1 - m]) \in 0..(m - 1)
    OBVIOUS
  <2>1. ~ (n + 1 - m > Len(s))
    OBVIOUS
  <2>2. n + 1 - m \in 1..Len(s) /\ m >= 2
    BY <1>1, <2>1
  <2> QED
    BY <1>1, <1>2, <2>2
<1>4. \A m \in 0..n : \A v \in V : G[<<m, v>>] \in V
  <2> SUFFICES ASSUME NEW m \in 0..n, NEW v \in V PROVE G[<<m, v>>] \in V
    OBVIOUS
  <2>1. G[<<m, v>>] = IF m \in leaves THEN <<>> ELSE <<s[n + 1 - m]>> \o v
    <3> HIDE DEF leaves, n, V
    <3> QED
      OBVIOUS
  <2>2. m \notin leaves => s[n + 1 - m] \in T
    BY <1>1, <1>3
  <2> HIDE DEF leaves, G, n, T
  <2> QED
    BY <2>1, <2>2
<1> HIDE DEF G, T
<1>5. PICK g : Recursive(g, V, n, leaves, E, J, G)
  <2>1. n \in Nat
    BY <1>1
  <2>2. \A m \in 0..n : E[m] \in V
    OBVIOUS
  <2>3. \A m \in 0..n : m \notin leaves => J[m] \in 0..(m - 1)
    BY <1>3
  <2> HIDE DEF n, V, leaves, E, J
  <2> QED
    BY <1>4, <2>1, <2>2, <2>3, RecursionExists
<1>6. \A m \in 0..n : g[m] \in V /\
        g[m] = IF m \in leaves THEN <<>>
               ELSE <<s[n + 1 - m]>> \o g[m - TextStep(s[n + 1 - m])]
  <2> SUFFICES ASSUME NEW m \in 0..n
               PROVE  g[m] \in V /\
                 g[m] = IF m \in leaves THEN <<>>
                        ELSE <<s[n + 1 - m]>> \o g[m - TextStep(s[n + 1 - m])]
    OBVIOUS
  <2>1. g \in [0..n -> V]
        /\ g[m] = IF m \in leaves THEN <<>> ELSE G[<<m, g[J[m]]>>]
    <3>1. E[m] = <<>>
      OBVIOUS
    <3> HIDE DEF n, V, leaves, E, J
    <3> QED
      BY <1>5, <3>1 DEF Recursive
  <2> DEFINE y == m - TextStep(s[n + 1 - m])
  <2>2. J[m] = y
    OBVIOUS
  <2>3. m \notin leaves => y \in 0..n
    <3>1. m \notin leaves => y \in 0..(m - 1)
      BY <1>3
    <3> HIDE DEF y, leaves
    <3> QED
      BY <1>1, <3>1
  <2> HIDE DEF y, J
  <2>4. m \notin leaves => G[<<m, g[y]>>] = <<s[n + 1 - m]>> \o g[y]
    <3>1. m \notin leaves => g[y] \in V
      BY <2>1, <2>3
    <3> HIDE DEF n, V, leaves
    <3> QED
      BY <3>1 DEF G
  <2> QED
    BY <2>1, <2>2, <2>4 DEF y
<1> DEFINE f == [x \in D |-> g[n + 1 - x]]
<1>7. ASSUME NEW x \in D PROVE f[x] = Round(f)[x]
  <2> DEFINE m == n + 1 - x
             y == x + TextStep(s[x])
  <2>1. m \in 0..n /\ n + 1 - m = x /\ x \in Int /\ n \in Int
    BY <1>1
  <2>2. m \in leaves <=> stops(x)
    BY <2>1
  <2>3. g[m] = IF m \in leaves THEN <<>> ELSE <<s[x]>> \o g[m - TextStep(s[x])]
    <3> HIDE DEF m, leaves, n
    <3> QED
      BY <1>6, <2>1
  <2>4. ~ stops(x) => y \in D /\ n + 1 - y = m - TextStep(s[x])
    <3>1. TextStep(s[x]) \in {1, 2}
      BY <1>2
    <3> QED
      BY <1>1, <3>1
  <2>5. ~ stops(x) => f[y] = g[m - TextStep(s[x])]
    <3> HIDE DEF y, m, n
    <3> QED
      BY <2>4
  <2>6. f[x] = g[m]
    OBVIOUS
  <2>7. Round(f)[x] = IF stops(x) THEN <<>> ELSE <<s[x]>> \o f[y]
    <3> HIDE DEF f
    <3> QED
      OBVIOUS
  <2> HIDE DEF f, m, y, leaves, stops, Round
  <2> QED
    BY <2>2, <2>3, <2>5, <2>6, <2>7
<1>8. f = Round(f)
  <2> HIDE DEF stops
  <2> QED
    BY <1>7
<1> DEFINE tf == TextFrom(s)
<1>9. tf = CHOOSE h : h = Round(h)
  BY DEF TextFrom
<1>10. tf = Round(tf)
  <2> HIDE DEF Round, tf, f
  <2> QED
    BY <1>8, <1>9
<1> HIDE DEF tf
<1>11. tf[i] = IF stops(i) THEN <<>> ELSE <<s[i]>> \o tf[i + TextStep(s[i])]
  <2> HIDE DEF stops
  <2> QED
    BY <1>10
<1> QED
  BY <1>11 DEF tf

(* The text up to the brace that ends a run, unless it is one of an escape. *)
LEMMA TextUpTo ==
  ASSUME NEW s, IsText(s), NEW i \in Places(s), NEW b, IsRunEnd(s, i, b),
         ~ IsEscape(s, b)
  PROVE  TextFrom(s)[i] = SubSeq(s, i, b - 1)
<1> DEFINE tf == TextFrom(s)
           e == b - 1
           S == {m \in Nat : b - m >= i => tf[b - m] = SubSeq(s, b - m, e)}
<1>1. /\ Len(s) \in Nat /\ i \in Int /\ 1 <= i /\ b \in Int /\ i <= b
      /\ b <= Len(s) + 1 /\ e \in Int /\ e <= Len(s) /\ b = e + 1
  BY CharOfText DEF IsRunEnd, Places
<1>2. 0 \in S
  <2>1. b \in 1..(Len(s) + 2) /\ (b > Len(s) \/ b \in 1..Len(s))
    BY <1>1
  <2>2. b > Len(s) \/ (s[b] = Opening /\ ~ IsEscape(s, b))
    BY <2>1, CharOfText DEF IsRunEnd, IsEscape, Brace
  <2>3. tf[b] = <<>>
    BY <2>1, <2>2, TextFromOf
  <2>4. Len(SubSeq(s, b, e)) = 0 /\ IsText(SubSeq(s, b, e))
    <3>1. Len(SubSeq(s, b, e)) = e - b + 1 /\ IsText(SubSeq(s, b, e))
      <4> HIDE DEF e
      <4> QED
        BY <1>1, CutOf
    <3> QED
      BY <1>1, <3>1
  <2>5. SubSeq(s, b, e) = <<>>
    BY <2>4, ShortSequences DEF IsText
  <2>6. b - 0 = b
    BY <1>1
  <2> QED
    BY <2>3, <2>5, <2>6
<1>3. ASSUME NEW m \in S, m \in Nat PROVE m + 1 \in S
  <2> DEFINE x == b - (m + 1)
  <2> SUFFICES ASSUME x >= i PROVE tf[x] = SubSeq(s, x, e)
    OBVIOUS
  <2>1. /\ x \in i..(b - 1) /\ x \in 1..Len(s) /\ x \in 1..(Len(s) + 2)
        /\ b - m = x + 1 /\ b - m >= i /\ ~ (x > Len(s)) /\ x <= e
        /\ x \in Int
    BY <1>1, <1>3
  <2>2. tf[x + 1] = SubSeq(s, x + 1, e)
    BY <1>3, <2>1
  <2> HIDE DEF x, tf, e
  <2>3. s[x] \notin Brace
    BY <2>1 DEF IsRunEnd
  <2>4. TextStep(s[x]) = 1 /\ s[x] # Opening
    BY <2>3 DEF TextStep, Brace
  <2>5. tf[x] = <<s[x]>> \o tf[x + 1]
    BY <2>1, <2>4, TextFromOf DEF tf
  <2>6. <<s[x]>> \o SubSeq(s, x + 1, e) = SubSeq(s, x, e)
    BY <1>1, <2>1, FirstAndRest
  <2> QED
    BY <2>2, <2>5, <2>6
<1> HIDE DEF S
<1>4. b - i \in S
  BY <1>1, <1>2, <1>3, Induction
<1>5. b - (b - i) = i /\ i >= i
  BY <1>1
<1> QED
  BY <1>4, <1>5 DEF S

(* A string without a width ends where the text behind its field begins    *)
(* for the first time, if that text ends at a field.                       *)
LEMMA StringOwed ==
  ASSUME IsText(input), NEW i \in Places(input), IsText(text),
         NEW f \in Places(text), ~ IsEscape(text, RunEnd(text)[f]),
         NEW specs, specs.width = NoWidth, NEW r, r = ReadString(specs, i, f)
  PROVE  LET delimiter == TextFrom(text)[f]
             found == Occurrences(input, i, delimiter)
         IN \/ delimiter = <<>>
            \/ found = {} /\ (~ r.ok \/ r.next = Len(input) + 1)
            \/ /\ found # {} /\ r.ok /\ r.next \in found
               /\ \A j \in found : r.next <= j
<1> DEFINE b == RunEnd(text)[f]
           d == TextFrom(text)[f]
           end == Len(input) + 1
           found == Occurrences(input, i, d)
           next == UntilStr(input, i, d)
<1>1. Len(input) \in Nat /\ i \in Nat /\ i <= end /\ Len(text) \in Nat
  BY CharOfText DEF Places
<1>2. d = SubSeq(text, f, b - 1)
  BY RunEndOf, TextUpTo
<1>3. CASE f > Len(text)
  <2>1. f \in 1..(Len(text) + 2)
    BY <1>1 DEF Places
  <2>2. d = <<>>
    BY <1>3, <2>1, TextFromOf
  <2> QED
    BY <2>2
<1>4. CASE ~ (f > Len(text))
  <2>1. f <= Len(text)
    BY <1>1, <1>4 DEF Places
  <2> HIDE DEF d
  <2>2. r = IF next > end \/ i = end THEN Nothing(i)
            ELSE Result(TRUE, View(i, next), next)
    BY <1>2, <1>4, <2>1 DEF ReadString
  <2>3. /\ next \in i..end
        /\ found # {} => next \in found /\ \A k \in found : next <= k
    BY UntilIsInside
  <2>4. found = {} => next = end
    BY DEF UntilStr
  <2>5. ~ Nothing(i).ok
    BY DEF Nothing, Result
  <2>6. CASE found = {}
    <3>1. ~ r.ok \/ r.next = end
      <4> HIDE DEF next, end
      <4> QED
        BY <2>2, <2>4, <2>5, <2>6 DEF Result
    <3> QED
      BY <2>6, <3>1 DEF d
  <2>7. CASE found # {} /\ i # end
    <3>1. ~ (next > end)
      BY <1>1, <2>3
    <3>2. r.ok /\ r.next = next
      BY <2>2, <2>7, <3>1 DEF Result
    <3> HIDE DEF next, found
    <3> QED
      BY <2>3, <2>7, <3>2 DEF d, found
  <2>8. CASE found # {} /\ i = end
    <3>1. next = end /\ next \in found
      BY <1>1, <2>3, <2>8
    <3>2. Matches(input, end, d)
      BY <3>1 DEF Occurrences
    <3>3. end + Len(d) <= end
      BY <3>2 DEF Matches
    <3>4. IsText(d)
      <4>1. IsRunEnd(text, f, b)
        BY RunEndOf
      <4> HIDE DEF b
      <4> DEFINE e == b - 1
      <4>2. f \in Int /\ 1 <= f /\ f <= e + 1 /\ e <= Len(text) /\ e \in Int
        BY <1>1, <4>1 DEF IsRunEnd, Places
      <4> HIDE DEF e
      <4>3. IsText(SubSeq(text, f, e))
        BY <4>2, CutOf
      <4> QED
        BY <1>2, <4>3 DEF e, b
    <3>5. Len(d) = 0
      <4>1. Len(d) \in Nat
        BY <3>4 DEF IsText
      <4> QED
        BY <1>1, <3>3, <4>1
    <3>6. d = <<>>
      BY <3>4, <3>5, ShortSequences DEF IsText
    <3> QED
      BY <3>6 DEF d
  <2> QED
    BY <2>6, <2>7, <2>8 DEF d
<1> QED
  BY <1>3, <1>4

(* No brace of a scan string is doubled.                                   *)
WithoutEscapes ==
  \A s \in Strings : s.trait = "scan" =>
    \A i \in 1..(Len(s.text) - 1) : s.text[i] \in Brace
                                     => s.text[i + 1] # s.text[i]

(* The string in use is one of those of the constant.                      *)
TextInv ==
  \E s \in Strings : trait = s.trait /\ text = s.text

(* The string stays the same.                                              *)
LEMMA TextStays == TextInv /\ [Next]_vars => TextInv'
<1> SUFFICES ASSUME TextInv, [Next]_vars PROVE TextInv'
  OBVIOUS
<1>1. trait' = trait /\ text' = text
  <2>1. CASE FormatNext
    BY <2>1
       DEF FormatNext, WritePlain, ValidateText, ValidateField, Terminate,
           RejectText, RejectField, RejectSpecs, AskMatched, Match,
           EndValidation, Begin, FormatText, FormatField, EndFormat, Continue,
           stringVars
  <2>2. CASE ScanPlain \/ ScanText \/ ScanField \/ EndScan
    BY <2>2 DEF ScanPlain, ScanText, ScanField, EndScan, Continue
  <2>3. CASE UNCHANGED vars
    BY <2>3 DEF vars, formatVars, stringVars
  <2> QED
    BY <2>1, <2>2, <2>3 DEF Next
<1> QED
  BY <1>1 DEF TextInv

(* The run behind a field ends at the next field then.                     *)
LEMMA EndsAtField ==
  ASSUME WithoutEscapes, TextInv, trait = "scan", IsText(text), NEW k, NEW g,
         NEW f \in Places(text), NEW a \in Nat, NEW n \in Nat,
         Passed(trait, text, k, g, f, a, n)
  PROVE  ~ IsEscape(text, RunEnd(text)[f])
<1> DEFINE b == RunEnd(text)[f]
<1>1. Passed(trait, text, k, g, b, a, n)
  BY RunEndPassed
<1>2. b \in Places(text)
  BY RunEndOf, CharOfText DEF IsRunEnd, Places
<1> HIDE DEF b
<1> SUFFICES ASSUME IsEscape(text, b) PROVE FALSE
  BY DEF b
<1>3. TextAt(text, b) /\ Char(text, b) \in Brace
        /\ (Char(text, b) = Opening => Char(text, b + 1) = Opening)
  <2>1. Closing # Opening
    BY Zenon DEF Closing, Opening
  <2> QED
    BY <2>1, EndInNoPart DEF IsEscape, TextAt, Brace
<1>4. TextFine(text, b)
  BY <1>1, <1>2, <1>3, TextPassed
<1>5. Char(text, b + 1) = Char(text, b)
  BY <1>3, <1>4 DEF TextFine, Brace
<1>6. /\ Len(text) \in Nat /\ b \in Int
      /\ Char(text, b) # End /\ Char(text, b + 1) # End
  BY <1>2, <1>3, <1>5, CharOfText, EndInNoPart DEF Brace, Places
<1>7. b \in 1..Len(text) /\ b + 1 \in 1..Len(text)
  BY <1>6, CharOfText
<1>8. b \in 1..(Len(text) - 1) /\ Char(text, b) = text[b]
        /\ Char(text, b + 1) = text[b + 1]
  BY <1>6, <1>7, CharOfText
<1>9. text[b] \in Brace => text[b + 1] # text[b]
  BY <1>8 DEF TextInv, WithoutEscapes
<1> QED
  BY <1>3, <1>5, <1>8, <1>9

(* A string without a width ends where the text behind its field begins    *)
(* for the first time; without that text in the input the scan fails or    *)
(* reads all of it (read_string).  The text must not have escapes: behind  *)
(* those read_string_complex overlooks a beginning of the text.            *)
THEOREM StopsAtTextAlways ==
  ASSUME WithoutTuples, WithoutEscapes PROVE Spec => StopsAtText
<1>1. ParserInv /\ TypedInv /\ AssignedInv /\ TextInv /\ [Next]_vars =>
        [Reads({"string"}) /\ Specified.width = NoWidth =>
           LET delimiter == TextFrom(text)[at']
               found == Occurrences(input, pos, delimiter)
           IN \/ delimiter = <<>>
              \/ /\ found = {}
                 /\ phase' = "failed" \/ pos' = Len(input) + 1
              \/ /\ found # {}
                 /\ phase' = "scanning" /\ pos' \in found
                 /\ \A j \in found : pos' <= j]_vars
  <2> SUFFICES ASSUME ParserInv, TypedInv, AssignedInv, TextInv, [Next]_vars,
                      Reads({"string"}), Specified.width = NoWidth
               PROVE
        LET delimiter == TextFrom(text)[at']
            found == Occurrences(input, pos, delimiter)
        IN \/ delimiter = <<>>
           \/ found = {} /\ (phase' = "failed" \/ pos' = Len(input) + 1)
           \/ /\ found # {} /\ phase' = "scanning" /\ pos' \in found
              /\ \A j \in found : pos' <= j
    OBVIOUS
  <2> DEFINE kind == kinds[Arg + 1]
             specs == Specified
  <2>1. kind = "string"
    BY DEF Reads
  <2>2. PICK f \in Places(text) : \E a, n \in Nat :
          /\ at' = f /\ Passed(trait, text, kinds, fields, f, a, n)
          /\ \E r \in Read(kind, specs, pos, f) : Takes(r)
    BY ReadingStep
  <2>3. PICK a \in Nat, n \in Nat :
          /\ at' = f /\ Passed(trait, text, kinds, fields, f, a, n)
          /\ \E r \in Read(kind, specs, pos, f) : Takes(r)
    BY <2>2
  <2>4. PICK r \in Read(kind, specs, pos, f) : Takes(r)
    BY <2>3
  <2>5. /\ IsText(input) /\ pos \in Places(input) /\ IsText(text)
        /\ trait = "scan"
    BY ReadingStep
  <2> HIDE DEF kind, specs
  <2>6. r = ReadString(specs, pos, f)
    BY <2>1, <2>4 DEF Read
  <2>7. ~ IsEscape(text, RunEnd(text)[f])
    BY <2>3, <2>5, EndsAtField
  <2> DEFINE d == TextFrom(text)[f]
             found == Occurrences(input, pos, d)
  <2>8. \/ d = <<>>
        \/ found = {} /\ (~ r.ok \/ r.next = Len(input) + 1)
        \/ /\ found # {} /\ r.ok /\ r.next \in found
           /\ \A j \in found : r.next <= j
    BY <2>5, <2>6, <2>7, StringOwed DEF specs
  <2>9. phase' = (IF r.ok THEN "scanning" ELSE "failed") /\ pos' = r.next
    BY <2>4 DEF Takes
  <2> HIDE DEF d, found
  <2>10. \/ d = <<>>
         \/ found = {} /\ (phase' = "failed" \/ pos' = Len(input) + 1)
         \/ /\ found # {} /\ phase' = "scanning" /\ pos' \in found
            /\ \A j \in found : pos' <= j
    BY <2>8, <2>9
  <2> QED
    BY <2>3, <2>10 DEF d, found
<1>2. Init => ParserInv /\ TypedInv /\ PartsInv /\ AssignedInv /\ TextInv
  <2>1. Init => TextInv
    BY DEF Init, FormatInit, TextInv
  <2> QED
    BY <2>1, ParserInit, TypedInit, PartsInit, AssignedInit
<1> QED
  BY <1>1, <1>2, ParserStep, TypedStep, PartsStep, AssignedStep, TextStays,
     PTL DEF Spec, StopsAtText
=============================================================================
