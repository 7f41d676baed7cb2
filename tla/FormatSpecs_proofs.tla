------------------------- MODULE FormatSpecs_proofs --------------------------
(***************************************************************************)
(* What both sides of the library rest on: the reader (Reader) and the     *)
(* specs of core types (FormatSpecs).  The operators are defined by        *)
(* recursion, so there is induction over numbers first, and that what such *)
(* a definition describes exists.                                          *)
(*                                                                         *)
(* CoreAgrees says that the parser without checks reads specs as the       *)
(* checking one has read them.                                             *)
(***************************************************************************)
EXTENDS FormatSpecs, SequenceTheorems, FiniteSetTheorems, WellFoundedInduction,
        TLAPS

----------------------------------------------------------------------------
(* Induction over numbers.                                                 *)

(* The order of the numbers.                                               *)
Below == {p \in Nat \X Nat : p[1] < p[2]}

(* Induction over a set of numbers.                                        *)
LEMMA Induction ==
  ASSUME NEW S, 0 \in S, \A n \in S : n \in Nat => n + 1 \in S
  PROVE  Nat \subseteq S
<1>1. IsWellFoundedOn(Below, Nat)
  BY NatLessThanWellFounded DEF OpToRel, Below
<1> SUFFICES ASSUME Nat \ S # {} PROVE FALSE
  OBVIOUS
<1>2. PICK n \in Nat \ S : \A m \in Nat \ S : ~ (<<m, n>> \in Below)
  <2>1. Nat \ S \subseteq Nat
    OBVIOUS
  <2> QED
    BY <1>1, <2>1, WFMin
<1>3. n - 1 \in Nat /\ n - 1 < n /\ (n - 1) + 1 = n
  BY <1>2
<1>4. <<n - 1, n>> \in Below
  BY <1>2, <1>3 DEF Below
<1>5. n - 1 \in S
  BY <1>2, <1>3, <1>4
<1> QED
  BY <1>2, <1>3, <1>5

(* A run from v: each value follows from the one before by G.              *)
IsRun(f, V, v, G, a, n) ==
  /\ f \in [a..(a + n) -> V]
  /\ f[a] = v
  /\ \A k \in (a + 1)..(a + n) : f[k] = G[<<k, f[k - 1]>>]

(* What is defined by recursion over numbers exists.                       *)
LEMMA RunExists ==
  ASSUME NEW V, NEW v \in V, NEW a \in Int, NEW n \in Nat,
         NEW G \in [Int \X V -> V]
  PROVE  \E f : IsRun(f, V, v, G, a, n)
<1> DEFINE S == {m \in Nat : \E f : IsRun(f, V, v, G, a, m)}
<1>1. 0 \in S
  <2>1. IsRun([k \in a..(a + 0) |-> v], V, v, G, a, 0)
    BY DEF IsRun
  <2> QED
    BY <2>1
<1>2. ASSUME NEW m \in S, m \in Nat PROVE m + 1 \in S
  <2>1. PICK f : IsRun(f, V, v, G, a, m)
    BY <1>2
  <2> DEFINE b == a + (m + 1)
             h == [k \in a..b |-> IF k = b THEN G[<<b, f[b - 1]>>] ELSE f[k]]
  <2>2. b \in Int /\ b > a /\ b - 1 = a + m /\ b - 1 \in a..(a + m)
    BY <1>2
  <2>3. f[b - 1] \in V /\ <<b, f[b - 1]>> \in Int \X V
    BY <2>1, <2>2 DEF IsRun
  <2>4. \A k \in a..b : k # b => k \in a..(a + m)
    BY <2>2
  <2> HIDE DEF b
  <2>5. h \in [a..b -> V]
    BY <2>1, <2>3, <2>4 DEF IsRun
  <2>6. h[a] = v
    BY <2>1, <2>2, <2>4 DEF IsRun
  <2>7. ASSUME NEW k \in (a + 1)..b PROVE h[k] = G[<<k, h[k - 1]>>]
    <3>1. k \in a..b /\ k - 1 \in a..b /\ k - 1 # b
      BY <2>2
    <3>2. h[k - 1] = f[k - 1]
      BY <3>1
    <3>3. CASE k = b
      BY <3>1, <3>2, <3>3
    <3>4. CASE k # b
      <4>1. k \in (a + 1)..(a + m)
        BY <2>2, <3>4
      <4> QED
        BY <2>1, <3>1, <3>2, <3>4, <4>1 DEF IsRun
    <3> QED
      BY <3>3, <3>4
  <2> HIDE DEF h
  <2>8. IsRun(h, V, v, G, a, m + 1)
    BY <2>5, <2>6, <2>7 DEF IsRun, b
  <2> QED
    BY <2>8, <1>2
<1> HIDE DEF S
<1>3. n \in S
  BY <1>1, <1>2, Induction
<1> QED
  BY <1>3 DEF S

----------------------------------------------------------------------------
(* Sequences.                                                              *)

(* Two sequences, one behind the other.                                    *)
LEMMA Concat ==
  ASSUME NEW S, NEW u \in Seq(S), NEW v \in Seq(S)
  PROVE  /\ u \o v \in Seq(S)
         /\ Len(u) \in Nat /\ Len(v) \in Nat
         /\ Len(u \o v) = Len(u) + Len(v)
         /\ DOMAIN (u \o v) = 1..(Len(u) + Len(v))
         /\ DOMAIN u = 1..Len(u) /\ DOMAIN v = 1..Len(v)
         /\ \A x \in 1..Len(u) : (u \o v)[x] = u[x]
         /\ \A x \in 1..Len(v) : (u \o v)[Len(u) + x] = v[x]
<1> DEFINE m == Len(u)
           n == Len(v)
           w == u \o v
<1>1. DOMAIN u = 1..m /\ DOMAIN v = 1..n /\ m \in Nat /\ n \in Nat
  BY LenProperties
<1>2. w \in Seq(S) /\ Len(w) = m + n
  BY ConcatProperties
<1>3. DOMAIN w = 1..(m + n)
  BY <1>2, LenProperties
<1>4. \A i \in 1..(m + n) : w[i] = IF i <= m THEN u[i] ELSE v[i - m]
  BY ConcatProperties
<1> HIDE DEF m, n, w
<1>5. \A x \in 1..m : w[x] = u[x]
  BY <1>1, <1>4
<1>6. ASSUME NEW x \in 1..n PROVE w[m + x] = v[x]
  <2>1. /\ m + x \in 1..(m + n) /\ ~ (m + x <= m) /\ (m + x) - m = x
    BY <1>1
  <2> QED
    BY <1>4, <2>1
<1> QED
  BY <1>1, <1>2, <1>3, <1>5, <1>6 DEF m, n, w

(* w has the elements of u and then those of v.                            *)
IsSequence(u) == u \in Seq(Range(u))

Joined(w, u, v) ==
  /\ IsSequence(w) /\ Len(u) \in Nat /\ Len(v) \in Nat
  /\ Len(w) = Len(u) + Len(v) /\ DOMAIN w = 1..Len(w)
  /\ \A x \in 1..Len(u) : w[x] = u[x]
  /\ \A x \in 1..Len(v) : w[Len(u) + x] = v[x]

(* A sequence over some set is one over its elements.                      *)
LEMMA SequenceOf ==
  ASSUME NEW S, NEW u \in Seq(S)
  PROVE  IsSequence(u) /\ Len(u) \in Nat /\ DOMAIN u = 1..Len(u)
<1>1. Len(u) \in Nat /\ DOMAIN u = 1..Len(u) /\ u \in [1..Len(u) -> S]
  OBVIOUS
<1>2. u \in [1..Len(u) -> Range(u)]
  BY <1>1 DEF Range
<1> QED
  BY <1>1, <1>2 DEF IsSequence

(* Two sequences, one behind the other, are joined.                        *)
LEMMA Joining ==
  ASSUME NEW u, IsSequence(u), NEW v, IsSequence(v)
  PROVE  Joined(u \o v, u, v)
<1> DEFINE S == Range(u) \cup Range(v)
<1>1. u \in Seq(S) /\ v \in Seq(S)
  <2>1. u \in Seq(Range(u)) /\ v \in Seq(Range(v))
    BY DEF IsSequence
  <2>2. Range(u) \subseteq S /\ Range(v) \subseteq S
    OBVIOUS
  <2> HIDE DEF S
  <2> QED
    BY <2>1, <2>2, SeqMonotonic
<1> HIDE DEF S
<1>2. IsSequence(u \o v) /\ DOMAIN (u \o v) = 1..Len(u \o v)
  BY <1>1, Concat, SequenceOf
<1> QED
  BY <1>1, <1>2, Concat DEF Joined

(* A sequence of one element.                                              *)
LEMMA OneIsSequence ==
  ASSUME NEW x
  PROVE  IsSequence(<<x>>) /\ Len(<<x>>) = 1 /\ <<x>>[1] = x
<1>1. <<x>> \in Seq({x})
  OBVIOUS
<1> QED
  BY <1>1, SequenceOf

(* Appending joins a sequence of one.                                      *)
LEMMA Appending ==
  ASSUME NEW u, IsSequence(u), NEW x
  PROVE  /\ Joined(Append(u, x), u, <<x>>)
         /\ Append(u, x) = u \o <<x>>
<1> DEFINE S == Range(u) \cup {x}
<1>1. u \in Seq(S) /\ x \in S
  <2>1. u \in Seq(Range(u)) /\ Range(u) \subseteq S /\ x \in S
    BY DEF IsSequence
  <2> HIDE DEF S
  <2> QED
    BY <2>1, SeqMonotonic
<1> HIDE DEF S
<1>2. Append(u, x) = u \o <<x>>
  BY <1>1, AppendIsConcat
<1> QED
  BY <1>2, OneIsSequence, Joining

----------------------------------------------------------------------------
(* Texts, digits and numbers (Reader).                                     *)

(* A place in the string, the one behind its last character included.      *)
Places(s) == 1..(Len(s) + 1)

(* A text has no End in it.                                                *)
IsText(s) == s \in Seq(STRING \ {End})

(* Char gives End outside of a text, and only there.                       *)
LEMMA CharOfText ==
  ASSUME NEW s, IsText(s), NEW i \in Int
  PROVE  /\ Len(s) \in Nat /\ DOMAIN s = 1..Len(s)
         /\ Char(s, i) = End <=> i \notin 1..Len(s)
         /\ i \in 1..Len(s) => s[i] = Char(s, i) /\ s[i] \in Range(s)
<1>1. Len(s) \in Nat /\ DOMAIN s = 1..Len(s)
  BY DEF IsText
<1>2. \A j \in 1..Len(s) : s[j] \in STRING \ {End}
  BY ElementOfSeq DEF IsText
<1> QED
  BY <1>1, <1>2 DEF Char, Range

(* The row of the characters between '9' and 'A'.                          *)
LEMMA RowOfSeven ==
  ASSUME NEW c, c # End
  PROVE  LET row == <<":", c, "<", "=", ">", "?", "@">> IN
         DOMAIN row = 1..7 /\ Len(row) = 7 /\ \A x \in 1..7 : row[x] # End
  BY DEF End

(* None of the characters between '9' and 'A' is the End.                  *)
LEMMA BetweenRow ==
  DOMAIN Between = 1..7 /\ Len(Between) = 7 /\ \A x \in 1..7 : Between[x] # End
<1>1. ";" # End
  BY Zenon DEF End
<1> QED
  BY <1>1, RowOfSeven, Zenon DEF Between

(* The rows of digits and letters, without the End.                        *)
LEMMA Rows ==
  /\ DOMAIN Digits = 1..10 /\ DOMAIN Upper = 1..26 /\ DOMAIN Lower = 1..26
  /\ Len(Digits) = 10
  /\ \A x \in 1..10 : Digits[x] # End
  /\ \A x \in 1..26 : Upper[x] # End
  /\ \A x \in 1..26 : Lower[x] # End
<1>1. \A x \in 1..10 : Digits[x] # End
  BY DEF Digits, End
<1>3. \A x \in 1..26 : Upper[x] # End
  BY DEF Upper, End
<1>4. \A x \in 1..26 : Lower[x] # End
  BY DEF Lower, End
<1>5. DOMAIN Digits = 1..10 /\ Len(Digits) = 10
  BY DEF Digits
<1>6. DOMAIN Upper = 1..26
  BY DEF Upper
<1>7. DOMAIN Lower = 1..26
  BY DEF Lower
<1> QED
  BY <1>1, <1>3, <1>4, <1>5, <1>6, <1>7

(* A digit is a character of the text with a value.                        *)
LEMMA DigitIsChar ==
  ASSUME NEW base \in 2..36, NEW c, IsDigit(c, base)
  PROVE  c # End /\ c \in DOMAIN CharValue
<1>1. End \notin Alpha
  BY Rows DEF Alpha, Range
<1>2. End \notin Range(Digits \o Between)
  <2> DEFINE S == Range(Digits) \cup Range(Between)
  <2>1. Digits \in Seq(S) /\ Len(Digits) = 10
    <3>1. \A x \in 1..10 : Digits[x] \in S
      BY Rows DEF Range
    <3> HIDE DEF S
    <3> QED
      BY <3>1 DEF Digits
  <2>2. Between \in Seq(S)
    <3>1. \A x \in 1..7 : Between[x] \in S
      BY BetweenRow DEF Range
    <3> HIDE DEF S
    <3>2. ASSUME NEW d, NEW row, row = <<":", d, "<", "=", ">", "?", "@">>,
                 \A x \in 1..7 : row[x] \in S
          PROVE  row \in Seq(S)
      BY <3>2
    <3> QED
      BY <3>1, <3>2, Zenon DEF Between
  <2>3. Digits \o Between \in Seq(S)
    BY <2>1, <2>2
  <2>4. End \notin S
    BY Rows, BetweenRow DEF Range
  <2> HIDE DEF S
  <2> QED
    BY <2>3, <2>4 DEF Range
<1>3. End \notin DOMAIN CharValue
  BY <1>1, <1>2 DEF CharValue
<1> QED
  BY <1>3 DEF IsDigit, DigitsOf

(* The first place of a set.                                               *)
LEMMA FirstPlace ==
  ASSUME NEW P, NEW i \in Int, NEW n \in Int, i <= n, n \in P
  PROVE  \E j \in i..n : j \in P /\ \A k \in i..(j - 1) : k \notin P
<1> DEFINE S == {m \in Nat : \/ i + m > n
                             \/ \A k \in i..(i + m) : k \notin P
                             \/ \E j \in i..n :
                                  j \in P /\ \A k \in i..(j - 1) : k \notin P}
<1>1. 0 \in S
  <2>1. CASE i \in P
    <3>1. i \in i..n /\ \A k \in i..(i - 1) : k \notin P
      OBVIOUS
    <3> QED
      BY <2>1, <3>1
  <2>2. CASE i \notin P
    <3>1. \A k \in i..(i + 0) : k = i
      OBVIOUS
    <3> QED
      BY <2>2, <3>1
  <2> QED
    BY <2>1, <2>2
<1>2. ASSUME NEW m \in S, m \in Nat PROVE m + 1 \in S
  <2>1. CASE i + (m + 1) > n
    BY <2>1
  <2>2. CASE ~ (i + (m + 1) > n) /\ \A k \in i..(i + m) : k \notin P
    <3> DEFINE j == i + (m + 1)
    <3>1. j \in i..n /\ j - 1 = i + m
      BY <2>2
    <3>2. CASE j \in P
      <4>1. \E x \in i..n : x \in P /\ \A k \in i..(x - 1) : k \notin P
        BY <2>2, <3>1, <3>2
      <4> QED
        BY <4>1
    <3>3. CASE j \notin P
      <4>1. \A k \in i..j : k = j \/ k \in i..(i + m)
        BY <3>1
      <4> QED
        BY <2>2, <3>3, <4>1
    <3> QED
      BY <3>2, <3>3
  <2>3. CASE \E j \in i..n : j \in P /\ \A k \in i..(j - 1) : k \notin P
    BY <2>3
  <2> QED
    BY <1>2, <2>1, <2>2, <2>3
<1>3. n - i \in S /\ i + (n - i) = n
  <2> HIDE DEF S
  <2>1. n - i \in Nat /\ i + (n - i) = n
    OBVIOUS
  <2> QED
    BY <1>1, <1>2, <2>1, Induction
<1> QED
  BY <1>3

(* The digits from a place on end somewhere.                               *)
IsDigitsEnd(s, base, i, j) ==
  /\ j \in i..(Len(s) + 1)
  /\ ~ IsDigit(Char(s, j), base)
  /\ \A k \in i..(j - 1) : IsDigit(s[k], base)

(* DigitsEnd finds that end.                                               *)
LEMMA DigitsEndOf ==
  ASSUME NEW s, IsText(s), NEW i \in Places(s), NEW base \in 2..36
  PROVE  IsDigitsEnd(s, base, i, DigitsEnd(s, base)[i])
<1> DEFINE P == {j \in Places(s) : ~ IsDigit(Char(s, j), base)}
           n == Len(s) + 1
<1>1. Len(s) \in Nat /\ i \in Int /\ n \in Int /\ i <= n /\ n \in Places(s)
  BY CharOfText DEF Places
<1>2. Char(s, n) = End
  BY <1>1, CharOfText
<1>3. n \in P
  BY <1>1, <1>2, DigitIsChar
<1> HIDE DEF P
<1>4. PICK j \in i..n : j \in P /\ \A k \in i..(j - 1) : k \notin P
  BY <1>1, <1>3, FirstPlace
<1>5. \A k \in i..(j - 1) : k \in Places(s) /\ s[k] = Char(s, k)
  <2>1. \A k \in i..(j - 1) : k \in 1..Len(s) /\ k \in Int
    BY <1>1, <1>4 DEF Places
  <2> QED
    BY <2>1, CharOfText DEF Places
<1>6. \A k \in i..(j - 1) : IsDigit(s[k], base)
  BY <1>4, <1>5 DEF P
<1>7. IsDigitsEnd(s, base, i, j)
  BY <1>4, <1>6 DEF P, IsDigitsEnd
<1>8. DigitsEnd(s, base)[i] = CHOOSE x \in i..n : IsDigitsEnd(s, base, i, x)
  BY DEF DigitsEnd, IsDigitsEnd, Places
<1> QED
  BY <1>4, <1>7, <1>8

(* Every row of digits holds at most 36.                                   *)
LEMMA RowsAsSeqs ==
  /\ Digits \in Seq(Range(Digits)) /\ Len(Digits) = 10
  /\ Upper \in Seq(Range(Upper)) /\ Len(Upper) = 26
  /\ Lower \in Seq(Range(Lower)) /\ Len(Lower) = 26
  /\ Between \in Seq(Range(Between)) /\ Len(Between) = 7
<1>1. \A x \in 1..10 : Digits[x] \in Range(Digits)
  BY Rows DEF Range
<1>2. \A x \in 1..26 : Upper[x] \in Range(Upper)
  BY Rows DEF Range
<1>3. \A x \in 1..26 : Lower[x] \in Range(Lower)
  BY Rows DEF Range
<1>4. \A x \in 1..7 : Between[x] \in Range(Between)
  BY BetweenRow DEF Range
<1>5. ASSUME NEW S, \A x \in 1..10 : Digits[x] \in S
      PROVE  Digits \in Seq(S) /\ Len(Digits) = 10
  BY <1>5 DEF Digits
<1>6. ASSUME NEW S, \A x \in 1..26 : Upper[x] \in S
      PROVE  Upper \in Seq(S) /\ Len(Upper) = 26
  BY <1>6 DEF Upper
<1>7. ASSUME NEW S, \A x \in 1..26 : Lower[x] \in S
      PROVE  Lower \in Seq(S) /\ Len(Lower) = 26
  BY <1>7 DEF Lower
<1>8. ASSUME NEW S, \A x \in 1..7 : Between[x] \in S
      PROVE  Between \in Seq(S)
  <2>1. ASSUME NEW c, NEW row, row = <<":", c, "<", "=", ">", "?", "@">>,
               \A x \in 1..7 : row[x] \in S
        PROVE  row \in Seq(S)
    BY <2>1
  <2> QED
    BY <1>8, <2>1, Zenon DEF Between
<1> QED
  BY <1>1, <1>2, <1>3, <1>4, <1>5, <1>6, <1>7, <1>8, BetweenRow

(* A row of n different characters, and a character in it.                 *)
Holding(row, c) == \E n \in 0..35 : n < Len(row) /\ row[n + 1] = c
IsRow(row, n) == row \in Seq(Range(row)) /\ Len(row) = n
Begins(row, w, n) == \A x \in 1..n : w[x] = row[x]

(* A character of two rows is found in the one behind the other.           *)
LEMMA InRow ==
  ASSUME NEW u, NEW m \in Nat, IsRow(u, m), NEW v, NEW n \in Nat, IsRow(v, n),
         m + n <= 36
  PROVE  /\ Range(u \o v) = Range(u) \cup Range(v)
         /\ \A c \in Range(u \o v) : Holding(u \o v, c)
         /\ Begins(u, u \o v, m)
<1> DEFINE S == Range(u) \cup Range(v)
           w == u \o v
<1>1. u \in Seq(S) /\ v \in Seq(S)
  BY DEF IsRow
<1> HIDE DEF S
<1>2. /\ Len(w) = m + n /\ DOMAIN w = 1..(m + n)
      /\ DOMAIN u = 1..m /\ DOMAIN v = 1..n
      /\ \A x \in 1..m : w[x] = u[x]
      /\ \A x \in 1..n : w[m + x] = v[x]
  <2>1. Len(u) = m /\ Len(v) = n
    BY DEF IsRow
  <2>2. /\ Len(w) = Len(u) + Len(v) /\ DOMAIN w = 1..(Len(u) + Len(v))
        /\ DOMAIN u = 1..Len(u) /\ DOMAIN v = 1..Len(v)
        /\ \A x \in 1..Len(u) : w[x] = u[x]
        /\ \A x \in 1..Len(v) : w[Len(u) + x] = v[x]
    BY <1>1, Concat
  <2> HIDE DEF w
  <2> QED
    BY <2>1, <2>2
<1> HIDE DEF w
<1>3. \A x \in 1..m : w[x] \in Range(u) /\ u[x] \in Range(w)
  <2>1. \A x \in 1..m : x \in 1..(m + n)
    OBVIOUS
  <2> QED
    BY <1>2, <2>1 DEF Range
<1>4. \A x \in 1..n : w[m + x] \in Range(v) /\ v[x] \in Range(w)
  <2>1. \A x \in 1..n : m + x \in 1..(m + n)
    OBVIOUS
  <2> QED
    BY <1>2, <2>1 DEF Range
<1>5. ASSUME NEW x \in 1..(m + n) PROVE w[x] \in Range(u) \cup Range(v)
  <2>1. CASE x <= m
    BY <1>3, <2>1
  <2>2. CASE x > m
    <3>1. x - m \in 1..n /\ m + (x - m) = x
      BY <2>2
    <3> QED
      BY <1>4, <3>1
  <2> QED
    BY <2>1, <2>2
<1>6. Range(w) = Range(u) \cup Range(v)
  BY <1>2, <1>3, <1>4, <1>5 DEF Range
<1>7. ASSUME NEW c \in Range(w) PROVE Holding(w, c)
  <2>1. PICK x \in 1..(m + n) : w[x] = c
    BY <1>2 DEF Range
  <2>2. x - 1 \in 0..35 /\ x - 1 < m + n /\ (x - 1) + 1 = x
    OBVIOUS
  <2>3. Len(w) = m + n
    BY <1>2
  <2> QED
    BY <2>1, <2>2, <2>3 DEF Holding
<1> QED
  BY <1>2, <1>6, <1>7 DEF w, Begins

(* A digit is found in one of the rows, where its value says.              *)
LEMMA RowOfChar ==
  ASSUME NEW c \in DOMAIN CharValue
  PROVE  /\ CharValue[c] \in 0..35
         /\ \E r \in 1..3 : /\ CharValue[c] < Len(DigitRows[r])
                            /\ DigitRows[r][CharValue[c] + 1] = c
<1>1. IsRow(Digits, 10) /\ IsRow(Between, 7) /\ IsRow(Upper, 26)
        /\ IsRow(Lower, 26)
  BY RowsAsSeqs DEF IsRow
<1>2. DigitRows[1] = Digits \o Between /\ DigitRows[2] = Digits \o Upper
        /\ DigitRows[3] = Digits \o Lower
  BY DEF DigitRows
<1>3. c \in Range(Digits \o Between) \cup Range(Upper) \cup Range(Lower)
  BY DEF CharValue, Alpha
<1>4. \/ Holding(DigitRows[1], c) \/ Holding(DigitRows[2], c)
      \/ Holding(DigitRows[3], c)
  <2>1. c \in Range(Digits \o Between) => Holding(Digits \o Between, c)
    BY <1>1, InRow
  <2>2. c \in Range(Upper) => Holding(Digits \o Upper, c)
    BY <1>1, InRow
  <2>3. c \in Range(Lower) => Holding(Digits \o Lower, c)
    BY <1>1, InRow
  <2> QED
    BY <1>2, <1>3, <2>1, <2>2, <2>3
<1>5. \E n \in 0..35 :
        \E r \in 1..3 : n < Len(DigitRows[r]) /\ DigitRows[r][n + 1] = c
  BY <1>4 DEF Holding
<1>6. CharValue[c] = CHOOSE n \in 0..35 :
        \E r \in 1..3 : n < Len(DigitRows[r]) /\ DigitRows[r][n + 1] = c
  BY DEF CharValue
<1> QED
  BY <1>5, <1>6

(* Digits are worth at most 35.                                            *)
LEMMA ValueOfChar ==
  ASSUME NEW c \in DOMAIN CharValue
  PROVE  CharValue[c] \in 0..35
  BY RowOfChar

(* There are words and bytes.                                              *)
LEMMA ByteBelowWord == Word \in Nat \ {0} /\ Byte \in Nat \ {0}
  BY WidthAssumption

(* Wrapping a number gives a number that is not too low.                   *)
LEMMA WrappedInt ==
  ASSUME NEW n \in Int, NEW low \in Int
  PROVE  Wrapped(n, low) \in Int /\ Wrapped(n, low) >= low
  BY ByteBelowWord DEF Wrapped

(* f is defined by recursion on 0..n: outside of the leaves, its value at m *)
(* follows by G from the one at J[m].                                      *)
Recursive(f, V, n, leaves, E, J, G) ==
  /\ f \in [0..n -> V]
  /\ f = [m \in 0..n |-> IF m \in leaves THEN E[m] ELSE G[<<m, f[J[m]]>>]]

(* What is defined by such a recursion exists, if J goes down.             *)
LEMMA RecursionExists ==
  ASSUME NEW V, NEW n \in Nat, NEW leaves, NEW E, NEW J, NEW G,
         \A m \in 0..n : m \in leaves => E[m] \in V,
         \A m \in 0..n : m \notin leaves => J[m] \in 0..(m - 1),
         \A m \in 0..n : \A v \in V : G[<<m, v>>] \in V
  PROVE  \E f : Recursive(f, V, n, leaves, E, J, G)
<1> DEFINE Value(f, m) == IF m \in leaves THEN E[m] ELSE G[<<m, f[J[m]]>>]
           Part(f, p) == f \in [0..p -> V] /\ f = [m \in 0..p |-> Value(f, m)]
           S == {p \in Nat : p <= n => \E f : Part(f, p)}
<1>1. 0 \in S
  <2>1. 0 \in leaves
    <3>1. 0 \in 0..n
      OBVIOUS
    <3>2. 0..(0 - 1) = {}
      OBVIOUS
    <3> QED
      BY <3>1, <3>2
  <2> DEFINE f == [m \in 0..0 |-> E[m]]
  <2>2. \A m \in 0..0 : m = 0
    OBVIOUS
  <2>3. \A m \in 0..0 : Value(f, m) = E[m] /\ E[m] \in V
    BY <2>1, <2>2
  <2>4. Part(f, 0)
    BY <2>3
  <2> QED
    BY <2>4
<1>2. ASSUME NEW p \in S, p \in Nat PROVE p + 1 \in S
  <2> SUFFICES ASSUME p + 1 <= n PROVE \E f : Part(f, p + 1)
    BY <1>2
  <2>1. PICK f : Part(f, p)
    BY <1>2
  <2> DEFINE b == p + 1
             h == [m \in 0..b |-> IF m = b THEN Value(f, b) ELSE f[m]]
  <2>2. b \in 0..n /\ \A m \in 0..b : m \in 0..n /\ (m # b => m \in 0..p)
    BY <1>2
  <2>3. \A m \in 0..b : m \notin leaves => J[m] \in 0..p /\ J[m] # b
                                           /\ J[m] \in 0..b
    <3>1. ASSUME NEW m \in 0..b, m \notin leaves PROVE J[m] \in 0..(m - 1)
      BY <3>1, <2>2
    <3> QED
      BY <3>1, <1>2
  <2> HIDE DEF b
  <2>4. \A m \in 0..b : m \notin leaves => h[J[m]] = f[J[m]]
    BY <2>3
  <2>5. ASSUME NEW m \in 0..b
        PROVE  Value(h, m) = Value(f, m) /\ Value(f, m) \in V
    <3> HIDE DEF h
    <3>1. Value(h, m) = Value(f, m)
      BY <2>4
    <3>2. m \notin leaves => f[J[m]] \in V
      BY <2>1, <2>3
    <3> QED
      BY <2>2, <3>1, <3>2
  <2>6. ASSUME NEW m \in 0..b PROVE h[m] = Value(h, m) /\ h[m] \in V
    <3>1. CASE m = b
      BY <2>5, <3>1
    <3>2. CASE m # b
      <4>1. f[m] = Value(f, m)
        BY <2>1, <2>2, <3>2, Zenon
      <4>2. h[m] = f[m]
        BY <3>2
      <4> QED
        BY <2>5, <4>1, <4>2
    <3> QED
      BY <3>1, <3>2
  <2>7. h = [m \in 0..b |-> h[m]]
    OBVIOUS
  <2> HIDE DEF h, Value
  <2>8. Part(h, b)
    BY <2>6, <2>7
  <2> QED
    BY <2>8 DEF b
<1> HIDE DEF S
<1>3. n \in S
  BY <1>1, <1>2, Induction
<1> QED
  BY <1>3 DEF S, Recursive

(* What parse_int accumulates, digit by digit.                             *)
LEMMA AccumulatedOf ==
  ASSUME NEW s, NEW i \in Int, NEW j \in Int, i <= j,
         NEW base \in Int, NEW sign \in Int, NEW low \in Int, low <= 0,
         \A k \in i..(j - 1) : CharValue[s[k]] \in Int
  PROVE  LET acc == Accumulated(s, i, j, base, sign, low) IN
         /\ acc[i - 1] = 0
         /\ \A k \in i..(j - 1) :
              acc[k] = Wrapped(acc[k - 1] * base + sign * CharValue[s[k]], low)
<1> DEFINE V == {n \in Int : n >= low}
           D == (i - 1)..(j - 1)
           G == [p \in Int \X V |->
                   IF p[1] \in i..(j - 1)
                     THEN Wrapped(p[2] * base + sign * CharValue[s[p[1]]], low)
                   ELSE 0]
           Round(f) ==
             [k \in D |-> IF k < i THEN 0
                ELSE Wrapped(f[k - 1] * base + sign * CharValue[s[k]], low)]
<1>1. G \in [Int \X V -> V]
  <2>1. ASSUME NEW p \in Int \X V PROVE G[p] \in V
    <3>1. CASE p[1] \in i..(j - 1)
      <4>1. p[2] \in Int /\ CharValue[s[p[1]]] \in Int
        BY <3>1
      <4>2. p[2] * base + sign * CharValue[s[p[1]]] \in Int
        BY <4>1
      <4>3. G[p] = Wrapped(p[2] * base + sign * CharValue[s[p[1]]], low)
        BY <3>1
      <4> HIDE DEF G
      <4> QED
        BY <4>2, <4>3, WrappedInt
    <3>2. CASE p[1] \notin i..(j - 1)
      BY <3>2
    <3> QED
      BY <3>1, <3>2
  <2> QED
    BY <2>1
<1> HIDE DEF G
<1>2. 0 \in V /\ i - 1 \in Int /\ j - i \in Nat /\ (i - 1) + (j - i) = j - 1
        /\ (i - 1) + 1 = i
  OBVIOUS
<1>3. PICK f : IsRun(f, V, 0, G, i - 1, j - i)
  <2> HIDE DEF V
  <2> QED
    BY <1>1, <1>2, RunExists
<1>4. f \in [D -> V] /\ f[i - 1] = 0
        /\ \A k \in i..(j - 1) : f[k] = G[<<k, f[k - 1]>>]
  BY <1>2, <1>3 DEF IsRun
<1>5. ASSUME NEW k \in D PROVE f[k] = Round(f)[k]
  <2>1. CASE k < i
    <3>1. k = i - 1
      BY <2>1
    <3> QED
      BY <1>4, <2>1, <3>1
  <2>2. CASE ~ (k < i)
    <3>1. k \in i..(j - 1) /\ k - 1 \in D /\ k \in Int
      BY <2>2
    <3>2. f[k - 1] \in V
      BY <1>4, <3>1
    <3>3. G[<<k, f[k - 1]>>] =
            Wrapped(f[k - 1] * base + sign * CharValue[s[k]], low)
      <4> HIDE DEF V
      <4> QED
        BY <3>1, <3>2 DEF G
    <3> QED
      BY <1>4, <2>2, <3>1, <3>3
  <2> QED
    BY <2>1, <2>2
<1>6. f = Round(f)
  BY <1>4, <1>5
<1> DEFINE acc == Accumulated(s, i, j, base, sign, low)
<1>7. acc = CHOOSE g : g = Round(g)
  BY DEF Accumulated
<1>8. acc = Round(acc)
  <2> HIDE DEF Round, acc
  <2> QED
    BY <1>6, <1>7
<1> HIDE DEF acc
<1>9. acc[i - 1] = 0 /\ \A k \in i..(j - 1) :
        acc[k] = Wrapped(acc[k - 1] * base + sign * CharValue[s[k]], low)
  <2>1. i - 1 \in D /\ \A k \in i..(j - 1) : k \in D /\ ~ (k < i)
    OBVIOUS
  <2> QED
    BY <1>8, <2>1
<1> QED
  BY <1>9 DEF acc

(* It is a number that is not too low.                                     *)
LEMMA AccumulatedInt ==
  ASSUME NEW s, NEW i \in Int, NEW j \in Int, i <= j,
         NEW base \in Int, NEW sign \in Int, NEW low \in Int, low <= 0,
         \A k \in i..(j - 1) : CharValue[s[k]] \in Int
  PROVE  \A k \in (i - 1)..(j - 1) :
           LET n == Accumulated(s, i, j, base, sign, low)[k]
           IN n \in Int /\ n >= low
<1> DEFINE V == {n \in Int : n >= low}
           D == (i - 1)..(j - 1)
           acc == Accumulated(s, i, j, base, sign, low)
<1>1. acc[i - 1] = 0 /\ \A k \in i..(j - 1) :
        acc[k] = Wrapped(acc[k - 1] * base + sign * CharValue[s[k]], low)
  BY AccumulatedOf
<1> HIDE DEF acc
<1> DEFINE S == {m \in Nat : (i - 1) + m <= j - 1 => acc[(i - 1) + m] \in V}
<1>2. 0 \in S
  <2>1. (i - 1) + 0 = i - 1
    OBVIOUS
  <2> QED
    BY <1>1, <2>1
<1>3. ASSUME NEW m \in S, m \in Nat PROVE m + 1 \in S
  <2> SUFFICES ASSUME (i - 1) + (m + 1) <= j - 1
               PROVE  acc[(i - 1) + (m + 1)] \in V
    BY <1>3
  <2> DEFINE k == (i - 1) + (m + 1)
  <2>1. k \in i..(j - 1) /\ k - 1 = (i - 1) + m /\ (i - 1) + m <= j - 1
    BY <1>3
  <2>2. acc[k - 1] \in V
    BY <1>3, <2>1
  <2> HIDE DEF k
  <2>3. acc[k - 1] \in Int /\ CharValue[s[k]] \in Int
    BY <2>1, <2>2
  <2>4. acc[k - 1] * base + sign * CharValue[s[k]] \in Int
    BY <2>3
  <2>5. acc[k] = Wrapped(acc[k - 1] * base + sign * CharValue[s[k]], low)
    BY <1>1, <2>1
  <2>6. acc[k] \in V
    BY <2>4, <2>5, WrappedInt
  <2> QED
    BY <2>6 DEF k
<1>4. ASSUME NEW k \in D PROVE acc[k] \in V
  <2>1. k - (i - 1) \in Nat /\ (i - 1) + (k - (i - 1)) = k /\ k <= j - 1
    OBVIOUS
  <2>2. k - (i - 1) \in S
    <3> HIDE DEF S
    <3> QED
      BY <1>2, <1>3, <2>1, Induction
  <2> QED
    BY <2>1, <2>2
<1> QED
  BY <1>4 DEF acc

(* What parse_int has read: its place is behind the digits.                *)
NumberRead == [ok : BOOLEAN, value : Nat, next : Nat]

(* parse_int stops behind the digits, and it has read some if it succeeds. *)
LEMMA UnsignedRead ==
  ASSUME NEW s, IsText(s), NEW i \in Places(s), NEW base \in 2..36
  PROVE  LET n == ParseUnsigned(s, base)[i] IN
         /\ n \in NumberRead
         /\ n.next = DigitsEnd(s, base)[i] /\ n.next \in i..(Len(s) + 1)
         /\ n.ok => i < n.next
<1> DEFINE j == DigitsEnd(s, base)[i]
           acc == Accumulated(s, i, j, base, 1, 0)
           grows == i < j /\ \A k \in i..(j - 1) : acc[k] >= acc[k - 1]
<1>1. ParseUnsigned(s, base)[i] =
        [ok |-> grows, value |-> acc[j - 1], next |-> j]
  BY DEF ParseUnsigned, Places
<1>2. IsDigitsEnd(s, base, i, j)
  BY DigitsEndOf
<1>3. Len(s) \in Nat /\ i \in Nat
  BY CharOfText DEF Places
<1> HIDE DEF j
<1>4. j \in i..(Len(s) + 1) /\ j \in Int /\ i <= j
      /\ j - 1 \in (i - 1)..(j - 1)
  BY <1>2, <1>3 DEF IsDigitsEnd
<1>5. \A k \in i..(j - 1) : CharValue[s[k]] \in Int
  <2>1. \A k \in i..(j - 1) : s[k] \in DOMAIN CharValue
    BY <1>2, DigitIsChar DEF IsDigitsEnd
  <2>2. \A k \in i..(j - 1) : CharValue[s[k]] \in 0..35
    BY <2>1, ValueOfChar
  <2> QED
    BY <2>2
<1>6. acc[j - 1] \in Nat
  <2>1. \A k \in (i - 1)..(j - 1) :
          LET n == Accumulated(s, i, j, base, 1, 0)[k] IN n \in Int /\ n >= 0
    BY <1>3, <1>4, <1>5, AccumulatedInt
  <2> QED
    BY <1>4, <2>1
<1>7. grows \in BOOLEAN
  OBVIOUS
<1> HIDE DEF acc, grows
<1>8. grows => i < j
  BY DEF grows
<1> QED
  BY <1>1, <1>3, <1>4, <1>6, <1>7, <1>8 DEF NumberRead, j

(* Where a part ends.                                                      *)
LEMMA PartEnds ==
  ASSUME NEW s, IsText(s), NEW i \in Places(s), NEW S, End \notin S
  PROVE  LET j == PartEnd(s, S)[i] IN
         /\ j \in i..(i + 1) /\ j \in Places(s)
         /\ (j > i) <=> Char(s, i) \in S
         /\ j > i => i \in 1..Len(s)
<1>1. Len(s) \in Nat /\ i \in Int /\ (Char(s, i) = End <=> i \notin 1..Len(s))
  BY CharOfText DEF Places
<1>2. PartEnd(s, S)[i] = IF Char(s, i) \in S THEN i + 1 ELSE i
  BY DEF PartEnd, Places
<1> QED
  BY <1>1, <1>2 DEF Places

(* Fill character and alignment: two characters, one or none.              *)
LEMMA AlignEnds ==
  ASSUME NEW s, IsText(s), NEW i \in Places(s)
  PROVE  LET j == AlignEnd(s)[i] IN
         /\ j \in i..(i + 2) /\ j \in Places(s)
         /\ j > i => i \in 1..Len(s) /\ j - 1 \in 1..Len(s)
<1>1. Len(s) \in Nat /\ i \in Int /\ (Char(s, i) = End <=> i \notin 1..Len(s))
        /\ (Char(s, i + 1) = End <=> i + 1 \notin 1..Len(s))
  BY CharOfText DEF Places
<1>2. AlignEnd(s)[i] = IF Char(s, i + 1) \in Align THEN i + 2
                       ELSE IF Char(s, i) \in Align THEN i + 1 ELSE i
  BY DEF AlignEnd, Places
<1>3. End \notin Align
  BY DEF End, Align
<1> QED
  BY <1>1, <1>2, <1>3 DEF Places

(* A precision begins with a point.                                        *)
LEMMA PrecisionEnds ==
  ASSUME NEW s, IsText(s), NEW i \in Places(s)
  PROVE  LET j == PrecisionEnd(s)[i] IN
         /\ j \in i..(Len(s) + 1)
         /\ j > i => i + 1 \in Places(s) /\ Char(s, i) = "."
<1>1. Len(s) \in Nat /\ i \in Int /\ (Char(s, i) = End <=> i \notin 1..Len(s))
  BY CharOfText DEF Places
<1>2. PrecisionEnd(s)[i] =
        IF Char(s, i) = "." THEN DigitsEnd(s, 10)[i + 1] ELSE i
  BY DEF PrecisionEnd, Places
<1>3. "." # End
  BY DEF End
<1>4. CASE Char(s, i) = "."
  <2>1. i + 1 \in Places(s)
    BY <1>1, <1>3, <1>4 DEF Places
  <2>2. IsDigitsEnd(s, 10, i + 1, DigitsEnd(s, 10)[i + 1])
    BY <2>1, DigitsEndOf
  <2> QED
    BY <1>1, <1>2, <1>4, <2>1, <2>2 DEF IsDigitsEnd, Places
<1>5. CASE Char(s, i) # "."
  BY <1>1, <1>2, <1>5 DEF Places
<1> QED
  BY <1>4, <1>5

(* The end of the string is no part of a specification.                    *)
LEMMA EndInNoPart ==
  /\ End \notin Sign /\ End \notin {"#"} /\ End \notin {"0"}
  /\ End \notin {"n"}
  /\ End \notin Alpha \cup {"?"} /\ End \notin Alpha
  /\ End # Opening /\ End # Closing /\ End # ":"
<1>1. End \notin Alpha
  BY Rows DEF Alpha, Range
<1>2. End # Opening /\ End # Closing /\ End # Blank
  BY Zenon DEF End, Opening, Closing, Blank
<1>3. End \notin Sign
  BY <1>2 DEF Sign, End
<1>4. End # "#" /\ End # "0" /\ End # "n" /\ End # "?" /\ End # ":"
  BY DEF End
<1> QED
  BY <1>1, <1>2, <1>3, <1>4

(* What is read of a specification is some specs, and the place behind it. *)
SpecsRead(s) == [at : Nat, ok : BOOLEAN, specs : AnySpecs(s)]

(* All specifications are read up to a place of the string.                *)
LEMMA AllSpecsRead ==
  ASSUME NEW s, IsText(s), NEW i \in Places(s)
  PROVE  AllSpecs(s, i) \in SpecsRead(s)
         /\ AllSpecs(s, i).at \in i..(Len(s) + 1)
<1> DEFINE a == AlignEnd(s)[i]
           g == PartEnd(s, Sign)[a]
           h == PartEnd(s, {"#"})[g]
           z == PartEnd(s, {"0"})[h]
           w == DigitsEnd(s, 10)[z]
           p == PrecisionEnd(s)[w]
           t == PartEnd(s, Alpha \cup {"?"})[p]
           width == ParseUnsigned(s, 10)[z]
           precision == ParseUnsigned(s, 10)[w + 1]
           zero == z > h /\ a = i
           ok == (w > z => width.ok) /\ (p > w => precision.ok)
           fill == IF a = i + 2 THEN s[i] ELSE IF zero THEN "0" ELSE Blank
           align == IF a > i THEN s[a - 1] ELSE IF zero THEN ">" ELSE "none"
           sign == IF g > a THEN s[a] ELSE "none"
           alternate == h > g
           wide == IF w > z THEN width.value ELSE 0
           precise == IF p > w THEN precision.value ELSE -1
           type == IF t > p THEN s[p] ELSE "none"
<1>1. AllSpecs(s, i) =
        [at |-> t, ok |-> ok,
         specs |-> [fill |-> fill, align |-> align, sign |-> sign,
                    alternate |-> alternate, zero |-> zero, width |-> wide,
                    precision |-> precise, type |-> type]]
  BY DEF AllSpecs
<1>2. Len(s) \in Nat /\ \A k \in 1..Len(s) : s[k] \in Shown(s)
  <2>1. \A k \in 1..Len(s) : s[k] \in Range(s) /\ Len(s) \in Nat
    BY CharOfText
  <2> QED
    BY <2>1, CharOfText DEF Shown
<1>3. {"none", "0", ">", Blank} \subseteq Shown(s)
  BY DEF Shown
<1>4. a \in i..(i + 2) /\ a \in Places(s)
        /\ (a > i => i \in 1..Len(s) /\ a - 1 \in 1..Len(s))
  BY AlignEnds
<1>5. g \in a..(a + 1) /\ g \in Places(s) /\ (g > a => a \in 1..Len(s))
  <2> HIDE DEF a
  <2> QED
    BY <1>4, EndInNoPart, PartEnds
<1>6. h \in g..(g + 1) /\ h \in Places(s)
  <2> HIDE DEF g
  <2> QED
    BY <1>5, EndInNoPart, PartEnds
<1>7. z \in h..(h + 1) /\ z \in Places(s)
  <2> HIDE DEF h
  <2> QED
    BY <1>6, EndInNoPart, PartEnds
<1>8. w \in z..(Len(s) + 1) /\ w \in Places(s)
        /\ width \in NumberRead
  <2> HIDE DEF z
  <2>1. IsDigitsEnd(s, 10, z, w)
    BY <1>7, DigitsEndOf
  <2>2. width \in NumberRead
    BY <1>7, UnsignedRead
  <2> QED
    BY <1>7, <2>1, <2>2 DEF IsDigitsEnd, Places
<1>9. p \in w..(Len(s) + 1) /\ p \in Places(s)
        /\ (p > w => precision \in NumberRead)
  <2> HIDE DEF w
  <2>1. p \in w..(Len(s) + 1) /\ (p > w => w + 1 \in Places(s))
    BY <1>8, PrecisionEnds
  <2>2. p > w => precision \in NumberRead
    BY <2>1, UnsignedRead
  <2> QED
    BY <1>8, <2>1, <2>2 DEF Places
<1>10. t \in p..(p + 1) /\ t \in Places(s) /\ (t > p => p \in 1..Len(s))
  <2> HIDE DEF p
  <2> QED
    BY <1>9, EndInNoPart, PartEnds
<1> HIDE DEF a, g, h, z, w, p, t, width, precision
<1>11. fill \in Shown(s) /\ align \in Shown(s) /\ sign \in Shown(s)
         /\ type \in Shown(s)
  BY <1>2, <1>3, <1>4, <1>5, <1>10
<1>12. wide \in Nat /\ precise \in Int /\ ok \in BOOLEAN
         /\ zero \in BOOLEAN /\ alternate \in BOOLEAN
  BY <1>8, <1>9 DEF NumberRead
<1>13. t \in i..(Len(s) + 1) /\ t \in Nat
  BY <1>2, <1>4, <1>5, <1>6, <1>7, <1>8, <1>9, <1>10 DEF Places
<1> HIDE DEF fill, align, sign, type, wide, precise, ok, zero, alternate
<1> QED
  BY <1>1, <1>11, <1>12, <1>13 DEF SpecsRead, AnySpecs

----------------------------------------------------------------------------
(* The specs of core types (FormatSpecs).                                  *)

(* Specs that end at once.                                                 *)
LEMMA ClosedRead ==
  ASSUME NEW s, NEW i \in Nat
  PROVE  Closed(i) \in SpecsRead(s)
         /\ [Closed(i) EXCEPT !.ok = FALSE] \in SpecsRead(s)
<1>1. "none" \in Shown(s) /\ Blank \in Shown(s)
  BY DEF Shown
<1>2. NoSpecs \in AnySpecs(s)
  BY <1>1 DEF NoSpecs, AnySpecs
<1>3. Closed(i) \in SpecsRead(s)
  BY <1>2 DEF SpecsRead, Closed
<1>4. \A k \in SpecsRead(s) : [k EXCEPT !.ok = FALSE] \in SpecsRead(s)
  BY DEF SpecsRead
<1> QED
  BY <1>3, <1>4

(* A value read, with some fields replaced.                                *)
LEMMA ChangedRead ==
  ASSUME NEW s, NEW k \in SpecsRead(s), NEW j \in Nat, NEW ok \in BOOLEAN
  PROVE  [k EXCEPT !.at = j, !.ok = ok] \in SpecsRead(s)
  BY DEF SpecsRead

(* The checking parser of a core type.                                     *)
LEMMA ValidateRead ==
  ASSUME NEW s, IsText(s), NEW i \in Places(s), NEW kind
  PROVE  ValidateSpecs(kind, s, i) \in SpecsRead(s)
<1>1. i \in Nat /\ Len(s) \in Nat
  BY CharOfText DEF Places
<1> DEFINE k == AllSpecs(s, i)
           ok == /\ k.ok
                 /\ k.specs.width <= MaxInt
                 /\ k.specs.precision <= MaxInt
                 /\ Char(s, k.at) = Closing
                 /\ Allows(kind, k.specs)
           j == k.at + 1
<1>2. k \in SpecsRead(s)
  BY AllSpecsRead
<1>3. j \in Nat
  BY <1>2 DEF SpecsRead
<1>4. Checked(kind, s, k) = [k EXCEPT !.at = j, !.ok = ok]
  BY DEF Checked
<1>5. ok \in BOOLEAN
  BY <1>2 DEF SpecsRead
<1> HIDE DEF k, ok, j
<1>6. Checked(kind, s, k) \in SpecsRead(s)
  BY <1>2, <1>3, <1>4, <1>5 DEF SpecsRead
<1> QED
  BY <1>1, <1>6, ClosedRead DEF ValidateSpecs, k

(* The unchecked parser of the core types.                                 *)
LEMMA ParseRead ==
  ASSUME NEW s, IsText(s), NEW i \in Places(s)
  PROVE  ParseSpecs(s, i) \in SpecsRead(s)
<1>1. i \in Nat /\ Len(s) \in Nat
  BY CharOfText DEF Places
<1> DEFINE k == AllSpecs(s, i)
           ok == k.ok /\ (k.specs.type = "none" => k.at <= Len(s))
           j == IF k.at <= Len(s) THEN k.at + 1 ELSE k.at
           new == [k EXCEPT !.at = j, !.ok = ok]
<1>2. k \in SpecsRead(s)
  BY AllSpecsRead
<1>3. j \in Nat
  BY <1>2 DEF SpecsRead
<1>4. ok \in BOOLEAN
  BY <1>2 DEF SpecsRead
<1>5. ParseSpecs(s, i) = IF Char(s, i) = Closing THEN Closed(i)
        ELSE IF i >= Len(s) THEN [Closed(i) EXCEPT !.ok = FALSE] ELSE new
  BY DEF ParseSpecs
<1> HIDE DEF k, ok, j
<1>6. new \in SpecsRead(s)
  BY <1>2, <1>3, <1>4, ChangedRead
<1> QED
  BY <1>1, <1>5, <1>6, ClosedRead

(* What both parsers have read in the same way.                            *)
SameRead(s, i, v, p) ==
  v.ok => p.ok /\ p.at = v.at /\ p.specs = v.specs
          /\ v.at \in (i + 1)..(Len(s) + 1)

(* The two parsers of a core type agree: what has been checked is read the *)
(* same way without the checks.                                            *)
LEMMA CoreAgrees ==
  ASSUME NEW s, IsText(s), NEW i \in Places(s), NEW kind
  PROVE  SameRead(s, i, ValidateSpecs(kind, s, i), ParseSpecs(s, i))
<1> DEFINE v == ValidateSpecs(kind, s, i)
           p == ParseSpecs(s, i)
           k == AllSpecs(s, i)
<1>1. i \in Nat /\ Len(s) \in Nat /\ i <= Len(s) + 1
        /\ (Char(s, i) = End <=> i \notin 1..Len(s))
  BY CharOfText DEF Places
<1>2. CASE Char(s, i) = Closing
  <2>1. v = Closed(i) /\ p = Closed(i)
    BY <1>2 DEF ValidateSpecs, ParseSpecs
  <2>2. Closed(i).at = i + 1 /\ Closed(i).at \in (i + 1)..(Len(s) + 1)
    BY <1>1, <1>2, EndInNoPart DEF Closed
  <2> QED
    BY <2>1, <2>2 DEF SameRead, Closed
<1>3. CASE Char(s, i) # Closing /\ Char(s, i) \in {Opening, End}
  <2>1. v = [Closed(i) EXCEPT !.ok = FALSE]
    BY <1>3 DEF ValidateSpecs
  <2>2. ~ v.ok
    BY <2>1 DEF Closed
  <2> QED
    BY <2>2 DEF SameRead
<1>4. CASE Char(s, i) # Closing /\ Char(s, i) \notin {Opening, End}
  <2>1. v = Checked(kind, s, k)
    BY <1>4 DEF ValidateSpecs
  <2>2. k \in SpecsRead(s) /\ k.at \in i..(Len(s) + 1)
    BY AllSpecsRead
  <2> HIDE DEF k
  <2>3. SUFFICES ASSUME v.ok PROVE SameRead(s, i, v, p)
    BY DEF SameRead
  <2>4. /\ v.at = k.at + 1 /\ v.specs = k.specs
        /\ k.ok /\ Char(s, k.at) = Closing
    BY <2>1, <2>2, <2>3 DEF Checked, SpecsRead
  <2>5. k.at \in Int /\ k.at \in 1..Len(s) /\ k.at # i
    BY <1>1, <1>4, <2>2, <2>4, CharOfText, EndInNoPart
  <2>6. i < Len(s) /\ k.at <= Len(s)
    BY <1>1, <2>2, <2>5
  <2>7. p = [k EXCEPT !.at = IF @ <= Len(s) THEN @ + 1 ELSE @,
                      !.ok = @ /\ (k.specs.type = "none" => k.at <= Len(s))]
    BY <1>1, <1>4, <2>6 DEF ParseSpecs, k
  <2>8. p.ok /\ p.at = k.at + 1 /\ p.specs = k.specs
    BY <2>2, <2>4, <2>6, <2>7 DEF SpecsRead
  <2> QED
    BY <1>1, <2>2, <2>4, <2>5, <2>8 DEF SameRead
<1> QED
  BY <1>2, <1>3, <1>4
==============================================================================
