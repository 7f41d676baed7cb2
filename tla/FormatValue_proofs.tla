------------------------- MODULE FormatValue_proofs -------------------------
(***************************************************************************)
(* Proofs about the formatting of values, for every value, all specs and   *)
(* every width of the integers: what is written into a write area fills    *)
(* it, the numeral of an integer and the notations of a floating-point     *)
(* number among it, a finished text is laid out as its specs say, and an   *)
(* integer is read back from its numeral.                                  *)
(***************************************************************************)
EXTENDS ValueText, FormatSpecs_proofs

(* Induction over the numbers up to n, from all those below.               *)
LEMMA InductionBelow ==
  ASSUME NEW n \in Nat, NEW S,
         \A m \in 0..n : (\A j \in 0..(m - 1) : j \in S) => m \in S
  PROVE  0..n \subseteq S
<1> DEFINE T == {m \in Nat : \A j \in 0..m : j <= n => j \in S}
<1>1. 0 \in T
  BY SMT
<1>2. ASSUME NEW m \in T, m \in Nat PROVE m + 1 \in T
  <2>1. ASSUME NEW j \in 0..(m + 1), j <= n PROVE j \in S
    <3>1. CASE j <= m
      BY <1>2, <2>1, <3>1
    <3>2. CASE j = m + 1
      <4>1. \A i \in 0..(j - 1) : i \in 0..m /\ i <= n
        BY <1>2, <2>1, <3>2
      <4>2. \A i \in 0..(j - 1) : i \in S
        BY <1>2, <4>1
      <4> QED
        BY <1>2, <2>1, <3>2, <4>2
    <3> QED
      BY <2>1, <3>1, <3>2
  <2> QED
    BY <1>2, <2>1
<1> HIDE DEF T
<1>3. n \in T
  BY <1>1, <1>2, Induction
<1> QED
  BY <1>3 DEF T

(* The numbers of an unsigned type.                                        *)
LEMMA UnsignedRange ==
  /\ Word - 1 \in Nat /\ Unsigned = 0..(Word - 1)
  /\ \A m \in Unsigned : m \in Nat /\ \A j \in 0..m : j \in Unsigned
<1>1. Word - 1 \in Nat
  BY ByteBelowWord
<1> QED
  BY <1>1 DEF Unsigned

(* A recursion on unsigned numbers: its value at a leaf m is E[m], at any   *)
(* other m that of J[m] goes through G.                                    *)
GoesDown(V, leaves, E, J, G) ==
  \A m \in Unsigned : /\ m \in leaves => E[m] \in V
                      /\ m \notin leaves => J[m] \in 0..(m - 1)
                      /\ \A v \in V : G[<<m, v>>] \in V

Follows(f, V, leaves, E, J, G) ==
  /\ f \in [Unsigned -> V]
  /\ \A m \in Unsigned :
       /\ m \in leaves => f[m] = E[m]
       /\ m \notin leaves => f[J[m]] \in V /\ f[m] = G[<<m, f[J[m]]>>]

(* What is defined by such a recursion exists.                             *)
LEMMA NumeralRecursion ==
  ASSUME NEW V, NEW leaves, NEW E, NEW J, NEW G, GoesDown(V, leaves, E, J, G)
  PROVE  \E f : Follows(f, V, leaves, E, J, G)
<1>1. PICK f : Recursive(f, V, Word - 1, leaves, E, J, G)
  BY UnsignedRange, RecursionExists DEF GoesDown
<1>2. f \in [Unsigned -> V]
        /\ \A m \in Unsigned :
             f[m] = IF m \in leaves THEN E[m] ELSE G[<<m, f[J[m]]>>]
  BY <1>1, UnsignedRange DEF Recursive
<1>3. ASSUME NEW m \in Unsigned, m \notin leaves PROVE f[J[m]] \in V
  <2>1. J[m] \in 0..(m - 1)
    BY <1>3 DEF GoesDown
  <2>2. J[m] \in Unsigned
    BY <2>1, UnsignedRange
  <2> QED
    BY <1>2, <2>2
<1> QED
  BY <1>2, <1>3 DEF Follows

(* count_digits_10, by its recursion.                                      *)
LEMMA CountDigits10Of ==
  ASSUME NEW m \in Unsigned
  PROVE  CountDigits10(m) =
           IF m < 10 THEN 1 ELSE IF m < 100 THEN 2
           ELSE IF m < 1000 THEN 3 ELSE IF m < 10000 THEN 4
           ELSE 4 + CountDigits10(m \div 10000)
<1> DEFINE Leaf(j) == IF j < 10 THEN 1 ELSE IF j < 100 THEN 2
                      ELSE IF j < 1000 THEN 3 ELSE 4
           Above(v) == 4 + v
           leaves == 0..9999
           Round(f) == [j \in Unsigned |->
                          IF j < 10 THEN 1 ELSE IF j < 100 THEN 2
                          ELSE IF j < 1000 THEN 3 ELSE IF j < 10000 THEN 4
                          ELSE 4 + f[j \div 10000]]
           E == [j \in Unsigned |-> Leaf(j)]
           J == [j \in Unsigned |-> j \div 10000]
           G == [p \in Unsigned \X Nat |-> Above(p[2])]
<1>1. \A j \in Unsigned : j \notin leaves => J[j] \in 0..(j - 1)
  BY UnsignedRange
<1>2. \A j \in Unsigned : E[j] = Leaf(j) /\ E[j] \in Nat
  OBVIOUS
<1>3. \A j \in Unsigned : \A v \in Nat : G[<<j, v>>] \in Nat
  OBVIOUS
<1>4. \A j \in Unsigned : \A v \in Nat : G[<<j, v>>] = Above(v)
  <2> HIDE DEF Above
  <2> QED
    OBVIOUS
<1>5. ASSUME NEW f, NEW j \in Unsigned
      PROVE  Round(f)[j] = IF j \in leaves THEN Leaf(j) ELSE Above(f[J[j]])
  BY UnsignedRange
<1> HIDE DEF leaves, E, J, G, Leaf, Above
<1>6. PICK f : Follows(f, Nat, leaves, E, J, G)
  <2>1. GoesDown(Nat, leaves, E, J, G)
    BY <1>1, <1>2, <1>3, Zenon DEF GoesDown
  <2> QED
    BY <2>1, NumeralRecursion
<1>7. ASSUME NEW j \in Unsigned PROVE f[j] = Round(f)[j]
  <2> HIDE DEF Round
  <2>1. CASE j \in leaves
    <3>1. f[j] = Leaf(j)
      BY <1>2, <1>6, <2>1, Zenon DEF Follows
    <3> QED
      BY <1>5, <2>1, <3>1, Zenon
  <2>2. CASE j \notin leaves
    <3>1. f[j] = Above(f[J[j]])
      BY <1>4, <1>6, <2>2, Zenon DEF Follows
    <3> QED
      BY <1>5, <2>2, <3>1, Zenon
  <2> QED
    BY <2>1, <2>2
<1>8. f = Round(f)
  BY <1>6, <1>7 DEF Follows
<1> DEFINE count == CHOOSE g : g = Round(g)
<1>9. count = Round(count)
  <2> HIDE DEF Round
  <2> QED
    BY <1>8
<1>10. \A j : CountDigits10(j) = count[j]
  BY DEF CountDigits10
<1> HIDE DEF count
<1> QED
  BY <1>9, <1>10

(* Division by a base.                                                     *)
LEMMA Quotient ==
  ASSUME NEW m \in Nat, NEW base \in 2..36
  PROVE  /\ m \div base \in Nat /\ m % base \in 0..(base - 1)
         /\ m = base * (m \div base) + (m % base)
         /\ m > 0 => m \div base \in 0..(m - 1)
         /\ m < base <=> m \div base = 0
<1> DEFINE q == m \div base
           r == m % base
<1>1. q \in Nat /\ r \in 0..(base - 1) /\ m = base * q + r
  OBVIOUS
<1> HIDE DEF q, r
<1>2. CASE q = 0
  <2>1. base * q = 0
    BY <1>2
  <2>2. m < base /\ (m > 0 => q \in 0..(m - 1))
    BY <1>1, <1>2, <2>1
  <2> QED
    BY <1>1, <1>2, <2>2 DEF q, r
<1>3. CASE q > 0
  <2>1. base * q >= 2 * q /\ base * q >= base
    BY <1>1, <1>3
  <2> DEFINE p == base * q
  <2>2. p \in Nat /\ m = p + r
    BY <1>1
  <2> HIDE DEF p
  <2>3. p >= 2 * q /\ p >= base
    BY <2>1 DEF p
  <2>4. ~ (m < base) /\ q \in 0..(m - 1)
    BY <1>1, <1>3, <2>2, <2>3
  <2> QED
    BY <1>1, <1>3, <2>4 DEF q, r
<1> QED
  BY <1>1, <1>2, <1>3

(* The characters of numerals.                                             *)
Figure == Range(Digits) \cup Alpha

(* The digits of write_decimal are figures, one or two at a time.          *)
LEMMA FigurePairs ==
  /\ \A j \in 0..9 :
       Digits[j + 1] \in Figure /\ <<Digits[j + 1]>> \in Seq(Figure)
  /\ \A j \in 0..99 : Digits2(j) \in Seq(Figure) /\ Len(Digits2(j)) = 2
<1>1. \A j \in 0..9 : Digits[j + 1] \in Figure
  BY Rows DEF Figure, Range
<1>2. ASSUME NEW j \in 0..99
      PROVE  Digits2(j) \in Seq(Figure) /\ Len(Digits2(j)) = 2
  <2>1. j \div 10 \in 0..9 /\ j % 10 \in 0..9
    OBVIOUS
  <2>2. Digits[(j \div 10) + 1] \in Figure /\ Digits[(j % 10) + 1] \in Figure
    BY <1>1, <2>1
  <2> QED
    BY <2>2 DEF Digits2
<1>3. \A j \in 0..9 : <<Digits[j + 1]>> \in Seq(Figure)
  BY <1>1
<1> QED
  BY <1>1, <1>2, <1>3

(* digit_to_char gives a figure, in either case.                           *)
LEMMA CharOfDigit ==
  ASSUME NEW d \in 0..35, NEW upper \in BOOLEAN
  PROVE  DigitToChar(d, upper) \in Figure
<1>1. CASE d < 10
  <2>1. d \in 0..9 /\ ~ (d >= 10)
    BY <1>1
  <2>2. Digits[d + 1] \in Figure
    BY <2>1, FigurePairs, Zenon
  <2> QED
    BY <2>1, <2>2 DEF DigitToChar
<1>2. CASE ~ (d < 10)
  <2>1. d - 9 \in 1..26 /\ d >= 10
    BY <1>2
  <2>2. Upper[d - 9] \in Alpha /\ Lower[d - 9] \in Alpha
    BY <2>1, Rows DEF Alpha, Range
  <2> QED
    BY <2>1, <2>2 DEF DigitToChar, Figure
<1> QED
  BY <1>1, <1>2

(* The last digit of a number, in any base.                                *)
LEMMA LastFigure ==
  ASSUME NEW m \in Unsigned, NEW base \in 2..36, NEW upper \in BOOLEAN
  PROVE  DigitToChar(m % base, upper) \in Figure
<1>1. m % base \in 0..(base - 1)
  BY UnsignedRange, Quotient
<1>2. m % base \in 0..35
  BY <1>1
<1> QED
  BY <1>2, CharOfDigit

(* std::bit_width, by its recursion.                                       *)
LEMMA BitWidthOf ==
  ASSUME NEW m \in Unsigned
  PROVE  BitWidth(m) =
           IF m = 0 THEN 0 ELSE 1 + BitWidth(m \div 2)
<1> DEFINE Leaf(j) == 0
           Above(j, v) == 1 + v
           leaves == {0}
           V == Nat
           Round(f) == [j \in Unsigned |->
                          IF j = 0 THEN 0 ELSE 1 + f[j \div 2]]
           E == [j \in Unsigned |-> Leaf(j)]
           J == [j \in Unsigned |-> j \div 2]
           G == [p \in Unsigned \X V |-> Above(p[1], p[2])]
<1>1. \A j \in Unsigned : j \notin leaves => J[j] \in 0..(j - 1)
  BY UnsignedRange
<1>2. \A j \in Unsigned : j \in leaves => E[j] = Leaf(j) /\ E[j] \in V
  OBVIOUS
<1>3. \A j \in Unsigned : \A v \in V : Above(j, v) \in V
  OBVIOUS
<1>4. \A j \in Unsigned : \A v \in V : G[<<j, v>>] = Above(j, v)
  <2> HIDE DEF Above, V
  <2> QED
    OBVIOUS
<1>5. ASSUME NEW f, NEW j \in Unsigned
      PROVE  Round(f)[j] = IF j \in leaves THEN Leaf(j) ELSE Above(j, f[J[j]])
  BY UnsignedRange
<1> HIDE DEF leaves, V, E, J, G, Leaf, Above
<1>6. PICK f : Follows(f, V, leaves, E, J, G)
  <2>1. GoesDown(V, leaves, E, J, G)
    BY <1>1, <1>2, <1>3, <1>4, Zenon DEF GoesDown
  <2> QED
    BY <2>1, NumeralRecursion
<1>7. ASSUME NEW j \in Unsigned PROVE f[j] = Round(f)[j]
  <2> HIDE DEF Round
  <2>1. CASE j \in leaves
    <3>1. f[j] = Leaf(j)
      BY <1>2, <1>6, <2>1, Zenon DEF Follows
    <3> QED
      BY <1>5, <2>1, <3>1, Zenon
  <2>2. CASE j \notin leaves
    <3>1. f[j] = Above(j, f[J[j]])
      BY <1>4, <1>6, <2>2, Zenon DEF Follows
    <3> QED
      BY <1>5, <2>2, <3>1, Zenon
  <2> QED
    BY <2>1, <2>2
<1>8. f = Round(f)
  BY <1>6, <1>7 DEF Follows
<1> DEFINE width == CHOOSE g : g = Round(g)
<1>9. width = Round(width)
  <2> HIDE DEF Round
  <2> QED
    BY <1>8
<1>10. \A j : BitWidth(j) = width[j]
  BY DEF BitWidth
<1> HIDE DEF width
<1> QED
  BY <1>9, <1>10

(* get_number_of_digits for other bases, by its recursion.                 *)
LEMMA CountOtherOf ==
  ASSUME NEW base \in 2..36, NEW m \in Unsigned
  PROVE  CountOther(m, base) =
           IF m < base THEN 1 ELSE 1 + CountOther(m \div base, base)
<1> DEFINE Leaf(j) == 1
           Above(j, v) == 1 + v
           leaves == {j \in Unsigned : j < base}
           V == Nat
           Round(f) == [j \in Unsigned |->
                          IF j < base THEN 1 ELSE 1 + f[j \div base]]
           E == [j \in Unsigned |-> Leaf(j)]
           J == [j \in Unsigned |-> j \div base]
           G == [p \in Unsigned \X V |-> Above(p[1], p[2])]
<1>1. \A j \in Unsigned : j \notin leaves => J[j] \in 0..(j - 1)
  BY UnsignedRange, Quotient
<1>2. \A j \in Unsigned : j \in leaves => E[j] = Leaf(j) /\ E[j] \in V
  OBVIOUS
<1>3. \A j \in Unsigned : \A v \in V : Above(j, v) \in V
  OBVIOUS
<1>4. \A j \in Unsigned : \A v \in V : G[<<j, v>>] = Above(j, v)
  <2> HIDE DEF Above, V
  <2> QED
    OBVIOUS
<1>5. ASSUME NEW f, NEW j \in Unsigned
      PROVE  Round(f)[j] = IF j \in leaves THEN Leaf(j) ELSE Above(j, f[J[j]])
  BY UnsignedRange
<1> HIDE DEF leaves, V, E, J, G, Leaf, Above
<1>6. PICK f : Follows(f, V, leaves, E, J, G)
  <2>1. GoesDown(V, leaves, E, J, G)
    BY <1>1, <1>2, <1>3, <1>4, Zenon DEF GoesDown
  <2> QED
    BY <2>1, NumeralRecursion
<1>7. ASSUME NEW j \in Unsigned PROVE f[j] = Round(f)[j]
  <2> HIDE DEF Round
  <2>1. CASE j \in leaves
    <3>1. f[j] = Leaf(j)
      BY <1>2, <1>6, <2>1, Zenon DEF Follows
    <3> QED
      BY <1>5, <2>1, <3>1, Zenon
  <2>2. CASE j \notin leaves
    <3>1. f[j] = Above(j, f[J[j]])
      BY <1>4, <1>6, <2>2, Zenon DEF Follows
    <3> QED
      BY <1>5, <2>2, <3>1, Zenon
  <2> QED
    BY <2>1, <2>2
<1>8. f = Round(f)
  BY <1>6, <1>7 DEF Follows
<1> DEFINE count == CHOOSE g : g = Round(g)
<1>9. count = Round(count)
  <2> HIDE DEF Round
  <2> QED
    BY <1>8
<1>10. \A j : CountOther(j, base) = count[j]
  BY DEF CountOther
<1> HIDE DEF count
<1> QED
  BY <1>9, <1>10

(* write_decimal, by its recursion.                                        *)
LEMMA WriteDecimalOf ==
  ASSUME NEW m \in Unsigned
  PROVE  WriteDecimal(m) =
           IF m >= 100 THEN WriteDecimal(m \div 100) \o Digits2(m % 100)
           ELSE IF m < 10 THEN <<Digits[m + 1]>> ELSE Digits2(m)
<1> DEFINE Leaf(j) == IF j < 10 THEN <<Digits[j + 1]>> ELSE Digits2(j)
           Above(j, v) == v \o Digits2(j % 100)
           leaves == 0..99
           V == Seq(Figure)
           Round(f) == [j \in Unsigned |->
                IF j >= 100 THEN f[j \div 100] \o Digits2(j % 100)
                ELSE IF j < 10 THEN <<Digits[j + 1]>> ELSE Digits2(j)]
           E == [j \in Unsigned |-> Leaf(j)]
           J == [j \in Unsigned |-> j \div 100]
           G == [p \in Unsigned \X V |-> Above(p[1], p[2])]
<1>1. \A j \in Unsigned : j \notin leaves => J[j] \in 0..(j - 1)
  BY UnsignedRange
<1>2. \A j \in Unsigned : j \in leaves => E[j] = Leaf(j) /\ E[j] \in V
  <2>1. ASSUME NEW j \in 0..99 PROVE Leaf(j) \in V
    <3>1. j < 10 => j \in 0..9
      OBVIOUS
    <3>2. j < 10 => <<Digits[j + 1]>> \in V
      BY <3>1, FigurePairs, Zenon
    <3>3. Digits2(j) \in V
      BY FigurePairs, Zenon
    <3> QED
      BY <3>2, <3>3
  <2> QED
    BY <2>1
<1>3. \A j \in Unsigned : \A v \in V : Above(j, v) \in V
  <2> SUFFICES ASSUME NEW j \in Unsigned, NEW v \in V PROVE Above(j, v) \in V
    OBVIOUS
  <2>1. j % 100 \in 0..99
    BY UnsignedRange
  <2>2. Digits2(j % 100) \in V
    BY <2>1, FigurePairs
  <2> QED
    BY <2>2
<1>4. \A j \in Unsigned : \A v \in V : G[<<j, v>>] = Above(j, v)
  <2> HIDE DEF Above, V
  <2> QED
    OBVIOUS
<1>5. ASSUME NEW f, NEW j \in Unsigned
      PROVE  Round(f)[j] = IF j \in leaves THEN Leaf(j) ELSE Above(j, f[J[j]])
  BY UnsignedRange
<1> HIDE DEF leaves, V, E, J, G, Leaf, Above
<1>6. PICK f : Follows(f, V, leaves, E, J, G)
  <2>1. GoesDown(V, leaves, E, J, G)
    BY <1>1, <1>2, <1>3, <1>4, Zenon DEF GoesDown
  <2> QED
    BY <2>1, NumeralRecursion
<1>7. ASSUME NEW j \in Unsigned PROVE f[j] = Round(f)[j]
  <2> HIDE DEF Round
  <2>1. CASE j \in leaves
    <3>1. f[j] = Leaf(j)
      BY <1>2, <1>6, <2>1, Zenon DEF Follows
    <3> QED
      BY <1>5, <2>1, <3>1, Zenon
  <2>2. CASE j \notin leaves
    <3>1. f[j] = Above(j, f[J[j]])
      BY <1>4, <1>6, <2>2, Zenon DEF Follows
    <3> QED
      BY <1>5, <2>2, <3>1, Zenon
  <2> QED
    BY <2>1, <2>2
<1>8. f = Round(f)
  BY <1>6, <1>7 DEF Follows
<1> DEFINE run == CHOOSE g : g = Round(g)
<1>9. run = Round(run)
  <2> HIDE DEF Round
  <2> QED
    BY <1>8
<1>10. \A j : WriteDecimal(j) = run[j]
  BY DEF WriteDecimal
<1> HIDE DEF run
<1> QED
  BY <1>9, <1>10

(* write_uint, by its recursion.                                           *)
LEMMA WriteUintOf ==
  ASSUME NEW base \in 2..36, NEW upper \in BOOLEAN, NEW m \in Unsigned
  PROVE  WriteUint(m, base, upper) =
           (IF m \div base = 0 THEN <<>>
            ELSE WriteUint(m \div base, base, upper))
             \o <<DigitToChar(m % base, upper)>>
<1> DEFINE Leaf(j) == <<>> \o <<DigitToChar(j % base, upper)>>
           Above(j, v) == v \o <<DigitToChar(j % base, upper)>>
           leaves == {j \in Unsigned : j \div base = 0}
           V == Seq(Figure)
           Round(f) == [j \in Unsigned |->
                (IF j \div base = 0 THEN <<>> ELSE f[j \div base])
                  \o <<DigitToChar(j % base, upper)>>]
           E == [j \in Unsigned |-> Leaf(j)]
           J == [j \in Unsigned |-> j \div base]
           G == [p \in Unsigned \X V |-> Above(p[1], p[2])]
<1>1. \A j \in Unsigned : j \notin leaves => J[j] \in 0..(j - 1)
  BY UnsignedRange, Quotient
<1>2. \A j \in Unsigned : j \in leaves => E[j] = Leaf(j) /\ E[j] \in V
  <2> SUFFICES ASSUME NEW j \in Unsigned PROVE Leaf(j) \in V
    OBVIOUS
  <2>1. DigitToChar(j % base, upper) \in Figure
    BY LastFigure
  <2> QED
    BY <2>1
<1>3. \A j \in Unsigned : \A v \in V : Above(j, v) \in V
  <2> SUFFICES ASSUME NEW j \in Unsigned, NEW v \in V PROVE Above(j, v) \in V
    OBVIOUS
  <2>1. DigitToChar(j % base, upper) \in Figure
    BY LastFigure
  <2> QED
    BY <2>1
<1>4. \A j \in Unsigned : \A v \in V : G[<<j, v>>] = Above(j, v)
  <2> HIDE DEF Above, V
  <2> QED
    OBVIOUS
<1>5. ASSUME NEW f, NEW j \in Unsigned
      PROVE  Round(f)[j] = IF j \in leaves THEN Leaf(j) ELSE Above(j, f[J[j]])
  OBVIOUS
<1> HIDE DEF leaves, V, E, J, G, Leaf, Above
<1>6. PICK f : Follows(f, V, leaves, E, J, G)
  <2>1. GoesDown(V, leaves, E, J, G)
    BY <1>1, <1>2, <1>3, <1>4, Zenon DEF GoesDown
  <2> QED
    BY <2>1, NumeralRecursion
<1>7. ASSUME NEW j \in Unsigned PROVE f[j] = Round(f)[j]
  <2> HIDE DEF Round
  <2>1. CASE j \in leaves
    <3>1. f[j] = Leaf(j)
      BY <1>2, <1>6, <2>1, Zenon DEF Follows
    <3> QED
      BY <1>5, <2>1, <3>1, Zenon
  <2>2. CASE j \notin leaves
    <3>1. f[j] = Above(j, f[J[j]])
      BY <1>4, <1>6, <2>2, Zenon DEF Follows
    <3> QED
      BY <1>5, <2>2, <3>1, Zenon
  <2> QED
    BY <2>1, <2>2
<1>8. f = Round(f)
  BY <1>6, <1>7 DEF Follows
<1> DEFINE run == CHOOSE g : g = Round(g)
<1>9. run = Round(run)
  <2> HIDE DEF Round
  <2> QED
    BY <1>8
<1>10. \A j : WriteUint(j, base, upper) = run[j]
  BY DEF WriteUint
<1> HIDE DEF run
<1> QED
  BY <1>9, <1>10

(* The loop of write_number, by its recursion.                             *)
LEMMA WriteOtherOf ==
  ASSUME NEW base \in 2..36, NEW upper \in BOOLEAN, NEW m \in Unsigned
  PROVE  WriteOther(m, base, upper) =
           IF m = 0 THEN <<>>
           ELSE WriteOther(m \div base, base, upper)
                  \o <<DigitToChar(m % base, upper)>>
<1> DEFINE Leaf(j) == <<>>
           Above(j, v) == v \o <<DigitToChar(j % base, upper)>>
           leaves == {0}
           V == Seq(Figure)
           Round(f) == [j \in Unsigned |->
                IF j = 0 THEN <<>>
                ELSE f[j \div base] \o <<DigitToChar(j % base, upper)>>]
           E == [j \in Unsigned |-> Leaf(j)]
           J == [j \in Unsigned |-> j \div base]
           G == [p \in Unsigned \X V |-> Above(p[1], p[2])]
<1>1. \A j \in Unsigned : j \notin leaves => J[j] \in 0..(j - 1)
  BY UnsignedRange, Quotient
<1>2. \A j \in Unsigned : j \in leaves => E[j] = Leaf(j) /\ E[j] \in V
  OBVIOUS
<1>3. \A j \in Unsigned : \A v \in V : Above(j, v) \in V
  <2> SUFFICES ASSUME NEW j \in Unsigned, NEW v \in V PROVE Above(j, v) \in V
    OBVIOUS
  <2>1. DigitToChar(j % base, upper) \in Figure
    BY LastFigure
  <2> QED
    BY <2>1
<1>4. \A j \in Unsigned : \A v \in V : G[<<j, v>>] = Above(j, v)
  <2> HIDE DEF Above, V
  <2> QED
    OBVIOUS
<1>5. ASSUME NEW f, NEW j \in Unsigned
      PROVE  Round(f)[j] = IF j \in leaves THEN Leaf(j) ELSE Above(j, f[J[j]])
  OBVIOUS
<1> HIDE DEF leaves, V, E, J, G, Leaf, Above
<1>6. PICK f : Follows(f, V, leaves, E, J, G)
  <2>1. GoesDown(V, leaves, E, J, G)
    BY <1>1, <1>2, <1>3, <1>4, Zenon DEF GoesDown
  <2> QED
    BY <2>1, NumeralRecursion
<1>7. ASSUME NEW j \in Unsigned PROVE f[j] = Round(f)[j]
  <2> HIDE DEF Round
  <2>1. CASE j \in leaves
    <3>1. f[j] = Leaf(j)
      BY <1>2, <1>6, <2>1, Zenon DEF Follows
    <3> QED
      BY <1>5, <2>1, <3>1, Zenon
  <2>2. CASE j \notin leaves
    <3>1. f[j] = Above(j, f[J[j]])
      BY <1>4, <1>6, <2>2, Zenon DEF Follows
    <3> QED
      BY <1>5, <2>2, <3>1, Zenon
  <2> QED
    BY <2>1, <2>2
<1>8. f = Round(f)
  BY <1>6, <1>7 DEF Follows
<1> DEFINE run == CHOOSE g : g = Round(g)
<1>9. run = Round(run)
  <2> HIDE DEF Round
  <2> QED
    BY <1>8
<1>10. \A j : WriteOther(j, base, upper) = run[j]
  BY DEF WriteOther
<1> HIDE DEF run
<1> QED
  BY <1>9, <1>10

(* The counted digits of unsigned numbers.                                 *)
LEMMA CountInt ==
  \A m \in Unsigned : CountDigits10(m) \in Nat
<1> DEFINE S == {m \in Unsigned : CountDigits10(m) \in Nat}
<1>1. ASSUME NEW m \in 0..(Word - 1), \A j \in 0..(m - 1) : j \in S
      PROVE  m \in S
  <2>1. m \in Unsigned /\ m \in Nat
    BY UnsignedRange
  <2>2. CASE m < 10000
    BY <2>1, <2>2, CountDigits10Of
  <2>3. CASE ~ (m < 10000)
    <3>1. m \div 10000 \in 0..(m - 1)
      BY <2>1, <2>3
    <3>2. CountDigits10(m \div 10000) \in Nat
      BY <1>1, <3>1
    <3>3. CountDigits10(m) = 4 + CountDigits10(m \div 10000)
      BY <2>1, <2>3, CountDigits10Of
    <3> QED
      BY <2>1, <3>2, <3>3
  <2> QED
    BY <2>2, <2>3
<1> HIDE DEF S
<1>2. 0..(Word - 1) \subseteq S
  BY <1>1, UnsignedRange, InductionBelow
<1> QED
  BY <1>2, UnsignedRange DEF S

(* Without its last two digits a number has two digits less.               *)
LEMMA CountByPairs ==
  \A m \in Unsigned :
    m >= 100 => CountDigits10(m) = 2 + CountDigits10(m \div 100)
<1> DEFINE Count(m) == CountDigits10(m)
           S == {m \in Unsigned : m >= 100 => Count(m) = 2 + Count(m \div 100)}
<1>1. ASSUME NEW m \in 0..(Word - 1), \A j \in 0..(m - 1) : j \in S
      PROVE  m \in S
  <2> SUFFICES ASSUME m >= 100 PROVE Count(m) = 2 + Count(m \div 100)
    BY UnsignedRange
  <2> DEFINE p == m \div 100
             q == m \div 10000
             r == p \div 10000
  <2>1. /\ m \in Unsigned /\ m \in Nat
        /\ p \in 0..(m - 1) /\ q \in 0..(m - 1) /\ r \in 0..(m - 1)
        /\ p \in Unsigned /\ q \in Unsigned
    BY UnsignedRange
  <2>2. /\ q \div 100 = r
        /\ m < 1000 <=> p < 10
        /\ m < 10000 <=> p < 100
        /\ p < 1000 <=> q < 10
        /\ p < 10000 <=> q < 100
    BY <2>1
  <2>3. Count(m) = IF m < 1000 THEN 3 ELSE IF m < 10000 THEN 4
                   ELSE 4 + Count(q)
    BY <2>1, CountDigits10Of
  <2>4. Count(p) = IF p < 10 THEN 1 ELSE IF p < 100 THEN 2
                   ELSE IF p < 1000 THEN 3 ELSE IF p < 10000 THEN 4
                   ELSE 4 + Count(r)
    BY <2>1, CountDigits10Of
  <2>5. q < 100 => Count(q) = IF q < 10 THEN 1 ELSE 2
    BY <2>1, CountDigits10Of
  <2>6. q >= 100 => Count(q) = 2 + Count(r)
    BY <1>1, <2>1, <2>2
  <2>7. Count(r) \in Nat /\ Count(q) \in Nat
    <3>1. r \in Unsigned
      BY <2>1, UnsignedRange
    <3> QED
      BY <2>1, <3>1, CountInt
  <2> HIDE DEF Count, p, q, r
  <2> QED
    BY <2>1, <2>2, <2>3, <2>4, <2>5, <2>6, <2>7 DEF p
<1> HIDE DEF S
<1>2. 0..(Word - 1) \subseteq S
  BY <1>1, UnsignedRange, InductionBelow
<1> QED
  BY <1>2, UnsignedRange DEF S

(* A decimal numeral has as many digits as have been counted.              *)
LEMMA DecimalLength ==
  \A m \in Unsigned : /\ WriteDecimal(m) \in Seq(Figure)
                      /\ Len(WriteDecimal(m)) = CountDigits10(m)
<1> DEFINE S == {m \in Unsigned : /\ WriteDecimal(m) \in Seq(Figure)
                                  /\ Len(WriteDecimal(m)) = CountDigits10(m)}
<1>1. ASSUME NEW m \in 0..(Word - 1), \A j \in 0..(m - 1) : j \in S
      PROVE  m \in S
  <2>1. m \in Unsigned /\ m \in Nat
    BY UnsignedRange
  <2>2. CASE m < 10
    <3>1. m \in 0..9 /\ ~ (m >= 100)
      BY <2>1, <2>2
    <3>2. WriteDecimal(m) = <<Digits[m + 1]>>
      BY <2>1, <2>2, <3>1, WriteDecimalOf
    <3>3. <<Digits[m + 1]>> \in Seq(Figure)
      BY <3>1, FigurePairs, Zenon
    <3>4. CountDigits10(m) = 1
      BY <2>1, <2>2, CountDigits10Of
    <3> QED
      BY <2>1, <3>2, <3>3, <3>4
  <2>3. CASE ~ (m < 10) /\ m < 100
    <3>1. m \in 0..99 /\ ~ (m >= 100)
      BY <2>1, <2>3
    <3>2. WriteDecimal(m) = Digits2(m)
      BY <2>1, <2>3, <3>1, WriteDecimalOf
    <3>3. CountDigits10(m) = 2
      BY <2>1, <2>3, CountDigits10Of
    <3> QED
      BY <2>1, <3>1, <3>2, <3>3, FigurePairs
  <2>4. CASE m >= 100
    <3> DEFINE p == m \div 100
               u == WriteDecimal(p)
               v == Digits2(m % 100)
    <3>1. p \in 0..(m - 1) /\ m % 100 \in 0..99
      BY <2>1, <2>4
    <3>2. u \in Seq(Figure) /\ Len(u) = CountDigits10(p)
      BY <1>1, <3>1
    <3>3. v \in Seq(Figure) /\ Len(v) = 2
      BY <3>1, FigurePairs
    <3>4. WriteDecimal(m) = u \o v
      BY <2>1, <2>4, WriteDecimalOf
    <3>5. CountDigits10(m) = 2 + CountDigits10(p) /\ CountDigits10(p) \in Nat
      <4>1. p \in Unsigned
        BY <2>1, <3>1, UnsignedRange
      <4> QED
        BY <2>1, <2>4, <4>1, CountByPairs, CountInt
    <3> HIDE DEF p, u, v
    <3>6. u \o v \in Seq(Figure) /\ Len(u \o v) = Len(u) + Len(v)
      BY <3>2, <3>3, Concat
    <3> QED
      BY <2>1, <3>2, <3>3, <3>4, <3>5, <3>6
  <2> QED
    BY <2>1, <2>2, <2>3, <2>4
<1> HIDE DEF S
<1>2. 0..(Word - 1) \subseteq S
  BY <1>1, UnsignedRange, InductionBelow
<1> QED
  BY <1>2, UnsignedRange DEF S

(* The bits of unsigned numbers.                                           *)
LEMMA WidthInt ==
  \A m \in Unsigned : BitWidth(m) \in Nat
<1> DEFINE S == {m \in Unsigned : BitWidth(m) \in Nat}
<1>1. ASSUME NEW m \in 0..(Word - 1), \A j \in 0..(m - 1) : j \in S
      PROVE  m \in S
  <2>1. m \in Unsigned /\ m \in Nat
    BY UnsignedRange
  <2>2. CASE m = 0
    BY <2>1, <2>2, BitWidthOf
  <2>3. CASE m # 0
    <3>1. m \div 2 \in 0..(m - 1)
      BY <2>1, <2>3
    <3>2. BitWidth(m \div 2) \in Nat
      BY <1>1, <3>1
    <3>3. BitWidth(m) = 1 + BitWidth(m \div 2)
      BY <2>1, <2>3, BitWidthOf
    <3> QED
      BY <2>1, <3>2, <3>3
  <2> QED
    BY <2>2, <2>3
<1> HIDE DEF S
<1>2. 0..(Word - 1) \subseteq S
  BY <1>1, UnsignedRange, InductionBelow
<1> QED
  BY <1>2, UnsignedRange DEF S

(* What get_number_of_digits makes of the bits.                            *)
Rounded(m, base) == (BitWidth(m) + BitsOf[base] - 1) \div BitsOf[base]

(* Without its last digit a number has a digit less, in these bases too.   *)
LEMMA CountByBits ==
  ASSUME NEW m \in Unsigned, m # 0, NEW base \in DOMAIN BitsOf
  PROVE  /\ base \in 2..36 /\ Rounded(m, base) \in Nat
         /\ Rounded(m, base) =
              IF m \div base = 0 THEN 1 ELSE 1 + Rounded(m \div base, base)
<1> DEFINE W(n) == BitWidth(n)
           a == m \div 2
           b == m \div 4
           c == m \div 8
           d == m \div 16
<1>1. /\ m \in Nat /\ m \in Unsigned /\ a \in Unsigned /\ b \in Unsigned
      /\ c \in Unsigned /\ d \in Unsigned
      /\ a \in Nat /\ b \in Nat /\ c \in Nat /\ d \in Nat
  BY UnsignedRange
<1>2. a \div 2 = b /\ b \div 2 = c /\ c \div 2 = d /\ m \div 2 = a
  BY <1>1
<1>3. /\ W(m) = 1 + W(a)
      /\ W(a) = IF a = 0 THEN 0 ELSE 1 + W(b)
      /\ W(b) = IF b = 0 THEN 0 ELSE 1 + W(c)
      /\ W(c) = IF c = 0 THEN 0 ELSE 1 + W(d)
      /\ d = 0 => W(d) = 0
  BY <1>1, <1>2, BitWidthOf
<1>4. W(a) \in Nat /\ W(b) \in Nat /\ W(c) \in Nat /\ W(d) \in Nat
  BY <1>1, WidthInt
<1>5. b # 0 => a # 0
  BY <1>1
<1>6. c # 0 => b # 0
  BY <1>1
<1>7. d # 0 => c # 0
  BY <1>1
<1>8. DOMAIN BitsOf = {2, 8, 16} /\ BitsOf[2] = 1 /\ BitsOf[8] = 3
        /\ BitsOf[16] = 4
  BY DEF BitsOf
<1>9. Rounded(m, 2) = W(m) /\ Rounded(a, 2) = W(a)
        /\ Rounded(m, 8) = (W(m) + 2) \div 3
        /\ Rounded(c, 8) = (W(c) + 2) \div 3
        /\ Rounded(m, 16) = (W(m) + 3) \div 4
        /\ Rounded(d, 16) = (W(d) + 3) \div 4
  <2>1. W(m) \in Nat
    BY <1>1, WidthInt
  <2> QED
    BY <1>4, <1>8, <2>1 DEF Rounded
<1> HIDE DEF W, a, b, c, d
<1>10. CASE base = 2
  <2>1. Rounded(m, 2) = IF a = 0 THEN 1 ELSE 1 + Rounded(a, 2)
    BY <1>3, <1>4, <1>9
  <2> QED
    BY <1>4, <1>3, <1>9, <1>10, <2>1 DEF a
<1>11. CASE base = 8
  <2>1. Rounded(m, 8) = IF c = 0 THEN 1 ELSE 1 + Rounded(c, 8)
    BY <1>3, <1>4, <1>5, <1>6, <1>9
  <2> QED
    BY <1>4, <1>3, <1>9, <1>11, <2>1 DEF c
<1>12. CASE base = 16
  <2>1. Rounded(m, 16) = IF d = 0 THEN 1 ELSE 1 + Rounded(d, 16)
    <3>1. CASE d = 0
      <4>1. W(m) \in 1..4
        BY <1>3, <1>4, <3>1
      <4> QED
        BY <1>9, <3>1, <4>1
    <3>2. CASE d # 0
      <4>1. W(m) = 4 + W(d)
        BY <1>3, <1>4, <1>5, <1>6, <1>7, <3>2
      <4> QED
        BY <1>4, <1>9, <3>2, <4>1
    <3> QED
      BY <3>1, <3>2
  <2> QED
    BY <1>4, <1>3, <1>9, <1>12, <2>1 DEF d
<1> QED
  BY <1>8, <1>10, <1>11, <1>12

(* A numeral in one of them has as many digits as have been counted.       *)
LEMMA UintLength ==
  ASSUME NEW base \in DOMAIN BitsOf, NEW upper \in BOOLEAN
  PROVE  \A m \in Unsigned :
           /\ WriteUint(m, base, upper) \in Seq(Figure)
           /\ Len(WriteUint(m, base, upper)) =
                IF m = 0 THEN 1 ELSE Rounded(m, base)
<1> DEFINE Numeral(m) == WriteUint(m, base, upper)
           Size(m) == IF m = 0 THEN 1 ELSE Rounded(m, base)
           S == {m \in Unsigned : Numeral(m) \in Seq(Figure)
                                  /\ Len(Numeral(m)) = Size(m)}
<1>0. base \in 2..36
  BY DEF BitsOf
<1>1. ASSUME NEW m \in 0..(Word - 1), \A j \in 0..(m - 1) : j \in S
      PROVE  m \in S
  <2> DEFINE p == m \div base
             x == DigitToChar(m % base, upper)
  <2>1. m \in Unsigned /\ m \in Nat
    BY UnsignedRange
  <2>2. x \in Figure
    BY <1>0, <2>1, LastFigure
  <2>3. CASE p = 0
    <3>1. Numeral(m) = <<>> \o <<x>>
      BY <1>0, <2>1, <2>3, WriteUintOf
    <3>2. Size(m) = 1
      BY <2>1, <2>3, CountByBits
    <3> HIDE DEF p, x, Numeral, Size
    <3>3. Numeral(m) \in Seq(Figure) /\ Len(Numeral(m)) = 1
      BY <2>2, <3>1
    <3> QED
      BY <2>1, <3>2, <3>3
  <2>4. CASE p # 0
    <3>1. p \in 0..(m - 1) /\ m # 0
      BY <1>0, <2>1, <2>4, Quotient
    <3>2. Numeral(p) \in Seq(Figure) /\ Len(Numeral(p)) = Size(p)
      BY <1>1, <3>1
    <3>3. Numeral(m) = Numeral(p) \o <<x>>
      BY <1>0, <2>1, <2>4, WriteUintOf
    <3>4. Size(m) = 1 + Size(p)
      BY <2>1, <2>4, <3>1, CountByBits
    <3> HIDE DEF p, x, Numeral, Size
    <3>5. <<x>> \in Seq(Figure) /\ Len(<<x>>) = 1
      BY <2>2
    <3>6. Numeral(m) \in Seq(Figure) /\ Len(Numeral(m)) = Size(p) + 1
      BY <3>2, <3>3, <3>5, Concat
    <3>7. Size(p) \in Nat
      BY <3>2, LenProperties
    <3> QED
      BY <2>1, <3>4, <3>6, <3>7
  <2> QED
    BY <2>3, <2>4
<1> HIDE DEF S
<1>2. 0..(Word - 1) \subseteq S
  BY <1>1, UnsignedRange, InductionBelow
<1> QED
  BY <1>2, UnsignedRange DEF S

(* And so has one in any other base.                                       *)
LEMMA OtherLength ==
  ASSUME NEW base \in 2..36, NEW upper \in BOOLEAN
  PROVE  \A m \in Unsigned :
           /\ WriteOther(m, base, upper) \in Seq(Figure)
           /\ m # 0 => Len(WriteOther(m, base, upper)) = CountOther(m, base)
<1> DEFINE Numeral(m) == WriteOther(m, base, upper)
           Size(m) == IF m = 0 THEN 0 ELSE CountOther(m, base)
           S == {m \in Unsigned : Numeral(m) \in Seq(Figure)
                                  /\ Len(Numeral(m)) = Size(m)}
<1>1. ASSUME NEW m \in 0..(Word - 1), \A j \in 0..(m - 1) : j \in S
      PROVE  m \in S
  <2> DEFINE p == m \div base
             x == DigitToChar(m % base, upper)
  <2>1. m \in Unsigned /\ m \in Nat
    BY UnsignedRange
  <2>2. x \in Figure
    BY <2>1, LastFigure
  <2>3. CASE m = 0
    <3>1. Numeral(m) = <<>>
      BY <2>1, <2>3, WriteOtherOf
    <3>2. Size(m) = 0
      BY <2>3
    <3> HIDE DEF Numeral, Size
    <3>3. <<>> \in Seq(Figure) /\ Len(<<>>) = 0
      OBVIOUS
    <3> QED
      BY <2>1, <3>1, <3>2, <3>3
  <2>4. CASE m # 0
    <3>1. p \in 0..(m - 1) /\ (m < base <=> p = 0) /\ p \in Unsigned
      BY <2>1, <2>4, Quotient, UnsignedRange
    <3>2. Numeral(p) \in Seq(Figure) /\ Len(Numeral(p)) = Size(p)
      BY <1>1, <3>1
    <3>3. Numeral(m) = Numeral(p) \o <<x>>
      BY <2>1, <2>4, WriteOtherOf
    <3>4. Size(m) = 1 + Size(p)
      <4>1. CountOther(m, base) =
              IF m < base THEN 1 ELSE 1 + CountOther(p, base)
        BY <2>1, CountOtherOf
      <4> QED
        BY <2>4, <3>1, <4>1
    <3> HIDE DEF p, x, Numeral, Size
    <3>5. <<x>> \in Seq(Figure) /\ Len(<<x>>) = 1
      BY <2>2
    <3>6. Numeral(m) \in Seq(Figure) /\ Len(Numeral(m)) = Size(p) + 1
      BY <3>2, <3>3, <3>5, Concat
    <3>7. Size(p) \in Nat
      BY <3>2, LenProperties
    <3> QED
      BY <2>1, <3>4, <3>6, <3>7
  <2> QED
    BY <2>3, <2>4
<1> HIDE DEF S
<1>2. 0..(Word - 1) \subseteq S
  BY <1>1, UnsignedRange, InductionBelow
<1> QED
  BY <1>2, UnsignedRange DEF S

(* write_number writes as many digits as get_number_of_digits has counted  *)
(* before, in every base.                                                  *)
LEMMA NumeralLength ==
  ASSUME NEW n \in Unsigned, NEW base \in 2..36, NEW upper \in BOOLEAN
  PROVE  /\ WriteNumber(n, base, upper) \in Seq(Figure)
         /\ Len(WriteNumber(n, base, upper)) = NumberOfDigits(n, base)
<1>1. CASE base = 10
  <2>1. n = 0 => CountDigits10(n) = 1
    BY CountDigits10Of
  <2> QED
    BY <1>1, <2>1, DecimalLength DEF WriteNumber, NumberOfDigits
<1>2. CASE base # 10 /\ base \in DOMAIN BitsOf
  BY <1>2, UintLength DEF WriteNumber, NumberOfDigits, Rounded
<1>3. CASE base # 10 /\ base \notin DOMAIN BitsOf
  <2>1. CASE n = 0
    <3>1. "0" \in Figure
      <4>1. Digits[1] = "0" /\ 1 \in 1..10
        BY DEF Digits
      <4> QED
        BY <4>1, Rows DEF Figure, Range
    <3>2. WriteNumber(n, base, upper) = <<"0">>
            /\ NumberOfDigits(n, base) = 1
      BY <1>3, <2>1 DEF WriteNumber, NumberOfDigits
    <3> QED
      BY <3>1, <3>2
  <2>2. CASE n # 0
    BY <1>3, <2>2, OtherLength DEF WriteNumber, NumberOfDigits
  <2> QED
    BY <2>1, <2>2
<1> QED
  BY <1>1, <1>2, <1>3

----------------------------------------------------------------------------
(* Sequences of a length.                                                  *)
Sized(u, n) == IsSequence(u) /\ Len(u) = n /\ n \in Nat

(* Joined sequences are as long as both.                                   *)
LEMMA SizedJoin ==
  ASSUME NEW u, NEW m, Sized(u, m), NEW v, NEW n, Sized(v, n)
  PROVE  Sized(u \o v, m + n)
BY Joining DEF Sized, Joined

(* A function on 1..n is a sequence of that length.                        *)
LEMMA SizedMap ==
  ASSUME NEW n \in Nat, NEW u, u = [i \in 1..n |-> u[i]]
  PROVE  Sized(u, n)
<1>1. u \in [1..n -> Range(u)]
  BY DEF Range
<1>2. u \in Seq(Range(u)) /\ Len(u) = n
  BY <1>1
<1> QED
  BY <1>2 DEF Sized, IsSequence

(* As many zeros as are asked for.                                         *)
LEMMA SizedZeros ==
  ASSUME NEW n \in Nat PROVE Sized(Zeros(n), n)
<1>1. Zeros(n) = [i \in 1..n |-> Zeros(n)[i]]
  BY DEF Zeros
<1> QED
  BY <1>1, SizedMap

(* The empty sequence.                                                     *)
LEMMA SizedNone == Sized(<<>>, 0)
<1>1. <<>> = [i \in 1..0 |-> <<>>[i]]
  OBVIOUS
<1> QED
  BY <1>1, SizedMap

(* One element.                                                            *)
LEMMA SizedOne ==
  ASSUME NEW x PROVE Sized(<<x>>, 1)
BY OneIsSequence DEF Sized

(* Two elements.                                                           *)
LEMMA SizedTwo ==
  ASSUME NEW x, NEW y PROVE Sized(<<x, y>>, 2)
<1>1. <<x, y>> \in Seq({x, y}) /\ Len(<<x, y>>) = 2
  OBVIOUS
<1> QED
  BY <1>1, SequenceOf DEF Sized

(* A part of a sequence, which may be empty.                               *)
LEMMA SizedPart ==
  ASSUME NEW u, NEW n, Sized(u, n),
         NEW a \in 1..(n + 1), NEW b \in (a - 1)..n
  PROVE  Sized(SubSeq(u, a, b), (b - a) + 1)
<1> DEFINE S == Range(u)
<1>1. u \in Seq(S) /\ Len(u) = n /\ n \in Nat
  BY DEF Sized, IsSequence
<1> HIDE DEF S
<1>2. CASE a <= b
  <2>1. a \in 1..Len(u) /\ b \in a..Len(u)
    BY <1>1, <1>2
  <2>2. SubSeq(u, a, b) \in Seq(S) /\ Len(SubSeq(u, a, b)) = b - a + 1
    BY <1>1, <2>1, SubSeqProperties
  <2> QED
    BY <1>1, <1>2, <2>2, SequenceOf DEF Sized
<1>3. CASE ~ (a <= b)
  <2>1. b = a - 1
    BY <1>1, <1>3
  <2>2. SubSeq(u, a, b) = <<>>
    BY <1>1, <2>1
  <2>3. (b - a) + 1 = 0
    BY <1>1, <2>1
  <2> QED
    BY <2>2, <2>3, SizedNone
<1> QED
  BY <1>2, <1>3

----------------------------------------------------------------------------
(* The layouts of floating-point numbers (FloatText).                      *)

(* Digits, of which there is one at least, and an exponent.                *)
IsDecimal(f) ==
  Sized(f.digits, Len(f.digits)) /\ Len(f.digits) > 0 /\ f.exp \in -998..1000

(* A precision stays a number when it is narrowed.                         *)
LEMMA PrecisionInt ==
  ASSUME NEW s, s.precision \in Int
  PROVE  FpSpecs(s).precision \in Int
<1>1. Byte \in Nat \ {0} /\ DefaultPrecision \in Int
  BY ByteBelowWord, NotationAssumption
<1>2. Byte \div 2 \in Int
  BY <1>1
<1>3. ASSUME NEW n \in Int PROVE Narrowed(n) \in Int
  <2> DEFINE h == Byte \div 2
  <2> HIDE DEF h
  <2>1. (n + h) % Byte \in Int
    BY <1>1, <1>2 DEF h
  <2> QED
    BY <1>2, <2>1 DEF Narrowed, h
<1>4. Narrowed(s.precision) \in Int
  BY <1>3
<1> QED
  BY <1>1, <1>4 DEF FpSpecs, FpPrecision

(* Zeros at the end of the digits are left out, but a digit remains.       *)
LEMMA SignificandSized ==
  ASSUME NEW fp, NEW f, IsDecimal(f)
  PROVE  Sized(Significand(fp, f), Len(Significand(fp, f)))
           /\ Len(Significand(fp, f)) > 0
<1> DEFINE d == f.digits
           L == Len(d)
           IsLast(n) == /\ n > 1 => d[n] # 0
                      /\ \A i \in (n + 1)..L : d[i] = 0
           n == CHOOSE m \in 1..L : IsLast(m)
           kept ==
             IF fp.format = "general" /\ L > 1 THEN SubSeq(d, 1, n) ELSE d
           shown == [i \in DOMAIN kept |-> Digits[kept[i] + 1]]
<1>1. Sized(d, L) /\ L \in Nat /\ L > 0
  BY DEF IsDecimal, Sized
<1>2. \E m \in 1..L : IsLast(m)
  <2> DEFINE P == {m \in Int : \A i \in (m + 1)..L : d[i] = 0}
  <2> HIDE DEF d, L
  <2>1. L \in P
    BY <1>1
  <2>2. \A m \in Int : m - 1 \in P <=> \A i \in m..L : d[i] = 0
    BY <1>1
  <2>3. \A m \in P : \A i \in (m + 1)..L : d[i] = 0
    OBVIOUS
  <2> HIDE DEF P
  <2>4. PICK m \in 1..L : m \in P /\ \A j \in 1..(m - 1) : j \notin P
    <3>1. L \in Int /\ 1 \in Int /\ 1 <= L
      BY <1>1
    <3> QED
      BY <2>1, <3>1, FirstPlace, Zenon
  <2>5. ASSUME m > 1 PROVE d[m] # 0
    <3>1. m - 1 \in 1..(m - 1)
      BY <2>5
    <3>2. m - 1 \notin P
      BY <2>4, <3>1
    <3>3. PICK i \in m..L : d[i] # 0
      BY <2>2, <3>2
    <3>4. i = m \/ i \in (m + 1)..L
      BY <3>3
    <3> QED
      BY <2>3, <2>4, <3>3, <3>4
  <2> QED
    BY <2>3, <2>4, <2>5
<1>3. n \in 1..L
  <2> HIDE DEF Last, L
  <2> QED
    BY <1>2
<1> HIDE DEF n
<1>4. Sized(kept, Len(kept)) /\ Len(kept) > 0
  <2>1. CASE fp.format = "general" /\ L > 1
    <3> HIDE DEF d, L
    <3>1. Sized(SubSeq(d, 1, n), (n - 1) + 1)
      BY <1>1, <1>3, SizedPart
    <3> QED
      BY <1>1, <1>3, <2>1, <3>1 DEF Sized
  <2>2. CASE ~ (fp.format = "general" /\ L > 1)
    BY <1>1, <2>2
  <2> QED
    BY <2>1, <2>2
<1>5. Significand(fp, f) = shown
  BY DEF Significand, n
<1> HIDE DEF kept
<1>6. DOMAIN kept = 1..Len(kept)
  BY <1>4, SequenceOf DEF Sized, IsSequence
<1>7. shown = [i \in 1..Len(kept) |-> shown[i]]
  BY <1>6
<1>8. Sized(shown, Len(kept))
  <2> HIDE DEF shown
  <2> QED
    BY <1>4, <1>7, SizedMap DEF Sized
<1> QED
  BY <1>4, <1>5, <1>8 DEF Sized

(* A decimal number below a thousand.                                      *)
FewDigits(n) == IF n < 10 THEN 1 ELSE IF n < 100 THEN 2 ELSE 3

(* The digits of a number below a thousand.                                *)
LEMMA SmallDecimal ==
  ASSUME NEW n \in 0..999
  PROVE  Sized(WriteDecimal(n), FewDigits(n))
<1>1. n \in Unsigned
  BY NotationAssumption, ByteBelowWord DEF Unsigned
<1>2. WriteDecimal(n) \in Seq(Figure)
        /\ Len(WriteDecimal(n)) = CountDigits10(n)
  BY <1>1, DecimalLength
<1>3. CountDigits10(n) = FewDigits(n) /\ FewDigits(n) \in Nat
  BY <1>1, CountDigits10Of DEF FewDigits
<1>4. IsSequence(WriteDecimal(n))
  BY <1>2, SequenceOf
<1> QED
  BY <1>2, <1>3, <1>4 DEF Sized

(* The size of an exponent, with its sign.                                 *)
WithSign(sign, n) ==
  <<sign>> \o (IF n < 10 THEN <<"0">> ELSE <<>>) \o WriteDecimal(n)
SizeWithSign(n) == IF n >= 100 THEN 4 ELSE 3

(* An exponent has a sign and two digits at least.                         *)
LEMMA SignedSized ==
  ASSUME NEW n \in 0..999, NEW sign
  PROVE  Sized(WithSign(sign, n), SizeWithSign(n))
<1> DEFINE zero == IF n < 10 THEN <<"0">> ELSE <<>>
           a == IF n < 10 THEN 1 ELSE 0
<1>1. Sized(WriteDecimal(n), FewDigits(n))
  BY SmallDecimal
<1>2. Sized(zero, a)
  BY SizedNone, SizedOne
<1>3. (1 + a) + FewDigits(n) = SizeWithSign(n)
  BY DEF FewDigits, SizeWithSign
<1> HIDE DEF zero, a
<1>4. Sized((<<sign>> \o zero) \o WriteDecimal(n), (1 + a) + FewDigits(n))
  BY <1>1, <1>2, SizedOne, SizedJoin
<1> QED
  BY <1>3, <1>4 DEF zero, WithSign

Exponents == -999..999
Distance(exp) == IF exp < 0 THEN -exp ELSE exp

(* write_exponent writes as many characters as are announced for it.       *)
LEMMA ExponentSized ==
  ASSUME NEW exp \in Exponents
  PROVE  Sized(Exponent(exp), SizeWithSign(Distance(exp)))
<1>1. CASE exp < 0
  <2>1. -exp \in 0..999 /\ (exp > -10 <=> -exp < 10) /\ Distance(exp) = -exp
    BY <1>1 DEF Distance, Exponents
  <2>2. Exponent(exp) = WithSign("-", -exp)
    BY <1>1, <2>1 DEF Exponent, WithSign
  <2> QED
    BY <2>1, <2>2, SignedSized
<1>2. CASE ~ (exp < 0)
  <2>1. exp \in 0..999 /\ Distance(exp) = exp
    BY <1>2 DEF Distance, Exponents
  <2>2. Exponent(exp) = WithSign("+", exp)
    BY <1>2 DEF Exponent, WithSign
  <2> QED
    BY <2>1, <2>2, SignedSized
<1> QED
  BY <1>1, <1>2

(* As many characters are written as have been counted.                    *)
Exact(d) == Sized(d.text, d.counted)

(* What is less than zero counts as zero.                                  *)
LEMMA NoLessNat ==
  ASSUME NEW n \in Int PROVE NoLess(n) \in Nat
BY DEF NoLess

HasPoint(fp, n) == fp.point \/ n > 1

(* The exponent notation is as long as counted.                            *)
LEMMA ScientificExact ==
  ASSUME NEW fp, fp.precision \in Int, NEW sig, Sized(sig, Len(sig)),
         Len(sig) > 0, NEW exp \in Exponents
  PROVE  Exact(Scientific(fp, sig, exp))
<1> PICK n \in Nat : n = Len(sig) /\ n > 0
  BY DEF Sized
<1>1. fp.precision - n \in Int
  OBVIOUS
<1> PICK zeros \in Nat :
      /\ fp.point => zeros = NoLess(fp.precision - n)
      /\ ~ fp.point => zeros = 0
  BY <1>1, NoLessNat
<1> PICK m \in Nat :
      /\ HasPoint(fp, n) => m = n
      /\ ~ HasPoint(fp, n) => m = 0
  OBVIOUS
<1> PICK point \in Nat :
      /\ HasPoint(fp, n) => point = 1
      /\ ~ HasPoint(fp, n) => point = 0
  OBVIOUS
<1> PICK figures \in Nat :
      /\ Distance(exp) >= 100 => figures = 3
      /\ ~ (Distance(exp) >= 100) => figures = 2
  OBVIOUS
<1> PICK tail \in Nat :
      tail = SizeWithSign(Distance(exp)) /\ tail = 1 + figures
  BY DEF SizeWithSign
<1> PICK first : first = SubSeq(sig, 1, 1)
  OBVIOUS
<1> PICK rest : rest = SubSeq(sig, 2, n)
  OBVIOUS
<1> PICK middle :
      /\ HasPoint(fp, n) => middle = <<".">> \o rest
      /\ ~ HasPoint(fp, n) => middle = <<>>
  OBVIOUS
<1> PICK e : e = IF fp.upper THEN "E" ELSE "e"
  OBVIOUS
<1> PICK d : d = Scientific(fp, sig, exp)
  OBVIOUS
<1>2. d.text = first \o middle \o Zeros(zeros) \o <<e>> \o Exponent(exp)
  BY DEF Scientific, HasPoint
<1>3. d.counted = n + zeros + point + 2 + figures
  BY DEF Scientific, HasPoint, Distance
<1>4. Sized(first, 1)
  <2>1. 1 \in 1..(n + 1) /\ 1 \in (1 - 1)..n /\ (1 - 1) + 1 = 1
    OBVIOUS
  <2> QED
    BY <2>1, SizedPart
<1>5. Sized(rest, n - 1)
  <2>1. 2 \in 1..(n + 1) /\ n \in (2 - 1)..n /\ (n - 2) + 1 = n - 1
    OBVIOUS
  <2> QED
    BY <2>1, SizedPart
<1>6. Sized(middle, m)
  <2>1. CASE HasPoint(fp, n)
    <3>1. Sized(<<".">> \o rest, 1 + (n - 1))
      BY <1>5, SizedOne, SizedJoin
    <3>2. 1 + (n - 1) = m
      BY <2>1
    <3> QED
      BY <2>1, <3>1, <3>2
  <2>2. CASE ~ HasPoint(fp, n)
    BY <2>2, SizedNone
  <2> QED
    BY <2>1, <2>2
<1>7. Sized(first \o middle, 1 + m)
  BY <1>4, <1>6, SizedJoin
<1>8. Sized(first \o middle \o Zeros(zeros), 1 + m + zeros)
  BY <1>7, SizedZeros, SizedJoin
<1>9. Sized(first \o middle \o Zeros(zeros) \o <<e>>, 1 + m + zeros + 1)
  BY <1>8, SizedOne, SizedJoin
<1>a. Sized(Exponent(exp), tail)
  BY ExponentSized
<1>10. Sized(first \o middle \o Zeros(zeros) \o <<e>> \o Exponent(exp),
             1 + m + zeros + 1 + tail)
  BY <1>9, <1>a, SizedJoin
<1>11. 1 + m + zeros + 1 + tail = n + zeros + point + 2 + figures
  <2>1. CASE HasPoint(fp, n)
    BY <2>1
  <2>2. CASE ~ HasPoint(fp, n)
    <3>1. n = 1
      BY <2>2 DEF HasPoint
    <3> QED
      BY <2>2, <3>1
  <2> QED
    BY <2>1, <2>2
<1> QED
  BY <1>2, <1>3, <1>10, <1>11 DEF Exact

(* The notation of a number below one is as long as counted.               *)
LEMMA FractionExact ==
  ASSUME NEW fp, fp.precision \in Int, NEW sig, Sized(sig, Len(sig)),
         NEW hash, NEW exp \in Int, exp < 0
  PROVE  Exact(Fraction(fp, hash, sig, exp))
<1> PICK n \in Nat : n = Len(sig)
  BY DEF Sized
<1>1. fp.precision - n \in Int /\ -exp - 1 \in Nat
  OBVIOUS
<1> PICK zeros \in Nat : zeros = -exp - 1
  BY <1>1
<1> PICK behind \in Nat :
           behind = IF hash THEN NoLess(fp.precision - n) ELSE 0
  BY <1>1, NoLessNat
<1> PICK d : d = Fraction(fp, hash, sig, exp)
  OBVIOUS
<1>2. d.text = <<"0", ".">> \o Zeros(zeros) \o sig \o Zeros(behind)
  BY DEF Fraction
<1>3. d.counted = n + 2 + zeros + behind
  BY DEF Fraction
<1>4. Sized(<<"0", ".">> \o Zeros(zeros), 2 + zeros)
  BY SizedTwo, SizedZeros, SizedJoin
<1>5. Sized(<<"0", ".">> \o Zeros(zeros) \o sig, 2 + zeros + n)
  BY <1>4, SizedJoin
<1>6. Sized(<<"0", ".">> \o Zeros(zeros) \o sig \o Zeros(behind),
            2 + zeros + n + behind)
  BY <1>5, SizedZeros, SizedJoin
<1>7. 2 + zeros + n + behind = d.counted
  BY <1>3
<1> QED
  BY <1>2, <1>6, <1>7 DEF Exact

(* The notation of a number without a fraction is as long as counted.      *)
LEMMA IntegerExact ==
  ASSUME NEW fp, fp.precision \in Int, NEW sig, Sized(sig, Len(sig)),
         NEW hash, NEW exp \in Int, exp + 1 >= Len(sig)
  PROVE  Exact(Integer(fp, hash, sig, exp))
<1> PICK n \in Nat : n = Len(sig)
  BY DEF Sized
<1>1. exp - n + 1 \in Nat
  OBVIOUS
<1> PICK zeros \in Nat : zeros = exp - n + 1
  BY <1>1
<1>2. fp.precision - n - zeros \in Int
  OBVIOUS
<1> PICK behind \in Nat :
           behind = IF ~ fp.point THEN 0
                    ELSE IF hash THEN NoLess(fp.precision - n - zeros)
                    ELSE IF zeros = 0 THEN NoLess(fp.precision) ELSE 0
  BY <1>2, NoLessNat
<1> PICK last :
      last = IF fp.point THEN <<".">> \o Zeros(behind) ELSE <<>>
  OBVIOUS
<1> PICK m \in Nat : m = IF fp.point THEN 1 + behind ELSE 0
  OBVIOUS
<1> PICK d : d = Integer(fp, hash, sig, exp)
  OBVIOUS
<1>3. d.text = sig \o Zeros(zeros) \o last
  BY DEF Integer
<1>4. d.counted = n + zeros + behind + (IF fp.point THEN 1 ELSE 0)
  BY DEF Integer
<1>5. Sized(last, m)
  <2>1. CASE fp.point
    <3>1. Sized(<<".">> \o Zeros(behind), 1 + behind)
      BY SizedOne, SizedZeros, SizedJoin
    <3> QED
      BY <2>1, <3>1
  <2>2. CASE ~ fp.point
    BY <2>2, SizedNone
  <2> QED
    BY <2>1, <2>2
<1>6. Sized(sig \o Zeros(zeros), n + zeros)
  BY SizedZeros, SizedJoin
<1>7. Sized(sig \o Zeros(zeros) \o last, n + zeros + m)
  BY <1>5, <1>6, SizedJoin
<1>8. n + zeros + m = d.counted
  <2>1. behind + (IF fp.point THEN 1 ELSE 0) = m
    OBVIOUS
  <2> QED
    BY <1>4, <2>1
<1> QED
  BY <1>3, <1>7, <1>8 DEF Exact

(* The notation of a number with both parts is as long as counted.         *)
LEMMA MixedExact ==
  ASSUME NEW fp, fp.precision \in Int, NEW sig, Sized(sig, Len(sig)),
         NEW hash, NEW exp \in Nat, exp + 1 < Len(sig)
  PROVE  Exact(Mixed(fp, hash, sig, exp))
<1> PICK n \in Nat : n = Len(sig)
  BY DEF Sized
<1>1. n - (exp + 1) \in Nat /\ fp.precision - n \in Int
  OBVIOUS
<1> PICK fraction \in Nat : fraction = n - (exp + 1)
  BY <1>1
<1>2. fraction < fp.precision => fp.precision - fraction \in Nat
  OBVIOUS
<1> PICK behind \in Nat :
           behind = IF fp.format = "fixed" /\ fraction < fp.precision
                      THEN fp.precision - fraction
                    ELSE IF hash THEN NoLess(fp.precision - n) ELSE 0
  BY <1>1, <1>2, NoLessNat
<1> PICK left : left = SubSeq(sig, 1, exp + 1)
  OBVIOUS
<1> PICK right : right = SubSeq(sig, exp + 2, n)
  OBVIOUS
<1> PICK d : d = Mixed(fp, hash, sig, exp)
  OBVIOUS
<1>3. d.text = left \o <<".">> \o right \o Zeros(behind)
  BY DEF Mixed
<1>4. d.counted = n + 1 + behind
  BY DEF Mixed
<1>5. Sized(left, exp + 1)
  <2>1. /\ 1 \in 1..(n + 1) /\ exp + 1 \in (1 - 1)..n
        /\ ((exp + 1) - 1) + 1 = exp + 1
    OBVIOUS
  <2> QED
    BY <2>1, SizedPart
<1>6. Sized(right, fraction)
  <2>1. /\ exp + 2 \in 1..(n + 1) /\ n \in ((exp + 2) - 1)..n
        /\ (n - (exp + 2)) + 1 = fraction
    OBVIOUS
  <2> QED
    BY <2>1, SizedPart
<1>7. Sized(left \o <<".">>, (exp + 1) + 1)
  BY <1>5, SizedOne, SizedJoin
<1>8. Sized(left \o <<".">> \o right, (exp + 1) + 1 + fraction)
  BY <1>6, <1>7, SizedJoin
<1>9. Sized(left \o <<".">> \o right \o Zeros(behind),
            (exp + 1) + 1 + fraction + behind)
  BY <1>8, SizedZeros, SizedJoin
<1>10. (exp + 1) + 1 + fraction + behind = d.counted
  BY <1>4
<1> QED
  BY <1>3, <1>9, <1>10 DEF Exact

(* write_decimal: whichever layout is taken.                               *)
LEMMA DecimalExact ==
  ASSUME NEW s, s.precision \in Int, NEW f, IsDecimal(f)
  PROVE  Exact(Decimal(s, f))
<1> PICK fp : fp = FpSpecs(s)
  OBVIOUS
<1> PICK sig : sig = Significand(fp, f)
  OBVIOUS
<1>1. f.exp - 1 \in -999..999
  BY DEF IsDecimal
<1> PICK exp \in -999..999 : exp = f.exp - 1
  BY <1>1
<1>9. exp \in Exponents
  BY DEF Exponents
<1> PICK hash : hash = (s.alternate /\ fp.format = "general")
  OBVIOUS
<1>2. fp.precision \in Int
  BY PrecisionInt
<1>3. Sized(sig, Len(sig)) /\ Len(sig) > 0 /\ Len(sig) \in Nat
  BY SignificandSized DEF Sized
<1>4. Decimal(s, f) =
        IF UsesExponent(fp, exp) THEN Scientific(fp, sig, exp)
        ELSE IF exp < 0 THEN Fraction(fp, hash, sig, exp)
        ELSE IF exp + 1 >= Len(sig) THEN Integer(fp, hash, sig, exp)
        ELSE Mixed(fp, hash, sig, exp)
  BY DEF Decimal
<1>5. Exact(Scientific(fp, sig, exp))
  BY <1>2, <1>3, <1>9, ScientificExact
<1>6. ASSUME exp < 0 PROVE Exact(Fraction(fp, hash, sig, exp))
  BY <1>2, <1>3, <1>6, FractionExact
<1>7. ASSUME exp + 1 >= Len(sig) PROVE Exact(Integer(fp, hash, sig, exp))
  BY <1>2, <1>3, <1>7, IntegerExact
<1>8. ASSUME ~ (exp < 0), ~ (exp + 1 >= Len(sig))
      PROVE  Exact(Mixed(fp, hash, sig, exp))
  <2>1. exp \in Nat /\ exp + 1 < Len(sig)
    BY <1>3, <1>8
  <2> QED
    BY <1>2, <1>3, <2>1, MixedExact
<1> QED
  BY <1>4, <1>5, <1>6, <1>7, <1>8

(* The alignment is decided before anything is padded.                     *)
Decided == Alignment \ {"none"}

(* A value is padded up to the width of its field, and one that is longer  *)
(* not at all (write_padding_left and write_padding_right).                *)
THEOREM FieldIsFilled ==
  ASSUME NEW width \in Nat, NEW size \in Nat, NEW align \in Decided
  PROVE  LeftFill(width, align, size) + size
           + RightFill(WidthLeft(width, align, size), align)
           = IF width < size THEN size ELSE width
<1>1. CASE width = 0 \/ width < size
  <2>1. /\ LeftFill(width, align, size) = 0
        /\ RightFill(WidthLeft(width, align, size), align) = 0
    BY <1>1 DEF LeftFill, RightFill, WidthLeft
  <2>2. width < size \/ width = size
    BY <1>1
  <2> QED
    BY <2>1, <2>2
<1>2. CASE ~ (width = 0 \/ width < size)
  <2>1. CASE align = "<"
    BY <1>2, <2>1 DEF LeftFill, RightFill, WidthLeft
  <2>2. CASE align = ">"
    BY <1>2, <2>2 DEF LeftFill, RightFill, WidthLeft
  <2>3. CASE align = "^"
    <3>1. (width - size) \div 2 \in Nat
      BY <1>2
    <3>2. WidthLeft(width, align, size)
            = width - ((width - size) \div 2 + size)
      BY <1>2, <2>3 DEF LeftFill, WidthLeft
    <3>3. RightFill(WidthLeft(width, align, size), align)
            = width - ((width - size) \div 2 + size)
      BY <2>3, <3>2 DEF RightFill
    <3>4. LeftFill(width, align, size) = (width - size) \div 2
      BY <1>2, <2>3 DEF LeftFill
    <3> QED
      BY <1>2, <3>1, <3>3, <3>4
  <2> QED
    BY <2>1, <2>2, <2>3 DEF Decided, Alignment
<1> QED
  BY <1>1, <1>2

(* Neither side is given a negative number of characters, which            *)
(* write_char_n would take for a very large one; what is centered leans to *)
(* the left by one character at most, and the other alignments pad on one  *)
(* side only.                                                              *)
THEOREM SidesAreBalanced ==
  ASSUME NEW width \in Nat, NEW size \in Nat, NEW align \in Decided
  PROVE  LET left == LeftFill(width, align, size)
             right == RightFill(WidthLeft(width, align, size), align)
         IN /\ left \in Nat /\ right \in Nat
            /\ align = "<" => left = 0
            /\ align = ">" => right = 0
            /\ align = "^" => right - left \in {0, 1}
<1> DEFINE left == LeftFill(width, align, size)
           right == RightFill(WidthLeft(width, align, size), align)
<1>1. CASE width = 0 \/ width < size
  <2>1. left = 0 /\ right = 0
    BY <1>1 DEF LeftFill, RightFill, WidthLeft
  <2> QED
    BY <2>1
<1>2. CASE ~ (width = 0 \/ width < size)
  <2>1. CASE align = "<"
    BY <1>2, <2>1 DEF LeftFill, RightFill, WidthLeft
  <2>2. CASE align = ">"
    BY <1>2, <2>2 DEF LeftFill, RightFill, WidthLeft
  <2>3. CASE align = "^"
    <3> DEFINE half == (width - size) \div 2
    <3>1. half \in Nat /\ (width - size) - 2 * half \in {0, 1}
      BY <1>2
    <3>2. left = half
      BY <1>2, <2>3 DEF LeftFill
    <3>3. WidthLeft(width, align, size) = width - (half + size)
      BY <1>2, <2>3 DEF LeftFill, WidthLeft
    <3>4. right = (width - size) - half
      BY <1>2, <2>3, <3>1, <3>3 DEF RightFill
    <3>5. left \in Nat /\ right \in Nat /\ right - left \in {0, 1}
      <4> HIDE DEF half, left, right
      <4> QED
        BY <1>2, <3>1, <3>2, <3>4
    <3> QED
      BY <2>3, <3>5
  <2> QED
    BY <2>1, <2>2, <2>3 DEF Decided, Alignment
<1> QED
  BY <1>1, <1>2

----------------------------------------------------------------------------
(* Shapes (FormatValue).                                                   *)

(* A shape as it is before anything is written: what is in front of the    *)
(* value and the value, which is as long as has been counted.              *)
IsShape(h) ==
  /\ h.align \in {"<", ">"}
  /\ IsSequence(h.sign) /\ IsSequence(h.prefix)
  /\ Sized(h.text, h.counted)
  /\ h.size \in Nat

(* The size that is announced to the padding.                              *)
Fits(h) == h.size = Len(h.sign) + Len(h.prefix) + Len(h.text)

(* A sequence has a length.                                                *)
LEMMA SequenceSized ==
  ASSUME NEW u, IsSequence(u) PROVE Sized(u, Len(u)) /\ Len(u) \in Nat
<1>1. u \in Seq(Range(u))
  BY DEF IsSequence
<1>2. Len(u) \in Nat
  BY <1>1
<1> QED
  BY <1>2 DEF Sized

(* A text without sign and prefix, from the left.                          *)
LEMMA PlainShape ==
  ASSUME NEW text, IsSequence(text)
  PROVE  IsShape(Plain(text)) /\ Fits(Plain(text)) /\ Plain(text).align = "<"
<1> PICK n \in Nat : n = Len(text)
  BY SequenceSized
<1> PICK h : h = Plain(text)
  OBVIOUS
<1>1. /\ h.align = "<" /\ h.sign = <<>> /\ h.prefix = <<>> /\ h.text = text
      /\ h.size = n /\ h.counted = n
  BY DEF Plain
<1>2. Sized(text, n) /\ Sized(<<>>, 0)
  BY SequenceSized, SizedNone
<1>3. IsShape(h)
  BY <1>1, <1>2 DEF IsShape, Sized
<1>4. n = 0 + 0 + n
  OBVIOUS
<1>5. Fits(h)
  BY <1>1, <1>2, <1>4 DEF Fits, Sized
<1> QED
  BY <1>1, <1>3, <1>5

(* A sign is one character or none.                                        *)
LEMMA SignSequence ==
  ASSUME NEW s, NEW negative
  PROVE  IsSequence(SignOf(s, negative))
<1>1. SignOf(s, negative) \in {<<"-">>, <<s.sign>>, <<>>}
  BY DEF SignOf
<1> QED
  BY <1>1, OneIsSequence, SizedNone DEF Sized

(* A prefix is two characters at most.                                     *)
LEMMA PrefixSequence ==
  ASSUME NEW type PROVE IsSequence(PrefixOfType(type))
<1>1. PrefixOfType(type) \in {<<"0", type>>, <<"0">>, <<>>}
  BY DEF PrefixOfType
<1> QED
  BY <1>1, OneIsSequence, SizedNone, SizedTwo DEF Sized

(* to_absolute gives a number of the unsigned type.                        *)
LEMMA AbsoluteUnsigned ==
  ASSUME NEW n \in AnyInt PROVE ToAbsolute(n) \in Unsigned
<1> PICK W \in Nat : W = Word /\ W > 0
  BY ByteBelowWord
<1>1. n \in Int /\ n <= W - 1
  <2>1. MinInt \in Int
    BY ByteBelowWord DEF MinInt, MaxInt
  <2> QED
    BY <2>1 DEF AnyInt
<1>2. CASE n < 0
  <2>1. n % W \in Int
    BY <1>1
  <2> PICK m \in Int : m = 0 - (n % W)
    BY <2>1
  <2>2. m % W \in 0..(W - 1)
    OBVIOUS
  <2>3. ToAbsolute(n) = m % W
    BY <1>2 DEF ToAbsolute
  <2> QED
    BY <2>2, <2>3 DEF Unsigned
<1>3. CASE ~ (n < 0)
  BY <1>1, <1>3 DEF ToAbsolute, Unsigned
<1> QED
  BY <1>2, <1>3

(* The size of a shape, from those of its parts.                           *)
LEMMA ShapeFits ==
  ASSUME NEW h, NEW a \in Nat, NEW b \in Nat, NEW c \in Nat,
         h.size = a + b + c,
         Len(h.text) = a, Len(h.prefix) = b, Len(h.sign) = c
  PROVE  Fits(h) /\ h.size \in Nat
BY DEF Fits

(* A numeral is a shape, whatever its base and its sign are.               *)
LEMMA NumberShape ==
  ASSUME NEW s, NEW n \in AnyInt
  PROVE  LET h == IntShape(s, n) IN
         /\ IsShape(h) /\ Fits(h)
         /\ h.align = IF s.type = "c" THEN "<" ELSE ">"
<1> PICK h : h = IntShape(s, n)
  OBVIOUS
<1> SUFFICES /\ IsShape(h) /\ Fits(h)
             /\ h.align = IF s.type = "c" THEN "<" ELSE ">"
  OBVIOUS
<1>1. CASE s.type = "c"
  <2>1. h = Plain(<<"character">>)
    BY <1>1 DEF IntShape
  <2> QED
    BY <1>1, <2>1, OneIsSequence, PlainShape
<1>2. CASE s.type # "c"
  <2> PICK abs \in Unsigned : abs = ToAbsolute(n)
    BY AbsoluteUnsigned
  <2>1. BaseOfType(s.type) \in 2..36
    BY DEF BaseOfType
  <2> PICK base \in 2..36 : base = BaseOfType(s.type)
    BY <2>1
  <2> PICK upper \in BOOLEAN : upper = (s.type = "X")
    OBVIOUS
  <2> PICK sign : sign = SignOf(s, n < 0)
    OBVIOUS
  <2>2. h.prefix \in {<<>>, PrefixOfType(s.type)}
    BY <1>2 DEF IntShape
  <2>3. IsSequence(h.prefix)
    BY <2>2, PrefixSequence, SizedNone DEF Sized
  <2> PICK prefix : prefix = h.prefix
    OBVIOUS
  <2>11. NumberOfDigits(abs, base) \in Nat
    <3>1. /\ WriteNumber(abs, base, upper) \in Seq(Figure)
          /\ Len(WriteNumber(abs, base, upper)) = NumberOfDigits(abs, base)
      BY NumeralLength
    <3> QED
      BY <3>1, SequenceOf
  <2> PICK counted \in Nat : counted = NumberOfDigits(abs, base)
    BY <2>11
  <2>4. /\ h.align = ">" /\ h.sign = sign
        /\ h.size = counted + Len(prefix) + Len(sign)
        /\ h.counted = counted
        /\ h.text = WriteNumber(abs, base, upper)
    BY <1>2 DEF IntShape
  <2>5. IsSequence(sign)
    BY SignSequence
  <2>6. h.text \in Seq(Figure) /\ Len(h.text) = counted
    BY <2>4, NumeralLength
  <2>7. IsSequence(h.text) /\ counted \in Nat
    BY <2>6, SequenceOf
  <2> PICK a \in Nat : a = Len(prefix)
    BY <2>3, SequenceSized
  <2> PICK b \in Nat : b = Len(sign)
    BY <2>5, SequenceSized
  <2>8. h.size = counted + a + b
    BY <2>4
  <2>9. Len(h.text) = counted /\ Len(h.prefix) = a /\ Len(h.sign) = b
    BY <2>4, <2>6
  <2>10. Fits(h) /\ h.size \in Nat
    BY <2>8, <2>9, ShapeFits
  <2>12. IsShape(h)
    BY <2>3, <2>4, <2>5, <2>6, <2>7, <2>10 DEF IsShape, Sized
  <2> QED
    BY <1>2, <2>4, <2>10, <2>12
<1> QED
  BY <1>1, <1>2

(* Sequences of sequences, one behind the other.                           *)
LEMMA Flattened ==
  ASSUME NEW S, NEW q \in Seq(Seq(S))
  PROVE  FlattenSeq(q) \in Seq(S)
<1> DEFINE V == Seq(S)
<1> HIDE DEF V
<1> PICK n \in Nat : n = Len(q)
  OBVIOUS
<1>1. \A i \in 1..n : q[i] \in V
  BY DEF V
<1>2. CASE n = 0
  <2>1. q = <<>> /\ <<>> \in Seq(S)
    BY <1>2, EmptySeq
  <2>2. FlattenSeq(q) = q
    BY <1>2 DEF FlattenSeq
  <2> QED
    BY <2>1, <2>2
<1>3. CASE n # 0
  <2> DEFINE G == [p \in Int \X V |->
                     IF p[1] \in 1..n THEN p[2] \o q[p[1]] ELSE p[2]]
             Round(f) ==
               [i \in 1..n |-> IF i = 1 THEN q[i] ELSE f[i - 1] \o q[i]]
  <2>1. G \in [Int \X V -> V]
    <3>1. \A u \in V, v \in V : u \o v \in V
      BY DEF V
    <3>2. ASSUME NEW p \in Int \X V PROVE G[p] \in V
      <4>1. CASE p[1] \in 1..n
        <5>1. p[2] \in V /\ q[p[1]] \in V
          BY <1>1, <4>1
        <5>2. p[2] \o q[p[1]] \in V
          BY <3>1, <5>1
        <5> QED
          BY <4>1, <5>2
      <4>2. CASE p[1] \notin 1..n
        BY <4>2
      <4> QED
        BY <4>1, <4>2
    <3> QED
      BY <3>2
  <2>2. 1 \in 1..n /\ n - 1 \in Nat /\ 1 + (n - 1) = n /\ q[1] \in V
    BY <1>1, <1>3
  <2> PICK first \in Int : first = 1
    OBVIOUS
  <2> PICK m \in Nat : m = n - 1
    BY <2>2
  <2> PICK v \in V : v = q[1]
    BY <2>2
  <2>3. PICK f : IsRun(f, V, v, G, first, m)
    <3> HIDE DEF G
    <3> QED
      BY <2>1, RunExists
  <2>4. f \in [1..n -> V] /\ f[1] = q[1]
          /\ \A i \in 2..n : f[i] = G[<<i, f[i - 1]>>]
    <3> HIDE DEF G
    <3> QED
      BY <2>2, <2>3 DEF IsRun
  <2>5. ASSUME NEW i \in 1..n PROVE f[i] = Round(f)[i]
    <3>1. CASE i = 1
      BY <2>4, <3>1
    <3>2. CASE i # 1
      <4>1. i \in 2..n /\ i - 1 \in 1..n /\ i \in Int
        BY <3>2
      <4>2. f[i - 1] \in V
        BY <2>4, <4>1
      <4>3. G[<<i, f[i - 1]>>] = f[i - 1] \o q[i]
        BY <4>1, <4>2
      <4> HIDE DEF G
      <4> QED
        BY <2>4, <3>2, <4>1, <4>3
    <3> QED
      BY <3>1, <3>2
  <2>6. f = Round(f)
    <3> HIDE DEF G
    <3> QED
      BY <2>4, <2>5
  <2> PICK flat : flat = CHOOSE g : g = Round(g)
    OBVIOUS
  <2>7. flat = Round(flat)
    <3> HIDE DEF Round, G
    <3> QED
      BY <2>6
  <2>8. FlattenSeq(q) = flat[n]
    <3>1. Len(q) # 0
      BY <1>3
    <3>2. FlattenSeq(q) = (CHOOSE g :
            g = [i \in 1..Len(q) |-> IF i = 1 THEN q[i]
                                     ELSE g[i - 1] \o q[i]])[Len(q)]
      BY <3>1, Zenon DEF FlattenSeq
    <3>3. flat = CHOOSE g :
            g = [i \in 1..Len(q) |-> IF i = 1 THEN q[i]
                                     ELSE g[i - 1] \o q[i]]
      BY Zenon
    <3> QED
      BY <3>2, <3>3
  <2> DEFINE T == {x \in Nat : x + 1 <= n => flat[x + 1] \in V}
  <2>9. 0 \in T
    <3>1. flat[1] = q[1]
      <4> HIDE DEF T, G
      <4> QED
        BY <2>2, <2>7
    <3>2. 0 + 1 = 1
      OBVIOUS
    <3> QED
      BY <2>2, <3>1, <3>2
  <2>10. ASSUME NEW x \in T, x \in Nat PROVE x + 1 \in T
    <3> SUFFICES ASSUME (x + 1) + 1 <= n PROVE flat[(x + 1) + 1] \in V
      BY <2>10
    <3>1. flat[x + 1] \in V
      BY <2>10
    <3> PICK i \in Int : i = (x + 1) + 1
      BY <2>10
    <3>2. i \in 1..n /\ i # 1 /\ i - 1 = x + 1
      BY <2>10
    <3>3. flat[i] = flat[i - 1] \o q[i]
      <4> HIDE DEF G, T
      <4> QED
        BY <2>7, <3>2
    <3>4. \A u \in V, w \in V : u \o w \in V
      BY DEF V
    <3> QED
      BY <1>1, <3>1, <3>2, <3>3, <3>4
  <2>11. n - 1 \in T
    <3> HIDE DEF T
    <3> QED
      BY <2>2, <2>9, <2>10, Induction
  <2>12. flat[n] \in V
    <3>1. (n - 1) + 1 = n /\ (n - 1) + 1 <= n
      OBVIOUS
    <3> QED
      BY <2>11, <3>1
  <2> QED
    BY <2>8, <2>12 DEF V
<1> QED
  BY <1>2, <1>3

(* An escaped text is a sequence.                                          *)
LEMMA EscapedSequence ==
  ASSUME NEW s, IsSequence(s), NEW quote
  PROVE  IsSequence(Escaped(s, quote))
<1> DEFINE S == Range(s) \cup {"\\", "n"}
           q == [i \in DOMAIN s |-> IF s[i] = "\n" THEN <<"\\", "n">>
                                    ELSE <<s[i]>>]
<1>1. s \in Seq(Range(s))
  BY DEF IsSequence
<1>2. \A i \in DOMAIN s : s[i] \in S
  BY DEF Range
<1>3. "\\" \in S /\ "n" \in S
  OBVIOUS
<1> HIDE DEF S
<1>4. \A i \in DOMAIN s : q[i] \in Seq(S)
  BY <1>2, <1>3
<1>5. q \in Seq(Seq(S))
  <2>1. DOMAIN s = 1..Len(s) /\ Len(s) \in Nat
    BY <1>1
  <2>2. DOMAIN q = DOMAIN s
    OBVIOUS
  <2>3. q = [i \in 1..Len(s) |-> q[i]]
    BY <2>1
  <2> HIDE DEF q
  <2> QED
    BY <1>4, <2>1, <2>3
<1>6. IsSequence(FlattenSeq(q))
  <2> HIDE DEF q
  <2> QED
    BY <1>5, Flattened, SequenceOf
<1>7. Escaped(s, quote) = <<quote>> \o FlattenSeq(q) \o <<quote>>
  BY DEF Escaped
<1> HIDE DEF q
<1> QED
  BY <1>6, <1>7, OneIsSequence, Joining DEF Joined

(* A floating-point number, whose characters are counted from its exponent *)
(* and its precision.                                                      *)
LEMMA DecimalShape ==
  ASSUME NEW s, s.precision \in Int, NEW v, NEW f, IsDecimal(f)
  PROVE  LET h == FloatShape(s, v, f) IN
         IsShape(h) /\ Fits(h) /\ h.align = ">"
<1> PICK h : h = FloatShape(s, v, f)
  OBVIOUS
<1> PICK d : d = Decimal(s, f)
  OBVIOUS
<1> PICK sign : sign = SignOf(s, v.negative)
  OBVIOUS
<1>1. IsSequence(sign)
  BY SignSequence
<1>2. Sized(d.text, d.counted)
  BY DecimalExact DEF Exact
<1> PICK a \in Nat : a = d.counted
  BY <1>2 DEF Sized
<1> PICK b \in Nat : b = Len(sign)
  BY <1>1, SequenceSized
<1>3. /\ h.align = ">" /\ h.sign = sign /\ h.prefix = <<>>
      /\ h.counted = a /\ h.text = d.text
  BY DEF FloatShape
<1>4. h.size = a + 0 + b
  <2>1. h.size = a + b
    BY DEF FloatShape
  <2> QED
    BY <2>1
<1>5. Len(h.text) = a /\ Len(h.prefix) = 0 /\ Len(h.sign) = b
  BY <1>2, <1>3 DEF Sized
<1>6. Fits(h) /\ h.size \in Nat
  <2>1. 0 \in Nat
    OBVIOUS
  <2> QED
    BY <1>4, <1>5, <2>1, ShapeFits
<1>7. IsShape(h)
  <2>1. IsSequence(<<>>)
    BY SizedNone DEF Sized
  <2> QED
    BY <1>1, <1>2, <1>3, <1>6, <2>1 DEF IsShape
<1> QED
  BY <1>3, <1>6, <1>7

(* Short words.                                                            *)
LEMMA Words ==
  /\ \A u, v, w : Sized(<<u, v, w>>, 3)
  /\ \A u, v, w, x : IsSequence(<<u, v, w, x>>)
  /\ \A u, v, w, x, y : IsSequence(<<u, v, w, x, y>>)
<1>1. ASSUME NEW u, NEW v, NEW w PROVE Sized(<<u, v, w>>, 3)
  <2>1. <<u, v, w>> = [i \in 1..3 |-> <<u, v, w>>[i]]
    OBVIOUS
  <2> QED
    BY <2>1, SizedMap
<1>2. ASSUME NEW u, NEW v, NEW w, NEW x PROVE IsSequence(<<u, v, w, x>>)
  <2>1. <<u, v, w, x>> = [i \in 1..4 |-> <<u, v, w, x>>[i]]
    OBVIOUS
  <2> QED
    BY <2>1, SizedMap DEF Sized
<1>3. ASSUME NEW u, NEW v, NEW w, NEW x, NEW y
      PROVE  IsSequence(<<u, v, w, x, y>>)
  <2>1. <<u, v, w, x, y>> = [i \in 1..5 |-> <<u, v, w, x, y>>[i]]
    OBVIOUS
  <2> QED
    BY <2>1, SizedMap DEF Sized
<1> QED
  BY <1>1, <1>2, <1>3

(* A word for what is not a number.                                        *)
LEMMA NonFiniteShape ==
  ASSUME NEW s, NEW v, Category(v) \in {"infinity", "nan"}
  PROVE  LET h == WordShape(s, v) IN
         IsShape(h) /\ Fits(h) /\ h.align = "<"
<1> PICK h : h = WordShape(s, v)
  OBVIOUS
<1> PICK word : word = NonFinite[Category(v)]
  OBVIOUS
<1> PICK sign : sign = SignOf(s, v.negative)
  OBVIOUS
<1>1. IsSequence(sign)
  BY SignSequence
<1>2. Sized(word, 3)
  <2>1. word \in {<<"i", "n", "f">>, <<"n", "a", "n">>}
    BY DEF NonFinite
  <2> QED
    BY <2>1, Words
<1>3. Len(word) = 3 /\ IsSequence(word)
  BY <1>2 DEF Sized
<1> PICK b \in Nat : b = Len(sign)
  BY <1>1, SequenceSized
<1>4. /\ h.align = "<" /\ h.sign = sign /\ h.prefix = <<>>
      /\ h.counted = 3 /\ h.text = word
  BY <1>3 DEF WordShape, Plain
<1>5. h.size = 3 + 0 + b
  <2>1. h.size = 3 + b
    BY <1>3 DEF WordShape, Plain
  <2> QED
    BY <2>1
<1>6. Len(h.text) = 3 /\ Len(h.prefix) = 0 /\ Len(h.sign) = b
  BY <1>3, <1>4
<1>7. Fits(h) /\ h.size \in Nat
  <2>1. 0 \in Nat /\ 3 \in Nat
    OBVIOUS
  <2> QED
    BY <1>5, <1>6, <2>1, ShapeFits
<1>8. IsShape(h)
  <2>1. IsSequence(<<>>)
    BY SizedNone DEF Sized
  <2> QED
    BY <1>1, <1>2, <1>4, <1>7, <2>1 DEF IsShape
<1> QED
  BY <1>4, <1>7, <1>8

----------------------------------------------------------------------------
(* The shape of a value of any kind.                                       *)

(* What the default alignment of a value is.                               *)
AlignOf(a, type) ==
  IF \/ type = "c" \/ a.kind = "string" \/ IsWord(a)
     \/ a.kind \in {"bool", "char"} /\ type \in {"none", "s", "?"}
    THEN "<" ELSE ">"

(* The shape of a value is one of its kind; the size of an escaped         *)
(* character is not that of its text.                                      *)
ShapeOf(h, a, type) ==
  /\ IsShape(h)
  /\ a.kind = "char" \/ Fits(h)
  /\ h.align = AlignOf(a, type)

(* The types that the checks leave out.                                    *)
TypeFits(kind, type) ==
  /\ kind = "bool" => type # "?"
  /\ kind = "char" => type # "s"
  /\ kind \in {"pointer", "float"} => type # "c"

(* The shape of an integer.                                                *)
LEMMA ShapeOfInt ==
  ASSUME NEW s, NEW a \in Args, a.kind \in {"int", "unsigned"}
  PROVE  ShapeOf(IntShape(s, a.value), a, s.type)
<1>1. a.value \in AnyInt
  BY DEF Args
<1> PICK h : h = IntShape(s, a.value)
  OBVIOUS
<1>2. IsShape(h) /\ Fits(h) /\ h.align = IF s.type = "c" THEN "<" ELSE ">"
  BY <1>1, NumberShape
<1> QED
  BY <1>2 DEF ShapeOf, AlignOf, IsWord

(* The shape of a pointer, which is written in base 16.                    *)
LEMMA ShapeOfPointer ==
  ASSUME NEW s, NEW a \in Args, a.kind = "pointer", NEW type, type # "c",
         s.type = "x"
  PROVE  ShapeOf(IntShape(s, a.value), a, type)
<1>1. a.value \in AnyInt
  BY DEF Args
<1> PICK h : h = IntShape(s, a.value)
  OBVIOUS
<1>2. IsShape(h) /\ Fits(h) /\ h.align = IF s.type = "c" THEN "<" ELSE ">"
  BY <1>1, NumberShape
<1> QED
  BY <1>2 DEF ShapeOf, AlignOf, IsWord

(* The shape of a bool, a word or a number.                                *)
LEMMA ShapeOfBool ==
  ASSUME NEW s, NEW a \in Args, a.kind = "bool", TypeFits("bool", s.type)
  PROVE  ShapeOf(IF s.type \in {"none", "s"} THEN Plain(BoolWord[a.value])
                 ELSE IntShape(s, IF a.value THEN 1 ELSE 0), a, s.type)
<1>1. a.value \in BOOLEAN
  BY DEF Args
<1>2. CASE s.type \in {"none", "s"}
  <2>1. BoolWord[a.value] \in {<<"t", "r", "u", "e">>,
                               <<"f", "a", "l", "s", "e">>}
    BY <1>1 DEF BoolWord
  <2> PICK word : word = BoolWord[a.value]
    OBVIOUS
  <2>3. IsSequence(word)
    BY <2>1, Words
  <2> PICK h : h = Plain(word)
    OBVIOUS
  <2>4. IsShape(h) /\ Fits(h) /\ h.align = "<"
    BY <2>3, PlainShape
  <2>5. ShapeOf(h, a, s.type)
    BY <1>2, <2>4 DEF ShapeOf, AlignOf
  <2> QED
    BY <1>2, <2>5
<1>3. CASE s.type \notin {"none", "s"}
  <2>1. 0 \in AnyInt /\ 1 \in AnyInt
    <3>1. Word >= 1000 /\ Word \in Nat
      BY NotationAssumption, ByteBelowWord
    <3> QED
      BY <3>1 DEF AnyInt, MinInt, MaxInt
  <2> PICK n \in AnyInt : n = IF a.value THEN 1 ELSE 0
    BY <2>1
  <2> PICK h : h = IntShape(s, n)
    OBVIOUS
  <2>2. IsShape(h) /\ Fits(h) /\ h.align = IF s.type = "c" THEN "<" ELSE ">"
    BY NumberShape
  <2>3. ShapeOf(h, a, s.type)
    BY <1>3, <2>2 DEF ShapeOf, AlignOf, IsWord, TypeFits
  <2> QED
    BY <1>3, <2>3
<1> QED
  BY <1>2, <1>3

(* The shape of a character, by itself, in quotes or as a number.          *)
LEMMA ShapeOfChar ==
  ASSUME NEW s, NEW a \in Args, a.kind = "char", TypeFits("char", s.type)
  PROVE  ShapeOf(IF s.type \in {"none", "c"} THEN Plain(<<a.value>>)
                 ELSE IF s.type = "?"
                   THEN [Plain(Escaped(<<a.value>>, "'")) EXCEPT !.size = 3]
                 ELSE IntShape(s, a.code), a, s.type)
<1>1. CASE s.type \in {"none", "c"}
  <2> PICK h : h = Plain(<<a.value>>)
    OBVIOUS
  <2>1. IsShape(h) /\ h.align = "<"
    BY OneIsSequence, PlainShape
  <2>2. ShapeOf(h, a, s.type)
    BY <1>1, <2>1 DEF ShapeOf, AlignOf
  <2> QED
    BY <1>1, <2>2
<1>2. CASE s.type = "?"
  <2> PICK word : word = Escaped(<<a.value>>, "'")
    OBVIOUS
  <2>1. IsSequence(word)
    BY OneIsSequence, EscapedSequence
  <2> PICK g : g = Plain(word)
    OBVIOUS
  <2>2. IsShape(g) /\ g.align = "<"
    BY <2>1, PlainShape
  <2> PICK h : h = [g EXCEPT !.size = 3]
    OBVIOUS
  <2>3. /\ h.align = g.align /\ h.sign = g.sign /\ h.prefix = g.prefix
        /\ h.text = g.text /\ h.counted = g.counted /\ h.size = 3
    BY DEF Plain
  <2>4. 3 \in Nat
    OBVIOUS
  <2>5. IsShape(h) /\ h.align = "<"
    BY <2>2, <2>3, <2>4 DEF IsShape
  <2>6. ShapeOf(h, a, s.type)
    BY <1>2, <2>5 DEF ShapeOf, AlignOf
  <2> QED
    BY <1>2, <2>6
<1>3. CASE s.type \notin {"none", "c", "?"}
  <2>1. a.code \in AnyInt
    BY DEF Args
  <2> PICK h : h = IntShape(s, a.code)
    OBVIOUS
  <2>2. IsShape(h) /\ h.align = IF s.type = "c" THEN "<" ELSE ">"
    BY <2>1, NumberShape
  <2>3. ShapeOf(h, a, s.type)
    BY <1>3, <2>2 DEF ShapeOf, AlignOf, IsWord, TypeFits
  <2> QED
    BY <1>3, <2>3
<1> QED
  BY <1>1, <1>2, <1>3

(* The shape of a string, a part of it or all of it in quotes.             *)
LEMMA ShapeOfString ==
  ASSUME NEW s, s.precision \in Int, NEW a \in Args, a.kind = "string"
  PROVE  ShapeOf(Plain(IF s.type = "?" THEN Escaped(a.value, "\"")
                       ELSE IF s.precision \in 0..Len(a.value)
                         THEN SubSeq(a.value, 1, s.precision) ELSE a.value),
                 a, s.type)
<1>1. a.value \in Seq(STRING)
  BY DEF Args
<1>2. IsSequence(a.value) /\ Len(a.value) \in Nat
  BY <1>1, SequenceOf
<1> PICK n \in Int : n = s.precision
  OBVIOUS
<1> PICK m \in Nat : m = Len(a.value)
  BY <1>2
<1>3. Sized(a.value, m)
  BY <1>2 DEF Sized
<1> PICK u : u = IF s.type = "?" THEN Escaped(a.value, "\"")
                 ELSE IF n \in 0..m THEN SubSeq(a.value, 1, n) ELSE a.value
  OBVIOUS
<1>4. IsSequence(u)
  <2>1. CASE s.type = "?"
    BY <1>2, <2>1, EscapedSequence
  <2>2. CASE s.type # "?" /\ n \in 0..m
    <3>1. 1 \in 1..(m + 1) /\ n \in (1 - 1)..m
      BY <2>2
    <3>2. IsSequence(SubSeq(a.value, 1, n))
      BY <1>3, <3>1, SizedPart DEF Sized
    <3> QED
      BY <2>2, <3>2
  <2>3. CASE s.type # "?" /\ n \notin 0..m
    BY <1>2, <2>3
  <2> QED
    BY <2>1, <2>2, <2>3
<1> PICK h : h = Plain(u)
  OBVIOUS
<1>5. IsShape(h) /\ Fits(h) /\ h.align = "<"
  BY <1>4, PlainShape
<1>6. ShapeOf(h, a, s.type)
  BY <1>5 DEF ShapeOf, AlignOf
<1> QED
  BY <1>6

(* The shape of an infinity or a NaN.                                      *)
LEMMA ShapeOfWord ==
  ASSUME NEW s, NEW a \in Args, a.kind = "float", NEW type,
         Category(a.value) \in {"infinity", "nan"}
  PROVE  ShapeOf(WordShape(s, a.value), a, type)
<1> PICK h : h = WordShape(s, a.value)
  OBVIOUS
<1>1. IsShape(h) /\ Fits(h) /\ h.align = "<"
  BY NonFiniteShape
<1>2. IsWord(a)
  BY DEF IsWord, IsFinite
<1> QED
  BY <1>1, <1>2 DEF ShapeOf, AlignOf

(* The shape of a number, from its digits and its exponent.                *)
LEMMA ShapeOfFloat ==
  ASSUME NEW s, s.precision \in Int, NEW a \in Args, a.kind = "float",
         Category(a.value) \in {"zero", "finite"}, TypeFits("float", s.type),
         NEW f, IsDecimal(f)
  PROVE  ShapeOf(FloatShape(s, a.value, f), a, s.type)
<1> PICK h : h = FloatShape(s, a.value, f)
  OBVIOUS
<1>1. IsShape(h) /\ Fits(h) /\ h.align = ">"
  BY DecimalShape
<1>2. ~ IsWord(a)
  BY DEF IsWord, IsFinite
<1> QED
  BY <1>1, <1>2 DEF ShapeOf, AlignOf, TypeFits

----------------------------------------------------------------------------
(* The specs of a job.                                                     *)

(* Under the zero flag a value is aligned to the right.                    *)
Regular(s) == s.align \in Alignment /\ (s.zero => s.align = ">")

(* The alignment that is read is one of the alignments.                    *)
LEMMA AlignmentRead ==
  ASSUME NEW s, IsText(s), NEW i \in Places(s)
  PROVE  Regular(AllSpecs(s, i).specs)
<1> PICK a : a = AlignEnd(s)[i]
  OBVIOUS
<1> PICK new : new = AllSpecs(s, i).specs
  OBVIOUS
<1>1. Len(s) \in Nat /\ i \in Int
        /\ (Char(s, i) = End <=> i \notin 1..Len(s))
        /\ (Char(s, i + 1) = End <=> i + 1 \notin 1..Len(s))
        /\ (i \in 1..Len(s) => s[i] = Char(s, i))
        /\ (i + 1 \in 1..Len(s) => s[i + 1] = Char(s, i + 1))
  BY CharOfText DEF Places
<1>2. a = IF Char(s, i + 1) \in Align THEN i + 2
          ELSE IF Char(s, i) \in Align THEN i + 1 ELSE i
  BY DEF AlignEnd, Places
<1>3. End \notin Align
  BY DEF End, Align
<1>4. a > i => s[a - 1] \in Align
  <2>1. CASE Char(s, i + 1) \in Align
    <3>1. i + 1 \in 1..Len(s) /\ a - 1 = i + 1
      BY <1>1, <1>2, <1>3, <2>1
    <3> QED
      BY <1>1, <2>1, <3>1
  <2>2. CASE Char(s, i + 1) \notin Align /\ Char(s, i) \in Align
    <3>1. i \in 1..Len(s) /\ a - 1 = i
      BY <1>1, <1>2, <1>3, <2>2
    <3> QED
      BY <1>1, <2>2, <3>1
  <2>3. CASE Char(s, i + 1) \notin Align /\ Char(s, i) \notin Align
    BY <1>1, <1>2, <2>3
  <2> QED
    BY <2>1, <2>2, <2>3
<1>5. /\ new.align \in {IF a > i THEN s[a - 1] ELSE ">",
                        IF a > i THEN s[a - 1] ELSE "none"}
      /\ new.zero => new.align = (IF a > i THEN s[a - 1] ELSE ">") /\ a = i
  BY Zenon DEF AllSpecs
<1>6. CASE a > i
  <2>1. a # i
    BY <1>1, <1>6
  <2> QED
    BY <1>4, <1>5, <1>6, <2>1 DEF Regular, Align, Alignment
<1>7. CASE ~ (a > i)
  BY <1>5, <1>7 DEF Regular, Alignment
<1> QED
  BY <1>6, <1>7

(* The specs of a text are a record of what the text has.                  *)
LEMMA RegularParsed ==
  ASSUME NEW s, IsText(s)
  PROVE  /\ ParseSpecs(s, 1).specs \in AnySpecs(s)
         /\ Regular(ParseSpecs(s, 1).specs)
<1>1. 1 \in Places(s) /\ Len(s) \in Nat
  BY CharOfText DEF Places
<1>2. ParseSpecs(s, 1) \in SpecsRead(s)
  BY <1>1, ParseRead
<1>3. Regular(NoSpecs)
  BY DEF Regular, NoSpecs, Alignment
<1>4. AllSpecs(s, 1) \in SpecsRead(s) /\ Regular(AllSpecs(s, 1).specs)
  BY <1>1, AllSpecsRead, AlignmentRead
<1>5. ParseSpecs(s, 1).specs \in {NoSpecs, AllSpecs(s, 1).specs}
  <2> PICK all : all = AllSpecs(s, 1)
    OBVIOUS
  <2>1. /\ Closed(1).specs = NoSpecs
        /\ [Closed(1) EXCEPT !.ok = FALSE].specs = NoSpecs
    BY DEF Closed
  <2>2. \A at, ok : [all EXCEPT !.at = at, !.ok = ok].specs = all.specs
    BY <1>4 DEF SpecsRead
  <2> QED
    BY <2>1, <2>2 DEF ParseSpecs
<1>6. ParseSpecs(s, 1).specs \in AnySpecs(s)
  BY <1>2 DEF SpecsRead
<1> QED
  BY <1>3, <1>4, <1>5, <1>6

(* A type that is allowed for a kind fits it.                              *)
LEMMA AllowedType ==
  ASSUME NEW kind, NEW s, Allows(kind, s)
  PROVE  TypeFits(kind, s.type)
BY DEF Allows, TypeFits, Integral, IntType, FloatType

(* Specs that the checks of a kind accept have a type that fits.           *)
LEMMA CheckedType ==
  ASSUME NEW s, IsText(s), NEW kind, ValidateSpecs(kind, s, 1).ok
  PROVE  TypeFits(kind, ParseSpecs(s, 1).specs.type)
<1>1. 1 \in Places(s) /\ Len(s) \in Nat
  BY CharOfText DEF Places
<1>2. ParseSpecs(s, 1).specs = ValidateSpecs(kind, s, 1).specs
  BY <1>1, CoreAgrees DEF SameRead
<1>3. CASE Char(s, 1) = Closing
  <2>1. ValidateSpecs(kind, s, 1).specs = NoSpecs
    BY <1>3 DEF ValidateSpecs, Closed
  <2> QED
    BY <1>2, <2>1 DEF TypeFits, NoSpecs
<1>4. CASE Char(s, 1) # Closing /\ Char(s, 1) \in {Opening, End}
  BY <1>4 DEF ValidateSpecs, Closed
<1>5. CASE Char(s, 1) # Closing /\ Char(s, 1) \notin {Opening, End}
  <2> PICK all : all = AllSpecs(s, 1)
    OBVIOUS
  <2>1. all \in SpecsRead(s)
    BY <1>1, AllSpecsRead
  <2>2. ValidateSpecs(kind, s, 1) = Checked(kind, s, all)
    BY <1>5 DEF ValidateSpecs
  <2>3. Allows(kind, all.specs) /\ ValidateSpecs(kind, s, 1).specs = all.specs
    BY <2>1, <2>2 DEF Checked, SpecsRead
  <2> QED
    BY <1>2, <2>3, AllowedType
<1> QED
  BY <1>3, <1>4, <1>5

(* The specs in the text of a job, and what its format_spec makes of them. *)
TextSpecs(j) == ParseSpecs(j.text, 1).specs
JobSpecs(j) ==
  IF j.spec = Undefined THEN TextSpecs(j)
  ELSE Overwritten(TextSpecs(j), j.spec)

(* The specs of a job, "x" for the pointers included.                      *)
Characters(j) == Shown(j.text) \cup {"x"}
SpecsOf(j) ==
  [fill : Characters(j), align : Characters(j), sign : Characters(j),
   alternate : BOOLEAN, zero : BOOLEAN, width : Nat, precision : Int,
   type : Characters(j)]

(* A format_spec overwrites the width and the precision, nothing else.     *)
LEMMA OverwrittenSpecs ==
  ASSUME NEW S, NEW s \in [fill : S, align : S, sign : S,
                           alternate : BOOLEAN, zero : BOOLEAN, width : Nat,
                           precision : Int, type : S],
         NEW spec, spec.width \in Int, spec.precision \in Int
  PROVE  LET t == Overwritten(s, spec) IN
         /\ t \in [fill : S, align : S, sign : S,
                   alternate : BOOLEAN, zero : BOOLEAN, width : Nat,
                   precision : Int, type : S]
         /\ t.fill = s.fill /\ t.align = s.align /\ t.zero = s.zero
         /\ t.type = s.type
<1>1. NoLess(spec.width) \in Nat /\ NoLess(spec.precision) \in Nat
  BY NoLessNat
<1> PICK w \in Nat :
      w = IF spec.width = NotDefined THEN s.width ELSE NoLess(spec.width)
  BY <1>1
<1> PICK p \in Int :
      p = IF spec.precision = NotDefined THEN s.precision
          ELSE NoLess(spec.precision)
  BY <1>1
<1>2. Overwritten(s, spec) = [s EXCEPT !.width = w, !.precision = p]
  BY DEF Overwritten
<1> QED
  BY <1>2

(* The specs of a job, before and after a format_spec.                     *)
LEMMA RegularJob ==
  ASSUME NEW j \in Jobs
  PROVE  /\ TextSpecs(j) \in SpecsOf(j) /\ JobSpecs(j) \in SpecsOf(j)
         /\ Regular(TextSpecs(j)) /\ Regular(JobSpecs(j))
         /\ TextSpecs(j).type = JobSpecs(j).type
         /\ IsSequence(j.args) /\ Len(j.args) \in Nat /\ Len(j.args) > 0
<1>1. /\ IsText(j.text) /\ j.args \in Seq(Args) /\ j.args # <<>>
      /\ j.spec.width \in Int /\ j.spec.precision \in Int
  BY JobsAssumption DEF IsText
<1>2. IsSequence(j.args) /\ Len(j.args) \in Nat /\ Len(j.args) > 0
  <2>1. Len(j.args) \in Nat /\ IsSequence(j.args)
    BY <1>1, SequenceOf
  <2> QED
    BY <1>1, <2>1
<1>3. TextSpecs(j) \in AnySpecs(j.text) /\ Regular(TextSpecs(j))
  BY <1>1, RegularParsed DEF TextSpecs
<1>4. TextSpecs(j) \in SpecsOf(j)
  BY <1>3 DEF AnySpecs, SpecsOf, Characters
<1> PICK s \in SpecsOf(j) : s = TextSpecs(j)
  BY <1>4
<1> PICK t : t = Overwritten(s, j.spec)
  OBVIOUS
<1>5. /\ t \in SpecsOf(j) /\ t.align = s.align /\ t.zero = s.zero
      /\ t.type = s.type
  BY <1>1, OverwrittenSpecs DEF SpecsOf
<1>6. Regular(t)
  BY <1>3, <1>5 DEF Regular
<1> QED
  BY <1>2, <1>3, <1>5, <1>6 DEF JobSpecs

(* The specs of a job are those that are meant.                            *)
LEMMA MeantSpecs ==
  ASSUME NEW j \in Jobs
  PROVE  LET s == JobSpecs(j) IN
         /\ j.meant.fill = s.fill /\ j.meant.align = s.align
         /\ j.meant.zero = s.zero /\ j.meant.width = s.width
         /\ j.meant.type = s.type
BY MeaningAssumption DEF JobSpecs, TextSpecs

(* The type of a job fits every value of it.                               *)
LEMMA JobType ==
  ASSUME NEW j \in Jobs, NEW i \in DOMAIN j.args, j.args[i].kind # "digits"
  PROVE  TypeFits(j.args[i].kind, JobSpecs(j).type)
<1>1. ValidateSpecs(j.args[i].kind, j.text, 1).ok /\ IsText(j.text)
  BY JobsAssumption DEF IsText
<1> QED
  BY <1>1, CheckedType, RegularJob DEF TextSpecs

----------------------------------------------------------------------------
(* The text of a value.                                                    *)

(* What is written of it, up to its left padding, its body and its end,    *)
(* with the specs s whose alignment is known.                              *)
InFrontOf(h) == h.sign \o h.prefix
Filled(s, n) == [i \in 1..n |-> s.fill]
LeadText(s, h) == IF s.zero THEN InFrontOf(h) ELSE <<>>
LeftText(s, h) ==
  LeadText(s, h) \o Filled(s, LeftFill(s.width, s.align, h.size))
BodyText(s, h) ==
  LeftText(s, h) \o ((IF s.zero THEN <<>> ELSE InFrontOf(h)) \o h.text)
LastText(s, h) ==
  BodyText(s, h)
    \o Filled(s, RightFill(WidthLeft(s.width, s.align, h.size), s.align))

(* A run of the fill character.                                            *)
LEMMA FilledSequence ==
  ASSUME NEW s, NEW n \in Nat
  PROVE  IsSequence(Filled(s, n)) /\ (n = 0 => Filled(s, n) = <<>>)
<1>1. Filled(s, n) = [i \in 1..n |-> Filled(s, n)[i]]
  BY DEF Filled
<1>2. IsSequence(Filled(s, n))
  BY <1>1, SizedMap DEF Sized
<1>3. n = 0 => Filled(s, n) = <<>>
  BY DEF Filled
<1> QED
  BY <1>2, <1>3

(* Joining sequences, with nothing and three of them.                      *)
LEMMA JoinedWithNone ==
  ASSUME NEW u, IsSequence(u)
  PROVE  u \o <<>> = u /\ <<>> \o u = u /\ IsSequence(<<>>)
<1>1. u \in Seq(Range(u))
  BY DEF IsSequence
<1> QED
  BY <1>1, ConcatEmptySeq, SizedNone DEF Sized

InTurn(u, v, w) == (u \o v) \o w = u \o (v \o w)

(* Sequences may be joined in either order.                                *)
LEMMA JoinedInTurn ==
  ASSUME NEW u, IsSequence(u), NEW v, IsSequence(v), NEW w, IsSequence(w)
  PROVE  InTurn(u, v, w) /\ IsSequence(u \o v)
<1> DEFINE S == Range(u) \cup Range(v) \cup Range(w)
<1>1. u \in Seq(S) /\ v \in Seq(S) /\ w \in Seq(S)
  <2>1. u \in Seq(Range(u)) /\ v \in Seq(Range(v)) /\ w \in Seq(Range(w))
    BY DEF IsSequence
  <2>2. Range(u) \subseteq S /\ Range(v) \subseteq S /\ Range(w) \subseteq S
    OBVIOUS
  <2> HIDE DEF S
  <2> QED
    BY <2>1, <2>2, SeqMonotonic
<1> HIDE DEF S
<1>2. (u \o v) \o w = u \o (v \o w)
  BY <1>1, ConcatAssociative
<1> QED
  BY <1>2, Joining DEF Joined, InTurn

(* How many characters are filled in, on both sides together.              *)
Padding(width, size) == IF width > size THEN width - size ELSE 0

(* The value is between two runs of the fill character, or behind them     *)
(* under the zero flag.                                                    *)
PaddedBy(t, s, h, l, all) ==
  t = IF s.zero THEN InFrontOf(h) \o Filled(s, all) \o h.text
      ELSE Filled(s, l) \o InFrontOf(h) \o h.text \o Filled(s, all - l)

Balanced(align, l, all) ==
  /\ align = "<" => l = 0
  /\ align = ">" => l = all
  /\ align = "^" => all - 2 * l \in {0, 1}

(* The field is filled on both sides together.                             *)
LEMMA SidesOfField ==
  ASSUME NEW width \in Nat, NEW size \in Nat, NEW align \in Decided
  PROVE  LET all == Padding(width, size)
             l == LeftFill(width, align, size)
         IN /\ all \in Nat /\ l \in 0..all /\ Balanced(align, l, all)
            /\ RightFill(WidthLeft(width, align, size), align) = all - l
<1> PICK l : l = LeftFill(width, align, size)
  OBVIOUS
<1> PICK r : r = RightFill(WidthLeft(width, align, size), align)
  OBVIOUS
<1>a. Padding(width, size) \in Nat
  <2>1. CASE width > size
    <3>1. width - size \in Nat
      BY <2>1
    <3> QED
      BY <2>1, <3>1 DEF Padding
  <2>2. CASE ~ (width > size)
    BY <2>2 DEF Padding
  <2> QED
    BY <2>1, <2>2
<1> PICK all \in Nat : all = Padding(width, size)
  BY <1>a
<1>1. /\ l \in Nat /\ r \in Nat
      /\ align = "<" => l = 0
      /\ align = ">" => r = 0
      /\ align = "^" => r - l \in {0, 1}
  BY SidesAreBalanced
<1>2. l + size + r = IF width < size THEN size ELSE width
  BY FieldIsFilled
<1>3. l + r = all
  BY <1>1, <1>2 DEF Padding
<1>4. r = all - l /\ l \in 0..all
  BY <1>1, <1>3
<1>5. Balanced(align, l, all)
  BY <1>1, <1>3, <1>4 DEF Balanced
<1> QED
  BY <1>4, <1>5

(* A finished text is the value between its padding.                       *)
LEMMA TextPadded ==
  ASSUME NEW s, s.width \in Nat, s.align \in Decided, s.zero \in BOOLEAN,
         s.zero => s.align = ">", NEW h, IsShape(h)
  PROVE  LET all == Padding(s.width, h.size) IN
         /\ all \in Nat
         /\ \E l \in 0..all : Balanced(s.align, l, all)
                                /\ PaddedBy(LastText(s, h), s, h, l, all)
<1> PICK all : all = Padding(s.width, h.size)
  OBVIOUS
<1> PICK l : l = LeftFill(s.width, s.align, h.size)
  OBVIOUS
<1>1. /\ all \in Nat /\ l \in 0..all /\ Balanced(s.align, l, all)
      /\ RightFill(WidthLeft(s.width, s.align, h.size), s.align) = all - l
  BY SidesOfField DEF IsShape
<1>2. l \in Nat /\ all - l \in Nat
  BY <1>1
<1> PICK r \in Nat : r = all - l
  BY <1>2
<1> PICK front : front = InFrontOf(h)
  OBVIOUS
<1> PICK a : a = Filled(s, l)
  OBVIOUS
<1> PICK b : b = Filled(s, r)
  OBVIOUS
<1> PICK v : v = h.text
  OBVIOUS
<1>3. IsSequence(front) /\ IsSequence(v) /\ IsSequence(a) /\ IsSequence(b)
  <2>1. IsSequence(front)
    BY Joining DEF InFrontOf, IsShape, Joined
  <2>2. IsSequence(v)
    BY DEF IsShape, Sized
  <2>3. IsSequence(a) /\ IsSequence(b)
    BY <1>2, FilledSequence
  <2> QED
    BY <2>1, <2>2, <2>3
<1>4. LastText(s, h) =
        (((IF s.zero THEN front ELSE <<>>) \o a)
           \o ((IF s.zero THEN <<>> ELSE front) \o v)) \o b
  BY <1>1 DEF LastText, BodyText, LeftText, LeadText
<1>5. CASE s.zero
  <2>1. l = all /\ r = 0
    BY <1>1, <1>2, <1>5 DEF Balanced
  <2>2. b = <<>>
    BY <2>1, FilledSequence
  <2>3. LastText(s, h) = ((front \o a) \o (<<>> \o v)) \o <<>>
    BY <1>4, <1>5, <2>2
  <2>4. <<>> \o v = v
    BY <1>3, JoinedWithNone
  <2>5. IsSequence((front \o a) \o v)
    BY <1>3, JoinedInTurn
  <2>6. LastText(s, h) = (front \o a) \o v
    BY <2>3, <2>4, <2>5, JoinedWithNone
  <2>7. PaddedBy(LastText(s, h), s, h, l, all)
    BY <1>5, <2>1, <2>6 DEF PaddedBy
  <2> QED
    BY <1>1, <2>7
<1>6. CASE ~ s.zero
  <2>1. LastText(s, h) = ((<<>> \o a) \o (front \o v)) \o b
    BY <1>4, <1>6
  <2>2. <<>> \o a = a
    BY <1>3, JoinedWithNone
  <2>3. (a \o front) \o v = a \o (front \o v)
    <3>1. InTurn(a, front, v)
      BY <1>3, JoinedInTurn
    <3> QED
      BY <3>1 DEF InTurn
  <2>4. LastText(s, h) = ((a \o front) \o v) \o b
    BY <2>1, <2>2, <2>3
  <2>5. PaddedBy(LastText(s, h), s, h, l, all)
    BY <1>6, <2>4 DEF PaddedBy
  <2> QED
    BY <1>1, <2>5
<1> QED
  BY <1>5, <1>6

----------------------------------------------------------------------------
(* The layout of a text.                                                   *)

(* What write_arg works on for a value, with its alignment known, and      *)
(* behind the left padding.                                                *)
ArgSpecs(s, a) ==
  IF a.kind = "pointer" THEN [s EXCEPT !.alternate = TRUE, !.type = "x"]
  ELSE IF IsWord(a) /\ s.zero THEN [s EXCEPT !.fill = Blank, !.zero = FALSE]
  ELSE s
Resolved(s, h) == IF s.align = "none" THEN [s EXCEPT !.align = h.align] ELSE s
Behind(s, h) == [s EXCEPT !.width = WidthLeft(s.width, s.align, h.size)]

(* Layout, of a text t of the value a.                                     *)
HasLayout(j, h, a, t) ==
  LET natural == Len(InFrontOf(h)) + Len(h.text)
      all == Padding(j.meant.width, h.size)
      zero == j.meant.zero /\ ~ IsWord(a)
      fill == IF j.meant.zero /\ ~ zero THEN Blank ELSE j.meant.fill
      Run(n) == [i \in 1..n |-> fill]
      align == IF j.meant.align = "none" THEN AlignOf(a, j.meant.type)
               ELSE j.meant.align
  IN /\ a.kind = "char" \/ h.size = natural
     /\ \E l \in 0..all :
          /\ align = "<" => l = 0
          /\ align = ">" => l = all
          /\ align = "^" => all - 2 * l \in {0, 1}
          /\ t = IF zero THEN InFrontOf(h) \o Run(all) \o h.text
                 ELSE Run(l) \o InFrontOf(h) \o h.text \o Run(all - l)

(* The specs with which a text is written are those of the job.            *)
LEMMA SpecsWritten ==
  ASSUME NEW j \in Jobs, NEW a, NEW h, h.align \in {"<", ">"}
  PROVE  LET s == JobSpecs(j)
             r == Resolved(ArgSpecs(s, a), h)
         IN /\ ArgSpecs(s, a) \in SpecsOf(j)
            /\ r.width = s.width /\ r.width \in Nat
            /\ r.align = IF s.align = "none" THEN h.align ELSE s.align
            /\ r.align \in Decided
            /\ r.zero \in BOOLEAN /\ (r.zero <=> s.zero /\ ~ IsWord(a))
            /\ r.zero => r.align = ">"
            /\ r.fill = IF s.zero /\ IsWord(a) THEN Blank ELSE s.fill
<1> PICK s \in SpecsOf(j) : s = JobSpecs(j) /\ Regular(s)
  BY RegularJob
<1> PICK t : t = ArgSpecs(s, a)
  OBVIOUS
<1>1. a.kind = "pointer" => ~ IsWord(a)
  BY DEF IsWord
<1>2. "x" \in Characters(j) /\ Blank \in Characters(j)
  BY DEF Characters, Shown
<1>3. /\ t \in SpecsOf(j) /\ t.width = s.width /\ t.align = s.align
      /\ t.zero <=> s.zero /\ ~ IsWord(a)
      /\ t.fill = IF s.zero /\ IsWord(a) THEN Blank ELSE s.fill
  BY <1>1, <1>2 DEF ArgSpecs, SpecsOf
<1> PICK r : r = Resolved(t, h)
  OBVIOUS
<1>4. /\ r.width = s.width /\ r.zero = t.zero /\ r.fill = t.fill
      /\ r.align = IF s.align = "none" THEN h.align ELSE s.align
  BY <1>3 DEF Resolved, SpecsOf
<1>5. r.width \in Nat /\ r.zero \in BOOLEAN /\ s.zero \in BOOLEAN
  BY <1>3, <1>4 DEF SpecsOf
<1>6. r.align \in Decided
  BY <1>4 DEF Regular, Decided, Alignment
<1>7. r.zero => r.align = ">"
  BY <1>3, <1>4 DEF Regular
<1> QED
  BY <1>3, <1>4, <1>5, <1>6, <1>7

(* The announced size is that of the value with what is in front of it.    *)
LEMMA NaturalSize ==
  ASSUME NEW h, IsShape(h), Fits(h)
  PROVE  h.size = Len(InFrontOf(h)) + Len(h.text)
<1>1. Joined(InFrontOf(h), h.sign, h.prefix)
  BY Joining DEF IsShape, InFrontOf
<1>2. Len(InFrontOf(h)) = Len(h.sign) + Len(h.prefix)
  BY <1>1 DEF Joined
<1> QED
  BY <1>2 DEF Fits

(* A text that is written to its end is laid out as the specs say.         *)
LEMMA LayoutFollows ==
  ASSUME NEW j \in Jobs, NEW a, NEW h, ShapeOf(h, a, JobSpecs(j).type)
  PROVE  HasLayout(j, h, a,
                   LastText(Resolved(ArgSpecs(JobSpecs(j), a), h), h))
<1> PICK s : s = JobSpecs(j)
  OBVIOUS
<1> PICK r : r = Resolved(ArgSpecs(s, a), h)
  OBVIOUS
<1> PICK t : t = LastText(r, h)
  OBVIOUS
<1>1. IsShape(h) /\ h.align \in {"<", ">"} /\ h.align = AlignOf(a, s.type)
        /\ (a.kind = "char" \/ Fits(h))
  BY DEF ShapeOf, IsShape
<1>2. /\ r.width = s.width /\ r.width \in Nat
      /\ r.align = IF s.align = "none" THEN h.align ELSE s.align
      /\ r.align \in Decided
      /\ r.zero \in BOOLEAN /\ (r.zero <=> s.zero /\ ~ IsWord(a))
      /\ r.zero => r.align = ">"
      /\ r.fill = IF s.zero /\ IsWord(a) THEN Blank ELSE s.fill
  BY <1>1, SpecsWritten
<1>3. /\ j.meant.fill = s.fill /\ j.meant.align = s.align
      /\ j.meant.zero = s.zero /\ j.meant.width = s.width
      /\ j.meant.type = s.type
  BY MeantSpecs
<1> PICK all : all = Padding(r.width, h.size)
  OBVIOUS
<1>4. PICK l \in 0..all :
        Balanced(r.align, l, all) /\ PaddedBy(t, r, h, l, all)
  BY <1>1, <1>2, TextPadded
<1>5. all = Padding(j.meant.width, h.size)
  BY <1>2, <1>3
<1> DEFINE zero == j.meant.zero /\ ~ IsWord(a)
           fill == IF j.meant.zero /\ ~ zero THEN Blank ELSE j.meant.fill
           Run(n) == [i \in 1..n |-> fill]
           align == IF j.meant.align = "none" THEN AlignOf(a, j.meant.type)
                    ELSE j.meant.align
<1>6. align = r.align
  BY <1>1, <1>2, <1>3
<1>7. r.zero <=> zero
  BY <1>2, <1>3
<1>8. fill = r.fill
  BY <1>2, <1>3
<1>9. \A n : Run(n) = Filled(r, n)
  <2> HIDE DEF fill
  <2> QED
    BY <1>8 DEF Filled
<1>10. a.kind = "char" \/ h.size = Len(InFrontOf(h)) + Len(h.text)
  BY <1>1, NaturalSize
<1>11. t = IF zero THEN InFrontOf(h) \o Run(all) \o h.text
           ELSE Run(l) \o InFrontOf(h) \o h.text \o Run(all - l)
  <2> HIDE DEF zero, Run
  <2> QED
    BY <1>4, <1>7, <1>9 DEF PaddedBy
<1>12. /\ align = "<" => l = 0
       /\ align = ">" => l = all
       /\ align = "^" => all - 2 * l \in {0, 1}
  <2> HIDE DEF align
  <2> QED
    BY <1>4, <1>6 DEF Balanced
<1>13. HasLayout(j, h, a, t)
  <2> HIDE <1>1, <1>2, <1>3, <1>4
  <2> QED
    BY <1>5, <1>10, <1>11, <1>12, Zenon DEF HasLayout
<1> QED
  BY <1>13

----------------------------------------------------------------------------
(* The invariant.                                                          *)

Ongoing == {"overwrite", "begin", "digits", "lead", "left", "body", "right"}

(* A value is formatted as long as one is left.                            *)
Counted(j, ph, o) ==
  /\ IsSequence(o)
  /\ ph \in Ongoing \cup {"done", "failed"}
  /\ ph \in Ongoing => Len(o) < Len(j.args)
  /\ ph = "overwrite" => o = <<>> /\ j.spec # Undefined

ArgAt(j, o) == j.args[Len(o) + 1]

(* The specs of the formatter stay those of the job.                       *)
SpecsKept(j, ph, s) ==
  s = IF ph = "overwrite" THEN TextSpecs(j) ELSE JobSpecs(j)

(* The exponent, from its estimate on: it may grow by one when it was too  *)
(* low, and by one when the digits are rounded.                            *)
Sought(x) == x \in -998..999
Found(x) == x \in -998..1000

(* The digits so far, and their exponent.                                  *)
Generating(ph, a, st, d, x, n) ==
  /\ IsSequence(d) /\ n \in Int
  /\ ph = "digits" =>
       /\ a.kind = "float" /\ Category(a.value) = "finite"
       /\ st \in {"exact", "shortest", "generated"}
       /\ Found(x)
       /\ st # "generated" => Sought(x)

(* How far the text is, and with which specs it goes on.                   *)
Writing(ph, s, a, h, w, t) ==
  LET r == Resolved(ArgSpecs(s, a), h) IN
  /\ ph \in {"overwrite", "begin", "digits", "lead"} => t = <<>>
  /\ ph = "digits" => w = s
  /\ ph \in {"lead", "left", "body", "right"} => ShapeOf(h, a, s.type)
  /\ ph = "lead" => w = ArgSpecs(s, a)
  /\ ph = "left" => w = r /\ t = LeadText(r, h)
  /\ ph = "body" => w = Behind(r, h) /\ t = LeftText(r, h)
  /\ ph = "right" => w = Behind(r, h) /\ t = BodyText(r, h)

(* The last text is laid out.                                              *)
LaidOut(j, ph, h, o) ==
  ph \in {"begin", "done"} /\ o # <<>> /\ j.args[Len(o)].kind # "digits" =>
    HasLayout(j, h, j.args[Len(o)], o[Len(o)])

Inv ==
  /\ job \in Jobs
  /\ Counted(job, phase, outs)
  /\ SpecsKept(job, phase, specs)
  /\ Generating(phase, ArgAt(job, outs), stage, digits, k, len)
  /\ IsShape(shape)
  /\ Writing(phase, specs, ArgAt(job, outs), shape, work, written)
  /\ LaidOut(job, phase, shape, outs)

(* The value that is formatted, and the specs with which it is.            *)
LEMMA ArgumentLeft ==
  ASSUME NEW j \in Jobs, NEW ph \in Ongoing, NEW o, Counted(j, ph, o),
         NEW s, SpecsKept(j, ph, s)
  PROVE  LET a == ArgAt(j, o) IN
         /\ a \in Args
         /\ a.kind # "digits" => TypeFits(a.kind, s.type)
         /\ a.kind = "float" /\ Category(a.value) = "finite" =>
              Estimated(a.value)
         /\ s.precision \in Int
<1>1. Len(o) + 1 \in DOMAIN j.args
  <2>1. Len(o) \in Nat /\ Len(j.args) \in Nat /\ Len(o) < Len(j.args)
    BY RegularJob, SequenceSized DEF Counted
  <2>2. DOMAIN j.args = 1..Len(j.args)
    BY JobsAssumption
  <2> QED
    BY <2>1, <2>2
<1> PICK i \in DOMAIN j.args : i = Len(o) + 1
  BY <1>1
<1> PICK a : a = j.args[i]
  OBVIOUS
<1>2. a \in Args
  BY JobsAssumption
<1>3. s.type = JobSpecs(j).type /\ s.precision \in Int
  BY RegularJob DEF SpecsKept, SpecsOf
<1>4. a.kind # "digits" => TypeFits(a.kind, s.type)
  BY <1>3, JobType
<1>5. a.kind = "float" /\ Category(a.value) = "finite" => Estimated(a.value)
  BY ExponentAssumption
<1> QED
  BY <1>2, <1>3, <1>4, <1>5 DEF ArgAt

(* One more text.                                                          *)
LEMMA NextText ==
  ASSUME NEW o, IsSequence(o), NEW x
  PROVE  /\ IsSequence(Append(o, x)) /\ Len(Append(o, x)) = Len(o) + 1
         /\ Append(o, x) # <<>> /\ Append(o, x)[Len(o) + 1] = x
<1>1. o \in Seq(Range(o) \cup {x}) /\ x \in Range(o) \cup {x}
  <2>1. o \in Seq(Range(o))
    BY DEF IsSequence
  <2> QED
    BY <2>1, SeqMonotonic
<1> PICK S : S = Range(o) \cup {x}
  OBVIOUS
<1>2. Append(o, x) \in Seq(S) /\ Len(Append(o, x)) = Len(o) + 1
        /\ Append(o, x)[Len(o) + 1] = x /\ Len(o) \in Nat
  BY <1>1
<1>3. Append(o, x) # <<>>
  <2>1. Len(<<>>) = 0 /\ Len(o) + 1 # 0
    BY <1>2
  <2> QED
    BY <1>2, <2>1
<1> QED
  BY <1>2, <1>3, SequenceOf

(* The invariant holds in the beginning.                                   *)
LEMMA InitInv == Init => Inv
<1> SUFFICES ASSUME Init PROVE Inv
  OBVIOUS
<1>1. job \in Jobs /\ outs = <<>> /\ written = <<>> /\ digits = <<>>
        /\ len = 0 /\ phase \in {"overwrite", "begin"}
        /\ specs = TextSpecs(job) /\ shape = Plain(<<>>)
        /\ (phase = "begin" <=> job.spec = Undefined)
  BY DEF Init, DragonInit, TextSpecs
<1>2. IsSequence(<<>>) /\ Len(<<>>) = 0
  BY SizedNone DEF Sized
<1>3. Counted(job, phase, outs)
  BY <1>1, <1>2, RegularJob DEF Counted, Ongoing
<1>4. SpecsKept(job, phase, specs)
  BY <1>1 DEF SpecsKept, JobSpecs
<1>5. Generating(phase, ArgAt(job, outs), stage, digits, k, len)
  BY <1>1, <1>2 DEF Generating
<1>6. IsShape(shape)
  BY <1>1, <1>2, PlainShape
<1>7. Writing(phase, specs, ArgAt(job, outs), shape, work, written)
  BY <1>1 DEF Writing
<1>8. LaidOut(job, phase, shape, outs)
  BY <1>1 DEF LaidOut
<1> QED
  BY <1>1, <1>3, <1>4, <1>5, <1>6, <1>7, <1>8 DEF Inv

----------------------------------------------------------------------------
(* The digits are generated.                                               *)

(* round_up keeps the number of digits.                                    *)
LEMMA RoundedSequence ==
  ASSUME NEW d, IsSequence(d) PROVE IsSequence(RoundUp(d))
<1> PICK n \in Nat : n = Len(d)
  BY SequenceSized
<1>1. d \in Seq(Range(d))
  BY DEF IsSequence
<1>2. DOMAIN d = 1..n
  BY <1>1
<1> PICK u : u = RoundUp(d)
  OBVIOUS
<1>3. u = [i \in 1..n |-> u[i]]
  BY <1>2 DEF RoundUp
<1>4. Sized(u, n)
  BY <1>3, SizedMap
<1> QED
  BY <1>4 DEF Sized

(* The zeros that are written when nothing is left.                        *)
LEMMA ZerosBehind ==
  ASSUME NEW d, IsSequence(d), NEW n \in Nat
  PROVE  IsSequence(d \o [i \in 1..n |-> 0])
<1> PICK u : u = [i \in 1..n |-> 0]
  OBVIOUS
<1>1. Sized(u, n)
  BY SizedMap
<1>2. Sized(d \o u, Len(d) + n)
  BY <1>1, SequenceSized, SizedJoin
<1> QED
  BY <1>2 DEF Sized

(* An exponent may be one more than estimated, and one more again.         *)
LEMMA ExponentGrows ==
  /\ \A x : Guessed(x) => x \in Int /\ Sought(x) /\ Sought(x + 1)
  /\ \A x : Sought(x) => Found(x) /\ Found(x + 1)
<1>1. ASSUME NEW x, Guessed(x) PROVE x \in Int /\ Sought(x) /\ Sought(x + 1)
  BY <1>1 DEF Guessed, Sought
<1>2. ASSUME NEW x, Sought(x) PROVE Found(x) /\ Found(x + 1)
  BY <1>2 DEF Sought, Found
<1> QED
  BY <1>1, <1>2

(* Every step of the digits, for a number that is finite.                  *)
LEMMA DragonStep ==
  ASSUME NEW a, Generating("digits", a, stage, digits, k, len), DragonNext
  PROVE  Generating("digits", a, stage', digits', k', len')
<1>1. /\ IsSequence(digits) /\ len \in Int
      /\ a.kind = "float" /\ Category(a.value) = "finite"
  BY DEF Generating
<1>2. stage \in {"exact", "shortest"} => Sought(k)
  BY DEF Generating
<1>3. \A x : IsSequence(Append(digits, x))
  BY <1>1, NextText
<1>4. CASE ExactZeros
  <2> PICK n : n = len - Len(digits)
    OBVIOUS
  <2>1. n \in Nat
    BY <1>1, <1>4, SequenceSized DEF ExactZeros
  <2>2. digits' = digits \o [i \in 1..n |-> 0]
    BY <1>4 DEF ExactZeros
  <2>3. IsSequence(digits')
    BY <1>1, <2>1, <2>2, ZerosBehind
  <2>4. stage' = "generated" /\ k' = k /\ len' = len /\ stage = "exact"
    BY <1>4 DEF ExactZeros
  <2>5. Found(k)
    BY <1>2, <2>4, ExponentGrows
  <2> QED
    BY <1>1, <2>3, <2>4, <2>5 DEF Generating
<1>5. CASE ExactDigit
  <2>1. PICK x : digits' = Append(digits, x)
    BY <1>5 DEF ExactDigit
  <2>2. stage' = stage /\ k' = k /\ len' = len /\ stage = "exact"
    BY <1>5 DEF ExactDigit
  <2>3. Found(k) /\ Sought(k)
    BY <1>2, <2>2, ExponentGrows
  <2> QED
    BY <1>1, <1>3, <2>1, <2>2, <2>3 DEF Generating
<1>6. CASE ExactRound
  <2>1. stage' = "generated" /\ len' = len /\ stage = "exact"
    BY <1>6 DEF ExactRound
  <2>2. k' \in {k, k + 1}
    BY <1>6 DEF ExactRound
  <2>3. Found(k')
    BY <1>2, <2>1, <2>2, ExponentGrows
  <2>4. digits' \in {digits, RoundUp(digits), <<CarriedDigit(digits)>>}
    BY <1>6 DEF ExactRound
  <2>5. IsSequence(digits')
    BY <1>1, <2>4, RoundedSequence, OneIsSequence
  <2> QED
    BY <1>1, <2>1, <2>3, <2>5 DEF Generating
<1>7. CASE ShortestDigit
  <2>1. PICK x :
           \/ /\ stage' = "generated" /\ k' \in {k, k + 1}
              /\ \E d \in {Append(digits, x)} :
                   digits' \in {d, RoundUp(d),
                                Append(RoundUp(d), CarriedDigit(d))}
           \/ stage' = stage /\ k' = k /\ digits' = Append(digits, x)
    BY <1>7 DEF ShortestDigit
  <2>2. len' = len /\ stage = "shortest"
    BY <1>7 DEF ShortestDigit
  <2>3. Sought(k) /\ Found(k')
    BY <1>2, <2>1, <2>2, ExponentGrows
  <2>4. IsSequence(digits')
    <3> PICK d : d = Append(digits, x)
      OBVIOUS
    <3>1. IsSequence(d) /\ IsSequence(RoundUp(d))
      BY <1>3, RoundedSequence
    <3>2. IsSequence(Append(RoundUp(d), CarriedDigit(d)))
      BY <3>1, NextText
    <3> QED
      BY <2>1, <3>1, <3>2
  <2>5. stage' = "generated" \/ (stage' = "shortest" /\ k' = k)
    BY <2>1, <2>2
  <2> QED
    BY <1>1, <2>2, <2>3, <2>4, <2>5 DEF Generating
<1> QED
  BY <1>4, <1>5, <1>6, <1>7 DEF DragonNext

(* The first values, for a number whose exponent is estimated.             *)
LEMMA LenForInt ==
  ASSUME NEW mode, NEW n \in Int, NEW k0 \in Int, NEW over
  PROVE  LenFor(mode, n, k0, over) \in Int
BY DEF LenFor

(* The first step of format_exact.                                         *)
LEMMA ExactStarts ==
  ASSUME NEW a, a.kind = "float", Category(a.value) = "finite",
         Estimated(a.value), NEW mode, NEW n \in Int,
         StartExact(Decode(a.value), mode, n)
  PROVE  Generating("digits", a, stage', digits', k', len')
<1> PICK f : f = Decode(a.value)
  OBVIOUS
<1> PICK k0 : k0 = Estimate(f.mant, f.exp)
  OBVIOUS
<1>1. Guessed(k0)
  BY DEF Estimated
<1>2. PICK over :
         /\ stage' = "exact" /\ digits' = <<>>
         /\ k' \in {k0, k0 + 1}
         /\ len' = LenFor(mode, n, k0, over)
  BY DEF StartExact
<1>3. Sought(k') /\ Found(k')
  BY <1>1, <1>2, ExponentGrows
<1>4. len' \in Int /\ IsSequence(digits')
  <2>1. k0 \in Int
    BY <1>1, ExponentGrows
  <2>2. LenFor(mode, n, k0, over) \in Int
    BY <2>1, LenForInt
  <2> QED
    BY <1>2, <2>2, SizedNone DEF Sized
<1> QED
  BY <1>2, <1>3, <1>4 DEF Generating

(* The first step of format_shortest.                                      *)
LEMMA ShortestStarts ==
  ASSUME NEW a, a.kind = "float", Category(a.value) = "finite",
         Estimated(a.value), StartShortest(Decode(a.value))
  PROVE  Generating("digits", a, stage', digits', k', len')
<1> PICK f : f = Decode(a.value)
  OBVIOUS
<1> PICK k0 : k0 = Estimate(f.mant + f.plus, f.exp)
  OBVIOUS
<1>1. Guessed(k0)
  BY DEF Estimated
<1>2. stage' = "shortest" /\ digits' = <<>> /\ len' = 0
  BY DEF StartShortest
<1>5. k' \in {k0, k0 + 1}
  BY DEF StartShortest
<1>3. Sought(k') /\ Found(k')
  BY <1>1, <1>5, ExponentGrows
<1>4. len' \in Int /\ IsSequence(digits')
  BY <1>2, SizedNone DEF Sized
<1> QED
  BY <1>2, <1>3, <1>4 DEF Generating

----------------------------------------------------------------------------
(* Every step keeps the invariant.                                         *)

(* The specs of the formatter are a record of specs.                       *)
LEMMA SpecsRecord ==
  ASSUME NEW j \in Jobs, NEW ph, NEW s, SpecsKept(j, ph, s)
  PROVE  s \in SpecsOf(j) /\ s.precision \in Int
<1>1. s \in SpecsOf(j)
  BY RegularJob DEF SpecsKept
<1> QED
  BY <1>1 DEF SpecsOf

(* overwrite_spec, before the first value.                                 *)
LEMMA OverwriteInv == Inv /\ Overwrite => Inv'
<1> SUFFICES ASSUME Inv, Overwrite PROVE Inv'
  OBVIOUS
<1>1. /\ job \in Jobs /\ Counted(job, "overwrite", outs)
      /\ SpecsKept(job, "overwrite", specs) /\ IsShape(shape)
      /\ Generating("overwrite", ArgAt(job, outs), stage, digits, k, len)
      /\ Writing("overwrite", specs, ArgAt(job, outs), shape, work, written)
  BY DEF Inv, Overwrite
<1>2. /\ specs' = Overwritten(specs, job.spec) /\ phase' = "begin"
      /\ job' = job /\ work' = work /\ shape' = shape /\ written' = written
      /\ outs' = outs /\ stage' = stage /\ digits' = digits /\ k' = k
      /\ len' = len
  BY DEF Overwrite, dragonVars
<1>3. Counted(job, "begin", outs) /\ outs = <<>> /\ job.spec # Undefined
  BY <1>1 DEF Counted, Ongoing
<1>4. SpecsKept(job, "begin", Overwritten(specs, job.spec))
  BY <1>1, <1>3 DEF SpecsKept, JobSpecs
<1>5. Generating("begin", ArgAt(job, outs), stage, digits, k, len)
  BY <1>1 DEF Generating
<1>6. Writing("begin", Overwritten(specs, job.spec), ArgAt(job, outs), shape,
              work, written)
  BY <1>1 DEF Writing
<1>7. LaidOut(job, "begin", shape, outs)
  BY <1>3 DEF LaidOut
<1> QED
  BY <1>1, <1>2, <1>3, <1>4, <1>5, <1>6, <1>7 DEF Inv

(* Formatting stops with an error.                                         *)
LEMMA StopInv ==
  ASSUME Inv, phase' = "failed", job' = job, specs' = specs, shape' = shape,
         outs' = outs, stage' = stage, digits' = digits, k' = k, len' = len,
         phase \in Ongoing \ {"overwrite"}
  PROVE  Inv'
<1>1. Counted(job, "failed", outs) /\ SpecsKept(job, "failed", specs)
  BY DEF Inv, Counted, SpecsKept, Ongoing
<1>2. Generating("failed", ArgAt(job, outs), stage, digits, k, len)
  BY DEF Inv, Generating
<1>3. \A w, t : Writing("failed", specs, ArgAt(job, outs), shape, w, t)
  BY DEF Writing
<1>4. LaidOut(job, "failed", shape, outs)
  BY DEF LaidOut
<1> QED
  BY <1>1, <1>2, <1>3, <1>4 DEF Inv

(* A type that make_write_int_options does not know.                       *)
LEMMA FailInv == Inv /\ Fail => Inv'
<1> SUFFICES ASSUME Inv, Fail PROVE Inv'
  OBVIOUS
<1>1. /\ phase' = "failed" /\ job' = job /\ specs' = specs /\ shape' = shape
      /\ outs' = outs /\ stage' = stage /\ digits' = digits /\ k' = k
      /\ len' = len /\ phase = "begin"
  BY DEF Fail, dragonVars
<1> QED
  BY <1>1, StopInv DEF Ongoing

(* The shape of a value has been found.                                    *)
LEMMA ReadyInv ==
  ASSUME Inv, phase \in {"begin", "digits"}, Arg.kind # "digits", NEW h,
         ShapeOf(h, Arg, specs.type), shape' = h, phase' = "lead", job' = job,
         specs' = specs, written' = written, outs' = outs, k' = k, len' = len,
         digits' = digits, work' = ArgSpecs(specs, Arg)
  PROVE  Inv'
<1>1. /\ job \in Jobs /\ Counted(job, phase, outs)
      /\ SpecsKept(job, phase, specs)
      /\ Generating(phase, ArgAt(job, outs), stage, digits, k, len)
      /\ Writing(phase, specs, ArgAt(job, outs), shape, work, written)
  BY DEF Inv
<1>2. Counted(job, "lead", outs) /\ SpecsKept(job, "lead", specs)
  BY <1>1 DEF Counted, SpecsKept, Ongoing
<1>3. \A st : Generating("lead", ArgAt(job, outs), st, digits, k, len)
  BY <1>1 DEF Generating
<1>4. written = <<>>
  BY <1>1 DEF Writing
<1>5. Writing("lead", specs, ArgAt(job, outs), h, ArgSpecs(specs, Arg),
              written)
  BY <1>4 DEF Writing, ArgAt, Arg
<1>6. IsShape(h) /\ LaidOut(job, "lead", h, outs)
  BY DEF ShapeOf, LaidOut
<1> QED
  BY <1>1, <1>2, <1>3, <1>5, <1>6 DEF Inv

(* The value that is next, with the specs of the formatter.                *)
LEMMA BeginArg ==
  ASSUME Inv, phase \in {"begin", "digits"}
  PROVE  /\ Arg \in Args
         /\ Arg.kind # "digits" => TypeFits(Arg.kind, specs.type)
         /\ Arg.kind = "float" /\ Category(Arg.value) = "finite" =>
              Estimated(Arg.value)
         /\ specs.precision \in Int
<1>1. job \in Jobs /\ Counted(job, phase, outs) /\ SpecsKept(job, phase, specs)
        /\ phase \in Ongoing
  BY DEF Inv, Ongoing
<1>2. Arg = ArgAt(job, outs)
  BY DEF Arg, ArgAt
<1> QED
  BY <1>1, <1>2, ArgumentLeft

(* What does not change when a shape has been found.                       *)
LEMMA ReadyKeeps ==
  ASSUME NEW h, Ready(h)
  PROVE  /\ shape' = h /\ phase' = "lead" /\ job' = job /\ specs' = specs
         /\ written' = written /\ outs' = outs /\ k' = k /\ len' = len
         /\ digits' = digits
BY DEF Ready, dragonVars

(* A shape that is found without a loop.                                   *)
LEMMA BeginInv ==
  ASSUME Inv, phase = "begin", Arg.kind # "digits", NEW h, Ready(h),
         ShapeOf(h, Arg, specs.type), work' = ArgSpecs(specs, Arg)
  PROVE  Inv'
BY ReadyKeeps, ReadyInv

(* Most values are written with the specs of the formatter as they are.    *)
LEMMA SameSpecs ==
  ASSUME NEW s, NEW a,
         \/ a.kind \in {"int", "unsigned", "bool", "char", "string"}
         \/ a.kind = "float" /\ Category(a.value) \in {"zero", "finite"}
  PROVE  ArgSpecs(s, a) = s
BY DEF ArgSpecs, IsWord, IsFinite

(* write_arg of an integer.                                                *)
LEMMA IntInv == Inv /\ BeginInt => Inv'
<1> SUFFICES ASSUME Inv, BeginInt PROVE Inv'
  OBVIOUS
<1>1. phase = "begin" /\ Arg.kind \in {"int", "unsigned"} /\ work' = specs
        /\ Ready(IntShape(specs, Arg.value))
  BY DEF BeginInt, AsWritten, Copied
<1>2. Arg \in Args
  BY <1>1, BeginArg
<1>3. ShapeOf(IntShape(specs, Arg.value), Arg, specs.type)
  BY <1>1, <1>2, ShapeOfInt
<1>4. ArgSpecs(specs, Arg) = specs
  BY <1>1, SameSpecs
<1> QED
  BY <1>1, <1>3, <1>4, BeginInv

(* write_arg of a bool.                                                    *)
LEMMA BoolInv == Inv /\ BeginBool => Inv'
<1> SUFFICES ASSUME Inv, BeginBool PROVE Inv'
  OBVIOUS
<1> PICK h :
      h = IF specs.type \in {"none", "s"} THEN Plain(BoolWord[Arg.value])
          ELSE IntShape(specs, IF Arg.value THEN 1 ELSE 0)
  OBVIOUS
<1>1. phase = "begin" /\ Arg.kind = "bool" /\ work' = specs /\ Ready(h)
  BY DEF BeginBool, AsWritten, Copied
<1>2. Arg \in Args /\ TypeFits("bool", specs.type)
  BY <1>1, BeginArg
<1>3. ShapeOf(h, Arg, specs.type)
  BY <1>1, <1>2, ShapeOfBool
<1>4. ArgSpecs(specs, Arg) = specs
  BY <1>1, SameSpecs
<1> QED
  BY <1>1, <1>3, <1>4, BeginInv

(* write_arg of a character.                                               *)
LEMMA CharInv == Inv /\ BeginChar => Inv'
<1> SUFFICES ASSUME Inv, BeginChar PROVE Inv'
  OBVIOUS
<1> PICK h : h = IF specs.type \in {"none", "c"} THEN Plain(<<Arg.value>>)
                 ELSE IF specs.type = "?"
                   THEN [Plain(Escaped(<<Arg.value>>, "'")) EXCEPT !.size = 3]
                 ELSE IntShape(specs, Arg.code)
  OBVIOUS
<1>1. phase = "begin" /\ Arg.kind = "char" /\ work' = specs /\ Ready(h)
  BY DEF BeginChar, AsWritten, Copied
<1>2. Arg \in Args /\ TypeFits("char", specs.type)
  BY <1>1, BeginArg
<1>3. ShapeOf(h, Arg, specs.type)
  BY <1>1, <1>2, ShapeOfChar
<1>4. ArgSpecs(specs, Arg) = specs
  BY <1>1, SameSpecs
<1> QED
  BY <1>1, <1>3, <1>4, BeginInv

(* write_arg of a pointer.                                                 *)
LEMMA PointerInv == Inv /\ BeginPointer => Inv'
<1> SUFFICES ASSUME Inv, BeginPointer PROVE Inv'
  OBVIOUS
<1> PICK w : w = ArgSpecs(specs, Arg)
  OBVIOUS
<1>1. phase = "begin" /\ Arg.kind = "pointer"
  BY DEF BeginPointer
<1>2. work' = w /\ Ready(IntShape(w, Arg.value))
  BY <1>1 DEF BeginPointer, ArgSpecs, Copied
<1>3. Arg \in Args /\ TypeFits("pointer", specs.type)
  BY <1>1, BeginArg
<1>4. specs \in SpecsOf(job)
  BY SpecsRecord DEF Inv
<1>5. w.type = "x"
  BY <1>1, <1>4 DEF ArgSpecs, SpecsOf
<1>6. specs.type # "c"
  BY <1>3 DEF TypeFits
<1>7. ShapeOf(IntShape(w, Arg.value), Arg, specs.type)
  BY <1>1, <1>3, <1>5, <1>6, ShapeOfPointer
<1> QED
  BY <1>1, <1>2, <1>7, BeginInv

(* write_arg of a string.                                                  *)
LEMMA StringInv == Inv /\ BeginString => Inv'
<1> SUFFICES ASSUME Inv, BeginString PROVE Inv'
  OBVIOUS
<1> PICK h : h = Plain(IF specs.type = "?" THEN Escaped(Arg.value, "\"")
                       ELSE IF specs.precision \in 0..Len(Arg.value)
                         THEN SubSeq(Arg.value, 1, specs.precision)
                       ELSE Arg.value)
  OBVIOUS
<1>1. phase = "begin" /\ Arg.kind = "string" /\ work' = specs /\ Ready(h)
  BY DEF BeginString, AsWritten, Copied
<1>2. Arg \in Args /\ specs.precision \in Int
  BY <1>1, BeginArg
<1>3. ShapeOf(h, Arg, specs.type)
  BY <1>1, <1>2, ShapeOfString
<1>4. ArgSpecs(specs, Arg) = specs
  BY <1>1, SameSpecs
<1> QED
  BY <1>1, <1>3, <1>4, BeginInv

(* write_arg of an infinity or a NaN.                                      *)
LEMMA WordInv == Inv /\ BeginWord => Inv'
<1> SUFFICES ASSUME Inv, BeginWord PROVE Inv'
  OBVIOUS
<1> PICK w : w = ArgSpecs(specs, Arg)
  OBVIOUS
<1>1. phase = "begin" /\ Arg.kind = "float"
        /\ Category(Arg.value) \in {"infinity", "nan"}
  BY DEF BeginWord
<1>2. IsWord(Arg)
  BY <1>1 DEF IsWord, IsFinite
<1>3. work' = w /\ Ready(WordShape(w, Arg.value))
  BY <1>1, <1>2 DEF BeginWord, ArgSpecs, Copied
<1>4. Arg \in Args
  BY <1>1, BeginArg
<1>5. ShapeOf(WordShape(w, Arg.value), Arg, specs.type)
  BY <1>1, <1>4, ShapeOfWord
<1> QED
  BY <1>1, <1>3, <1>5, BeginInv

(* The digits of zero.                                                     *)
LEMMA ZeroDecimal == IsDecimal([digits |-> <<0>>, exp |-> 1])
<1>1. Sized(<<0>>, 1)
  BY SizedOne
<1> QED
  BY <1>1 DEF IsDecimal, Sized

(* write_arg of a zero.                                                    *)
LEMMA ZeroInv == Inv /\ BeginZero => Inv'
<1> SUFFICES ASSUME Inv, BeginZero PROVE Inv'
  OBVIOUS
<1> PICK f : f = [digits |-> <<0>>, exp |-> 1]
  OBVIOUS
<1>1. phase = "begin" /\ Arg.kind = "float" /\ work' = specs
        /\ Category(Arg.value) = "zero"
        /\ Ready(FloatShape(specs, Arg.value, f))
  BY DEF BeginZero, AsWritten, Copied
<1>2. Arg \in Args /\ TypeFits("float", specs.type) /\ specs.precision \in Int
  BY <1>1, BeginArg
<1>3. IsDecimal(f)
  BY ZeroDecimal
<1>4. ShapeOf(FloatShape(specs, Arg.value, f), Arg, specs.type)
  BY <1>1, <1>2, <1>3, ShapeOfFloat
<1>5. ArgSpecs(specs, Arg) = specs
  BY <1>1, SameSpecs
<1> QED
  BY <1>1, <1>4, <1>5, BeginInv

(* format_decimal, up to the loops.                                        *)
LEMMA FiniteInv == Inv /\ BeginFinite => Inv'
<1> SUFFICES ASSUME Inv, BeginFinite PROVE Inv'
  OBVIOUS
<1>1. /\ phase = "begin" /\ Arg.kind = "float" /\ work' = specs
      /\ Category(Arg.value) = "finite" /\ phase' = "digits"
      /\ job' = job /\ specs' = specs /\ shape' = shape
      /\ written' = written /\ outs' = outs
  BY DEF BeginFinite, AsWritten, Copied
<1>2. /\ job \in Jobs /\ Counted(job, "begin", outs)
      /\ SpecsKept(job, "begin", specs) /\ IsShape(shape)
      /\ Writing("begin", specs, ArgAt(job, outs), shape, work, written)
  BY <1>1 DEF Inv
<1>3. Estimated(Arg.value) /\ specs.precision \in Int
  BY <1>1, BeginArg
<1> PICK fp : fp = FpSpecs(specs)
  OBVIOUS
<1>4. fp.precision \in Int
  BY <1>3, PrecisionInt
<1>5. \/ StartShortest(Decode(Arg.value))
      \/ \E mode : StartExact(Decode(Arg.value), mode, fp.precision)
  BY DEF BeginFinite
<1>6. Generating("digits", Arg, stage', digits', k', len')
  BY <1>1, <1>3, <1>4, <1>5, ShortestStarts, ExactStarts
<1>7. Counted(job, "digits", outs) /\ SpecsKept(job, "digits", specs)
  BY <1>2 DEF Counted, SpecsKept, Ongoing
<1>8. Writing("digits", specs, ArgAt(job, outs), shape, specs, written)
  BY <1>2 DEF Writing
<1>9. LaidOut(job, "digits", shape, outs) /\ ArgAt(job, outs) = Arg
  BY DEF LaidOut, ArgAt, Arg
<1> QED
  BY <1>1, <1>2, <1>6, <1>7, <1>8, <1>9 DEF Inv

(* One turn of the loops.                                                  *)
LEMMA GenerateInv == Inv /\ Generate => Inv'
<1> SUFFICES ASSUME Inv, Generate PROVE Inv'
  OBVIOUS
<1>1. /\ phase = "digits" /\ DragonNext /\ phase' = phase
      /\ job' = job /\ specs' = specs /\ shape' = shape /\ work' = work
      /\ written' = written /\ outs' = outs
  BY DEF Generate, valueVars
<1> PICK a : a = ArgAt(job, outs)
  OBVIOUS
<1>2. Generating("digits", a, stage, digits, k, len)
  BY <1>1 DEF Inv
<1>3. Generating("digits", a, stage', digits', k', len')
  BY <1>1, <1>2, DragonStep
<1> QED
  BY <1>1, <1>3 DEF Inv

(* Digits, one at least, with the exponent that was found.                 *)
LEMMA DigitsDecimal ==
  ASSUME NEW d, IsSequence(d), d # <<>>, NEW x, Found(x)
  PROVE  IsDecimal([digits |-> d, exp |-> x])
<1>1. Sized(d, Len(d)) /\ Len(d) > 0
  <2>1. d \in Seq(Range(d))
    BY DEF IsSequence
  <2>2. Len(d) \in Nat /\ Len(d) # 0
    BY <2>1
  <2> QED
    BY <2>2, SequenceSized
<1> QED
  BY <1>1 DEF IsDecimal, Found

(* write_decimal, behind the loops.                                        *)
LEMMA GeneratedInv == Inv /\ Generated => Inv'
<1> SUFFICES ASSUME Inv, Generated PROVE Inv'
  OBVIOUS
<1> PICK f : f = IF digits = <<>> THEN [digits |-> <<0>>, exp |-> 1]
                 ELSE [digits |-> digits, exp |-> k]
  OBVIOUS
<1>1. /\ phase = "digits" /\ phase' = "lead" /\ work' = work
      /\ job' = job /\ specs' = specs /\ written' = written /\ outs' = outs
      /\ k' = k /\ len' = len /\ digits' = digits
      /\ shape' = FloatShape(work, Arg.value, f)
  BY DEF Generated
<1> PICK h : h = FloatShape(specs, Arg.value, f)
  OBVIOUS
<1>2. ArgAt(job, outs) = Arg
  BY DEF ArgAt, Arg
<1>3. /\ Arg.kind = "float" /\ Category(Arg.value) = "finite"
      /\ IsSequence(digits) /\ Found(k)
  BY <1>1, <1>2 DEF Inv, Generating
<1>4. work = specs
  BY <1>1 DEF Inv, Writing
<1>5. Arg \in Args /\ TypeFits("float", specs.type) /\ specs.precision \in Int
  BY <1>1, <1>3, BeginArg
<1>6. IsDecimal(f)
  BY <1>3, ZeroDecimal, DigitsDecimal
<1>7. ShapeOf(h, Arg, specs.type)
  BY <1>3, <1>5, <1>6, ShapeOfFloat
<1>8. ArgSpecs(specs, Arg) = specs
  BY <1>3, SameSpecs
<1> QED
  BY <1>1, <1>3, <1>4, <1>7, <1>8, ReadyInv

(* A text is being written: neither specs nor shape change.                *)
LEMMA GoesInv ==
  ASSUME Inv, NEW from, NEW to, NEW text, Goes(from, to, text), outs' = outs,
         from \in {"lead", "left", "body"}, to \in {"left", "body", "right"},
         Writing(to, specs, ArgAt(job, outs), shape, work', written')
  PROVE  Inv'
<1>1. /\ phase = from /\ phase' = to /\ job' = job /\ specs' = specs
      /\ shape' = shape /\ stage' = stage /\ digits' = digits /\ k' = k
      /\ len' = len
  BY DEF Goes, dragonVars
<1>2. /\ job \in Jobs /\ Counted(job, from, outs)
      /\ SpecsKept(job, from, specs) /\ IsShape(shape)
      /\ Generating(from, ArgAt(job, outs), stage, digits, k, len)
  BY <1>1 DEF Inv
<1>3. Counted(job, to, outs) /\ SpecsKept(job, to, specs)
  BY <1>2 DEF Counted, SpecsKept, Ongoing
<1>4. Generating(to, ArgAt(job, outs), stage, digits, k, len)
  BY <1>2 DEF Generating
<1>5. LaidOut(job, to, shape, outs)
  BY DEF LaidOut
<1> QED
  BY <1>1, <1>2, <1>3, <1>4, <1>5 DEF Inv

(* The padding changes neither the fill character nor the zero flag.       *)
LEMMA ResolvedKept ==
  ASSUME NEW j \in Jobs, NEW s \in SpecsOf(j), NEW h
  PROVE  LET r == Resolved(s, h)
             b == Behind(r, h)
         IN /\ r.zero = s.zero /\ s.zero \in BOOLEAN
            /\ b.zero = r.zero /\ b.fill = r.fill /\ b.align = r.align
            /\ b.width = WidthLeft(r.width, r.align, h.size)
<1> PICK r : r = Resolved(s, h)
  OBVIOUS
<1>1. r.zero = s.zero /\ s.zero \in BOOLEAN
  BY DEF Resolved, SpecsOf
<1>2. PICK x : r = [s EXCEPT !.align = x]
  <2>1. s = [s EXCEPT !.align = s.align]
    BY DEF SpecsOf
  <2> QED
    BY <2>1 DEF Resolved
<1> PICK w : w = WidthLeft(r.width, r.align, h.size)
  OBVIOUS
<1> PICK b : b = Behind(r, h)
  OBVIOUS
<1>3. b = [r EXCEPT !.width = w]
  BY DEF Behind
<1>4. b.zero = r.zero /\ b.fill = r.fill /\ b.align = r.align /\ b.width = w
  BY <1>2, <1>3 DEF SpecsOf
<1> QED
  BY <1>1, <1>4

(* What is known as soon as the shape has been found.                      *)
LEMMA ShapeFound ==
  ASSUME Inv, phase \in {"lead", "left", "body", "right"}
  PROVE  /\ job \in Jobs /\ specs = JobSpecs(job)
         /\ ShapeOf(shape, ArgAt(job, outs), specs.type)
         /\ ArgSpecs(specs, ArgAt(job, outs)) \in SpecsOf(job)
         /\ IsSequence(InFrontOf(shape)) /\ InFront = InFrontOf(shape)
<1>1. /\ job \in Jobs /\ specs = JobSpecs(job)
      /\ ShapeOf(shape, ArgAt(job, outs), specs.type)
  BY DEF Inv, SpecsKept, Writing
<1>2. ArgSpecs(specs, ArgAt(job, outs)) \in SpecsOf(job)
  BY <1>1, SpecsWritten DEF ShapeOf, IsShape
<1>3. IsSequence(InFrontOf(shape))
  BY <1>1, Joining DEF ShapeOf, IsShape, InFrontOf, Joined
<1> QED
  BY <1>1, <1>2, <1>3 DEF InFront, InFrontOf

(* try_write_sign and try_write_prefix, under the zero flag.               *)
LEMMA LeadInv == Inv /\ Lead => Inv'
<1> SUFFICES ASSUME Inv, Lead PROVE Inv'
  OBVIOUS
<1> PICK a : a = ArgAt(job, outs)
  OBVIOUS
<1> PICK s : s = ArgSpecs(specs, a)
  OBVIOUS
<1> PICK r : r = Resolved(s, shape)
  OBVIOUS
<1> PICK text : text = IF work.zero THEN InFront ELSE <<>>
  OBVIOUS
<1>1. phase = "lead" /\ Goes("lead", "left", text) /\ outs' = outs
  BY DEF Lead, Goes
<1>2. /\ job \in Jobs /\ ShapeOf(shape, a, specs.type) /\ s \in SpecsOf(job)
      /\ IsSequence(InFrontOf(shape)) /\ InFront = InFrontOf(shape)
  BY <1>1, ShapeFound
<1>3. work = s /\ written = <<>>
  BY <1>1 DEF Inv, Writing
<1>4. r.zero = s.zero
  BY <1>2, ResolvedKept
<1>5. text = LeadText(r, shape)
  BY <1>2, <1>3, <1>4 DEF LeadText
<1>6. IsSequence(text)
  BY <1>2, SizedNone DEF Sized
<1>7. written' = LeadText(r, shape)
  <2>1. written' = <<>> \o text
    BY <1>1, <1>3 DEF Goes
  <2> QED
    BY <1>5, <1>6, <2>1, JoinedWithNone
<1>8. work' = r
  BY <1>3 DEF Lead, Resolved
<1>9. Writing("left", specs, a, shape, work', written')
  BY <1>2, <1>7, <1>8 DEF Writing
<1> QED
  BY <1>1, <1>9, GoesInv

(* write_padding_left.                                                     *)
LEMMA PadLeftInv == Inv /\ PadLeft => Inv'
<1> SUFFICES ASSUME Inv, PadLeft PROVE Inv'
  OBVIOUS
<1> PICK a : a = ArgAt(job, outs)
  OBVIOUS
<1> PICK s : s = ArgSpecs(specs, a)
  OBVIOUS
<1> PICK r : r = Resolved(s, shape)
  OBVIOUS
<1> PICK text : text = Filled(r, LeftFill(r.width, r.align, shape.size))
  OBVIOUS
<1>1. phase = "left" /\ outs' = outs
  BY DEF PadLeft, Goes
<1>2. work = r /\ written = LeadText(r, shape)
  BY <1>1 DEF Inv, Writing
<1>3. Goes("left", "body", text)
  BY <1>2 DEF PadLeft, Fill, Filled
<1>4. ShapeOf(shape, a, specs.type)
  BY <1>1, ShapeFound
<1>5. written' = LeftText(r, shape)
  BY <1>2, <1>3 DEF Goes, LeftText
<1>6. work' = Behind(r, shape)
  BY <1>2 DEF PadLeft, Behind
<1>7. Writing("body", specs, a, shape, work', written')
  BY <1>4, <1>5, <1>6 DEF Writing
<1> QED
  BY <1>1, <1>3, <1>7, GoesInv

(* The value, behind its sign without the zero flag.                       *)
LEMMA BodyInv == Inv /\ Body => Inv'
<1> SUFFICES ASSUME Inv, Body PROVE Inv'
  OBVIOUS
<1> PICK a : a = ArgAt(job, outs)
  OBVIOUS
<1> PICK s : s = ArgSpecs(specs, a)
  OBVIOUS
<1> PICK r : r = Resolved(s, shape)
  OBVIOUS
<1> PICK text :
      text = (IF r.zero THEN <<>> ELSE InFrontOf(shape)) \o shape.text
  OBVIOUS
<1>1. phase = "body" /\ outs' = outs /\ work' = work
  BY DEF Body, Goes
<1>2. work = Behind(r, shape) /\ written = LeftText(r, shape)
  BY <1>1 DEF Inv, Writing
<1>3. /\ job \in Jobs /\ ShapeOf(shape, a, specs.type) /\ s \in SpecsOf(job)
      /\ InFront = InFrontOf(shape)
  BY <1>1, ShapeFound
<1>4. work.zero = r.zero
  BY <1>2, <1>3, ResolvedKept
<1>5. Goes("body", "right", text)
  BY <1>3, <1>4 DEF Body
<1>6. written' = BodyText(r, shape)
  BY <1>2, <1>5 DEF Goes, BodyText
<1>7. Writing("right", specs, a, shape, work', written')
  BY <1>1, <1>2, <1>3, <1>6 DEF Writing
<1> QED
  BY <1>1, <1>5, <1>7, GoesInv

(* write_padding_right: the text is finished.                              *)
LEMMA PadRightInv == Inv /\ PadRight => Inv'
<1> SUFFICES ASSUME Inv, PadRight PROVE Inv'
  OBVIOUS
<1> PICK a : a = ArgAt(job, outs)
  OBVIOUS
<1> PICK s : s = ArgSpecs(specs, a)
  OBVIOUS
<1> PICK r : r = Resolved(s, shape)
  OBVIOUS
<1> PICK t : t = LastText(r, shape)
  OBVIOUS
<1> PICK o : o = Append(outs, t)
  OBVIOUS
<1> PICK ph : ph = IF Len(o) < Len(job.args) THEN "begin" ELSE "done"
  OBVIOUS
<1>1. /\ phase = "right" /\ written' = <<>> /\ job' = job /\ specs' = specs
      /\ work' = work /\ shape' = shape /\ stage' = stage
      /\ digits' = digits /\ k' = k /\ len' = len
      /\ outs' = Append(outs,
                        written \o Fill(RightFill(work.width, work.align)))
      /\ phase' = IF Len(outs') < Len(job.args) THEN "begin" ELSE "done"
  BY DEF PadRight, dragonVars
<1>2. work = Behind(r, shape) /\ written = BodyText(r, shape)
  BY <1>1 DEF Inv, Writing
<1>3. /\ job \in Jobs /\ ShapeOf(shape, a, specs.type) /\ s \in SpecsOf(job)
      /\ specs = JobSpecs(job)
  BY <1>1, ShapeFound
<1>4. /\ work.fill = r.fill /\ work.align = r.align
      /\ work.width = WidthLeft(r.width, r.align, shape.size)
  BY <1>2, <1>3, ResolvedKept
<1>5. written \o Fill(RightFill(work.width, work.align)) = t
  BY <1>2, <1>4 DEF Fill, Filled, LastText
<1>6. outs' = o /\ phase' = ph
  BY <1>1, <1>5
<1>7. /\ Counted(job, "right", outs) /\ SpecsKept(job, "right", specs)
      /\ IsShape(shape)
      /\ Generating("right", a, stage, digits, k, len)
  BY <1>1 DEF Inv
<1>8. /\ IsSequence(o) /\ Len(o) = Len(outs) + 1 /\ o # <<>>
      /\ o[Len(outs) + 1] = t
  BY <1>7, NextText DEF Counted
<1>9. /\ ph \in {"begin", "done"}
      /\ ph = "begin" => Len(o) < Len(job.args)
  OBVIOUS
<1>10. Counted(job, ph, o) /\ SpecsKept(job, ph, specs)
  BY <1>7, <1>8, <1>9 DEF Counted, SpecsKept, Ongoing
<1>11. Generating(ph, ArgAt(job, o), stage, digits, k, len)
  BY <1>7, <1>9 DEF Generating
<1>12. Writing(ph, specs, ArgAt(job, o), shape, work, <<>>)
  BY <1>9 DEF Writing
<1>13. job.args[Len(o)] = a /\ o[Len(o)] = t
  BY <1>8 DEF ArgAt
<1>14. HasLayout(job, shape, a, t)
  BY <1>3, LayoutFollows
<1>15. LaidOut(job, ph, shape, o)
  BY <1>13, <1>14 DEF LaidOut
<1> QED
  BY <1>1, <1>3, <1>6, <1>7, <1>10, <1>11, <1>12, <1>15 DEF Inv

(* writer::write_int.                                                      *)
LEMMA WriteIntInv == Inv /\ WriteInt => Inv'
<1> SUFFICES ASSUME Inv, WriteInt PROVE Inv'
  OBVIOUS
<1>1. /\ phase = "begin" /\ Arg.kind = "digits" /\ job' = job
      /\ specs' = specs /\ work' = work /\ written' = written
      /\ stage' = stage /\ digits' = digits /\ k' = k /\ len' = len
  BY DEF WriteInt, dragonVars
<1>2. CASE ~ IsValidBase(Arg.base)
  <2>1. phase' = "failed" /\ shape' = shape /\ outs' = outs
    BY <1>2 DEF WriteInt
  <2> QED
    BY <1>1, <2>1, StopInv DEF Ongoing
<1>3. CASE IsValidBase(Arg.base)
  <2>1. Arg \in Args
    BY <1>1, BeginArg
  <2>2. Arg.value \in AnyInt /\ Arg.upper \in BOOLEAN /\ Arg.base \in 2..36
    BY <1>1, <1>3, <2>1 DEF Args, IsValidBase
  <2> PICK abs \in Unsigned : abs = ToAbsolute(Arg.value)
    BY <2>2, AbsoluteUnsigned
  <2> PICK text : text = WriteNumber(abs, Arg.base, Arg.upper)
    OBVIOUS
  <2> PICK sign : sign = IF Arg.value < 0 THEN <<"-">> ELSE <<>>
    OBVIOUS
  <2> PICK n : n = NumberOfDigits(abs, Arg.base)
    OBVIOUS
  <2> PICK h : h = [Plain(text) EXCEPT !.sign = sign, !.counted = n]
    OBVIOUS
  <2> PICK x : x = sign \o text
    OBVIOUS
  <2> PICK o : o = Append(outs, x)
    OBVIOUS
  <2>3. shape' = h /\ outs' = o /\ phase' = "done"
    BY <1>3 DEF WriteInt
  <2>4. text \in Seq(Figure) /\ Len(text) = n
    BY <2>2, NumeralLength
  <2>5. IsSequence(text) /\ n \in Nat
    BY <2>4, SequenceOf
  <2>6. IsSequence(sign)
    <3>1. sign \in {<<"-">>, <<>>}
      OBVIOUS
    <3> QED
      BY <3>1, OneIsSequence, SizedNone DEF Sized
  <2>7. IsShape(h)
    <3>1. /\ h.align = "<" /\ h.sign = sign /\ h.prefix = <<>>
          /\ h.size = Len(text) /\ h.counted = n /\ h.text = text
      BY DEF Plain
    <3> QED
      BY <2>4, <2>5, <2>6, <3>1, SizedNone DEF IsShape, Sized
  <2>8. /\ job \in Jobs /\ Counted(job, "begin", outs)
        /\ SpecsKept(job, "begin", specs)
        /\ Generating("begin", ArgAt(job, outs), stage, digits, k, len)
    BY <1>1 DEF Inv
  <2>9. IsSequence(o) /\ Len(o) = Len(outs) + 1
    BY <2>8, NextText DEF Counted
  <2>10. Counted(job, "done", o) /\ SpecsKept(job, "done", specs)
    BY <2>8, <2>9 DEF Counted, SpecsKept, Ongoing
  <2>11. Generating("done", ArgAt(job, o), stage, digits, k, len)
    BY <2>8 DEF Generating
  <2>12. Writing("done", specs, ArgAt(job, o), h, work, written)
    BY DEF Writing
  <2>13. LaidOut(job, "done", h, o)
    BY <1>1, <2>9 DEF LaidOut, Arg
  <2> QED
    BY <1>1, <2>3, <2>7, <2>8, <2>10, <2>11, <2>12, <2>13 DEF Inv
<1> QED
  BY <1>2, <1>3

(* The invariant holds after every step.                                   *)
LEMMA NextInv == Inv /\ [Next]_vars => Inv'
<1> SUFFICES ASSUME Inv, [Next]_vars PROVE Inv'
  OBVIOUS
<1>1. CASE Next
  BY <1>1, OverwriteInv, FailInv, IntInv, BoolInv, CharInv, PointerInv,
     StringInv, WordInv, ZeroInv, FiniteInv, GenerateInv, GeneratedInv,
     LeadInv, PadLeftInv, BodyInv, PadRightInv, WriteIntInv, Zenon
     DEF Next, Begin
<1>2. CASE UNCHANGED vars
  <2>1. /\ job' = job /\ specs' = specs /\ work' = work /\ shape' = shape
        /\ phase' = phase /\ written' = written /\ outs' = outs
        /\ stage' = stage /\ digits' = digits /\ k' = k /\ len' = len
    BY <1>2 DEF vars, valueVars, dragonVars
  <2> QED
    BY <2>1 DEF Inv
<1> QED
  BY <1>1, <1>2

(* The specs of the formatter and its texts are right all the time.        *)
LEMMA InvAlways == Spec => []Inv
<1> QED
  BY InitInv, NextInv, PTL DEF Spec

(* A write area is filled, no more and no less (FillsArea).                *)
THEOREM FillsAreaAlways == Spec => []FillsArea
<1>1. Inv => FillsArea
  BY DEF Inv, IsShape, Sized, FillsArea
<1> QED
  BY <1>1, InvAlways, PTL

(* A finished text is as long as its shape and its width ask for, with its *)
(* sign, prefix and body in one piece and the fill where its alignment     *)
(* puts it (Layout).                                                       *)
THEOREM LayoutAlways == Spec => []Layout
<1>1. Inv => Layout
  <2> SUFFICES ASSUME Inv, Finished, LastArg.kind # "digits" PROVE Layout
    BY DEF Layout
  <2>1. HasLayout(job, shape, LastArg, outs[Len(outs)])
    BY DEF Inv, LaidOut, Finished, LastArg
  <2>2. InFront = InFrontOf(shape)
    BY DEF InFront, InFrontOf
  <2>3. UsualAlign(LastArg) = AlignOf(LastArg, Meant.type)
    BY DEF UsualAlign, AlignOf
  <2> QED
    BY <2>1, <2>2, <2>3, Zenon DEF Layout, HasLayout, Meant, Padding
<1> QED
  BY <1>1, InvAlways, PTL

----------------------------------------------------------------------------
(* Reading the numerals back.                                              *)

(* Different places of the rows hold different characters.                 *)
LEMMA RowsDiffer ==
  /\ \A x, y \in 1..10 : Digits[x] = Digits[y] => x = y
  /\ \A x, y \in 1..26 : Upper[x] = Upper[y] => x = y
  /\ \A x, y \in 1..26 : Lower[x] = Lower[y] => x = y
  /\ \A x \in 1..10, y \in 1..26 : Digits[x] # Upper[y] /\ Digits[x] # Lower[y]
  /\ \A x, y \in 1..26 : Upper[x] # Lower[y]
<1>1. \A x, y \in 1..10 : Digits[x] = Digits[y] => x = y
  BY DEF Digits
<1>2. \A x, y \in 1..26 : Upper[x] = Upper[y] => x = y
  BY SMTT(60) DEF Upper
<1>3. \A x, y \in 1..26 : Lower[x] = Lower[y] => x = y
  BY SMTT(60) DEF Lower
<1>4. \A x \in 1..10, y \in 1..26 : Digits[x] # Upper[y]
  BY SMTT(60) DEF Digits, Upper
<1>5. \A x \in 1..10, y \in 1..26 : Digits[x] # Lower[y]
  BY SMTT(60) DEF Digits, Lower
<1>6. \A x, y \in 1..26 : Upper[x] # Lower[y]
  BY SMTT(60) DEF Upper, Lower
<1> QED
  BY <1>1, <1>2, <1>3, <1>4, <1>5, <1>6

(* The characters between '9' and 'A' are neither digits nor letters.      *)
LEMMA BetweenDiffers ==
  \A x \in 1..7 : /\ \A y \in 1..10 : Between[x] # Digits[y]
                  /\ \A y \in 1..26 : Between[x] # Upper[y]
                                        /\ Between[x] # Lower[y]
<1>1. ASSUME NEW c, NEW row, row = <<":", c, "<", "=", ">", "?", "@">>,
             NEW x \in 1..7
      PROVE  row[x] \in {":", c, "<", "=", ">", "?", "@"}
  BY <1>1
<1>2. \A x \in 1..7 :
        Between[x] \in {":", ";", "<", "=", ">", "?", "@"}
  BY <1>1, Zenon DEF Between
<1>3. \A y \in 1..10 :
        Digits[y] \in {"0", "1", "2", "3", "4", "5", "6", "7", "8", "9"}
  BY DEF Digits
<1>4. \A y \in 1..26 :
        Upper[y] \in {"A", "B", "C", "D", "E", "F", "G", "H", "I", "J", "K",
                      "L", "M", "N", "O", "P", "Q", "R", "S", "T", "U", "V",
                      "W", "X", "Y", "Z"}
  BY DEF Upper
<1>5. \A y \in 1..26 :
        Lower[y] \in {"a", "b", "c", "d", "e", "f", "g", "h", "i", "j", "k",
                      "l", "m", "n", "o", "p", "q", "r", "s", "t", "u", "v",
                      "w", "x", "y", "z"}
  BY DEF Lower
<1>6. \A c \in {":", ";", "<", "=", ">", "?", "@"} :
        c \notin {"0", "1", "2", "3", "4", "5", "6", "7", "8", "9"}
  BY Zenon
<1>7. \A c \in {":", ";", "<", "=", ">", "?", "@"} :
        c \notin {"A", "B", "C", "D", "E", "F", "G", "H", "I", "J", "K",
                  "L", "M", "N", "O", "P", "Q", "R", "S", "T", "U", "V",
                  "W", "X", "Y", "Z"}
  BY Zenon
<1>8. \A c \in {":", ";", "<", "=", ">", "?", "@"} :
        c \notin {"a", "b", "c", "d", "e", "f", "g", "h", "i", "j", "k",
                  "l", "m", "n", "o", "p", "q", "r", "s", "t", "u", "v",
                  "w", "x", "y", "z"}
  BY Zenon
<1>9. ASSUME NEW x \in 1..7, NEW y \in 1..10 PROVE Between[x] # Digits[y]
  BY <1>2, <1>3, <1>6, Zenon
<1>10. ASSUME NEW x \in 1..7, NEW y \in 1..26
       PROVE  Between[x] # Upper[y] /\ Between[x] # Lower[y]
  BY <1>2, <1>4, <1>5, <1>7, <1>8, Zenon
<1> QED
  BY <1>9, <1>10, Zenon

(* A place in a row of DigitRows.                                          *)
Place(row, d, c) == d < Len(row) /\ row[d + 1] = c

(* Where a character stands in a row: among the digits or behind them.     *)
LEMMA PlaceInRow ==
  ASSUME NEW R, NEW m \in Nat, IsRow(R, m), m <= 26, NEW d \in 0..35, NEW c
  PROVE  Place(Digits \o R, d, c) <=>
           \/ d < 10 /\ Digits[d + 1] = c
           \/ d >= 10 /\ d - 9 <= m /\ R[d - 9] = c
<1> PICK w : w = Digits \o R
  OBVIOUS
<1>1. IsSequence(Digits) /\ IsSequence(R) /\ Len(Digits) = 10 /\ Len(R) = m
  BY RowsAsSeqs DEF IsRow, IsSequence
<1>2. /\ Len(w) = 10 + m
      /\ \A x \in 1..10 : w[x] = Digits[x]
      /\ \A x \in 1..m : w[10 + x] = R[x]
  <2>1. Joined(w, Digits, R)
    BY <1>1, Joining
  <2> QED
    BY <1>1, <2>1 DEF Joined
<1>3. CASE d < 10
  <2>1. d + 1 \in 1..10 /\ d < 10 + m /\ ~ (d >= 10)
    BY <1>3
  <2>2. w[d + 1] = Digits[d + 1]
    BY <1>2, <2>1
  <2> QED
    BY <1>2, <1>3, <2>1, <2>2 DEF Place
<1>4. CASE ~ (d < 10)
  <2>1. CASE d - 9 <= m
    <3>1. d - 9 \in 1..m /\ 10 + (d - 9) = d + 1 /\ d < 10 + m /\ d >= 10
      BY <1>4, <2>1
    <3>2. w[d + 1] = R[d - 9]
      BY <1>2, <3>1
    <3> QED
      BY <1>2, <1>4, <2>1, <3>1, <3>2 DEF Place
  <2>2. CASE ~ (d - 9 <= m)
    <3>1. ~ (d < 10 + m)
      BY <1>4, <2>2
    <3> QED
      BY <1>2, <1>4, <2>2, <3>1 DEF Place
  <2> QED
    BY <2>1, <2>2
<1> QED
  BY <1>3, <1>4

(* CharValue finds the place of a character.                               *)
LEMMA ValueOfPlace ==
  ASSUME NEW c \in DOMAIN CharValue, NEW d \in 0..35,
         \E r \in 1..3 : Place(DigitRows[r], d, c),
         \A n \in 0..35, r \in 1..3 : Place(DigitRows[r], n, c) => n = d
  PROVE  CharValue[c] = d
<1>1. CharValue[c] = CHOOSE n \in 0..35 :
        \E r \in 1..3 : n < Len(DigitRows[r]) /\ DigitRows[r][n + 1] = c
  BY DEF CharValue
<1>2. CharValue[c] = CHOOSE n \in 0..35 :
        \E r \in 1..3 : Place(DigitRows[r], n, c)
  BY <1>1 DEF Place
<1> QED
  BY <1>2

(* A digit is worth what it stands for, in either case.                    *)
LEMMA ValueOfDigit ==
  ASSUME NEW d \in 0..35, NEW upper \in BOOLEAN
  PROVE  DigitToChar(d, upper) \in DOMAIN CharValue
           /\ CharValue[DigitToChar(d, upper)] = d
<1> PICK c : c = DigitToChar(d, upper)
  OBVIOUS
<1>1. IsRow(Digits, 10) /\ IsRow(Between, 7) /\ IsRow(Upper, 26)
        /\ IsRow(Lower, 26)
  BY RowsAsSeqs DEF IsRow
<1>2. DigitRows[1] = Digits \o Between /\ DigitRows[2] = Digits \o Upper
        /\ DigitRows[3] = Digits \o Lower
  BY DEF DigitRows
<1>3. \A n \in 0..35 :
        /\ Place(DigitRows[1], n, c) <=>
             \/ n < 10 /\ Digits[n + 1] = c
             \/ n >= 10 /\ n - 9 <= 7 /\ Between[n - 9] = c
        /\ Place(DigitRows[2], n, c) <=>
             \/ n < 10 /\ Digits[n + 1] = c
             \/ n >= 10 /\ n - 9 <= 26 /\ Upper[n - 9] = c
        /\ Place(DigitRows[3], n, c) <=>
             \/ n < 10 /\ Digits[n + 1] = c
             \/ n >= 10 /\ n - 9 <= 26 /\ Lower[n - 9] = c
  BY <1>1, <1>2, PlaceInRow
<1>4. \A r \in 1..3 : r \in {1, 2, 3}
  OBVIOUS
<1>5. \/ d < 10 /\ c = Digits[d + 1]
      \/ d >= 10 /\ c = Upper[d - 9]
      \/ d >= 10 /\ c = Lower[d - 9]
  BY DEF DigitToChar
<1>6. d >= 10 => d - 9 \in 1..26
  OBVIOUS
<1>7. c \in DOMAIN CharValue
  <2>1. Range(Digits) \cup Range(Between) = Range(Digits \o Between)
    BY <1>1, InRow
  <2>2. DOMAIN CharValue = Range(Digits) \cup Range(Between)
                             \cup Range(Upper) \cup Range(Lower)
    BY <2>1 DEF CharValue, Alpha
  <2>3. d < 10 => d + 1 \in 1..10
    OBVIOUS
  <2> QED
    BY <1>5, <1>6, <2>2, <2>3, Rows DEF Range
<1>8. \E r \in 1..3 : Place(DigitRows[r], d, c)
  <2>1. 1 \in 1..3 /\ 2 \in 1..3 /\ 3 \in 1..3
    OBVIOUS
  <2>2. d - 9 <= 26
    OBVIOUS
  <2> QED
    BY <1>3, <1>5, <2>1, <2>2
<1>9. ASSUME NEW n \in 0..35, NEW r \in 1..3, Place(DigitRows[r], n, c)
      PROVE  n = d
  <2>1. \/ n < 10 /\ Digits[n + 1] = c
        \/ n >= 10 /\ n - 9 <= 7 /\ Between[n - 9] = c
        \/ n >= 10 /\ n - 9 <= 26 /\ Upper[n - 9] = c
        \/ n >= 10 /\ n - 9 <= 26 /\ Lower[n - 9] = c
    BY <1>3, <1>4, <1>9
  <2>2. CASE n < 10 /\ Digits[n + 1] = c
    <3>1. n + 1 \in 1..10
      BY <2>2
    <3>2. ~ (d >= 10)
      <4> SUFFICES ASSUME d >= 10 PROVE FALSE
        OBVIOUS
      <4> PICK y \in 1..26 : y = d - 9
        BY <1>6
      <4> PICK x \in 1..10 : x = n + 1
        BY <3>1
      <4>1. c = Upper[y] \/ c = Lower[y]
        BY <1>5
      <4> QED
        BY <2>2, <4>1, RowsDiffer
    <3>3. d + 1 \in 1..10 /\ Digits[d + 1] = c
      BY <1>5, <3>2
    <3>4. n + 1 = d + 1
      BY <2>2, <3>1, <3>3, RowsDiffer
    <3> QED
      BY <3>4
  <2>3. CASE n >= 10 /\ n - 9 <= 7 /\ Between[n - 9] = c
    <3>1. n - 9 \in 1..7
      BY <2>3
    <3>2. d < 10 => d + 1 \in 1..10
      OBVIOUS
    <3> QED
      BY <1>5, <1>6, <2>3, <3>1, <3>2, BetweenDiffers
  <2>4. CASE n >= 10 /\ Upper[n - 9] = c
    <3>1. n - 9 \in 1..26
      BY <2>4
    <3>2. d < 10 => d + 1 \in 1..10
      OBVIOUS
    <3>3. d >= 10 /\ c = Upper[d - 9]
      BY <1>5, <1>6, <2>4, <3>1, <3>2, RowsDiffer
    <3>4. n - 9 = d - 9
      BY <1>6, <2>4, <3>1, <3>3, RowsDiffer
    <3> QED
      BY <3>4
  <2>5. CASE n >= 10 /\ Lower[n - 9] = c
    <3>1. n - 9 \in 1..26
      BY <2>5
    <3>2. d < 10 => d + 1 \in 1..10
      OBVIOUS
    <3>3. d >= 10 /\ c = Lower[d - 9]
      BY <1>5, <1>6, <2>5, <3>1, <3>2, RowsDiffer
    <3>4. n - 9 = d - 9
      BY <1>6, <2>5, <3>1, <3>3, RowsDiffer
    <3> QED
      BY <3>4
  <2> QED
    BY <2>1, <2>2, <2>3, <2>4, <2>5
<1> QED
  BY <1>7, <1>8, <1>9, ValueOfPlace

(* The value behind a digit, from the one in front of it.                  *)
Continued(c, base, before, after) ==
  IsDigit(c, base) /\ after = base * before + CharValue[c] /\ after >= before

(* The values in front of, between and behind the digits of u.             *)
Steps(u, base, v, n) ==
  /\ v \in [0..Len(u) -> Unsigned]
  /\ v[0] = 0 /\ v[Len(u)] = n
  /\ \A x \in 1..Len(u) : Continued(u[x], base, v[x - 1], v[x])

ReadsAs(u, base, n) == IsSequence(u) /\ \E v : Steps(u, base, v, n)

(* Nothing reads as zero.                                                  *)
LEMMA ReadsNothing == ASSUME NEW base PROVE ReadsAs(<<>>, base, 0)
<1> PICK u : u = <<>>
  OBVIOUS
<1>1. Sized(u, 0) /\ IsSequence(u) /\ Len(u) = 0
  BY SizedNone DEF Sized
<1>2. 0 \in Unsigned
  BY UnsignedRange
<1>3. Steps(u, base, [x \in 0..0 |-> 0], 0)
  BY <1>1, <1>2 DEF Steps
<1> QED
  BY <1>1, <1>3 DEF ReadsAs

(* One digit more.                                                         *)
LEMMA DigitContinues ==
  ASSUME NEW base \in 2..36, NEW p \in Nat, NEW d \in 0..(base - 1),
         NEW upper \in BOOLEAN, NEW n, n = base * p + d
  PROVE  Continued(DigitToChar(d, upper), base, p, n)
<1> PICK c : c = DigitToChar(d, upper)
  OBVIOUS
<1>1. d \in 0..35
  OBVIOUS
<1>2. c \in DOMAIN CharValue /\ CharValue[c] = d
  BY <1>1, ValueOfDigit
<1>3. IsDigit(c, base)
  BY <1>2 DEF IsDigit, DigitsOf
<1>4. n >= p
  <2>1. base * p >= p
    OBVIOUS
  <2> PICK q \in Nat : q = base * p
    OBVIOUS
  <2> QED
    BY <2>1
<1> QED
  BY <1>2, <1>3, <1>4 DEF Continued

(* A numeral with one digit more.                                          *)
LEMMA ReadsMore ==
  ASSUME NEW base \in 2..36, NEW u, NEW p, ReadsAs(u, base, p),
         NEW c, NEW n \in Unsigned, Continued(c, base, p, n)
  PROVE  ReadsAs(u \o <<c>>, base, n)
<1>1. IsSequence(u)
  BY DEF ReadsAs
<1> PICK v : Steps(u, base, v, p)
  BY DEF ReadsAs
<1> PICK m \in Nat : m = Len(u)
  BY <1>1, SequenceSized
<1> PICK e : e = <<c>>
  OBVIOUS
<1> PICK w : w = u \o e
  OBVIOUS
<1>2. IsSequence(e) /\ Len(e) = 1 /\ e[1] = c
  BY OneIsSequence
<1>3. Joined(w, u, e)
  BY <1>1, <1>2, Joining
<1>4. /\ IsSequence(w) /\ Len(w) = m + 1 /\ \A x \in 1..m : w[x] = u[x]
      /\ w[m + 1] = c
  <2>1. 1 \in 1..Len(e)
    BY <1>2
  <2> QED
    BY <1>2, <1>3, <2>1 DEF Joined
<1>5. v \in [0..m -> Unsigned] /\ v[0] = 0 /\ v[m] = p
      /\ \A x \in 1..m : Continued(u[x], base, v[x - 1], v[x])
  BY DEF Steps
<1> DEFINE f == [x \in 0..(m + 1) |-> IF x = m + 1 THEN n ELSE v[x]]
<1>6. \A x \in 0..(m + 1) : x # m + 1 => x \in 0..m
  OBVIOUS
<1>7. f \in [0..(m + 1) -> Unsigned]
  BY <1>5, <1>6
<1>8. f[m + 1] = n /\ \A x \in 0..m : f[x] = v[x]
  <2>1. \A x \in 0..m : x \in 0..(m + 1) /\ x # m + 1
    OBVIOUS
  <2>2. m + 1 \in 0..(m + 1)
    OBVIOUS
  <2> QED
    BY <2>1, <2>2
<1> HIDE DEF f
<1>9. ASSUME NEW x \in 1..(m + 1)
      PROVE  Continued(w[x], base, f[x - 1], f[x])
  <2>1. CASE x = m + 1
    <3>1. x - 1 = m /\ m \in 0..m
      BY <2>1
    <3>2. f[x - 1] = p /\ f[x] = n /\ w[x] = c
      BY <1>4, <1>5, <1>8, <2>1, <3>1
    <3> QED
      BY <3>2
  <2>2. CASE x # m + 1
    <3>1. x \in 1..m /\ x \in 0..m /\ x - 1 \in 0..m
      BY <2>2
    <3>2. f[x - 1] = v[x - 1] /\ f[x] = v[x] /\ w[x] = u[x]
      BY <1>4, <1>8, <3>1
    <3> QED
      BY <1>5, <3>1, <3>2
  <2> QED
    BY <2>1, <2>2
<1>10. f[0] = 0
  <2>1. 0 \in 0..m
    OBVIOUS
  <2> QED
    BY <1>5, <1>8, <2>1
<1>11. Steps(w, base, f, n)
  BY <1>4, <1>7, <1>8, <1>9, <1>10 DEF Steps
<1> QED
  BY <1>4, <1>11 DEF ReadsAs

(* The digits of write_uint.                                               *)
LEMMA UintReads ==
  ASSUME NEW base \in 2..36, NEW upper \in BOOLEAN
  PROVE  \A m \in Unsigned : ReadsAs(WriteUint(m, base, upper), base, m)
<1> DEFINE S == {m \in Unsigned : ReadsAs(WriteUint(m, base, upper), base, m)}
<1>1. ASSUME NEW m \in 0..(Word - 1), \A j \in 0..(m - 1) : j \in S
      PROVE  m \in S
  <2>1. m \in Unsigned /\ m \in Nat
    BY UnsignedRange
  <2> PICK p \in Nat : p = m \div base
    BY <2>1, Quotient
  <2> PICK d \in 0..(base - 1) : d = m % base
    BY <2>1, Quotient
  <2> PICK u : u = IF p = 0 THEN <<>> ELSE WriteUint(p, base, upper)
    OBVIOUS
  <2>2. m = base * p + d
    BY <2>1, Quotient
  <2>3. WriteUint(m, base, upper) = u \o <<DigitToChar(d, upper)>>
    BY <2>1, WriteUintOf
  <2>4. ReadsAs(u, base, p)
    <3>1. CASE p = 0
      BY <3>1, ReadsNothing
    <3>2. CASE p # 0
      <4>1. m > 0
        BY <2>1, <3>2, Quotient
      <4>2. p \in 0..(m - 1)
        BY <2>1, <4>1, Quotient
      <4>3. p \in S
        BY <1>1, <4>2
      <4> QED
        BY <3>2, <4>3
    <3> QED
      BY <3>1, <3>2
  <2>5. Continued(DigitToChar(d, upper), base, p, m)
    BY <2>1, <2>2, DigitContinues
  <2>6. ReadsAs(u \o <<DigitToChar(d, upper)>>, base, m)
    BY <2>1, <2>4, <2>5, ReadsMore
  <2> QED
    BY <2>1, <2>3, <2>6
<1> HIDE DEF S
<1>2. 0..(Word - 1) \subseteq S
  BY <1>1, UnsignedRange, InductionBelow
<1> QED
  BY <1>2, UnsignedRange DEF S

(* And those of the loop in write_number.                                  *)
LEMMA OtherReads ==
  ASSUME NEW base \in 2..36, NEW upper \in BOOLEAN
  PROVE  \A m \in Unsigned : ReadsAs(WriteOther(m, base, upper), base, m)
<1> DEFINE S == {m \in Unsigned : ReadsAs(WriteOther(m, base, upper), base, m)}
<1>1. ASSUME NEW m \in 0..(Word - 1), \A j \in 0..(m - 1) : j \in S
      PROVE  m \in S
  <2>1. m \in Unsigned /\ m \in Nat
    BY UnsignedRange
  <2>2. CASE m = 0
    <3>1. WriteOther(m, base, upper) = <<>>
      BY <2>1, <2>2, WriteOtherOf
    <3> QED
      BY <2>1, <2>2, <3>1, ReadsNothing
  <2>3. CASE m # 0
    <3> PICK p \in Nat : p = m \div base
      BY <2>1, Quotient
    <3> PICK d \in 0..(base - 1) : d = m % base
      BY <2>1, Quotient
    <3> PICK u : u = WriteOther(p, base, upper)
      OBVIOUS
    <3>1. m = base * p + d
      BY <2>1, Quotient
    <3>2. WriteOther(m, base, upper) = u \o <<DigitToChar(d, upper)>>
      BY <2>1, <2>3, WriteOtherOf
    <3>3. p \in 0..(m - 1)
      <4>1. m > 0
        BY <2>1, <2>3
      <4> QED
        BY <2>1, <4>1, Quotient
    <3>4. ReadsAs(u, base, p)
      <4>1. p \in S
        BY <1>1, <3>3
      <4> QED
        BY <4>1
    <3>5. Continued(DigitToChar(d, upper), base, p, m)
      BY <2>1, <3>1, DigitContinues
    <3>6. ReadsAs(u \o <<DigitToChar(d, upper)>>, base, m)
      BY <2>1, <3>4, <3>5, ReadsMore
    <3> QED
      BY <2>1, <3>2, <3>6
  <2> QED
    BY <2>2, <2>3
<1> HIDE DEF S
<1>2. 0..(Word - 1) \subseteq S
  BY <1>1, UnsignedRange, InductionBelow
<1> QED
  BY <1>2, UnsignedRange DEF S

(* Two digits at a time.                                                   *)
LEMMA DecimalDigit ==
  ASSUME NEW p \in Nat, NEW d \in 0..9, NEW n, n = 10 * p + d
  PROVE  Continued(Digits[d + 1], 10, p, n)
<1>1. DigitToChar(d, TRUE) = Digits[d + 1]
  BY DEF DigitToChar
<1>2. 10 \in 2..36 /\ d \in 0..(10 - 1) /\ TRUE \in BOOLEAN
  OBVIOUS
<1>3. Continued(DigitToChar(d, TRUE), 10, p, n)
  BY <1>2, DigitContinues
<1> QED
  BY <1>1, <1>3

(* And those of a pair.                                                    *)
LEMMA PairReads ==
  ASSUME NEW u, NEW p \in Nat, ReadsAs(u, 10, p), NEW d \in 0..99,
         NEW n \in Unsigned, n = 100 * p + d
  PROVE  ReadsAs(u \o Digits2(d), 10, n)
<1>1. n \in Nat
  BY UnsignedRange
<1> PICK x \in 0..9 : x = d \div 10
  OBVIOUS
<1> PICK y \in 0..9 : y = d % 10
  OBVIOUS
<1>2. d = 10 * x + y
  OBVIOUS
<1> PICK q \in Nat : q = 10 * p + x
  OBVIOUS
<1>3. q <= n /\ n = 10 * q + y
  BY <1>1, <1>2
<1>4. q \in Unsigned
  <2>1. q \in 0..n
    BY <1>1, <1>3
  <2> QED
    BY <2>1, UnsignedRange
<1> PICK a : a = Digits[x + 1]
  OBVIOUS
<1> PICK b : b = Digits[y + 1]
  OBVIOUS
<1>5. Continued(a, 10, p, q) /\ Continued(b, 10, q, n)
  BY <1>3, DecimalDigit
<1>6. 10 \in 2..36
  OBVIOUS
<1>7. ReadsAs(u \o <<a>>, 10, q)
  BY <1>4, <1>5, <1>6, ReadsMore
<1>8. ReadsAs((u \o <<a>>) \o <<b>>, 10, n)
  BY <1>5, <1>6, <1>7, ReadsMore
<1>9. (u \o <<a>>) \o <<b>> = u \o Digits2(d)
  <2>1. Digits2(d) = <<a, b>>
    BY DEF Digits2
  <2>2. <<a, b>> = <<a>> \o <<b>>
    OBVIOUS
  <2>3. IsSequence(u) /\ IsSequence(<<a>>) /\ IsSequence(<<b>>)
    BY OneIsSequence DEF ReadsAs
  <2>4. InTurn(u, <<a>>, <<b>>)
    BY <2>3, JoinedInTurn
  <2> QED
    BY <2>1, <2>2, <2>4, Zenon DEF InTurn
<1> QED
  BY <1>8, <1>9

(* The digits of write_decimal.                                            *)
LEMMA DecimalReads == \A m \in Unsigned : ReadsAs(WriteDecimal(m), 10, m)
<1> DEFINE S == {m \in Unsigned : ReadsAs(WriteDecimal(m), 10, m)}
<1>1. ASSUME NEW m \in 0..(Word - 1), \A j \in 0..(m - 1) : j \in S
      PROVE  m \in S
  <2>1. m \in Unsigned /\ m \in Nat
    BY UnsignedRange
  <2>2. ReadsAs(<<>>, 10, 0) /\ 0 \in Nat
    BY ReadsNothing
  <2>3. CASE m < 10
    <3>1. m \in 0..9 /\ ~ (m >= 100)
      BY <2>1, <2>3
    <3> PICK c : c = Digits[m + 1]
      OBVIOUS
    <3>2. WriteDecimal(m) = <<c>>
      BY <2>1, <2>3, <3>1, WriteDecimalOf
    <3>3. Continued(c, 10, 0, m)
      <4>1. m = 10 * 0 + m
        BY <3>1
      <4> QED
        BY <3>1, <4>1, DecimalDigit
    <3>4. ReadsAs(<<>> \o <<c>>, 10, m)
      <4>1. 10 \in 2..36
        OBVIOUS
      <4> QED
        BY <2>1, <2>2, <3>3, <4>1, ReadsMore
    <3>5. <<>> \o <<c>> = <<c>>
      OBVIOUS
    <3> QED
      BY <2>1, <3>2, <3>4, <3>5
  <2>4. CASE ~ (m < 10) /\ m < 100
    <3>1. m \in 0..99 /\ ~ (m >= 100)
      BY <2>1, <2>4
    <3> PICK w : w = Digits2(m)
      OBVIOUS
    <3>2. WriteDecimal(m) = w
      BY <2>1, <2>4, <3>1, WriteDecimalOf
    <3>3. ReadsAs(<<>> \o w, 10, m)
      <4>1. m = 100 * 0 + m
        BY <3>1
      <4> QED
        BY <2>1, <2>2, <3>1, <4>1, PairReads
    <3>4. <<>> \o w = w
      <4>1. w \in Seq(Figure)
        BY <3>1, FigurePairs
      <4> QED
        BY <4>1
    <3> QED
      BY <2>1, <3>2, <3>3, <3>4
  <2>5. CASE m >= 100
    <3> PICK p \in 0..(m - 1) : p = m \div 100
      BY <2>1, <2>5
    <3> PICK d \in 0..99 : d = m % 100
      BY <2>1
    <3>1. m = 100 * p + d /\ p \in Nat
      BY <2>1
    <3> PICK u : u = WriteDecimal(p)
      OBVIOUS
    <3>2. WriteDecimal(m) = u \o Digits2(d)
      BY <2>1, <2>5, WriteDecimalOf
    <3>3. ReadsAs(u, 10, p)
      BY <1>1
    <3>4. ReadsAs(u \o Digits2(d), 10, m)
      BY <2>1, <3>1, <3>3, PairReads
    <3> QED
      BY <2>1, <3>2, <3>4
  <2> QED
    BY <2>1, <2>3, <2>4, <2>5
<1> HIDE DEF S
<1>2. 0..(Word - 1) \subseteq S
  BY <1>1, UnsignedRange, InductionBelow
<1> QED
  BY <1>2, UnsignedRange DEF S

(* A number is written with digits that read as the number.                *)
LEMMA NumberReads ==
  ASSUME NEW n \in Unsigned, NEW base \in 2..36, NEW upper \in BOOLEAN
  PROVE  ReadsAs(WriteNumber(n, base, upper), base, n)
<1>1. CASE base = 10
  BY <1>1, DecimalReads DEF WriteNumber
<1>2. CASE base # 10 /\ base \in DOMAIN BitsOf
  BY <1>2, UintReads DEF WriteNumber
<1>3. CASE base # 10 /\ base \notin DOMAIN BitsOf
  <2>1. CASE n = 0
    <3> PICK c : c = Digits[0 + 1]
      OBVIOUS
    <3>1. c = "0"
      BY DEF Digits
    <3>2. DigitToChar(0, upper) = c
      BY DEF DigitToChar
    <3>3. Continued(c, base, 0, 0)
      <4>1. 0 \in 0..(base - 1) /\ 0 \in Nat /\ 0 = base * 0 + 0
        OBVIOUS
      <4> QED
        BY <3>2, <4>1, DigitContinues
    <3>4. 0 \in Unsigned
      BY UnsignedRange
    <3>5. ReadsAs(<<>> \o <<c>>, base, 0)
      BY <3>3, <3>4, ReadsNothing, ReadsMore
    <3>6. <<>> \o <<c>> = <<c>>
      OBVIOUS
    <3>7. WriteNumber(n, base, upper) = <<c>>
      BY <1>3, <2>1, <3>1 DEF WriteNumber
    <3> QED
      BY <2>1, <3>5, <3>6, <3>7
  <2>2. CASE n # 0
    BY <1>3, <2>2, OtherReads DEF WriteNumber
  <2> QED
    BY <2>1, <2>2
<1> QED
  BY <1>1, <1>2, <1>3

(* A numeral has a digit at least.                                         *)
LEMMA SomeDigits ==
  ASSUME NEW n \in Unsigned, NEW base \in 2..36, NEW upper \in BOOLEAN
  PROVE  /\ IsSequence(WriteNumber(n, base, upper))
         /\ Len(WriteNumber(n, base, upper)) \in Nat \ {0}
<1> PICK u : u = WriteNumber(n, base, upper)
  OBVIOUS
<1>1. ReadsAs(u, base, n) /\ Len(u) = NumberOfDigits(n, base)
  BY NumberReads, NumeralLength
<1>2. IsSequence(u) /\ Len(u) \in Nat
  BY <1>1, SequenceSized DEF ReadsAs
<1>3. CASE n = 0
  <2>1. Len(u) = 1
    BY <1>1, <1>3 DEF NumberOfDigits
  <2> QED
    BY <1>2, <2>1
<1>4. CASE n # 0
  <2> PICK v : Steps(u, base, v, n)
    BY <1>1 DEF ReadsAs
  <2>1. v[0] = 0 /\ v[Len(u)] = n
    BY DEF Steps
  <2>2. Len(u) # 0
    BY <1>4, <2>1
  <2> QED
    BY <1>2, <2>2
<1> QED
  BY <1>3, <1>4

(* Digits up to the end of a text.                                         *)
LEMMA DigitsToEnd ==
  ASSUME NEW t, NEW l \in Nat, Len(t) = l, DOMAIN t = 1..l,
         NEW i \in 1..(l + 1), NEW base \in 2..36,
         \A x \in i..l : IsDigit(t[x], base)
  PROVE  DigitsEnd(t, base)[i] = l + 1
<1>1. Char(t, l + 1) = End /\ ~ IsDigit(End, base)
  <2>1. l + 1 \notin DOMAIN t
    OBVIOUS
  <2> QED
    BY <2>1, DigitIsChar DEF Char
<1>2. IsDigitsEnd(t, base, i, l + 1)
  <2>1. l + 1 \in i..(l + 1) /\ (l + 1) - 1 = l
    OBVIOUS
  <2> QED
    BY <1>1, <2>1 DEF IsDigitsEnd
<1>3. ASSUME NEW x \in i..(l + 1), IsDigitsEnd(t, base, i, x)
      PROVE  x = l + 1
  <2> SUFFICES ASSUME x # l + 1 PROVE FALSE
    OBVIOUS
  <2>1. x \in i..l /\ x \in 1..l
    OBVIOUS
  <2>2. Char(t, x) = t[x]
    BY <2>1 DEF Char
  <2> QED
    BY <1>3, <2>1, <2>2 DEF IsDigitsEnd
<1>4. DigitsEnd(t, base)[i] =
        CHOOSE x \in i..(l + 1) : IsDigitsEnd(t, base, i, x)
  BY DEF DigitsEnd, IsDigitsEnd
<1>5. l + 1 \in i..(l + 1)
  OBVIOUS
<1> QED
  BY <1>2, <1>3, <1>4, <1>5

(* A number that fits is not wrapped.                                      *)
LEMMA WrappedFits == ASSUME NEW n \in Unsigned PROVE Wrapped(n, 0) = n
<1> PICK W \in Nat : W = Word /\ W > 0
  BY ByteBelowWord
<1>1. n \in 0..(W - 1)
  BY DEF Unsigned
<1>2. (n - 0) % W = n
  BY <1>1
<1> QED
  BY <1>1, <1>2 DEF Wrapped

(* The elements of g, from its first one on, are those of f from i on.     *)
Stands(g, m, f, i) == \A x \in 1..m : f[(i - 1) + x] = g[x]
StandsBehind(g, m, f, i) == \A x \in 0..m : f[(i - 1) + x] = g[x]

(* The values that parse_int comes by are those of the digits.             *)
LEMMA AccumulatesSteps ==
  ASSUME NEW t, NEW i \in Nat, i > 0, NEW m \in Nat, NEW base \in 2..36,
         NEW u, Len(u) = m, NEW v, NEW n, Steps(u, base, v, n),
         Stands(u, m, t, i), NEW j, j = i + m,
         NEW acc, acc = Accumulated(t, i, j, base, 1, 0)
  PROVE  StandsBehind(v, m, acc, i)
<1>0. \A x \in 1..m : t[(i - 1) + x] = u[x]
  BY DEF Stands
<1> DEFINE S == {x \in Nat : x <= m => acc[(i - 1) + x] = v[x]}
<1>1. /\ v[0] = 0 /\ \A x \in 0..m : v[x] \in Unsigned
      /\ \A x \in 1..m : Continued(u[x], base, v[x - 1], v[x])
  BY DEF Steps
<1>2. \A x \in 1..m : CharValue[u[x]] \in Int
  <2>1. \A x \in 1..m : u[x] \in DOMAIN CharValue
    BY <1>1, DigitIsChar DEF Continued
  <2>2. \A x \in 1..m : CharValue[u[x]] \in 0..35
    BY <2>1, ValueOfChar
  <2>3. 0..35 \subseteq Int
    OBVIOUS
  <2> QED
    BY <2>2, <2>3, Zenon
<1>3. \A y \in i..(j - 1) : CharValue[t[y]] \in Int
  <2> SUFFICES ASSUME NEW y \in i..(j - 1)
               PROVE  CharValue[t[y]] \in Int
    OBVIOUS
  <2> PICK x \in 1..m : x = y - (i - 1)
    BY <1>1
  <2>1. (i - 1) + x = y
    OBVIOUS
  <2> QED
    BY <1>0, <1>2, <2>1
<1>4. /\ acc[i - 1] = 0
      /\ \A y \in i..(j - 1) :
           acc[y] = Wrapped(acc[y - 1] * base + 1 * CharValue[t[y]], 0)
  <2>1. i \in Int /\ j \in Int /\ i <= j /\ base \in Int /\ 1 \in Int
          /\ 0 \in Int /\ 0 <= 0
    OBVIOUS
  <2> QED
    BY <1>3, <2>1, AccumulatedOf
<1>5. 0 \in S
  <2>1. (i - 1) + 0 = i - 1
    OBVIOUS
  <2> QED
    BY <1>1, <1>4, <2>1
<1>6. ASSUME NEW x \in S, x \in Nat PROVE x + 1 \in S
  <2> SUFFICES ASSUME x + 1 <= m PROVE acc[(i - 1) + (x + 1)] = v[x + 1]
    BY <1>6
  <2> PICK y \in i..(j - 1) : y = (i - 1) + (x + 1)
    BY <1>6
  <2> PICK z \in 1..m : z = x + 1
    BY <1>6
  <2>1. y - 1 = (i - 1) + x /\ z - 1 = x /\ y = (i - 1) + z
    BY <1>6
  <2>2. acc[y - 1] = v[x]
    BY <1>6, <2>1
  <2> PICK a \in Unsigned : a = v[x]
    <3>1. x \in 0..m
      BY <1>6
    <3> QED
      BY <1>1, <3>1
  <2> PICK b \in Unsigned : b = v[z]
    BY <1>1
  <2> PICK d \in Int : d = CharValue[u[z]]
    BY <1>2
  <2>3. b = base * a + d
    BY <1>1, <2>1 DEF Continued
  <2>4. acc[y] = Wrapped(a * base + 1 * d, 0)
    <3>1. t[y] = u[z]
      BY <1>0, <2>1
    <3>2. acc[y] = Wrapped(acc[y - 1] * base + 1 * CharValue[t[y]], 0)
      BY <1>4
    <3>3. acc[y - 1] = a /\ CharValue[t[y]] = d
      BY <2>2, <3>1
    <3> QED
      BY <3>2, <3>3
  <2>5. a * base + 1 * d = b
    <3>1. a \in Int
      BY UnsignedRange
    <3> QED
      BY <2>3, <3>1
  <2> QED
    BY <2>4, <2>5, WrappedFits
<1> HIDE DEF S
<1>7. Nat \subseteq S
  BY <1>5, <1>6, Induction
<1>8. ASSUME NEW x \in 0..m PROVE acc[(i - 1) + x] = v[x]
  <2>1. x \in Nat /\ x <= m
    OBVIOUS
  <2> QED
    BY <1>7, <2>1 DEF S
<1> QED
  BY <1>8 DEF StandsBehind

(* What is read from position i on is the number n.                        *)
ReadToEnd(t, base, i, n) ==
  ParseUnsigned(t, base)[i] = [ok |-> TRUE, value |-> n, next |-> Len(t) + 1]

(* The number u is the text t from position i on.                          *)
LEMMA NumeralIsRead ==
  ASSUME NEW t, NEW l \in Nat, Len(t) = l, DOMAIN t = 1..l,
         NEW i \in Nat, i > 0, NEW m \in Nat, m > 0, l = (i - 1) + m,
         NEW base \in 2..36, NEW u, Len(u) = m, NEW n, ReadsAs(u, base, n),
         Stands(u, m, t, i)
  PROVE  ReadToEnd(t, base, i, n)
<1> PICK v : Steps(u, base, v, n)
  BY DEF ReadsAs
<1>1. /\ v[m] = n /\ \A x \in 0..m : v[x] \in Unsigned
      /\ \A x \in 1..m : Continued(u[x], base, v[x - 1], v[x])
  BY DEF Steps
<1>2. \A y \in i..l : IsDigit(t[y], base)
  <2> SUFFICES ASSUME NEW y \in i..l PROVE IsDigit(t[y], base)
    OBVIOUS
  <2> PICK x \in 1..m : x = y - (i - 1)
    OBVIOUS
  <2>1. (i - 1) + x = y
    OBVIOUS
  <2> QED
    BY <1>1, <2>1 DEF Continued, Stands
<1>3. i \in 1..(l + 1)
  OBVIOUS
<1>4. DigitsEnd(t, base)[i] = l + 1
  BY <1>2, <1>3, DigitsToEnd
<1> PICK acc : acc = Accumulated(t, i, l + 1, base, 1, 0)
  OBVIOUS
<1>5. \A x \in 0..m : acc[(i - 1) + x] = v[x]
  <2>1. l + 1 = i + m
    OBVIOUS
  <2>2. StandsBehind(v, m, acc, i)
    BY <2>1, AccumulatesSteps
  <2> QED
    BY <2>2 DEF StandsBehind
<1>6. acc[(l + 1) - 1] = n
  <2>1. m \in 0..m /\ (i - 1) + m = (l + 1) - 1
    OBVIOUS
  <2> QED
    BY <1>1, <1>5, <2>1
<1>7. \A y \in i..((l + 1) - 1) : acc[y] >= acc[y - 1]
  <2> SUFFICES ASSUME NEW y \in i..((l + 1) - 1) PROVE acc[y] >= acc[y - 1]
    OBVIOUS
  <2> PICK x \in 1..m : x = y - (i - 1)
    OBVIOUS
  <2>1. (i - 1) + x = y /\ (i - 1) + (x - 1) = y - 1 /\ x - 1 \in 0..m
          /\ x \in 0..m
    OBVIOUS
  <2>2. acc[y] = v[x] /\ acc[y - 1] = v[x - 1]
    BY <1>5, <2>1
  <2> QED
    BY <1>1, <2>2 DEF Continued
<1>8. i < l + 1
  OBVIOUS
<1>9. ParseUnsigned(t, base)[i] =
        [ok |-> i < l + 1
                  /\ \A y \in i..((l + 1) - 1) : acc[y] >= acc[y - 1],
         value |-> acc[(l + 1) - 1], next |-> l + 1]
  BY <1>3, <1>4 DEF ParseUnsigned
<1>10. ParseUnsigned(t, base)[i] = [ok |-> TRUE, value |-> n, next |-> l + 1]
  BY <1>6, <1>7, <1>8, <1>9
<1> QED
  BY <1>10 DEF ReadToEnd

(* A numeral at the end of a text is read as its number.                   *)
LEMMA NumeralAtEnd ==
  ASSUME NEW front, NEW u, NEW t, Joined(t, front, u), Len(u) > 0,
         NEW base \in 2..36, NEW n, ReadsAs(u, base, n)
  PROVE  ReadToEnd(t, base, Len(front) + 1, n)
<1>1. /\ Len(front) \in Nat /\ Len(u) \in Nat
      /\ Len(t) = Len(front) + Len(u) /\ DOMAIN t = 1..Len(t)
  BY DEF Joined
<1> PICK m \in Nat : m = Len(u)
  BY <1>1
<1> PICK l \in Nat : l = Len(t)
  BY <1>1
<1> PICK i \in Nat : i = Len(front) + 1
  BY <1>1
<1>2. m > 0 /\ i > 0 /\ l = (i - 1) + m /\ (i - 1) = Len(front)
  BY <1>1
<1>3. Len(t) = l /\ DOMAIN t = 1..l /\ Len(u) = m
  BY <1>1
<1>4. \A x \in 1..m : t[(i - 1) + x] = u[x]
  BY <1>2 DEF Joined
<1>5. Stands(u, m, t, i)
  BY <1>4 DEF Stands
<1>6. ReadToEnd(t, base, i, n)
  BY <1>2, <1>3, <1>5, NumeralIsRead
<1> QED
  BY <1>6

(* The remainder of a negative number.                                     *)
LEMMA NegativeRest ==
  ASSUME NEW W \in Nat, W > 0, NEW n \in Int, - W <= n, n < 0
  PROVE  n % W = n + W
<1> DEFINE q == n \div W
           r == n % W
<1>1. q \in Int /\ r \in 0..(W - 1) /\ n = W * q + r
  OBVIOUS
<1> HIDE DEF q, r
<1>2. CASE q >= 0
  <2>1. W * q >= 0
    BY <1>1, <1>2
  <2> PICK p \in Int : p = W * q
    BY <1>1
  <2> QED
    BY <1>1, <2>1
<1>3. CASE q <= -2
  <2>1. W * q <= - (2 * W)
    BY <1>1, <1>3
  <2> PICK p \in Int : p = W * q
    BY <1>1
  <2> QED
    BY <1>1, <2>1
<1>4. CASE q = -1
  <2>1. W * q = - W
    BY <1>4
  <2>2. r = n + W
    BY <1>1, <2>1
  <2> QED
    BY <2>2 DEF r
<1> QED
  BY <1>1, <1>2, <1>3, <1>4

(* to_absolute gives the absolute value, of the smallest integer too.      *)
LEMMA AbsoluteValue ==
  ASSUME NEW n \in AnyInt
  PROVE  n \in Int /\ ToAbsolute(n) = IF n < 0 THEN - n ELSE n
<1> PICK W \in Nat : W = Word /\ W > 0
  BY ByteBelowWord
<1>1. n \in Int /\ n >= - W
  <2>1. MinInt = - (((W \div 2) - 1) + 1)
    BY DEF MinInt, MaxInt
  <2>2. W \div 2 \in Nat /\ W \div 2 <= W
    OBVIOUS
  <2>3. MinInt \in Int /\ MinInt >= - W
    BY <2>1, <2>2
  <2> QED
    BY <2>3 DEF AnyInt
<1>2. ASSUME n < 0 PROVE ToAbsolute(n) = - n
  <2>1. n % W = n + W
    BY <1>1, <1>2, NegativeRest
  <2> PICK m \in Int : m = 0 - (n % W)
    BY <1>1, <2>1
  <2>2. - W <= m /\ m <= 0 /\ m = - n - W
    BY <1>1, <1>2, <2>1
  <2>3. ToAbsolute(n) = m % W
    BY <1>2 DEF ToAbsolute
  <2>4. CASE m < 0
    <3>1. m % W = m + W
      BY <2>2, <2>4, NegativeRest
    <3> QED
      BY <1>1, <2>2, <2>3, <3>1
  <2>5. CASE m = 0
    <3>1. n = - W
      BY <1>1, <2>2, <2>5
    <3>2. FALSE
      <4>1. W >= 1000
        BY NotationAssumption
      <4>2. MinInt = - (((W \div 2) - 1) + 1) /\ n >= MinInt
        BY DEF MinInt, MaxInt, AnyInt
      <4>3. W \div 2 \in Nat /\ W \div 2 < W
        BY <4>1
      <4> QED
        BY <3>1, <4>1, <4>2, <4>3
    <3> QED
      BY <3>2
  <2> QED
    BY <2>2, <2>4, <2>5
<1>3. n < 0 => ToAbsolute(n) = - n
  BY <1>2
<1>4. ~ (n < 0) => ToAbsolute(n) = n
  BY DEF ToAbsolute
<1> QED
  BY <1>1, <1>3, <1>4

(* What stands in front of a numeral, but for its sign.                    *)
SignChar == {"+", "-", Blank}

(* The digit of a numeral is no sign.                                      *)
LEMMA FigureIsNoSign == \A c \in Figure : c \notin SignChar
<1>1. \A x \in 1..10 :
        Digits[x] \in {"0", "1", "2", "3", "4", "5", "6", "7", "8", "9"}
  BY DEF Digits
<1>2. \A x \in 1..26 :
        Upper[x] \in {"A", "B", "C", "D", "E", "F", "G", "H", "I", "J", "K",
                      "L", "M", "N", "O", "P", "Q", "R", "S", "T", "U", "V",
                      "W", "X", "Y", "Z"}
  BY DEF Upper
<1>3. \A x \in 1..26 :
        Lower[x] \in {"a", "b", "c", "d", "e", "f", "g", "h", "i", "j", "k",
                      "l", "m", "n", "o", "p", "q", "r", "s", "t", "u", "v",
                      "w", "x", "y", "z"}
  BY DEF Lower
<1>4. \A c \in SignChar :
        c \notin {"0", "1", "2", "3", "4", "5", "6", "7", "8", "9"}
  BY Zenon DEF SignChar, Blank
<1>5. \A c \in SignChar :
        c \notin {"A", "B", "C", "D", "E", "F", "G", "H", "I", "J", "K",
                  "L", "M", "N", "O", "P", "Q", "R", "S", "T", "U", "V",
                  "W", "X", "Y", "Z"}
  BY Zenon DEF SignChar, Blank
<1>6. \A c \in SignChar :
        c \notin {"a", "b", "c", "d", "e", "f", "g", "h", "i", "j", "k",
                  "l", "m", "n", "o", "p", "q", "r", "s", "t", "u", "v",
                  "w", "x", "y", "z"}
  BY Zenon DEF SignChar, Blank
<1>7. \A c \in Figure : \/ \E x \in 1..10 : c = Digits[x]
                        \/ \E x \in 1..26 : c = Upper[x]
                        \/ \E x \in 1..26 : c = Lower[x]
  <2>1. /\ Range(Digits) = {Digits[x] : x \in 1..10}
        /\ Range(Upper) = {Upper[x] : x \in 1..26}
        /\ Range(Lower) = {Lower[x] : x \in 1..26}
    BY Rows DEF Range
  <2> QED
    BY <2>1, Zenon DEF Figure, Alpha
<1> QED
  BY <1>1, <1>2, <1>3, <1>4, <1>5, <1>6, <1>7, Zenon

(* What ReadsBack says of a text t of the integer n, with so many          *)
(* characters between its sign and its digits.                             *)
ReadAs(t, base, skipped, n) ==
  LET read == ParseUnsigned(t, base)[AfterSign(t) + skipped]
  IN /\ read.ok /\ read.next = Len(t) + 1
     /\ read.value = IF n < 0 THEN -n ELSE n
     /\ (Char(t, 1) = "-") <=> n < 0

(* What may be in front of a numeral: a sign, the one of the number, and a *)
(* prefix that starts with a zero.                                         *)
IsSign(sign, n) ==
  /\ sign \in {<<>>, <<"+">>, <<"-">>, <<Blank>>}
  /\ (sign = <<"-">>) <=> n < 0
ZeroPrefix(prefix, skipped) ==
  /\ Sized(prefix, skipped)
  /\ skipped > 0 => prefix[1] = "0"

(* The character behind the sign is none.                                  *)
LEMMA FirstIsNoSign ==
  ASSUME NEW prefix, NEW p, ZeroPrefix(prefix, p),
         NEW u \in Seq(Figure), Len(u) > 0
  PROVE  (prefix \o u)[1] \notin SignChar
<1>1. IsSequence(u) /\ Len(u) \in Nat
  BY SequenceOf
<1> PICK w : w = prefix \o u
  OBVIOUS
<1>2. Joined(w, prefix, u) /\ Len(prefix) = p /\ p \in Nat
  BY <1>1, Joining DEF ZeroPrefix, Sized
<1>3. CASE p = 0
  <2>1. w[Len(prefix) + 1] = u[1]
    BY <1>1, <1>2 DEF Joined
  <2>2. w[1] = u[1]
    BY <1>2, <1>3, <2>1
  <2>3. u[1] \in Figure
    BY <1>1
  <2> QED
    BY <2>2, <2>3, FigureIsNoSign
<1>4. CASE p > 0
  <2>1. w[1] = "0"
    BY <1>2, <1>4 DEF Joined, ZeroPrefix
  <2>2. "0" \notin SignChar
    BY Zenon DEF SignChar, Blank
  <2> QED
    BY <2>1, <2>2
<1> QED
  BY <1>2, <1>3, <1>4

(* Where the sign ends.                                                    *)
LEMMA SignIsFirst ==
  ASSUME NEW sign, NEW n, IsSign(sign, n), NEW v, IsSequence(v), Len(v) > 0,
         v[1] \notin SignChar, NEW t, Joined(t, sign, v)
  PROVE  /\ AfterSign(t) = Len(sign) + 1
         /\ (Char(t, 1) = "-") <=> n < 0
<1>1. Len(v) \in Nat /\ Len(t) = Len(sign) + Len(v) /\ DOMAIN t = 1..Len(t)
  BY DEF Joined
<1>2. CASE sign = <<>>
  <2>1. Len(sign) = 0
    BY <1>2
  <2>2. t[Len(sign) + 1] = v[1]
    BY <1>1 DEF Joined
  <2>3. Char(t, 1) = v[1]
    BY <1>1, <2>1, <2>2 DEF Char
  <2>4. Char(t, 1) \notin {"+", "-", Blank}
    BY <2>3 DEF SignChar
  <2>5. <<>> # <<"-">>
    <3>1. Len(<<"-">>) = 1 /\ Len(<<>>) = 0
      OBVIOUS
    <3> QED
      BY <3>1
  <2> QED
    BY <1>2, <2>1, <2>4, <2>5 DEF AfterSign, IsSign
<1>3. CASE sign # <<>>
  <2>1. PICK c \in SignChar : sign = <<c>>
    BY <1>3 DEF IsSign, SignChar
  <2>2. Len(sign) = 1 /\ sign[1] = c
    BY <2>1
  <2>3. Char(t, 1) = c
    BY <1>1, <2>2 DEF Char, Joined
  <2>4. Char(t, 1) \in {"+", "-", Blank}
    BY <2>3 DEF SignChar
  <2>5. (sign = <<"-">>) <=> c = "-"
    <3>1. <<"-">>[1] = "-"
      OBVIOUS
    <3> QED
      BY <2>1, <2>2, <3>1
  <2> QED
    BY <2>2, <2>3, <2>4, <2>5 DEF AfterSign, IsSign
<1> QED
  BY <1>2, <1>3

(* Sign, prefix and numeral are read back as the integer.                  *)
LEMMA TextReads ==
  ASSUME NEW n \in AnyInt, NEW base \in 2..36, NEW upper \in BOOLEAN,
         NEW sign, IsSign(sign, n), NEW prefix, NEW p, ZeroPrefix(prefix, p),
         NEW u, u = WriteNumber(ToAbsolute(n), base, upper)
  PROVE  ReadAs((sign \o prefix) \o u, base, p, n)
<1> PICK abs \in Unsigned : abs = ToAbsolute(n)
  BY AbsoluteUnsigned
<1>1. abs = IF n < 0 THEN -n ELSE n
  BY AbsoluteValue
<1>2. /\ u \in Seq(Figure) /\ ReadsAs(u, base, abs)
      /\ IsSequence(u) /\ Len(u) \in Nat \ {0}
  BY NumeralLength, NumberReads, SomeDigits
<1>3. IsSequence(prefix) /\ Len(prefix) = p /\ p \in Nat /\ Len(u) > 0
  BY <1>2 DEF ZeroPrefix, Sized
<1>4. IsSequence(sign)
  BY OneIsSequence, SizedNone DEF IsSign, Sized
<1> PICK a \in Nat : a = Len(sign)
  BY <1>4, SequenceSized
<1> PICK front : front = sign \o prefix
  OBVIOUS
<1> PICK v : v = prefix \o u
  OBVIOUS
<1> PICK t : t = front \o u
  OBVIOUS
<1>5. Joined(front, sign, prefix)
  BY <1>3, <1>4, Joining
<1>6. IsSequence(front) /\ Len(front) = a + p
  BY <1>3, <1>5 DEF Joined
<1>7. Joined(t, front, u)
  BY <1>2, <1>6, Joining
<1>8. Joined(v, prefix, u)
  BY <1>2, <1>3, Joining
<1>9. IsSequence(v) /\ Len(v) > 0
  BY <1>3, <1>8 DEF Joined
<1>10. t = sign \o v
  <2>1. InTurn(sign, prefix, u)
    BY <1>2, <1>3, <1>4, JoinedInTurn
  <2> QED
    BY <2>1, Zenon DEF InTurn
<1>11. Joined(t, sign, v)
  BY <1>4, <1>9, <1>10, Joining
<1>12. v[1] \notin SignChar
  BY <1>2, <1>3, FirstIsNoSign
<1>13. AfterSign(t) = a + 1 /\ ((Char(t, 1) = "-") <=> n < 0)
  BY <1>9, <1>11, <1>12, SignIsFirst
<1>14. AfterSign(t) + p = Len(front) + 1
  BY <1>3, <1>6, <1>13
<1> PICK read : read = ParseUnsigned(t, base)[Len(front) + 1]
  OBVIOUS
<1>15. read = [ok |-> TRUE, value |-> abs, next |-> Len(t) + 1]
  <2>1. ReadToEnd(t, base, Len(front) + 1, abs)
    BY <1>2, <1>3, <1>7, NumeralAtEnd
  <2> QED
    BY <2>1 DEF ReadToEnd
<1>16. read.ok /\ read.value = abs /\ read.next = Len(t) + 1
  BY <1>15
<1>17. read = ParseUnsigned(t, base)[AfterSign(t) + p]
  BY <1>14
<1>18. ReadAs(t, base, p, n)
  BY <1>1, <1>13, <1>16, <1>17, Zenon DEF ReadAs
<1> QED
  BY <1>18

(* How many characters of the prefix are not read with the digits.         *)
Skipped(h, base) ==
  IF h.prefix = <<>> THEN 0 ELSE IF base = 8 THEN 1 ELSE 2

(* What stands in front of an integer is a sign and a prefix.              *)
LEMMA SignOfInt ==
  ASSUME NEW s, NEW n PROVE IsSign(SignOf(s, n < 0), n)
<1>1. \A c \in {"+", Blank} : <<c>> # <<"-">>
  <2>1. <<"-">>[1] = "-" /\ \A c \in {"+", Blank} : <<c>>[1] = c
    OBVIOUS
  <2>2. \A c \in {"+", Blank} : c # "-"
    BY Zenon DEF Blank
  <2> QED
    BY <2>1, <2>2
<1>2. <<>> # <<"-">>
  <2>1. Len(<<"-">>) = 1 /\ Len(<<>>) = 0
    OBVIOUS
  <2> QED
    BY <2>1
<1>3. CASE n < 0
  BY <1>3 DEF IsSign, SignOf
<1>4. CASE ~ (n < 0) /\ s.sign \in {"+", Blank}
  <2> PICK c \in {"+", Blank} : c = s.sign
    BY <1>4
  <2>1. SignOf(s, n < 0) = <<c>>
    BY <1>4 DEF SignOf
  <2> QED
    BY <1>1, <1>4, <2>1 DEF IsSign
<1>5. CASE ~ (n < 0) /\ s.sign \notin {"+", Blank}
  <2>1. SignOf(s, n < 0) = <<>>
    BY <1>5 DEF SignOf
  <2> QED
    BY <1>2, <1>5, <2>1 DEF IsSign
<1> QED
  BY <1>3, <1>4, <1>5

(* Its prefix, behind which the digits are read.                           *)
LEMMA PrefixOfInt ==
  ASSUME NEW type, NEW h, h.prefix \in {<<>>, PrefixOfType(type)}
  PROVE  ZeroPrefix(h.prefix, Skipped(h, BaseOfType(type)))
<1> PICK p : p = Skipped(h, BaseOfType(type))
  OBVIOUS
<1>1. CASE h.prefix = <<>>
  BY <1>1, SizedNone DEF Skipped, ZeroPrefix
<1>2. CASE h.prefix # <<>> /\ type \in {"b", "B", "x", "X"}
  <2>1. h.prefix = <<"0", type>>
    BY <1>2 DEF PrefixOfType
  <2>2. h.prefix[1] = "0" /\ Sized(h.prefix, 2)
    BY <2>1, SizedTwo
  <2>3. p = 2
    BY <1>2 DEF Skipped, BaseOfType
  <2> QED
    BY <2>2, <2>3 DEF ZeroPrefix
<1>3. CASE h.prefix # <<>> /\ type = "o"
  <2>1. h.prefix = <<"0">>
    BY <1>3 DEF PrefixOfType
  <2>2. h.prefix[1] = "0" /\ Sized(h.prefix, 1)
    BY <2>1, SizedOne
  <2>3. p = 1
    BY <1>3 DEF Skipped, BaseOfType
  <2> QED
    BY <2>2, <2>3 DEF ZeroPrefix
<1>4. h.prefix # <<>> => type \in {"b", "B", "x", "X", "o"}
  BY DEF PrefixOfType
<1> QED
  BY <1>1, <1>2, <1>3, <1>4

(* An integer with its sign and its prefix is read back.                   *)
LEMMA ShapeReads ==
  ASSUME NEW s, s.type # "c", NEW n \in AnyInt, NEW h, h = IntShape(s, n)
  PROVE  ReadAs(InFrontOf(h) \o h.text, BaseOfType(s.type),
                Skipped(h, BaseOfType(s.type)), n)
<1>1. BaseOfType(s.type) \in 2..36
  BY DEF BaseOfType
<1> PICK base \in 2..36 : base = BaseOfType(s.type)
  BY <1>1
<1> PICK upper \in BOOLEAN : upper = (s.type = "X")
  OBVIOUS
<1>2. /\ h.prefix \in {<<>>, PrefixOfType(s.type)}
      /\ h.sign = SignOf(s, n < 0)
      /\ h.text = WriteNumber(ToAbsolute(n), base, upper)
  BY DEF IntShape
<1>3. IsSign(h.sign, n)
  BY <1>2, SignOfInt
<1> PICK p : p = Skipped(h, base)
  OBVIOUS
<1>4. ZeroPrefix(h.prefix, p)
  BY <1>2, PrefixOfInt
<1>5. ReadAs((h.sign \o h.prefix) \o h.text, base, p, n)
  BY <1>2, <1>3, <1>4, TextReads
<1> QED
  BY <1>5, Zenon DEF InFrontOf

----------------------------------------------------------------------------
(* The shape of an integer stays the one that was found for it.            *)

IntegerKinds == {"int", "unsigned", "pointer"}
IntegerKept(s, h, a) ==
  a.kind \in IntegerKinds => h = IntShape(ArgSpecs(s, a), a.value)

(* The text x of writer::write_int.                                        *)
DigitsWritten(h, a, x) ==
  /\ a.base \in 2..36
  /\ h.sign = IF a.value < 0 THEN <<"-">> ELSE <<>>
  /\ h.prefix = <<>>
  /\ h.text = WriteNumber(ToAbsolute(a.value), a.base, a.upper)
  /\ x = h.sign \o h.text

(* Of the value that is written and of the last one that has been.         *)
Numbered(j, ph, s, h, o) ==
  /\ ph \in {"lead", "left", "body", "right"} =>
       ArgAt(j, o).kind # "digits" /\ IntegerKept(s, h, ArgAt(j, o))
  /\ ph \in {"begin", "done"} /\ o # <<>> =>
       LET a == j.args[Len(o)] IN
       /\ a \in Args /\ IntegerKept(s, h, a)
       /\ a.kind = "digits" => DigitsWritten(h, a, o[Len(o)])

NumberedNow == Numbered(job, phase, specs, shape, outs)

(* A shape has been found.                                                 *)
LEMMA ReadyNumbered ==
  ASSUME NEW h, shape' = h, phase' = "lead", job' = job, specs' = specs,
         outs' = outs, Arg.kind # "digits", IntegerKept(specs, h, Arg)
  PROVE  NumberedNow'
<1>1. ArgAt(job, outs) = Arg
  BY DEF ArgAt, Arg
<1>2. Numbered(job, "lead", specs, h, outs)
  BY <1>1 DEF Numbered
<1> QED
  BY <1>2 DEF NumberedNow

(* The shape of an integer has been found.                                 *)
LEMMA IntNumbered == Inv /\ (BeginInt \/ BeginPointer) => NumberedNow'
<1> SUFFICES ASSUME Inv, BeginInt \/ BeginPointer PROVE NumberedNow'
  OBVIOUS
<1> PICK w : w = ArgSpecs(specs, Arg)
  OBVIOUS
<1> PICK h : h = IntShape(w, Arg.value)
  OBVIOUS
<1>1. Arg.kind \in IntegerKinds /\ Ready(h)
  <2>1. CASE BeginInt
    <3>1. Arg.kind \in {"int", "unsigned"} /\ Ready(IntShape(specs, Arg.value))
      BY <2>1 DEF BeginInt, AsWritten, Copied
    <3>2. w = specs
      BY <3>1, SameSpecs
    <3> QED
      BY <3>1, <3>2 DEF IntegerKinds
  <2>2. CASE BeginPointer
    <3>1. Arg.kind = "pointer"
      BY <2>2 DEF BeginPointer
    <3>2. Ready(IntShape(w, Arg.value))
      BY <2>2, <3>1 DEF BeginPointer, ArgSpecs, Copied
    <3> QED
      BY <3>1, <3>2 DEF IntegerKinds
  <2> QED
    BY <2>1, <2>2
<1>2. IntegerKept(specs, h, Arg) /\ Arg.kind # "digits"
  BY <1>1 DEF IntegerKept, IntegerKinds
<1> QED
  BY <1>1, <1>2, ReadyKeeps, ReadyNumbered

(* The shape of any other value has been found.                            *)
LEMMA OtherNumbered ==
  Inv /\ (\/ BeginBool \/ BeginChar \/ BeginString \/ BeginWord \/ BeginZero
          \/ Generated) => NumberedNow'
<1> SUFFICES ASSUME Inv, \/ BeginBool \/ BeginChar \/ BeginString \/ BeginWord
                         \/ BeginZero \/ Generated
             PROVE  NumberedNow'
  OBVIOUS
<1>1. Arg.kind \in {"bool", "char", "string", "float"}
  <2>1. CASE Generated
    <3>1. ArgAt(job, outs).kind = "float"
      BY <2>1 DEF Inv, Generating, Generated
    <3> QED
      BY <3>1 DEF ArgAt, Arg
  <2> QED
    BY <2>1 DEF BeginBool, BeginChar, BeginString, BeginWord, BeginZero,
                AsWritten
<1>2. PICK h : /\ shape' = h /\ phase' = "lead" /\ job' = job
               /\ specs' = specs /\ outs' = outs
  <2>1. CASE Generated
    BY <2>1 DEF Generated
  <2>2. (\E g : Ready(g)) => /\ phase' = "lead" /\ job' = job
                             /\ specs' = specs /\ outs' = outs
    BY DEF Ready
  <2>3. ASSUME \/ BeginBool \/ BeginChar \/ BeginString \/ BeginWord
               \/ BeginZero
        PROVE  \E g : Ready(g)
    BY <2>3, Zenon DEF BeginBool, BeginChar, BeginString, BeginWord, BeginZero
  <2> QED
    BY <2>1, <2>2, <2>3
<1>3. \A g : IntegerKept(specs, g, Arg)
  BY <1>1 DEF IntegerKept, IntegerKinds
<1> QED
  BY <1>1, <1>2, <1>3, ReadyNumbered

(* The shape stays while the text is written.                              *)
LEMMA GoesNumbered ==
  Inv /\ NumberedNow /\ (Lead \/ PadLeft \/ Body) => NumberedNow'
<1> SUFFICES ASSUME Inv, NumberedNow, Lead \/ PadLeft \/ Body
             PROVE  NumberedNow'
  OBVIOUS
<1>1. /\ phase \in {"lead", "left", "body"}
      /\ phase' \in {"left", "body", "right"}
      /\ job' = job /\ specs' = specs /\ shape' = shape /\ outs' = outs
  BY DEF Lead, PadLeft, Body, Goes
<1>2. \A ph \in {"left", "body", "right"} :
        Numbered(job, ph, specs, shape, outs)
  BY <1>1 DEF NumberedNow, Numbered
<1> QED
  BY <1>1, <1>2 DEF NumberedNow

(* Nor does it change when the text is finished.                           *)
LEMMA PadRightNumbered == Inv /\ NumberedNow /\ PadRight => NumberedNow'
<1> SUFFICES ASSUME Inv, NumberedNow, PadRight PROVE NumberedNow'
  OBVIOUS
<1> PICK a : a = ArgAt(job, outs)
  OBVIOUS
<1>1. /\ phase = "right" /\ job' = job /\ specs' = specs /\ shape' = shape
      /\ phase' \in {"begin", "done"}
      /\ \E t : outs' = Append(outs, t)
  BY DEF PadRight
<1> PICK t : outs' = Append(outs, t)
  BY <1>1
<1>2. /\ job \in Jobs /\ Counted(job, "right", outs)
      /\ SpecsKept(job, "right", specs)
  BY <1>1 DEF Inv
<1>3. a \in Args
  BY <1>2, ArgumentLeft DEF Ongoing
<1>4. a.kind # "digits" /\ IntegerKept(specs, shape, a)
  BY <1>1 DEF NumberedNow, Numbered
<1> PICK o : o = Append(outs, t)
  OBVIOUS
<1>5. Len(o) = Len(outs) + 1
  BY <1>2, NextText DEF Counted
<1>6. job.args[Len(o)] = a
  BY <1>5 DEF ArgAt
<1>7. \A ph \in {"begin", "done"} : Numbered(job, ph, specs, shape, o)
  BY <1>3, <1>4, <1>6 DEF Numbered
<1> QED
  BY <1>1, <1>7 DEF NumberedNow

(* What a user writes with write_int.                                      *)
LEMMA WriteIntNumbered == Inv /\ NumberedNow /\ WriteInt => NumberedNow'
<1> SUFFICES ASSUME Inv, NumberedNow, WriteInt PROVE NumberedNow'
  OBVIOUS
<1>1. phase = "begin" /\ Arg.kind = "digits" /\ job' = job /\ specs' = specs
  BY DEF WriteInt
<1>2. CASE ~ IsValidBase(Arg.base)
  <2>1. phase' = "failed"
    BY <1>2 DEF WriteInt
  <2> QED
    BY <2>1 DEF NumberedNow, Numbered
<1>3. CASE IsValidBase(Arg.base)
  <2> PICK text :
        text = WriteNumber(ToAbsolute(Arg.value), Arg.base, Arg.upper)
    OBVIOUS
  <2> PICK sign : sign = IF Arg.value < 0 THEN <<"-">> ELSE <<>>
    OBVIOUS
  <2> PICK n : n = NumberOfDigits(ToAbsolute(Arg.value), Arg.base)
    OBVIOUS
  <2> PICK h : h = [Plain(text) EXCEPT !.sign = sign, !.counted = n]
    OBVIOUS
  <2> PICK x : x = sign \o text
    OBVIOUS
  <2> PICK o : o = Append(outs, x)
    OBVIOUS
  <2>1. shape' = h /\ outs' = o /\ phase' = "done"
    BY <1>3 DEF WriteInt
  <2>2. Arg \in Args /\ Counted(job, "begin", outs)
    BY <1>1, BeginArg DEF Inv
  <2>3. Len(o) = Len(outs) + 1 /\ o[Len(outs) + 1] = x
    BY <2>2, NextText DEF Counted
  <2>4. job.args[Len(o)] = Arg /\ o[Len(o)] = x
    BY <2>3 DEF Arg
  <2>5. h.sign = sign /\ h.prefix = <<>> /\ h.text = text
    BY DEF Plain
  <2>6. DigitsWritten(h, Arg, x)
    BY <1>3, <2>5 DEF DigitsWritten, IsValidBase
  <2>7. IntegerKept(specs, h, Arg)
    BY <1>1 DEF IntegerKept, IntegerKinds
  <2>8. Numbered(job, "done", specs, h, o)
    BY <2>2, <2>4, <2>6, <2>7 DEF Numbered
  <2> QED
    BY <1>1, <2>1, <2>8 DEF NumberedNow
<1> QED
  BY <1>2, <1>3

(* Steps that find no shape and finish no text.                            *)
LEMMA RestNumbered ==
  Inv /\ (Overwrite \/ Fail \/ BeginFinite \/ Generate) => NumberedNow'
<1> SUFFICES ASSUME Inv, Overwrite \/ Fail \/ BeginFinite \/ Generate
             PROVE  NumberedNow'
  OBVIOUS
<1>1. CASE Overwrite
  <2>1. outs' = outs /\ phase' = "begin" /\ phase = "overwrite"
    BY <1>1 DEF Overwrite
  <2>2. outs = <<>>
    BY <2>1 DEF Inv, Counted
  <2> QED
    BY <2>1, <2>2 DEF NumberedNow, Numbered
<1>2. CASE Fail \/ BeginFinite \/ Generate
  <2>1. phase' \in {"failed", "digits"}
    BY <1>2 DEF Fail, BeginFinite, Generate, valueVars
  <2> QED
    BY <2>1 DEF NumberedNow, Numbered
<1> QED
  BY <1>1, <1>2

(* Numbered holds all the time.                                            *)
LEMMA NumberedAlways == Spec => []NumberedNow
<1>1. Init => NumberedNow
  <2> SUFFICES ASSUME Init PROVE NumberedNow
    OBVIOUS
  <2>1. outs = <<>> /\ phase \in {"overwrite", "begin"}
    BY DEF Init
  <2> QED
    BY <2>1 DEF NumberedNow, Numbered
<1>2. Inv /\ NumberedNow /\ [Next]_vars => NumberedNow'
  <2> SUFFICES ASSUME Inv, NumberedNow, [Next]_vars PROVE NumberedNow'
    OBVIOUS
  <2>1. CASE Next
    BY <2>1, IntNumbered, OtherNumbered, GoesNumbered, PadRightNumbered,
       WriteIntNumbered, RestNumbered, Zenon DEF Next, Begin
  <2>2. CASE UNCHANGED vars
    <3>1. /\ job' = job /\ specs' = specs /\ shape' = shape
          /\ phase' = phase /\ outs' = outs
      BY <2>2 DEF vars, valueVars
    <3> QED
      BY <3>1 DEF NumberedNow
  <2> QED
    BY <2>1, <2>2
<1> QED
  BY <1>1, <1>2, InvAlways, PTL DEF Spec

(* The numeral of a finished integer is read back by reader::parse_int,    *)
(* behind its sign and its prefix, as that integer, in whatever base it    *)
(* was written; the smallest integer too (ReadsBack).                      *)
THEOREM ReadsBackAlways == Spec => []ReadsBack
<1>1. Inv /\ NumberedNow => ReadsBack
  <2> SUFFICES ASSUME Inv, NumberedNow, Finished,
                      LastArg.kind \in IntegerKinds \cup {"digits"},
                      Meant.type # "c"
               PROVE  ReadsBack
    BY DEF ReadsBack, IntegerKinds
  <2> PICK a : a = LastArg
    OBVIOUS
  <2> PICK t : t = InFrontOf(shape) \o shape.text
    OBVIOUS
  <2> PICK base : base = IF a.kind = "digits" THEN a.base
                         ELSE IF a.kind = "pointer" THEN 16
                         ELSE BaseOfType(Meant.type)
    OBVIOUS
  <2>1. /\ a \in Args /\ IntegerKept(specs, shape, a)
        /\ a.kind = "digits" => DigitsWritten(shape, a, outs[Len(outs)])
    BY DEF NumberedNow, Numbered, Finished, LastArg
  <2>2. job \in Jobs /\ specs = JobSpecs(job) /\ specs.type = Meant.type
    <3>1. job \in Jobs /\ specs = JobSpecs(job)
      BY DEF Inv, SpecsKept, Finished
    <3> QED
      BY <3>1, MeantSpecs DEF Meant
  <2>3. a.kind \in IntegerKinds \cup {"digits"} /\ a.value \in AnyInt
    BY <2>1 DEF Args, IntegerKinds
  <2>4. /\ ReadAs(t, base, Skipped(shape, base), a.value)
        /\ a.kind = "digits" => outs[Len(outs)] = t
    <3>1. CASE a.kind = "digits"
      <4>1. DigitsWritten(shape, a, outs[Len(outs)])
        BY <2>1, <3>1
      <4>2. base \in 2..36 /\ a.upper \in BOOLEAN
        BY <2>1, <3>1, <4>1 DEF DigitsWritten, Args
      <4>3. IsSign(shape.sign, a.value)
        <5>1. <<>> # <<"-">>
          <6>1. Len(<<"-">>) = 1 /\ Len(<<>>) = 0
            OBVIOUS
          <6> QED
            BY <6>1
        <5> QED
          BY <4>1, <5>1 DEF DigitsWritten, IsSign
      <4>4. Skipped(shape, base) = 0 /\ ZeroPrefix(shape.prefix, 0)
        BY <4>1, SizedNone DEF DigitsWritten, Skipped, ZeroPrefix
      <4>5. shape.text = WriteNumber(ToAbsolute(a.value), base, a.upper)
        BY <3>1, <4>1 DEF DigitsWritten
      <4>6. ReadAs((shape.sign \o shape.prefix) \o shape.text, base, 0,
                   a.value)
        BY <2>3, <4>2, <4>3, <4>4, <4>5, TextReads
      <4>7. shape.sign \o shape.prefix = shape.sign
        <5>1. IsSequence(shape.sign)
          BY DEF Inv, IsShape
        <5> QED
          BY <4>1, <5>1, JoinedWithNone DEF DigitsWritten
      <4>8. t = shape.sign \o shape.text
        BY <4>7 DEF InFrontOf
      <4> QED
        BY <4>1, <4>4, <4>6, <4>7, <4>8 DEF DigitsWritten
    <3>2. CASE a.kind \in IntegerKinds
      <4> PICK w : w = ArgSpecs(specs, a)
        OBVIOUS
      <4>1. shape = IntShape(w, a.value)
        BY <2>1, <3>2 DEF IntegerKept
      <4>2. w.type # "c" /\ base = BaseOfType(w.type)
        <5>1. CASE a.kind = "pointer"
          <6>1. specs \in SpecsOf(job)
            BY SpecsRecord DEF Inv
          <6>2. w.type = "x"
            BY <5>1, <6>1 DEF ArgSpecs, SpecsOf
          <6> QED
            BY <5>1, <6>2 DEF BaseOfType
        <5>2. CASE a.kind \in {"int", "unsigned"}
          <6>1. w = specs
            BY <5>2, SameSpecs
          <6> QED
            BY <2>2, <5>2, <6>1
        <5> QED
          BY <3>2, <5>1, <5>2 DEF IntegerKinds
      <4>3. ReadAs(InFrontOf(shape) \o shape.text, BaseOfType(w.type),
                   Skipped(shape, BaseOfType(w.type)), a.value)
        BY <2>3, <4>1, <4>2, ShapeReads
      <4> QED
        BY <3>2, <4>2, <4>3 DEF IntegerKinds
    <3> QED
      BY <2>3, <3>1, <3>2
  <2>5. InFront = InFrontOf(shape)
    BY DEF InFront, InFrontOf
  <2> QED
    BY <2>4, <2>5, Zenon DEF ReadsBack, ReadAs, Skipped
<1> QED
  BY <1>1, InvAlways, NumberedAlways, PTL
=============================================================================
