---------------------------- MODULE Output_proofs ----------------------------
(***************************************************************************)
(* Proofs about Output for every size of the caches and spans, every limit *)
(* and source, and every way a file fails.                                 *)
(*                                                                         *)
(* The inductive invariant IInv says which part of the text every kind of  *)
(* buffer holds where (HoldsText in Sinks_proofs), that a call always has  *)
(* the rest of its characters left, and of write_str_escaped that its      *)
(* remainder are the next characters of the text and that escaped_size is  *)
(* what remains, up to the part of the area the helper has used.           *)
(***************************************************************************)
EXTENDS Output, Sinks_proofs, WellFoundedInduction

----------------------------------------------------------------------------
(* Sums, which the folds of the community modules compute.                 *)

(* The order of the numbers.                                               *)
Below == {p \in Nat \X Nat : p[1] < p[2]}

(* Induction over a set of numbers.                                        *)
LEMMA Induction ==
  ASSUME NEW S, 0 \in S, \A n \in S : n \in Nat => n + 1 \in S
  PROVE  Nat \subseteq S
<1>1. IsWellFoundedOn(Below, Nat)
  BY NatLessThanWellFounded DEF OpToRel, Below
<1> SUFFICES ASSUME Nat \ S # {} PROVE FALSE
  OBVIOUS
<1>2. PICK n \in Nat \ S : \A m \in Nat \ S : ~ (<<m, n>> \in Below)
  <2>1. Nat \ S \subseteq Nat
    OBVIOUS
  <2> QED
    BY <1>1, <2>1, WFMin
<1>3. n - 1 \in Nat /\ n - 1 < n /\ (n - 1) + 1 = n
  BY <1>2
<1>4. <<n - 1, n>> \in Below
  BY <1>2, <1>3 DEF Below
<1>5. n - 1 \in S
  BY <1>2, <1>3, <1>4
<1> QED
  BY <1>2, <1>3, <1>5

(* What the fold of the sizes w does.                                      *)
Folds(h, w, n) ==
  h = [t \in SUBSET (1..n) |->
         IF t = {} THEN 0 ELSE h[t \ {Max(t)}] + w[Max(t)]]

LEMMA MaxOf ==
  ASSUME NEW n \in Nat, NEW t, t \subseteq 1..(n + 1)
  PROVE  /\ n + 1 \in t => Max(t) = n + 1
         /\ t # {} => Max(t) \in t
<1>1. ASSUME n + 1 \in t PROVE Max(t) = n + 1
  <2>1. \A y \in t : n + 1 >= y
    OBVIOUS
  <2>2. \A x \in t : (\A y \in t : x >= y) => x = n + 1
    BY <1>1, <2>1
  <2>3. \E x \in t : \A y \in t : x >= y
    BY <1>1, <2>1
  <2>4. Max(t) \in t /\ \A y \in t : Max(t) >= y
    BY <2>3 DEF Max
  <2> QED
    BY <2>2, <2>4
<1> DEFINE S == {k \in Nat : \A u \in SUBSET (1..k) : u # {} =>
                               \E x \in u : \A y \in u : x >= y}
<1>2. 0 \in S
  <2>1. 1..0 = {}
    OBVIOUS
  <2> QED
    BY <2>1
<1>3. ASSUME NEW k \in S, k \in Nat PROVE k + 1 \in S
  <2> SUFFICES ASSUME NEW u \in SUBSET (1..(k + 1)), u # {}
               PROVE  \E x \in u : \A y \in u : x >= y
    OBVIOUS
  <2>1. CASE k + 1 \in u
    BY <2>1
  <2>2. CASE k + 1 \notin u
    <3>1. u \in SUBSET (1..k)
      BY <2>2
    <3> QED
      BY <1>3, <3>1
  <2> QED
    BY <2>1, <2>2
<1>4. n + 1 \in S
  BY <1>2, <1>3, Induction
<1>5. t # {} => \E x \in t : \A y \in t : x >= y
  BY <1>4
<1>6. t # {} => Max(t) \in t
  BY <1>5 DEF Max
<1> QED
  BY <1>1, <1>6

HasFold(w, n) == \E h \in [SUBSET (1..n) -> Nat] : Folds(h, w, n)

LEMMA FoldExists ==
  ASSUME NEW w, NEW n \in Nat, \A i \in 1..n : w[i] \in Nat
  PROVE  HasFold(w, n)
<1> DEFINE S == {k \in Nat : k <= n => HasFold(w, k)}
<1>1. 0 \in S
  <2> DEFINE h == [t \in SUBSET (1..0) |-> 0]
  <2>1. h \in [SUBSET (1..0) -> Nat] /\ 1..0 = {}
    OBVIOUS
  <2>2. Folds(h, w, 0)
    BY <2>1 DEF Folds
  <2> QED
    BY <2>1, <2>2 DEF HasFold
<1>2. ASSUME NEW k \in S, k \in Nat PROVE k + 1 \in S
  <2> SUFFICES ASSUME k + 1 <= n PROVE HasFold(w, k + 1)
    BY <1>2
  <2>1. PICK g \in [SUBSET (1..k) -> Nat] : Folds(g, w, k)
    BY <1>2 DEF HasFold
  <2> DEFINE h == [t \in SUBSET (1..(k + 1)) |->
                     IF k + 1 \in t THEN g[t \ {k + 1}] + w[k + 1] ELSE g[t]]
  <2>2. \A t \in SUBSET (1..(k + 1)) :
          /\ t \ {k + 1} \in SUBSET (1..k)
          /\ k + 1 \notin t => t \in SUBSET (1..k)
    BY <1>2
  <2>3. h \in [SUBSET (1..(k + 1)) -> Nat]
    BY <1>2, <2>2
  <2>4. ASSUME NEW t \in SUBSET (1..(k + 1))
        PROVE  h[t] = IF t = {} THEN 0 ELSE h[t \ {Max(t)}] + w[Max(t)]
    <3>1. CASE k + 1 \in t
      <4>1. Max(t) = k + 1
        BY <1>2, <3>1, MaxOf
      <4>2. k + 1 \notin t \ {k + 1} /\ t \ {k + 1} \in SUBSET (1..(k + 1))
        OBVIOUS
      <4>3. h[t \ {k + 1}] = g[t \ {k + 1}]
        BY <4>2
      <4> QED
        BY <3>1, <4>1, <4>3
    <3>2. CASE k + 1 \notin t
      <4>1. t \in SUBSET (1..k) /\ h[t] = g[t]
        BY <2>2, <3>2
      <4>2. g[t] = IF t = {} THEN 0 ELSE g[t \ {Max(t)}] + w[Max(t)]
        BY <2>1, <4>1 DEF Folds
      <4>3. t \ {Max(t)} \in SUBSET (1..(k + 1)) /\ k + 1 \notin t \ {Max(t)}
        BY <3>2
      <4>4. h[t \ {Max(t)}] = g[t \ {Max(t)}]
        BY <4>3
      <4> QED
        BY <4>1, <4>2, <4>4
    <3> QED
      BY <3>1, <3>2
  <2> HIDE DEF h
  <2>5. Folds(h, w, k + 1)
    BY <2>3, <2>4 DEF Folds
  <2> QED
    BY <2>3, <2>5 DEF HasFold
<1>3. n \in S
  BY <1>1, <1>2, Induction
<1> QED
  BY <1>3

----------------------------------------------------------------------------
(* p adds up the first n numbers of w.                                     *)
Sums(p, w, n) ==
  /\ p \in [0..n -> Nat] /\ w \in [1..n -> Nat]
  /\ p[0] = 0
  /\ \A k \in 1..n : p[k] = p[k - 1] + w[k]

LEMMA FoldAddsUp ==
  ASSUME NEW n \in Nat, NEW w \in [1..n -> Nat], NEW h, Folds(h, w, n)
  PROVE  \E p : Sums(p, w, n) /\ h[1..n] = p[n]
<1> DEFINE p == [k \in 0..n |-> h[1..k]]
           S == {k \in Nat : k <= n => h[1..k] \in Nat}
<1>1. h[1..0] = 0
  <2>1. 1..0 = {} /\ {} \in SUBSET (1..n)
    OBVIOUS
  <2> QED
    BY <2>1 DEF Folds
<1>2. ASSUME NEW k \in Nat, k < n PROVE h[1..(k + 1)] = h[1..k] + w[k + 1]
  <2>0. k + 1 \in Nat /\ k + 1 <= n /\ k + 1 \in 1..(k + 1)
    BY <1>2
  <2>1. /\ 1..(k + 1) \in SUBSET (1..n) /\ 1..(k + 1) # {}
        /\ (1..(k + 1)) \ {k + 1} = 1..k
    <3>1. \A i \in 1..(k + 1) : i \in 1..n
      BY <2>0
    <3>2. \A i : i \in 1..(k + 1) /\ i # k + 1 <=> i \in 1..k
      BY <1>2
    <3> QED
      BY <2>0, <3>1, <3>2
  <2>2. Max(1..(k + 1)) = k + 1
    BY <1>2, <2>0, MaxOf
  <2> QED
    BY <2>1, <2>2 DEF Folds
<1>3. 0 \in S
  BY <1>1
<1>4. ASSUME NEW k \in S, k \in Nat PROVE k + 1 \in S
  <2>1. CASE k + 1 <= n
    <3>1. k < n /\ k + 1 \in 1..n /\ h[1..k] \in Nat
      BY <1>4, <2>1
    <3>2. h[1..(k + 1)] = h[1..k] + w[k + 1] /\ w[k + 1] \in Nat
      BY <1>2, <1>4, <3>1
    <3> QED
      BY <3>1, <3>2
  <2>2. CASE ~ (k + 1 <= n)
    BY <2>2, <1>4
  <2> QED
    BY <2>1, <2>2
<1>5. \A k \in 0..n : h[1..k] \in Nat
  <2>1. \A k \in Nat : k \in S
    <3> HIDE DEF S
    <3> QED
      BY <1>3, <1>4, Induction
  <2> QED
    BY <2>1
<1>6. p \in [0..n -> Nat] /\ p[0] = 0 /\ p[n] = h[1..n]
  BY <1>1, <1>5
<1>7. ASSUME NEW k \in 1..n PROVE p[k] = p[k - 1] + w[k]
  <2>1. k - 1 \in Nat /\ k - 1 < n /\ (k - 1) + 1 = k
    OBVIOUS
  <2>2. h[1..k] = h[1..(k - 1)] + w[k]
    BY <1>2, <2>1
  <2> QED
    BY <2>2
<1> HIDE DEF p
<1> QED
  BY <1>6, <1>7 DEF Sums

(* There is one such sum.                                                  *)
LEMMA SumIsUnique ==
  ASSUME NEW w, NEW n \in Nat, NEW p, NEW q, Sums(p, w, n), Sums(q, w, n)
  PROVE  p[n] = q[n]
<1> DEFINE S == {k \in Nat : k <= n => p[k] = q[k]}
<1>1. 0 \in S
  BY DEF Sums
<1>2. ASSUME NEW k \in S, k \in Nat PROVE k + 1 \in S
  <2>1. k + 1 <= n => k + 1 \in 1..n /\ (k + 1) - 1 = k /\ k <= n
    BY <1>2
  <2> QED
    BY <1>2, <2>1 DEF Sums
<1>3. n \in S
  BY <1>1, <1>2, Induction
<1> QED
  BY <1>3

(* v are the first n numbers of w without the first one.                   *)
RestOf(v, w, n) == \A i \in 1..(n - 1) : v[i] = w[i + 1]

(* The first number and the sum of the others.                             *)
LEMMA SumOfRest ==
  ASSUME NEW w, NEW n \in Nat \ {0}, NEW p, Sums(p, w, n),
         NEW v, RestOf(v, w, n),
         NEW q, Sums(q, v, n - 1)
  PROVE  p[n] = w[1] + q[n - 1]
<1> DEFINE S == {k \in Nat : k <= n - 1 => p[k + 1] = w[1] + q[k]}
<1>0. n - 1 \in Nat /\ 1 \in 1..n /\ (n - 1) + 1 = n
  OBVIOUS
<1>1. 0 \in S
  <2>1. 1 \in 1..n /\ 1 - 1 = 0 /\ 0 + 1 = 1
    OBVIOUS
  <2>2. p[1] = p[0] + w[1] /\ p[0] = 0 /\ q[0] = 0 /\ w[1] \in Nat
    BY <2>1 DEF Sums
  <2> QED
    BY <2>1, <2>2
<1>2. ASSUME NEW k \in Nat, k \in S PROVE k + 1 \in S
  <2> SUFFICES ASSUME k + 1 <= n - 1
               PROVE  p[(k + 1) + 1] = w[1] + q[k + 1]
    OBVIOUS
  <2> DEFINE m == k + 1
  <2>1. /\ m + 1 \in 1..n /\ (m + 1) - 1 = m /\ k <= n - 1
        /\ m \in 1..(n - 1) /\ m - 1 = k
        /\ k \in 0..(n - 1) /\ m \in 0..n /\ m + 1 \in 0..n
    BY <1>0
  <2> HIDE DEF m
  <2>2. p[m] = w[1] + q[k]
    BY <1>2, <2>1 DEF m
  <2>3. p[m + 1] = p[m] + w[m + 1] /\ w[m + 1] \in Nat /\ w[1] \in Nat
    BY <1>0, <2>1 DEF Sums
  <2>4. q[m] = q[k] + v[m] /\ q[k] \in Nat
    BY <1>0, <2>1 DEF Sums
  <2>5. v[m] = w[m + 1]
    BY <2>1 DEF RestOf
  <2> QED
    BY <2>2, <2>3, <2>4, <2>5 DEF m
<1>3. n - 1 \in S
  <2> HIDE DEF S
  <2> QED
    BY <1>0, <1>1, <1>2, Induction
<1> QED
  BY <1>0, <1>3

----------------------------------------------------------------------------
(* The size of an escaped text (EscapedOutput).                            *)

Chars == {"plain", "short", "hex"}

(* The numbers of characters that the characters of s are written as.      *)
Weights(s) == [i \in 1..Len(s) |-> Encoded(s[i])]

(* What is counted for a character is what is written for it.              *)
LEMMA CountedIsEncoded ==
  ASSUME NEW c \in Chars
  PROVE  Counted(c) = Encoded(c) /\ Encoded(c) \in 1..4
BY DEF Chars, Counted, Encoded

(* The weights of a text of the program.                                   *)
LEMMA WeightsType ==
  ASSUME NEW s \in Seq(Chars)
  PROVE  Len(s) \in Nat /\ Weights(s) \in [1..Len(s) -> 1..4]
<1>1. ASSUME NEW i \in 1..Len(s) PROVE Encoded(s[i]) \in 1..4
  <2>1. s[i] \in Chars
    BY ElementOfSeq
  <2> QED
    BY <2>1, CountedIsEncoded
<1> QED
  BY <1>1, LenProperties DEF Weights

(* The fold that EncodedSize stands for is a sum.                          *)
LEMMA EncodedIsSum ==
  ASSUME NEW s \in Seq(Chars)
  PROVE  \E p : /\ Sums(p, Weights(s), Len(s))
                /\ EncodedSize(s) = p[Len(s)]
                /\ CountedSize(s) = p[Len(s)]
<1> DEFINE n == Len(s)
           w == Weights(s)
           F(h) == h = [t \in SUBSET (1..n) |->
                          IF t = {} THEN 0
                          ELSE h[t \ {Max(t)}] + Encoded(s[Max(t)])]
           G(h) == h = [t \in SUBSET (1..n) |->
                          IF t = {} THEN 0
                          ELSE h[t \ {Max(t)}] + Counted(s[Max(t)])]
<1>1. n \in Nat /\ w \in [1..n -> 1..4] /\ DOMAIN s = 1..n
  BY WeightsType, LenProperties
<1>2. ASSUME NEW t \in SUBSET (1..n), t # {}
      PROVE  /\ w[Max(t)] = Encoded(s[Max(t)])
             /\ w[Max(t)] = Counted(s[Max(t)])
  <2>1. t \subseteq 1..(n + 1)
    BY <1>1
  <2>2. Max(t) \in 1..n
    BY <1>1, <1>2, <2>1, MaxOf
  <2> QED
    BY <2>2, CountedIsEncoded, ElementOfSeq DEF Weights
<1>3. \A h : (Folds(h, w, n) <=> F(h)) /\ (Folds(h, w, n) <=> G(h))
  <2> SUFFICES ASSUME NEW h
               PROVE  (Folds(h, w, n) <=> F(h)) /\ (Folds(h, w, n) <=> G(h))
    OBVIOUS
  <2> HIDE DEF w, n
  <2>2. [t \in SUBSET (1..n) |->
           IF t = {} THEN 0 ELSE h[t \ {Max(t)}] + w[Max(t)]]
        = [t \in SUBSET (1..n) |->
           IF t = {} THEN 0 ELSE h[t \ {Max(t)}] + Encoded(s[Max(t)])]
    BY <1>2
  <2>3. [t \in SUBSET (1..n) |->
           IF t = {} THEN 0 ELSE h[t \ {Max(t)}] + w[Max(t)]]
        = [t \in SUBSET (1..n) |->
           IF t = {} THEN 0 ELSE h[t \ {Max(t)}] + Counted(s[Max(t)])]
    BY <1>2
  <2> QED
    BY <2>2, <2>3 DEF Folds
<1>4. \E h : Folds(h, w, n)
  <2>1. \A i \in 1..n : w[i] \in Nat
    BY <1>1
  <2> HIDE DEF w, n
  <2>2. HasFold(w, n)
    BY <1>1, <2>1, FoldExists
  <2> QED
    BY <2>2 DEF HasFold
<1>5. \E h : Folds(h, w, n) /\ EncodedSize(s) = h[1..n]
  <2>1. EncodedSize(s) = (CHOOSE h : F(h))[1..n]
    BY <1>1 DEF EncodedSize, FoldLeft, MapThenFoldSet
  <2> HIDE DEF F
  <2> QED
    BY <1>3, <1>4, <2>1
<1>6. \E h : Folds(h, w, n) /\ CountedSize(s) = h[1..n]
  <2>1. CountedSize(s) = (CHOOSE h : G(h))[1..n]
    BY <1>1 DEF CountedSize, FoldLeft, MapThenFoldSet
  <2> HIDE DEF G
  <2> QED
    BY <1>3, <1>4, <2>1
<1>7. w \in [1..n -> Nat]
  BY <1>1
<1> HIDE DEF w, n
<1>8. PICK h, p : Sums(p, w, n) /\ EncodedSize(s) = p[n]
  BY <1>1, <1>5, <1>7, FoldAddsUp
<1>9. PICK q : Sums(q, w, n) /\ CountedSize(s) = q[n]
  BY <1>1, <1>6, <1>7, FoldAddsUp
<1>10. p[n] = q[n]
  BY <1>1, <1>8, <1>9, SumIsUnique
<1> QED
  BY <1>8, <1>9, <1>10 DEF w, n

(* What the fold computes, recursively.                                    *)
LEMMA SizeFacts ==
  ASSUME NEW s \in Seq(Chars)
  PROVE  /\ EncodedSize(s) \in Nat /\ CountedSize(s) = EncodedSize(s)
         /\ s = <<>> => EncodedSize(s) = 0
         /\ s # <<>> =>
              /\ Head(s) \in Chars /\ Tail(s) \in Seq(Chars)
              /\ Encoded(Head(s)) \in 1..4
              /\ EncodedSize(Tail(s)) \in Nat
              /\ EncodedSize(s) = Encoded(Head(s)) + EncodedSize(Tail(s))
<1> DEFINE n == Len(s)
           w == Weights(s)
<1>1. n \in Nat /\ w \in [1..n -> 1..4]
  BY WeightsType
<1>2. PICK p : /\ Sums(p, w, n)
               /\ EncodedSize(s) = p[n] /\ CountedSize(s) = p[n]
  BY EncodedIsSum
<1>3. p[n] \in Nat /\ p[0] = 0
  BY <1>1, <1>2 DEF Sums
<1>4. ASSUME s # <<>>
      PROVE  /\ Head(s) \in Chars /\ Tail(s) \in Seq(Chars)
             /\ Encoded(Head(s)) \in 1..4
             /\ EncodedSize(Tail(s)) \in Nat
             /\ EncodedSize(s) = Encoded(Head(s)) + EncodedSize(Tail(s))
  <2> DEFINE r == Tail(s)
             v == Weights(r)
  <2>1. /\ Head(s) \in Chars /\ r \in Seq(Chars) /\ Len(r) = n - 1
        /\ \A i \in 1..(n - 1) : r[i] = s[i + 1]
    BY <1>4, HeadTailProperties
  <2>2. n \in Nat \ {0} /\ 1 \in 1..n /\ n - 1 \in Nat
    BY <1>4, EmptySeq
  <2>3. Head(s) = s[1]
    BY <1>4
  <2> HIDE DEF r
  <2>4. PICK q : Sums(q, v, n - 1) /\ EncodedSize(r) = q[n - 1]
    BY <2>1, EncodedIsSum
  <2>5. RestOf(v, w, n)
    BY <2>1, <2>2 DEF Weights, RestOf
  <2>6. w[1] = Encoded(Head(s))
    BY <2>2, <2>3 DEF Weights
  <2>7. q[n - 1] \in Nat
    BY <2>2, <2>4 DEF Sums
  <2> HIDE DEF w, v, n
  <2>8. p[n] = w[1] + q[n - 1]
    BY <1>2, <2>2, <2>4, <2>5, SumOfRest
  <2>9. Encoded(Head(s)) \in 1..4
    BY <2>1, CountedIsEncoded
  <2> QED
    BY <1>2, <2>1, <2>4, <2>6, <2>7, <2>8, <2>9 DEF r
<1>5. s = <<>> => EncodedSize(s) = 0
  BY <1>2, <1>3, EmptySeq
<1> QED
  BY <1>2, <1>3, <1>4, <1>5

----------------------------------------------------------------------------
Calls ==
  [op : {"none", "write_str", "write_int", "write_escaped"}, left : Nat]

(* The invariant is stated of a buffer s and its limit m, a call c in      *)
(* progress, w written characters, the flag b for a broken file, the state *)
(* e of write_str_escaped and its area a.                                  *)

(* The output of a broken file is a part of the text.                      *)
PartOfText(s, w) == s.kind = "file" /\ \E k \in 0..w : s.out = Text(0, k)

(* The buffer holds the text except for what fits in the rest of the area; *)
(* a broken file has got a part of it.                                     *)
BufferGood(s, m, w, n, b) ==
  /\ BufferType(s)
  /\ s.kind = "pointer" => s.room = MaxText
  /\ m \in Limit \cup {MaxText}
  /\ s.kind # "limited" => m = MaxText
  /\ w \in Nat /\ b \in BOOLEAN
  /\ ~ b => HoldsText(s, m, w, n)
  /\ b => PartOfText(s, w)

(* A call in progress has characters left, and there is room for them.     *)
CallGood(c, w) ==
  /\ c \in Calls
  /\ c.op = "none" => c = Idle
  /\ c.op # "none" => c.left > 0
  /\ w + c.left <= MaxText

(* The rest of the area lies at its end.                                   *)
AreaGood(s, a) ==
  /\ a \in [from : Nat, room : Nat]
  /\ a.room <= s.taken
  /\ a.room > 0 => a.from + a.room = s.taken

(* What is still to be written of the source.                              *)
Remains(e) == Len(e.remainder) + EncodedSize(e.source)

EscapeRecord ==
  [at : {"none", "open", "escape", "more", "close"}, source : Seq(Chars),
   remainder : Seq(Nat), size : Nat, found : Nat]

(* The remainder of an escape sequence are the next characters.  The call  *)
(* has these, the source and the quotes left to write, and escaped_size is *)
(* the number of characters without the quotes and, inside of the helper,  *)
(* without the part of its area it has used.                               *)
EscapeGood(e, a, c, w) ==
  /\ e \in EscapeRecord
  /\ Len(e.remainder) <= 3 /\ e.remainder = Text(w, Len(e.remainder))
  /\ a.room <= c.left
  /\ e.at = "none" <=> c.op # "write_escaped"
  /\ e.at = "none" => e = NoEscape
  /\ e.at \in {"none", "open", "more"} => a.room = 0
  /\ e.at = "open" => Len(e.remainder) = 0 /\ c.left = Remains(e) + 2
  /\ e.at \in {"escape", "more"} => c.left = Remains(e) + 1
  /\ e.at = "close" => Remains(e) = 0 /\ c.left = 1
  /\ e.at = "escape" =>
       a.room <= e.found /\ e.size = Remains(e) + (e.found - a.room)
  /\ e.at \in {"open", "more", "close"} => e.size = Remains(e)

Good(s, m, c, w, b, e, a) ==
  /\ BufferGood(s, m, w, s.taken - a.room, b)
  /\ CallGood(c, w) /\ (b => c = Idle)
  /\ AreaGood(s, a)
  /\ EscapeGood(e, a, c, w)

(* The inductive invariant.                                                *)
IInv == Good(sink, limit, call, written, broken, escape, area)

----------------------------------------------------------------------------
(* No call.                                                                *)
LEMMA NothingInProgress ==
  /\ Idle \in Calls /\ Idle.op = "none" /\ Idle.left = 0
  /\ NoEscape \in EscapeRecord /\ NoEscape.at = "none"
  /\ NoEscape.source = <<>> /\ NoEscape.remainder = <<>>
  /\ NoArea \in [from : Nat, room : Nat] /\ NoArea.room = 0
BY EmptySeq DEF Idle, Calls, NoEscape, EscapeRecord, NoArea

(* Between two calls nothing is escaped, ...                               *)
LEMMA NoEscapeGood ==
  ASSUME NEW c \in Calls, c.op # "write_escaped", NEW w \in Nat,
         NEW a \in [from : Nat, room : Nat], a.room = 0
  PROVE  EscapeGood(NoEscape, a, c, w)
<1>1. Len(<<>>) = 0 /\ Text(w, 0) = <<>>
  BY EmptySeq, TextIsSeq
<1>2. c.left \in Nat
  BY DEF Calls
<1> QED
  BY <1>1, <1>2, NothingInProgress DEF EscapeGood

(* ... there is no area, and all that is taken of the cache is in use.     *)
LEMMA NoEscapeMeans ==
  ASSUME IInv, call.op # "write_escaped"
  PROVE  /\ escape = NoEscape /\ escape.at = "none" /\ area.room = 0
         /\ area \in [from : Nat, room : Nat]
         /\ sink.taken - area.room = sink.taken
<1>1. /\ escape = NoEscape /\ escape.at = "none" /\ area.room = 0
      /\ area \in [from : Nat, room : Nat]
  BY DEF IInv, Good, EscapeGood, AreaGood
<1>2. sink.taken \in Nat
  BY BufferMembers DEF IInv, Good, BufferGood
<1> QED
  BY <1>1, <1>2

(* The types of the buffer and of the numbers.                             *)
LEMMA Numbers ==
  ASSUME IInv
  PROVE  /\ BufferType(sink) /\ sink.taken \in Nat /\ sink.room \in Nat
         /\ limit \in Nat /\ limit \in Limit \cup {MaxText}
         /\ written \in Nat /\ call \in Calls /\ call.left \in Nat
         /\ written + call.left <= MaxText /\ MaxText \in Nat
         /\ sink.kind = "pointer" => sink.room = MaxText
         /\ area \in [from : Nat, room : Nat]
         /\ area.from \in Nat /\ area.room \in Nat /\ broken \in BOOLEAN
<1>1. /\ BufferType(sink) /\ limit \in Limit \cup {MaxText}
      /\ sink.kind = "pointer" => sink.room = MaxText
      /\ written \in Nat /\ broken \in BOOLEAN
      /\ call \in Calls /\ written + call.left <= MaxText
      /\ area \in [from : Nat, room : Nat]
  BY DEF IInv, Good, BufferGood, CallGood, AreaGood
<1>2. limit \in Nat /\ MaxText \in Nat
  BY <1>1, LimitAssumption, TextAssumption
<1>3. sink.taken \in Nat /\ sink.room \in Nat
  BY <1>1, BufferMembers
<1>4. call.left \in Nat /\ area.from \in Nat /\ area.room \in Nat
  BY <1>1 DEF Calls
<1> QED
  BY <1>1, <1>2, <1>3, <1>4

----------------------------------------------------------------------------
(* Operations of the client: no call is in progress.                       *)

(* A state between two calls.                                              *)
LEMMA IdleGood ==
  ASSUME NEW s, NEW m, NEW w, NEW b, BufferGood(s, m, w, s.taken, b),
         w <= MaxText, NEW a \in [from : Nat, room : Nat], a.room = 0
  PROVE  Good(s, m, Idle, w, b, NoEscape, a)
<1>1. BufferType(s) /\ w \in Nat
  BY DEF BufferGood
<1>2. s.taken \in Nat /\ s.taken - a.room = s.taken
  BY <1>1, BufferMembers
<1>3. BufferGood(s, m, w, s.taken - a.room, b)
  BY <1>2
<1>4. CallGood(Idle, w)
  BY <1>1, NothingInProgress, TextAssumption DEF CallGood
<1>5. AreaGood(s, a)
  BY <1>2 DEF AreaGood
<1>6. EscapeGood(NoEscape, a, Idle, w)
  BY <1>1, NothingInProgress, NoEscapeGood
<1> QED
  BY <1>3, <1>4, <1>5, <1>6, NothingInProgress DEF Good

(* The buffers to begin with are empty.                                    *)
LEMMA EmptyBuffer ==
  ASSUME NEW b \in Buffers
  PROVE  /\ BufferGood(b[1], b[2], 0, b[1].taken, FALSE)
         /\ b[1].taken = 0 /\ b[2] \in Nat
<1>1. PICK k \in Kinds, r \in Nat, m \in Limit \cup {MaxText} :
        /\ b = <<NewSink(k, r), m>>
        /\ k \in Cached => r > 0
        /\ k = "pointer" => r = MaxText
        /\ k # "limited" => m = MaxText
  BY RoomAssumption, TextAssumption DEF Buffers, Kinds, Cached
<1>2. m \in Nat
  BY LimitAssumption, TextAssumption
<1>3. /\ BufferType(NewSink(k, r))
      /\ NewSink(k, r).kind = k /\ NewSink(k, r).room = r
      /\ NewSink(k, r).taken = 0
      /\ HoldsText(NewSink(k, r), m, 0, 0)
  BY <1>1, <1>2, NewBuffer
<1> QED
  BY <1>1, <1>2, <1>3 DEF BufferGood

(* ... and make a state between two calls.                                 *)
LEMMA EmptyGood ==
  ASSUME NEW b \in Buffers, NEW a \in [from : Nat, room : Nat], a.room = 0
  PROVE  Good(b[1], b[2], Idle, 0, FALSE, NoEscape, a)
<1>1. 0 <= MaxText
  BY TextAssumption
<1> QED
  BY <1>1, EmptyBuffer, IdleGood

(* The initial states.                                                     *)
LEMMA InitIInv == OutputInit => IInv
<1> SUFFICES ASSUME OutputInit PROVE IInv
  OBVIOUS
<1>1. PICK b \in Buffers : sink = b[1] /\ limit = b[2]
  BY DEF OutputInit, Init
<1>2. Good(b[1], b[2], Idle, 0, FALSE, NoEscape, NoArea)
  BY NothingInProgress, EmptyGood
<1> QED
  BY <1>1, <1>2 DEF OutputInit, Init, IInv

(* The next buffer.                                                        *)
LEMMA OpenIInv ==
  ASSUME IInv, Open, UNCHANGED <<escape, area>>
  PROVE  IInv'
<1>1. PICK b \in Buffers : sink' = b[1] /\ limit' = b[2]
  BY DEF Open
<1>2. call = Idle /\ call' = call /\ written' = 0 /\ broken' = FALSE
  BY DEF Open
<1>3. /\ escape = NoEscape /\ area.room = 0
      /\ area \in [from : Nat, room : Nat]
  BY <1>2, NothingInProgress, NoEscapeMeans
<1>4. Good(b[1], b[2], Idle, 0, FALSE, NoEscape, area)
  BY <1>3, EmptyGood
<1> QED
  BY <1>1, <1>2, <1>3, <1>4 DEF IInv

(* Another state of the same buffer, with the same limit, between calls.   *)
LEMMA SameBufferGood ==
  ASSUME IInv, call.op # "write_escaped", NEW s, SameBuffer(sink, s),
         NEW w \in Nat, w <= MaxText, NEW b \in BOOLEAN,
         b => PartOfText(s, w), ~ b => HoldsText(s, limit, w, s.taken)
  PROVE  Good(s, limit, Idle, w, b, escape, area)
<1>1. /\ escape = NoEscape /\ area.room = 0
      /\ area \in [from : Nat, room : Nat]
  BY NoEscapeMeans
<1>2. BufferGood(s, limit, w, s.taken, b)
  BY DEF IInv, Good, BufferGood, SameBuffer
<1> QED
  BY <1>1, <1>2, IdleGood

(* A call of the writer begins.                                            *)
LEMMA StartIInv ==
  ASSUME IInv, NEW op \in {"write_str", "write_int"}, NEW n \in Size,
         Start(op, n), UNCHANGED <<escape, area>>
  PROVE  IInv'
<1> DEFINE c == [op |-> op, left |-> n]
<1>1. /\ call = Idle /\ ~ broken /\ written + n <= MaxText /\ call' = c
      /\ sink' = sink /\ limit' = limit /\ written' = written
      /\ broken' = broken
  BY DEF Start
<1>2. /\ n \in Nat \ {0} /\ c \in Calls /\ c.op # "none"
      /\ c.op # "write_escaped" /\ c.left = n
  BY SizeAssumption DEF Calls
<1> HIDE DEF c
<1>3. CallGood(c, written)
  BY <1>1, <1>2 DEF CallGood
<1>4. /\ escape = NoEscape /\ area.room = 0
      /\ area \in [from : Nat, room : Nat]
  BY <1>1, NothingInProgress, NoEscapeMeans
<1>5. EscapeGood(escape, area, c, written)
  BY <1>2, <1>4, Numbers, NoEscapeGood
<1>6. Good(sink, limit, c, written, broken, escape, area)
  BY <1>1, <1>3, <1>5 DEF IInv, Good
<1> QED
  BY <1>1, <1>6 DEF IInv

(* flush() and out(): what there is to make room.                          *)
LEMMA FlushIInv ==
  ASSUME IInv, Flush, UNCHANGED <<escape, area>>
  PROVE  IInv'
<1>1. PICK o \in Flushes(sink, limit) : sink' = o.sink /\ broken' = ~ o.ok
  BY DEF Flush
<1>2. /\ call = Idle /\ ~ broken /\ sink.kind \notin {"span", "counting"}
      /\ limit' = limit /\ call' = call /\ written' = written
  BY DEF Flush
<1>3. /\ call.op # "write_escaped"
      /\ sink.taken - area.room = sink.taken
  BY <1>2, NothingInProgress, NoEscapeMeans
<1>4. /\ BufferType(sink) /\ limit \in Nat /\ written \in Nat
      /\ written <= MaxText
      /\ HoldsText(sink, limit, written, sink.taken)
  <2>1. HoldsText(sink, limit, written, sink.taken)
    BY <1>2, <1>3 DEF IInv, Good, BufferGood
  <2>2. Idle.left = 0
    BY NothingInProgress
  <2> QED
    BY <1>2, <2>1, <2>2, Numbers
<1>5. /\ SameBuffer(sink, o.sink) /\ o.ok \in BOOLEAN
      /\ o.ok => HoldsText(o.sink, limit, written, o.sink.taken)
      /\ ~ o.ok => PartOfText(o.sink, written)
  <2>1. CASE sink.kind = "pointer"
    <3>1. o.ok = TRUE /\ o.sink = sink
      BY <2>1 DEF Flushes, Outcome
    <3> QED
      BY <1>4, <3>1 DEF SameBuffer
  <2>2. CASE sink.kind # "pointer"
    <3>1. sink.kind \in Cached
      BY <1>2, <1>4, <2>2, BufferMembers DEF Kinds, Cached
    <3>2. o \in MakesRoom(sink, limit)
      BY <1>2 DEF MakesRoom
    <3>3. /\ SameBuffer(sink, o.sink) /\ o.ok \in BOOLEAN
          /\ o.ok => o.sink.taken = 0 /\ HoldsText(o.sink, limit, written, 0)
          /\ ~ o.ok => FileFailed(sink, o.sink, written)
      BY <1>4, <3>1, <3>2, RoomIsMade
    <3>4. ASSUME FileFailed(sink, o.sink, written)
          PROVE  PartOfText(o.sink, written)
      <4>1. PICK k \in (written - sink.taken)..(written - 1) :
              o.sink.out = Text(0, k)
        BY <3>4 DEF FileFailed
      <4>2. k \in 0..written
        BY <1>4, <4>1, Numbers DEF HoldsText
      <4> QED
        BY <3>3, <3>4, <4>1, <4>2 DEF PartOfText, FileFailed, SameBuffer
    <3> QED
      BY <3>3, <3>4
  <2> QED
    BY <2>1, <2>2
<1>6. CASE o.ok
  <2>1. Good(o.sink, limit, Idle, written, FALSE, escape, area)
    BY <1>3, <1>4, <1>5, <1>6, SameBufferGood
  <2> QED
    BY <1>1, <1>2, <1>6, <2>1 DEF IInv, Flush
<1>7. CASE ~ o.ok
  <2>1. Good(o.sink, limit, Idle, written, TRUE, escape, area)
    BY <1>3, <1>4, <1>5, <1>7, SameBufferGood
  <2> QED
    BY <1>1, <1>2, <1>7, <2>1 DEF IInv, Flush
<1> QED
  BY <1>6, <1>7

(* reset() of a span_buffer or file_buffer, even of a broken one.          *)
LEMMA ResetIInv ==
  ASSUME IInv, Reset, UNCHANGED <<escape, area>>
  PROVE  IInv'
<1> DEFINE r == Rewound(sink)
           f == Fresh(sink)
<1>1. /\ call = Idle /\ sink.kind \in {"span", "file"} /\ sink' = r
      /\ written' = 0 /\ broken' = FALSE /\ limit' = limit /\ call' = call
  BY DEF Reset, Resettable
<1>2. BufferType(sink) /\ call.op # "write_escaped"
  BY <1>1, Numbers, NothingInProgress
<1>3. SameBuffer(sink, f) /\ f.taken = 0
  BY <1>2, FreshBuffer
<1>4. r = [f EXCEPT !.out = <<>>]
  BY DEF Rewound
<1> HIDE DEF f, r
<1>5. f \in BufferRecord /\ <<>> \in Seq(Nat)
  BY <1>3, EmptySeq DEF SameBuffer, BufferType
<1>6. /\ r \in BufferRecord /\ r.kind = f.kind /\ r.room = f.room
      /\ r.len = f.len /\ r.taken = f.taken /\ r.cache = f.cache
      /\ r.out = <<>> /\ r.count = f.count
  BY <1>4, <1>5 DEF BufferRecord
<1>7. SameBuffer(sink, r)
  BY <1>3, <1>6 DEF SameBuffer, BufferType
<1>8. HoldsText(r, limit, 0, 0)
  <2>1. Text(0, 0) = <<>>
    BY EmptySeq, TextIsSeq
  <2> QED
    BY <1>1, <1>3, <1>6, <1>7, <2>1 DEF HoldsText, Shown, SameBuffer
<1>9. 0 \in Nat /\ 0 <= MaxText
  BY TextAssumption
<1>10. Good(r, limit, Idle, 0, FALSE, escape, area)
  BY <1>2, <1>3, <1>6, <1>7, <1>8, <1>9, SameBufferGood
<1> QED
  BY <1>1, <1>10 DEF IInv, Reset

(* What a span holds is all that was written.                              *)
LEMMA SpanHoldsAll ==
  ASSUME IInv, call = Idle, sink.kind = "span"
  PROVE  /\ sink.taken = written /\ ~ broken
         /\ HoldsText(sink, limit, written, sink.taken)
         /\ Pending(sink) = Text(0, written)
<1>1. call.op # "write_escaped" /\ ~ broken /\ written \in Nat
  BY NothingInProgress, Numbers DEF IInv, Good, BufferGood, PartOfText
<1>2. HoldsText(sink, limit, written, sink.taken)
  BY <1>1, NoEscapeMeans DEF IInv, Good, BufferGood
<1>3. sink.taken = written
  BY <1>2 DEF HoldsText
<1>4. /\ sink.cache \in Seq(Nat) /\ sink.taken <= Len(sink.cache)
  BY Numbers, BufferMembers
<1>5. \A i \in 1..sink.taken : sink.cache[i] = 0 + i
  BY <1>1, <1>2, <1>3 DEF HoldsText
<1> DEFINE c == sink.cache
<1>6. /\ c \in Seq(Nat) /\ written <= Len(c)
      /\ \A i \in 1..written : c[i] = 0 + i
  BY <1>3, <1>4, <1>5
<1> HIDE DEF c
<1>7. SubSeq(c, 1, written) = Text(0, written)
  BY <1>1, <1>6, TextInCache
<1> QED
  BY <1>1, <1>2, <1>3, <1>7 DEF Pending, c

(* A copied span_buffer holds the same text: the part that was in use is   *)
(* granted again.                                                          *)
LEMMA SpanIsCopied ==
  ASSUME IInv, CopySpan
  PROVE  \E r : /\ sink' = r /\ SameBuffer(sink, r) /\ r.taken = sink.taken
               /\ HoldsText(r, limit, written, r.taken)
<1> DEFINE f == Fresh(sink)
           w == written
<1>1. PICK g \in GrantsOf(f, limit, sink.taken) :
        sink' = Fill(g, Pending(sink))
  BY DEF CopySpan
<1>2. /\ call = Idle /\ sink.kind = "span" /\ limit' = limit
      /\ call' = call /\ written' = written /\ broken' = broken
  BY DEF CopySpan
<1>3. /\ sink.taken = w /\ ~ broken
      /\ HoldsText(sink, limit, w, sink.taken)
      /\ Pending(sink) = Text(0, w)
  BY <1>2, SpanHoldsAll
<1>4. /\ BufferType(sink) /\ w \in Nat /\ w <= sink.room /\ limit \in Nat
      /\ w <= MaxText /\ call.op # "write_escaped"
  BY <1>2, <1>3, Numbers, BufferMembers, NothingInProgress
<1>5. /\ SameBuffer(sink, f) /\ f.taken = 0
      /\ BufferType(f) /\ f.kind = "span" /\ f.room = sink.room
  BY <1>2, <1>4, FreshBuffer DEF SameBuffer
<1> HIDE DEF f
<1>6. HoldsText(f, limit, 0, f.taken)
  BY <1>5 DEF HoldsText, Shown
<1> HIDE DEF w
<1>7. g \in GrantsOf(f, limit, w) /\ sink' = Fill(g, Text(0, w))
  BY <1>1, <1>3
<1>8. /\ g.ok \in BOOLEAN
      /\ g.ok => AreaGranted(f, g, limit, 0, w) /\ g.size = w
      /\ ~ g.ok =>
           \/ f.kind = "span" /\ f.taken + w > f.room
           \/ w > f.room
           \/ Breaks(f, g, 0)
  <2>1. f.kind # "pointer"
    BY <1>5
  <2> QED
    BY <1>4, <1>5, <1>6, <1>7, <2>1, GrantedOf
<1>9. g.ok
  <2>1. ~ Breaks(f, g, 0)
    BY <1>5 DEF Breaks, FileFailed
  <2>2. ~ (f.taken + w > f.room) /\ ~ (w > f.room)
    BY <1>4, <1>5, BufferMembers
  <2> QED
    BY <1>8, <2>1, <2>2
<1> DEFINE r == Fill(g, Text(0, w))
<1>10. /\ g.from = 0 /\ SameBuffer(f, g.sink) /\ g.sink.taken = w
       /\ HoldsText(g.sink, limit, 0, 0)
  BY <1>4, <1>5, <1>8, <1>9 DEF AreaGranted
<1>11. /\ SameBuffer(g.sink, r) /\ r.taken = w /\ HoldsText(r, limit, w, w)
  <2>1. 0 + w <= g.sink.taken /\ BufferType(g.sink) /\ 0 + w = w
    BY <1>4, <1>10 DEF SameBuffer
  <2> DEFINE q == g.sink
  <2>2. g.sink = q
    OBVIOUS
  <2> HIDE DEF q
  <2>3. /\ SameBuffer(q, Fill(g, Text(0, w)))
        /\ Fill(g, Text(0, w)).taken = q.taken
        /\ HoldsText(Fill(g, Text(0, w)), limit, 0 + w, 0 + w)
    BY <1>4, <1>10, <2>1, <2>2, FillBuffer
  <2> QED
    BY <1>10, <2>1, <2>3 DEF q
<1> HIDE DEF r
<1>12. SameBuffer(sink, r) /\ HoldsText(r, limit, w, r.taken)
  BY <1>5, <1>10, <1>11 DEF SameBuffer
<1>13. /\ sink' = r /\ r.taken = sink.taken
       /\ HoldsText(r, limit, written, r.taken)
  BY <1>3, <1>7, <1>11, <1>12 DEF r, w
<1> QED
  BY <1>12, <1>13

(* It is in a state between two calls.                                     *)
LEMMA CopySpanIInv ==
  ASSUME IInv, CopySpan, UNCHANGED <<escape, area>>
  PROVE  IInv'
<1>1. /\ call = Idle /\ sink.kind = "span" /\ limit' = limit
      /\ call' = call /\ written' = written /\ broken' = broken
  BY DEF CopySpan
<1>2. PICK r : /\ sink' = r /\ SameBuffer(sink, r)
               /\ HoldsText(r, limit, written, r.taken)
  BY SpanIsCopied
<1>3. /\ broken = FALSE /\ written \in Nat /\ written <= MaxText
      /\ call.op # "write_escaped"
  BY <1>1, SpanHoldsAll, Numbers, NothingInProgress
<1>4. Good(r, limit, Idle, written, FALSE, escape, area)
  BY <1>2, <1>3, SameBufferGood
<1> QED
  BY <1>1, <1>2, <1>3, <1>4 DEF IInv

----------------------------------------------------------------------------
(* Areas are requested, filled or refused.                                 *)

(* The first k characters of a granted area are filled.                    *)
LEMMA FilledGood ==
  ASSUME IInv, ~ broken,
         NEW size \in Nat, NEW g,
         AreaGranted(sink, g, limit, written, size),
         NEW k \in 0..g.size
  PROVE  LET r == Fill(g, Text(written, k)) IN
         /\ SameBuffer(sink, r)
         /\ r.taken = g.from + g.size
         /\ BufferGood(r, limit, written + k, g.from + k, FALSE)
<1> DEFINE q == g.sink
           r == Fill(g, Text(written, k))
<1>1. /\ g.size \in Nat /\ g.from \in Nat /\ SameBuffer(sink, q)
      /\ q.taken = g.from + g.size /\ HoldsText(q, limit, written, g.from)
  BY DEF AreaGranted
<1>2. /\ k \in Nat /\ k <= g.size /\ limit \in Nat /\ written \in Nat
  BY <1>1, Numbers
<1>3. BufferType(q) /\ g.from + k <= q.taken /\ g.sink = q
  BY <1>1, <1>2 DEF SameBuffer
<1> HIDE DEF q
<1>4. /\ SameBuffer(q, r) /\ r.taken = q.taken
      /\ HoldsText(r, limit, written + k, g.from + k)
  BY <1>1, <1>2, <1>3, FillBuffer
<1> HIDE DEF r
<1>5. SameBuffer(sink, r)
  BY <1>1, <1>4 DEF SameBuffer
<1>6. BufferGood(r, limit, written + k, g.from + k, FALSE)
  BY <1>2, <1>4, <1>5 DEF IInv, Good, BufferGood, SameBuffer
<1> QED
  BY <1>1, <1>4, <1>5, <1>6 DEF r

(* A refusal ends the call with an error.                                  *)
LEMMA FailGood ==
  ASSUME IInv, ~ broken, area.room = 0, NEW g, Fail(g),
         SameBuffer(sink, g.sink),
         \/ /\ HoldsText(g.sink, limit, written, g.sink.taken)
            /\ Spares(g)
         \/ Breaks(sink, g, written),
         escape' = NoEscape, area' = area \/ area' = NoArea
  PROVE  IInv'
<1> DEFINE s == g.sink
           b == g.broken
<1>1. /\ sink' = s /\ call' = Idle /\ broken' = b
      /\ limit' = limit /\ written' = written
  BY DEF Fail
<1>2. /\ written \in Nat /\ written <= MaxText /\ limit \in Nat
      /\ area \in [from : Nat, room : Nat] /\ sink.taken \in Nat
  BY Numbers
<1>3. area' \in [from : Nat, room : Nat] /\ area'.room = 0
  BY <1>2, NothingInProgress
<1> HIDE DEF s, b
<1>4. BufferGood(s, limit, written, s.taken, b)
  <2>1. /\ BufferType(s) /\ s.kind = sink.kind
        /\ s.kind = "pointer" => s.room = MaxText
        /\ limit \in Limit \cup {MaxText}
        /\ s.kind # "limited" => limit = MaxText
    BY DEF IInv, Good, BufferGood, SameBuffer, s
  <2>2. CASE HoldsText(s, limit, written, s.taken) /\ b = FALSE
    BY <1>2, <2>1, <2>2 DEF BufferGood
  <2>3. CASE FileFailed(sink, s, written) /\ b = TRUE
    <3>1. PICK k \in (written - sink.taken)..(written - 1) :
            s.out = Text(0, k)
      BY <2>3 DEF FileFailed
    <3>2. k \in 0..written
      <4>1. written - sink.taken \in Nat
        <5>1. sink.taken - area.room = sink.taken
          BY <1>2
        <5>2. HoldsText(sink, limit, written, sink.taken)
          BY <5>1 DEF IInv, Good, BufferGood
        <5> QED
          BY <1>2, <5>2 DEF HoldsText
      <4> QED
        BY <1>2, <3>1, <4>1
    <3>3. sink.kind = "file"
      BY <2>3 DEF FileFailed
    <3> QED
      BY <1>2, <2>1, <2>3, <3>1, <3>2, <3>3 DEF BufferGood, PartOfText
  <2> QED
    BY <2>2, <2>3 DEF s, b, Spares, Breaks
<1>5. \A a \in [from : Nat, room : Nat] : a.room = 0 =>
         Good(s, limit, Idle, written, b, NoEscape, a)
  BY <1>2, <1>4, IdleGood
<1> QED
  BY <1>1, <1>2, <1>3, <1>5, NothingInProgress DEF IInv, s, b

(* A granted area is filled as a whole, and the call goes on.              *)
LEMMA ProceedGood ==
  ASSUME IInv, call.op \in {"write_str", "write_int"}, NEW g,
         AreaGranted(sink, g, limit, written, call.left), g.size > 0,
         Proceed(g, call.left - g.size), UNCHANGED <<escape, area>>
  PROVE  IInv'
<1> DEFINE k == g.size
           w == written + k
           l == call.left - k
           c == IF l = 0 THEN Idle ELSE [call EXCEPT !.left = l]
           r == Fill(g, Text(written, k))
<1>1. /\ sink' = r /\ written' = w /\ call' = c /\ limit' = limit
      /\ broken' = broken
  BY DEF Proceed
<1>2. /\ call.op # "write_escaped" /\ call # Idle /\ broken = FALSE
      /\ written \in Nat /\ call \in Calls /\ call.left \in Nat
      /\ written + call.left <= MaxText /\ MaxText \in Nat
  BY Numbers, NothingInProgress DEF IInv, Good
<1>3. /\ escape = NoEscape /\ area.room = 0
      /\ area \in [from : Nat, room : Nat]
  BY <1>2, NoEscapeMeans
<1>4. k \in Nat /\ k > 0 /\ k <= call.left /\ k \in 0..g.size
      /\ g.from \in Nat
  BY DEF AreaGranted
<1>5. /\ SameBuffer(sink, r) /\ r.taken = g.from + k
      /\ BufferGood(r, limit, w, g.from + k, FALSE)
  BY <1>2, <1>4, FilledGood
<1> HIDE DEF r, k
<1>6. /\ r.taken \in Nat /\ r.taken - area.room = g.from + k
      /\ w \in Nat /\ l \in Nat /\ w + l <= MaxText
  BY <1>2, <1>3, <1>4, <1>5
<1>7. /\ c \in Calls /\ c.op # "write_escaped" /\ c.left = l
      /\ c.op = "none" => c = Idle
      /\ c.op # "none" => c.left > 0
  BY <1>2, <1>6, NothingInProgress DEF Calls
<1> HIDE DEF c, w, l
<1>8. CallGood(c, w)
  BY <1>6, <1>7 DEF CallGood
<1>9. AreaGood(r, area)
  BY <1>3, <1>6 DEF AreaGood
<1>10. EscapeGood(escape, area, c, w)
  BY <1>3, <1>6, <1>7, NoEscapeGood
<1>11. BufferGood(r, limit, w, r.taken - area.room, FALSE)
  BY <1>5, <1>6
<1>12. Good(r, limit, c, w, FALSE, escape, area)
  BY <1>8, <1>9, <1>10, <1>11 DEF Good
<1> QED
  BY <1>1, <1>2, <1>12 DEF IInv

(* What a buffer in use grants or refuses to a call.                       *)
LEMMA Requested ==
  ASSUME IInv, call # Idle, area.room = 0
  PROVE  /\ broken = FALSE /\ call.left \in Nat \ {0}
         /\ HoldsText(sink, limit, written, sink.taken)
         /\ sink.kind = "pointer" => written + call.left <= sink.room
         /\ BufferType(sink) /\ limit \in Nat /\ written \in Nat
<1>1. broken = FALSE
  BY Numbers DEF IInv, Good
<1>2. sink.taken - area.room = sink.taken
  BY Numbers
<1>3. HoldsText(sink, limit, written, sink.taken)
  BY <1>1, <1>2 DEF IInv, Good, BufferGood
<1>4. call.left \in Nat \ {0}
  BY Numbers DEF IInv, Good, CallGood
<1> QED
  BY <1>1, <1>3, <1>4, Numbers

(* One area of write_str.                                                  *)
LEMMA WriteChunkIInv ==
  ASSUME IInv, WriteChunk, UNCHANGED <<escape, area>>
  PROVE  IInv'
<1>1. PICK g \in GrantsOfMax(sink, limit, call.left) :
        Proceed(g, call.left - g.size) \/ Fail(g)
  BY DEF WriteChunk
<1>2. call.op = "write_str" /\ call # Idle
  BY NothingInProgress DEF WriteChunk
<1>3. escape = NoEscape /\ area.room = 0
  BY <1>2, NoEscapeMeans
<1> DEFINE n == call.left
<1>4. /\ broken = FALSE /\ n \in Nat \ {0}
      /\ HoldsText(sink, limit, written, sink.taken)
      /\ sink.kind = "pointer" => written + n <= sink.room
      /\ BufferType(sink) /\ limit \in Nat /\ written \in Nat
  BY <1>2, <1>3, Requested
<1>5. g \in GrantsOfMax(sink, limit, n)
  OBVIOUS
<1> HIDE DEF n
<1>6. /\ g.ok => AreaGranted(sink, g, limit, written, n) /\ g.size > 0
      /\ ~ g.ok =>
           /\ SameBuffer(sink, g.sink)
           /\ \/ /\ sink.kind = "span" /\ g.sink = sink
                 /\ sink.taken = sink.room /\ Spares(g)
              \/ Breaks(sink, g, written)
  BY <1>4, <1>5, GrantedOfMax
<1>7. CASE Proceed(g, call.left - g.size)
  <2>1. g.ok
    BY <1>7 DEF Proceed
  <2> QED
    BY <1>2, <1>6, <1>7, <2>1, ProceedGood DEF n
<1>8. CASE Fail(g)
  <2>1. ~ g.ok
    BY <1>8 DEF Fail
  <2>2. \/ /\ HoldsText(g.sink, limit, written, g.sink.taken)
           /\ Spares(g)
        \/ Breaks(sink, g, written)
    BY <1>4, <1>6, <2>1
  <2> QED
    BY <1>3, <1>4, <1>6, <1>8, <2>1, <2>2, FailGood
<1> QED
  BY <1>1, <1>7, <1>8

(* write_int.                                                              *)
LEMMA WriteWholeIInv ==
  ASSUME IInv, WriteWhole, UNCHANGED <<escape, area>>
  PROVE  IInv'
<1>1. PICK g \in GrantsOf(sink, limit, call.left) : Proceed(g, 0) \/ Fail(g)
  BY DEF WriteWhole
<1>2. call.op = "write_int" /\ call # Idle
  BY NothingInProgress DEF WriteWhole
<1>3. escape = NoEscape /\ area.room = 0
  BY <1>2, NoEscapeMeans
<1> DEFINE n == call.left
<1>4. /\ broken = FALSE /\ n \in Nat \ {0}
      /\ HoldsText(sink, limit, written, sink.taken)
      /\ sink.kind = "pointer" => written + n <= sink.room
      /\ BufferType(sink) /\ limit \in Nat /\ written \in Nat
  BY <1>2, <1>3, Requested
<1>5. g \in GrantsOf(sink, limit, n)
  OBVIOUS
<1> HIDE DEF n
<1>6. /\ g.ok => AreaGranted(sink, g, limit, written, n) /\ g.size = n
      /\ ~ g.ok =>
           /\ SameBuffer(sink, g.sink)
           /\ \/ /\ HoldsText(g.sink, limit, written, g.sink.taken)
                 /\ Spares(g)
              \/ Breaks(sink, g, written)
  BY <1>4, <1>5, GrantedOf
<1>7. CASE Proceed(g, 0)
  <2>1. g.ok
    BY <1>7 DEF Proceed
  <2>2. n - g.size = 0 /\ g.size > 0
    BY <1>4, <1>6, <2>1
  <2> QED
    BY <1>2, <1>6, <1>7, <2>1, <2>2, ProceedGood DEF n
<1>8. CASE Fail(g)
  <2>1. ~ g.ok
    BY <1>8 DEF Fail
  <2> QED
    BY <1>3, <1>4, <1>6, <1>8, <2>1, FailGood
<1> QED
  BY <1>1, <1>7, <1>8

----------------------------------------------------------------------------
(* write_str_escaped and its helper.                                       *)

(* The state of the helper with another position.                          *)
LEMMA EscapeFields ==
  ASSUME NEW e \in EscapeRecord
  PROVE  /\ e.at \in {"none", "open", "escape", "more", "close"}
         /\ e.source \in Seq(Chars) /\ e.remainder \in Seq(Nat)
         /\ e.size \in Nat /\ e.found \in Nat
         /\ Len(e.remainder) \in Nat /\ EncodedSize(e.source) \in Nat
         /\ Remains(e) \in Nat
         /\ e = [at |-> e.at, source |-> e.source,
                 remainder |-> e.remainder, size |-> e.size,
                 found |-> e.found]
<1>1. /\ e.at \in {"none", "open", "escape", "more", "close"}
      /\ e.source \in Seq(Chars) /\ e.remainder \in Seq(Nat)
      /\ e.size \in Nat /\ e.found \in Nat
      /\ e = [at |-> e.at, source |-> e.source,
              remainder |-> e.remainder, size |-> e.size,
              found |-> e.found]
  BY DEF EscapeRecord
<1>2. Len(e.remainder) \in Nat /\ EncodedSize(e.source) \in Nat
  BY <1>1, LenProperties, SizeFacts
<1> QED
  BY <1>1, <1>2 DEF Remains

(* The members in use while a text is escaped.                             *)
LEMMA EscapeInUse ==
  ASSUME IInv, escape.at # "none"
  PROVE  /\ escape \in EscapeRecord /\ call.op = "write_escaped"
         /\ call # Idle /\ broken = FALSE
         /\ EscapeGood(escape, area, call, written)
<1>1. EscapeGood(escape, area, call, written)
  BY DEF IInv, Good
<1>2. escape \in EscapeRecord /\ call.op = "write_escaped" /\ call # Idle
  BY <1>1, NothingInProgress DEF EscapeGood
<1>3. broken = FALSE
  BY <1>2, Numbers DEF IInv, Good
<1> QED
  BY <1>1, <1>2, <1>3

(* The call begins.                                                        *)
LEMMA StartEscapedIInv ==
  ASSUME IInv, NEW s \in Source, StartEscaped(s)
  PROVE  IInv'
<1> DEFINE n == EncodedSize(s) + 2
           c == [op |-> "write_escaped", left |-> n]
           e == [at |-> "open", source |-> s, remainder |-> <<>>,
                 size |-> CountedSize(s), found |-> 0]
<1>1. /\ call = Idle /\ ~ broken /\ written + n <= MaxText /\ call' = c
      /\ sink' = sink /\ limit' = limit /\ written' = written
      /\ broken' = broken /\ area' = area
  BY DEF StartEscaped, Start
<1>2. escape' = e
  BY DEF StartEscaped, NoEscape
<1>3. /\ s \in Seq(Chars) /\ EncodedSize(s) \in Nat
      /\ CountedSize(s) = EncodedSize(s)
  BY SourceAssumption, SizeFacts DEF Chars
<1>4. c \in Calls /\ c.op = "write_escaped" /\ c.left = n
  BY <1>3 DEF Calls
<1>5. area.room = 0 /\ written \in Nat
  BY <1>1, NothingInProgress, NoEscapeMeans, Numbers
<1>6. /\ e \in EscapeRecord /\ e.at = "open" /\ e.source = s
      /\ e.remainder = <<>> /\ e.size = EncodedSize(s)
  BY <1>3, EmptySeq DEF EscapeRecord
<1> HIDE DEF c, e
<1>7. Len(e.remainder) = 0 /\ Text(written, 0) = <<>>
  BY <1>5, <1>6, EmptySeq, TextIsSeq
<1>8. Remains(e) = EncodedSize(s)
  BY <1>3, <1>6, <1>7 DEF Remains
<1>9. EscapeGood(e, area, c, written)
  BY <1>3, <1>4, <1>5, <1>6, <1>7, <1>8 DEF EscapeGood
<1>10. CallGood(c, written)
  BY <1>1, <1>3, <1>4 DEF CallGood
<1>11. Good(sink, limit, c, written, broken, e, area)
  BY <1>1, <1>9, <1>10 DEF IInv, Good
<1> QED
  BY <1>1, <1>2, <1>11 DEF IInv

(* The call goes on with the state `next' of the helper when k characters  *)
(* have been put into a new area.                                          *)
GoesOn(next, k) ==
  /\ next \in EscapeRecord /\ next.at \in {"escape", "close"}
  /\ k \in Nat /\ k <= 1 /\ k < call.left
  /\ \A x \in 1..call.left, f \in Nat :
       EscapeGood([next EXCEPT !.found = x - k],
                  [from |-> f + k, room |-> x - k],
                  [call EXCEPT !.left = call.left - k], written + k)

(* The helper has used its area, or has none: one for all that is left of  *)
(* the call is requested, and its first k characters are filled.           *)
Requests(next, k) ==
  /\ escape.at # "none" /\ area.room = 0 /\ GoesOn(next, k)
  /\ RequestArea(call.left, Text(written, k), next)

(* The step keeps the invariant.                                           *)
LEMMA RequestGood ==
  ASSUME IInv, NEW next, NEW k, Requests(next, k)
  PROVE  IInv'
<1> DEFINE n == call.left
           t == Text(written, k)
<1>1. /\ broken = FALSE /\ n \in Nat \ {0}
      /\ HoldsText(sink, limit, written, sink.taken)
      /\ sink.kind = "pointer" => written + n <= sink.room
      /\ BufferType(sink) /\ limit \in Nat /\ written \in Nat
      /\ call.op = "write_escaped" /\ area.room = 0
  BY EscapeInUse, Requested DEF Requests
<1>2. k \in Nat /\ k <= 1 /\ k < n /\ t \in Seq(Nat) /\ Len(t) = k
  BY <1>1, TextIsSeq DEF GoesOn, Requests
<1>3. PICK g \in GrantsOfMax(sink, limit, n) :
        \/ /\ g.ok
           /\ sink' = Fill(g, t)
           /\ area' = [from |-> g.from + k, room |-> g.size - k]
           /\ Wrote(t, [next EXCEPT !.found = g.size - k])
        \/ /\ Fail(g)
           /\ area' = NoArea
           /\ escape' = NoEscape
  BY <1>2 DEF RequestArea, Requests
<1> HIDE DEF n
<1>4. /\ g.ok => AreaGranted(sink, g, limit, written, n) /\ g.size > 0
      /\ ~ g.ok =>
           /\ SameBuffer(sink, g.sink)
           /\ \/ /\ sink.kind = "span" /\ g.sink = sink
                 /\ sink.taken = sink.room /\ Spares(g)
              \/ Breaks(sink, g, written)
  BY <1>1, GrantedOfMax
<1>5. CASE Fail(g) /\ area' = NoArea /\ escape' = NoEscape
  <2>1. ~ g.ok
    BY <1>5 DEF Fail
  <2>2. \/ /\ HoldsText(g.sink, limit, written, g.sink.taken)
           /\ Spares(g)
        \/ Breaks(sink, g, written)
    BY <1>1, <1>4, <2>1
  <2> QED
    BY <1>1, <1>4, <1>5, <2>1, <2>2, FailGood
<1>6. CASE /\ g.ok
           /\ sink' = Fill(g, t)
           /\ area' = [from |-> g.from + k, room |-> g.size - k]
           /\ Wrote(t, [next EXCEPT !.found = g.size - k])
  <2> DEFINE x == g.size
             f == g.from
             r == Fill(g, t)
             a == [from |-> f + k, room |-> x - k]
             c == [call EXCEPT !.left = call.left - k]
             e == [next EXCEPT !.found = x - k]
             w == written + k
  <2>1. /\ x \in Nat /\ x > 0 /\ x <= n /\ f \in Nat
        /\ AreaGranted(sink, g, limit, written, n)
    BY <1>4, <1>6 DEF AreaGranted
  <2>2. /\ SameBuffer(sink, r) /\ r.taken = f + x
        /\ BufferGood(r, limit, w, f + k, FALSE)
    <3>1. k \in 0..g.size /\ n \in Nat
      BY <1>1, <1>2, <2>1
    <3> QED
      BY <1>1, <2>1, <3>1, FilledGood
  <2>3. sink' = r /\ area' = a
    BY <1>6
  <2>4. written' = w /\ escape' = e /\ limit' = limit /\ broken' = broken
    BY <1>2, <1>6 DEF Wrote
  <2>5. call' = c
    <3>1. e.at # "none" /\ NoEscape.at = "none"
      BY NothingInProgress DEF GoesOn, EscapeRecord, Requests
    <3>2. e # NoEscape
      BY <3>1
    <3> HIDE DEF e
    <3> QED
      BY <1>2, <1>6, <3>2 DEF Wrote, e
  <2>6. EscapeGood(e, a, c, w)
    <3>1. x \in 1..call.left
      BY <2>1 DEF n
    <3> HIDE DEF x, f
    <3> QED
      BY <2>1, <3>1 DEF GoesOn, Requests
  <2> HIDE DEF r
  <2>7. AreaGood(r, a) /\ r.taken - a.room = f + k
    <3> HIDE DEF x, f
    <3>1. a.from = f + k /\ a.room = x - k /\ x - k \in Nat /\ f + k \in Nat
      BY <1>2, <2>1
    <3> HIDE DEF a
    <3>2. a \in [from : Nat, room : Nat]
      BY <3>1 DEF a
    <3> QED
      BY <1>2, <2>1, <2>2, <3>1, <3>2 DEF AreaGood
  <2>8. CallGood(c, w)
    <3>1. call \in Calls /\ written + call.left <= MaxText /\ MaxText \in Nat
      BY Numbers
    <3>2. c \in Calls /\ c.op = "write_escaped" /\ c.left = call.left - k
      BY <1>1, <1>2, <3>1 DEF Calls, n
    <3> HIDE DEF c
    <3> QED
      BY <1>1, <1>2, <3>1, <3>2 DEF CallGood, n
  <2> HIDE DEF a, c, e, w
  <2>9. Good(r, limit, c, w, FALSE, e, a)
    BY <2>2, <2>6, <2>7, <2>8 DEF Good
  <2> QED
    BY <1>1, <2>3, <2>4, <2>5, <2>9 DEF IInv
<1> QED
  BY <1>3, <1>5, <1>6

(* A state inside of the helper.                                           *)
LEMMA HelperGood ==
  ASSUME NEW q \in Seq(Chars), NEW r \in Seq(Nat), Len(r) <= 3,
         NEW w \in Nat, r = Text(w, Len(r)), NEW f \in Nat,
         NEW a \in [from : Nat, room : Nat], a.room <= f,
         NEW c \in Calls, c.op = "write_escaped",
         c.left = Len(r) + EncodedSize(q) + 1, a.room <= c.left,
         NEW z, z = Len(r) + EncodedSize(q) + (f - a.room)
  PROVE  EscapeGood([at |-> "escape", source |-> q, remainder |-> r,
                     size |-> z, found |-> f], a, c, w)
<1> DEFINE e == [at |-> "escape", source |-> q, remainder |-> r,
                 size |-> z, found |-> f]
<1>1. /\ Len(r) \in Nat /\ EncodedSize(q) \in Nat /\ a.room \in Nat
  BY LenProperties, SizeFacts
<1>2. z \in Nat
  BY <1>1
<1>3. /\ e \in EscapeRecord /\ e.at = "escape" /\ e.source = q
      /\ e.remainder = r /\ e.size = z /\ e.found = f
  BY <1>2 DEF EscapeRecord
<1> HIDE DEF e
<1>4. Remains(e) = Len(r) + EncodedSize(q)
  BY <1>3 DEF Remains
<1>5. EscapeGood(e, a, c, w)
  BY <1>3, <1>4 DEF EscapeGood
<1> QED
  BY <1>5 DEF e

(* A remainder of no characters.                                           *)
LEMMA NoRemainder ==
  ASSUME NEW r \in Seq(Nat), Len(r) = 0 \/ r = <<>>, NEW w \in Nat
  PROVE  r = <<>> /\ Len(r) = 0 /\ r = Text(w, Len(r))
<1>1. r = <<>> /\ Len(r) = 0
  BY EmptySeq
<1> QED
  BY <1>1, TextIsSeq, EmptySeq

(* The call that has written k characters more.                            *)
LEMMA CallProceeds ==
  ASSUME NEW c \in Calls, NEW k \in Nat, k <= c.left
  PROVE  LET d == [c EXCEPT !.left = c.left - k] IN
         d \in Calls /\ d.op = c.op /\ d.left = c.left - k
BY DEF Calls

(* The state of the helper in an area in which it finds y characters.      *)
LEMMA NextFields ==
  ASSUME NEW e \in EscapeRecord, NEW y \in Nat
  PROVE  [[e EXCEPT !.at = "escape"] EXCEPT !.found = y]
           = [at |-> "escape", source |-> e.source,
              remainder |-> e.remainder, size |-> e.size, found |-> y]
<1> DEFINE d == [e EXCEPT !.at = "escape"]
<1>1. d = [at |-> "escape", source |-> e.source, remainder |-> e.remainder,
           size |-> e.size, found |-> e.found]
  BY DEF EscapeRecord
<1>2. d \in EscapeRecord
  BY <1>1 DEF EscapeRecord
<1> HIDE DEF d
<1>3. [d EXCEPT !.found = y]
        = [at |-> "escape", source |-> e.source,
           remainder |-> e.remainder, size |-> e.size, found |-> y]
  BY <1>1, <1>2 DEF EscapeRecord
<1> QED
  BY <1>3 DEF d

(* The state `next' does in any area.                                      *)
InAnyArea(next) ==
  \A x \in 1..call.left, f \in Nat :
    EscapeGood([next EXCEPT !.found = x], [from |-> f, room |-> x],
               call, written)

(* Nothing is put into the area yet.                                       *)
LEMMA GoesOnLater ==
  ASSUME call \in Calls, call.left > 0, written \in Nat,
         NEW next \in EscapeRecord, next.at \in {"escape", "close"},
         InAnyArea(next)
  PROVE  GoesOn(next, 0)
<1>1. call.left \in Nat
  BY DEF Calls
<1>2. ASSUME NEW x \in 1..call.left, NEW f \in Nat
      PROVE  EscapeGood([next EXCEPT !.found = x - 0],
                        [from |-> f + 0, room |-> x - 0],
                        [call EXCEPT !.left = call.left - 0], written + 0)
  <2> DEFINE y == x - 0
             g == f + 0
             d == call.left - 0
             w == written + 0
  <2>1. y = x /\ g = f /\ d = call.left /\ w = written
    BY <1>1
  <2> HIDE DEF y, g, d, w
  <2>2. [call EXCEPT !.left = d] = call
    BY <2>1 DEF Calls
  <2>3. EscapeGood([next EXCEPT !.found = x], [from |-> f, room |-> x],
                   call, written)
    BY DEF InAnyArea
  <2>4. EscapeGood([next EXCEPT !.found = y], [from |-> g, room |-> y],
                   [call EXCEPT !.left = d], w)
    BY <2>1, <2>2, <2>3
  <2> QED
    BY <2>4 DEF y, g, d, w
<1> QED
  BY <1>1, <1>2 DEF GoesOn

(* The opening quote is put into the first area.                           *)
LEMMA OpenQuoteRequests ==
  ASSUME IInv, OpenQuote
  PROVE  Requests([escape EXCEPT !.at = "escape"], 1)
<1> DEFINE next == [escape EXCEPT !.at = "escape"]
           q == escape.source
           r == escape.remainder
           z == escape.size
           l == call.left
<1>1. /\ escape.at = "open" /\ escape \in EscapeRecord
      /\ call.op = "write_escaped" /\ call \in Calls
      /\ EscapeGood(escape, area, call, written) /\ written \in Nat
      /\ area.room = 0
  BY EscapeInUse, Numbers DEF OpenQuote, EscapeGood
<1>2. /\ q \in Seq(Chars) /\ r \in Seq(Nat) /\ EncodedSize(q) \in Nat
      /\ Remains(escape) = Len(r) + EncodedSize(q) /\ z \in Nat
      /\ next \in EscapeRecord /\ next.at = "escape"
  BY <1>1, EscapeFields DEF EscapeRecord, Remains
<1>3. Len(r) = 0 /\ l = EncodedSize(q) + 2 /\ z = EncodedSize(q)
  BY <1>1, <1>2 DEF EscapeGood
<1>4. r = Text(written + 1, Len(r))
  BY <1>1, <1>2, <1>3, NoRemainder
<1>5. RequestArea(l, Text(written, 1), next)
  <2>1. Done - 1 = written /\ z + 2 = l
    BY <1>1, <1>2, <1>3 DEF Done
  <2> QED
    BY <2>1 DEF OpenQuote
<1>6. ASSUME NEW x \in 1..l, NEW f \in Nat
      PROVE  EscapeGood([next EXCEPT !.found = x - 1],
                        [from |-> f + 1, room |-> x - 1],
                        [call EXCEPT !.left = l - 1], written + 1)
  <2> DEFINE a == [from |-> f + 1, room |-> x - 1]
             c == [call EXCEPT !.left = l - 1]
             y == x - 1
             w == written + 1
  <2>1. y \in Nat /\ y <= l - 1 /\ w \in Nat /\ 1 <= l /\ l - 1 = z + 1
    BY <1>1, <1>2, <1>3
  <2>2. [next EXCEPT !.found = y]
          = [at |-> "escape", source |-> q, remainder |-> r, size |-> z,
             found |-> y]
    BY <1>1, <2>1, NextFields
  <2>3. a \in [from : Nat, room : Nat] /\ a.room = y
    BY <2>1
  <2>4. c \in Calls /\ c.op = "write_escaped" /\ c.left = l - 1
    BY <1>1, <2>1, CallProceeds
  <2>5. z = Len(r) + EncodedSize(q) + (y - a.room)
    BY <1>2, <1>3, <2>1, <2>3
  <2>6. c.left = Len(r) + EncodedSize(q) + 1 /\ Len(r) <= 3 /\ a.room <= c.left
    BY <1>2, <1>3, <2>1, <2>3, <2>4
  <2>7. r = Text(w, Len(r)) /\ a.room <= y
    BY <1>4, <2>1, <2>3
  <2> HIDE DEF a, c, y, w, q, r, z
  <2>8. EscapeGood([at |-> "escape", source |-> q, remainder |-> r,
                    size |-> z, found |-> y], a, c, w)
    BY <1>2, <2>1, <2>3, <2>4, <2>5, <2>6, <2>7, HelperGood
  <2> QED
    BY <2>2, <2>8 DEF a, c, y, w
<1>7. GoesOn(next, 1)
  <2>1. 1 \in Nat /\ 1 <= 1 /\ 1 < call.left
    BY <1>2, <1>3
  <2> QED
    BY <1>2, <1>6, <2>1 DEF GoesOn
<1> QED
  BY <1>1, <1>5, <1>7 DEF Requests

(* The next area is requested.                                             *)
LEMMA RequestMoreRequests ==
  ASSUME IInv, RequestMore
  PROVE  Requests([escape EXCEPT !.at = "escape"], 0)
<1> DEFINE next == [escape EXCEPT !.at = "escape"]
           q == escape.source
           r == escape.remainder
           z == escape.size
           l == call.left
<1>1. /\ escape.at = "more" /\ escape \in EscapeRecord
      /\ call.op = "write_escaped" /\ call \in Calls
      /\ EscapeGood(escape, area, call, written) /\ written \in Nat
      /\ area.room = 0
  BY EscapeInUse, Numbers DEF RequestMore, EscapeGood
<1>2. /\ q \in Seq(Chars) /\ r \in Seq(Nat) /\ EncodedSize(q) \in Nat
      /\ Remains(escape) = Len(r) + EncodedSize(q) /\ z \in Nat
      /\ next \in EscapeRecord /\ next.at = "escape"
  BY <1>1, EscapeFields DEF EscapeRecord, Remains
<1>3. /\ Len(r) \in Nat /\ Len(r) <= 3 /\ r = Text(written, Len(r))
      /\ l = z + 1 /\ z = Len(r) + EncodedSize(q)
  BY <1>1, <1>2, LenProperties DEF EscapeGood
<1>4. RequestArea(l, Text(written, 0), next)
  <2>1. Text(written, 0) = <<>>
    BY <1>1, EmptySeq, TextIsSeq
  <2> QED
    BY <1>3, <2>1 DEF RequestMore
<1>5. ASSUME NEW x \in 1..l, NEW f \in Nat
      PROVE  EscapeGood([next EXCEPT !.found = x],
                        [from |-> f, room |-> x], call, written)
  <2> DEFINE a == [from |-> f, room |-> x]
  <2>1. x \in Nat /\ x <= l
    BY <1>2, <1>3
  <2>2. [next EXCEPT !.found = x]
          = [at |-> "escape", source |-> q, remainder |-> r, size |-> z,
             found |-> x]
    BY <1>1, <2>1, NextFields
  <2>3. a \in [from : Nat, room : Nat] /\ a.room = x
    BY <2>1
  <2>4. z = Len(r) + EncodedSize(q) + (x - a.room)
    BY <1>2, <1>3, <2>1, <2>3
  <2>5. l = Len(r) + EncodedSize(q) + 1 /\ a.room <= l /\ a.room <= x
    BY <1>2, <1>3, <2>1, <2>3
  <2> HIDE DEF a, q, r, z
  <2>6. EscapeGood([at |-> "escape", source |-> q, remainder |-> r,
                    size |-> z, found |-> x], a, call, written)
    BY <1>1, <1>2, <1>3, <2>1, <2>3, <2>4, <2>5, HelperGood
  <2> QED
    BY <2>2, <2>6 DEF a
<1>6. GoesOn(next, 0)
  <2>1. call.left > 0
    BY <1>2, <1>3
  <2> HIDE DEF next
  <2>2. InAnyArea(next)
    BY <1>5 DEF InAnyArea
  <2> QED
    BY <1>1, <1>2, <2>1, <2>2, GoesOnLater
<1> QED
  BY <1>1, <1>4, <1>6 DEF Requests

(* A last area is requested for the closing quote.                         *)
LEMMA RequestToCloseRequests ==
  ASSUME IInv, RequestToClose
  PROVE  Requests(escape, 0)
<1>1. /\ escape.at = "close" /\ escape \in EscapeRecord
      /\ call.op = "write_escaped" /\ call \in Calls
      /\ EscapeGood(escape, area, call, written) /\ written \in Nat
      /\ call.left = 1 /\ Remains(escape) = 0
  BY EscapeInUse, Numbers DEF RequestToClose, EscapeGood
<1>2. area.room = 0
  BY Numbers DEF RequestToClose, QuoteFits
<1>3. Text(written, 0) = <<>>
  BY <1>1, EmptySeq, TextIsSeq
<1>4. RequestArea(call.left, Text(written, 0), escape)
  BY <1>1, <1>3 DEF RequestToClose
<1>5. ASSUME NEW x \in 1..call.left, NEW f \in Nat
      PROVE  EscapeGood([escape EXCEPT !.found = x],
                        [from |-> f, room |-> x], call, written)
  <2> DEFINE e == [escape EXCEPT !.found = x]
             a == [from |-> f, room |-> x]
  <2>1. x = 1 /\ x \in Nat
    BY <1>1
  <2>2. a.room = 1
    BY <2>1
  <2>3. /\ e \in EscapeRecord /\ e.at = "close" /\ e.size = escape.size
        /\ e.source = escape.source /\ e.remainder = escape.remainder
    BY <1>1, <2>1 DEF EscapeRecord
  <2> HIDE DEF e, a
  <2>4. Remains(e) = Remains(escape)
    BY <2>3 DEF Remains
  <2>5. EscapeGood(e, a, call, written)
    BY <1>1, <2>2, <2>3, <2>4 DEF EscapeGood
  <2> QED
    BY <2>5 DEF e, a
<1>6. GoesOn(escape, 0)
  <2>1. InAnyArea(escape)
    BY <1>5 DEF InAnyArea
  <2> QED
    BY <1>1, <2>1, GoesOnLater
<1> QED
  BY <1>1, <1>2, <1>4, <1>6 DEF Requests

----------------------------------------------------------------------------
(* The beginning and the rest of a part of the text.                       *)
LEMMA TextSplits ==
  ASSUME NEW w \in Nat, NEW n \in Nat, NEW k \in Nat, k <= n
  PROVE  /\ SubSeq(Text(w, n), 1, k) = Text(w, k)
         /\ Rest(Text(w, n), k) = Text(w + k, n - k)
<1> DEFINE t == Text(w, n)
<1>1. t \in Seq(Nat) /\ Len(t) = n /\ \A i \in 1..n : t[i] = w + i
  BY TextIsSeq DEF Text
<1> HIDE DEF t
<1>2. SubSeq(t, 1, k) = Text(w, k)
  <2>1. k <= Len(t) /\ \A i \in 1..k : t[i] = w + i
    BY <1>1
  <2> QED
    BY <1>1, <2>1, TextInCache
<1> DEFINE r == SubSeq(t, k + 1, n)
           l == n - k
           v == w + k
           u == Text(v, l)
<1>3. l \in Nat /\ v \in Nat
  OBVIOUS
<1>4. /\ r \in Seq(Nat) /\ Len(r) = l
      /\ \A i \in 1..l : r[i] = v + i
  <2>1. \A i \in (k + 1)..n : t[i] \in Nat
    BY <1>1
  <2>2. /\ r \in Seq(Nat)
        /\ Len(r) = IF k + 1 <= n THEN n - (k + 1) + 1 ELSE 0
        /\ \A i \in 1..(n - (k + 1) + 1) : r[i] = t[(k + 1) + i - 1]
    <3>1. k + 1 \in Int /\ n \in Int
      OBVIOUS
    <3> QED
      BY <2>1, <3>1, SubSeqProperties
  <2>3. Len(r) = l /\ n - (k + 1) + 1 = l
    BY <2>2
  <2>4. ASSUME NEW i \in 1..l PROVE r[i] = v + i
    <3>1. (k + 1) + i - 1 = k + i /\ k + i \in 1..n /\ w + (k + i) = v + i
      OBVIOUS
    <3>2. r[i] = t[(k + 1) + i - 1]
      BY <2>2, <2>3
    <3>3. r[i] = t[k + i]
      BY <3>1, <3>2
    <3>4. t[k + i] = w + (k + i)
      BY <1>1, <3>1
    <3> QED
      BY <3>1, <3>3, <3>4
  <2> QED
    BY <2>2, <2>3, <2>4
<1>5. u \in Seq(Nat) /\ Len(u) = l /\ \A i \in 1..l : u[i] = v + i
  <2> HIDE DEF v, l
  <2> QED
    BY <1>3, TextIsSeq DEF Text
<1> HIDE DEF r, u
<1>6. r = u
  <2> HIDE DEF v, l
  <2>1. Len(r) = Len(u) /\ \A i \in 1..Len(r) : r[i] = u[i]
    BY <1>4, <1>5
  <2> QED
    BY <1>4, <1>5, <2>1, SeqEqual
<1> QED
  BY <1>1, <1>2, <1>6 DEF Rest, r, u, t

(* The state of the helper when the source and the remainder change.       *)
LEMMA PutFields ==
  ASSUME NEW e \in EscapeRecord, NEW q \in Seq(Chars), NEW r \in Seq(Nat)
  PROVE  [e EXCEPT !.source = q, !.remainder = r]
           = [at |-> e.at, source |-> q, remainder |-> r,
              size |-> e.size, found |-> e.found]
<1> DEFINE d == [e EXCEPT !.source = q, !.remainder = r]
<1>1. /\ d \in EscapeRecord /\ d.at = e.at /\ d.source = q
      /\ d.remainder = r /\ d.size = e.size /\ d.found = e.found
  BY DEF EscapeRecord
<1> HIDE DEF d
<1>2. d = [at |-> e.at, source |-> q, remainder |-> r,
           size |-> e.size, found |-> e.found]
  BY <1>1, EscapeFields
<1> QED
  BY <1>2 DEF d

(* The next characters are put where the last n ones end.                  *)
LEMMA FillRest ==
  ASSUME NEW s, BufferType(s), NEW m \in Nat, NEW w \in Nat, NEW n \in Nat,
         HoldsText(s, m, w, n), NEW k \in Nat, n + k <= s.taken
  PROVE  LET r == Fill([sink |-> s, from |-> n], Text(w, k)) IN
         /\ SameBuffer(s, r) /\ r.taken = s.taken
         /\ HoldsText(r, m, w + k, n + k)
<1> DEFINE g == [sink |-> s, from |-> n]
<1>1. g.sink = s /\ g.from = n
  OBVIOUS
<1> HIDE DEF g
<1>2. LET r == Fill(g, Text(w, k)) IN
         /\ SameBuffer(s, r) /\ r.taken = s.taken
         /\ HoldsText(r, m, w + k, n + k)
  BY <1>1, FillBuffer
<1> QED
  BY <1>2 DEF g

(* The next k characters are put into the area: the source q and the       *)
(* remainder r are left.                                                   *)
Puts(k, q, r) ==
  /\ escape.at = "escape" /\ HasSpace /\ k \in 1..area.room
  /\ Len(r) <= 3 /\ r = Text(written + k, Len(r))
  /\ k + Len(r) + EncodedSize(q) = Remains(escape)
  /\ Put(Text(written, k), q, r)

(* The step keeps the invariant.                                           *)
LEMMA PutGood ==
  ASSUME IInv, NEW k \in Nat, NEW q \in Seq(Chars), NEW r \in Seq(Nat),
         Puts(k, q, r)
  PROVE  IInv'
<1> DEFINE w == written + k
           g == [sink |-> sink, from |-> area.from]
           s == Fill(g, Text(written, k))
           h == area.from + k
           j == area.room - k
           a == [from |-> h, room |-> j]
           c == [call EXCEPT !.left = call.left - k]
           l == call.left
           m == Remains(escape)
           f == escape.found
           z == escape.size
           e == [escape EXCEPT !.source = q, !.remainder = r]
           x == area.room
           y == area.from
<1> USE DEF Puts
<1>1. /\ escape \in EscapeRecord /\ call.op = "write_escaped"
      /\ broken = FALSE /\ EscapeGood(escape, area, call, written)
  BY EscapeInUse
<1>2. /\ BufferType(sink) /\ sink.taken \in Nat /\ limit \in Nat
      /\ written \in Nat /\ call \in Calls /\ call.left \in Nat
      /\ written + call.left <= MaxText /\ MaxText \in Nat
      /\ x \in Nat /\ y \in Nat
  BY Numbers
<1>3. /\ x > 0 /\ x <= sink.taken /\ y + x = sink.taken
      /\ sink.taken - x = y
  <2>1. x > 0 /\ x <= sink.taken /\ y + x = sink.taken
    BY DEF IInv, Good, AreaGood, HasSpace
  <2> HIDE DEF x, y
  <2> QED
    BY <1>2, <2>1
<1>4. /\ call.left = Remains(escape) + 1 /\ x <= f
      /\ z = Remains(escape) + (f - x) /\ x <= call.left
  BY <1>1 DEF EscapeGood
<1>5. /\ Remains(escape) \in Nat /\ f \in Nat /\ z \in Nat
      /\ Len(r) \in Nat /\ EncodedSize(q) \in Nat
  BY <1>1, EscapeFields, LenProperties, SizeFacts
<1>6. k \in Nat /\ k > 0 /\ k <= x /\ k <= call.left
  BY <1>2, <1>4
<1>7. Text(written, k) \in Seq(Nat) /\ Len(Text(written, k)) = k
  BY <1>2, <1>6, TextIsSeq
<1>8. HoldsText(sink, limit, written, y)
  BY <1>1, <1>3 DEF IInv, Good, BufferGood
<1>9. e = [at |-> "escape", source |-> q, remainder |-> r, size |-> z,
           found |-> f]
  BY <1>1, PutFields
<1>10. /\ sink' = s /\ area' = a /\ written' = w /\ escape' = e
       /\ limit' = limit /\ broken' = broken
  BY <1>7 DEF Put, Wrote
<1>11. call' = c
  <2>1. e # NoEscape
    BY <1>9, NothingInProgress
  <2> HIDE DEF e
  <2> QED
    BY <1>7, <2>1 DEF Put, Wrote, e
<1>12. /\ SameBuffer(sink, s) /\ s.taken = sink.taken
       /\ HoldsText(s, limit, w, y + k)
  <2>1. y + k <= sink.taken
    BY <1>2, <1>3, <1>6
  <2> HIDE DEF x, y
  <2>2. s = Fill([sink |-> sink, from |-> y], Text(written, k))
    BY DEF y
  <2> HIDE DEF s
  <2> QED
    BY <1>2, <1>6, <1>8, <2>1, <2>2, FillRest
<1> HIDE DEF x, y, s, f, z
<1>13. /\ a \in [from : Nat, room : Nat] /\ a.from = h /\ a.room = j
       /\ h = y + k /\ j = x - k /\ h \in Nat /\ j \in Nat
  <2>1. h = y + k /\ j = x - k
    BY DEF x, y
  <2> HIDE DEF h, j
  <2>2. h \in Nat /\ j \in Nat
    BY <1>2, <1>6, <2>1
  <2> QED
    BY <2>1, <2>2
<1>14. c \in Calls /\ c.op = "write_escaped" /\ c.left = call.left - k
  BY <1>1, <1>2, <1>6, CallProceeds
<1> HIDE DEF a, c, h, j
<1>15. s.taken - a.room = y + k /\ w \in Nat
  BY <1>2, <1>3, <1>6, <1>12, <1>13
<1>16. BufferGood(s, limit, w, s.taken - a.room, FALSE)
  <2>1. HoldsText(s, limit, w, s.taken - a.room)
    BY <1>12, <1>15
  <2> QED
    BY <1>12, <1>15, <2>1 DEF IInv, Good, BufferGood, SameBuffer
<1>17. AreaGood(s, a)
  BY <1>2, <1>3, <1>6, <1>12, <1>13 DEF AreaGood
<1>18. CallGood(c, w)
  <2>1. c.left > 0 /\ w + c.left <= MaxText
    <3>1. /\ l \in Nat /\ m \in Nat /\ l = m + 1 /\ c.left = l - k
          /\ k + Len(r) + EncodedSize(q) = m /\ written + l <= MaxText
      BY <1>2, <1>4, <1>5, <1>14
    <3> HIDE DEF l, m
    <3> QED
      BY <1>2, <1>5, <1>6, <3>1
  <2> QED
    BY <1>14, <2>1 DEF CallGood
<1>19. EscapeGood(e, a, c, w)
  <2>1. /\ a.room <= f
        /\ c.left = Len(r) + EncodedSize(q) + 1
        /\ a.room <= c.left
        /\ z = Len(r) + EncodedSize(q) + (f - a.room)
    <3>1. /\ m \in Nat /\ l = m + 1 /\ c.left = l - k
          /\ k + Len(r) + EncodedSize(q) = m /\ x <= f /\ x <= l
          /\ z = m + (f - x) /\ f \in Nat
      BY <1>4, <1>5, <1>14
    <3> DEFINE n == Len(r)
               p == EncodedSize(q)
    <3>2. k + n + p = m /\ n \in Nat /\ p \in Nat
      BY <1>5, <3>1
    <3> HIDE DEF l, m, n, p
    <3>3. /\ a.room <= f /\ c.left = n + p + 1 /\ a.room <= c.left
          /\ z = n + p + (f - a.room)
      BY <1>2, <1>6, <1>13, <3>1, <3>2
    <3> QED
      BY <3>3 DEF n, p
  <2> HIDE DEF w, e
  <2>2. r = Text(w, Len(r))
    BY DEF w
  <2>3. EscapeGood([at |-> "escape", source |-> q, remainder |-> r,
                    size |-> z, found |-> f], a, c, w)
    BY <1>5, <1>13, <1>14, <1>15, <2>1, <2>2, HelperGood
  <2> QED
    BY <1>9, <2>3
<1>20. Good(s, limit, c, w, FALSE, e, a)
  BY <1>16, <1>17, <1>18, <1>19 DEF Good
<1> HIDE DEF e, w
<1> QED
  BY <1>1, <1>10, <1>11, <1>20 DEF IInv

(* The remainder of an escape sequence, as far as it fits.                 *)
LEMMA WriteRemainderPuts ==
  ASSUME IInv, WriteRemainder
  PROVE  \E k \in Nat, q \in Seq(Chars), r \in Seq(Nat) : Puts(k, q, r)
<1> DEFINE r == escape.remainder
           q == escape.source
           n == IF Len(r) <= area.room THEN Len(r) ELSE area.room
           d == Rest(r, n)
<1>1. escape.at = "escape" /\ r # <<>> /\ HasSpace
  BY DEF WriteRemainder
<1>2. /\ escape \in EscapeRecord
      /\ EscapeGood(escape, area, call, written)
      /\ written \in Nat /\ area.room \in Nat /\ area.room > 0
  BY <1>1, EscapeInUse, Numbers DEF HasSpace
<1>3. /\ r \in Seq(Nat) /\ Len(r) <= 3 /\ r = Text(written, Len(r))
      /\ Remains(escape) = Len(r) + EncodedSize(q)
      /\ q \in Seq(Chars) /\ EncodedSize(q) \in Nat
  BY <1>2, EscapeFields DEF EscapeGood, Remains
<1>4. Len(r) \in Nat /\ Len(r) > 0
  BY <1>1, <1>3, EmptySeq, LenProperties
<1>5. n \in 1..area.room /\ n \in Nat /\ n <= Len(r)
  BY <1>2, <1>4
<1>6. Put(SubSeq(r, 1, n), q, d)
  BY DEF WriteRemainder
<1> HIDE DEF n
<1> DEFINE l == Len(r)
           w == written + n
<1> HIDE DEF l
<1>7. /\ SubSeq(Text(written, l), 1, n) = Text(written, n)
      /\ Rest(Text(written, l), n) = Text(written + n, l - n)
  BY <1>2, <1>4, <1>5, TextSplits DEF l
<1> DEFINE m == l - n
<1>8. m \in Nat /\ m <= 3 /\ n + m = l /\ w \in Nat
  BY <1>2, <1>3, <1>4, <1>5 DEF l
<1> HIDE DEF m, w
<1>9. r = Text(written, l) /\ d = Text(w, m)
  BY <1>3, <1>7 DEF l, m, w
<1> HIDE DEF d, r
<1>10. d \in Seq(Nat) /\ Len(d) = m /\ d = Text(w, Len(d))
  BY <1>8, <1>9, TextIsSeq
<1>11. Put(Text(written, n), q, d)
  BY <1>6, <1>7, <1>9
<1>12. n + Len(d) + EncodedSize(q) = Remains(escape)
  BY <1>3, <1>5, <1>8, <1>10 DEF l
<1> QED
  BY <1>1, <1>3, <1>5, <1>8, <1>10, <1>11, <1>12 DEF w, Puts

(* What is known at a character of the source.                             *)
LEMMA AtCharacter ==
  ASSUME IInv, AtSource
  PROVE  LET c == Head(escape.source)
             q == Tail(escape.source) IN
         /\ escape.at = "escape" /\ HasSpace
         /\ area.room \in Nat /\ area.room > 0 /\ Done = written
         /\ written \in Nat
         /\ c \in Chars /\ q \in Seq(Chars) /\ Encoded(c) \in 1..4
         /\ EncodedSize(q) \in Nat
         /\ Remains(escape) = Encoded(c) + EncodedSize(q)
<1> DEFINE p == escape.source
           r == escape.remainder
<1>1. escape.at = "escape" /\ r = <<>> /\ p # <<>> /\ HasSpace
  BY DEF AtSource
<1>2. /\ escape \in EscapeRecord
      /\ EscapeGood(escape, area, call, written)
      /\ written \in Nat /\ area.room \in Nat /\ area.room > 0
  BY <1>1, EscapeInUse, Numbers DEF HasSpace
<1>3. /\ p \in Seq(Chars) /\ EncodedSize(p) \in Nat /\ Len(r) = 0
      /\ Remains(escape) = Len(r) + EncodedSize(p)
      /\ call.left = Remains(escape) + 1
  BY <1>1, <1>2, EscapeFields, EmptySeq DEF EscapeGood, Remains
<1>4. Done = written
  BY <1>2, <1>3 DEF Done
<1> HIDE DEF p
<1>5. /\ Head(p) \in Chars /\ Tail(p) \in Seq(Chars)
      /\ Encoded(Head(p)) \in 1..4 /\ EncodedSize(Tail(p)) \in Nat
      /\ EncodedSize(p) = Encoded(Head(p)) + EncodedSize(Tail(p))
  BY <1>1, <1>3, SizeFacts
<1> QED
  BY <1>1, <1>2, <1>3, <1>4, <1>5 DEF p

(* A character that fits.                                                  *)
LEMMA EncodeWholePuts ==
  ASSUME IInv, EncodeWhole
  PROVE  \E k \in Nat, q \in Seq(Chars), r \in Seq(Nat) : Puts(k, q, r)
<1> DEFINE c == Head(escape.source)
           q == Tail(escape.source)
           k == Encoded(c)
           r == <<>>
<1>1. /\ escape.at = "escape" /\ HasSpace
      /\ area.room \in Nat /\ area.room > 0 /\ Done = written
      /\ written \in Nat
      /\ c \in Chars /\ q \in Seq(Chars) /\ k \in 1..4
      /\ EncodedSize(q) \in Nat
      /\ Remains(escape) = k + EncodedSize(q)
  BY AtCharacter DEF EncodeWhole
<1>2. c = "plain" \/ Fits
  BY DEF EncodeWhole
<1>3. Put(Text(written, k), q, r)
  BY <1>1 DEF EncodeWhole
<1>4. k \in 1..area.room
  <2>1. c = "plain" => k = 1
    BY DEF Encoded
  <2> HIDE DEF k, c
  <2> QED
    BY <1>1, <1>2, <2>1 DEF Fits
<1> HIDE DEF c, q, k
<1>5. r \in Seq(Nat) /\ Len(r) = 0 /\ written + k \in Nat /\ k \in Nat
  BY <1>1, EmptySeq
<1> HIDE DEF r
<1>6. r = Text(written + k, Len(r))
  BY <1>5, NoRemainder
<1>7. k + Len(r) + EncodedSize(q) = Remains(escape) /\ Len(r) <= 3
  BY <1>1, <1>5
<1> QED
  BY <1>1, <1>3, <1>4, <1>5, <1>6, <1>7 DEF Puts

(* An escape sequence that does not: its rest is remembered.               *)
LEMMA EncodeCutPuts ==
  ASSUME IInv, EncodeCut
  PROVE  \E k \in Nat, q \in Seq(Chars), r \in Seq(Nat) : Puts(k, q, r)
<1> DEFINE c == Head(escape.source)
           q == Tail(escape.source)
           l == Encoded(c) - 1
           w == written + 1
           r == Text(w, l)
<1>1. /\ escape.at = "escape" /\ HasSpace
      /\ area.room \in Nat /\ area.room > 0 /\ Done = written
      /\ written \in Nat
      /\ c \in Chars /\ q \in Seq(Chars) /\ Encoded(c) \in 1..4
      /\ EncodedSize(q) \in Nat
      /\ Remains(escape) = Encoded(c) + EncodedSize(q)
  BY AtCharacter DEF EncodeCut
<1>2. Put(Text(written, 1), q, r)
  BY <1>1 DEF EncodeCut, Cut
<1>3. 1 \in 1..area.room
  BY <1>1
<1> HIDE DEF c, q
<1>4. l \in Nat /\ l <= 3 /\ w \in Nat /\ 1 + l = Encoded(c)
  BY <1>1
<1> HIDE DEF l, w
<1>5. r \in Seq(Nat) /\ Len(r) = l /\ r = Text(w, Len(r))
  BY <1>4, TextIsSeq
<1> HIDE DEF r
<1>6. 1 + Len(r) + EncodedSize(q) = Remains(escape) /\ Len(r) <= 3
  BY <1>1, <1>4, <1>5
<1> QED
  BY <1>1, <1>2, <1>3, <1>5, <1>6 DEF w, Puts

----------------------------------------------------------------------------
(* The closing quote is put into the last character of the area.           *)
LEMMA QuoteIsPut ==
  ASSUME IInv, CloseInArea
  PROVE  /\ SameBuffer(sink, sink') /\ sink'.taken = sink.taken
         /\ HoldsText(sink', limit, written + 1, sink.taken)
         /\ call.left = 1 /\ area.room = 1 /\ broken = FALSE
<1> DEFINE y == area.from
           v == written + 1
           o == sink.cache
           t == Text(written, 1)
           d == [o EXCEPT ![y + 1] = v]
           s == Fill([sink |-> sink, from |-> y], t)
<1>1. /\ escape.at = "close" /\ escape \in EscapeRecord /\ broken = FALSE
      /\ EscapeGood(escape, area, call, written) /\ area.room > 0
  BY EscapeInUse DEF CloseInArea, QuoteFits
<1>2. /\ BufferType(sink) /\ sink.taken \in Nat /\ limit \in Nat
      /\ written \in Nat /\ area.room \in Nat /\ y \in Nat
  BY Numbers
<1>3. call.left = 1 /\ area.room = 1
  BY <1>1, <1>2 DEF EscapeGood
<1>4. y + 1 = sink.taken /\ sink.taken - area.room = y
  BY <1>1, <1>2, <1>3 DEF IInv, Good, AreaGood
<1>5. HoldsText(sink, limit, written, y)
  BY <1>1, <1>4 DEF IInv, Good, BufferGood
<1>6. /\ DOMAIN o = 1..sink.room /\ o \in Seq(Nat) /\ sink \in BufferRecord
  BY <1>2, BufferMembers DEF BufferType
<1>7. Len(t) = 1 /\ t[1] = v /\ t \in Seq(Nat)
  BY <1>2, TextIsSeq DEF Text
<1>8. sink' = [sink EXCEPT !.cache = d]
  BY <1>3, <1>6 DEF CloseInArea, BufferRecord
<1> HIDE DEF o, v, t, y
<1>9. d = [i \in DOMAIN o |->
             IF i \in (y + 1)..(y + Len(t)) THEN t[i - y] ELSE o[i]]
  <2> DEFINE c == [i \in 1..sink.room |->
             IF i \in (y + 1)..(y + Len(t)) THEN t[i - y] ELSE o[i]]
  <2>1. DOMAIN d = 1..sink.room
    BY <1>6
  <2>2. ASSUME NEW i \in 1..sink.room PROVE d[i] = c[i]
    <3>1. sink.room \in Nat
      BY <1>2, BufferMembers
    <3>2. CASE i = y + 1
      <4>1. i \in (y + 1)..(y + Len(t)) /\ i - y = 1
        BY <1>2, <1>7, <3>1, <3>2
      <4>2. d[i] = v
        BY <1>6, <3>2
      <4> QED
        BY <1>7, <4>1, <4>2
    <3>3. CASE i # y + 1
      <4>1. ~ (i \in (y + 1)..(y + Len(t)))
        BY <1>2, <1>7, <3>1, <3>3
      <4>2. d[i] = o[i]
        BY <1>6, <3>3
      <4> QED
        BY <4>1, <4>2
    <3> QED
      BY <3>2, <3>3
  <2>3. d = [i \in 1..sink.room |-> d[i]]
    BY <1>6
  <2> QED
    BY <1>6, <2>2, <2>3
<1>10. sink' = s
  <2> DEFINE g == [sink |-> sink, from |-> y]
  <2>1. g.sink = sink /\ g.from = y
    OBVIOUS
  <2> HIDE DEF g, d
  <2>2. Fill(g, t) = [sink EXCEPT !.cache = d]
    BY <1>6, <1>9, <2>1 DEF Fill, o, BufferRecord
  <2> QED
    BY <1>8, <2>2 DEF g
<1>11. /\ SameBuffer(sink, s) /\ s.taken = sink.taken
       /\ HoldsText(s, limit, v, y + 1)
  <2>1. y + 1 <= sink.taken /\ 1 \in Nat
    BY <1>2, <1>4
  <2> HIDE DEF s
  <2> QED
    BY <1>2, <1>5, <2>1, FillRest DEF s, v, t
<1> HIDE DEF s
<1> QED
  BY <1>1, <1>3, <1>4, <1>10, <1>11 DEF v

(* It ends the call.                                                       *)
LEMMA CloseInAreaIInv ==
  ASSUME IInv, CloseInArea
  PROVE  IInv'
<1> DEFINE w == written + 1
<1>1. /\ area' = NoArea /\ escape' = NoEscape /\ call' = Idle
      /\ limit' = limit /\ broken' = broken /\ written' = w
  <2>1. Len(<<"quote">>) = 1
    OBVIOUS
  <2> QED
    BY <2>1 DEF CloseInArea, Wrote
<1>2. PICK s : s = sink'
  OBVIOUS
<1>3. /\ SameBuffer(sink, s) /\ s.taken = sink.taken
      /\ HoldsText(s, limit, w, s.taken)
      /\ call.left = 1 /\ broken = FALSE
  BY <1>2, QuoteIsPut
<1>4. w \in Nat /\ w <= MaxText
  BY <1>3, Numbers
<1> HIDE DEF w
<1>5. BufferGood(s, limit, w, s.taken, FALSE)
  BY <1>3, <1>4 DEF IInv, Good, BufferGood, SameBuffer
<1>6. Good(s, limit, Idle, w, FALSE, NoEscape, NoArea)
  BY <1>4, <1>5, NothingInProgress, IdleGood
<1> QED
  BY <1>1, <1>2, <1>3, <1>6 DEF IInv

(* The helper returns what escaped_size decides about.                     *)
LEMMA ReturnIInv ==
  ASSUME IInv, Return
  PROVE  IInv'
<1> DEFINE x == area.room
           m == Remains(escape)
           z == escape.size - Written
           p == IF Complete THEN "close" ELSE "more"
           e == [escape EXCEPT !.size = z, !.at = p]
<1>1. /\ escape.at = "escape" /\ escape \in EscapeRecord /\ broken = FALSE
      /\ EscapeGood(escape, area, call, written)
  BY EscapeInUse DEF Return
<1>2. /\ x \in Nat /\ m \in Nat /\ escape.found \in Nat
      /\ escape.size \in Nat
      /\ call.left = m + 1 /\ x <= escape.found /\ x <= call.left
      /\ escape.size = m + (escape.found - x)
  BY <1>1, Numbers, EscapeFields DEF EscapeGood
<1>3. z = m /\ (Complete <=> m = 0)
  BY <1>2 DEF Written, Complete
<1>4. ~ Complete => x = 0
  <2>1. CASE ~ HasSpace
    BY <1>2, <2>1 DEF HasSpace
  <2>2. CASE escape.source = <<>> /\ escape.remainder = <<>>
    <3>1. EncodedSize(<<>>) = 0 /\ Len(<<>>) = 0
      BY SizeFacts, EmptySeq
    <3>2. m = 0
      BY <2>2, <3>1 DEF Remains
    <3> QED
      BY <1>3, <3>2
  <2> QED
    BY <2>1, <2>2 DEF Return
<1>5. /\ p \in {"close", "more"} /\ (p = "close" => m = 0)
      /\ (p = "more" => x = 0)
  BY <1>3, <1>4
<1>6. escape' = e
  BY DEF Return
<1> HIDE DEF p, z
<1>7. /\ e \in EscapeRecord /\ e.at = p /\ e.size = z
      /\ e.source = escape.source /\ e.remainder = escape.remainder
  BY <1>1, <1>2, <1>3, <1>5 DEF EscapeRecord
<1> HIDE DEF e
<1>8. Remains(e) = m
  BY <1>7 DEF Remains
<1>9. EscapeGood(e, area, call, written)
  <2>1. CASE p = "close"
    <3>1. m = 0 /\ call.left = 1
      BY <1>2, <1>5, <2>1
    <3> QED
      BY <1>1, <1>2, <1>3, <1>7, <1>8, <2>1, <3>1 DEF EscapeGood
  <2>2. CASE p = "more"
    BY <1>1, <1>2, <1>3, <1>5, <1>7, <1>8, <2>2 DEF EscapeGood
  <2> QED
    BY <1>5, <2>1, <2>2
<1>10. Good(sink, limit, call, written, broken, e, area)
  BY <1>9 DEF IInv, Good
<1> QED
  BY <1>6, <1>10 DEF IInv, Return

----------------------------------------------------------------------------
(* Every step keeps the invariant, ...                                     *)
LEMMA NextIInv ==
  ASSUME IInv, [Next]_vars
  PROVE  IInv'
<1>1. CASE DirectNext /\ UNCHANGED <<escape, area>>
  <2>1. CASE Open
    BY <1>1, <2>1, OpenIInv
  <2>2. ASSUME NEW op \in {"write_str", "write_int"}, NEW n \in Size,
               Start(op, n)
        PROVE  IInv'
    BY <1>1, <2>2, StartIInv
  <2>3. CASE WriteChunk
    BY <1>1, <2>3, WriteChunkIInv
  <2>4. CASE WriteWhole
    BY <1>1, <2>4, WriteWholeIInv
  <2>5. CASE Flush
    BY <1>1, <2>5, FlushIInv
  <2>6. CASE Reset
    BY <1>1, <2>6, ResetIInv
  <2>7. CASE CopySpan
    BY <1>1, <2>7, CopySpanIInv
  <2> QED
    BY <1>1, <2>1, <2>2, <2>3, <2>4, <2>5, <2>6, <2>7
       DEF DirectNext, DirectStep
<1>2. ASSUME NEW s \in Source, StartEscaped(s)
      PROVE  IInv'
  BY <1>2, StartEscapedIInv
<1>3. CASE OpenQuote
  BY <1>3, OpenQuoteRequests, RequestGood
<1>4. CASE RequestMore
  BY <1>4, RequestMoreRequests, RequestGood
<1>5. CASE RequestToClose
  BY <1>5, RequestToCloseRequests, RequestGood
<1>6. CASE CloseInArea
  BY <1>6, CloseInAreaIInv
<1>7. CASE WriteRemainder
  BY <1>7, WriteRemainderPuts, PutGood
<1>8. CASE EncodeWhole
  BY <1>8, EncodeWholePuts, PutGood
<1>9. CASE EncodeCut
  BY <1>9, EncodeCutPuts, PutGood
<1>10. CASE Return
  BY <1>10, ReturnIInv
<1>11. CASE UNCHANGED vars
  BY <1>11 DEF vars, IInv
<1> QED
  BY <1>1, <1>2, <1>3, <1>4, <1>5, <1>6, <1>7, <1>8, <1>9, <1>10, <1>11
     DEF Next, EscapedNext, EscapedStep

(* ... which holds in every state the program can be in.                   *)
THEOREM Invariance == Spec => []IInv
<1>1. OutputInit => IInv
  BY InitIInv
<1>2. IInv /\ [Next]_vars => IInv'
  BY NextIInv
<1> QED
  BY <1>1, <1>2, PTL DEF Spec

(* The variables have their types, and the area lies in the cache.         *)
THEOREM TypeCorrect == Spec => []TypeOK
<1>1. ASSUME IInv PROVE TypeOK
  <2>1. sink \in BufferRecord /\ sink.taken <= sink.len
        /\ sink.len <= sink.room /\ Len(sink.cache) = sink.room
    BY <1>1, Numbers, BufferMembers DEF BufferType
  <2>2. /\ limit \in Nat /\ call \in Calls /\ broken \in BOOLEAN
        /\ written \in 0..MaxText
    BY <1>1, Numbers
  <2>3. EscapeGood(escape, area, call, written) /\ AreaGood(sink, area)
    BY <1>1 DEF IInv, Good
  <2>4. /\ escape.at \in {"none", "open", "escape", "more", "close"}
        /\ escape.at # "none" <=> call.op = "write_escaped"
        /\ escape.size \in Nat /\ escape.found \in Nat
        /\ Len(escape.remainder) <= 3
    BY <2>3, EscapeFields DEF EscapeGood
  <2>5. area.room > 0 => area.from + area.room = sink.taken
    BY <2>3 DEF AreaGood
  <2> QED
    BY <2>1, <2>2, <2>4, <2>5 DEF TypeOK, Calls, BufferRecord
<1> QED
  BY <1>1, Invariance, PTL

(* What is counted of a text to be escaped is what is still to be written. *)
THEOREM SizeIsRemaining == Spec => []SizeMatches
<1>1. ASSUME IInv PROVE SizeMatches
  BY <1>1 DEF IInv, Good, EscapeGood, Remains, SizeMatches
<1> QED
  BY <1>1, Invariance, PTL

(* What a reader of the buffer sees, and what is still in its cache, is    *)
(* the text.                                                               *)
LEMMA SeenText ==
  ASSUME IInv, ~ broken
  PROVE  LET n == sink.taken - area.room IN
         /\ n \in Nat /\ n <= written /\ Seen.taken = n
         /\ HoldsText(sink, limit, written, n)
         /\ Delivered(Seen) = Text(0, Shown(sink.kind, limit, written, n))
         /\ Pending(Seen) = Text(written - n, n)
<1> DEFINE n == sink.taken - area.room
           r == [sink EXCEPT !.taken = n]
<1>1. BufferType(sink) /\ limit \in Nat /\ written \in Nat
  BY Numbers
<1>2. HoldsText(sink, limit, written, n)
  BY DEF IInv, Good, BufferGood
<1>3. n \in Nat /\ n <= written
  BY <1>2 DEF HoldsText
<1>4. Seen = r
  BY DEF Seen
<1> HIDE DEF n
<1>5. r.taken = n
  BY <1>1 DEF BufferType, BufferRecord
<1>6. /\ Delivered(r) = Text(0, Shown(sink.kind, limit, written, n))
      /\ Pending(r) = Text(written - n, n)
  BY <1>1, <1>2, ReaderOfBuffer
<1> HIDE DEF r
<1> QED
  BY <1>2, <1>3, <1>4, <1>5, <1>6 DEF n

(* In every state of the invariant the text is complete.                   *)
LEMMA NothingIsLost == ASSUME IInv PROVE NothingLost
<1> SUFFICES ASSUME ~ broken
             PROVE  LET flushed == written - Seen.taken IN
                    CASE sink.kind = "counting" -> sink.count = flushed
                      [] sink.kind = "limited"  ->
                           /\ sink.count = flushed
                           /\ Delivered(Seen) = Upto(Within(flushed))
                           /\ Pending(Seen) = Text(flushed, Seen.taken)
                      [] OTHER -> Content(Seen) = Upto(written)
  BY DEF NothingLost
<1> DEFINE n == sink.taken - area.room
           f == written - n
           k == Shown(sink.kind, limit, written, n)
<1>1. /\ n \in Nat /\ n <= written /\ Seen.taken = n
      /\ HoldsText(sink, limit, written, n)
      /\ Delivered(Seen) = Text(0, k) /\ Pending(Seen) = Text(f, n)
  BY SeenText
<1>2. /\ sink.kind \in Kinds /\ limit \in Nat /\ written \in Nat
      /\ Seen.kind = sink.kind
  <2>1. BufferType(sink)
    BY Numbers
  <2> QED
    BY <2>1, Numbers, BufferMembers
       DEF Seen, BufferType, BufferRecord
<1> HIDE DEF n
<1>3. f \in Nat /\ f + n = written
  BY <1>1, <1>2
<1>4. sink.kind \in {"counting", "limited"} => sink.count = f
  BY <1>1 DEF HoldsText
<1>5. sink.kind = "limited" => k = Within(f)
  BY <1>2, <1>3 DEF Shown, Min2, Within
<1>6. CASE sink.kind \in {"counting", "limited"}
  <2> HIDE DEF f, k
  <2> QED
    BY <1>1, <1>4, <1>5, <1>6 DEF Upto, f
<1>7. CASE sink.kind \in {"span", "pointer"}
  <2>1. n = written /\ f = 0
    BY <1>1, <1>2, <1>7 DEF HoldsText
  <2> HIDE DEF f, k
  <2>2. Content(Seen) = Text(0, written)
    BY <1>1, <1>2, <1>7, <2>1 DEF Content
  <2> QED
    BY <1>7, <2>2 DEF Upto
<1>8. CASE sink.kind \in {"iterator", "file"}
  <2>1. k = f
    BY <1>8 DEF Shown
  <2> HIDE DEF f, k
  <2>2. Content(Seen) = Text(0, f) \o Text(f, n)
    BY <1>1, <1>2, <1>8, <2>1 DEF Content
  <2>3. Text(0, f) \o Text(f, n) = Text(0, written)
    BY <1>1, <1>3, TextGrows
  <2> QED
    BY <1>8, <2>2, <2>3 DEF Upto
<1> QED
  BY <1>2, <1>6, <1>7, <1>8 DEF Kinds

(* The text arrives as it was written.                                     *)
THEOREM TextArrives == Spec => []NothingLost
BY NothingIsLost, Invariance, PTL

----------------------------------------------------------------------------
(* How a buffer r with v characters, j of them pending, follows a buffer s *)
(* with w and n of them: nothing is taken back.  If a file has not taken   *)
(* its cache (b), it has got a part of it and not all.                     *)
Follows(s, w, n, r, v, j, b) ==
  /\ r.kind = s.kind /\ w <= v
  /\ ~ b => w - n <= v - j
  /\ b => s.kind = "file" /\ \E k \in (w - n)..(w - 1) : r.out = Text(0, k)

(* A call c that becomes d when w characters become v ends with an error,  *)
(* and the reasons it may have in a buffer s with n pending characters.    *)
EndsEarly(c, d, w, v) == c # Idle /\ d = Idle /\ v < w + c.left
HasReason(s, c, n, b) ==
  \/ b
  \/ /\ s.kind = "span"
     /\ IF c.op = "write_int" THEN s.taken + c.left > s.room
                              ELSE n = s.room
  \/ c.op = "write_int" /\ c.left > s.room

(* Where the pending characters end.                                       *)
End == sink.taken - area.room

(* What every step does that stays with the buffer and its text.           *)
Continues ==
  /\ limit' = limit
  /\ Follows(sink, written, End, sink', written', End', broken')
  /\ EndsEarly(call, call', written, written') =>
       HasReason(sink, call, End, broken')

(* An area is refused: this is the error that the call ends with.          *)
LEMMA RefusalContinues ==
  ASSUME IInv, ~ broken, area.room = 0, NEW g, Fail(g),
         SameBuffer(sink, g.sink),
         \/ /\ HoldsText(g.sink, limit, written, g.sink.taken)
            /\ g.sink.taken <= sink.taken /\ Spares(g)
         \/ Breaks(sink, g, written),
         area' = area \/ area' = NoArea,
         HasReason(sink, call, sink.taken, g.broken)
  PROVE  Continues
<1> DEFINE s == g.sink
           j == s.taken
           b == g.broken
<1>1. /\ sink' = s /\ limit' = limit /\ written' = written /\ broken' = b
  BY DEF Fail
<1>2. /\ written \in Nat /\ sink.taken \in Nat /\ s.taken \in Nat
      /\ End = sink.taken /\ s.kind = sink.kind
      /\ area \in [from : Nat, room : Nat]
  BY Numbers, BufferMembers DEF SameBuffer, End
<1>3. area'.room = 0
  <2>1. NoArea.room = 0
    BY NothingInProgress
  <2>2. CASE area' = area
    BY <2>2, Zenon
  <2>3. CASE area' = NoArea
    BY <2>1, <2>3, Zenon
  <2> QED
    BY <2>2, <2>3, Zenon
<1>4. End' = j
  <2>1. End' = sink'.taken - area'.room
    BY DEF End
  <2> HIDE DEF s
  <2>2. sink'.taken = j
    BY <1>1
  <2> HIDE DEF j
  <2>3. j - 0 = j
    BY <1>2 DEF j, s
  <2> QED
    BY <1>3, <2>1, <2>2, <2>3
<1> HIDE DEF b
<1>5. Follows(sink, written, sink.taken, s, written, j, b)
  <2>1. CASE /\ HoldsText(s, limit, written, s.taken)
             /\ s.taken <= sink.taken /\ b = FALSE
    <3>1. written - sink.taken <= written - j
      <4>1. j <= written /\ sink.taken <= written
        <5>1. sink.taken - area.room = sink.taken
          BY <1>2
        <5>2. HoldsText(sink, limit, written, sink.taken)
          BY <5>1 DEF IInv, Good, BufferGood
        <5> QED
          BY <2>1, <5>2 DEF HoldsText
      <4> HIDE DEF s
      <4> QED
        BY <1>2, <2>1, <4>1
    <3> QED
      BY <1>2, <2>1, <3>1 DEF Follows
  <2>2. CASE FileFailed(sink, s, written) /\ b = TRUE
    BY <1>2, <2>2 DEF Follows, FileFailed
  <2> QED
    BY <2>1, <2>2 DEF b, Spares, Breaks
<1>6. HasReason(sink, call, sink.taken, b)
  BY DEF b
<1> HIDE DEF s, j
<1> QED
  BY <1>1, <1>2, <1>4, <1>5, <1>6 DEF Continues

(* Characters are written to an area: k of them, behind the n pending ones *)
(* that are left when it was granted.                                      *)
LEMMA WritingContinues ==
  ASSUME IInv, ~ broken, broken' = broken, limit' = limit,
         NEW r, sink' = r, SameBuffer(sink, r),
         NEW k \in Nat, NEW v, v = written + k, written' = v,
         NEW n \in Nat, n <= sink.taken - area.room,
         NEW j, End' = j, j = n + k,
         ~ EndsEarly(call, call', written, v)
  PROVE  Continues
<1>1. /\ written \in Nat /\ End = sink.taken - area.room /\ broken = FALSE
      /\ sink.taken \in Nat /\ area.room \in Nat
  BY Numbers DEF End
<1>2. r.kind = sink.kind
  BY DEF SameBuffer
<1>3. written <= v /\ written - End <= v - j
  BY <1>1
<1>4. Follows(sink, written, End, r, v, j, FALSE)
  BY <1>2, <1>3 DEF Follows
<1> QED
  BY <1>1, <1>4 DEF Continues

(* write_str and write_int fill the area they get, ...                     *)
LEMMA ProceedContinues ==
  ASSUME IInv, call.op \in {"write_str", "write_int"}, NEW g,
         AreaGranted(sink, g, limit, written, call.left),
         NEW l, Proceed(g, l), l = call.left - g.size,
         UNCHANGED <<escape, area>>
  PROVE  Continues
<1> DEFINE k == g.size
           v == written + k
           r == Fill(g, Text(written, k))
<1>1. /\ sink' = r /\ written' = v /\ limit' = limit /\ broken' = broken
      /\ call' = (IF l = 0 THEN Idle ELSE [call EXCEPT !.left = l])
  BY DEF Proceed
<1>2. /\ call.op # "write_escaped" /\ call # Idle /\ broken = FALSE
      /\ written \in Nat /\ call \in Calls /\ call.left \in Nat
      /\ sink.taken \in Nat
  BY Numbers, NothingInProgress DEF IInv, Good
<1>3. area.room = 0 /\ area \in [from : Nat, room : Nat]
  BY <1>2, NoEscapeMeans
<1>4. k \in Nat /\ k <= call.left /\ k \in 0..g.size
      /\ g.from \in Nat /\ g.from <= sink.taken
  BY <1>2 DEF AreaGranted
<1>5. SameBuffer(sink, r) /\ r.taken = g.from + k
  BY <1>2, <1>4, FilledGood
<1> HIDE DEF r
<1>6. End' = g.from + k
  <2> DEFINE j == g.from + k
  <2>1. r.taken - 0 = j
    BY <1>4, <1>5
  <2> HIDE DEF j
  <2>2. End' = sink'.taken - area'.room
    BY DEF End
  <2> QED
    BY <1>1, <1>3, <2>1, <2>2 DEF j
<1>7. ~ EndsEarly(call, call', written, v)
  <2>1. CASE l = 0
    <3>1. v = written + call.left /\ ~ (v < v)
      BY <1>2, <1>4, <2>1
    <3> HIDE DEF v
    <3> QED
      BY <3>1 DEF EndsEarly
  <2>2. CASE l # 0
    <3> DEFINE d == [call EXCEPT !.left = l]
    <3>1. d.op = call.op /\ Idle.op = "none"
      BY <1>2, NothingInProgress DEF Calls
    <3>2. call' = d
      BY <1>1, <2>2
    <3> HIDE DEF d
    <3> QED
      BY <3>1, <3>2 DEF EndsEarly
  <2> QED
    BY <2>1, <2>2
<1> DEFINE n == g.from
           j == n + k
<1>8. n \in Nat /\ n <= sink.taken - area.room
  BY <1>2, <1>3, <1>4
<1> HIDE DEF n, v, k
<1>9. v = written + k /\ k \in Nat /\ j = n + k /\ End' = j
  BY <1>4, <1>6 DEF v, k, n
<1> HIDE DEF j
<1> QED
  BY <1>1, <1>2, <1>5, <1>7, <1>8, <1>9, WritingContinues

(* ... write_str one after the other, ...                                  *)
LEMMA WriteChunkContinues ==
  ASSUME IInv, WriteChunk, UNCHANGED <<escape, area>>
  PROVE  Continues
<1>1. PICK g \in GrantsOfMax(sink, limit, call.left) :
        Proceed(g, call.left - g.size) \/ Fail(g)
  BY DEF WriteChunk
<1>2. call.op = "write_str" /\ call # Idle
  BY NothingInProgress DEF WriteChunk
<1>3. escape = NoEscape /\ area.room = 0
  BY <1>2, NoEscapeMeans
<1> DEFINE n == call.left
<1>4. /\ broken = FALSE /\ n \in Nat \ {0}
      /\ HoldsText(sink, limit, written, sink.taken)
      /\ sink.kind = "pointer" => written + n <= sink.room
      /\ BufferType(sink) /\ limit \in Nat /\ written \in Nat
  BY <1>2, <1>3, Requested
<1>5. g \in GrantsOfMax(sink, limit, n)
  OBVIOUS
<1> HIDE DEF n
<1>6. /\ g.ok => AreaGranted(sink, g, limit, written, n)
      /\ ~ g.ok =>
           /\ SameBuffer(sink, g.sink)
           /\ \/ /\ sink.kind = "span" /\ g.sink = sink
                 /\ sink.taken = sink.room /\ Spares(g)
              \/ Breaks(sink, g, written)
  BY <1>4, <1>5, GrantedOfMax
<1>7. CASE Proceed(g, call.left - g.size)
  <2>1. g.ok
    BY <1>7 DEF Proceed
  <2> QED
    BY <1>2, <1>6, <1>7, <2>1, ProceedContinues DEF n
<1>8. CASE Fail(g)
  <2>1. ~ g.ok
    BY <1>8 DEF Fail
  <2>2. \/ /\ HoldsText(g.sink, limit, written, g.sink.taken)
           /\ g.sink.taken <= sink.taken /\ Spares(g)
        \/ Breaks(sink, g, written)
    BY <1>4, <1>6, <2>1, BufferMembers
  <2>3. HasReason(sink, call, sink.taken, g.broken)
    BY <1>2, <1>6, <2>1 DEF HasReason, Breaks
  <2> QED
    BY <1>3, <1>4, <1>6, <1>8, <2>1, <2>2, <2>3, RefusalContinues
<1> QED
  BY <1>1, <1>7, <1>8

(* ... write_int one for all its characters.                               *)
LEMMA WriteWholeContinues ==
  ASSUME IInv, WriteWhole, UNCHANGED <<escape, area>>
  PROVE  Continues
<1>1. PICK g \in GrantsOf(sink, limit, call.left) : Proceed(g, 0) \/ Fail(g)
  BY DEF WriteWhole
<1>2. call.op = "write_int" /\ call # Idle
  BY NothingInProgress DEF WriteWhole
<1>3. escape = NoEscape /\ area.room = 0
  BY <1>2, NoEscapeMeans
<1> DEFINE n == call.left
<1>4. /\ broken = FALSE /\ n \in Nat \ {0}
      /\ HoldsText(sink, limit, written, sink.taken)
      /\ sink.kind = "pointer" => written + n <= sink.room
      /\ BufferType(sink) /\ limit \in Nat /\ written \in Nat
  BY <1>2, <1>3, Requested
<1>5. g \in GrantsOf(sink, limit, n)
  OBVIOUS
<1> HIDE DEF n
<1>6. /\ g.ok => AreaGranted(sink, g, limit, written, n) /\ g.size = n
      /\ ~ g.ok =>
           /\ SameBuffer(sink, g.sink)
           /\ \/ /\ HoldsText(g.sink, limit, written, g.sink.taken)
                 /\ g.sink.taken <= sink.taken
                 /\ \/ sink.kind = "span" /\ sink.taken + n > sink.room
                    \/ n > sink.room
                 /\ Spares(g)
              \/ Breaks(sink, g, written)
  BY <1>4, <1>5, GrantedOf
<1>7. CASE Proceed(g, 0)
  <2>1. g.ok
    BY <1>7 DEF Proceed
  <2>2. 0 = n - g.size
    BY <1>4, <1>6, <2>1
  <2> QED
    BY <1>2, <1>6, <1>7, <2>1, <2>2, ProceedContinues DEF n
<1>8. CASE Fail(g)
  <2>1. ~ g.ok
    BY <1>8 DEF Fail
  <2>2. HasReason(sink, call, sink.taken, g.broken)
    BY <1>2, <1>6, <2>1 DEF HasReason, Breaks, n
  <2> QED
    BY <1>3, <1>4, <1>6, <1>8, <2>1, <2>2, RefusalContinues
<1> QED
  BY <1>1, <1>7, <1>8

----------------------------------------------------------------------------
(* A call in which something is left is not over.                          *)
LEMMA NotOver ==
  ASSUME NEW c \in Calls, c.op # "none", NEW l, NEW w, NEW v
  PROVE  ~ EndsEarly(c, [c EXCEPT !.left = l], w, v)
<1>1. [c EXCEPT !.left = l].op # "none"
  BY DEF Calls
<1> QED
  BY <1>1, NothingInProgress DEF EndsEarly

(* A requested area begins behind what is pending.                         *)
LEMMA RequestContinues ==
  ASSUME IInv, NEW next, NEW k, Requests(next, k)
  PROVE  Continues
<1> DEFINE n == call.left
           t == Text(written, k)
<1>1. /\ broken = FALSE /\ n \in Nat \ {0}
      /\ HoldsText(sink, limit, written, sink.taken)
      /\ sink.kind = "pointer" => written + n <= sink.room
      /\ BufferType(sink) /\ limit \in Nat /\ written \in Nat
      /\ call.op = "write_escaped" /\ area.room = 0 /\ call \in Calls
  BY EscapeInUse, Requested, Numbers DEF Requests
<1>2. k \in Nat /\ k <= 1 /\ k < n /\ t \in Seq(Nat) /\ Len(t) = k
  BY <1>1, TextIsSeq DEF GoesOn, Requests
<1>3. PICK g \in GrantsOfMax(sink, limit, n) :
        \/ /\ g.ok
           /\ sink' = Fill(g, t)
           /\ area' = [from |-> g.from + k, room |-> g.size - k]
           /\ Wrote(t, [next EXCEPT !.found = g.size - k])
        \/ /\ Fail(g)
           /\ area' = NoArea
           /\ escape' = NoEscape
  BY <1>2 DEF RequestArea, Requests
<1> HIDE DEF n
<1>4. /\ g.ok => AreaGranted(sink, g, limit, written, n) /\ g.size > 0
      /\ ~ g.ok =>
           /\ SameBuffer(sink, g.sink)
           /\ \/ /\ sink.kind = "span" /\ g.sink = sink
                 /\ sink.taken = sink.room /\ Spares(g)
              \/ Breaks(sink, g, written)
  BY <1>1, GrantedOfMax
<1>5. CASE Fail(g) /\ area' = NoArea /\ escape' = NoEscape
  <2>1. ~ g.ok
    BY <1>5 DEF Fail
  <2>2. \/ /\ HoldsText(g.sink, limit, written, g.sink.taken)
           /\ g.sink.taken <= sink.taken /\ Spares(g)
        \/ Breaks(sink, g, written)
    BY <1>1, <1>4, <2>1, BufferMembers
  <2>3. HasReason(sink, call, sink.taken, g.broken)
    BY <1>1, <1>4, <2>1 DEF HasReason, Breaks
  <2> QED
    BY <1>1, <1>4, <1>5, <2>1, <2>2, <2>3, RefusalContinues
<1>6. CASE /\ g.ok
           /\ sink' = Fill(g, t)
           /\ area' = [from |-> g.from + k, room |-> g.size - k]
           /\ Wrote(t, [next EXCEPT !.found = g.size - k])
  <2> DEFINE x == g.size
             f == g.from
             r == Fill(g, t)
             i == f + k
             l == x - k
             a == [from |-> i, room |-> l]
             e == [next EXCEPT !.found = x - k]
             w == written + k
  <2>1. /\ x \in Nat /\ x > 0 /\ x <= n /\ f \in Nat /\ f <= sink.taken
        /\ AreaGranted(sink, g, limit, written, n) /\ k \in 0..x
    <3>1. /\ x \in Nat /\ x > 0 /\ x <= n /\ f \in Nat /\ f <= sink.taken
          /\ AreaGranted(sink, g, limit, written, n)
      BY <1>4, <1>6 DEF AreaGranted
    <3> HIDE DEF x
    <3> QED
      BY <1>2, <3>1
  <2>2. SameBuffer(sink, r) /\ r.taken = f + x
    <3>1. n \in Nat
      BY <1>1
    <3> QED
      BY <1>1, <2>1, <3>1, FilledGood
  <2>3. /\ sink' = r /\ area' = a /\ limit' = limit /\ broken' = broken
        /\ written' = w
    BY <1>2, <1>6 DEF Wrote
  <2>4. call' = [call EXCEPT !.left = call.left - k]
    <3>1. e.at # "none" /\ NoEscape.at = "none"
      BY NothingInProgress DEF GoesOn, EscapeRecord, Requests
    <3>2. e # NoEscape
      BY <3>1
    <3> HIDE DEF e
    <3> QED
      BY <1>2, <1>6, <3>2 DEF Wrote, e
  <2>5. ~ EndsEarly(call, call', written, w)
    BY <1>1, <2>4, NotOver
  <2> HIDE DEF r, x, f
  <2>6. End' = f + k
    <3>1. (f + x) - l = f + k
      BY <1>2, <2>1
    <3> HIDE DEF l, i
    <3>2. a.room = l
      OBVIOUS
    <3> HIDE DEF a
    <3>3. End' = sink'.taken - area'.room
      BY DEF End
    <3> QED
      BY <2>2, <2>3, <3>1, <3>2, <3>3
  <2>7. f <= sink.taken - area.room
    BY <1>1, <2>1, Numbers
  <2> HIDE DEF w
  <2> DEFINE j == f + k
  <2>8. w = written + k /\ j = f + k /\ End' = j
    BY <2>6 DEF w
  <2> HIDE DEF j
  <2> QED
    BY <1>1, <1>2, <2>1, <2>2, <2>3, <2>5, <2>7, <2>8, WritingContinues
<1> QED
  BY <1>3, <1>5, <1>6

(* Characters put into the area are pending.                               *)
LEMMA PutContinues ==
  ASSUME IInv, NEW k \in Nat, NEW q, NEW r, Puts(k, q, r)
  PROVE  Continues
<1> DEFINE w == written + k
           y == area.from
           s == Fill([sink |-> sink, from |-> y], Text(written, k))
           h == area.from + k
           j == area.room - k
           a == [from |-> h, room |-> j]
           e == [escape EXCEPT !.source = q, !.remainder = r]
           x == area.room
           n == sink.taken - x
<1>1. /\ escape \in EscapeRecord /\ call.op = "write_escaped"
      /\ broken = FALSE /\ call \in Calls /\ escape.at = "escape"
  BY EscapeInUse, Numbers DEF Puts
<1>2. /\ BufferType(sink) /\ sink.taken \in Nat /\ limit \in Nat
      /\ written \in Nat /\ x \in Nat /\ y \in Nat
  BY Numbers
<1>3. /\ x > 0 /\ k <= x /\ y + x = sink.taken
  BY <1>2 DEF IInv, Good, AreaGood, HasSpace, Puts
<1>4. Text(written, k) \in Seq(Nat) /\ Len(Text(written, k)) = k
  BY <1>2, TextIsSeq
<1>5. /\ sink' = s /\ area' = a /\ written' = w /\ escape' = e
      /\ limit' = limit /\ broken' = broken
  BY <1>4 DEF Put, Wrote, Puts
<1>6. call' = [call EXCEPT !.left = call.left - k]
  <2>1. e.at = "escape"
    BY <1>1 DEF EscapeRecord
  <2>2. e # NoEscape
    BY <2>1, NothingInProgress
  <2> HIDE DEF e
  <2> QED
    BY <1>4, <2>2 DEF Put, Wrote, Puts, e
<1>7. ~ EndsEarly(call, call', written, w)
  BY <1>1, <1>6, NotOver
<1> HIDE DEF x, y
<1>8. sink.taken - x = y
  BY <1>2, <1>3
<1>9. SameBuffer(sink, s) /\ s.taken = sink.taken
  <2>1. HoldsText(sink, limit, written, y)
    BY <1>1, <1>8 DEF IInv, Good, BufferGood, x
  <2>2. y + k <= sink.taken
    BY <1>2, <1>3
  <2> HIDE DEF s
  <2> QED
    BY <1>2, <2>1, <2>2, FillRest DEF s
<1> HIDE DEF s, h
<1>10. End' = n + k
  <2>1. j = x - k /\ a.room = j
    BY DEF x
  <2> HIDE DEF a, j
  <2>2. sink.taken - j = n + k
    BY <1>2, <1>3, <2>1
  <2>3. End' = sink'.taken - area'.room
    BY DEF End
  <2> QED
    BY <1>5, <1>9, <2>1, <2>2, <2>3
<1>11. n \in Nat /\ n <= sink.taken - area.room
  BY <1>2, <1>8 DEF x
<1> HIDE DEF n, w
<1> DEFINE i == n + k
<1>12. w = written + k /\ i = n + k /\ End' = i
  BY <1>10 DEF w
<1> HIDE DEF i
<1> QED
  BY <1>1, <1>5, <1>7, <1>9, <1>11, <1>12, WritingContinues

(* The closing quote is the last character of the call.                    *)
LEMMA CloseContinues ==
  ASSUME IInv, CloseInArea
  PROVE  Continues
<1> DEFINE v == written + 1
           n == sink.taken - area.room
           j == sink.taken
<1>1. /\ area' = NoArea /\ call' = Idle
      /\ limit' = limit /\ broken' = broken /\ written' = v
  <2>1. Len(<<"quote">>) = 1
    OBVIOUS
  <2> QED
    BY <2>1 DEF CloseInArea, Wrote
<1>2. PICK s : s = sink'
  OBVIOUS
<1>3. /\ SameBuffer(sink, s) /\ s.taken = j
      /\ call.left = 1 /\ area.room = 1 /\ broken = FALSE
  BY <1>2, QuoteIsPut
<1>4. /\ written \in Nat /\ v \in Nat /\ n \in Nat /\ j \in Nat /\ j = n + 1
  <2>1. area.room <= sink.taken
    BY DEF IInv, Good, AreaGood
  <2>2. written \in Nat /\ sink.taken \in Nat
    BY Numbers
  <2> QED
    BY <1>3, <2>1, <2>2
<1>5. End' = j
  <2>1. End' = sink'.taken - area'.room
    BY DEF End
  <2>2. j - 0 = j
    BY <1>4
  <2> HIDE DEF j
  <2> QED
    BY <1>1, <1>2, <1>3, <2>1, <2>2, NothingInProgress
<1>6. ~ EndsEarly(call, call', written, v)
  <2>1. v = written + call.left /\ ~ (v < v)
    BY <1>3, <1>4
  <2> HIDE DEF v
  <2> QED
    BY <2>1 DEF EndsEarly
<1>7. n <= sink.taken - area.room /\ v = written + 1 /\ 1 \in Nat
  BY <1>4
<1> HIDE DEF v, n, j
<1> QED
  BY <1>1, <1>2, <1>3, <1>4, <1>5, <1>6, <1>7, WritingContinues

(* A step that leaves the buffer, the text and the area alone.             *)
LEMMA QuietContinues ==
  ASSUME IInv, ~ broken,
         UNCHANGED <<sink, limit, written, broken, area>>, call' # Idle
  PROVE  Continues
<1>1. written \in Nat /\ End' = End /\ broken = FALSE
  BY Numbers DEF End
<1>2. written <= written /\ written - End <= written - End
  <2>1. End \in Int
    BY Numbers DEF End
  <2> QED
    BY <1>1, <2>1
<1>3. Follows(sink, written, End, sink, written, End, FALSE)
  BY <1>2 DEF Follows
<1>4. ~ EndsEarly(call, call', written, written)
  BY DEF EndsEarly
<1> QED
  BY <1>1, <1>3, <1>4 DEF Continues

(* A step of the client between two calls to the same buffer r.            *)
LEMMA ClientContinues ==
  ASSUME IInv, call = Idle, area' = area, written' = written,
         limit' = limit, call' = call,
         NEW r, sink' = r, SameBuffer(sink, r),
         NEW b \in BOOLEAN, broken' = b,
         ~ b => written - sink.taken <= written - r.taken,
         b => FileFailed(sink, r, written)
  PROVE  Continues
<1>1. /\ area.room = 0 /\ written \in Nat /\ sink.taken \in Nat
      /\ r.taken \in Nat
  BY NothingInProgress, NoEscapeMeans, Numbers, BufferMembers
     DEF SameBuffer
<1>2. End = sink.taken
  BY <1>1 DEF End
<1>3. End' = r.taken
  <2>1. End' = r.taken - area.room
    BY DEF End
  <2> DEFINE j == r.taken
  <2>2. j - 0 = j
    BY <1>1
  <2> HIDE DEF j
  <2> QED
    BY <1>1, <2>1, <2>2 DEF j
<1>4. Follows(sink, written, sink.taken, r, written, r.taken, b)
  BY <1>1 DEF Follows, SameBuffer, FileFailed
<1>5. ~ EndsEarly(call, call', written, written)
  BY DEF EndsEarly
<1> QED
  BY <1>2, <1>3, <1>4, <1>5 DEF Continues

----------------------------------------------------------------------------
(* flush() and out() take nothing back, ...                                *)
LEMMA FlushContinues ==
  ASSUME IInv, Flush, UNCHANGED <<escape, area>>
  PROVE  Continues
<1>1. PICK o \in Flushes(sink, limit) : sink' = o.sink /\ broken' = ~ o.ok
  BY DEF Flush
<1>2. /\ call = Idle /\ ~ broken /\ sink.kind \notin {"span", "counting"}
      /\ limit' = limit /\ call' = call /\ written' = written
  BY DEF Flush
<1>3. /\ call.op # "write_escaped" /\ sink.taken - area.room = sink.taken
  BY <1>2, NothingInProgress, NoEscapeMeans
<1>4. /\ BufferType(sink) /\ limit \in Nat /\ written \in Nat
      /\ HoldsText(sink, limit, written, sink.taken) /\ sink.taken \in Nat
  BY <1>2, <1>3, Numbers DEF IInv, Good, BufferGood
<1> DEFINE r == o.sink
           b == ~ o.ok
<1>5. /\ SameBuffer(sink, r) /\ o.ok \in BOOLEAN
      /\ o.ok => written - sink.taken <= written - r.taken
      /\ b => FileFailed(sink, r, written)
  <2>1. CASE sink.kind = "pointer"
    <3>1. o.ok = TRUE /\ o.sink = sink
      BY <2>1 DEF Flushes, Outcome
    <3>2. /\ SameBuffer(sink, sink)
          /\ written - sink.taken <= written - sink.taken
      BY <1>4 DEF SameBuffer
    <3> QED
      BY <3>1, <3>2
  <2>2. CASE sink.kind # "pointer"
    <3>1. sink.kind \in Cached
      BY <1>2, <1>4, <2>2, BufferMembers DEF Kinds, Cached
    <3>2. o \in MakesRoom(sink, limit)
      BY <1>2 DEF MakesRoom
    <3>3. /\ SameBuffer(sink, o.sink) /\ o.ok \in BOOLEAN
          /\ o.ok => o.sink.taken = 0
          /\ ~ o.ok => FileFailed(sink, o.sink, written)
      BY <1>4, <3>1, <3>2, RoomIsMade
    <3>4. written - sink.taken <= written - 0
      BY <1>4
    <3> QED
      BY <3>3, <3>4
  <2> QED
    BY <2>1, <2>2
<1>6. b \in BOOLEAN /\ (~ b => o.ok)
  BY <1>5
<1>7. sink' = r /\ broken' = b
  BY <1>1
<1> HIDE DEF r, b
<1> QED
  BY <1>2, <1>5, <1>6, <1>7, ClientContinues

(* ... and neither does the copy of a span.                                *)
LEMMA CopySpanContinues ==
  ASSUME IInv, CopySpan, UNCHANGED <<escape, area>>
  PROVE  Continues
<1>1. /\ call = Idle /\ sink.kind = "span" /\ limit' = limit
      /\ call' = call /\ written' = written /\ broken' = broken
  BY DEF CopySpan
<1>2. PICK r : /\ sink' = r /\ SameBuffer(sink, r) /\ r.taken = sink.taken
  BY SpanIsCopied
<1>3. broken = FALSE
  BY <1>1, SpanHoldsAll, Numbers
<1>4. written - sink.taken <= written - r.taken
  BY <1>2, Numbers
<1> QED
  BY <1>1, <1>2, <1>3, <1>4, ClientContinues

(* Every step stays with the buffer and its text or begins with an empty   *)
(* one.                                                                    *)
LEMMA StepContinues ==
  ASSUME IInv, Next, ~ Open, ~ Reset
  PROVE  Continues
<1>1. CASE DirectNext /\ UNCHANGED <<escape, area>>
  <2>1. ASSUME NEW op \in {"write_str", "write_int"}, NEW n \in Size,
               Start(op, n)
        PROVE  Continues
    <3>1. [op |-> op, left |-> n] # Idle
      BY DEF Idle
    <3> QED
      BY <1>1, <2>1, <3>1, QuietContinues DEF Start
  <2>2. CASE WriteChunk
    BY <1>1, <2>2, WriteChunkContinues
  <2>3. CASE WriteWhole
    BY <1>1, <2>3, WriteWholeContinues
  <2>4. CASE Flush
    BY <1>1, <2>4, FlushContinues
  <2>5. CASE CopySpan
    BY <1>1, <2>5, CopySpanContinues
  <2> QED
    BY <1>1, <2>1, <2>2, <2>3, <2>4, <2>5 DEF DirectNext, DirectStep
<1>2. ASSUME NEW s \in Source, StartEscaped(s)
      PROVE  Continues
  <2>1. call' = [op |-> "write_escaped", left |-> EncodedSize(s) + 2]
    BY <1>2 DEF StartEscaped, Start
  <2>2. [op |-> "write_escaped", left |-> EncodedSize(s) + 2] # Idle
    BY DEF Idle
  <2> QED
    BY <1>2, <2>1, <2>2, QuietContinues DEF StartEscaped, Start
<1>3. CASE OpenQuote
  BY <1>3, OpenQuoteRequests, RequestContinues
<1>4. CASE RequestMore
  BY <1>4, RequestMoreRequests, RequestContinues
<1>5. CASE RequestToClose
  BY <1>5, RequestToCloseRequests, RequestContinues
<1>6. CASE CloseInArea
  BY <1>6, CloseContinues
<1>7. CASE WriteRemainder
  BY <1>7, WriteRemainderPuts, PutContinues
<1>8. CASE EncodeWhole
  BY <1>8, EncodeWholePuts, PutContinues
<1>9. CASE EncodeCut
  BY <1>9, EncodeCutPuts, PutContinues
<1>10. CASE Return
  <2>1. ~ broken /\ call # Idle
    BY <1>10, EscapeInUse DEF Return
  <2> QED
    BY <1>10, <2>1, QuietContinues DEF Return
<1> QED
  BY <1>1, <1>2, <1>3, <1>4, <1>5, <1>6, <1>7, <1>8, <1>9, <1>10
     DEF Next, EscapedNext, EscapedStep

(* A file that has broken down holds less than was written to it.          *)
LEMMA FailedFileHoldsLess ==
  ASSUME IInv, ~ broken, Continues, broken'
  PROVE  sink.kind = "file" /\ Len(sink'.out) < Len(Content(Seen))
<1>1. /\ sink.kind = "file"
      /\ \E k \in (written - End)..(written - 1) : sink'.out = Text(0, k)
  BY DEF Continues, Follows
<1>2. PICK k \in (written - End)..(written - 1) : sink'.out = Text(0, k)
  BY <1>1
<1>3. written \in Nat /\ written - End \in Nat
  <2>1. End \in Nat /\ End <= written
    BY SeenText DEF End
  <2> QED
    BY <2>1, Numbers
<1>4. k \in Nat /\ k < written
  BY <1>2, <1>3
<1>5. Len(sink'.out) = k
  BY <1>2, <1>4, TextIsSeq
<1>6. Content(Seen) = Text(0, written)
  BY <1>1, NothingIsLost DEF NothingLost, Upto
<1>7. Len(Content(Seen)) = written
  BY <1>3, <1>6, TextIsSeq
<1> QED
  BY <1>1, <1>4, <1>5, <1>7

(* A call of the writer fails only for a reason: the file that is broken   *)
(* behind the step holds less than was written; nothing else breaks it.    *)
THEOREM ErrorsAreJustified == Spec => EofIsJustified
<1>1. ASSUME IInv, [Next]_vars,
             call # Idle /\ call' = Idle /\ written' < written + call.left
      PROVE  \/ sink.kind = "file" /\ Len(sink'.out) < Len(Content(Seen))
             \/ /\ sink.kind = "span"
                /\ IF call.op = "write_int"
                     THEN sink.taken + call.left > sink.room
                     ELSE Seen.taken = sink.room
             \/ call.op = "write_int" /\ call.left > sink.room
  <2>1. EndsEarly(call, call', written, written')
    BY <1>1 DEF EndsEarly
  <2>2. Next /\ ~ Open /\ ~ Reset
    BY <1>1 DEF vars, Open, Reset
  <2>3. Continues
    BY <1>1, <2>2, StepContinues
  <2>4. HasReason(sink, call, End, broken')
    BY <2>1, <2>3 DEF Continues
  <2>5. Seen.taken = End
    <3>1. BufferType(sink)
      BY <1>1, Numbers
    <3> QED
      BY <3>1 DEF Seen, End, BufferType, BufferRecord
  <2>6. ~ broken
    BY <1>1 DEF IInv, Good
  <2>7. broken' => /\ sink.kind = "file"
                   /\ Len(sink'.out) < Len(Content(Seen))
    BY <1>1, <2>3, <2>6, FailedFileHoldsLess
  <2> QED
    BY <2>4, <2>5, <2>7 DEF HasReason
<1>2. IInv /\ [Next]_vars =>
        [(call # Idle /\ call' = Idle /\ written' < written + call.left) =>
          \/ sink.kind = "file" /\ Len(sink'.out) < Len(Content(Seen))
          \/ /\ sink.kind = "span"
             /\ IF call.op = "write_int"
                  THEN sink.taken + call.left > sink.room
                  ELSE Seen.taken = sink.room
          \/ call.op = "write_int" /\ call.left > sink.room]_vars
  BY <1>1
<1> QED
  BY <1>2, Invariance, PTL DEF Spec, EofIsJustified

----------------------------------------------------------------------------
(* A part of the text the way CharStream writes it.                        *)
LEMMA TextIsStream ==
  ASSUME NEW k \in Nat
  PROVE  Len(Text(0, k)) = k /\ Text(0, k) = [i \in 1..k |-> i]
<1>1. Len(Text(0, k)) = k
  BY TextIsSeq
<1>2. [i \in 1..k |-> 0 + i] = [i \in 1..k |-> i]
  <2>1. \A i \in 1..k : 0 + i = i
    OBVIOUS
  <2> QED
    BY <2>1
<1> QED
  BY <1>1, <1>2 DEF Text

(* The reader of a buffer s with limit m, of which w characters have been  *)
(* written, sees k of them; n are pending, and the buffer is broken if b.  *)
Sees(s, m, w, n, b, k) ==
  /\ k \in 0..w /\ k <= m /\ n \in Nat
  /\ Delivered([s EXCEPT !.taken = n]) = Text(0, k)
  /\ ~ b => k = Shown(s.kind, m, w, n) /\ n <= w

(* Some part is seen in every state.                                       *)
LEMMA Seeing ==
  ASSUME NEW s, NEW m, NEW c, NEW w, NEW b, NEW e, NEW a,
         Good(s, m, c, w, b, e, a)
  PROVE  \E k \in Nat : Sees(s, m, w, s.taken - a.room, b, k)
<1> DEFINE n == s.taken - a.room
           r == [s EXCEPT !.taken = n]
<1>1. /\ BufferType(s) /\ s.taken \in Nat /\ s.kind \in Kinds
      /\ w \in Nat /\ m \in Nat /\ b \in BOOLEAN
  <2>1. BufferType(s) /\ w \in Nat /\ m \in Limit \cup {MaxText}
        /\ b \in BOOLEAN
    BY DEF Good, BufferGood
  <2> QED
    BY <2>1, BufferMembers, LimitAssumption, TextAssumption
<1>2. n \in Nat
  <2>1. a.room \in Nat /\ a.room <= s.taken
    BY DEF Good, AreaGood
  <2> QED
    BY <1>1, <2>1
<1>3. s.kind # "limited" => w <= m
  <2>1. s.kind # "limited" => m = MaxText
    BY DEF Good, BufferGood
  <2>2. c.left \in Nat /\ w + c.left <= MaxText
    BY DEF Good, CallGood, Calls
  <2> QED
    BY <1>1, <2>1, <2>2, TextAssumption
<1>4. CASE b
  <2>1. s.kind = "file"
    BY <1>4 DEF Good, BufferGood, PartOfText
  <2>2. PICK k \in 0..w : s.out = Text(0, k)
    BY <1>4 DEF Good, BufferGood, PartOfText
  <2> HIDE DEF n
  <2>3. r.kind = s.kind /\ r.out = s.out
    BY <1>1 DEF BufferType, BufferRecord
  <2> HIDE DEF r
  <2>4. Delivered(r) = Text(0, k)
    BY <2>1, <2>2, <2>3 DEF Delivered
  <2>5. k \in Nat /\ k <= m
    BY <1>1, <1>3, <2>1, <2>2
  <2>6. Sees(s, m, w, n, b, k)
    BY <1>2, <1>4, <2>2, <2>4, <2>5 DEF Sees, r
  <2> QED
    BY <2>5, <2>6 DEF n
<1>5. CASE ~ b
  <2> DEFINE k == Shown(s.kind, m, w, n)
  <2>1. HoldsText(s, m, w, n)
    BY <1>5 DEF Good, BufferGood
  <2>2. n <= w
    BY <2>1 DEF HoldsText
  <2> HIDE DEF n
  <2>3. Delivered(r) = Text(0, k)
    BY <1>1, <2>1, ReaderOfBuffer
  <2>4. k \in 0..w /\ (s.kind = "limited" => k <= m)
    <3>1. w <= w /\ w - n <= w - n
      BY <1>1, <1>2
    <3> QED
      BY <1>1, <1>2, <2>2, <3>1, ShownGrows
  <2> HIDE DEF k
  <2>5. k <= m /\ k \in Nat
    BY <1>1, <1>3, <2>4
  <2>6. Sees(s, m, w, n, b, k)
    BY <1>2, <2>2, <2>3, <2>4, <2>5 DEF Sees, k
  <2> QED
    BY <2>5, <2>6 DEF n
<1> QED
  BY <1>1, <1>4, <1>5

(* What the caller sees.                                                   *)
LEMMA SeenStream ==
  ASSUME NEW k \in Nat, Sees(sink, limit, written, End, broken, k)
  PROVE  /\ Delivered(Seen) = [i \in 1..k |-> i]
         /\ Len(Delivered(Seen)) = k
<1>1. Seen = [sink EXCEPT !.taken = End]
  BY DEF Seen, End
<1>2. Delivered(Seen) = Text(0, k)
  BY <1>1 DEF Sees
<1> QED
  BY <1>2, TextIsStream

(* A step that continues writes to the stream.                             *)
LEMMA SeesMore ==
  ASSUME NEW s, NEW m \in Nat, NEW w \in Nat, NEW n, NEW k \in Nat,
         Sees(s, m, w, n, FALSE, k), s.kind \in Kinds,
         NEW r, NEW v \in Nat, NEW j, NEW b \in BOOLEAN, NEW l \in Nat,
         Sees(r, m, v, j, b, l), Follows(s, w, n, r, v, j, b)
  PROVE  k <= l
<1>1. /\ k = Shown(s.kind, m, w, n) /\ n \in Nat /\ n <= w
      /\ j \in Nat /\ r.kind = s.kind /\ w <= v
  BY DEF Sees, Follows
<1>2. CASE ~ b
  <2>1. l = Shown(s.kind, m, v, j) /\ j <= v /\ w - n <= v - j
    BY <1>1, <1>2 DEF Sees, Follows
  <2> QED
    BY <1>1, <2>1, ShownGrows
<1>3. CASE b
  <2>1. s.kind = "file"
    BY <1>3 DEF Follows
  <2>2. PICK i \in (w - n)..(w - 1) : r.out = Text(0, i)
    BY <1>3 DEF Follows
  <2>3. k = w - n
    BY <1>1, <2>1 DEF Shown
  <2>4. i \in Nat /\ k <= i
    BY <1>1, <2>2, <2>3
  <2>5. Delivered([r EXCEPT !.taken = j]) = Text(0, i)
    BY <1>1, <2>1, <2>2 DEF Delivered
  <2>6. Text(0, l) = Text(0, i)
    BY <2>5 DEF Sees
  <2>7. l = i
    BY <2>4, <2>6, TextIsStream
  <2> QED
    BY <2>4, <2>7
<1> QED
  BY <1>2, <1>3

(* An empty buffer is a stream that begins.                                *)
LEMMA EmptySeen ==
  ASSUME NEW k \in Nat, Sees(sink, limit, 0, End, broken, k)
  PROVE  Delivered(Seen) = <<>>
<1>1. k = 0
  BY DEF Sees
<1>2. Seen = [sink EXCEPT !.taken = End]
  BY DEF Seen, End
<1>3. Delivered(Seen) = Text(0, 0)
  BY <1>1, <1>2 DEF Sees
<1> QED
  BY <1>3, TextIsSeq, EmptySeq

----------------------------------------------------------------------------
(* After an error of its file the buffer is reset or the next one opened.  *)
LEMMA BrokenWaits ==
  ASSUME IInv, broken, Next
  PROVE  Open \/ Reset
<1>1. call = Idle /\ escape.at = "none" /\ call.op = "none"
  BY EscapeInUse, NothingInProgress DEF IInv, Good
<1>2. ~ CopySpan
  BY <1>1, SpanHoldsAll DEF CopySpan
<1> QED
  BY <1>1, <1>2
     DEF Next, DirectNext, DirectStep, Start, WriteChunk, WriteWhole, Flush,
         EscapedNext, EscapedStep, StartEscaped, OpenQuote, RequestMore,
         RequestToClose, CloseInArea, WriteRemainder, EncodeWhole,
         EncodeCut, AtSource, Return

(* A new or reset buffer is a stream that begins.                          *)
LEMMA StreamOpens ==
  ASSUME IInv, Next, Open \/ Reset
  PROVE  Stream!Open
<1>1. written' = 0 /\ limit' \in Limit \cup {MaxText} /\ limit' \in Nat
  <2>1. CASE Open
    <3>1. PICK b \in Buffers : sink' = b[1] /\ limit' = b[2]
      BY <2>1 DEF Open
    <3>2. b[2] \in Limit \cup {MaxText} /\ b[2] \in Nat
      BY EmptyBuffer DEF BufferGood
    <3> QED
      BY <2>1, <3>1, <3>2 DEF Open
  <2>2. CASE Reset
    BY <2>2, Numbers DEF Reset
  <2> QED
    BY <2>1, <2>2
<1>2. Good(sink', limit', call', written', broken', escape', area')
  BY NextIInv DEF IInv
<1>3. PICK k \in Nat : Sees(sink', limit', written', End', broken', k)
  BY <1>2, Seeing DEF End
<1>4. Delivered(Seen)' = <<>>
  <2>1. Sees(sink', limit', 0, End', broken', k)
    BY <1>1, <1>3
  <2>2. k = 0
    BY <2>1 DEF Sees
  <2>3. Seen' = [sink' EXCEPT !.taken = End']
    BY DEF Seen, End
  <2>4. Delivered(Seen') = Text(0, 0)
    BY <2>1, <2>2, <2>3 DEF Sees
  <2>5. Delivered(Seen)' = Delivered(Seen')
    BY DEF Delivered, Pending
  <2> QED
    BY <2>4, <2>5, TextIsSeq, EmptySeq
<1>5. 0 <= limit'
  BY <1>1
<1> QED
  BY <1>1, <1>4, <1>5 DEF Stream!Open

(* Any other step writes to it.                                            *)
LEMMA StreamWrites ==
  ASSUME IInv, Next, ~ Open, ~ Reset
  PROVE  Stream!Write
<1>1. ~ broken /\ Continues
  BY BrokenWaits, StepContinues
<1>2. Good(sink', limit', call', written', broken', escape', area')
  BY NextIInv DEF IInv
<1>3. PICK k \in Nat : Sees(sink, limit, written, End, broken, k)
  BY Seeing DEF IInv, End
<1>4. PICK l \in Nat : Sees(sink', limit', written', End', broken', l)
  BY <1>2, Seeing DEF End
<1>5. /\ limit' = limit /\ limit \in Nat /\ written \in Nat
      /\ sink.kind \in Kinds /\ broken = FALSE
      /\ Follows(sink, written, End, sink', written', End', broken')
  BY <1>1, Numbers, BufferMembers DEF Continues
<1>6. PICK v \in Nat, b \in BOOLEAN : written' = v /\ broken' = b
  BY <1>2 DEF Good, BufferGood
<1>7. /\ Sees(sink', limit, v, End', b, l)
      /\ Follows(sink, written, End, sink', v, End', b)
  BY <1>4, <1>5, <1>6
<1>8. k <= l
  BY <1>3, <1>5, <1>7, SeesMore
<1>9. written <= v /\ l \in 0..v /\ l <= limit
  BY <1>7 DEF Sees, Follows
<1>10. Delivered(Seen)' = [i \in 1..l |-> i] /\ Len(Delivered(Seen)') = l
  <2>1. Seen' = [sink' EXCEPT !.taken = End']
    BY DEF Seen, End
  <2>2. Delivered(Seen') = Text(0, l)
    BY <1>7, <2>1 DEF Sees
  <2>3. Delivered(Seen)' = Delivered(Seen')
    BY DEF Delivered, Pending
  <2> QED
    BY <2>2, <2>3, TextIsStream
<1>11. Len(Delivered(Seen)) = k
  BY <1>3, SeenStream
<1>12. l \in k..v /\ v >= written
  BY <1>5, <1>8, <1>9
<1> QED
  BY <1>5, <1>6, <1>9, <1>10, <1>11, <1>12 DEF Stream!Write

(* The first buffer is a stream that begins.                               *)
LEMMA StreamBegins ==
  ASSUME OutputInit
  PROVE  Stream!Init
<1>1. IInv /\ written = 0
  BY InitIInv DEF OutputInit, Init
<1>2. PICK k \in Nat : Sees(sink, limit, written, End, broken, k)
  BY <1>1, Seeing DEF IInv, End
<1>3. Delivered(Seen) = <<>>
  BY <1>1, <1>2, EmptySeen
<1> QED
  BY <1>1, <1>3, Numbers DEF Stream!Init

(* Whatever is written and flushed when, the caller of a format function   *)
(* sees a growing beginning of its text: Output implements CharStream.     *)
THEOREM ImplementsStream == Spec => StreamsText
<1>1. Spec => []IInv
  BY Invariance
<1>2. OutputInit => Stream!Init
  BY StreamBegins
<1>3. IInv /\ [Next]_vars => [Stream!Write \/ Stream!Open]_Stream!vars
  <2> SUFFICES ASSUME IInv, [Next]_vars
               PROVE  [Stream!Write \/ Stream!Open]_Stream!vars
    OBVIOUS
  <2>1. CASE Next /\ (Open \/ Reset)
    BY <2>1, StreamOpens
  <2>2. CASE Next /\ ~ Open /\ ~ Reset
    BY <2>2, StreamWrites
  <2>3. CASE UNCHANGED vars
    <3>1. UNCHANGED <<sink, limit, written, area>>
      BY <2>3 DEF vars
    <3>2. UNCHANGED Seen
      BY <3>1 DEF Seen
    <3>3. UNCHANGED Delivered(Seen)
      BY <3>2 DEF Delivered, Pending
    <3> QED
      BY <3>1, <3>3 DEF Stream!vars
  <2> QED
    BY <2>1, <2>2, <2>3
<1> QED
  BY <1>1, <1>2, <1>3, PTL DEF Spec, StreamsText, Stream!Spec
=============================================================================
