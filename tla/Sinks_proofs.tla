---------------------------- MODULE Sinks_proofs ----------------------------
(***************************************************************************)
(* Lemmas about what emptying, granting and filling do to the characters   *)
(* of a sink.  The first part is about the contents of those sinks that a  *)
(* truncating_buffer writes to (spans, iterators and files), the second    *)
(* about all sinks a writer uses and which part of the text they hold.     *)
(***************************************************************************)
EXTENDS Sinks, SequenceTheorems, TLAPS

SinkRecord ==
  [kind : {"span", "iterator", "file"}, room : Nat, len : Nat, taken : Nat,
   cache : Seq(Nat), out : Seq(Nat), count : Nat]

(* The write area is the whole cache or span.                              *)
SinkType(s) ==
  /\ s \in SinkRecord
  /\ s.len = s.room /\ s.taken <= s.room
  /\ s.room > 0 /\ Len(s.cache) = s.room

(* The sequence d is the beginning of c.                                   *)
Begins(d, c) == Len(d) <= Len(c) /\ \A i \in 1..Len(d) : d[i] = c[i]

(* From s to r the reader has only seen characters of c appear.            *)
Shows(s, r, c) ==
  /\ Begins(Delivered(r), c)
  /\ Len(Delivered(s)) <= Len(Delivered(r))

----------------------------------------------------------------------------
(* A function on 1..n into the characters is a text of length n.           *)
LEMMA TextOfFunction ==
  ASSUME NEW n \in Nat, NEW f \in [1..n -> Nat]
  PROVE  f \in Seq(Nat) /\ Len(f) = n
BY SeqDef, LenProperties

(* The first n characters of a cache.                                      *)
LEMMA FirstOf ==
  ASSUME NEW c \in Seq(Nat), NEW n \in Nat, n <= Len(c)
  PROVE  /\ SubSeq(c, 1, n) \in Seq(Nat)
         /\ Len(SubSeq(c, 1, n)) = n
         /\ \A i \in 1..n : SubSeq(c, 1, n)[i] = c[i]
<1>1. \A i \in 1..n : c[i] \in Nat
  BY ElementOfSeq, LenProperties
<1> QED
  BY <1>1, SubSeqProperties

(* The beginning of what is appended shows up behind what was there.       *)
LEMMA AppendedBegins ==
  ASSUME NEW o \in Seq(Nat), NEW d \in Seq(Nat), NEW c \in Seq(Nat),
         Begins(d, c)
  PROVE  Begins(o \o d, o \o c) /\ Begins(o, o \o c)
BY ConcatProperties, LenProperties DEF Begins

(* Appending to what is pending appends to the content.                    *)
LEMMA FirstSplits ==
  ASSUME NEW c \in Seq(Nat), NEW d \in Seq(Nat), NEW t \in Seq(Nat),
         NEW m \in Nat, m <= Len(d), m + Len(t) <= Len(c),
         \A i \in 1..m : c[i] = d[i],
         \A i \in 1..Len(t) : c[m + i] = t[i]
  PROVE  SubSeq(c, 1, m + Len(t)) = SubSeq(d, 1, m) \o t
<1> DEFINE n == m + Len(t)
           l == SubSeq(c, 1, n)
           p == SubSeq(d, 1, m)
<1>0. n \in Nat /\ n <= Len(c) /\ Len(t) \in Nat
  BY LenProperties
<1>1. l \in Seq(Nat) /\ Len(l) = n /\ \A i \in 1..n : l[i] = c[i]
  BY <1>0, FirstOf
<1>2. p \in Seq(Nat) /\ Len(p) = m /\ \A i \in 1..m : p[i] = d[i]
  BY FirstOf
<1> HIDE DEF l, p
<1>3. /\ p \o t \in Seq(Nat) /\ Len(p \o t) = n
      /\ \A i \in 1..n : (p \o t)[i] = IF i <= m THEN p[i] ELSE t[i - m]
  BY <1>2, ConcatProperties
<1>4. ASSUME NEW i \in 1..n PROVE l[i] = (p \o t)[i]
  <2>1. CASE i <= m
    <3>1. i \in 1..m
      BY <2>1
    <3>2. p[i] = c[i]
      BY <1>2, <3>1
    <3> QED
      BY <1>1, <1>3, <2>1, <3>2
  <2>2. CASE ~ (i <= m)
    <3>1. i - m \in 1..Len(t) /\ m + (i - m) = i
      BY <1>0, <2>2
    <3>2. c[i] = t[i - m]
      BY <3>1
    <3> QED
      BY <1>1, <1>3, <2>2, <3>2
  <2> QED
    BY <2>1, <2>2
<1>5. l = p \o t
  BY <1>1, <1>3, <1>4, SeqEqual
<1> QED
  BY <1>5 DEF l, p

----------------------------------------------------------------------------
(* A part of the text is a sequence of its length.                         *)
LEMMA TextIsSeq ==
  ASSUME NEW k \in Nat, NEW n \in Nat
  PROVE  Text(k, n) \in Seq(Nat) /\ Len(Text(k, n)) = n
<1>1. Text(k, n) \in [1..n -> Nat]
  BY DEF Text
<1> QED
  BY <1>1, TextOfFunction

(* Two adjacent parts of the text make one.                                *)
LEMMA TextGrows ==
  ASSUME NEW k \in Nat, NEW n \in Nat
  PROVE  Text(0, k) \o Text(k, n) = Text(0, k + n)
<1> DEFINE a == Text(0, k)
           b == Text(k, n)
           t == Text(0, k + n)
<1>1. /\ a \in Seq(Nat) /\ Len(a) = k
      /\ b \in Seq(Nat) /\ Len(b) = n
      /\ t \in Seq(Nat) /\ Len(t) = k + n
  BY TextIsSeq
<1>2. /\ \A i \in 1..k : a[i] = i
      /\ \A i \in 1..n : b[i] = k + i
      /\ \A i \in 1..(k + n) : t[i] = i
  BY DEF Text
<1> HIDE DEF a, b, t
<1>3. /\ a \o b \in Seq(Nat) /\ Len(a \o b) = k + n
      /\ \A i \in 1..(k + n) : (a \o b)[i] = IF i <= k THEN a[i] ELSE b[i - k]
  BY <1>1, ConcatProperties
<1>4. ASSUME NEW i \in 1..(k + n) PROVE (a \o b)[i] = t[i]
  <2>1. CASE i <= k
    <3>1. i \in 1..k
      BY <2>1
    <3> QED
      BY <1>2, <1>3, <2>1, <3>1
  <2>2. CASE ~ (i <= k)
    <3>1. i - k \in 1..n /\ k + (i - k) = i
      BY <2>2
    <3>2. b[i - k] = i
      BY <1>2, <3>1
    <3> QED
      BY <1>2, <1>3, <2>2, <3>2
  <2> QED
    BY <2>1, <2>2
<1>5. a \o b = t
  BY <1>1, <1>3, <1>4, SeqEqual
<1> QED
  BY <1>5 DEF a, b, t

(* The first characters of a cache, when they are a part of the text.      *)
LEMMA TextInCache ==
  ASSUME NEW c \in Seq(Nat), NEW k \in Nat, NEW n \in Nat, n <= Len(c),
         \A i \in 1..n : c[i] = k + i
  PROVE  SubSeq(c, 1, n) = Text(k, n)
<1>1. /\ SubSeq(c, 1, n) \in Seq(Nat) /\ Len(SubSeq(c, 1, n)) = n
      /\ \A i \in 1..n : SubSeq(c, 1, n)[i] = c[i]
  BY FirstOf
<1>2. Text(k, n) \in Seq(Nat) /\ Len(Text(k, n)) = n
  BY TextIsSeq
<1>3. \A i \in 1..n : SubSeq(c, 1, n)[i] = Text(k, n)[i]
  BY <1>1 DEF Text
<1> QED
  BY <1>1, <1>2, <1>3, SeqEqual

(* What begins the text is a part of it.                                   *)
LEMMA BeginningOfText ==
  ASSUME NEW d \in Seq(Nat), NEW n \in Nat, Begins(d, Text(0, n))
  PROVE  Len(d) \in 0..n /\ d = [k \in 1..Len(d) |-> k]
<1>1. Len(d) \in Nat /\ Len(d) <= n /\ \A i \in 1..Len(d) : i \in 1..n
  BY TextIsSeq, LenProperties DEF Begins
<1>2. ASSUME NEW i \in 1..Len(d) PROVE d[i] = i
  <2>1. d[i] = Text(0, n)[i]
    BY DEF Begins
  <2>2. i \in 1..n
    BY <1>1
  <2>3. Text(0, n)[i] = 0 + i
    BY <2>2 DEF Text
  <2> QED
    BY <2>1, <2>2, <2>3
<1> DEFINE e == [k \in 1..Len(d) |-> k]
<1>3. e \in Seq(Nat) /\ Len(e) = Len(d)
  BY <1>1, TextOfFunction
<1>4. d = e
  BY <1>2, <1>3, SeqEqual
<1> QED
  BY <1>1, <1>4

----------------------------------------------------------------------------
(* A new buffer is empty.                                                  *)
LEMMA NewSinkIsEmpty ==
  ASSUME NEW k \in {"span", "iterator", "file"}, NEW r \in Nat \ {0}
  PROVE  /\ SinkType(NewSink(k, r))
         /\ Content(NewSink(k, r)) = <<>>
         /\ Delivered(NewSink(k, r)) = <<>>
<1> DEFINE blank == [i \in 1..r |-> Blank]
           s == NewSink(k, r)
<1>1. blank \in Seq(Nat) /\ Len(blank) = r
  BY TextOfFunction DEF Blank
<1> HIDE DEF blank
<1>2. /\ s = [kind |-> k, room |-> r, len |-> r, taken |-> 0,
              cache |-> blank, out |-> <<>>, count |-> 0]
      /\ <<>> \in Seq(Nat)
  BY EmptySeq DEF NewSink, blank
<1> HIDE DEF s
<1>3. SinkType(s)
  BY <1>1, <1>2 DEF SinkType, SinkRecord
<1>4. Pending(s) = <<>>
  BY <1>2, SubSeqEmpty DEF Pending
<1>5. <<>> \o <<>> = <<>>
  BY <1>2, ConcatEmptySeq
<1> QED
  BY <1>2, <1>3, <1>4, <1>5 DEF Content, Delivered, s

(* What is pending is a text as long as the taken part of the area.        *)
LEMMA PendingText ==
  ASSUME NEW s, SinkType(s)
  PROVE  /\ Pending(s) \in Seq(Nat) /\ Len(Pending(s)) = s.taken
         /\ \A i \in 1..s.taken : Pending(s)[i] = s.cache[i]
         /\ Delivered(s) \in Seq(Nat) /\ Content(s) \in Seq(Nat)
         /\ Begins(Delivered(s), Content(s))
<1>1. /\ s.cache \in Seq(Nat) /\ s.taken \in Nat /\ s.out \in Seq(Nat)
      /\ s.taken <= Len(s.cache)
  BY DEF SinkType, SinkRecord
<1>2. /\ Pending(s) \in Seq(Nat) /\ Len(Pending(s)) = s.taken
      /\ \A i \in 1..s.taken : Pending(s)[i] = s.cache[i]
  BY <1>1, FirstOf DEF Pending
<1>3. s.out \o Pending(s) \in Seq(Nat) /\ Begins(s.out, s.out \o Pending(s))
  <2>1. Begins(Pending(s), Pending(s))
    BY <1>2, LenProperties DEF Begins
  <2> QED
    BY <1>1, <1>2, <2>1, AppendedBegins, ConcatProperties
<1>4. Begins(Pending(s), Pending(s))
  BY <1>2, LenProperties DEF Begins
<1> QED
  BY <1>1, <1>2, <1>3, <1>4 DEF Delivered, Content

(* A fresh area over the same memory.                                      *)
LEMMA FreshArea ==
  ASSUME NEW s, SinkType(s)
  PROVE  /\ SinkType(Fresh(s)) /\ Fresh(s).taken = 0
         /\ Fresh(s).room = s.room /\ Fresh(s).kind = s.kind
         /\ Fresh(s).out = s.out
         /\ Pending(Fresh(s)) = <<>>
<1> DEFINE blank == [i \in DOMAIN s.cache |-> Blank]
<1>1. /\ s.cache \in Seq(Nat) /\ Len(s.cache) = s.room /\ s.room \in Nat
      /\ s \in SinkRecord /\ s.room > 0
  BY DEF SinkType, SinkRecord
<1>2. DOMAIN s.cache = 1..s.room
  BY <1>1, LenProperties
<1>3. blank \in [1..s.room -> Nat]
  BY <1>2 DEF Blank
<1> HIDE DEF blank
<1>4. blank \in Seq(Nat) /\ Len(blank) = s.room
  BY <1>1, <1>3, TextOfFunction
<1>5. Fresh(s) = [s EXCEPT !.len = s.room, !.taken = 0, !.cache = blank]
  BY <1>1 DEF Fresh, SinkRecord, blank
<1> DEFINE r == Fresh(s)
<1> HIDE DEF r
<1>6. /\ r \in SinkRecord
      /\ r.len = s.room /\ r.taken = 0 /\ r.cache = blank
      /\ r.room = s.room /\ r.kind = s.kind /\ r.out = s.out
  <2>1. r = [s EXCEPT !.len = s.room, !.taken = 0, !.cache = blank]
    BY <1>5 DEF r
  <2>2. r = [kind |-> s.kind, room |-> s.room, len |-> s.room, taken |-> 0,
             cache |-> blank, out |-> s.out, count |-> s.count]
    BY <1>1, <2>1 DEF SinkRecord
  <2> QED
    BY <1>1, <1>4, <2>2 DEF SinkRecord
<1>7. SinkType(r)
  BY <1>1, <1>4, <1>6 DEF SinkType
<1>8. Pending(r) = <<>>
  BY <1>6, SubSeqEmpty DEF Pending
<1> QED
  BY <1>6, <1>7, <1>8 DEF r

(* Writing to the output changes nothing else.                             *)
LEMMA EmitType ==
  ASSUME NEW s, SinkType(s), NEW t \in Seq(Nat)
  PROVE  /\ SinkType(Emit(s, t)) /\ Emit(s, t).out = s.out \o t
         /\ Emit(s, t).room = s.room /\ Emit(s, t).kind = s.kind
         /\ Emit(s, t).cache = s.cache /\ Emit(s, t).taken = s.taken
<1>1. s.out \in Seq(Nat) /\ s \in SinkRecord
  BY DEF SinkType, SinkRecord
<1>2. s.out \o t \in Seq(Nat)
  BY <1>1, ConcatProperties
<1> QED
  BY <1>1, <1>2 DEF Emit, SinkType, SinkRecord

(* The output of r lacks some of the content of s.                         *)
TakenInPart(s, r) == Len(r.out) < Len(Content(s))

(* Emptying the cache of an iterator or a file moves its content to the    *)
(* output, or fails with a part of it there.                               *)
LEMMA FlushKeepsContent ==
  ASSUME NEW s, SinkType(s), s.kind # "span", NEW limit,
         NEW o \in Flushes(s, limit)
  PROVE  /\ SinkType(o.sink)
         /\ o.sink.kind = s.kind /\ o.sink.room = s.room
         /\ o.ok \in BOOLEAN
         /\ o.ok => Content(o.sink) = Content(s) /\ o.sink.taken = 0
         /\ ~ o.ok => s.kind = "file" /\ TakenInPart(s, o.sink)
         /\ Shows(s, o.sink, Content(s))
<1>1. /\ s.kind \in {"iterator", "file"} /\ s.out \in Seq(Nat)
      /\ s.cache \in Seq(Nat) /\ s.taken \in Nat /\ s.taken <= Len(s.cache)
  BY DEF SinkType, SinkRecord
<1>2. Pending(s) \in Seq(Nat) /\ Len(Pending(s)) = s.taken
  BY PendingText
<1>3. Delivered(s) = s.out /\ Content(s) = s.out \o Pending(s)
  BY <1>1 DEF Delivered, Content
<1>4. CASE o = Outcome(TRUE, Fresh(Emit(s, Pending(s))))
  <2> DEFINE r == Fresh(Emit(s, Pending(s)))
  <2>1. /\ SinkType(r) /\ r.taken = 0 /\ r.room = s.room /\ r.kind = s.kind
        /\ r.out = s.out \o Pending(s) /\ Pending(r) = <<>>
    BY <1>2, EmitType, FreshArea
  <2>2. o.ok = TRUE /\ o.sink = r
    BY <1>4 DEF Outcome
  <2> HIDE DEF r
  <2>3. s.out \o Pending(s) \in Seq(Nat)
    BY <1>1, <1>2, ConcatProperties
  <2>4. Delivered(r) = Content(s) /\ Content(r) = Content(s)
    BY <1>1, <1>3, <2>1, <2>3, ConcatEmptySeq DEF Delivered, Content
  <2>5. Shows(s, r, Content(s))
    <3>1. Content(s) \in Seq(Nat) /\ Begins(Delivered(s), Content(s))
      BY PendingText
    <3> QED
      BY <2>4, <3>1, LenProperties DEF Shows, Begins
  <2> QED
    BY <2>1, <2>2, <2>4, <2>5
<1>5. ASSUME NEW k \in 0..(s.taken - 1), s.kind = "file",
             o = Outcome(FALSE, Emit(s, SubSeq(s.cache, 1, k)))
      PROVE  /\ SinkType(o.sink)
             /\ o.sink.kind = s.kind /\ o.sink.room = s.room
             /\ o.ok = FALSE /\ TakenInPart(s, o.sink)
             /\ Shows(s, o.sink, Content(s))
  <2> DEFINE t == SubSeq(s.cache, 1, k)
             r == Emit(s, t)
  <2>0. k \in Nat /\ k <= s.taken /\ k <= Len(s.cache)
    BY <1>1
  <2>1. t \in Seq(Nat) /\ Len(t) = k /\ \A i \in 1..k : t[i] = s.cache[i]
    BY <1>1, <2>0, FirstOf
  <2> HIDE DEF t
  <2>2. SinkType(r) /\ r.out = s.out \o t /\ r.room = s.room
        /\ r.kind = s.kind
    BY <2>1, EmitType
  <2>3. o.ok = FALSE /\ o.sink = r
    BY <1>5 DEF Outcome, t
  <2> HIDE DEF r
  <2>4. Begins(t, Pending(s))
    <3>1. \A i \in 1..s.taken : Pending(s)[i] = s.cache[i]
      BY PendingText
    <3>2. \A i \in 1..k : i \in 1..s.taken
      BY <1>1, <2>0
    <3> QED
      BY <1>1, <1>2, <2>0, <2>1, <3>1, <3>2 DEF Begins
  <2>5. Begins(s.out \o t, s.out \o Pending(s))
    BY <1>1, <1>2, <2>1, <2>4, AppendedBegins
  <2>6. Len(s.out) <= Len(s.out \o t)
    BY <1>1, <2>1, ConcatProperties, LenProperties
  <2>7. Shows(s, r, Content(s))
    BY <1>3, <1>5, <2>2, <2>5, <2>6 DEF Shows, Delivered
  <2>8. TakenInPart(s, r)
    <3>1. /\ Len(s.out \o t) = Len(s.out) + k /\ Len(s.out) \in Nat
          /\ Len(s.out \o Pending(s)) = Len(s.out) + s.taken
      <4> DEFINE u == s.out
                 v == Pending(s)
      <4>1. u \in Seq(Nat) /\ v \in Seq(Nat) /\ t \in Seq(Nat)
        BY <1>1, <1>2, <2>1
      <4> HIDE DEF u, v
      <4>2. /\ Len(u \o t) = Len(u) + Len(t) /\ Len(u) \in Nat
            /\ Len(u \o v) = Len(u) + Len(v)
        BY <4>1, ConcatProperties, LenProperties
      <4> QED
        BY <1>2, <2>1, <4>2 DEF u, v
    <3>2. Len(s.out) + k < Len(s.out) + s.taken
      BY <1>1, <3>1
    <3> QED
      BY <1>3, <2>2, <3>1, <3>2 DEF TakenInPart
  <2> QED
    BY <2>2, <2>3, <2>7, <2>8
<1>6. CASE s.kind = "iterator"
  <2>1. o = Outcome(TRUE, Fresh(Emit(s, Pending(s))))
    BY <1>6 DEF Flushes, FlushIterator
  <2> QED
    BY <1>4, <2>1
<1>7. CASE s.kind = "file"
  <2>1. o \in FlushFile(s)
    BY <1>7 DEF Flushes
  <2>2. \/ o = Outcome(TRUE, Fresh(Emit(s, Pending(s))))
        \/ \E k \in 0..(s.taken - 1) :
             o = Outcome(FALSE, Emit(s, SubSeq(s.cache, 1, k)))
    BY <2>1 DEF FlushFile
  <2> QED
    BY <1>4, <1>5, <1>7, <2>2
<1> QED
  BY <1>1, <1>6, <1>7

----------------------------------------------------------------------------
(* Overwriting what is behind the first k characters.                      *)
LEMMA OverwriteBehind ==
  ASSUME NEW s \in Seq(Nat), NEW t \in Seq(Nat), NEW k \in Nat,
         k + Len(t) <= Len(s)
  PROVE  LET c == [i \in DOMAIN s |->
                     IF i \in (k + 1)..(k + Len(t)) THEN t[i - k] ELSE s[i]]
         IN  /\ c \in Seq(Nat) /\ Len(c) = Len(s)
             /\ SubSeq(c, 1, k + Len(t)) = SubSeq(s, 1, k) \o t
<1> DEFINE c == [i \in DOMAIN s |->
                   IF i \in (k + 1)..(k + Len(t)) THEN t[i - k] ELSE s[i]]
<1>1. Len(s) \in Nat /\ DOMAIN s = 1..Len(s) /\ Len(t) \in Nat
  BY LenProperties
<1>2. c \in [1..Len(s) -> Nat]
  <2>1. ASSUME NEW i \in 1..Len(s) PROVE c[i] \in Nat
    <3>1. CASE i \in (k + 1)..(k + Len(t))
      <4>1. i - k \in 1..Len(t)
        BY <1>1, <3>1
      <4>2. c[i] = t[i - k]
        BY <1>1, <3>1
      <4> QED
        BY <4>1, <4>2, ElementOfSeq
    <3>2. CASE i \notin (k + 1)..(k + Len(t))
      <4>1. c[i] = s[i]
        BY <1>1, <3>2
      <4> QED
        BY <4>1, ElementOfSeq
    <3> QED
      BY <3>1, <3>2
  <2> QED
    BY <1>1, <2>1
<1>3. ASSUME NEW i \in 1..k PROVE c[i] = s[i]
  BY <1>1
<1>4. ASSUME NEW i \in 1..Len(t) PROVE c[k + i] = t[i]
  <2>1. /\ k + i \in 1..Len(s) /\ k + i \in (k + 1)..(k + Len(t))
        /\ (k + i) - k = i
    BY <1>1
  <2> QED
    BY <1>1, <2>1
<1> HIDE DEF c
<1>5. c \in Seq(Nat) /\ Len(c) = Len(s)
  BY <1>1, <1>2, TextOfFunction
<1>6. k + Len(t) <= Len(c) /\ k <= Len(s)
  BY <1>1, <1>5
<1>7. SubSeq(c, 1, k + Len(t)) = SubSeq(s, 1, k) \o t
  BY <1>3, <1>4, <1>5, <1>6, FirstSplits
<1> QED
  BY <1>5, <1>7 DEF c

(* Concatenation of texts is associative.                                  *)
LEMMA AppendTwice ==
  ASSUME NEW s \in Seq(Nat), NEW t \in Seq(Nat), NEW u \in Seq(Nat)
  PROVE  (s \o t) \o u = s \o (t \o u)
BY ConcatAssociative, SMTT(60)

(* A text that fills a granted area appears at the end of the content.     *)
LEMMA FillAppends ==
  ASSUME NEW s, SinkType(s), NEW n \in Nat, s.taken + n <= s.room,
         NEW t \in Seq(Nat), Len(t) = n
  PROVE  LET r == Fill(Granted(s, n), t) IN
         /\ SinkType(r) /\ r.kind = s.kind /\ r.room = s.room
         /\ r.taken = s.taken + n
         /\ Content(r) = Content(s) \o t
         /\ Len(Delivered(s)) <= Len(Delivered(r))
<1> DEFINE c == [i \in DOMAIN s.cache |->
                   IF i \in (s.taken + 1)..(s.taken + Len(t))
                     THEN t[i - s.taken] ELSE s.cache[i]]
           r == Fill(Granted(s, n), t)
<1>1. /\ s \in SinkRecord /\ s.len = s.room /\ s.room > 0
      /\ s.room \in Nat /\ s.taken \in Nat /\ s.out \in Seq(Nat)
      /\ s.cache \in Seq(Nat) /\ Len(s.cache) = s.room
  BY DEF SinkType, SinkRecord
<1>2. /\ c \in Seq(Nat) /\ Len(c) = s.room
      /\ SubSeq(c, 1, s.taken + n) = SubSeq(s.cache, 1, s.taken) \o t
  <2> DEFINE d == s.cache
             k == s.taken
  <2>1. d \in Seq(Nat) /\ k \in Nat /\ k + Len(t) <= Len(d)
    BY <1>1
  <2> HIDE DEF d, k
  <2>2. LET e == [i \in DOMAIN d |->
                    IF i \in (k + 1)..(k + Len(t)) THEN t[i - k] ELSE d[i]]
        IN  /\ e \in Seq(Nat) /\ Len(e) = Len(d)
            /\ SubSeq(e, 1, k + Len(t)) = SubSeq(d, 1, k) \o t
    BY <2>1, OverwriteBehind
  <2> QED
    BY <1>1, <2>2 DEF d, k
<1>3. r = [[s EXCEPT !.taken = s.taken + n] EXCEPT !.cache = c]
  BY <1>1 DEF Fill, Granted, Take, SinkRecord
<1> HIDE DEF c, r
<1>4. r = [kind |-> s.kind, room |-> s.room, len |-> s.len,
           taken |-> s.taken + n, cache |-> c, out |-> s.out,
           count |-> s.count]
  BY <1>1, <1>3 DEF SinkRecord
<1>5. SinkType(r) /\ r.taken = s.taken + n
  <2>1. /\ s.kind \in {"span", "iterator", "file"}
        /\ s.len \in Nat /\ s.count \in Nat
    BY <1>1 DEF SinkRecord
  <2>2. r \in SinkRecord
    BY <1>1, <1>2, <1>4, <2>1 DEF SinkRecord
  <2>3. /\ r.len = s.room /\ r.room = s.room /\ r.taken = s.taken + n
        /\ r.cache = c
    BY <1>1, <1>4
  <2> QED
    BY <1>1, <1>2, <2>2, <2>3 DEF SinkType
<1>6. Pending(r) = Pending(s) \o t
  BY <1>2, <1>4 DEF Pending
<1>7. /\ Pending(s) \in Seq(Nat) /\ Len(Pending(s)) = s.taken
      /\ Len(Pending(r)) = s.taken + n
  BY <1>5, PendingText
<1>8. Content(r) = Content(s) \o t
  <2>1. (s.out \o Pending(s)) \o t = s.out \o (Pending(s) \o t)
    BY <1>1, <1>7, AppendTwice
  <2> QED
    BY <1>4, <1>6, <2>1 DEF Content, Delivered
<1>9. Len(Delivered(s)) <= Len(Delivered(r))
  BY <1>1, <1>4, <1>7, LenProperties DEF Delivered
<1> QED
  BY <1>4, <1>5, <1>8, <1>9 DEF r

(* What get_write_area_of_max grants can be filled to extend the content,  *)
(* and is all that was asked for unless a span ends there.  It refuses at  *)
(* the end of a span, and when a file does not take its cache.             *)
LEMMA GrantExtends ==
  ASSUME NEW s, SinkType(s), NEW limit, NEW size \in Nat \ {0},
         s.kind # "span" => size <= s.room,
         NEW g \in GrantsOfMax(s, limit, size)
  PROVE  /\ g.ok =>
              /\ g.size \in 1..size
              /\ ~ (s.kind = "span" /\ s.taken = s.room)
              /\ \A t \in Seq(Nat) : Len(t) = g.size =>
                   LET r == Fill(g, t) IN
                   /\ SinkType(r) /\ r.kind = s.kind /\ r.room = s.room
                   /\ Content(r) = Content(s) \o t
                   /\ Len(Delivered(s)) <= Len(Delivered(r))
                   /\ g.size < size => r.kind = "span" /\ r.taken = r.room
         /\ ~ g.ok =>
              /\ SinkType(g.sink)
              /\ g.sink.kind = s.kind /\ g.sink.room = s.room
              /\ s.kind # "iterator"
              /\ s.kind = "span" => g.sink = s /\ s.taken = s.room
              /\ s.kind = "file" => TakenInPart(s, g.sink)
              /\ Shows(s, g.sink, Content(s))
<1>1. /\ s.kind \in {"span", "iterator", "file"}
      /\ s.room \in Nat /\ s.taken \in Nat /\ s.len = s.room
      /\ s.taken <= s.room /\ Remaining(s) = s.room - s.taken
  BY DEF SinkType, SinkRecord, Remaining
<1>2. CASE ServedInPlace(s, s.kind = "span", size) /\ EndOfArea(s, size)
  <2>1. g = Refused(s, FALSE)
    BY <1>2 DEF GrantsOfMax
  <2>2. s.kind = "span" /\ s.taken = s.room
    BY <1>1, <1>2 DEF ServedInPlace, EndOfArea
  <2>3. ~ g.ok /\ g.sink = s
    BY <2>1 DEF Refused
  <2>4. Shows(s, s, Content(s))
    BY PendingText, LenProperties DEF Shows
  <2> QED
    BY <2>2, <2>3, <2>4
<1>3. CASE ServedInPlace(s, s.kind = "span", size) /\ ~ EndOfArea(s, size)
  <2> DEFINE n == InPlace(s, size)
  <2>1. g = Granted(s, n)
    BY <1>3 DEF GrantsOfMax
  <2>2. /\ n \in 1..size /\ s.taken + n <= s.room
        /\ n < size => s.kind = "span" /\ s.taken + n = s.room
    BY <1>1, <1>3 DEF ServedInPlace, EndOfArea, InPlace, Min2
  <2> HIDE DEF n
  <2>3. g.ok /\ g.size = n
    BY <2>1 DEF Granted
  <2>4. ASSUME NEW t \in Seq(Nat), Len(t) = n
        PROVE  LET r == Fill(g, t) IN
               /\ SinkType(r) /\ r.kind = s.kind /\ r.room = s.room
               /\ r.taken = s.taken + n
               /\ Content(r) = Content(s) \o t
               /\ Len(Delivered(s)) <= Len(Delivered(r))
    <3>1. n \in Nat
      BY <2>2
    <3> QED
      BY <2>1, <2>2, <2>4, <3>1, FillAppends
  <2>5. s.taken # s.room
    BY <1>1, <2>2
  <2> QED
    BY <2>2, <2>3, <2>4, <2>5
<1>4. CASE ~ ServedInPlace(s, s.kind = "span", size)
  <2>1. s.kind \in {"iterator", "file"} /\ s.kind # "span"
    BY <1>1, <1>4 DEF ServedInPlace
  <2>2. MakesRoom(s, limit) = Flushes(s, limit)
    BY <2>1 DEF MakesRoom
  <2>3. Min2(size, s.room) = size
    BY <1>1, <2>1 DEF Min2
  <2>4. PICK o \in Flushes(s, limit) :
          g = IF o.ok THEN Granted(Fresh(o.sink), size)
                      ELSE Refused(o.sink, TRUE)
    BY <1>4, <2>2, <2>3 DEF GrantsOfMax
  <2>5. /\ SinkType(o.sink)
        /\ o.sink.kind = s.kind /\ o.sink.room = s.room
        /\ o.ok \in BOOLEAN
        /\ o.ok => Content(o.sink) = Content(s) /\ o.sink.taken = 0
        /\ ~ o.ok => s.kind = "file" /\ TakenInPart(s, o.sink)
        /\ Shows(s, o.sink, Content(s))
    BY <2>1, FlushKeepsContent
  <2>6. CASE ~ o.ok
    <3>1. g = Refused(o.sink, TRUE)
      BY <2>4, <2>6
    <3>2. ~ g.ok /\ g.sink = o.sink
      BY <3>1 DEF Refused
    <3> QED
      BY <2>1, <2>5, <2>6, <3>2
  <2>7. CASE o.ok
    <3> DEFINE f == Fresh(o.sink)
    <3>1. g = Granted(f, size)
      BY <2>4, <2>7
    <3>2. /\ SinkType(f) /\ f.taken = 0 /\ f.kind = s.kind
          /\ f.room = s.room /\ f.out = o.sink.out /\ Pending(f) = <<>>
      BY <2>5, FreshArea
    <3> HIDE DEF f
    <3>3. Content(f) = Content(s) /\ Delivered(f) = Delivered(o.sink)
      <4>1. Pending(o.sink) = <<>>
        BY <2>5, <2>7, SubSeqEmpty DEF Pending
      <4> QED
        BY <2>1, <2>5, <2>7, <3>2, <4>1 DEF Content, Delivered
    <3>4. g.ok /\ g.size = size
      BY <3>1 DEF Granted
    <3>5. ASSUME NEW t \in Seq(Nat), Len(t) = size
          PROVE  LET r == Fill(g, t) IN
                 /\ SinkType(r) /\ r.kind = s.kind /\ r.room = s.room
                 /\ Content(r) = Content(s) \o t
                 /\ Len(Delivered(s)) <= Len(Delivered(r))
      <4> DEFINE r == Fill(g, t)
      <4>1. f.taken + size <= f.room
        BY <1>1, <2>1, <3>2
      <4>2. /\ SinkType(r) /\ r.kind = f.kind /\ r.room = f.room
            /\ Content(r) = Content(f) \o t
            /\ Len(Delivered(f)) <= Len(Delivered(r))
        BY <3>1, <3>2, <3>5, <4>1, FillAppends
      <4>3. Len(Delivered(s)) <= Len(Delivered(o.sink))
        BY <2>5 DEF Shows
      <4>4. /\ Len(Delivered(s)) \in Nat /\ Len(Delivered(f)) \in Nat
            /\ Len(Delivered(r)) \in Nat
        BY <3>2, <4>2, PendingText, LenProperties
      <4> HIDE DEF r
      <4>5. Len(Delivered(s)) <= Len(Delivered(r))
        BY <3>3, <4>2, <4>3, <4>4
      <4>6. /\ SinkType(r) /\ r.kind = s.kind /\ r.room = s.room
            /\ Content(r) = Content(s) \o t
            /\ Len(Delivered(s)) <= Len(Delivered(r))
        BY <3>2, <3>3, <4>2, <4>5
      <4> QED
        BY <4>6 DEF r
    <3>6. size \in 1..size /\ ~ (size < size)
      OBVIOUS
    <3> QED
      BY <2>1, <3>4, <3>5, <3>6
  <2> QED
    BY <2>5, <2>6, <2>7
<1> QED
  BY <1>2, <1>3, <1>4

----------------------------------------------------------------------------
(* All the buffers.  The area of a counting_buffer is empty at first.      *)
BufferRecord ==
  [kind : Kinds, room : Nat, len : Nat, taken : Nat,
   cache : Seq(Nat), out : Seq(Nat), count : Nat]

BufferType(s) ==
  /\ s \in BufferRecord
  /\ s.taken <= s.len /\ Len(s.cache) = s.room
  /\ s.len = s.room \/ (s.kind = "counting" /\ s.len = 0)
  /\ s.kind \in Cached => s.room > 0

(* How many of w characters a reader of a buffer of kind k with limit m    *)
(* sees when n of them are in its cache.                                   *)
Shown(k, m, w, n) ==
  CASE k \in {"span", "pointer"} -> w
    [] k = "counting" -> 0
    [] k = "limited" -> Min2(w - n, m)
    [] OTHER -> w - n

(* w characters have been written, the last n of them to the cache, which  *)
(* is all of them where there is nothing behind the cache.                 *)
HoldsText(s, m, w, n) ==
  /\ n \in Nat /\ n <= w /\ n <= s.taken
  /\ \A i \in 1..n : s.cache[i] = (w - n) + i
  /\ s.kind \in {"span", "pointer"} => n = w
  /\ s.kind \in {"counting", "limited"} => s.count = w - n
  /\ s.kind \notin {"span", "pointer"} =>
       s.out = Text(0, Shown(s.kind, m, w, n))

(* A file r has not taken all of the cache of s, which held the end of w   *)
(* characters.                                                             *)
FileFailed(s, r, w) ==
  /\ s.kind = "file"
  /\ \E k \in (w - s.taken)..(w - 1) : r.out = Text(0, k)

(* A refusal g breaks s, a file that has not taken its cache, or spares it. *)
Breaks(s, g, w) == g.broken = TRUE /\ FileFailed(s, g.sink, w)
Spares(g) == g.broken = FALSE

(* r is the same buffer as s with another content.                         *)
SameBuffer(s, r) == BufferType(r) /\ r.kind = s.kind /\ r.room = s.room

----------------------------------------------------------------------------
(* The members of a buffer.                                                *)
LEMMA BufferMembers ==
  ASSUME NEW s, BufferType(s)
  PROVE  /\ s.kind \in Kinds /\ s.room \in Nat /\ s.len \in Nat
         /\ s.taken \in Nat /\ s.cache \in Seq(Nat) /\ s.out \in Seq(Nat)
         /\ s.count \in Nat /\ s.taken <= s.len /\ s.len <= s.room
         /\ Len(s.cache) = s.room /\ DOMAIN s.cache = 1..s.room
         /\ s = [kind |-> s.kind, room |-> s.room, len |-> s.len,
                 taken |-> s.taken, cache |-> s.cache, out |-> s.out,
                 count |-> s.count]
<1>1. s \in BufferRecord
  BY DEF BufferType
<1>2. /\ s.kind \in Kinds /\ s.room \in Nat /\ s.len \in Nat
      /\ s.taken \in Nat /\ s.cache \in Seq(Nat) /\ s.out \in Seq(Nat)
      /\ s.count \in Nat
      /\ s = [kind |-> s.kind, room |-> s.room, len |-> s.len,
              taken |-> s.taken, cache |-> s.cache, out |-> s.out,
              count |-> s.count]
  BY <1>1 DEF BufferRecord
<1>3. s.taken <= s.len /\ s.len <= s.room /\ Len(s.cache) = s.room
  BY <1>2 DEF BufferType
<1>4. DOMAIN s.cache = 1..s.room
  BY <1>2, <1>3, LenProperties
<1> QED
  BY <1>2, <1>3, <1>4

(* How many characters a reader sees, never more than are written, grows   *)
(* with every character and every flush.                                   *)
LEMMA ShownGrows ==
  ASSUME NEW k \in Kinds, NEW m \in Nat,
         NEW w \in Nat, NEW n \in Nat, n <= w,
         NEW v \in Nat, NEW j \in Nat, j <= v, w <= v, w - n <= v - j
  PROVE  /\ Shown(k, m, w, n) \in 0..w
         /\ k = "limited" => Shown(k, m, w, n) <= m
         /\ Shown(k, m, w, n) <= Shown(k, m, v, j)
<1>1. CASE k \in {"span", "pointer"}
  BY <1>1 DEF Shown
<1>2. CASE k = "counting"
  BY <1>2 DEF Shown
<1>3. CASE k = "limited"
  BY <1>3 DEF Shown, Min2
<1>4. CASE k \in {"iterator", "file"}
  BY <1>4 DEF Shown
<1> QED
  BY <1>1, <1>2, <1>3, <1>4 DEF Kinds

(* What the reader of a buffer sees of the text.                           *)
LEMMA ReaderOfBuffer ==
  ASSUME NEW s, BufferType(s), NEW m \in Nat, NEW w \in Nat,
         NEW n, HoldsText(s, m, w, n)
  PROVE  LET r == [s EXCEPT !.taken = n] IN
         /\ Delivered(r) = Text(0, Shown(s.kind, m, w, n))
         /\ Pending(r) = Text(w - n, n)
<1> DEFINE r == [s EXCEPT !.taken = n]
<1>1. /\ s.kind \in Kinds /\ s.cache \in Seq(Nat) /\ s.taken \in Nat
      /\ s.taken <= Len(s.cache)
      /\ s = [kind |-> s.kind, room |-> s.room, len |-> s.len,
              taken |-> s.taken, cache |-> s.cache, out |-> s.out,
              count |-> s.count]
  BY BufferMembers
<1>2. /\ r.kind = s.kind /\ r.cache = s.cache /\ r.out = s.out
      /\ r.taken = n
  BY <1>1
<1>3. n \in Nat /\ n <= Len(s.cache) /\ w - n \in Nat
  BY <1>1 DEF HoldsText
<1> HIDE DEF r
<1>4. Pending(r) = Text(w - n, n)
  <2> DEFINE f == w - n
  <2>1. \A i \in 1..n : s.cache[i] = f + i
    BY DEF HoldsText
  <2>2. f \in Nat
    BY <1>3
  <2> HIDE DEF f
  <2>3. SubSeq(s.cache, 1, n) = Text(f, n)
    BY <1>1, <1>3, <2>1, <2>2, TextInCache
  <2> QED
    BY <1>2, <2>3 DEF Pending, f
<1>5. CASE s.kind \in {"span", "pointer"}
  <2>1. n = w /\ w - n = 0 /\ Shown(s.kind, m, w, n) = w
    BY <1>3, <1>5 DEF HoldsText, Shown
  <2> QED
    BY <1>2, <1>4, <1>5, <2>1 DEF Delivered, r
<1>6. CASE s.kind \notin {"span", "pointer"}
  BY <1>2, <1>4, <1>6 DEF HoldsText, Delivered, r
<1> QED
  BY <1>5, <1>6

(* A new buffer is empty, ...                                              *)
LEMMA NewBuffer ==
  ASSUME NEW k \in Kinds, NEW r \in Nat, k \in Cached => r > 0, NEW m \in Nat
  PROVE  /\ BufferType(NewSink(k, r))
         /\ NewSink(k, r).kind = k /\ NewSink(k, r).room = r
         /\ NewSink(k, r).taken = 0
         /\ HoldsText(NewSink(k, r), m, 0, 0)
<1> DEFINE blank == [i \in 1..r |-> Blank]
           l == IF k = "counting" THEN 0 ELSE r
           s == NewSink(k, r)
<1>1. blank \in Seq(Nat) /\ Len(blank) = r
  BY TextOfFunction DEF Blank
<1> HIDE DEF blank
<1>2. /\ s = [kind |-> k, room |-> r, len |-> l, taken |-> 0,
              cache |-> blank, out |-> <<>>, count |-> 0]
      /\ <<>> \in Seq(Nat) /\ l \in Nat
      /\ l = r \/ (k = "counting" /\ l = 0)
  BY EmptySeq DEF NewSink, blank
<1> HIDE DEF s, l
<1>3. /\ s.kind = k /\ s.room = r /\ s.len = l /\ s.taken = 0
      /\ s.cache = blank /\ s.out = <<>> /\ s.count = 0
  BY <1>2
<1>4. s \in BufferRecord
  BY <1>1, <1>2 DEF BufferRecord
<1>5. BufferType(s)
  BY <1>1, <1>2, <1>3, <1>4 DEF BufferType
<1>6. Shown(k, m, 0, 0) = 0 /\ Text(0, 0) = <<>>
  BY TextIsSeq, EmptySeq DEF Shown, Min2
<1>7. HoldsText(s, m, 0, 0)
  BY <1>3, <1>6 DEF HoldsText, Shown, Min2
<1> QED
  BY <1>3, <1>5, <1>7 DEF s

(* ... and so is one whose area is fresh.                                  *)
LEMMA FreshBuffer ==
  ASSUME NEW s, BufferType(s)
  PROVE  /\ SameBuffer(s, Fresh(s))
         /\ Fresh(s).taken = 0 /\ Fresh(s).len = s.room
         /\ Fresh(s).out = s.out /\ Fresh(s).count = s.count
         /\ Fresh(s) = [kind |-> s.kind, room |-> s.room, len |-> s.room,
                        taken |-> 0, cache |-> Fresh(s).cache,
                        out |-> s.out, count |-> s.count]
<1> DEFINE blank == [i \in DOMAIN s.cache |-> Blank]
           r == Fresh(s)
<1>1. /\ s.kind \in Kinds /\ s.room \in Nat /\ s.out \in Seq(Nat)
      /\ s.count \in Nat /\ DOMAIN s.cache = 1..s.room
      /\ s = [kind |-> s.kind, room |-> s.room, len |-> s.len,
              taken |-> s.taken, cache |-> s.cache, out |-> s.out,
              count |-> s.count]
  BY BufferMembers
<1>2. blank \in [1..s.room -> Nat]
  BY <1>1 DEF Blank
<1>3. r = [kind |-> s.kind, room |-> s.room, len |-> s.room, taken |-> 0,
           cache |-> blank, out |-> s.out, count |-> s.count]
  <2>1. s \in BufferRecord
    BY DEF BufferType
  <2>2. r = [s EXCEPT !.len = s.room, !.taken = 0, !.cache = blank]
    BY <2>1 DEF Fresh, BufferRecord
  <2> HIDE DEF blank, r
  <2> QED
    BY <2>1, <2>2 DEF BufferRecord
<1> HIDE DEF blank, r
<1>4. blank \in Seq(Nat) /\ Len(blank) = s.room
  BY <1>1, <1>2, TextOfFunction
<1>5. /\ r.kind = s.kind /\ r.room = s.room /\ r.len = s.room
      /\ r.taken = 0 /\ r.cache = blank /\ r.out = s.out
      /\ r.count = s.count
  BY <1>3
<1>6. r \in BufferRecord
  BY <1>1, <1>3, <1>4 DEF BufferRecord
<1>7. BufferType(r)
  BY <1>1, <1>4, <1>5, <1>6 DEF BufferType
<1> QED
  BY <1>3, <1>5, <1>7 DEF r, SameBuffer

(* Characters appended to the output of a buffer whose area is fresh.      *)
LEMMA EmptiedBuffer ==
  ASSUME NEW s, BufferType(s), NEW m \in Nat, NEW w \in Nat,
         HoldsText(s, m, w, s.taken), s.kind \notin {"span", "pointer"},
         NEW r, SameBuffer(s, r), r.taken = 0,
         s.kind \in {"counting", "limited"} => r.count = w,
         r.out = Text(0, Shown(s.kind, m, w, 0))
  PROVE  HoldsText(r, m, w, 0)
BY DEF HoldsText, SameBuffer

(* The first n pending characters are the next ones of the text.           *)
LEMMA PendingContinues ==
  ASSUME NEW s, BufferType(s), NEW m \in Nat, NEW w \in Nat,
         HoldsText(s, m, w, s.taken), NEW n \in 0..s.taken
  PROVE  /\ SubSeq(s.cache, 1, n) = Text(w - s.taken, n)
         /\ SubSeq(s.cache, 1, n) \in Seq(Nat)
         /\ Text(0, w - s.taken) \o SubSeq(s.cache, 1, n)
              = Text(0, (w - s.taken) + n)
<1> DEFINE f == w - s.taken
<1>1. /\ s.cache \in Seq(Nat) /\ s.taken \in Nat
      /\ s.taken <= Len(s.cache) /\ n \in Nat /\ n <= s.taken
      /\ f \in Nat
  BY BufferMembers DEF HoldsText
<1>2. \A i \in 1..n : s.cache[i] = f + i
  <2>1. \A i \in 1..s.taken : s.cache[i] = f + i
    BY DEF HoldsText
  <2>2. \A i \in 1..n : i \in 1..s.taken
    BY <1>1
  <2> QED
    BY <2>1, <2>2
<1>3. SubSeq(s.cache, 1, n) = Text(f, n)
  <2> DEFINE c == s.cache
  <2>1. /\ c \in Seq(Nat) /\ n <= Len(c) /\ \A i \in 1..n : c[i] = f + i
    BY <1>1, <1>2
  <2> HIDE DEF c, f
  <2>2. SubSeq(c, 1, n) = Text(f, n)
    BY <1>1, <2>1, TextInCache
  <2> QED
    BY <2>2 DEF c
<1> HIDE DEF f
<1>4. Text(f, n) \in Seq(Nat)
  BY <1>1, TextIsSeq
<1>5. Text(0, f) \o Text(f, n) = Text(0, f + n)
  BY <1>1, TextGrows
<1> QED
  BY <1>3, <1>4, <1>5 DEF f

(* Writing to the output changes nothing else.                             *)
LEMMA EmitBuffer ==
  ASSUME NEW s, BufferType(s), NEW t \in Seq(Nat)
  PROVE  /\ SameBuffer(s, Emit(s, t)) /\ Emit(s, t).out = s.out \o t
         /\ Emit(s, t).taken = s.taken /\ Emit(s, t).count = s.count
<1> DEFINE o == s.out \o t
           r == Emit(s, t)
<1>1. s \in BufferRecord /\ s.out \in Seq(Nat)
  BY BufferMembers DEF BufferType
<1>2. o \in Seq(Nat)
  BY <1>1, ConcatProperties
<1>3. r = [s EXCEPT !.out = o]
  BY <1>1 DEF Emit, BufferRecord
<1> HIDE DEF o, r
<1>4. /\ r \in BufferRecord /\ r.kind = s.kind /\ r.room = s.room
      /\ r.len = s.len /\ r.taken = s.taken /\ r.cache = s.cache
      /\ r.out = o /\ r.count = s.count
  BY <1>1, <1>2, <1>3 DEF BufferRecord
<1> QED
  BY <1>4 DEF r, o, SameBuffer, BufferType

(* So does counting.                                                       *)
LEMMA CountBuffer ==
  ASSUME NEW s, BufferType(s), NEW n \in Nat
  PROVE  LET r == [s EXCEPT !.count = @ + n] IN
         /\ SameBuffer(s, r) /\ r.count = s.count + n
         /\ r.out = s.out /\ r.taken = s.taken
<1> DEFINE r == [s EXCEPT !.count = s.count + n]
<1>1. s \in BufferRecord /\ s.count + n \in Nat
  BY BufferMembers DEF BufferType
<1>2. /\ r \in BufferRecord /\ r.kind = s.kind /\ r.room = s.room
      /\ r.len = s.len /\ r.taken = s.taken /\ r.cache = s.cache
      /\ r.out = s.out /\ r.count = s.count + n
  BY <1>1 DEF BufferRecord
<1> HIDE DEF r
<1>3. SameBuffer(s, r)
  BY <1>2 DEF SameBuffer, BufferType
<1> QED
  BY <1>2, <1>3 DEF r

(* Emptying the cache to make room delivers or counts what it held; a file *)
(* may fail.                                                               *)
LEMMA RoomIsMade ==
  ASSUME NEW s, BufferType(s), NEW m \in Nat, NEW w \in Nat,
         HoldsText(s, m, w, s.taken), s.kind \in Cached,
         NEW o \in MakesRoom(s, m)
  PROVE  /\ SameBuffer(s, o.sink) /\ o.ok \in BOOLEAN
         /\ o.ok => o.sink.taken = 0 /\ HoldsText(o.sink, m, w, 0)
         /\ ~ o.ok => FileFailed(s, o.sink, w)
<1> DEFINE f == w - s.taken
           p == Pending(s)
<1>1. /\ s.taken \in Nat /\ s.taken <= w /\ f \in Nat /\ f + s.taken = w
      /\ s.out \in Seq(Nat)
  BY BufferMembers DEF HoldsText
<1>2. /\ p = Text(f, s.taken) /\ p \in Seq(Nat)
      /\ Text(0, f) \o p = Text(0, w)
  <2> DEFINE n == s.taken
  <2>1. n \in 0..s.taken
    BY <1>1
  <2> HIDE DEF n
  <2>2. /\ SubSeq(s.cache, 1, n) = Text(f, n)
        /\ SubSeq(s.cache, 1, n) \in Seq(Nat)
        /\ Text(0, f) \o SubSeq(s.cache, 1, n) = Text(0, f + n)
    BY <2>1, PendingContinues
  <2> QED
    BY <1>1, <2>2 DEF Pending, n
<1>3. s.out = Text(0, Shown(s.kind, m, w, s.taken))
  BY DEF HoldsText, Cached
<1> HIDE DEF f, p
<1>4. CASE s.kind = "iterator" \/ s.kind = "file"
  <2>1. s.out = Text(0, f) /\ Shown(s.kind, m, w, 0) = w
    BY <1>1, <1>3, <1>4 DEF Shown, f
  <2>2. CASE o = Outcome(TRUE, Fresh(Emit(s, p)))
    <3> DEFINE e == Emit(s, p)
               r == Fresh(e)
    <3>1. SameBuffer(s, e) /\ e.out = s.out \o p
      BY <1>2, EmitBuffer
    <3> HIDE DEF e
    <3>2. /\ SameBuffer(e, r) /\ r.taken = 0 /\ r.out = e.out
      BY <3>1, FreshBuffer DEF SameBuffer
    <3> HIDE DEF r
    <3>3. o.ok = TRUE /\ o.sink = r
      BY <2>2 DEF Outcome, r, e
    <3>4. SameBuffer(s, r)
      BY <3>1, <3>2 DEF SameBuffer
    <3>5. r.out = Text(0, Shown(s.kind, m, w, 0))
      BY <1>2, <2>1, <3>1, <3>2
    <3>6. HoldsText(r, m, w, 0)
      BY <1>4, <3>2, <3>4, <3>5, EmptiedBuffer
    <3> QED
      BY <3>2, <3>3, <3>4, <3>6
  <2>3. ASSUME s.kind = "file", NEW k \in 0..(s.taken - 1),
               o = Outcome(FALSE, Emit(s, SubSeq(s.cache, 1, k)))
        PROVE  /\ SameBuffer(s, o.sink) /\ o.ok = FALSE
               /\ FileFailed(s, o.sink, w)
    <3> DEFINE t == SubSeq(s.cache, 1, k)
    <3>1. k \in 0..s.taken
      BY <1>1
    <3>2. t \in Seq(Nat) /\ Text(0, f) \o t = Text(0, f + k)
      BY <3>1, PendingContinues DEF f
    <3> HIDE DEF t
    <3>3. o.ok = FALSE /\ o.sink = Emit(s, t)
      BY <2>3 DEF Outcome, t
    <3>4. SameBuffer(s, o.sink) /\ o.sink.out = Text(0, f + k)
      BY <2>1, <3>2, <3>3, EmitBuffer
    <3>5. f + k \in (w - s.taken)..(w - 1)
      BY <1>1, <3>1 DEF f
    <3> QED
      BY <2>3, <3>3, <3>4, <3>5 DEF FileFailed
  <2>4. \/ o = Outcome(TRUE, Fresh(Emit(s, p)))
        \/ s.kind = "file" /\ \E k \in 0..(s.taken - 1) :
             o = Outcome(FALSE, Emit(s, SubSeq(s.cache, 1, k)))
    <3>1. s.kind = "iterator" => o \in FlushIterator(s)
      BY DEF MakesRoom, Flushes
    <3>2. s.kind = "file" => o \in FlushFile(s)
      BY DEF MakesRoom, Flushes
    <3> QED
      BY <1>4, <3>1, <3>2 DEF FlushIterator, FlushFile, p
  <2> QED
    BY <2>2, <2>3, <2>4
<1>5. CASE s.kind = "limited"
  <2> DEFINE open == IF s.count < m THEN m - s.count ELSE 0
             n == Min2(s.taken, open)
             t == SubSeq(s.cache, 1, n)
             e == Emit(s, t)
             h == Fresh(e)
             r == [h EXCEPT !.count = @ + s.taken]
  <2>1. s.count = f /\ s.out = Text(0, Min2(f, m))
    BY <1>3, <1>5 DEF HoldsText, Shown, f
  <2>2. /\ n \in 0..s.taken
        /\ n = 0 \/ Min2(f, m) = f
        /\ Min2(f, m) + n = Min2(w, m)
    BY <1>1, <2>1 DEF Min2
  <2>3. o.ok = TRUE /\ o.sink = r
    BY <1>5 DEF MakesRoom, Flushes, FlushLimited, Outcome
  <2> HIDE DEF n
  <2>4. /\ t \in Seq(Nat) /\ t = Text(f, n)
        /\ Text(0, f) \o t = Text(0, f + n)
    BY <2>2, PendingContinues DEF f
  <2>5. s.out \o t = Text(0, Min2(w, m))
    <3>1. CASE n = 0
      <4>1. t = <<>>
        BY <3>1, SubSeqEmpty
      <4>2. s.out \o t = s.out
        BY <1>1, <4>1, ConcatEmptySeq
      <4>3. Min2(f, m) = Min2(w, m)
        <5>1. Min2(f, m) \in Nat
          BY <1>1 DEF Min2
        <5> QED
          BY <2>2, <3>1, <5>1
      <4> QED
        BY <2>1, <4>2, <4>3
    <3>2. CASE Min2(f, m) = f
      BY <2>1, <2>2, <2>4, <3>2
    <3> QED
      BY <2>2, <3>1, <3>2
  <2> HIDE DEF t
  <2>6. SameBuffer(s, e) /\ e.out = s.out \o t /\ e.count = s.count
    BY <2>4, EmitBuffer
  <2> HIDE DEF e
  <2>7. /\ SameBuffer(e, h) /\ h.taken = 0 /\ h.out = e.out
        /\ h.count = e.count
    BY <2>6, FreshBuffer DEF SameBuffer
  <2> HIDE DEF h
  <2>8. /\ SameBuffer(h, r) /\ r.count = h.count + s.taken
        /\ r.out = h.out /\ r.taken = h.taken
    BY <1>1, <2>7, CountBuffer DEF SameBuffer
  <2> HIDE DEF r
  <2>9. SameBuffer(s, r)
    BY <2>6, <2>7, <2>8 DEF SameBuffer
  <2>10. r.count = w /\ r.out = Text(0, Shown(s.kind, m, w, 0))
    BY <1>1, <1>5, <2>1, <2>5, <2>6, <2>7, <2>8 DEF Shown
  <2>11. HoldsText(r, m, w, 0)
    BY <1>5, <2>7, <2>8, <2>9, <2>10, EmptiedBuffer
  <2> QED
    BY <2>3, <2>7, <2>8, <2>9, <2>11
<1>6. CASE s.kind = "counting"
  <2> DEFINE c == [s EXCEPT !.count = @ + s.taken]
             r == Fresh(c)
  <2>1. o.ok = TRUE /\ o.sink = r
    BY <1>6 DEF MakesRoom, Outcome
  <2>2. SameBuffer(s, c) /\ c.count = s.count + s.taken /\ c.out = s.out
    BY <1>1, CountBuffer
  <2> HIDE DEF c
  <2>3. /\ SameBuffer(c, r) /\ r.taken = 0 /\ r.out = c.out
        /\ r.count = c.count
    BY <2>2, FreshBuffer DEF SameBuffer
  <2> HIDE DEF r
  <2>4. SameBuffer(s, r)
    BY <2>2, <2>3 DEF SameBuffer
  <2>5. s.count = f
    BY <1>6 DEF HoldsText, f
  <2>6. r.count = w /\ r.out = Text(0, Shown(s.kind, m, w, 0))
    BY <1>1, <1>3, <1>6, <2>2, <2>3, <2>5 DEF Shown
  <2>7. HoldsText(r, m, w, 0)
    BY <1>6, <2>3, <2>4, <2>6, EmptiedBuffer
  <2> QED
    BY <2>1, <2>3, <2>4, <2>7
<1> QED
  BY <1>4, <1>5, <1>6 DEF Cached

(* Taking a part of the area leaves the text as it is, ...                 *)
LEMMA TakeBuffer ==
  ASSUME NEW s, BufferType(s), NEW n \in Nat, s.taken + n <= s.len,
         NEW m \in Nat, NEW w \in Nat, HoldsText(s, m, w, s.taken)
  PROVE  LET r == Take(s, n) IN
         /\ SameBuffer(s, r) /\ r.taken = s.taken + n
         /\ HoldsText(r, m, w, s.taken)
<1> DEFINE k == s.taken + n
           r == [s EXCEPT !.taken = k]
<1>1. s \in BufferRecord /\ k \in Nat /\ s.taken <= k /\ s.taken \in Nat
  BY BufferMembers DEF BufferType
<1>2. Take(s, n) = r
  BY <1>1 DEF Take, BufferRecord
<1> HIDE DEF k
<1>3. /\ r \in BufferRecord /\ r.kind = s.kind /\ r.room = s.room
      /\ r.len = s.len /\ r.taken = k /\ r.cache = s.cache
      /\ r.out = s.out /\ r.count = s.count
  BY <1>1 DEF BufferRecord
<1> HIDE DEF r
<1>4. SameBuffer(s, r)
  BY <1>3 DEF SameBuffer, BufferType, k
<1>5. HoldsText(r, m, w, s.taken)
  BY <1>1, <1>3 DEF HoldsText
<1> QED
  BY <1>2, <1>3, <1>4, <1>5 DEF k

(* ... and so does giving it back.                                         *)
LEMMA GiveBackBuffer ==
  ASSUME NEW s, BufferType(s), NEW n \in Nat, NEW k \in Nat, s.taken = k + n,
         NEW m \in Nat, NEW w \in Nat, HoldsText(s, m, w, k)
  PROVE  LET r == GiveBack(s, n) IN
         /\ SameBuffer(s, r) /\ r.taken = k /\ r.out = s.out
         /\ HoldsText(r, m, w, k)
<1> DEFINE r == [s EXCEPT !.taken = k]
<1>1. s \in BufferRecord /\ s.taken - n = k /\ k <= s.taken
  BY BufferMembers DEF BufferType
<1>2. GiveBack(s, n) = r
  BY <1>1 DEF GiveBack, BufferRecord
<1>3. /\ r \in BufferRecord /\ r.kind = s.kind /\ r.room = s.room
      /\ r.len = s.len /\ r.taken = k /\ r.cache = s.cache
      /\ r.out = s.out /\ r.count = s.count
  BY <1>1 DEF BufferRecord
<1> HIDE DEF r
<1>4. k <= s.len
  BY <1>1, BufferMembers
<1>5. SameBuffer(s, r)
  BY <1>3, <1>4 DEF SameBuffer, BufferType
<1>6. HoldsText(r, m, w, k)
  BY <1>3 DEF HoldsText
<1> QED
  BY <1>2, <1>3, <1>5, <1>6

(* The next characters of the text are put behind the last n ones.         *)
LEMMA FillBuffer ==
  ASSUME NEW s, BufferType(s), NEW m \in Nat, NEW w \in Nat, NEW n,
         HoldsText(s, m, w, n), NEW k \in Nat, n + k <= s.taken,
         NEW g, g.sink = s, g.from = n
  PROVE  LET r == Fill(g, Text(w, k)) IN
         /\ SameBuffer(s, r) /\ r.taken = s.taken
         /\ HoldsText(r, m, w + k, n + k)
<1> DEFINE t == Text(w, k)
           c == [i \in DOMAIN s.cache |->
                   IF i \in (n + 1)..(n + k) THEN t[i - n] ELSE s.cache[i]]
           r == [s EXCEPT !.cache = c]
<1>1. /\ s \in BufferRecord /\ DOMAIN s.cache = 1..s.room
      /\ s.cache \in Seq(Nat) /\ s.taken \in Nat /\ s.taken <= s.room
      /\ s.room \in Nat /\ Len(s.cache) = s.room
      /\ n \in Nat /\ n <= w
  BY BufferMembers DEF BufferType, HoldsText
<1>2. t \in Seq(Nat) /\ Len(t) = k /\ \A i \in 1..k : t[i] = w + i
  BY TextIsSeq DEF Text
<1> HIDE DEF t
<1>3. Fill(g, t) = r
  BY <1>1, <1>2 DEF Fill, BufferRecord
<1>4. ASSUME NEW i \in 1..s.room
      PROVE  /\ c[i] \in Nat
             /\ i <= n => c[i] = s.cache[i]
             /\ i \in (n + 1)..(n + k) => c[i] = w + (i - n)
  <2>1. s.cache[i] \in Nat
    BY <1>1, ElementOfSeq
  <2>2. c[i] = IF i \in (n + 1)..(n + k) THEN t[i - n] ELSE s.cache[i]
    BY <1>1
  <2>3. i \in (n + 1)..(n + k) =>
          t[i - n] = w + (i - n) /\ w + (i - n) \in Nat
    <3>1. i \in (n + 1)..(n + k) => i - n \in 1..k
      BY <1>1
    <3> QED
      BY <1>2, <3>1
  <2>4. i <= n => ~ (i \in (n + 1)..(n + k))
    BY <1>1
  <2> HIDE DEF c
  <2>5. CASE i \in (n + 1)..(n + k)
    <3>1. c[i] = w + (i - n) /\ c[i] \in Nat
      BY <2>2, <2>3, <2>5
    <3> QED
      BY <2>4, <2>5, <3>1
  <2>6. CASE ~ (i \in (n + 1)..(n + k))
    <3>1. c[i] = s.cache[i]
      BY <2>2, <2>6
    <3> QED
      BY <2>1, <2>6, <3>1
  <2> QED
    BY <2>5, <2>6
<1>5. c \in [1..s.room -> Nat]
  BY <1>1, <1>4
<1> HIDE DEF c
<1>6. c \in Seq(Nat) /\ Len(c) = s.room
  BY <1>1, <1>5, TextOfFunction
<1>7. /\ r \in BufferRecord /\ r.kind = s.kind /\ r.room = s.room
      /\ r.len = s.len /\ r.taken = s.taken /\ r.cache = c
      /\ r.out = s.out /\ r.count = s.count
  BY <1>1, <1>6 DEF BufferRecord
<1> HIDE DEF r
<1>8. SameBuffer(s, r)
  BY <1>6, <1>7 DEF SameBuffer, BufferType
<1>9. ASSUME NEW i \in 1..(n + k) PROVE c[i] = ((w + k) - (n + k)) + i
  <2>1. i \in 1..s.room
    BY <1>1
  <2>2. CASE i <= n
    <3>1. i \in 1..n /\ c[i] = s.cache[i]
      BY <1>4, <2>1, <2>2
    <3>2. c[i] = (w - n) + i
      BY <3>1 DEF HoldsText
    <3> QED
      BY <1>1, <3>2
  <2>3. CASE ~ (i <= n)
    <3>1. i \in (n + 1)..(n + k)
      BY <1>1, <2>3
    <3> QED
      BY <1>1, <1>4, <2>1, <3>1
  <2> QED
    BY <2>2, <2>3
<1>10. HoldsText(r, m, w + k, n + k)
  <2>1. /\ n + k \in Nat /\ n + k <= w + k /\ n + k <= r.taken
        /\ (w + k) - (n + k) = w - n
    BY <1>1, <1>7
  <2>2. s.kind \notin {"span", "pointer"} =>
          Shown(s.kind, m, w + k, n + k) = Shown(s.kind, m, w, n)
    BY <1>1, <2>1 DEF Shown
  <2> HIDE DEF c
  <2> QED
    BY <1>7, <1>9, <2>1, <2>2 DEF HoldsText
<1> QED
  BY <1>3, <1>7, <1>8, <1>10 DEF t

----------------------------------------------------------------------------
(* The area g that s has granted of at most `size' characters: it lies     *)
(* behind those that have not been flushed.                                *)
AreaGranted(s, g, m, w, size) ==
  /\ g.size \in Nat /\ g.size <= size
  /\ SameBuffer(s, g.sink)
  /\ g.from \in Nat /\ g.from <= s.taken
  /\ g.sink.taken = g.from + g.size
  /\ HoldsText(g.sink, m, w, g.from)

(* get_write_area_of_max grants an area as large as it can be, and refuses *)
(* at the end of a span and when a file does not take its cache.           *)
LEMMA GrantedOfMax ==
  ASSUME NEW s, BufferType(s), NEW m \in Nat, NEW w \in Nat,
         HoldsText(s, m, w, s.taken), NEW size \in Nat,
         s.kind = "pointer" => w + size <= s.room,
         NEW g \in GrantsOfMax(s, m, size)
  PROVE  /\ g.ok \in BOOLEAN
         /\ g.ok =>
              /\ AreaGranted(s, g, m, w, size)
              /\ size > 0 => g.size > 0
              /\ g.size < size => (s.kind = "span" \/ size > s.room)
              /\ (g.size < size /\ s.kind = "span") =>
                    s.taken + size > s.room
         /\ ~ g.ok =>
              /\ SameBuffer(s, g.sink) /\ size > 0
              /\ \/ /\ s.kind = "span" /\ g.sink = s /\ s.taken = s.room
                    /\ Spares(g)
                 \/ Breaks(s, g, w)
<1>1. /\ s.kind \in Kinds /\ s.room \in Nat /\ s.len \in Nat
      /\ s.taken \in Nat /\ s.taken <= s.len /\ s.len <= s.room
      /\ Remaining(s) = s.len - s.taken
      /\ s.kind # "counting" => s.len = s.room
  BY BufferMembers DEF BufferType, Remaining
<1>2. CASE ServedInPlace(s, s.kind = "span", size) /\ EndOfArea(s, size)
  <2>1. g = Refused(s, FALSE)
    BY <1>2 DEF GrantsOfMax
  <2>2. s.kind = "span" /\ s.taken = s.room /\ size > 0
    BY <1>1, <1>2 DEF ServedInPlace, EndOfArea
  <2>3. g.ok = FALSE /\ g.sink = s /\ Spares(g)
    BY <2>1 DEF Refused, Spares
  <2> QED
    BY <2>2, <2>3 DEF SameBuffer
<1>3. CASE ServedInPlace(s, s.kind = "span", size) /\ ~ EndOfArea(s, size)
  <2> DEFINE n == InPlace(s, size)
  <2>1. g = Granted(s, n)
    BY <1>3 DEF GrantsOfMax
  <2>2. /\ n \in Nat /\ n <= size /\ s.taken + n <= s.len
        /\ n < size => s.kind = "span" /\ s.taken + size > s.room
        /\ size > 0 => n > 0
    BY <1>1, <1>3 DEF ServedInPlace, EndOfArea, InPlace, Min2
  <2> HIDE DEF n
  <2>3. /\ g.ok = TRUE /\ g.size = n /\ g.from = s.taken
        /\ g.sink = Take(s, n)
    BY <2>1 DEF Granted
  <2>4. AreaGranted(s, g, m, w, size)
    BY <1>1, <2>2, <2>3, TakeBuffer DEF AreaGranted
  <2> QED
    BY <2>2, <2>3, <2>4
<1>4. CASE ~ ServedInPlace(s, s.kind = "span", size)
  <2>1. s.kind \in Cached /\ s.room > 0 /\ size > 0
    <3>1. s.kind # "span" /\ ~ (s.len - s.taken >= size)
      BY <1>1, <1>4 DEF ServedInPlace
    <3>2. s.kind = "pointer" => s.taken = w
      BY DEF HoldsText
    <3>3. s.kind # "pointer"
      BY <1>1, <3>1, <3>2
    <3>4. s.kind \in Cached
      BY <1>1, <3>1, <3>3 DEF Kinds, Cached
    <3> QED
      BY <1>1, <3>1, <3>4 DEF BufferType
  <2> DEFINE n == Min2(size, s.room)
  <2>2. /\ n \in Nat /\ n <= size /\ n > 0 /\ n <= s.room
        /\ n < size => size > s.room
    BY <1>1, <2>1 DEF Min2
  <2>3. PICK o \in MakesRoom(s, m) :
          g = IF o.ok THEN Granted(Fresh(o.sink), n) ELSE Refused(o.sink, TRUE)
    BY <1>4 DEF GrantsOfMax
  <2> HIDE DEF n
  <2>4. /\ SameBuffer(s, o.sink) /\ o.ok \in BOOLEAN
        /\ o.ok => o.sink.taken = 0 /\ HoldsText(o.sink, m, w, 0)
        /\ ~ o.ok => FileFailed(s, o.sink, w)
    BY <2>1, RoomIsMade
  <2>5. CASE ~ o.ok
    <3>1. g = Refused(o.sink, TRUE)
      BY <2>3, <2>5
    <3>2. g.ok = FALSE /\ g.sink = o.sink /\ g.broken = TRUE
      BY <3>1 DEF Refused
    <3>3. Breaks(s, g, w)
      BY <2>4, <2>5, <3>2 DEF Breaks
    <3> QED
      BY <2>1, <2>4, <3>2, <3>3
  <2>6. CASE o.ok
    <3> DEFINE f == Fresh(o.sink)
    <3>1. g = Granted(f, n)
      BY <2>3, <2>6
    <3>2. /\ SameBuffer(o.sink, f) /\ f.taken = 0 /\ f.len = o.sink.room
          /\ f.out = o.sink.out /\ f.count = o.sink.count
      BY <2>4, FreshBuffer DEF SameBuffer
    <3> HIDE DEF f
    <3>3. HoldsText(f, m, w, 0)
      BY <2>4, <2>6, <3>2 DEF HoldsText, SameBuffer
    <3>4. SameBuffer(s, f)
      BY <2>4, <3>2 DEF SameBuffer
    <3>5. /\ g.ok = TRUE /\ g.size = n /\ g.from = 0 /\ g.sink = Take(f, n)
      BY <3>1, <3>2 DEF Granted
    <3>6. BufferType(f) /\ f.taken + n <= f.len
      BY <2>2, <2>4, <3>2 DEF SameBuffer
    <3>7. /\ SameBuffer(f, Take(f, n)) /\ Take(f, n).taken = n
          /\ HoldsText(Take(f, n), m, w, 0)
      BY <2>2, <3>2, <3>3, <3>6, TakeBuffer
    <3>8. AreaGranted(s, g, m, w, size)
      BY <1>1, <2>2, <3>4, <3>5, <3>7 DEF AreaGranted, SameBuffer
    <3>9. s.kind # "span"
      BY <2>1 DEF Cached
    <3> QED
      BY <2>2, <3>5, <3>8, <3>9
  <2> QED
    BY <2>4, <2>5, <2>6
<1> QED
  BY <1>2, <1>3, <1>4

(* get_write_area_of grants all or nothing.                                *)
LEMMA GrantedOf ==
  ASSUME NEW s, BufferType(s), NEW m \in Nat, NEW w \in Nat,
         HoldsText(s, m, w, s.taken), NEW size \in Nat,
         s.kind = "pointer" => w + size <= s.room,
         NEW g \in GrantsOf(s, m, size)
  PROVE  /\ g.ok \in BOOLEAN
         /\ g.ok => AreaGranted(s, g, m, w, size) /\ g.size = size
         /\ ~ g.ok =>
              /\ SameBuffer(s, g.sink) /\ size > 0
              /\ \/ /\ HoldsText(g.sink, m, w, g.sink.taken)
                    /\ g.sink.taken <= s.taken
                    /\ \/ s.kind = "span" /\ s.taken + size > s.room
                       \/ size > s.room
                    /\ Spares(g)
                 \/ Breaks(s, g, w)
<1>1. PICK h \in GrantsOfMax(s, m, size) :
        g = IF h.ok /\ h.size < size
              THEN Refused(GiveBack(h.sink, h.size), FALSE) ELSE h
  BY DEF GrantsOf
<1>2. /\ h.ok \in BOOLEAN
      /\ h.ok =>
           /\ AreaGranted(s, h, m, w, size)
           /\ h.size < size => (s.kind = "span" \/ size > s.room)
           /\ (h.size < size /\ s.kind = "span") => s.taken + size > s.room
      /\ ~ h.ok =>
           /\ SameBuffer(s, h.sink) /\ size > 0
           /\ \/ /\ s.kind = "span" /\ h.sink = s /\ s.taken = s.room
                 /\ Spares(h)
              \/ Breaks(s, h, w)
  BY GrantedOfMax
<1>3. CASE h.ok /\ h.size < size
  <2> DEFINE b == GiveBack(h.sink, h.size)
  <2>1. g.ok = FALSE /\ g.sink = b /\ Spares(g)
    BY <1>1, <1>3 DEF Refused, Spares
  <2>2. /\ SameBuffer(s, h.sink) /\ h.size \in Nat /\ h.from \in Nat
        /\ h.from <= s.taken /\ h.sink.taken = h.from + h.size
        /\ HoldsText(h.sink, m, w, h.from)
    BY <1>2, <1>3 DEF AreaGranted
  <2>3. /\ SameBuffer(h.sink, b) /\ b.taken = h.from
        /\ HoldsText(b, m, w, h.from)
    BY <2>2, GiveBackBuffer DEF SameBuffer
  <2> HIDE DEF b
  <2>4. SameBuffer(s, b)
    BY <2>2, <2>3 DEF SameBuffer
  <2>5. size > 0
    BY <1>3, <2>2
  <2> QED
    BY <1>2, <1>3, <2>1, <2>2, <2>3, <2>4, <2>5
<1>4. CASE ~ (h.ok /\ h.size < size)
  <2>1. g = h
    BY <1>1, <1>4
  <2>2. CASE h.ok
    <3>1. h.size = size
      BY <1>2, <1>4, <2>2 DEF AreaGranted
    <3> QED
      BY <1>2, <2>1, <2>2, <3>1
  <2>3. CASE ~ h.ok
    <3>1. ASSUME s.kind = "span", h.sink = s, s.taken = s.room
          PROVE  /\ HoldsText(h.sink, m, w, h.sink.taken)
                 /\ h.sink.taken <= s.taken
                 /\ s.taken + size > s.room
      BY <1>2, <2>3, <3>1, BufferMembers
    <3> QED
      BY <1>2, <2>1, <2>3, <3>1
  <2> QED
    BY <1>2, <2>2, <2>3
<1> QED
  BY <1>3, <1>4
=============================================================================
