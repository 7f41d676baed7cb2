----------------------- MODULE TruncatedOutput_proofs -----------------------
(***************************************************************************)
(* Proofs about TruncatedOutput for every size of the cache, every primary *)
(* at least as large, every limit, every text and every way a file fails.  *)
(***************************************************************************)
EXTENDS TruncatedOutput, Sinks_proofs

(* The primary has a cache or span at least as large as the cache of the   *)
(* truncating buffer: without it the theorems are false (run               *)
(* truncated_chunk).  format_to_n guarantees it for every iterator.        *)
LargePrimaries == \A r \in Room : r >= CacheSize

TruncRecord ==
  [len : {CacheSize}, taken : 0..CacheSize, written : Nat, used : Nat,
   limit : Limit, cache : Seq(Nat)]

TruncType(t) == t \in TruncRecord /\ Len(t.cache) = CacheSize

(* The invariant is stated of a primary p, a truncating buffer t, a call c *)
(* and a flush f in progress, the base b, a accepted characters and the    *)
(* error flag e.  A call in progress has characters left, and a flush is   *)
(* executed for the client or for the call in progress.                    *)
Types(p, t, c, f, b, a) ==
  /\ SinkType(p) /\ p.room \in Room
  /\ TruncType(t)
  /\ c \in [op : {"none", "write_str", "write_int"}, left : Nat]
  /\ c # Idle => c.op # "none" /\ c.left > 0
  /\ f \in [by : {"none", "client", "write"}, left : 0..CacheSize]
  /\ f.left <= t.taken
  /\ \/ f = NoFlush
     \/ f.by = "client" /\ c = Idle
     \/ f.by = "write" /\ c # Idle
  /\ b \in Nat /\ a \in Nat
  /\ b + a + c.left <= MaxText

(* Only between calls is there an error to be seen.                        *)
ErrorReported(c, f, e) == e \in BOOLEAN /\ (e => c = Idle /\ f = NoFlush)

(* The part of the cache that is still to be passed on.                    *)
Rest(t, f) == IF f = NoFlush THEN t.taken ELSE f.left

(* written_ never exceeds the limit or the text.                           *)
WrittenInLimit(t, a) == t.written <= t.limit /\ t.written <= a

(* The three counts of a truncating_buffer follow the text.                *)
Counts(t, f, a) ==
  /\ t.taken <= a
  /\ t.written = Min2(t.limit, a - Rest(t, f))
  /\ f = NoFlush => t.used + t.taken = a
  /\ f # NoFlush => t.used = a

(* So does count(), but behind a flush that has failed the characters in   *)
(* the cache may be counted twice.                                         *)
CountsTwice(t, a) == t.used + t.taken \in {a, a + t.taken}

(* What the primary holds, ...                                             *)
PrimaryText(p, t, b) == Content(p) = Text(0, b + t.written)

(* ... and what the cache holds.                                           *)
CacheText(t, b, a) ==
  \A i \in 1..t.taken : t.cache[i] = b + (a - t.taken) + i

(* The loop of flush() copies from the beginning of the cache: that is     *)
(* right because its second turn, if there is one, finds the primary full. *)
OneTurn(p, t, f) ==
  f # NoFlush =>
    \/ f.left = t.taken
    \/ f.left = 0
    \/ t.written = t.limit
    \/ p.kind = "span" /\ p.taken = p.room

Good(p, t, c, f, b, a, e) ==
  /\ Types(p, t, c, f, b, a)
  /\ ErrorReported(c, f, e)
  /\ WrittenInLimit(t, a)
  /\ ~ (e /\ p.kind = "file") => PrimaryText(p, t, b)
  /\ ~ e => Counts(t, f, a) /\ CacheText(t, b, a)
  /\ e => CountsTwice(t, a)
  /\ OneTurn(p, t, f)

(* The inductive invariant.                                                *)
IInv == Good(primary, trunc, call, flushing, base, accepted, failed)

----------------------------------------------------------------------------
(* A new primary is empty.                                                 *)
LEMMA NewPrimary ==
  ASSUME NEW p \in Primaries
  PROVE  /\ SinkType(p) /\ p.room \in Room
         /\ Content(p) = Text(0, 0) /\ Delivered(p) = <<>>
<1>1. PICK k \in {"span", "iterator", "file"}, r \in Room : p = NewSink(k, r)
  BY DEF Primaries
<1>2. r \in Nat \ {0}
  BY RoomAssumption
<1>3. SinkType(p) /\ Content(p) = <<>> /\ Delivered(p) = <<>>
  BY <1>1, <1>2, NewSinkIsEmpty
<1>4. p.room \in Room
  BY <1>1 DEF NewSink
<1>5. Text(0, 0) = <<>>
  BY TextIsSeq, EmptySeq
<1> QED
  BY <1>3, <1>4, <1>5

(* A new truncating buffer has written nothing.                            *)
LEMMA NewTruncIsEmpty ==
  ASSUME NEW n \in Limit
  PROVE  /\ TruncType(NewTrunc(n))
         /\ NewTrunc(n).taken = 0 /\ NewTrunc(n).written = 0
         /\ NewTrunc(n).used = 0 /\ NewTrunc(n).limit = n
<1> DEFINE blank == [i \in 1..CacheSize |-> Blank]
<1>1. blank \in Seq(Nat) /\ Len(blank) = CacheSize
  <2>1. blank \in [1..CacheSize -> Nat]
    BY DEF Blank
  <2> HIDE DEF blank
  <2> QED
    BY <2>1, TextOfFunction, CacheAssumption
<1> HIDE DEF blank
<1>2. NewTrunc(n) = [len |-> CacheSize, taken |-> 0, written |-> 0,
                     used |-> 0, limit |-> n, cache |-> blank]
  BY DEF NewTrunc, blank
<1> QED
  BY <1>1, <1>2, CacheAssumption DEF TruncType, TruncRecord

(* The members of a truncating buffer are numbers.                         *)
LEMMA TruncNumbers ==
  ASSUME NEW t, TruncType(t)
  PROVE  /\ t.len = CacheSize /\ t.taken \in Nat /\ t.taken <= CacheSize
         /\ t.written \in Nat /\ t.used \in Nat /\ t.limit \in Nat
<1>1. /\ t.len = CacheSize /\ t.taken \in 0..CacheSize /\ t.written \in Nat
      /\ t.used \in Nat /\ t.limit \in Limit
  BY DEF TruncType, TruncRecord
<1>2. t.limit \in Nat
  BY <1>1, LimitAssumption
<1> QED
  BY <1>1, <1>2, CacheAssumption

(* No call and no flush.                                                   *)
LEMMA NothingInProgress ==
  /\ Idle \in [op : {"none", "write_str", "write_int"}, left : Nat]
  /\ Idle.left = 0 /\ Idle.op = "none"
  /\ NoFlush \in [by : {"none", "client", "write"}, left : 0..CacheSize]
  /\ NoFlush.left = 0 /\ NoFlush.by = "none"
BY CacheAssumption DEF Idle, NoFlush

(* A writer has written nothing into a primary that holds a text.          *)
LEMMA StartedGood ==
  ASSUME NEW p, SinkType(p), p.room \in Room, NEW n \in Limit,
         NEW b \in Nat, b <= MaxText, Content(p) = Text(0, b)
  PROVE  Good(p, NewTrunc(n), Idle, NoFlush, b, 0, FALSE)
<1> DEFINE t == NewTrunc(n)
<1>1. /\ TruncType(t) /\ t.taken = 0 /\ t.written = 0 /\ t.used = 0
      /\ t.limit = n /\ n \in Nat
  BY NewTruncIsEmpty, LimitAssumption
<1> HIDE DEF t
<1>2. Types(p, t, Idle, NoFlush, b, 0)
  BY <1>1, NothingInProgress DEF Types
<1>3. ErrorReported(Idle, NoFlush, FALSE)
  BY DEF ErrorReported
<1>4. WrittenInLimit(t, 0) /\ Counts(t, NoFlush, 0) /\ CacheText(t, b, 0)
  BY <1>1 DEF WrittenInLimit, Counts, Rest, Min2, CacheText
<1>5. PrimaryText(p, t, b)
  <2>1. b + t.written = b
    BY <1>1
  <2> QED
    BY <2>1 DEF PrimaryText
<1> QED
  BY <1>2, <1>3, <1>4, <1>5 DEF Good, OneTurn, t

(* The initial states.                                                     *)
LEMMA InitIInv == Init => IInv
<1> SUFFICES ASSUME Init PROVE IInv
  OBVIOUS
<1>1. PICK n \in Limit : trunc = NewTrunc(n)
  BY DEF Init
<1>2. /\ SinkType(primary) /\ primary.room \in Room
      /\ Content(primary) = Text(0, 0)
  BY NewPrimary DEF Init
<1>3. 0 \in Nat /\ 0 <= MaxText
  BY TextAssumption
<1>4. Good(primary, NewTrunc(n), Idle, NoFlush, 0, 0, FALSE)
  BY <1>2, <1>3, StartedGood
<1> QED
  BY <1>1, <1>4 DEF Init, IInv

(* The next writer begins behind what the primary holds.                   *)
LEMMA OpenIInv ==
  ASSUME IInv, Open
  PROVE  IInv'
<1>1. PICK n \in Limit : trunc' = NewTrunc(n)
  BY DEF Open
<1>2. /\ call' = Idle /\ flushing' = NoFlush /\ accepted' = 0
      /\ failed' = FALSE /\ base' = Len(Content(primary'))
  BY DEF Open, Ready
<1>3. CASE primary' \in Primaries
  <2>1. /\ SinkType(primary') /\ primary'.room \in Room
        /\ Content(primary') = Text(0, 0) /\ Len(Text(0, 0)) = 0
    BY <1>3, NewPrimary, TextIsSeq
  <2>2. 0 \in Nat /\ 0 <= MaxText
    BY TextAssumption
  <2>3. Good(primary', NewTrunc(n), Idle, NoFlush, 0, 0, FALSE)
    BY <2>1, <2>2, StartedGood
  <2> QED
    BY <1>1, <1>2, <2>1, <2>3 DEF IInv
<1>4. CASE ~ (failed /\ primary.kind = "file") /\ UNCHANGED primary
  <2> DEFINE m == base + trunc.written
  <2>1. /\ SinkType(primary) /\ primary.room \in Room
        /\ PrimaryText(primary, trunc, base)
    BY <1>4 DEF IInv, Good, Types
  <2>2. m \in Nat /\ m <= MaxText
    BY TextAssumption
       DEF IInv, Good, Types, TruncType, TruncRecord, WrittenInLimit
  <2>3. Content(primary) = Text(0, m)
    BY <2>1 DEF PrimaryText
  <2> HIDE DEF m
  <2>4. Len(Content(primary)) = m
    BY <2>2, <2>3, TextIsSeq
  <2>5. Good(primary, NewTrunc(n), Idle, NoFlush, m, 0, FALSE)
    BY <2>1, <2>2, <2>3, StartedGood
  <2>6. primary' = primary /\ base' = m
    BY <1>2, <1>4, <2>4
  <2> QED
    BY <1>1, <1>2, <2>5, <2>6 DEF IInv
<1> QED
  BY <1>3, <1>4 DEF Open

(* Flushing an iterator or a file moves its content, or fails.             *)
LEMMA FlushPrimaryIInv ==
  ASSUME IInv, FlushPrimary
  PROVE  IInv'
<1>1. PICK o \in Flushes(primary, MaxText) :
        primary' = o.sink /\ failed' = ~ o.ok
  BY DEF FlushPrimary
<1>2. /\ primary.kind # "span" /\ ~ failed
      /\ call = Idle /\ flushing = NoFlush
      /\ trunc' = trunc /\ call' = call /\ flushing' = flushing
      /\ base' = base /\ accepted' = accepted
  BY DEF FlushPrimary, Ready
<1>3. SinkType(primary) /\ primary.room \in Room
  BY DEF IInv, Good, Types
<1>4. /\ SinkType(o.sink)
      /\ o.sink.kind = primary.kind /\ o.sink.room = primary.room
      /\ o.ok \in BOOLEAN
      /\ o.ok => Content(o.sink) = Content(primary)
      /\ ~ o.ok => primary.kind = "file"
  BY <1>2, <1>3, FlushKeepsContent
<1>5. Good(o.sink, trunc, call, flushing, base, accepted, ~ o.ok)
  <2>1. Types(o.sink, trunc, call, flushing, base, accepted)
    BY <1>3, <1>4 DEF IInv, Good, Types
  <2>2. ErrorReported(call, flushing, ~ o.ok)
    BY <1>2 DEF ErrorReported
  <2>3. /\ WrittenInLimit(trunc, accepted)
        /\ PrimaryText(primary, trunc, base)
        /\ Counts(trunc, flushing, accepted)
        /\ CacheText(trunc, base, accepted)
    BY <1>2 DEF IInv, Good
  <2>4. ~ (~ o.ok /\ o.sink.kind = "file") =>
           PrimaryText(o.sink, trunc, base)
    BY <1>4, <2>3 DEF PrimaryText
  <2>5. OneTurn(o.sink, trunc, flushing)
    BY <1>2 DEF OneTurn
  <2>6. CountsTwice(trunc, accepted)
    BY <1>2, <2>3 DEF Counts, CountsTwice
  <2> QED
    BY <2>1, <2>2, <2>3, <2>4, <2>5, <2>6 DEF Good
<1> QED
  BY <1>1, <1>2, <1>5 DEF IInv

(* A call of the writer begins.                                            *)
LEMMA StartIInv ==
  ASSUME IInv, NEW op \in {"write_str", "write_int"}, NEW n \in Size,
         Start(op, n)
  PROVE  IInv'
<1> DEFINE c == [op |-> op, left |-> n]
<1>1. /\ call = Idle /\ flushing = NoFlush /\ ~ failed
      /\ base + accepted + n <= MaxText /\ call' = c
      /\ primary' = primary /\ trunc' = trunc /\ flushing' = flushing
      /\ base' = base /\ accepted' = accepted /\ failed' = failed
  BY DEF Start, Ready
<1>2. /\ n \in Nat \ {0}
      /\ c \in [op : {"none", "write_str", "write_int"}, left : Nat]
      /\ c.op # "none" /\ c.left = n
  BY SizeAssumption
<1> HIDE DEF c
<1>3. Types(primary, trunc, c, flushing, base, accepted)
  BY <1>1, <1>2 DEF IInv, Good, Types
<1>4. ErrorReported(c, flushing, failed)
  BY <1>1 DEF IInv, Good, ErrorReported
<1>5. Good(primary, trunc, c, flushing, base, accepted, failed)
  BY <1>3, <1>4 DEF IInv, Good
<1> QED
  BY <1>1, <1>5 DEF IInv

(* Characters copied into the cache continue the text there.               *)
LEMMA StoreText ==
  ASSUME NEW t, TruncType(t), NEW n \in Nat, t.taken + n <= CacheSize,
         base \in Nat, accepted \in Nat, t.taken <= accepted,
         CacheText(t, base, accepted)
  PROVE  /\ TruncType(Store(t, n))
         /\ Store(t, n).taken = t.taken + n
         /\ Store(t, n).written = t.written /\ Store(t, n).used = t.used
         /\ Store(t, n).limit = t.limit
         /\ CacheText(Store(t, n), base, accepted + n)
<1> DEFINE c == [i \in DOMAIN t.cache |->
                   IF i \in (t.taken + 1)..(t.taken + n)
                     THEN base + accepted + i - t.taken
                     ELSE t.cache[i]]
<1>1. /\ t \in TruncRecord /\ t.cache \in Seq(Nat)
      /\ Len(t.cache) = CacheSize /\ t.taken \in Nat /\ CacheSize \in Nat
  BY CacheAssumption DEF TruncType, TruncRecord
<1>2. DOMAIN t.cache = 1..CacheSize
  BY <1>1, LenProperties
<1>3. /\ \A i \in 1..t.taken : c[i] = t.cache[i]
      /\ \A i \in (t.taken + 1)..(t.taken + n) :
           c[i] = base + accepted + i - t.taken
  <2>1. \A i \in 1..CacheSize :
          c[i] = IF i \in (t.taken + 1)..(t.taken + n)
                   THEN base + accepted + i - t.taken ELSE t.cache[i]
    BY <1>2
  <2>2. /\ t.taken <= CacheSize
        /\ \A i \in 1..t.taken :
             i \in 1..CacheSize /\ i \notin (t.taken + 1)..(t.taken + n)
        /\ \A i \in (t.taken + 1)..(t.taken + n) : i \in 1..CacheSize
    BY <1>1
  <2> HIDE DEF c
  <2> QED
    BY <2>1, <2>2
<1>4. c \in Seq(Nat) /\ Len(c) = CacheSize
  <2>1. ASSUME NEW i \in 1..CacheSize PROVE c[i] \in Nat
    <3>1. t.cache[i] \in Nat
      BY <1>1, <1>2, ElementOfSeq
    <3>2. i \in (t.taken + 1)..(t.taken + n) =>
            base + accepted + i - t.taken \in Nat
      BY <1>1
    <3> QED
      BY <1>2, <3>1, <3>2
  <2>2. c \in [1..CacheSize -> Nat]
    BY <1>2, <2>1
  <2> HIDE DEF c
  <2> QED
    BY <1>1, <2>2, TextOfFunction
<1>5. Store(t, n) = [[t EXCEPT !.taken = @ + n] EXCEPT !.cache = c]
  <2>1. /\ Take(t, n) = [t EXCEPT !.taken = @ + n]
        /\ Take(t, n).cache = t.cache
    BY <1>1 DEF Take, TruncRecord
  <2> QED
    BY <2>1 DEF Store
<1> HIDE DEF c
<1> DEFINE r == Store(t, n)
<1>6. /\ r \in TruncRecord /\ r.cache = c /\ r.taken = t.taken + n
      /\ r.written = t.written /\ r.used = t.used /\ r.limit = t.limit
  <2>1. r = [len |-> t.len, taken |-> t.taken + n, written |-> t.written,
             used |-> t.used, limit |-> t.limit, cache |-> c]
    BY <1>1, <1>5 DEF TruncRecord
  <2>2. t.taken + n \in 0..CacheSize
    BY <1>1
  <2> QED
    BY <1>1, <1>4, <2>1, <2>2 DEF TruncRecord
<1> HIDE DEF r
<1>7. CacheText(r, base, accepted + n)
  <2>1. ASSUME NEW i \in 1..(t.taken + n)
        PROVE  c[i] = base + ((accepted + n) - (t.taken + n)) + i
    <3>1. CASE i \in 1..t.taken
      BY <1>1, <1>3, <3>1 DEF CacheText
    <3>2. CASE i \in (t.taken + 1)..(t.taken + n)
      BY <1>1, <1>3, <3>2
    <3> QED
      BY <1>1, <3>1, <3>2
  <2> QED
    BY <1>6, <2>1 DEF CacheText
<1> QED
  BY <1>4, <1>6, <1>7 DEF r, TruncType

(* The writer fills what it is given of the cache.                         *)
LEMMA ProceedIInv ==
  ASSUME NEW t, NEW n \in Nat \ {0}, n <= call.left,
         t.taken + n <= CacheSize,
         call # Idle, Good(primary, t, call, NoFlush, base, accepted, FALSE),
         Proceed(t, n), UNCHANGED <<primary, base>>,
         flushing' = NoFlush, failed' = FALSE
  PROVE  IInv'
<1> DEFINE r == Store(t, n)
           c == IF call.left = n THEN Idle ELSE [call EXCEPT !.left = @ - n]
           m == accepted + n
<1>1. trunc' = r /\ call' = c /\ accepted' = m
  BY DEF Proceed
<1>2. /\ Types(primary, t, call, NoFlush, base, accepted)
      /\ WrittenInLimit(t, accepted) /\ Counts(t, NoFlush, accepted)
      /\ CacheText(t, base, accepted) /\ PrimaryText(primary, t, base)
  BY DEF Good
<1>3. /\ TruncType(t) /\ base \in Nat /\ accepted \in Nat
      /\ call \in [op : {"none", "write_str", "write_int"}, left : Nat]
      /\ call.op # "none" /\ call.left \in Nat
      /\ base + accepted + call.left <= MaxText
      /\ SinkType(primary) /\ primary.room \in Room
      /\ t.taken <= accepted /\ t.taken \in Nat
      /\ t.written \in Nat /\ t.used \in Nat /\ t.limit \in Nat
  <2>1. call.op # "none" /\ call.left \in Nat
    BY <1>2 DEF Types
  <2>2. t \in TruncRecord /\ t.taken <= accepted
    BY <1>2 DEF Types, TruncType, Counts
  <2>3. /\ t.taken \in Nat /\ t.written \in Nat /\ t.used \in Nat
        /\ t.limit \in Nat
    BY <1>2, TruncNumbers DEF Types
  <2> QED
    BY <1>2, <2>1, <2>2, <2>3 DEF Types
<1>4. /\ TruncType(r) /\ r.taken = t.taken + n
      /\ r.written = t.written /\ r.used = t.used /\ r.limit = t.limit
      /\ CacheText(r, base, m)
  BY <1>2, <1>3, StoreText
<1> HIDE DEF r
<1>5. /\ c \in [op : {"none", "write_str", "write_int"}, left : Nat]
      /\ c # Idle => c.op # "none" /\ c.left > 0
      /\ c.left = call.left - n
  BY <1>3 DEF Idle
<1> HIDE DEF c
<1>6. Types(primary, r, c, NoFlush, base, m)
  <2>1. 0 <= r.taken
    BY <1>3, <1>4
  <2>2. m \in Nat /\ base + m + c.left <= MaxText
    BY <1>3, <1>5, TextAssumption
  <2> HIDE DEF m
  <2> QED
    BY <1>3, <1>4, <1>5, <2>1, <2>2, NothingInProgress DEF Types
<1>7. WrittenInLimit(r, m) /\ Counts(r, NoFlush, m)
  BY <1>2, <1>3, <1>4 DEF WrittenInLimit, Counts, Rest, Min2
<1>8. PrimaryText(primary, r, base)
  BY <1>2, <1>4 DEF PrimaryText
<1>9. Good(primary, r, c, NoFlush, base, m, FALSE)
  BY <1>4, <1>6, <1>7, <1>8 DEF Good, ErrorReported, OneTurn
<1> HIDE DEF m
<1> QED
  BY <1>1, <1>9 DEF IInv

(* A write that finds room in the cache.                                   *)
LEMMA WriteIInv ==
  ASSUME IInv, Write
  PROVE  IInv'
<1> DEFINE n == InPlace(trunc, call.left)
<1>1. /\ call # Idle /\ flushing = NoFlush /\ HasRoom /\ Proceed(trunc, n)
      /\ primary' = primary /\ flushing' = flushing /\ base' = base
      /\ failed' = failed
  BY DEF Write
<1>2. failed = FALSE
  BY <1>1 DEF IInv, Good, ErrorReported
<1>3. /\ trunc.len = CacheSize /\ trunc.taken \in Nat
      /\ trunc.taken <= CacheSize
      /\ call.left \in Nat \ {0} /\ CacheSize \in Nat
  BY <1>1, CacheAssumption
     DEF IInv, Good, Types, TruncType, TruncRecord
<1>4. n = call.left /\ trunc.taken + n <= CacheSize
  BY <1>1, <1>3 DEF HasRoom, ServedInPlace, InPlace, Remaining, Min2
<1>5. Good(primary, trunc, call, NoFlush, base, accepted, FALSE)
  BY <1>1, <1>2 DEF IInv
<1> HIDE DEF n
<1>6. n \in Nat \ {0} /\ n <= call.left
  BY <1>3, <1>4
<1> QED
  BY <1>1, <1>2, <1>4, <1>5, <1>6, ProceedIInv

(* flush() adds to the count what it is about to write.                    *)
LEMMA BeginFlushIInv ==
  ASSUME IInv, flushing = NoFlush, ~ failed,
         NEW by \in {"client", "write"},
         by = "client" <=> call = Idle,
         BeginFlush(by)
  PROVE  IInv'
<1> DEFINE f == [by |-> by, left |-> trunc.taken]
           t == [trunc EXCEPT !.used = @ + trunc.taken]
<1>1. /\ flushing' = f /\ trunc' = t
      /\ primary' = primary /\ call' = call /\ base' = base
      /\ accepted' = accepted /\ failed' = failed
  BY DEF BeginFlush
<1>2. /\ TruncType(trunc) /\ trunc.taken \in 0..CacheSize
      /\ trunc.used \in Nat /\ trunc.taken \in Nat
      /\ accepted \in Nat /\ trunc.taken <= accepted
      /\ trunc.used + trunc.taken = accepted
      /\ trunc.written = Min2(trunc.limit, accepted - trunc.taken)
  BY CacheAssumption
     DEF IInv, Good, Types, TruncType, TruncRecord, Counts, Rest
<1>3. /\ TruncType(t) /\ t.used = accepted /\ t.taken = trunc.taken
      /\ t.written = trunc.written /\ t.limit = trunc.limit
      /\ t.cache = trunc.cache
  BY <1>2 DEF TruncType, TruncRecord
<1>4. /\ f \in [by : {"none", "client", "write"}, left : 0..CacheSize]
      /\ f.left = trunc.taken /\ f.by = by /\ f # NoFlush
  BY <1>2 DEF NoFlush
<1> HIDE DEF f, t
<1>5. Types(primary, t, call, f, base, accepted)
  BY <1>2, <1>3, <1>4 DEF IInv, Good, Types
<1>6. ErrorReported(call, f, failed)
  BY DEF IInv, Good, ErrorReported
<1>7. WrittenInLimit(t, accepted)
  BY <1>3 DEF IInv, Good, WrittenInLimit
<1>8. Counts(t, f, accepted)
  BY <1>2, <1>3, <1>4 DEF Counts, Rest
<1>9. CacheText(t, base, accepted) /\ PrimaryText(primary, t, base)
  BY <1>3 DEF IInv, Good, CacheText, PrimaryText
<1>10. Good(primary, t, call, f, base, accepted, failed)
  BY <1>3, <1>4, <1>5, <1>6, <1>7, <1>8, <1>9 DEF Good, OneTurn
<1> QED
  BY <1>1, <1>10 DEF IInv

(* What a flush leaves behind: an empty cache, and everything passed on    *)
(* that the limit lets through.                                            *)
LEMMA EmptiedGood ==
  ASSUME IInv, flushing # NoFlush, ~ FlushGoesOn
  PROVE  /\ Good(primary, Emptied, call, NoFlush, base, accepted, FALSE)
         /\ Emptied.taken = 0
<1> DEFINE t == Emptied
<1>1. /\ Types(primary, trunc, call, flushing, base, accepted)
      /\ WrittenInLimit(trunc, accepted)
      /\ Counts(trunc, flushing, accepted)
      /\ PrimaryText(primary, trunc, base)
  BY DEF IInv, Good, ErrorReported
<1>2. /\ TruncType(trunc) /\ accepted \in Nat /\ flushing.left \in Nat
      /\ trunc.written \in Nat /\ trunc.limit \in Nat
      /\ trunc.used = accepted
      /\ trunc.written = Min2(trunc.limit, accepted - flushing.left)
      /\ trunc.written <= trunc.limit
      /\ ~ (trunc.written < trunc.limit /\ flushing.left > 0)
  <2>1. /\ TruncType(trunc) /\ accepted \in Nat
        /\ flushing.left \in 0..CacheSize
    BY <1>1 DEF Types
  <2>2. /\ flushing.left \in Nat /\ trunc.written \in Nat
        /\ trunc.limit \in Nat
    BY <2>1, TruncNumbers, CacheAssumption
  <2>3. /\ trunc.used = accepted
        /\ trunc.written = Min2(trunc.limit, accepted - flushing.left)
    BY <1>1 DEF Counts, Rest
  <2>4. /\ trunc.written <= trunc.limit
        /\ ~ (trunc.written < trunc.limit /\ flushing.left > 0)
    BY <1>1 DEF WrittenInLimit, FlushGoesOn
  <2> QED
    BY <2>1, <2>2, <2>3, <2>4
<1>3. /\ TruncType(t) /\ t.taken = 0 /\ t.written = trunc.written
      /\ t.used = trunc.used /\ t.limit = trunc.limit
  <2>1. trunc \in TruncRecord /\ Len(trunc.cache) = CacheSize
    BY <1>2 DEF TruncType
  <2>2. t = [len |-> CacheSize, taken |-> 0, written |-> trunc.written,
             used |-> trunc.used, limit |-> trunc.limit,
             cache |-> trunc.cache]
    <3>1. trunc = [len |-> CacheSize, taken |-> trunc.taken,
                   written |-> trunc.written, used |-> trunc.used,
                   limit |-> trunc.limit, cache |-> trunc.cache]
      BY <2>1 DEF TruncRecord
    <3>2. t = [trunc EXCEPT !.len = CacheSize, !.taken = 0]
      BY DEF Emptied
    <3> HIDE DEF t
    <3> QED
      BY <3>1, <3>2
  <2>3. 0 \in 0..CacheSize
    BY CacheAssumption
  <2> HIDE DEF t
  <2> QED
    BY <2>1, <2>2, <2>3 DEF TruncType, TruncRecord
<1> HIDE DEF t
<1>4. Types(primary, t, call, NoFlush, base, accepted)
  BY <1>1, <1>3, NothingInProgress DEF Types
<1>5. WrittenInLimit(t, accepted)
  BY <1>1, <1>3 DEF WrittenInLimit
<1>6. Counts(t, NoFlush, accepted)
  BY <1>2, <1>3 DEF Counts, Rest, Min2
<1>7. CacheText(t, base, accepted)
  BY <1>3 DEF CacheText
<1>8. PrimaryText(primary, t, base)
  BY <1>1, <1>3 DEF PrimaryText
<1>9. Good(primary, t, call, NoFlush, base, accepted, FALSE)
  BY <1>4, <1>5, <1>6, <1>7, <1>8 DEF Good, ErrorReported, OneTurn
<1> QED
  BY <1>3, <1>9 DEF t

(* The ways a flush ends.                                                  *)
LEMMA ReturnIInv ==
  ASSUME IInv, Return
  PROVE  IInv'
<1>1. flushing # NoFlush /\ ~ FlushGoesOn
  BY DEF Return, FlushReturns, RequestReturns, RequestTooLong
<1>2. /\ Good(primary, Emptied, call, NoFlush, base, accepted, FALSE)
      /\ Emptied.taken = 0
  BY <1>1, EmptiedGood
<1>3. failed = FALSE
  BY <1>1 DEF IInv, Good, ErrorReported
<1>4. flushing.by = "write" => call # Idle /\ call.left \in Nat \ {0}
  BY <1>1 DEF IInv, Good, Types
<1>5. CASE FlushReturns
  <2>1. /\ trunc' = Emptied /\ flushing' = NoFlush /\ primary' = primary
        /\ call' = call /\ base' = base /\ accepted' = accepted
        /\ failed' = failed
    BY <1>5 DEF FlushReturns
  <2> QED
    BY <1>2, <1>3, <2>1 DEF IInv
<1>6. CASE RequestReturns
  <2> DEFINE n == FromCache(call.left)
  <2>1. /\ flushing.by = "write" /\ Proceed(Emptied, n)
        /\ flushing' = NoFlush /\ primary' = primary /\ base' = base
        /\ failed' = failed
    BY <1>6 DEF RequestReturns
  <2>2. /\ n \in Nat \ {0} /\ n <= call.left
        /\ Emptied.taken + n <= CacheSize
    BY <1>2, <1>4, <2>1, CacheAssumption DEF FromCache, Min2
  <2> HIDE DEF n
  <2> QED
    BY <1>2, <1>3, <1>4, <2>1, <2>2, ProceedIInv
<1>7. CASE RequestTooLong
  <2>1. /\ trunc' = GiveBack(Take(Emptied, CacheSize), CacheSize)
        /\ call' = Idle /\ flushing' = NoFlush /\ failed' = failed
        /\ primary' = primary /\ base' = base /\ accepted' = accepted
    BY <1>7 DEF RequestTooLong
  <2>2. Types(primary, Emptied, call, NoFlush, base, accepted)
    BY <1>2 DEF Good
  <2>3. GiveBack(Take(Emptied, CacheSize), CacheSize) = Emptied
    <3> DEFINE t == Emptied
               u == Take(t, CacheSize)
    <3>1. t \in TruncRecord /\ t.taken = 0
      BY <1>2, <2>2 DEF Types, TruncType
    <3> HIDE DEF t
    <3>2. 0 + CacheSize = CacheSize /\ CacheSize - CacheSize = 0
      BY CacheAssumption
    <3>3. u = [t EXCEPT !.taken = CacheSize]
      BY <3>1, <3>2 DEF Take
    <3>4. u = [len |-> t.len, taken |-> CacheSize, written |-> t.written,
               used |-> t.used, limit |-> t.limit, cache |-> t.cache]
      BY <3>1, <3>3 DEF TruncRecord
    <3> HIDE DEF u
    <3>5. u.taken - CacheSize = 0
      BY <3>2, <3>4
    <3>6. GiveBack(u, CacheSize) = [u EXCEPT !.taken = 0]
      BY <3>5 DEF GiveBack
    <3>7. GiveBack(u, CacheSize) =
            [len |-> t.len, taken |-> 0, written |-> t.written,
             used |-> t.used, limit |-> t.limit, cache |-> t.cache]
      BY <3>4, <3>6
    <3> QED
      BY <3>1, <3>7 DEF t, u, TruncRecord
  <2>4. Types(primary, Emptied, Idle, NoFlush, base, accepted)
    BY <2>2, NothingInProgress, TextAssumption DEF Types
  <2>5. Good(primary, Emptied, Idle, NoFlush, base, accepted, FALSE)
    BY <1>2, <2>4 DEF Good, ErrorReported
  <2> QED
    BY <1>3, <2>1, <2>3, <2>5 DEF IInv
<1> QED
  BY <1>5, <1>6, <1>7 DEF Return

(* When the loop of flush() takes a turn, some characters are wanted, and  *)
(* a primary that is emptied has room for them.                            *)
LEMMA TurnWants ==
  ASSUME LargePrimaries, IInv, FlushGoesOn
  PROVE  /\ Wanted \in Nat \ {0} /\ Wanted <= flushing.left
         /\ trunc.written + Wanted <= trunc.limit
         /\ Wanted = flushing.left \/ trunc.written + Wanted = trunc.limit
         /\ trunc.written + flushing.left = accepted
         /\ SinkType(primary) /\ Wanted <= primary.room
         /\ PrimaryText(primary, trunc, base)
         /\ failed = FALSE /\ flushing # NoFlush
<1>1. /\ flushing # NoFlush /\ trunc.written < trunc.limit
      /\ flushing.left > 0
  BY DEF FlushGoesOn
<1>2. failed = FALSE
  BY <1>1 DEF IInv, Good, ErrorReported
<1>3. /\ Types(primary, trunc, call, flushing, base, accepted)
      /\ Counts(trunc, flushing, accepted)
      /\ PrimaryText(primary, trunc, base)
  BY <1>2 DEF IInv, Good
<1>4. /\ flushing.left \in 0..CacheSize /\ accepted \in Nat
      /\ SinkType(primary) /\ primary.room \in Room /\ TruncType(trunc)
  BY <1>3 DEF Types
<1>5. /\ flushing.left \in Nat /\ flushing.left <= CacheSize
      /\ trunc.written \in Nat /\ trunc.limit \in Nat /\ CacheSize \in Nat
  BY <1>4, TruncNumbers, CacheAssumption
<1>6. trunc.written = Min2(trunc.limit, accepted - flushing.left)
  BY <1>1, <1>3 DEF Counts, Rest
<1>7. /\ Wanted \in Nat \ {0} /\ Wanted <= flushing.left
      /\ trunc.written + Wanted <= trunc.limit
      /\ Wanted = flushing.left \/ trunc.written + Wanted = trunc.limit
      /\ Wanted <= CacheSize
  BY <1>1, <1>5 DEF Wanted, Min2
<1>8. trunc.written + flushing.left = accepted
  BY <1>1, <1>4, <1>5, <1>6 DEF Min2
<1>9. Wanted <= primary.room
  <2>1. primary.room \in Nat /\ primary.room >= CacheSize
    BY <1>4, RoomAssumption DEF LargePrimaries
  <2> HIDE DEF Wanted
  <2> QED
    BY <1>5, <1>7, <2>1
<1> QED
  BY <1>1, <1>2, <1>3, <1>4, <1>7, <1>8, <1>9

(* A turn of the loop appends to the primary what the cache begins with,   *)
(* and that is the continuation of the text: it is the first turn.         *)
LEMMA TurnAppends ==
  ASSUME LargePrimaries, IInv, FlushGoesOn,
         NEW g \in GrantsOfMax(primary, MaxText, Wanted), g.ok
  PROVE  LET r == Fill(g, SubSeq(trunc.cache, 1, g.size)) IN
         /\ g.size \in 1..Wanted
         /\ SinkType(r) /\ r.kind = primary.kind /\ r.room = primary.room
         /\ Content(r) = Text(0, base + trunc.written + g.size)
         /\ Len(Delivered(primary)) <= Len(Delivered(r))
         /\ g.size < Wanted => r.kind = "span" /\ r.taken = r.room
<1> DEFINE n == g.size
           k == base + trunc.written
           x == SubSeq(trunc.cache, 1, n)
           r == Fill(g, x)
           w == Wanted
<1>1. /\ w \in Nat \ {0} /\ w <= flushing.left
      /\ trunc.written + flushing.left = accepted
      /\ SinkType(primary) /\ w <= primary.room
      /\ PrimaryText(primary, trunc, base)
      /\ failed = FALSE /\ flushing # NoFlush
  BY TurnWants
<1> HIDE DEF w
<1>2. /\ n \in 1..w
      /\ ~ (primary.kind = "span" /\ primary.taken = primary.room)
      /\ \A t \in Seq(Nat) : Len(t) = n =>
           LET q == Fill(g, t) IN
           /\ SinkType(q) /\ q.kind = primary.kind /\ q.room = primary.room
           /\ Content(q) = Content(primary) \o t
           /\ Len(Delivered(primary)) <= Len(Delivered(q))
           /\ n < w => q.kind = "span" /\ q.taken = q.room
  <2>1. g \in GrantsOfMax(primary, MaxText, w)
    BY DEF w
  <2> QED
    BY <1>1, <2>1, GrantExtends
<1>3. flushing.left = trunc.taken
  <2>1. flushing.left > 0 /\ trunc.written < trunc.limit
    BY DEF FlushGoesOn
  <2>2. OneTurn(primary, trunc, flushing)
    BY DEF IInv, Good
  <2>3. ~ (flushing.left = 0)
    BY <2>1
  <2>4. trunc.written # trunc.limit
    <3>1. trunc.written \in Nat /\ trunc.limit \in Nat
      BY TruncNumbers DEF IInv, Good, Types
    <3> QED
      BY <2>1, <3>1
  <2> QED
    BY <1>1, <1>2, <2>2, <2>3, <2>4 DEF OneTurn
<1>4. /\ trunc.cache \in Seq(Nat) /\ Len(trunc.cache) = CacheSize
      /\ trunc.taken \in Nat /\ trunc.taken <= CacheSize
      /\ trunc.written \in Nat /\ base \in Nat /\ accepted \in Nat
      /\ CacheText(trunc, base, accepted)
  BY <1>1, TruncNumbers DEF IInv, Good, Types, TruncType, TruncRecord
<1>5. k \in Nat /\ n \in Nat /\ n <= Len(trunc.cache)
  <2> HIDE DEF n
  <2> QED
    BY <1>1, <1>2, <1>3, <1>4
<1>6. ASSUME NEW i \in 1..n PROVE trunc.cache[i] = k + i
  <2>1. i \in 1..trunc.taken /\ base + (accepted - trunc.taken) + i = k + i
    <3> HIDE DEF n
    <3> QED
      BY <1>1, <1>2, <1>3, <1>4
  <2> QED
    BY <1>4, <2>1 DEF CacheText
<1> HIDE DEF n, k, x
<1>7. x = Text(k, n)
  BY <1>4, <1>5, <1>6, TextInCache DEF x
<1>8. x \in Seq(Nat) /\ Len(x) = n
  BY <1>5, <1>7, TextIsSeq
<1>9. /\ SinkType(r) /\ r.kind = primary.kind /\ r.room = primary.room
      /\ Content(r) = Content(primary) \o x
      /\ Len(Delivered(primary)) <= Len(Delivered(r))
      /\ n < w => r.kind = "span" /\ r.taken = r.room
  BY <1>2, <1>8
<1>10. Content(r) = Text(0, k + n)
  <2>1. Content(primary) = Text(0, k)
    BY <1>1 DEF PrimaryText, k
  <2> HIDE DEF r
  <2> QED
    BY <1>5, <1>7, <1>9, <2>1, TextGrows
<1> HIDE DEF r
<1> QED
  BY <1>2, <1>9, <1>10 DEF n, k, x, r, w

(* A turn of the loop in flush().                                          *)
LEMMA FlushChunkIInv ==
  ASSUME LargePrimaries, IInv, FlushChunk
  PROVE  IInv'
<1>1. PICK g \in GrantsOfMax(primary, MaxText, Wanted) :
        /\ g.ok
        /\ primary' = Fill(g, SubSeq(trunc.cache, 1, g.size))
        /\ trunc' = [trunc EXCEPT !.written = @ + g.size]
        /\ flushing' = [flushing EXCEPT !.left = @ - g.size]
  BY DEF FlushChunk
<1> DEFINE n == g.size
           w == Wanted
           p == Fill(g, SubSeq(trunc.cache, 1, n))
           t == [trunc EXCEPT !.written = @ + n]
           f == [flushing EXCEPT !.left = @ - n]
<1>2. /\ FlushGoesOn /\ call' = call /\ base' = base
      /\ accepted' = accepted /\ failed' = failed
      /\ primary' = p /\ trunc' = t /\ flushing' = f
  BY <1>1 DEF FlushChunk
<1>3. /\ w \in Nat \ {0} /\ w <= flushing.left
      /\ trunc.written + w <= trunc.limit
      /\ w = flushing.left \/ trunc.written + w = trunc.limit
      /\ trunc.written + flushing.left = accepted
      /\ failed = FALSE /\ flushing # NoFlush
  BY <1>2, TurnWants
<1>4. /\ n \in 1..w
      /\ SinkType(p) /\ p.kind = primary.kind /\ p.room = primary.room
      /\ Content(p) = Text(0, base + trunc.written + n)
      /\ n < w => p.kind = "span" /\ p.taken = p.room
  BY <1>1, <1>2, TurnAppends
<1> HIDE DEF n, w, p
<1>5. /\ Types(primary, trunc, call, flushing, base, accepted)
      /\ Counts(trunc, flushing, accepted)
      /\ CacheText(trunc, base, accepted)
      /\ ErrorReported(call, flushing, failed)
  BY <1>3 DEF IInv, Good
<1>6. /\ TruncType(trunc) /\ trunc.written \in Nat /\ trunc.limit \in Nat
      /\ trunc.taken \in Nat /\ trunc.taken <= accepted
      /\ trunc.used = accepted
      /\ flushing.left \in 0..CacheSize /\ flushing.left \in Nat
      /\ flushing.left <= trunc.taken
      /\ accepted \in Nat /\ base \in Nat /\ CacheSize \in Nat
      /\ flushing \in [by : {"none", "client", "write"}, left : 0..CacheSize]
      /\ flushing.by # "none"
      /\ flushing.by = "client" => call = Idle
      /\ flushing.by = "write" => call # Idle
  <2>1. /\ TruncType(trunc)
        /\ flushing \in
             [by : {"none", "client", "write"}, left : 0..CacheSize]
        /\ flushing.left <= trunc.taken
        /\ accepted \in Nat /\ base \in Nat
    BY <1>5 DEF Types
  <2>2. flushing.left \in 0..CacheSize /\ CacheSize \in Nat
    BY <2>1, CacheAssumption
  <2>3. trunc.taken <= accepted /\ trunc.used = accepted
    BY <1>3, <1>5 DEF Counts
  <2>4. /\ flushing.by # "none"
        /\ flushing.by = "client" => call = Idle
        /\ flushing.by = "write" => call # Idle
    BY <1>3, <1>5 DEF Types
  <2> QED
    BY <2>1, <2>2, <2>3, <2>4, TruncNumbers
<1>7. n \in Nat \ {0} /\ n <= flushing.left
  BY <1>3, <1>4, <1>6
<1>8. /\ TruncType(t) /\ t.written = trunc.written + n
      /\ t.taken = trunc.taken /\ t.used = trunc.used
      /\ t.limit = trunc.limit /\ t.cache = trunc.cache
  <2>1. trunc \in TruncRecord /\ Len(trunc.cache) = CacheSize
    BY <1>6 DEF TruncType
  <2>2. t = [len |-> trunc.len, taken |-> trunc.taken,
             written |-> trunc.written + n, used |-> trunc.used,
             limit |-> trunc.limit, cache |-> trunc.cache]
    BY <2>1 DEF TruncRecord
  <2>3. trunc.written + n \in Nat
    BY <1>6, <1>7
  <2> HIDE DEF t
  <2> QED
    BY <2>1, <2>2, <2>3 DEF TruncType, TruncRecord
<1>9. /\ f \in [by : {"none", "client", "write"}, left : 0..CacheSize]
      /\ f.by = flushing.by /\ f.left = flushing.left - n
  BY <1>6, <1>7
<1> HIDE DEF t, f
<1>10. f # NoFlush
  BY <1>6, <1>9 DEF NoFlush
<1>11. Types(p, t, call, f, base, accepted)
  <2>1. f.left <= t.taken
    BY <1>6, <1>7, <1>8, <1>9
  <2> QED
    BY <1>3, <1>4, <1>5, <1>8, <1>9, <1>10, <2>1 DEF Types
<1>12. ErrorReported(call, f, failed)
  BY <1>3, <1>5 DEF ErrorReported
<1>13. WrittenInLimit(t, accepted)
  BY <1>3, <1>4, <1>6, <1>7, <1>8 DEF WrittenInLimit
<1>14. Counts(t, f, accepted)
  <2>1. t.written = Min2(t.limit, accepted - f.left)
    BY <1>3, <1>4, <1>6, <1>7, <1>8, <1>9 DEF Min2
  <2> QED
    BY <1>6, <1>8, <1>10, <2>1 DEF Counts, Rest
<1>15. CacheText(t, base, accepted)
  BY <1>5, <1>8 DEF CacheText
<1>16. PrimaryText(p, t, base)
  <2>1. base + t.written = base + trunc.written + n
    BY <1>6, <1>7, <1>8
  <2> QED
    BY <1>4, <2>1 DEF PrimaryText
<1>17. OneTurn(p, t, f)
  <2>1. n = w => f.left = 0 \/ t.written = t.limit
    BY <1>3, <1>6, <1>8, <1>9
  <2>2. n = w \/ n < w
    BY <1>3, <1>4
  <2> QED
    BY <1>4, <2>1, <2>2 DEF OneTurn
<1>18. Good(p, t, call, f, base, accepted, failed)
  <2>1. ~ failed
    BY <1>2 DEF IInv, Good, ErrorReported, FlushGoesOn
  <2> QED
    BY <1>11, <1>12, <1>13, <1>14, <1>15, <1>16, <1>17, <2>1 DEF Good
<1> QED
  BY <1>2, <1>18 DEF IInv

(* The primary answers eof.                                                *)
LEMMA FlushFailsIInv ==
  ASSUME LargePrimaries, IInv, FlushFails
  PROVE  IInv'
<1>1. PICK g \in GrantsOfMax(primary, MaxText, Wanted) :
        ~ g.ok /\ primary' = g.sink
  BY DEF FlushFails
<1>2. /\ FlushGoesOn /\ call' = Idle /\ flushing' = NoFlush
      /\ failed' = TRUE /\ trunc' = trunc /\ base' = base
      /\ accepted' = accepted
  BY DEF FlushFails
<1>3. /\ Wanted \in Nat \ {0} /\ Wanted <= primary.room
      /\ SinkType(primary) /\ PrimaryText(primary, trunc, base)
  BY <1>2, TurnWants
<1>4. /\ SinkType(g.sink) /\ g.sink.kind = primary.kind
      /\ g.sink.room = primary.room
      /\ primary.kind # "iterator"
      /\ primary.kind = "span" => g.sink = primary
  <2> DEFINE w == Wanted
  <2>1. /\ w \in Nat \ {0} /\ w <= primary.room
        /\ g \in GrantsOfMax(primary, MaxText, w)
    BY <1>3
  <2> HIDE DEF w
  <2> QED
    BY <1>1, <1>3, <2>1, GrantExtends
<1>5. g.sink.kind # "file" => g.sink = primary
  BY <1>3, <1>4 DEF SinkType, SinkRecord
<1>6. /\ Types(primary, trunc, call, flushing, base, accepted)
      /\ WrittenInLimit(trunc, accepted)
  BY DEF IInv, Good
<1>7. Types(g.sink, trunc, Idle, NoFlush, base, accepted)
  <2>1. 0 <= trunc.taken
    BY <1>6, TruncNumbers DEF Types
  <2>2. base + accepted + 0 <= MaxText
    BY <1>6, TextAssumption DEF Types
  <2> QED
    BY <1>4, <1>6, <2>1, <2>2, NothingInProgress DEF Types
<1>8. ErrorReported(Idle, NoFlush, TRUE)
  BY DEF ErrorReported
<1>9. CountsTwice(trunc, accepted)
  <2>1. Counts(trunc, flushing, accepted) /\ flushing # NoFlush
    BY <1>2 DEF IInv, Good, ErrorReported, FlushGoesOn
  <2> QED
    BY <2>1 DEF Counts, CountsTwice
<1>10. Good(g.sink, trunc, Idle, NoFlush, base, accepted, TRUE)
  BY <1>3, <1>5, <1>6, <1>7, <1>8, <1>9 DEF Good, OneTurn
<1> QED
  BY <1>1, <1>2, <1>10 DEF IInv

(* Every step.                                                             *)
LEMMA NextIInv ==
  ASSUME LargePrimaries, IInv, [Next]_vars
  PROVE  IInv'
<1>1. CASE Open
  BY <1>1, OpenIInv
<1>2. CASE FlushPrimary
  BY <1>2, FlushPrimaryIInv
<1>3. ASSUME NEW op \in {"write_str", "write_int"}, NEW n \in Size,
             Start(op, n)
      PROVE  IInv'
  BY <1>3, StartIInv
<1>4. CASE Write
  BY <1>4, WriteIInv
<1>5. CASE Request
  <2>1. call # Idle /\ flushing = NoFlush /\ BeginFlush("write")
    BY <1>5 DEF Request
  <2>2. ~ failed
    BY <2>1 DEF IInv, Good, ErrorReported
  <2> QED
    BY <2>1, <2>2, BeginFlushIInv
<1>6. CASE Flush
  BY <1>6, BeginFlushIInv DEF Flush, Ready
<1>7. CASE FlushChunk
  BY <1>7, FlushChunkIInv
<1>8. CASE FlushFails
  BY <1>8, FlushFailsIInv
<1>9. CASE Return
  BY <1>9, ReturnIInv
<1>10. CASE UNCHANGED vars
  BY <1>10 DEF vars, IInv
<1> QED
  BY <1>1, <1>2, <1>3, <1>4, <1>5, <1>6, <1>7, <1>8, <1>9, <1>10 DEF Next

----------------------------------------------------------------------------
(* The invariant holds in every behaviour.                                 *)
LEMMA Invariance ==
  ASSUME LargePrimaries
  PROVE  Spec => []IInv
<1>1. Init => IInv
  BY InitIInv
<1>2. IInv /\ [Next]_vars => IInv'
  BY NextIInv
<1> QED
  BY <1>1, <1>2, PTL DEF Spec

(* The members have their types, and a flush never loses track of how much *)
(* of the cache it has to write.                                           *)
THEOREM TypeCorrect ==
  ASSUME LargePrimaries
  PROVE  Spec => []TypeOK
<1>1. Spec => []IInv
  BY Invariance
<1>2. ASSUME IInv PROVE TypeOK
  <2>1. /\ Types(primary, trunc, call, flushing, base, accepted)
        /\ failed \in BOOLEAN
    BY <1>2 DEF IInv, Good, ErrorReported
  <2>2. base \in 0..MaxText /\ accepted \in 0..MaxText
    BY <2>1, TextAssumption DEF Types
  <2>3. /\ primary.kind \in {"span", "iterator", "file"}
        /\ primary.taken <= primary.len /\ Len(primary.cache) = primary.room
    BY <2>1 DEF Types, SinkType, SinkRecord
  <2> QED
    BY <2>1, <2>2, <2>3 DEF TypeOK, Types, TruncType, TruncRecord
<1> QED
  BY <1>1, <1>2, PTL

(* Whatever is written and flushed, the primary holds the beginning of the *)
(* text behind what it held before, and never more than the limit.         *)
THEOREM PrimaryHoldsPrefix ==
  ASSUME LargePrimaries
  PROVE  Spec => []PrefixInPrimary
<1>1. Spec => []IInv
  BY Invariance
<1>2. IInv => PrefixInPrimary
  BY DEF IInv, Good, PrimaryText, WrittenInLimit, PrefixInPrimary
<1> QED
  BY <1>1, <1>2, PTL

(* Between two calls the cache holds what the primary still lacks.         *)
THEOREM CacheHoldsRest ==
  ASSUME LargePrimaries
  PROVE  Spec => []RestInCache
<1>1. Spec => []IInv
  BY Invariance
<1>2. ASSUME IInv PROVE RestInCache
  <2>1. SUFFICES ASSUME ~ failed, flushing = NoFlush
                 PROVE  /\ trunc.written =
                             Min2(trunc.limit, accepted - trunc.taken)
                        /\ Pending(trunc) =
                             Text(base + accepted - trunc.taken, trunc.taken)
    BY DEF RestInCache
  <2>2. /\ Counts(trunc, flushing, accepted)
        /\ CacheText(trunc, base, accepted)
        /\ TruncType(trunc) /\ base \in Nat /\ accepted \in Nat
    BY <1>2, <2>1 DEF IInv, Good, Types
  <2>3. trunc.written = Min2(trunc.limit, accepted - trunc.taken)
    BY <2>1, <2>2 DEF Counts, Rest
  <2> DEFINE k == base + accepted - trunc.taken
  <2>4. /\ trunc.cache \in Seq(Nat) /\ trunc.taken \in Nat
        /\ trunc.taken <= Len(trunc.cache) /\ trunc.taken <= accepted
    BY <2>2, TruncNumbers DEF TruncType, TruncRecord, Counts
  <2>5. k \in Nat
    BY <2>2, <2>4
  <2>6. ASSUME NEW i \in 1..trunc.taken PROVE trunc.cache[i] = k + i
    <3>1. base + (accepted - trunc.taken) + i = k + i
      BY <2>2, <2>4
    <3> QED
      BY <2>2, <3>1 DEF CacheText
  <2> HIDE DEF k
  <2>7. Pending(trunc) = Text(k, trunc.taken)
    BY <2>4, <2>5, <2>6, TextInCache DEF Pending
  <2> QED
    BY <2>3, <2>7 DEF k
<1> QED
  BY <1>1, <1>2, PTL

(* count() is the length of the text however much of it is cut off; behind *)
(* a flush that has failed it may count what is in the cache once more.    *)
THEOREM CountIsLength ==
  ASSUME LargePrimaries
  PROVE  Spec => []CountsText
<1>1. Spec => []IInv
  BY Invariance
<1>2. IInv => CountsText
  BY DEF IInv, Good, ErrorReported, Counts, CountsTwice, CountsText, Count
<1> QED
  BY <1>1, <1>2, PTL

(* A call that is to fail has a reason.                                    *)
LEMMA FailingStep ==
  ASSUME LargePrimaries, IInv, [Next]_vars, Fails
  PROVE  \/ /\ primary.kind = "file"
            /\ Len(primary'.out) < Len(Content(primary))
         \/ /\ primary.kind = "span"
            /\ primary.room < base + Min2(trunc.limit, accepted)
         \/ call.op = "write_int" /\ call.left > CacheSize
<1>1. CASE FlushPrimary
  <2>1. PICK o \in Flushes(primary, MaxText) :
          primary' = o.sink /\ failed' = ~ o.ok
    BY <1>1 DEF FlushPrimary
  <2>2. /\ primary.kind # "span" /\ SinkType(primary)
        /\ call = Idle
    BY <1>1 DEF FlushPrimary, Ready, IInv, Good, Types
  <2>3. ~ o.ok
    BY <2>1, <2>2 DEF Fails
  <2> QED
    BY <2>1, <2>2, <2>3, FlushKeepsContent DEF TakenInPart
<1>2. CASE FlushFails
  <2>1. PICK g \in GrantsOfMax(primary, MaxText, Wanted) :
          ~ g.ok /\ primary' = g.sink
    BY <1>2 DEF FlushFails
  <2>2. /\ Wanted \in Nat \ {0} /\ Wanted <= primary.room
        /\ Wanted <= flushing.left
        /\ trunc.written + Wanted <= trunc.limit
        /\ trunc.written + flushing.left = accepted
        /\ SinkType(primary) /\ PrimaryText(primary, trunc, base)
    BY <1>2, TurnWants DEF FlushFails
  <2> DEFINE w == Wanted
  <2>3. w \in Nat \ {0} /\ w <= flushing.left
        /\ trunc.written + w <= trunc.limit
    BY <2>2
  <2>4. /\ primary.kind \in {"file", "span"}
        /\ primary.kind = "span" => primary.taken = primary.room
        /\ primary.kind = "file" => TakenInPart(primary, g.sink)
    <3>1. w <= primary.room /\ g \in GrantsOfMax(primary, MaxText, w)
      BY <2>2
    <3> HIDE DEF w
    <3>2. /\ primary.kind # "iterator"
          /\ primary.kind = "span" => primary.taken = primary.room
          /\ primary.kind = "file" => TakenInPart(primary, g.sink)
      BY <2>1, <2>2, <2>3, <3>1, GrantExtends
    <3> QED
      BY <2>2, <3>2 DEF SinkType, SinkRecord
  <2> HIDE DEF w
  <2>5. /\ TruncType(trunc) /\ base \in Nat /\ accepted \in Nat
        /\ flushing.left \in Nat
    BY CacheAssumption DEF IInv, Good, Types
  <2>6. CASE primary.kind = "span"
    <3> DEFINE k == base + trunc.written
    <3>1. k \in Nat
      BY <2>5, TruncNumbers
    <3>2. Pending(primary) = Text(0, k)
      BY <2>2, <2>6 DEF PrimaryText, Content
    <3> HIDE DEF k
    <3>3. Len(Pending(primary)) = k
      BY <3>1, <3>2, TextIsSeq
    <3>4. primary.taken = k
      BY <2>2, <3>3, PendingText
    <3>5. primary.room = base + trunc.written
      BY <2>4, <2>6, <3>4 DEF k
    <3>6. trunc.written < Min2(trunc.limit, accepted)
      BY <2>2, <2>3, <2>5, TruncNumbers DEF Min2
    <3>7. Min2(trunc.limit, accepted) \in Nat
      BY <2>5, TruncNumbers DEF Min2
    <3>8. primary.room < base + Min2(trunc.limit, accepted)
      BY <2>5, <3>5, <3>6, <3>7, TruncNumbers
    <3> QED
      BY <2>6, <3>8
  <2> QED
    BY <2>1, <2>4, <2>6 DEF TakenInPart
<1>3. CASE RequestTooLong
  BY <1>3 DEF RequestTooLong, TooLong
<1>4. ASSUME NEW t, NEW n, Proceed(t, n), call # Idle, failed' = failed
      PROVE  FALSE
  <2>1. call \in [op : {"none", "write_str", "write_int"}, left : Nat]
        /\ call.op # "none"
    BY <1>4 DEF IInv, Good, Types
  <2>2. [call EXCEPT !.left = call.left - n].op = call.op
    BY <2>1
  <2>3. call' = Idle => call.left = n
    BY <1>4, <2>1, <2>2, NothingInProgress DEF Proceed
  <2>4. accepted' = accepted + n /\ accepted \in Nat /\ call.left \in Nat
    BY <1>4, <2>1 DEF Proceed, IInv, Good, Types
  <2>5. call' = Idle /\ accepted' < accepted + call.left
    BY <1>4 DEF Fails
  <2> QED
    BY <2>3, <2>4, <2>5
<1>5. CASE Write \/ RequestReturns
  <2>1. flushing # NoFlush /\ flushing.by = "write" => call # Idle
    BY DEF IInv, Good, Types
  <2> QED
    BY <1>4, <1>5, <2>1 DEF Write, RequestReturns
<1>6. CASE Request \/ Flush \/ FlushChunk \/ FlushReturns
  BY <1>6
     DEF Fails, Request, Flush, FlushChunk, FlushReturns, BeginFlush
<1>7. CASE Open
  BY <1>7 DEF Fails, Open, Ready
<1>8. ASSUME NEW op \in {"write_str", "write_int"}, NEW n \in Size,
             Start(op, n)
      PROVE  FALSE
  BY <1>8 DEF Fails, Start, Ready
<1>9. CASE UNCHANGED vars
  BY <1>9 DEF Fails, vars
<1> QED
  BY <1>1, <1>2, <1>3, <1>5, <1>6, <1>7, <1>8, <1>9 DEF Next, Return

(* What lies beyond the limit never makes a call fail, and a file only     *)
(* does when it does not take what it has been given.                      *)
THEOREM ErrorsAreJustified ==
  ASSUME LargePrimaries
  PROVE  Spec => EofIsJustified
<1>1. Spec => []IInv
  BY Invariance
<1>2. IInv /\ [Next]_vars =>
        [Fails =>
           \/ /\ primary.kind = "file"
              /\ Len(primary'.out) < Len(Content(primary))
           \/ primary.kind = "span"
              /\ primary.room < base + Min2(trunc.limit, accepted)
           \/ call.op = "write_int" /\ call.left > CacheSize]_vars
  BY FailingStep
<1> QED
  BY <1>1, <1>2, PTL DEF Spec, EofIsJustified

----------------------------------------------------------------------------
(* The reader of the primary sees the beginning of a text of m characters, *)
(* and the limit leaves room for them.                                     *)
Holds(m) ==
  /\ m = base + trunc.written
  /\ base \in Nat /\ accepted \in Nat /\ trunc.limit \in Nat /\ m \in Nat
  /\ m <= base + trunc.limit /\ m <= base + accepted
  /\ SinkType(primary)
  /\ Content(primary) = Text(0, m)
  /\ Delivered(primary) \in Seq(Nat)
  /\ Begins(Delivered(primary), Text(0, m))

(* That is so in every state without an error.                             *)
LEMMA ReaderSees ==
  ASSUME IInv, ~ (failed /\ primary.kind = "file")
  PROVE  \E m \in Nat : Holds(m)
<1> DEFINE m == base + trunc.written
<1>1. /\ SinkType(primary) /\ PrimaryText(primary, trunc, base)
      /\ TruncType(trunc) /\ base \in Nat /\ accepted \in Nat
      /\ WrittenInLimit(trunc, accepted)
  BY DEF IInv, Good, Types
<1>2. m \in Nat /\ m <= base + trunc.limit /\ m <= base + accepted
      /\ trunc.limit \in Nat
  BY <1>1, TruncNumbers DEF WrittenInLimit
<1>3. Content(primary) = Text(0, m)
  BY <1>1 DEF PrimaryText
<1>4. /\ Delivered(primary) \in Seq(Nat)
      /\ Begins(Delivered(primary), Content(primary))
  BY <1>1, PendingText
<1> QED
  BY <1>1, <1>2, <1>3, <1>4 DEF Holds

(* A step after which the reader sees at least as much of the text, and    *)
(* the writer has been given at least as much, writes to the stream.       *)
LEMMA StreamWrites ==
  ASSUME NEW m \in Nat, Holds(m),
         base' = base, trunc'.limit = trunc.limit,
         NEW a \in Nat, accepted <= a, accepted' = a,
         NEW d \in Seq(Nat), Delivered(primary)' = d,
         Len(Delivered(primary)) <= Len(d),
         NEW n \in Nat, Begins(d, Text(0, n)),
         n <= base + trunc.limit, n <= base + a
  PROVE  Stream!Write
<1> DEFINE o == Delivered(primary)
<1>1. /\ base \in Nat /\ accepted \in Nat /\ trunc.limit \in Nat
      /\ Len(o) \in Nat
  BY LenProperties DEF Holds
<1>2. Len(d) \in 0..n /\ d = [k \in 1..Len(d) |-> k]
  BY BeginningOfText
<1> HIDE DEF o
<1>3. /\ base + a \in Nat /\ base + a >= base + accepted
      /\ Len(d) \in Len(o)..(base + a)
      /\ Len(d) <= base + trunc.limit
  BY <1>1, <1>2 DEF o
<1> QED
  BY <1>2, <1>3 DEF Stream!Write, o

(* A step that leaves the primary alone.                                   *)
LEMMA StreamWaits ==
  ASSUME NEW m \in Nat, Holds(m),
         base' = base, trunc'.limit = trunc.limit, primary' = primary,
         NEW a \in Nat, accepted <= a, accepted' = a
  PROVE  Stream!Write
<1> DEFINE d == Delivered(primary)
<1>1. /\ d \in Seq(Nat) /\ Begins(d, Text(0, m)) /\ Len(d) \in Nat
      /\ m <= base + trunc.limit /\ m <= base + accepted
      /\ base \in Nat /\ accepted \in Nat
  BY LenProperties DEF Holds
<1>2. Delivered(primary)' = d
  OBVIOUS
<1> HIDE DEF d
<1>3. m <= base + a /\ Len(d) <= Len(d)
  BY <1>1
<1> QED
  BY <1>1, <1>2, <1>3, StreamWrites DEF d

(* What is given to the writer.                                            *)
LEMMA StreamProceeds ==
  ASSUME NEW m \in Nat, Holds(m), base' = base, primary' = primary,
         NEW t, t.limit = trunc.limit, TruncType(t),
         NEW n \in Nat, Proceed(t, n)
  PROVE  Stream!Write
<1> DEFINE a == accepted + n
<1>1. a \in Nat /\ accepted <= a
  BY DEF Holds
<1>2. accepted' = a /\ trunc' = Store(t, n)
  BY DEF Proceed
<1>3. Store(t, n).limit = t.limit
  BY DEF Store, Take, TruncType, TruncRecord
<1> HIDE DEF a
<1> QED
  BY <1>1, <1>2, <1>3, StreamWaits

(* The initial states.                                                     *)
LEMMA StreamBegins == Init => Stream!Init
<1> SUFFICES ASSUME Init PROVE Stream!Init
  OBVIOUS
<1>1. PICK n \in Limit : trunc = NewTrunc(n)
  BY DEF Init
<1>2. trunc.limit \in Nat
  BY <1>1, NewTruncIsEmpty, LimitAssumption
<1>3. base = 0 /\ accepted = 0 /\ Delivered(primary) = <<>>
  BY NewPrimary DEF Init
<1> QED
  BY <1>2, <1>3 DEF Stream!Init

(* The next writer opens a stream behind what the primary holds.           *)
LEMMA StreamOpens ==
  ASSUME IInv, Open
  PROVE  Stream!Open
<1>1. PICK n \in Limit : trunc' = NewTrunc(n)
  BY DEF Open
<1>2. /\ trunc'.limit = n /\ n \in Nat /\ accepted' = 0
      /\ base' = Len(Content(primary'))
  BY <1>1, NewTruncIsEmpty, LimitAssumption DEF Open
<1>3. CASE primary' \in Primaries
  <2>1. /\ Content(primary') = Text(0, 0) /\ Delivered(primary') = <<>>
        /\ Len(Text(0, 0)) = 0
    BY <1>3, NewPrimary, TextIsSeq
  <2>2. base' = 0
    BY <1>2, <2>1
  <2>3. 0 + n \in Nat /\ 0 + 0 = 0 /\ 0 <= 0 + n
    BY <1>2
  <2> QED
    BY <1>2, <2>1, <2>2, <2>3 DEF Stream!Open
<1>4. CASE ~ (failed /\ primary.kind = "file") /\ UNCHANGED primary
  <2>1. PICK m \in Nat : Holds(m)
    BY <1>4, ReaderSees
  <2>2. base' = m
    <3>1. Len(Content(primary)) = m
      BY <2>1, TextIsSeq DEF Holds
    <3> QED
      BY <1>2, <1>4, <3>1
  <2> DEFINE o == Delivered(primary)
  <2>3. Len(o) \in 0..m
    BY <2>1, BeginningOfText DEF Holds
  <2>4. Delivered(primary)' = o
    BY <1>4
  <2> HIDE DEF o
  <2>5. /\ m + n \in Nat /\ m + 0 = m /\ m <= m + n
        /\ m \in Len(o)..(base + accepted)
    BY <1>2, <2>1, <2>3 DEF Holds
  <2> QED
    BY <1>2, <2>2, <2>4, <2>5 DEF Stream!Open, o
<1> QED
  BY <1>3, <1>4 DEF Open

(* Every step writes to the stream, opens one or is not noticed.           *)
LEMMA StreamSteps ==
  ASSUME LargePrimaries, IInv, [Next]_vars
  PROVE  [Stream!Write \/ Stream!Open]_Stream!vars
<1>1. CASE Open
  BY <1>1, StreamOpens
<1>2. CASE UNCHANGED vars
  BY <1>2 DEF vars, Stream!vars
<1>3. ASSUME ~ failed, Next, ~ Open
      PROVE  Stream!Write
  <2>1. PICK m \in Nat : Holds(m)
    BY <1>3, ReaderSees
  <2>2. /\ accepted \in Nat /\ accepted <= accepted
        /\ TruncType(trunc) /\ base \in Nat /\ trunc.limit \in Nat
    BY <2>1 DEF Holds, IInv, Good, Types
  <2>3. CASE FlushPrimary
    <3>1. PICK s \in Flushes(primary, MaxText) : primary' = s.sink
      BY <2>3 DEF FlushPrimary
    <3>2. /\ primary.kind # "span" /\ base' = base
          /\ trunc' = trunc /\ accepted' = accepted
      BY <2>3 DEF FlushPrimary
    <3>3. /\ SinkType(s.sink)
          /\ Shows(primary, s.sink, Content(primary))
      BY <2>1, <3>2, FlushKeepsContent DEF Holds
    <3> DEFINE d == Delivered(s.sink)
    <3>4. d \in Seq(Nat)
      BY <3>3, PendingText
    <3>5. /\ Begins(d, Text(0, m)) /\ Len(Delivered(primary)) <= Len(d)
          /\ m <= base + trunc.limit /\ m <= base + accepted
      BY <2>1, <3>3 DEF Shows, Holds
    <3>6. Delivered(primary)' = d
      BY <3>1
    <3> HIDE DEF d
    <3> QED
      BY <2>1, <2>2, <3>2, <3>4, <3>5, <3>6, StreamWrites
  <2>4. ASSUME NEW op \in {"write_str", "write_int"}, NEW n \in Size,
               Start(op, n)
        PROVE  Stream!Write
    BY <2>1, <2>2, <2>4, StreamWaits DEF Start
  <2>5. CASE Write
    <3>1. InPlace(trunc, call.left) \in Nat
      <4>1. trunc.len = CacheSize /\ call.left \in Nat
        BY TruncNumbers DEF IInv, Good, Types
      <4> QED
        BY <2>2, <4>1, TruncNumbers, CacheAssumption
           DEF InPlace, Remaining, Min2
    <3> QED
      BY <2>1, <2>2, <2>5, <3>1, StreamProceeds DEF Write
  <2>6. CASE Request \/ Flush
    <3>1. PICK by \in {"client", "write"} : BeginFlush(by)
      BY <2>6 DEF Request, Flush
    <3>2. trunc'.limit = trunc.limit
      BY <2>2, <3>1 DEF BeginFlush, TruncType, TruncRecord
    <3> QED
      BY <2>1, <2>2, <3>1, <3>2, StreamWaits DEF BeginFlush
  <2>7. CASE FlushChunk
    <3>1. PICK g \in GrantsOfMax(primary, MaxText, Wanted) :
            /\ g.ok
            /\ primary' = Fill(g, SubSeq(trunc.cache, 1, g.size))
            /\ trunc' = [trunc EXCEPT !.written = @ + g.size]
      BY <2>7 DEF FlushChunk
    <3>2. FlushGoesOn /\ base' = base /\ accepted' = accepted
      BY <2>7 DEF FlushChunk
    <3> DEFINE r == Fill(g, SubSeq(trunc.cache, 1, g.size))
               n == base + trunc.written + g.size
               d == Delivered(r)
    <3>3. /\ g.size \in 1..Wanted /\ SinkType(r)
          /\ Content(r) = Text(0, n)
          /\ Len(Delivered(primary)) <= Len(d)
      BY <3>1, <3>2, TurnAppends
    <3>4. n \in Nat /\ n <= base + trunc.limit /\ n <= base + accepted
      <4> DEFINE w == Wanted
                 k == g.size
      <4>1. /\ w \in Nat \ {0} /\ w <= flushing.left
            /\ trunc.written + w <= trunc.limit
            /\ trunc.written + flushing.left = accepted
        BY <3>2, TurnWants
      <4>2. k \in 1..w /\ trunc.written \in Nat
        BY <2>2, <3>3, TruncNumbers
      <4>3. flushing.left \in Nat
        BY CacheAssumption DEF IInv, Good, Types
      <4> HIDE DEF w, k
      <4>4. /\ base + trunc.written + k \in Nat
            /\ base + trunc.written + k <= base + trunc.limit
            /\ base + trunc.written + k <= base + accepted
        BY <2>2, <4>1, <4>2, <4>3
      <4> QED
        BY <4>4 DEF k
    <3>5. trunc'.limit = trunc.limit
      BY <2>2, <3>1 DEF TruncType, TruncRecord
    <3>6. Delivered(primary)' = d
      BY <3>1
    <3>7. d \in Seq(Nat) /\ Begins(d, Content(r))
      BY <3>3, PendingText
    <3> HIDE DEF r, n, d
    <3>8. Begins(d, Text(0, n))
      BY <3>3, <3>7
    <3> QED
      BY <2>1, <2>2, <3>2, <3>3, <3>4, <3>5, <3>6, <3>7, <3>8, StreamWrites
  <2>8. CASE FlushFails
    <3>1. PICK g \in GrantsOfMax(primary, MaxText, Wanted) :
            ~ g.ok /\ primary' = g.sink
      BY <2>8 DEF FlushFails
    <3>2. /\ FlushGoesOn /\ base' = base /\ trunc' = trunc
          /\ accepted' = accepted
      BY <2>8 DEF FlushFails
    <3>3. SinkType(g.sink) /\ Shows(primary, g.sink, Content(primary))
      <4> DEFINE w == Wanted
      <4>1. /\ w \in Nat \ {0} /\ w <= primary.room
            /\ SinkType(primary) /\ g \in GrantsOfMax(primary, MaxText, w)
        BY <3>2, TurnWants
      <4> HIDE DEF w
      <4> QED
        BY <3>1, <4>1, GrantExtends
    <3> DEFINE d == Delivered(g.sink)
    <3>4. d \in Seq(Nat)
      BY <3>3, PendingText
    <3>5. /\ Begins(d, Text(0, m)) /\ Len(Delivered(primary)) <= Len(d)
          /\ m <= base + trunc.limit /\ m <= base + accepted
      BY <2>1, <3>3 DEF Shows, Holds
    <3>6. Delivered(primary)' = d
      BY <3>1
    <3> HIDE DEF d
    <3> QED
      BY <2>1, <2>2, <3>2, <3>4, <3>5, <3>6, StreamWrites
  <2>9. CASE Return
    <3>1. /\ Good(primary, Emptied, call, NoFlush, base, accepted, FALSE)
          /\ Emptied.taken = 0
      BY <2>9, EmptiedGood
         DEF Return, FlushReturns, RequestReturns, RequestTooLong
    <3>2. TruncType(Emptied)
      BY <3>1 DEF Good, Types
    <3>3. Emptied.limit = trunc.limit
      BY <2>2 DEF Emptied, TruncType, TruncRecord
    <3>4. CASE FlushReturns
      BY <2>1, <2>2, <3>3, <3>4, StreamWaits DEF FlushReturns
    <3>5. CASE RequestReturns
      <4>1. FromCache(call.left) \in Nat
        <5>1. call.left \in Nat
          BY DEF IInv, Good, Types
        <5> QED
          BY <5>1, CacheAssumption DEF FromCache, Min2
      <4> QED
        BY <2>1, <3>2, <3>3, <3>5, <4>1, StreamProceeds DEF RequestReturns
    <3>6. CASE RequestTooLong
      <4>1. GiveBack(Take(Emptied, CacheSize), CacheSize).limit = Emptied.limit
        <5> DEFINE t == Emptied
        <5>1. t \in TruncRecord
          BY <3>2 DEF TruncType
        <5> HIDE DEF t
        <5> QED
          BY <5>1 DEF GiveBack, Take, TruncRecord, t
      <4> QED
        BY <2>1, <2>2, <3>3, <3>6, <4>1, StreamWaits DEF RequestTooLong
    <3> QED
      BY <2>9, <3>4, <3>5, <3>6 DEF Return
  <2> QED
    BY <1>3, <2>3, <2>4, <2>5, <2>6, <2>7, <2>8, <2>9 DEF Next
<1>4. ASSUME failed, Next PROVE Open
  <2>1. call = Idle /\ flushing = NoFlush
    BY <1>4 DEF IInv, Good, ErrorReported
  <2> QED
    BY <1>4, <2>1
       DEF Next, FlushPrimary, Start, Write, Request, Flush, FlushChunk,
           FlushFails, FlushGoesOn, Return, FlushReturns, RequestReturns,
           RequestTooLong
<1> QED
  BY <1>1, <1>2, <1>3, <1>4

(* The caller of format_to_n sees a growing beginning of its text, and     *)
(* never more of it than the limit: the truncating buffer with its primary *)
(* implements CharStream.                                                  *)
THEOREM ImplementsStream ==
  ASSUME LargePrimaries
  PROVE  Spec => StreamsText
<1>1. Spec => []IInv
  BY Invariance
<1>2. Init => Stream!Init
  BY StreamBegins
<1>3. IInv /\ [Next]_vars => [Stream!Write \/ Stream!Open]_Stream!vars
  BY StreamSteps
<1> QED
  BY <1>1, <1>2, <1>3, PTL DEF Spec, StreamsText, Stream!Spec
=============================================================================
