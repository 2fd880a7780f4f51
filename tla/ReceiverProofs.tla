--------------------------- MODULE ReceiverProofs ---------------------------
(* What holds of the receiving half for every buffer size, every length a  *)
(* peer declares and every way in which TCP cuts up what it sends.         *)
EXTENDS Receiver, SequenceTheorems, TLAPS

\* What every step of the server keeps.
IInv == TypeOK /\ ReceiverInv

\* t is a stream that has taken a header and, with it, n bytes.
Collected(t, n) ==
  /\ t \in [out : Seq(Nat), work : Seq(Nat), cap : LogMax .. LogMax + OutLen,
            left : Int, recved : Nat, len : Nat]
  /\ t.out = <<>> /\ t.len = decl /\ ~Refused(decl)
  /\ t.left = decl - t.recved
  /\ t.work = Bytes(HdrLen, HdrLen + t.recved)
  /\ n = HdrLen + t.recved
  /\ t.recved <= t.cap
  /\ t.cap > LogMax => t.left < 0

\* A callback that reads and puts what it has read into work_buf.
Collects ==
  /\ pc = "open"
  /\ taken' \in 1 .. sent
  /\ UNCHANGED split
  /\ \E t : Collected(t, taken') /\ Settle(t)

-----------------------------------------------------------------------------
(* Buffers. *)

\* A run of bytes is a sequence of numbers.
LEMMA BytesType ==
  ASSUME NEW a \in Nat, NEW b \in Nat, a <= b
  PROVE  Bytes(a, b) \in Seq(Nat) /\ Len(Bytes(a, b)) = b - a
<1>1. \A k \in 1 .. b - a : a + k \in Nat
  OBVIOUS
<1>2. b - a \in Nat
  OBVIOUS
<1>3. Bytes(a, b) \in [1 .. b - a -> Nat]
  BY <1>1 DEF Bytes
<1> QED BY <1>2, <1>3

\* An empty run.
LEMMA BytesEmpty ==
  ASSUME NEW a \in Nat
  PROVE  Bytes(a, a) = <<>>
BY BytesType, EmptySeq

\* Runs that meet make one run: this is why buf_put keeps the order.
LEMMA BytesJoin ==
  ASSUME NEW a \in Nat, NEW b \in Nat, NEW c \in Nat, a <= b, b <= c
  PROVE  Bytes(a, b) \o Bytes(b, c) = Bytes(a, c)
<1> DEFINE x == Bytes(a, b)
           y == Bytes(b, c)
           z == Bytes(a, c)
<1>1. x \in Seq(Nat) /\ y \in Seq(Nat) /\ z \in Seq(Nat)
  BY BytesType, a <= c
<1>2. Len(x) = b - a /\ Len(y) = c - b /\ Len(z) = c - a
  BY BytesType, a <= c
<1>3. /\ \A i \in 1 .. b - a : x[i] = a + i
      /\ \A i \in 1 .. c - b : y[i] = b + i
      /\ \A i \in 1 .. c - a : z[i] = a + i
  BY DEF Bytes
<1> HIDE DEF x, y, z
<1>4. /\ x \o y \in Seq(Nat)
      /\ Len(x \o y) = Len(z)
      /\ \A i \in 1 .. Len(z) : (x \o y)[i] = IF i <= b - a THEN x[i] ELSE y[i - (b - a)]
  <2>1. /\ x \o y \in Seq(Nat)
        /\ Len(x \o y) = Len(x) + Len(y)
        /\ \A i \in 1 .. Len(x) + Len(y) :
             (x \o y)[i] = IF i <= Len(x) THEN x[i] ELSE y[i - Len(x)]
    BY <1>1, ConcatProperties
  <2>2. Len(x) + Len(y) = Len(z)
    BY <1>2
  <2> QED BY <1>2, <2>1, <2>2
<1>5. ASSUME NEW i \in 1 .. Len(z)
      PROVE  (x \o y)[i] = z[i]
  <2>1. CASE i <= b - a
    BY <1>2, <1>3, <1>4, <2>1
  <2>2. CASE i > b - a
    <3>1. i - (b - a) \in 1 .. c - b
      BY <1>2, <2>2
    <3>2. y[i - (b - a)] = b + (i - (b - a))
      BY <1>3, <3>1
    <3> QED BY <1>2, <1>3, <1>4, <2>2, <3>2
  <2> QED BY <1>2, <2>1, <2>2
<1>6. x \o y = z
  BY <1>1, <1>4, <1>5, SeqEqual
<1> QED BY <1>6 DEF x, y, z

\* buf_pick takes the first n bytes off a run and keeps the others.
LEMMA PickBytes ==
  ASSUME NEW c \in Nat, NEW n \in Nat, n <= c
  PROVE  BufPick(Bytes(0, c), n) = Bytes(n, c)
<1> DEFINE x == Bytes(0, c)
           y == SubSeq(x, n + 1, Len(x))
           z == Bytes(n, c)
<1>1. x \in Seq(Nat) /\ Len(x) = c
  BY BytesType, 0 <= c, c - 0 = c
<1>2. z \in Seq(Nat) /\ Len(z) = c - n
  BY BytesType
<1>3. /\ \A i \in 1 .. c : x[i] = i
      /\ \A i \in 1 .. c - n : z[i] = n + i
  BY DEF Bytes
<1> HIDE DEF x, z
<1>4. y \in Seq(Nat) /\ Len(y) = c - n
  BY <1>1
<1>5. ASSUME NEW i \in 1 .. Len(y)
      PROVE  y[i] = z[i]
  <2>1. y[i] = x[n + i]
    BY <1>1, <1>4
  <2>2. n + i \in 1 .. c
    BY <1>4
  <2> QED BY <1>3, <1>4, <2>1, <2>2
<1> HIDE DEF y
<1>6. y = z
  BY <1>2, <1>4, <1>5, SeqEqual
<1> QED BY <1>6 DEF x, y, z, BufPick

-----------------------------------------------------------------------------
(* The steps. *)

\* One read returns between one byte and what out_buf has room for.
LEMMA ChunkType ==
  ASSUME TypeOK, taken < sent
  PROVE  Chunk \in 1 .. OutLen /\ taken + Chunk \in 1 .. sent
BY ReceiverAssumption DEF TypeOK, StreamType, Chunk

\* buf_put leaves room for what it adds, and grows only when it must.
LEMMA GrownType ==
  ASSUME NEW cap \in LogMax .. LogMax + OutLen, NEW used \in Nat, NEW n \in 0 .. OutLen,
         used <= cap, cap > LogMax => n = 0
  PROVE  /\ Grown(cap, used, n) \in LogMax .. LogMax + OutLen
         /\ used + n <= Grown(cap, used, n)
         /\ Grown(cap, used, n) > LogMax => cap > LogMax \/ LogMax - used < n
BY ReceiverAssumption DEF Grown

\* An open connection, and what it has read, are as Unread says.
LEMMA OpenState ==
  ASSUME IInv, pc = "open"
  PROVE  Unread /\ works = <<>>
BY DEF IInv, ReceiverInv

\* Before its header a stream that is asked to read has read nothing.
LEMMA NothingRead ==
  ASSUME IInv, pc = "open", s.out = <<>>, s.left = 0
  PROVE  s.len = 0 /\ taken = 0 /\ s = Filled(<<>>)
<1>1. Unread
  BY OpenState
<1>2. s.len = 0
  BY <1>1 DEF Unread, IInv, TypeOK, StreamType
<1>3. s = Filled(Bytes(0, taken)) /\ taken \in Nat
  BY <1>1, <1>2 DEF Unread, IInv, TypeOK, StreamType
<1>4. s.out = Bytes(0, taken)
  BY <1>3 DEF Filled
<1>5. Len(Bytes(0, taken)) = taken
  BY <1>3, BytesType
<1> QED BY <1>2, <1>3, <1>4, <1>5

\* After collect_data the stream goes on, or has had its message delivered.
LEMMA SettleOk ==
  ASSUME IInv, pc = "open", taken' \in 1 .. sent, UNCHANGED split,
         NEW t, Collected(t, taken'), Settle(t)
  PROVE  IInv'
<1> USE DEF Collected
<1>1. Unread /\ works = <<>> /\ TypeOK
  BY OpenState DEF IInv
<1>2. UNCHANGED <<decl, sent, end, split>> /\ decl \in Nat /\ HdrLen \in Nat \ {0}
  BY <1>1, ReceiverAssumption DEF Settle, Continue, Close, TypeOK, StreamType
<1>3. t.work \in Seq(Nat) /\ Len(t.work) = t.recved
  <2>1. t.recved \in Nat
    OBVIOUS
  <2>2. HdrLen + t.recved \in Nat /\ HdrLen <= HdrLen + t.recved
        /\ (HdrLen + t.recved) - HdrLen = t.recved
    BY <1>2, <2>1
  <2> QED BY <1>2, <2>2, BytesType
<1>4. CASE t.left # 0
  <2>1. s' = t /\ age' = 0 /\ UNCHANGED <<pc, works>>
    BY <1>4 DEF Settle, Continue
  <2>2. t.len = decl /\ t.len > 0
    BY <1>2, ReceiverAssumption, <1>1 DEF Refused, TypeOK, StreamType
  <2>3. TypeOK'
    <3>1. t \in StreamType
      BY ReceiverAssumption DEF StreamType
    <3> QED BY <1>1, <1>2, <2>1, <3>1, ReceiverAssumption DEF TypeOK
  <2>4. Unread'
    BY <1>2, <1>4, <2>1, <2>2 DEF Unread, Refused
  <2>6. WorkBufFits'
    BY <1>3, <2>1 DEF WorkBufFits
  <2>7. Complete' /\ Intact'
    BY <1>1, <1>2, <1>4, <2>1 DEF Complete, Intact
  <2> QED BY <1>1, <2>1, <2>3, <2>4, <2>6, <2>7 DEF IInv, ReceiverInv
<1>5. CASE t.left = 0
  <2>1. t.recved = decl /\ t.recved = t.len
    BY <1>2, <1>5
  <2>2. /\ works' = Append(works, SubSeq(t.work, 1, t.recved))
        /\ pc' = "closed" /\ s' = FreshStream /\ UNCHANGED age
    BY <1>5, <2>1 DEF Settle, Close
  <2>4. SubSeq(t.work, 1, t.recved) = t.work
    BY <1>3, SubSeqFull
  <2>5. works' = <<t.work>>
    BY <1>1, <2>2, <2>4
  <2>6. Intact' /\ Complete'
    BY <1>2, <2>1, <2>5 DEF Intact, Complete, Refused
  <2>7. TypeOK'
    <3>1. s' \in StreamType
      BY <2>2, ReceiverAssumption DEF FreshStream, StreamType
    <3>2. works' \in Seq(Seq(Nat))
      BY <1>3, <2>5
    <3>3. taken' \in 0 .. sent'
      BY <1>2
    <3>4. pc' \in {"open", "closed", "aborted"} /\ age' \in 0 .. Timeout
      BY <1>1, <2>2 DEF TypeOK, StreamType
    <3>5. decl' \in Lengths /\ sent' \in 0 .. MaxSent /\ end' \in {"no", "fin", "reset"} /\ split' \in BOOLEAN
      BY <1>1, <1>2 DEF TypeOK, StreamType
    <3> QED BY <3>1, <3>2, <3>3, <3>4, <3>5 DEF TypeOK
  <2>8. WorkBufFits'
    BY <2>2, ReceiverAssumption DEF WorkBufFits, FreshStream
  <2> QED BY <2>2, <2>6, <2>7, <2>8 DEF IInv, ReceiverInv
<1> QED BY <1>1, <1>4, <1>5 DEF TypeOK, StreamType

\* The header is taken off and what follows it goes into a new work_buf.
LEMMA HeaderCollects ==
  ASSUME IInv, HeaderTaken
  PROVE  Collects
<1> DEFINE w == WithHeader(Incoming, decl)
           t == CollectData(w)
           n == Chunk - HdrLen
<1>1. TypeOK /\ pc = "open" /\ s.out = <<>> /\ s.left = 0 /\ taken < sent
      /\ Chunk >= HdrLen /\ ~Refused(decl) /\ taken' = taken + Chunk /\ UNCHANGED split
  BY DEF IInv, HeaderTaken, Reads, Readable
<1>2. taken = 0 /\ Chunk \in 1 .. OutLen /\ taken' \in 1 .. sent
  BY <1>1, NothingRead, ChunkType
<1>3. HdrLen \in Nat /\ n \in 0 .. OutLen /\ taken' = HdrLen + n /\ taken + Chunk = Chunk
      /\ HdrLen <= Chunk /\ Chunk \in Nat
  BY <1>1, <1>2, ReceiverAssumption
<1>4. w.out = Bytes(HdrLen, HdrLen + n) /\ Len(w.out) = n /\ w.out \in Seq(Nat)
  <2>1. BufPick(Bytes(0, Chunk), HdrLen) = Bytes(HdrLen, Chunk)
    BY <1>3, PickBytes
  <2>2. HdrLen + n = Chunk /\ Chunk - HdrLen = n
    BY <1>2, <1>3
  <2>3. Len(Bytes(HdrLen, Chunk)) = n /\ Bytes(HdrLen, Chunk) \in Seq(Nat)
    BY <1>3, <2>2, BytesType
  <2> QED BY <1>2, <1>3, <2>1, <2>2, <2>3 DEF WithHeader, Incoming
<1>5. w.work = <<>> /\ w.cap = LogMax /\ w.left = decl /\ w.recved = 0 /\ w.len = decl
  BY DEF WithHeader
<1> HIDE DEF w, n
<1>6. t = [out |-> <<>>, work |-> <<>> \o w.out, cap |-> Grown(LogMax, 0, n),
           left |-> decl - n, recved |-> 0 + n, len |-> decl]
  BY <1>4, <1>5 DEF CollectData
<1>7. <<>> \o w.out = w.out
  BY <1>4, ConcatEmptySeq
<1>8. decl \in Nat /\ decl <= LogMax /\ LogMax \in Nat
  BY <1>1, ReceiverAssumption DEF TypeOK, StreamType, Refused
<1>9. /\ Grown(LogMax, 0, n) \in LogMax .. LogMax + OutLen
      /\ n <= Grown(LogMax, 0, n)
      /\ Grown(LogMax, 0, n) > LogMax => LogMax < n
  BY <1>3, <1>8, ReceiverAssumption, GrownType
<1>10. Collected(t, taken')
  BY <1>1, <1>3, <1>4, <1>6, <1>7, <1>8, <1>9 DEF Collected
<1>11. Settle(t)
  BY DEF HeaderTaken, w
<1> HIDE DEF t
<1> QED BY <1>1, <1>2, <1>10, <1>11 DEF Collects

\* More of the message is put behind what is already there.
LEMMA BodyCollects ==
  ASSUME IInv, BodyTaken
  PROVE  Collects
<1> DEFINE t == CollectData(Filled(Incoming))
           n == Chunk
<1>1. TypeOK /\ pc = "open" /\ s.out = <<>> /\ s.left > 0 /\ taken < sent
      /\ taken' = taken + Chunk /\ UNCHANGED split
  BY DEF IInv, BodyTaken, Reads, Readable
<1>2. n \in 1 .. OutLen /\ taken' \in 1 .. sent /\ taken \in Nat /\ n \in Nat
  BY <1>1, ChunkType, ReceiverAssumption DEF TypeOK, StreamType
<1> HIDE DEF n
<1>3. /\ s.len = decl /\ ~Refused(decl) /\ s.cap >= LogMax
      /\ s.left = decl - s.recved
      /\ s.work = Bytes(HdrLen, HdrLen + s.recved)
      /\ taken = HdrLen + s.recved
  <2>1. s.len # 0
    BY <1>1, OpenState DEF Unread
  <2>2. Unread /\ s.len \in Nat /\ s.recved \in Nat
    BY <1>1, OpenState DEF TypeOK, StreamType
  <2>3. s.len > 0 /\ Len(s.out) = 0
    BY <1>1, <2>1, <2>2
  <2>4. taken = HdrLen + s.recved + Len(s.out)
    BY <2>2, <2>3 DEF Unread
  <2>5. taken = HdrLen + s.recved
    BY <2>2, <2>3, <2>4, ReceiverAssumption
  <2> QED BY <2>2, <2>3, <2>5 DEF Unread
<1>4. s.recved \in Nat /\ HdrLen \in Nat /\ LogMax \in Nat /\ decl \in Nat /\ decl <= LogMax
  BY <1>1, <1>3, ReceiverAssumption DEF TypeOK, StreamType, Refused
<1>5. s.cap = LogMax /\ s.recved <= LogMax /\ Len(s.work) = s.recved /\ s.work \in Seq(Nat)
  <2>1. ~(s.cap > LogMax)
    BY <1>1 DEF IInv, ReceiverInv, WorkBufFits, TypeOK, StreamType
  <2>2. (HdrLen + s.recved) - HdrLen = s.recved /\ HdrLen <= HdrLen + s.recved
        /\ HdrLen + s.recved \in Nat
    BY <1>4
  <2>3. Len(s.work) = s.recved /\ s.work \in Seq(Nat)
    BY <1>3, <1>4, <2>2, BytesType
  <2> QED BY <1>1, <1>3, <1>4, <2>1, <2>3 DEF TypeOK, StreamType
<1>6. Incoming = Bytes(taken, taken + n) /\ Len(Incoming) = n /\ Incoming \in Seq(Nat)
  <2>1. (taken + n) - taken = n /\ taken <= taken + n /\ taken + n \in Nat
    BY <1>2
  <2> QED BY <1>2, <2>1, BytesType DEF Incoming, n
<1>7. s.work \o Incoming = Bytes(HdrLen, HdrLen + (s.recved + n))
  <2>1. HdrLen + (s.recved + n) = taken + n /\ HdrLen <= taken /\ taken <= taken + n
        /\ taken + n \in Nat
    BY <1>2, <1>3, <1>4
  <2>2. Bytes(HdrLen, taken) \o Bytes(taken, taken + n) = Bytes(HdrLen, taken + n)
    BY <1>2, <1>4, <2>1, BytesJoin
  <2> QED BY <1>3, <1>6, <2>1, <2>2
<1>8. t = [out |-> <<>>, work |-> s.work \o Incoming, cap |-> Grown(LogMax, s.recved, n),
           left |-> s.left - n, recved |-> s.recved + n, len |-> decl]
  BY <1>3, <1>5, <1>6 DEF CollectData, Filled
<1>9. /\ Grown(LogMax, s.recved, n) \in LogMax .. LogMax + OutLen
      /\ s.recved + n <= Grown(LogMax, s.recved, n)
      /\ Grown(LogMax, s.recved, n) > LogMax => LogMax - s.recved < n
  <2>1. LogMax \in LogMax .. LogMax + OutLen /\ n \in 0 .. OutLen /\ ~(LogMax > LogMax)
    BY <1>2, <1>4, ReceiverAssumption
  <2> QED BY <1>2, <1>4, <1>5, <2>1, GrownType
<1>10. s.work \o Incoming \in Seq(Nat)
  BY <1>5, <1>6, ConcatProperties
<1>11. s.recved + n \in Nat /\ s.left - n \in Int /\ s.left - n = decl - (s.recved + n)
       /\ taken' = HdrLen + (s.recved + n)
  <2>1. n \in Nat /\ s.left = decl - s.recved /\ taken = HdrLen + s.recved
    BY <1>2, <1>3
  <2>2. taken' = taken + n
    BY <1>1 DEF n
  <2> QED BY <1>4, <2>1, <2>2
<1>12. Grown(LogMax, s.recved, n) > LogMax => s.left - n < 0
  BY <1>2, <1>3, <1>4, <1>9
<1>13. Collected(t, taken')
  <2> HIDE DEF t
  <2>1. t \in [out : Seq(Nat), work : Seq(Nat), cap : LogMax .. LogMax + OutLen,
               left : Int, recved : Nat, len : Nat]
    <3>1. <<>> \in Seq(Nat)
      OBVIOUS
    <3> QED BY <1>4, <1>8, <1>9, <1>10, <1>11, <3>1
  <2>2. /\ t.out = <<>> /\ t.len = decl /\ t.left = decl - t.recved
        /\ t.recved = s.recved + n
        /\ t.cap = Grown(LogMax, s.recved, n) /\ t.left = s.left - n
        /\ t.work = Bytes(HdrLen, HdrLen + (s.recved + n))
    BY <1>7, <1>8, <1>11
  <2> QED BY <1>3, <1>9, <1>11, <1>12, <2>1, <2>2 DEF Collected
<1>14. Settle(t)
  BY DEF BodyTaken
<1> HIDE DEF t
<1> QED BY <1>1, <1>2, <1>13, <1>14 DEF Collects

\* Either way the stream goes on, or its message is delivered.
LEMMA CollectsOk ==
  ASSUME IInv, Collects
  PROVE  IInv'
<1>1. PICK t : Collected(t, taken') /\ Settle(t)
  BY DEF Collects
<1> QED BY <1>1, SettleOk DEF Collects

\* A connection that ends before its message is complete leaves nothing behind.
LEMMA CloseOk ==
  ASSUME IInv, pc = "open", Close, UNCHANGED <<works, split>>, taken' \in 0 .. sent,
         taken' = HdrLen + decl => taken = taken' \/ Refused(decl)
  PROVE  IInv'
<1>1. Unread /\ works = <<>> /\ TypeOK /\ Complete
  BY OpenState DEF IInv, ReceiverInv
<1>2. s' = FreshStream /\ pc' = "closed" /\ works' = <<>> /\ UNCHANGED <<decl, sent, end, age, split>>
  BY <1>1 DEF Close
<1>3. TypeOK'
  <2>1. s' \in StreamType
    BY <1>2, ReceiverAssumption DEF StreamType, FreshStream
  <2> QED BY <1>1, <1>2, <2>1 DEF TypeOK
<1>4. WorkBufFits' /\ Intact'
  BY <1>2, ReceiverAssumption DEF WorkBufFits, FreshStream, Intact
<1>5. Complete'
  BY <1>1, <1>2 DEF Complete, Refused
<1> QED BY <1>2, <1>3, <1>4, <1>5 DEF IInv, ReceiverInv

\* Bytes that stay in out_buf: less than a header, ...
LEMMA ShortOk ==
  ASSUME IInv, HeaderShort
  PROVE  IInv'
<1>1. TypeOK /\ pc = "open" /\ s.out = <<>> /\ s.left = 0 /\ taken < sent
      /\ Chunk < HdrLen /\ taken' = taken + Chunk /\ split' = TRUE
      /\ s' = Filled(Incoming) /\ age' = 0 /\ UNCHANGED <<decl, sent, end, pc, works>>
  BY DEF IInv, HeaderShort, Reads, Readable, Continue
<1>2. s.len = 0 /\ taken = 0 /\ s = Filled(<<>>) /\ works = <<>> /\ Unread
  BY <1>1, NothingRead, OpenState
<1>3. Chunk \in 1 .. OutLen /\ taken' \in 1 .. sent /\ taken' = Chunk
  BY <1>1, <1>2, ChunkType
<1>4. Incoming = Bytes(0, taken') /\ Incoming \in Seq(Nat)
  BY <1>1, <1>2, <1>3, BytesType, 0 <= taken' DEF Incoming
<1>5. s' = [out |-> Bytes(0, taken'), work |-> <<>>, cap |-> 0, left |-> 0, recved |-> 0, len |-> 0]
  BY <1>1, <1>2, <1>4 DEF Unread, Filled
<1>6. TypeOK'
  <2>1. s' \in StreamType
    BY <1>4, <1>5, ReceiverAssumption DEF StreamType
  <2> QED BY <1>1, <1>3, <2>1, ReceiverAssumption DEF TypeOK
<1>7. Unread'
  BY <1>1, <1>3, <1>5 DEF Unread, Filled
<1>8. WorkBufFits' /\ Intact' /\ Complete'
  BY <1>1, <1>2, <1>5, ReceiverAssumption DEF WorkBufFits, Intact, Complete
<1> QED BY <1>1, <1>2, <1>6, <1>7, <1>8 DEF IInv, ReceiverInv

\* ... or what follows a message that is already there with more behind it.
LEMMA ExcessOk ==
  ASSUME IInv, ExcessKept
  PROVE  IInv'
<1>1. TypeOK /\ pc = "open" /\ s.out = <<>> /\ s.left < 0 /\ taken < sent
      /\ taken' = taken + Chunk /\ UNCHANGED split
      /\ s' = Filled(Incoming) /\ age' = 0 /\ UNCHANGED <<decl, sent, end, pc, works>>
  BY DEF IInv, ExcessKept, Reads, Readable, Continue
<1>2. Unread /\ works = <<>> /\ WorkBufFits
  BY <1>1, OpenState DEF IInv, ReceiverInv
<1>3. Chunk \in 1 .. OutLen /\ taken' \in 1 .. sent /\ taken \in Nat /\ Chunk \in Nat
  BY <1>1, ChunkType, ReceiverAssumption DEF TypeOK, StreamType
<1>4. Incoming \in Seq(Nat) /\ Len(Incoming) = Chunk
  <2>1. (taken + Chunk) - taken = Chunk /\ taken <= taken + Chunk /\ taken + Chunk \in Nat
    BY <1>3
  <2> QED BY <1>3, <2>1, BytesType DEF Incoming
<1>5. s.len \in Nat /\ s.recved \in Nat /\ decl \in Nat /\ HdrLen \in Nat
  BY <1>1, ReceiverAssumption DEF TypeOK, StreamType
<1>6. s.len > 0
  BY <1>1, <1>2, <1>5 DEF Unread
<1>7. taken = HdrLen + s.recved /\ decl < s.recved /\ taken > HdrLen + decl
  <2>1. Len(s.out) = 0
    BY <1>1
  <2>2. taken = HdrLen + s.recved + Len(s.out) /\ s.left = decl - s.recved
    BY <1>2, <1>6 DEF Unread
  <2> QED BY <1>1, <1>5, <2>1, <2>2
<1>8. /\ s'.out = Incoming /\ s'.work = s.work /\ s'.cap = s.cap /\ s'.left = s.left
      /\ s'.recved = s.recved /\ s'.len = s.len
  BY <1>1 DEF Filled
<1>9. s' \in StreamType
  <2>1. s \in StreamType
    BY <1>1 DEF TypeOK
  <2>2. s' = [out |-> Incoming, work |-> s.work, cap |-> s.cap, left |-> s.left,
              recved |-> s.recved, len |-> s.len]
    BY <1>1 DEF Filled
  <2> QED BY <1>4, <2>1, <2>2 DEF StreamType
<1>10. TypeOK'
  BY <1>1, <1>3, <1>9, ReceiverAssumption DEF TypeOK
<1>11. Unread'
  <2>1. taken' = HdrLen + s.recved + Len(Incoming)
    BY <1>1, <1>4, <1>7
  <2> QED BY <1>1, <1>2, <1>6, <1>8, <2>1 DEF Unread, Refused
<1>12. WorkBufFits' /\ Intact'
  BY <1>1, <1>2, <1>8 DEF WorkBufFits, Intact
<1>13. Complete'
  BY <1>1, <1>3, <1>5, <1>7 DEF Complete
<1> QED BY <1>1, <1>2, <1>10, <1>11, <1>12, <1>13 DEF IInv, ReceiverInv

\* The network, the clock and the assertion leave the stream alone.
LEMMA OutsideOk ==
  ASSUME IInv, Arrives \/ Ends \/ Tick \/ Aborts
  PROVE  IInv'
<1>1. Unread /\ works = <<>> /\ TypeOK /\ Complete /\ Intact /\ WorkBufFits /\ pc = "open"
  BY OpenState DEF IInv, ReceiverInv, Arrives, Ends, Tick, Aborts, Readable
<1>2. /\ UNCHANGED <<decl, taken, s, works, split>>
      /\ (pc' = "aborted" => s.out # <<>>) /\ pc' \in {"open", "aborted"}
  BY <1>1 DEF Arrives, Ends, Tick, Aborts
<1>3. sent' \in 0 .. MaxSent /\ sent' >= sent /\ end' \in {"no", "fin", "reset"} /\ age' \in 0 .. Timeout
  BY <1>1, ReceiverAssumption DEF TypeOK, Arrives, Ends, Tick, Aborts
<1>4. TypeOK'
  BY <1>1, <1>2, <1>3, ReceiverAssumption DEF TypeOK
<1>5. Unread' /\ Complete' /\ Intact' /\ WorkBufFits'
  BY <1>1, <1>2 DEF Unread, Complete, Intact, WorkBufFits, Refused, Filled
<1> QED BY <1>1, <1>2, <1>4, <1>5 DEF IInv, ReceiverInv

\* An accepted connection starts out so.
LEMMA ReceiverStart == Init => IInv
<1> SUFFICES ASSUME Init PROVE IInv
  OBVIOUS
<1>1. TypeOK
  <2>1. FreshStream \in StreamType
    BY ReceiverAssumption DEF FreshStream, StreamType
  <2>2. works \in Seq(Seq(Nat))
    BY DEF Init
  <2>3. s \in StreamType
    BY <2>1 DEF Init
  <2>4. sent \in 0 .. MaxSent /\ taken \in 0 .. sent /\ age \in 0 .. Timeout
    BY ReceiverAssumption DEF Init
  <2>5. decl \in Lengths /\ end \in {"no", "fin", "reset"} /\ split \in BOOLEAN
        /\ pc \in {"open", "closed", "aborted"}
    BY DEF Init
  <2> QED BY <2>2, <2>3, <2>4, <2>5 DEF TypeOK
<1>2. Bytes(0, 0) = <<>>
  BY BytesEmpty
<1>3. Unread
  BY <1>2, ReceiverAssumption DEF Init, Unread, FreshStream, Filled
<1>4. Intact /\ Complete /\ WorkBufFits
  BY ReceiverAssumption, <1>1 DEF Init, Intact, Complete, WorkBufFits, FreshStream, TypeOK, StreamType
<1> QED BY <1>1, <1>3, <1>4 DEF Init, IInv, ReceiverInv

\* Every step of the server, the network and the clock keeps the invariant.
LEMMA ReceiverStep == IInv /\ [Next]_vars => IInv'
<1> SUFFICES ASSUME IInv, [Next]_vars PROVE IInv'
  OBVIOUS
<1>1. CASE Aborts
  BY <1>1, OutsideOk
<1>2. CASE ReadFails
  <2>1. taken' \in 0 .. sent
    BY <1>2 DEF ReadFails, IInv, TypeOK, StreamType
  <2> QED BY <1>2, <2>1, CloseOk DEF ReadFails, Readable
<1>3. CASE HeaderShort
  BY <1>3, ShortOk
<1>4. CASE HeaderRefused
  <2>1. taken' \in 0 .. sent
    BY <1>4, ChunkType DEF HeaderRefused, Reads, IInv, TypeOK, StreamType
  <2> QED BY <1>4, <2>1, CloseOk DEF HeaderRefused, Reads, Readable
<1>5. CASE HeaderTaken
  BY <1>5, HeaderCollects, CollectsOk
<1>6. CASE BodyTaken
  BY <1>6, BodyCollects, CollectsOk
<1>7. CASE ExcessKept
  BY <1>7, ExcessOk
<1>8. CASE TimesOut
  <2>1. taken' \in 0 .. sent
    BY <1>8 DEF TimesOut, IInv, TypeOK, StreamType
  <2> QED BY <1>8, <2>1, CloseOk DEF TimesOut
<1>9. CASE Arrives \/ Ends \/ Tick
  BY <1>9, OutsideOk
<1>10. CASE HungUp
  <2>1. taken' \in 0 .. sent
    BY <1>10 DEF HungUp, IInv, TypeOK, StreamType
  <2> QED BY <1>10, <2>1, CloseOk DEF HungUp
<1>11. CASE UNCHANGED vars
  BY <1>11 DEF vars, IInv, TypeOK, ReceiverInv, Unread, Intact, Complete, WorkBufFits, Filled, Refused
<1> QED BY <1>1, <1>2, <1>3, <1>4, <1>5, <1>6, <1>7, <1>8, <1>9, <1>10, <1>11 DEF Next, Callback

-----------------------------------------------------------------------------
(* The theorems. *)

\* The invariant of the receiving half: the buffers hold the bytes read so
\* far, in order, split between header, message and excess.
THEOREM ReceiverInvariant == Spec => [](TypeOK /\ ReceiverInv)
BY ReceiverStart, ReceiverStep, PTL DEF Spec, IInv

\* do_work is called at most once, with exactly the bytes of the message, which
\* never outgrow the buffer they are collected in.
THEOREM DeliveredIntact == Spec => [](Intact /\ WorkBufFits)
<1>1. ReceiverInv => Intact /\ WorkBufFits
  BY DEF ReceiverInv
<1> QED BY <1>1, ReceiverInvariant, PTL

\* A message that is accepted has been passed to do_work as soon as its last
\* byte has been read, unless its header came in two pieces.
THEOREM DeliveredWhenComplete == Spec => []Complete
<1>1. ReceiverInv => Complete
  BY DEF ReceiverInv
<1> QED BY <1>1, ReceiverInvariant, PTL

\* The assertion of data_transfer fails only for a header in two pieces or for
\* bytes behind the message: a peer that avoids both cannot abort the server.
THEOREM AbortsAreGenuine == Spec => []AbortGenuine
<1>1. TypeOK /\ ReceiverInv => AbortGenuine
  <2> SUFFICES ASSUME TypeOK, ReceiverInv, pc = "aborted", ~split
               PROVE  taken > HdrLen + decl
    BY DEF AbortGenuine
  <2>1. Unread /\ s.out # <<>> /\ HdrLen \in Nat /\ taken \in Nat /\ decl \in Nat
        /\ s.recved \in Nat /\ s.len \in Nat /\ s.out \in Seq(Nat)
    BY ReceiverAssumption DEF ReceiverInv, TypeOK, StreamType
  <2>2. CASE s.len = 0
    <3>1. s.out = Bytes(0, taken) /\ (taken > 0 => split)
      BY <2>1, <2>2 DEF Unread, Filled
    <3>2. taken = 0
      BY <2>1, <3>1
    <3> QED BY <2>1, <3>1, <3>2, BytesEmpty
  <2>3. CASE s.len > 0
    <3>1. s.left = decl - s.recved /\ taken = HdrLen + s.recved + Len(s.out) /\ s.left < 0
      BY <2>1, <2>3 DEF Unread
    <3>2. Len(s.out) \in Nat
      BY <2>1
    <3> QED BY <2>1, <3>1, <3>2
  <2> QED BY <2>1, <2>2, <2>3
<1> QED BY <1>1, ReceiverInvariant, PTL

=============================================================================
