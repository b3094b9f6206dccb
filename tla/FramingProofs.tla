---------------------------- MODULE FramingProofs ----------------------------
(***************************************************************************)
(* Theorems about Framing, for every width of the length, every set of     *)
(* lengths, every buffer of the channel and every number of messages.      *)
(***************************************************************************)
EXTENDS Framing, SequenceTheorems, TLAPS

\* The bytes between i3 and ipc_recv_message, the next one first.
pipe == read_buf \o wire

AnyByte == [of : Nat, at : Nat]

Size(ls, n) == to_read + ls[n]

\* p is a stretch of the messages whose lengths are ls.  The order is stated
\* for every two bytes, not for neighbours, so that no induction is needed to
\* find the bytes of a message.
InOrder(p, ls) ==
    /\ \A i \in 1..Len(p) :
          p[i].of \in 1..Len(ls) /\ p[i].at \in 1..Size(ls, p[i].of)
    /\ \A i, j \in 1..Len(p) :
          i < j => \/ p[i].of = p[j].of /\ j - i = p[j].at - p[i].at
                   \/ p[i].of < p[j].of /\ j - i > Size(ls, p[i].of) - p[i].at
    /\ \A i \in 1..Len(p) :
          i + 1 \in 1..Len(p) /\ p[i].at = Size(ls, p[i].of)
              => p[i + 1].of = p[i].of + 1 /\ p[i + 1].at = 1

-----------------------------------------------------------------------------
(* Stretches of messages.                                                  *)

\* A message has a size.
LEMMA SizeType ==
    ASSUME NEW ls \in Seq(Nat), NEW n \in 1..Len(ls) PROVE Size(ls, n) \in Nat
BY DEF Size, to_read

\* What is left of a stretch when its first bytes are read is a stretch.
LEMMA InOrderRest ==
    ASSUME NEW p \in Seq(AnyByte), NEW ls \in Seq(Nat), InOrder(p, ls),
           NEW c \in Nat, NEW q \in Seq(AnyByte), Len(q) = Len(p) - c,
           \A i \in 1..Len(q) : q[i] = p[i + c]
    PROVE  InOrder(q, ls)
<1>1. \A i \in 1..Len(q) : i + c \in 1..Len(p)
  OBVIOUS
<1>2. ASSUME NEW i \in 1..Len(q)
      PROVE  q[i].of \in 1..Len(ls) /\ q[i].at \in 1..Size(ls, q[i].of)
  BY <1>1 DEF InOrder
<1>3. ASSUME NEW i \in 1..Len(q), NEW j \in 1..Len(q), i < j
      PROVE  \/ q[i].of = q[j].of /\ j - i = q[j].at - q[i].at
             \/ q[i].of < q[j].of /\ j - i > Size(ls, q[i].of) - q[i].at
  <2>1. i + c < j + c /\ (j + c) - (i + c) = j - i
    BY <1>3
  <2> QED
    BY <1>1, <1>3, <2>1 DEF InOrder
<1>4. ASSUME NEW i \in 1..Len(q), i + 1 \in 1..Len(q), q[i].at = Size(ls, q[i].of)
      PROVE  q[i + 1].of = q[i].of + 1 /\ q[i + 1].at = 1
  <2>1. (i + 1) + c = (i + c) + 1
    OBVIOUS
  <2>2. q[i + 1] = p[(i + 1) + c] /\ (i + 1) + c \in 1..Len(p)
    BY <1>1, <1>4
  <2>3. q[i + 1] = p[(i + c) + 1] /\ (i + c) + 1 \in 1..Len(p)
    BY <2>1, <2>2, Zenon
  <2> QED
    BY <1>1, <1>4, <2>3 DEF InOrder
<1> QED
  BY <1>2, <1>3, <1>4 DEF InOrder

\* What is left of a stretch when its last bytes are lost is a stretch.
LEMMA InOrderStart ==
    ASSUME NEW p \in Seq(AnyByte), NEW ls \in Seq(Nat), InOrder(p, ls),
           NEW q \in Seq(AnyByte), Len(q) <= Len(p),
           \A i \in 1..Len(q) : q[i] = p[i]
    PROVE  InOrder(q, ls)
<1>1. \A i \in 1..Len(q) : i \in 1..Len(p)
  OBVIOUS
<1> QED
  BY <1>1 DEF InOrder

\* The bytes of the message that a stretch begins with follow one another.
LEMMA FirstMessage ==
    ASSUME NEW p \in Seq(AnyByte), NEW ls \in Seq(Nat), InOrder(p, ls), p # <<>>,
           NEW k \in 1..Len(p), k <= Size(ls, p[1].of) - p[1].at + 1
    PROVE  p[k].of = p[1].of /\ p[k].at = p[1].at + k - 1
<1>1. 1 \in 1..Len(p) /\ p[1] \in AnyByte /\ p[k] \in AnyByte
  OBVIOUS
<1>2. p[1].of \in Nat /\ p[1].at \in Nat /\ p[k].of \in Nat /\ p[k].at \in Nat
  BY <1>1 DEF AnyByte
<1>3. CASE k = 1
  BY <1>2, <1>3
<1>4. CASE k # 1
  <2>1. \/ p[1].of = p[k].of /\ k - 1 = p[k].at - p[1].at
        \/ p[1].of < p[k].of /\ k - 1 > Size(ls, p[1].of) - p[1].at
    BY <1>1, <1>4 DEF InOrder
  <2>2. Size(ls, p[1].of) \in Nat
    <3>1. p[1].of \in 1..Len(ls)
      BY <1>1 DEF InOrder
    <3> QED
      BY <3>1 DEF Size, to_read
  <2> QED
    BY <1>2, <2>1, <2>2
<1> QED
  BY <1>3, <1>4

\* Behind the message that a stretch begins with, the next one begins.
LEMMA NextMessage ==
    ASSUME NEW p \in Seq(AnyByte), NEW ls \in Seq(Nat), InOrder(p, ls), p # <<>>,
           NEW c \in Nat, c = Size(ls, p[1].of) - p[1].at + 1, c < Len(p), c > 0
    PROVE  p[c + 1].of = p[1].of + 1 /\ p[c + 1].at = 1
<1>1. c \in 1..Len(p) /\ c + 1 \in 1..Len(p) /\ 1 \in 1..Len(p) /\ p[1] \in AnyByte
  OBVIOUS
<1>2. p[c].of = p[1].of /\ p[c].at = p[1].at + c - 1
  BY <1>1, FirstMessage
<1>3. p[1].of \in 1..Len(ls) /\ p[1].at \in Nat
  BY <1>1 DEF InOrder, AnyByte
<1>4. Size(ls, p[1].of) \in Nat
  BY <1>3 DEF Size, to_read
<1>5. p[c].at = Size(ls, p[c].of)
  BY <1>2, <1>3, <1>4
<1> QED
  BY <1>1, <1>2, <1>5 DEF InOrder

\* A message written behind a stretch that ends with a whole message.
LEMMA InOrderWritten ==
    ASSUME NEW p \in Seq(AnyByte), NEW ls \in Seq(Nat), InOrder(p, ls),
           NEW length \in Nat, NEW n \in Nat, n = Len(ls) + 1,
           p # <<>> => p[Len(p)].of = Len(ls) /\ p[Len(p)].at = Size(ls, Len(ls))
    PROVE  InOrder(p \o MessageBytes(n, length), Append(ls, length))
<1> DEFINE b == MessageBytes(n, length)
           q == p \o b
           ms == Append(ls, length)
           L == Len(p)
           s == to_read + length
<1>1. /\ b \in Seq(AnyByte) /\ Len(b) = s /\ s \in Nat /\ L \in Nat
      /\ \A k \in 1..s : b[k].of = n /\ b[k].at = k
  BY DEF MessageBytes, AnyByte, to_read
<1>2. /\ q \in Seq(AnyByte) /\ Len(q) = L + s
      /\ \A i \in 1..L : q[i] = p[i]
      /\ \A i \in (L + 1)..(L + s) : q[i] = b[i - L]
  BY <1>1, ConcatProperties
<1>3. /\ Len(ms) = n /\ ms[n] = length
      /\ \A k \in 1..Len(ls) : ms[k] = ls[k]
  OBVIOUS
<1> HIDE DEF b, q, ms, L, s
<1>4. \A i \in 1..L : /\ i \in 1..Len(p)
                      /\ q[i].of \in 1..Len(ls)
                      /\ Size(ms, q[i].of) = Size(ls, p[i].of)
                      /\ q[i].at \in 1..Size(ms, q[i].of)
  BY <1>2, <1>3 DEF InOrder, Size, L
<1>5. \A i \in (L + 1)..(L + s) : /\ q[i].of = n /\ q[i].at = i - L
                                  /\ Size(ms, q[i].of) = s
  <2> SUFFICES ASSUME NEW i \in (L + 1)..(L + s)
               PROVE  q[i].of = n /\ q[i].at = i - L /\ Size(ms, q[i].of) = s
    OBVIOUS
  <2>1. i - L \in 1..s /\ q[i] = b[i - L]
    BY <1>1, <1>2
  <2> QED
    BY <1>1, <1>3, <2>1 DEF Size, s
<1>6. \A i \in 1..Len(q) : i \in 1..L \/ i \in (L + 1)..(L + s)
  BY <1>1, <1>2
<1>7. ASSUME NEW i \in 1..Len(q)
      PROVE  q[i].of \in 1..Len(ms) /\ q[i].at \in 1..Size(ms, q[i].of)
  <2>1. CASE i \in 1..L
    BY <1>3, <1>4, <2>1
  <2>2. CASE i \in (L + 1)..(L + s)
    BY <1>1, <1>3, <1>5, <2>2
  <2> QED
    BY <1>6, <2>1, <2>2
<1>8. ASSUME NEW i \in 1..Len(q), NEW j \in 1..Len(q), i < j
      PROVE  \/ q[i].of = q[j].of /\ j - i = q[j].at - q[i].at
             \/ q[i].of < q[j].of /\ j - i > Size(ms, q[i].of) - q[i].at
  <2>1. CASE j \in 1..L
    <3>1. i \in 1..L /\ i \in 1..Len(p) /\ j \in 1..Len(p)
      BY <1>1, <1>8, <2>1 DEF L
    <3> QED
      BY <1>2, <1>4, <1>8, <2>1, <3>1 DEF InOrder
  <2>2. CASE i \in (L + 1)..(L + s)
    <3>1. j \in (L + 1)..(L + s)
      BY <1>1, <1>6, <1>8, <2>2
    <3> QED
      BY <1>1, <1>5, <2>2, <3>1
  <2>3. CASE i \in 1..L /\ j \in (L + 1)..(L + s)
    <3>1. q[i].of < q[j].of
      BY <1>4, <1>5, <2>3
    <3>2. p[L].of = Len(ls) /\ p[L].at = Size(ls, Len(ls)) /\ L \in 1..Len(p) /\ i \in 1..Len(p)
      <4>1. p # <<>>
        BY <2>3 DEF L
      <4> QED
        BY <1>1, <2>3, <4>1 DEF L
    <3>3. /\ p[i].of \in 1..Len(ls) /\ p[i].at \in Nat
          /\ Size(ls, p[i].of) \in Nat /\ Size(ls, Len(ls)) \in Nat
      <4>1. p[i].of \in 1..Len(ls) /\ p[i] \in AnyByte /\ Len(ls) \in 1..Len(ls)
        BY <3>2 DEF InOrder
      <4>2. p[i].at \in Nat
        BY <4>1 DEF AnyByte
      <4>3. Size(ls, p[i].of) \in Nat /\ Size(ls, Len(ls)) \in Nat
        BY <4>1, SizeType
      <4> QED
        BY <4>1, <4>2, <4>3
    <3>4. L - i >= Size(ls, p[i].of) - p[i].at
      <4>1. CASE i = L
        BY <3>2, <3>3, <4>1
      <4>2. CASE i < L
        <5>1. \/ p[i].of = p[L].of /\ L - i = p[L].at - p[i].at
              \/ p[i].of < p[L].of /\ L - i > Size(ls, p[i].of) - p[i].at
          BY <3>2, <4>2 DEF InOrder
        <5>2. CASE p[i].of = p[L].of /\ L - i = p[L].at - p[i].at
          <6>1. p[L].at = Size(ls, p[i].of)
            BY <3>2, <5>2
          <6> QED
            BY <3>3, <5>2, <6>1
        <5>3. CASE L - i > Size(ls, p[i].of) - p[i].at
          BY <1>1, <3>3, <5>3
        <5> QED
          BY <5>1, <5>2, <5>3
      <4> QED
        BY <1>1, <2>3, <4>1, <4>2
    <3>5. Size(ms, q[i].of) = Size(ls, p[i].of) /\ q[i] = p[i]
      BY <1>2, <1>4, <2>3
    <3>6. j - i > Size(ls, p[i].of) - p[i].at
      BY <1>1, <2>3, <3>3, <3>4
    <3> QED
      BY <3>1, <3>5, <3>6
  <2> QED
    BY <1>6, <2>1, <2>2, <2>3
<1>9. ASSUME NEW i \in 1..Len(q), i + 1 \in 1..Len(q), q[i].at = Size(ms, q[i].of)
      PROVE  q[i + 1].of = q[i].of + 1 /\ q[i + 1].at = 1
  <2>1. CASE i + 1 \in 1..L
    <3>1. i \in 1..L /\ i \in 1..Len(p) /\ i + 1 \in 1..Len(p)
      BY <2>1 DEF L
    <3>2. q[i] = p[i] /\ q[i + 1] = p[i + 1] /\ p[i].at = Size(ls, p[i].of)
      BY <1>2, <1>4, <1>9, <2>1, <3>1
    <3> QED
      BY <3>1, <3>2 DEF InOrder
  <2>2. CASE i = L
    <3>1. L \in 1..L /\ L + 1 \in (L + 1)..(L + s) /\ p # <<>>
      BY <1>1, <1>2, <1>9, <2>2 DEF L
    <3>2. q[L] = p[L] /\ p[L].of = Len(ls)
      BY <1>2, <3>1 DEF L
    <3>3. q[L + 1].of = n /\ q[L + 1].at = (L + 1) - L
      BY <1>5, <3>1
    <3>4. (L + 1) - L = 1
      BY <1>1
    <3> QED
      BY <2>2, <3>2, <3>3, <3>4
  <2>3. CASE i \in (L + 1)..(L + s)
    BY <1>1, <1>2, <1>5, <1>9, <2>3
  <2> QED
    BY <1>1, <1>2, <1>6, <2>1, <2>2, <2>3
<1> QED
  BY <1>7, <1>8, <1>9 DEF InOrder, q, b, ms

-----------------------------------------------------------------------------
(* What the theorems rest on.                                              *)

Typed ==
    /\ lengths \in Seq(Lengths)
    /\ wire \in Seq(AnyByte) /\ read_buf \in Seq(AnyByte)
    /\ stream \in {"open", "eof", "reset"}
    /\ pc \in {"idle", "header", "body"}
    /\ read_bytes \in Nat /\ reply_length \in Nat
    /\ taken \in 0..Len(lengths)
    /\ DOMAIN msg = 1..to_read
    /\ reply \in Seq(AnyByte)
    /\ overrun \in BOOLEAN

\* The next byte of the pipe begins the header, or the body, that
\* ipc_recv_message reads or will read next.
NextByteExpected ==
    pipe # <<>> => /\ pipe[1].of = taken + 1
                   /\ pipe[1].at = IF pc = "body" THEN to_read + 1 ELSE 1

BodyExpected ==
    pc = "body" => /\ taken < Len(lengths)
                   /\ reply_length = lengths[taken + 1] /\ reply_length > 0
                   /\ Len(reply) = Allocated(reply_length)

\* While i3 runs, the pipe ends with the last message it wrote.
EndsWhole ==
    stream = "open" =>
        /\ pipe = <<>> => pc # "body" /\ taken = Len(lengths)
        /\ pipe # <<>> => /\ pipe[Len(pipe)].of = Len(lengths)
                          /\ pipe[Len(pipe)].at = Size(lengths, Len(lengths))

InStep ==
    /\ InOrder(pipe, lengths)
    /\ NextByteExpected
    /\ BodyExpected
    /\ EndsWhole
    /\ pc = "idle" => read_bytes = 0

FramingInv ==
    /\ Typed
    /\ ShortReadsEndTheStream /\ OnlyTheLargestOverruns /\ RepliesAreBodies
    /\ stream = "open" => whole = Len(lengths)
    /\ overrun \/ InStep

\* What is not in the socket yet is at the end of wire.
HeldType == held \in 0..Len(wire) /\ unsent \in BOOLEAN

\* The types of the pipe.
LEMMA PipeType ==
    ASSUME Typed
    PROVE  /\ pipe \in Seq(AnyByte) /\ lengths \in Seq(Nat)
           /\ Len(pipe) = Len(read_buf) + Len(wire)
           /\ Len(read_buf) \in Nat /\ Len(wire) \in Nat
           /\ \A k \in 1..Len(read_buf) : pipe[k] = read_buf[k]
           /\ \A n \in 1..Len(lengths) : lengths[n] \in Lengths
<1>1. read_buf \in Seq(AnyByte) /\ wire \in Seq(AnyByte)
  BY DEF Typed
<1>2. lengths \in Seq(Nat)
  <2>1. Lengths \subseteq Nat
    BY LengthsAssumption, ModulusAssumption
  <2> QED
    BY <2>1, SeqMonotonic DEF Typed
<1>3. /\ pipe \in Seq(AnyByte) /\ Len(pipe) = Len(read_buf) + Len(wire)
      /\ \A k \in 1..Len(read_buf) : pipe[k] = read_buf[k]
  BY <1>1, ConcatProperties DEF pipe
<1> QED
  BY <1>1, <1>2, <1>3 DEF Typed

\* What the channel takes from the socket is there.
LEMMA PartOfWire ==
    ASSUME Typed, HeldType, g_io_channel_fill_buffer
    PROVE  \E k \in 1..BufSize : /\ k <= Len(wire) /\ k <= Len(wire) - held
                                 /\ read_buf' = read_buf \o SubSeq(wire, 1, k)
                                 /\ wire' = SubSeq(wire, k + 1, Len(wire))
<1>1. PICK k \in 1..BufSize : /\ k <= Len(wire) - held
                              /\ read_buf' = read_buf \o SubSeq(wire, 1, k)
                              /\ wire' = SubSeq(wire, k + 1, Len(wire))
  BY DEF g_io_channel_fill_buffer, InSocket
<1>2. Len(wire) \in Nat /\ held \in Nat /\ k \in Nat
  BY BufSizeAssumption DEF Typed, HeldType
<1> QED
  BY <1>1, <1>2

\* Moving bytes from the socket to the channel leaves the pipe as it is.
LEMMA PipeFilled == ASSUME Typed, HeldType, g_io_channel_fill_buffer
                    PROVE  pipe' = pipe /\ read_buf' \in Seq(AnyByte) /\ wire' \in Seq(AnyByte)
<1>1. PICK k \in 1..BufSize : /\ k <= Len(wire)
                              /\ read_buf' = read_buf \o SubSeq(wire, 1, k)
                              /\ wire' = SubSeq(wire, k + 1, Len(wire))
  BY PartOfWire
<1> DEFINE a == SubSeq(wire, 1, k)
           b == SubSeq(wire, k + 1, Len(wire))
<1>2. read_buf \in Seq(AnyByte) /\ wire \in Seq(AnyByte) /\ k \in Nat /\ Len(wire) \in Nat
  BY BufSizeAssumption DEF Typed
<1>3. /\ a \in Seq(AnyByte) /\ Len(a) = k /\ \A i \in 1..k : a[i] = wire[i]
      /\ b \in Seq(AnyByte) /\ Len(b) = Len(wire) - k
      /\ \A i \in 1..(Len(wire) - k) : b[i] = wire[k + i]
  BY <1>1, <1>2
<1> HIDE DEF a, b
<1>4. a \o b = wire
  <2>1. a \o b \in Seq(AnyByte) /\ Len(a \o b) = Len(wire)
    <3>1. Len(a \o b) = Len(a) + Len(b) /\ a \o b \in Seq(AnyByte)
      BY <1>3, ConcatProperties
    <3> QED
      BY <1>1, <1>2, <1>3, <3>1
  <2>2. ASSUME NEW i \in 1..Len(wire) PROVE (a \o b)[i] = wire[i]
    <3>1. (a \o b)[i] = IF i <= k THEN a[i] ELSE b[i - k]
      BY <1>1, <1>2, <1>3, ConcatProperties
    <3>2. CASE i <= k
      BY <1>2, <1>3, <3>1, <3>2
    <3>3. CASE ~(i <= k)
      <4>1. i - k \in 1..(Len(wire) - k) /\ k + (i - k) = i
        BY <1>2, <3>3
      <4>2. b[i - k] = wire[k + (i - k)]
        BY <1>3, <4>1
      <4> QED
        BY <3>1, <3>3, <4>1, <4>2
    <3> QED
      BY <3>2, <3>3
  <2> QED
    BY <1>2, <2>1, <2>2, SeqEqual
<1>5. read_buf' \o wire' = read_buf \o (a \o b)
  <2>0. read_buf \in Seq(AnyByte) /\ a \in Seq(AnyByte) /\ b \in Seq(AnyByte)
    BY <1>2, <1>3
  <2>1. (read_buf \o a) \o b = read_buf \o (a \o b)
    BY ONLY <2>0, ConcatAssociative
  <2> QED
    BY <1>1, <2>1 DEF a, b
<1>6. read_buf \o a \in Seq(AnyByte)
  BY <1>2, <1>3, ConcatProperties
<1> QED
  BY <1>1, <1>3, <1>4, <1>5, <1>6 DEF pipe, a, b

\* What is behind the bytes handed out stays in the pipe.
LEMMA PipeRest ==
    ASSUME Typed, NEW c \in 0..Len(read_buf), wire' = wire, read_buf' \in Seq(AnyByte),
           Len(read_buf') = Len(read_buf) - c,
           \A i \in 1..(Len(read_buf) - c) : read_buf'[i] = read_buf[c + i]
    PROVE  /\ pipe' \in Seq(AnyByte) /\ Len(pipe') = Len(pipe) - c
           /\ \A i \in 1..Len(pipe') : pipe'[i] = pipe[i + c]
<1> DEFINE L == Len(read_buf)
           M == Len(read_buf')
<1>1. read_buf \in Seq(AnyByte) /\ wire \in Seq(AnyByte)
      /\ L \in Nat /\ Len(wire) \in Nat /\ M \in Nat /\ M = L - c
  BY DEF Typed
<1>2. /\ pipe' \in Seq(AnyByte) /\ Len(pipe') = M + Len(wire)
      /\ \A i \in 1..(M + Len(wire)) :
            pipe'[i] = IF i <= M THEN read_buf'[i] ELSE wire[i - M]
  BY <1>1, ConcatProperties DEF pipe
<1>3. /\ Len(pipe) = L + Len(wire)
      /\ \A i \in 1..(L + Len(wire)) :
            pipe[i] = IF i <= L THEN read_buf[i] ELSE wire[i - L]
  BY <1>1, ConcatProperties DEF pipe
<1>4. ASSUME NEW i \in 1..Len(pipe') PROVE pipe'[i] = pipe[i + c]
  <2>1. i + c \in 1..(L + Len(wire)) /\ i \in 1..(M + Len(wire)) /\ i \in Nat
    BY <1>1, <1>2
  <2>2. CASE i <= M
    <3>1. i + c <= L /\ i \in 1..(L - c) /\ c + i = i + c
      BY <1>1, <2>1, <2>2
    <3>2. pipe'[i] = read_buf'[i] /\ pipe[i + c] = read_buf[i + c]
      BY <1>2, <1>3, <2>1, <2>2, <3>1
    <3> QED
      BY <3>1, <3>2
  <2>3. CASE ~(i <= M)
    <3>1. ~(i + c <= L) /\ (i + c) - L = i - M
      BY <1>1, <2>1, <2>3
    <3>2. pipe'[i] = wire[i - M] /\ pipe[i + c] = wire[(i + c) - L]
      BY <1>2, <1>3, <2>1, <2>3, <3>1
    <3> QED
      BY <3>1, <3>2
  <2> QED
    BY <2>2, <2>3
<1> QED
  BY <1>1, <1>2, <1>3, <1>4

\* A read hands out the first bytes of the pipe: as many as were wanted, or
\* all that will ever come.
LEMMA PipeRead ==
    ASSUME Typed, Wanted \in Nat, ReadsBytes, wire' = wire
    PROVE  /\ Chunk \in 0..Len(read_buf) /\ Chunk <= Wanted
           /\ pipe' \in Seq(AnyByte) /\ Len(pipe') = Len(pipe) - Chunk
           /\ \A i \in 1..Len(pipe') : pipe'[i] = pipe[i + Chunk]
           /\ read_buf' \in Seq(AnyByte)
           /\ \/ Chunk = Wanted /\ stream' = stream
              \/ /\ Chunk < Wanted /\ stream # "open"
                 /\ read_buf' = <<>> /\ wire = <<>> /\ stream' = "eof"
<1> DEFINE c == Chunk
           rest == SubSeq(read_buf, c + 1, Len(read_buf))
<1>1. read_buf \in Seq(AnyByte) /\ wire \in Seq(AnyByte)
      /\ Len(read_buf) \in Nat /\ Len(wire) \in Nat
  BY DEF Typed
<1>2. c \in 0..Len(read_buf) /\ c <= Wanted
  BY <1>1 DEF Chunk
<1>3. /\ rest \in Seq(AnyByte) /\ Len(rest) = Len(read_buf) - c
      /\ \A i \in 1..(Len(read_buf) - c) : rest[i] = read_buf[c + i]
  BY <1>1, <1>2
<1>4. read_buf' = rest
  BY DEF ReadsBytes
<1>5. CASE Len(read_buf) >= Wanted
  <2>1. c = Wanted /\ stream' = stream
    BY <1>1, <1>5 DEF Chunk, ReadsBytes, Enough
  <2> QED
    BY <1>2, <1>3, <1>4, <2>1, PipeRest
<1>6. CASE ~(Len(read_buf) >= Wanted)
  <2>1. c = Len(read_buf) /\ c < Wanted
    BY <1>1, <1>6 DEF Chunk
  <2>2. wire = <<>> /\ stream # "open" /\ stream' = "eof"
    BY <1>6 DEF ReadsBytes, Enough, Drained
  <2>3. rest = <<>>
    BY <1>1, <1>3, <2>1
  <2> QED
    BY <1>2, <1>3, <1>4, <2>1, <2>2, <2>3, PipeRest
<1> QED
  BY <1>5, <1>6

-----------------------------------------------------------------------------
(* Every step keeps FramingInv: one lemma for each action.                 *)

\* The replies returned stay what they are while i3 writes more.
LEMMA BodiesKept ==
    ASSUME Typed, RepliesAreBodies, taken' = taken, outcome' = outcome,
           \A n \in 1..Len(lengths) : lengths'[n] = lengths[n]
    PROVE  RepliesAreBodies'
<1>1. ASSUME outcome.got = "message" PROVE taken > 0 /\ outcome.bytes = Body(taken)'
  <2>1. taken > 0 /\ outcome.bytes = Body(taken)
    BY <1>1 DEF RepliesAreBodies
  <2>2. taken \in 1..Len(lengths)
    BY <2>1 DEF Typed
  <2>3. lengths'[taken] = lengths[taken]
    BY <2>2
  <2> QED
    BY <2>1, <2>3 DEF Body
<1> QED
  BY <1>1 DEF RepliesAreBodies

LEMMA InvWrite ==
    ASSUME FramingInv, NEW length \in Lengths, I3Write(length) PROVE FramingInv'
<1> DEFINE n == Len(lengths) + 1
           b == MessageBytes(n, length)
<1>0. Typed
  BY DEF FramingInv
<1>1. /\ pipe \in Seq(AnyByte) /\ lengths \in Seq(Nat) /\ lengths \in Seq(Lengths)
      /\ read_buf \in Seq(AnyByte) /\ wire \in Seq(AnyByte)
      /\ \A k \in 1..Len(lengths) : lengths[k] \in Lengths
  BY <1>0, PipeType DEF Typed
<1>2. /\ stream = "open" /\ whole' = n /\ n \in Nat /\ Len(lengths) \in Nat
      /\ lengths' = Append(lengths, length) /\ wire' = wire \o b
      /\ UNCHANGED <<stream, read_buf, pc, caller, read_bytes, msg, reply_length,
                     reply, taken, outcome, overrun>>
  <2>1. stream = "open" /\ whole' = whole + 1 /\ lengths' = Append(lengths, length)
        /\ wire' = wire \o MessageBytes(whole', length)
    BY DEF I3Write
  <2>2. whole = Len(lengths)
    BY <2>1 DEF FramingInv
  <2>3. UNCHANGED <<stream, read_buf, pc, caller, read_bytes, msg, reply_length,
                    reply, taken, outcome, overrun>>
    BY DEF I3Write, recvVars
  <2>4. whole' = n /\ n \in Nat /\ Len(lengths) \in Nat
    BY <1>1, <2>1, <2>2
  <2>5. wire' = wire \o b
    BY <2>1, <2>4, Zenon
  <2> QED
    BY <2>1, <2>3, <2>4, <2>5
<1>3. /\ length \in Nat /\ b \in Seq(AnyByte) /\ Len(b) = to_read + length
      /\ \A k \in 1..(to_read + length) : b[k].of = n /\ b[k].at = k
  <2>1. length \in Nat
    BY LengthsAssumption, ModulusAssumption
  <2> QED
    BY <1>2, <2>1 DEF MessageBytes, AnyByte, to_read
<1>4. /\ lengths' \in Seq(Lengths) /\ Len(lengths') = n
      /\ lengths'[n] = length
      /\ \A k \in 1..Len(lengths) : lengths'[k] = lengths[k]
  BY <1>1, <1>2
<1> HIDE DEF b
<1>5. wire' \in Seq(AnyByte) /\ pipe' = pipe \o b
  <2>1. /\ read_buf \in Seq(AnyByte) /\ wire \in Seq(AnyByte) /\ b \in Seq(AnyByte)
        /\ read_buf' = read_buf /\ wire' = wire \o b
    BY <1>1, <1>2, <1>3
  <2>2. wire' \in Seq(AnyByte)
    BY <2>1, ConcatProperties
  <2>3. (read_buf \o wire) \o b = read_buf \o (wire \o b)
    BY ONLY <2>1, ConcatAssociative
  <2> QED
    BY <2>1, <2>2, <2>3 DEF pipe
<1>6. Typed'
  <2>1. taken' \in 0..Len(lengths')
    BY <1>0, <1>2, <1>4 DEF Typed
  <2> QED
    BY <1>0, <1>2, <1>4, <1>5, <2>1 DEF Typed
<1>7. ShortReadsEndTheStream' /\ OnlyTheLargestOverruns'
  BY <1>2 DEF FramingInv, ShortReadsEndTheStream, OnlyTheLargestOverruns
<1>8. RepliesAreBodies'
  BY <1>0, <1>2, <1>4, BodiesKept DEF FramingInv
<1>9. ASSUME ~overrun PROVE InStep'
  <2>0. InStep
    BY <1>9 DEF FramingInv
  <2>1. /\ pipe' \in Seq(AnyByte)
        /\ Len(pipe') = Len(pipe) + to_read + length /\ Len(pipe) \in Nat
        /\ \A i \in 1..Len(pipe) : pipe'[i] = pipe[i]
        /\ \A k \in 1..(to_read + length) : pipe'[Len(pipe) + k] = b[k]
    <3>1. /\ pipe' \in Seq(AnyByte) /\ Len(pipe') = Len(pipe) + Len(b)
          /\ \A i \in 1..(Len(pipe) + Len(b)) :
                pipe'[i] = IF i <= Len(pipe) THEN pipe[i] ELSE b[i - Len(pipe)]
      BY <1>1, <1>3, <1>5, ConcatProperties
    <3>2. Len(pipe) \in Nat /\ Len(b) \in Nat
      BY <1>1, <1>3
    <3>3. \A k \in 1..(to_read + length) : /\ Len(pipe) + k \in 1..(Len(pipe) + Len(b))
                                           /\ ~(Len(pipe) + k <= Len(pipe))
                                           /\ (Len(pipe) + k) - Len(pipe) = k
      BY <1>3, <3>2 DEF to_read
    <3>4. ASSUME NEW k \in 1..(to_read + length) PROVE pipe'[Len(pipe) + k] = b[k]
      BY <3>1, <3>3
    <3>5. ASSUME NEW i \in 1..Len(pipe) PROVE pipe'[i] = pipe[i]
      BY <3>1, <3>2
    <3>6. Len(pipe') = Len(pipe) + to_read + length
      BY <1>3, <3>1, <3>2 DEF to_read
    <3> QED
      BY <3>1, <3>2, <3>4, <3>5, <3>6
  <2>2. InOrder(pipe', lengths')
    BY <1>1, <1>2, <1>3, <1>5, <2>0, InOrderWritten DEF InStep, EndsWhole, b
  <2>3. NextByteExpected'
    <3>1. CASE pipe = <<>>
      <4>1. pc # "body" /\ taken = Len(lengths)
        BY <1>2, <2>0, <3>1 DEF InStep, EndsWhole
      <4>2. Len(pipe) = 0 /\ 1 \in 1..(to_read + length)
        BY <1>3, <3>1 DEF to_read
      <4>3. pipe'[1] = b[1]
        BY <2>1, <4>2
      <4> QED
        BY <1>2, <1>3, <4>1, <4>2, <4>3 DEF NextByteExpected
    <3>2. CASE pipe # <<>>
      <4>1. pipe'[1] = pipe[1]
        BY <1>1, <2>1, <3>2
      <4> QED
        BY <1>2, <2>0, <3>2, <4>1 DEF InStep, NextByteExpected
    <3> QED
      BY <3>1, <3>2
  <2>4. BodyExpected'
    <3>1. pc = "body" => taken < Len(lengths) /\ taken + 1 \in 1..Len(lengths)
      BY <1>0, <2>0 DEF Typed, InStep, BodyExpected
    <3>2. pc = "body" => lengths'[taken + 1] = lengths[taken + 1]
      BY <1>4, <3>1
    <3>3. pc = "body" => taken < Len(lengths')
      BY <1>0, <1>2, <1>4, <3>1 DEF Typed
    <3>4. UNCHANGED <<pc, taken, reply, reply_length>>
      BY <1>2
    <3>5. pc = "body" => /\ reply_length = lengths[taken + 1] /\ reply_length > 0
                         /\ Len(reply) = Allocated(reply_length)
      BY <2>0 DEF InStep, BodyExpected
    <3> QED
      BY <3>2, <3>3, <3>4, <3>5 DEF BodyExpected, Allocated
  <2>5. EndsWhole'
    <3>1. pipe' # <<>> /\ pipe'[Len(pipe')] = b[to_read + length]
      BY <1>3, <2>1 DEF to_read
    <3>2. to_read + length \in 1..(to_read + length)
      BY <1>3 DEF to_read
    <3>3. pipe'[Len(pipe')].of = n /\ pipe'[Len(pipe')].at = to_read + length
      BY <1>3, <3>1, <3>2
    <3> QED
      BY <1>4, <3>1, <3>3 DEF EndsWhole, Size
  <2> QED
    BY <1>2, <2>0, <2>2, <2>3, <2>4, <2>5 DEF InStep
<1> QED
  BY <1>2, <1>4, <1>6, <1>7, <1>8, <1>9 DEF FramingInv

\* A part of a message that reaches the socket was in the pipe before.
LEMMA InvSend == ASSUME FramingInv, I3Send PROVE FramingInv'
<1>1. UNCHANGED <<lengths, whole, wire, stream, read_buf, pc, caller, read_bytes, msg,
                  reply_length, reply, taken, outcome, overrun>> /\ pipe' = pipe
  BY DEF I3Send, recvVars, pipe
<1> QED
  BY <1>1 DEF FramingInv, Typed, ShortReadsEndTheStream, OnlyTheLargestOverruns,
              RepliesAreBodies, Body, InStep, NextByteExpected, BodyExpected, EndsWhole

LEMMA InvExit == ASSUME FramingInv, HeldType, I3Exit PROVE FramingInv'
<1>0. Typed
  BY DEF FramingInv
<1>1. PICK k \in 0..Len(wire) : wire' = SubSeq(wire, 1, k)
  <2>1. Len(wire) \in Nat
    BY <1>0 DEF Typed
  <2>2. InSocket \in 0..Len(wire)
    BY <2>1 DEF HeldType, InSocket
  <2> QED
    BY <2>2 DEF I3Exit
<1>2. /\ stream = "open" /\ stream' \in {"eof", "reset"}
      /\ UNCHANGED <<lengths, read_buf, pc, caller, read_bytes, msg, reply_length,
                     reply, taken, outcome, overrun>>
  BY DEF I3Exit, recvVars
<1>3. /\ wire' \in Seq(AnyByte) /\ Len(wire') = k
      /\ \A i \in 1..k : wire'[i] = wire[i]
      /\ read_buf \in Seq(AnyByte) /\ wire \in Seq(AnyByte)
      /\ Len(wire) \in Nat /\ k <= Len(wire) /\ k \in Nat
  BY <1>0, <1>1 DEF Typed
<1>4. /\ pipe' \in Seq(AnyByte) /\ pipe \in Seq(AnyByte) /\ Len(pipe') <= Len(pipe)
      /\ \A i \in 1..Len(pipe') : pipe'[i] = pipe[i]
  <2>1. /\ pipe' \in Seq(AnyByte) /\ Len(pipe') = Len(read_buf) + k
        /\ \A i \in 1..(Len(read_buf) + k) :
              pipe'[i] = IF i <= Len(read_buf) THEN read_buf[i] ELSE wire'[i - Len(read_buf)]
    BY <1>2, <1>3, ConcatProperties DEF pipe
  <2>2. /\ pipe \in Seq(AnyByte) /\ Len(pipe) = Len(read_buf) + Len(wire)
        /\ \A i \in 1..(Len(read_buf) + Len(wire)) :
              pipe[i] = IF i <= Len(read_buf) THEN read_buf[i] ELSE wire[i - Len(read_buf)]
    BY <1>3, ConcatProperties DEF pipe
  <2>3. Len(read_buf) \in Nat
    BY <1>3
  <2>4. ASSUME NEW i \in 1..(Len(read_buf) + k) PROVE pipe'[i] = pipe[i]
    <3>1. i \in 1..(Len(read_buf) + Len(wire)) /\ i \in Nat
      BY <1>3, <2>3
    <3>2. ~(i <= Len(read_buf)) => i - Len(read_buf) \in 1..k
      BY <1>3, <2>3
    <3> QED
      BY <1>3, <2>1, <2>2, <3>1, <3>2
  <2> QED
    BY <1>3, <2>1, <2>2, <2>3, <2>4
<1>5. Typed'
  BY <1>0, <1>2, <1>3 DEF Typed
<1>6. ShortReadsEndTheStream' /\ OnlyTheLargestOverruns'
  BY <1>2 DEF FramingInv, ShortReadsEndTheStream, OnlyTheLargestOverruns
<1>7. RepliesAreBodies'
  BY <1>0, <1>2, BodiesKept DEF FramingInv
<1>8. ASSUME ~overrun PROVE InStep'
  <2>0. InStep
    BY <1>8 DEF FramingInv
  <2>1. InOrder(pipe', lengths')
    <3>1. lengths \in Seq(Nat)
      BY <1>0, PipeType
    <3> QED
      BY <1>2, <1>4, <2>0, <3>1, InOrderStart DEF InStep
  <2>2. NextByteExpected'
    <3>1. pipe' # <<>> => pipe # <<>> /\ pipe'[1] = pipe[1]
      BY <1>4
    <3> QED
      BY <1>2, <2>0, <3>1 DEF InStep, NextByteExpected
  <2>3. BodyExpected' /\ EndsWhole'
    BY <1>2, <2>0 DEF InStep, BodyExpected, EndsWhole
  <2> QED
    BY <1>2, <2>0, <2>1, <2>2, <2>3 DEF InStep
<1> QED
  BY <1>2, <1>5, <1>6, <1>7, <1>8 DEF FramingInv

LEMMA InvFill == ASSUME FramingInv, HeldType, g_io_channel_fill_buffer PROVE FramingInv'
<1>0. Typed /\ ~overrun
  BY DEF FramingInv, g_io_channel_fill_buffer
<1>1. pipe' = pipe /\ read_buf' \in Seq(AnyByte) /\ wire' \in Seq(AnyByte)
  BY <1>0, PipeFilled
<1>2. UNCHANGED <<lengths, whole, stream, pc, caller, read_bytes, msg, reply_length,
                  reply, taken, outcome, overrun>>
  BY DEF g_io_channel_fill_buffer, recvVars
<1>3. Typed'
  BY <1>0, <1>1, <1>2 DEF Typed
<1>4. ~(pc # "idle" /\ read_bytes > 0)
  <2>1. wire # <<>>
    <3>1. PICK k \in 1..BufSize : k <= Len(wire)
      BY <1>0, PartOfWire
    <3>2. Len(wire) # 0
      BY <1>0, <3>1, BufSizeAssumption DEF Typed
    <3> QED
      BY <3>2
  <2> QED
    BY <2>1 DEF FramingInv, ShortReadsEndTheStream
<1>5. ShortReadsEndTheStream' /\ OnlyTheLargestOverruns'
  BY <1>2, <1>4 DEF FramingInv, ShortReadsEndTheStream, OnlyTheLargestOverruns
<1>6. RepliesAreBodies'
  BY <1>0, <1>2, BodiesKept DEF FramingInv
<1>7. InStep'
  BY <1>0, <1>1, <1>2
     DEF FramingInv, InStep, NextByteExpected, BodyExpected, EndsWhole
<1> QED
  BY <1>2, <1>3, <1>5, <1>6, <1>7 DEF FramingInv

LEMMA InvCall ==
    ASSUME FramingInv, NEW who \in Callers, ipc_recv_message(who) PROVE FramingInv'
<1>0. Typed /\ InStep /\ ~overrun /\ pc = "idle"
  BY DEF FramingInv, ipc_recv_message
<1>1. UNCHANGED <<lengths, whole, wire, stream, read_buf, reply_length, reply,
                  taken, overrun>> /\ pipe' = pipe
  BY DEF ipc_recv_message, i3Vars, pipe
<1>2. CASE pc' = "header" /\ read_bytes' = 0 /\ msg' = Uninitialised(to_read)
           /\ outcome' = outcome
  <2>1. Typed'
    BY <1>0, <1>1, <1>2 DEF Typed, Uninitialised
  <2>2. ShortReadsEndTheStream' /\ OnlyTheLargestOverruns'
    BY <1>1, <1>2 DEF FramingInv, ShortReadsEndTheStream, OnlyTheLargestOverruns
  <2>3. RepliesAreBodies'
    BY <1>0, <1>1, <1>2, BodiesKept DEF FramingInv
  <2>4. InStep'
    BY <1>0, <1>1, <1>2 DEF InStep, NextByteExpected, BodyExpected, EndsWhole
  <2> QED
    BY <1>1, <2>1, <2>2, <2>3, <2>4 DEF FramingInv
<1>3. CASE outcome' = Returned("error", "unset", <<>>) /\ UNCHANGED <<pc, read_bytes, msg>>
  <2>1. Typed'
    BY <1>0, <1>1, <1>3 DEF Typed
  <2>2. ShortReadsEndTheStream' /\ OnlyTheLargestOverruns'
    BY <1>1, <1>3 DEF FramingInv, ShortReadsEndTheStream, OnlyTheLargestOverruns
  <2>3. RepliesAreBodies'
    BY <1>3 DEF RepliesAreBodies, Returned
  <2>4. InStep'
    BY <1>0, <1>1, <1>3 DEF InStep, NextByteExpected, BodyExpected, EndsWhole
  <2> QED
    BY <1>1, <2>1, <2>2, <2>3, <2>4 DEF FramingInv
<1> QED
  BY <1>2, <1>3 DEF ipc_recv_message

LEMMA InvEnd == ASSUME FramingInv, ReadEnd PROVE FramingInv'
<1>0. Typed /\ InStep /\ ~overrun
  BY DEF FramingInv, ReadEnd, ReadsEnd
<1>1. /\ read_buf = <<>> /\ wire = <<>> /\ stream # "open" /\ stream' = "eof"
      /\ UNCHANGED <<lengths, whole, wire, read_buf, reply_length, taken, overrun>>
      /\ pc' = "idle" /\ read_bytes' = 0 /\ reply' = <<>>
      /\ msg' = Uninitialised(to_read)
  BY DEF ReadEnd, ReadsEnd, Drained, Return
<1>2. outcome'.got \in {"error", "eof"}
  BY DEF ReadEnd, Return, Returned
<1>3. pipe' = <<>> /\ pipe = <<>>
  BY <1>1 DEF pipe
<1>4. Typed'
  BY <1>0, <1>1 DEF Typed, Uninitialised
<1>5. ShortReadsEndTheStream' /\ OnlyTheLargestOverruns' /\ RepliesAreBodies'
  BY <1>1, <1>2 DEF FramingInv, ShortReadsEndTheStream, OnlyTheLargestOverruns,
                    RepliesAreBodies
<1>6. InStep'
  BY <1>0, <1>1, <1>3 DEF InStep, NextByteExpected, BodyExpected, EndsWhole
<1> QED
  BY <1>1, <1>4, <1>5, <1>6 DEF FramingInv

-----------------------------------------------------------------------------
(* The reads.                                                              *)

\* malloc gets what was asked for, unless the sum wraps.
LEMMA Room ==
    ASSUME NEW length \in 0..(Modulus - 1), length # Modulus - 1
    PROVE  Allocated(length) = length + 1
<1>1. Modulus \in Nat /\ length + 1 \in 0..(Modulus - 1)
  BY ModulusAssumption
<1> QED
  BY <1>1 DEF Allocated

\* A buffer has the size it was allocated with.
LEMMA Fresh ==
    ASSUME NEW size \in Nat
    PROVE  Uninitialised(size) \in Seq(AnyByte) /\ Len(Uninitialised(size)) = size
<1>1. Junk \in AnyByte
  BY DEF Junk, AnyByte
<1>2. [k \in 1..size |-> Junk] \in Seq(AnyByte)
  BY <1>1, IsASeq
<1>3. Len([k \in 1..size |-> Junk]) = size
  BY <1>2, LenProperties
<1> QED
  BY <1>2, <1>3 DEF Uninitialised

\* A chunk that goes to the start of a buffer is the start of the pipe.
LEMMA StoredBytes ==
    ASSUME Typed, read_bytes = 0, Chunk \in 0..Len(read_buf), NEW buffer
    PROVE  /\ DOMAIN Stored(buffer) = DOMAIN buffer
           /\ \A k \in DOMAIN buffer :
                 k \in 1..Chunk => Stored(buffer)[k] = pipe[k]
           /\ buffer \in Seq(AnyByte) =>
                 Stored(buffer) \in Seq(AnyByte) /\ Len(Stored(buffer)) = Len(buffer)
<1>1. read_buf \in Seq(AnyByte) /\ \A k \in 1..Len(read_buf) : pipe[k] = read_buf[k]
  BY PipeType DEF Typed
<1>2. DOMAIN Stored(buffer) = DOMAIN buffer
  BY DEF Stored
<1>3. ASSUME NEW k \in DOMAIN buffer, k \in 1..Chunk
      PROVE  Stored(buffer)[k] = pipe[k]
  <2>1. k > read_bytes /\ k <= read_bytes + Chunk /\ k - read_bytes = k
    BY <1>3
  <2>2. Stored(buffer)[k] = read_buf[k]
    BY <2>1 DEF Stored
  <2>3. k \in 1..Len(read_buf)
    BY <1>1, <1>3
  <2> QED
    BY <1>1, <2>2, <2>3
<1>4. ASSUME buffer \in Seq(AnyByte)
      PROVE  Stored(buffer) \in Seq(AnyByte) /\ Len(Stored(buffer)) = Len(buffer)
  <2>1. DOMAIN buffer = 1..Len(buffer) /\ Len(buffer) \in Nat
    BY <1>4
  <2>2. ASSUME NEW k \in 1..Len(buffer) PROVE Stored(buffer)[k] \in AnyByte
    <3>1. CASE k > read_bytes /\ k <= read_bytes + Chunk
      <4>1. k - read_bytes \in 1..Len(read_buf)
        BY <1>1, <3>1
      <4>2. Stored(buffer)[k] = read_buf[k - read_bytes]
        BY <2>1, <3>1 DEF Stored
      <4> QED
        BY <1>1, <4>1, <4>2
    <3>2. CASE ~(k > read_bytes /\ k <= read_bytes + Chunk)
      <4>1. Stored(buffer)[k] = buffer[k]
        BY <2>1, <3>2 DEF Stored
      <4> QED
        BY <1>4, <4>1
    <3> QED
      BY <3>1, <3>2
  <2>3. Stored(buffer) = [k \in 1..Len(buffer) |-> Stored(buffer)[k]]
    BY <2>1 DEF Stored
  <2>4. Stored(buffer) \in Seq(AnyByte)
    BY <2>1, <2>2, <2>3, IsASeq
  <2>5. Len(Stored(buffer)) = Len(buffer)
    BY <1>2, <2>1, <2>4
  <2> QED
    BY <2>4, <2>5
<1> QED
  BY <1>2, <1>3, <1>4

\* What the pipe begins with when the first c bytes have been read, and what
\* it ends with.
LEMMA PipeLeft ==
    ASSUME Typed, InStep, lengths' = lengths, pipe # <<>>,
           NEW c \in Nat, c > 0, c <= Len(pipe),
           NEW left \in Nat, left = Size(lengths, pipe[1].of) - pipe[1].at + 1,
           c <= left,
           pipe' \in Seq(AnyByte), Len(pipe') = Len(pipe) - c,
           \A i \in 1..Len(pipe') : pipe'[i] = pipe[i + c]
    PROVE  /\ InOrder(pipe', lengths')
           /\ pipe' # <<>> =>
                 IF c = left THEN pipe'[1].of = pipe[1].of + 1 /\ pipe'[1].at = 1
                             ELSE pipe'[1].of = pipe[1].of /\ pipe'[1].at = pipe[1].at + c
           /\ stream = "open" /\ pipe' = <<>> => c = left /\ pipe[1].of = Len(lengths)
           /\ stream = "open" /\ pipe' # <<>> =>
                 /\ pipe'[Len(pipe')].of = Len(lengths)
                 /\ pipe'[Len(pipe')].at = Size(lengths, Len(lengths))
<1>1. pipe \in Seq(AnyByte) /\ lengths \in Seq(Nat) /\ Len(pipe) \in Nat
  BY PipeType
<1>2. InOrder(pipe, lengths)
  BY DEF InStep
<1>3. InOrder(pipe', lengths')
  BY <1>1, <1>2, InOrderRest
<1>4. 1 \in 1..Len(pipe) /\ pipe[1] \in AnyByte /\ pipe[1].of \in 1..Len(lengths)
      /\ pipe[1].at \in Nat /\ Size(lengths, pipe[1].of) \in Nat
  <2>1. 1 \in 1..Len(pipe) /\ pipe[1] \in AnyByte
    BY <1>1
  <2>2. pipe[1].of \in 1..Len(lengths) /\ pipe[1].at \in Nat
    BY <1>2, <2>1 DEF InOrder, AnyByte
  <2> QED
    BY <1>1, <2>1, <2>2, SizeType
<1>5. c \in 1..Len(pipe) /\ pipe[c].of = pipe[1].of /\ pipe[c].at = pipe[1].at + c - 1
  <2>1. c \in 1..Len(pipe) /\ c <= Size(lengths, pipe[1].of) - pipe[1].at + 1
    BY <1>1, <1>4
  <2> QED
    BY <1>1, <1>2, <2>1, FirstMessage
<1>6. ASSUME pipe' # <<>>
      PROVE  IF c = left THEN pipe'[1].of = pipe[1].of + 1 /\ pipe'[1].at = 1
                         ELSE pipe'[1].of = pipe[1].of /\ pipe'[1].at = pipe[1].at + c
  <2>1. 1 \in 1..Len(pipe') /\ c < Len(pipe) /\ pipe'[1] = pipe[c + 1]
    BY <1>1, <1>6
  <2>2. CASE c = left
    BY <1>1, <1>2, <2>1, <2>2, NextMessage
  <2>3. CASE c # left
    <3>1. c + 1 \in 1..Len(pipe) /\ c + 1 <= Size(lengths, pipe[1].of) - pipe[1].at + 1
      BY <1>1, <1>4, <2>1, <2>3
    <3>2. pipe[c + 1].of = pipe[1].of /\ pipe[c + 1].at = pipe[1].at + (c + 1) - 1
      BY <1>1, <1>2, <3>1, FirstMessage
    <3> QED
      BY <1>4, <2>1, <2>3, <3>2
  <2> QED
    BY <2>2, <2>3
<1>7. ASSUME stream = "open"
      PROVE  /\ pipe' = <<>> => c = left /\ pipe[1].of = Len(lengths)
             /\ pipe' # <<>> => /\ pipe'[Len(pipe')].of = Len(lengths)
                                /\ pipe'[Len(pipe')].at = Size(lengths, Len(lengths))
  <2>1. pipe[Len(pipe)].of = Len(lengths) /\ pipe[Len(pipe)].at = Size(lengths, Len(lengths))
    BY <1>7 DEF InStep, EndsWhole
  <2>2. CASE pipe' = <<>>
    <3>1. c = Len(pipe)
      BY <1>1, <2>2
    <3>2. pipe[1].of = Len(lengths) /\ pipe[c].at = Size(lengths, pipe[1].of)
      BY <1>5, <2>1, <3>1
    <3> QED
      BY <1>4, <1>5, <2>2, <3>2
  <2>3. CASE pipe' # <<>>
    <3>1. Len(pipe') \in 1..Len(pipe') /\ Len(pipe') + c = Len(pipe)
      BY <1>1, <2>3
    <3> QED
      BY <2>1, <2>3, <3>1
  <2> QED
    BY <2>2, <2>3
<1> QED
  BY <1>3, <1>6, <1>7

\* A read that hands out less than it was asked for is the last one.
LEMMA InvShort ==
    ASSUME FramingInv, Typed, InStep, pc # "idle",
           read_buf' = <<>>, wire' = <<>>, stream' = "eof", read_bytes' \in Nat,
           UNCHANGED <<lengths, whole, pc, reply_length, taken, outcome, overrun>>,
           DOMAIN msg' = 1..to_read, reply' \in Seq(AnyByte), Len(reply') = Len(reply)
    PROVE  FramingInv'
<1>1. pipe' = <<>>
  BY DEF pipe
<1>2. Typed'
  BY DEF Typed
<1>3. ShortReadsEndTheStream' /\ OnlyTheLargestOverruns'
  BY DEF FramingInv, ShortReadsEndTheStream, OnlyTheLargestOverruns
<1>4. RepliesAreBodies'
  BY BodiesKept DEF FramingInv
<1>5. InStep'
  <2>1. InOrder(pipe', lengths')
    BY <1>1 DEF InOrder
  <2>2. BodyExpected'
    BY DEF InStep, BodyExpected, Allocated
  <2> QED
    BY <1>1, <2>1, <2>2 DEF InStep, NextByteExpected, EndsWhole
<1> QED
  BY <1>2, <1>3, <1>4, <1>5 DEF FramingInv

\* A message is returned when its last byte has been read.
LEMMA InvFinish ==
    ASSUME FramingInv, Typed, InStep, taken < Len(lengths),
           NEW buffer, NEW length \in Nat, length = lengths[taken + 1],
           Finish(buffer, length), reply_length' = length,
           SubSeq(buffer, 1, length) = Body(taken + 1),
           Len(buffer) = Allocated(length),
           wire' = wire, stream' = stream, read_buf' \in Seq(AnyByte),
           UNCHANGED <<lengths, whole>>,
           InOrder(pipe', lengths'),
           pipe' # <<>> => pipe'[1].of = taken + 2 /\ pipe'[1].at = 1,
           stream = "open" /\ pipe' = <<>> => taken + 1 = Len(lengths),
           stream = "open" /\ pipe' # <<>> =>
               /\ pipe'[Len(pipe')].of = Len(lengths)
               /\ pipe'[Len(pipe')].at = Size(lengths, Len(lengths))
    PROVE  FramingInv'
<1>1. /\ pc' = "idle" /\ read_bytes' = 0 /\ msg' = Uninitialised(to_read)
      /\ reply' = <<>> /\ taken' = taken + 1
      /\ outcome' = Returned("message", "string", SubSeq(buffer, 1, length))
      /\ overrun' = (length + 1 > Len(buffer))
  BY DEF Finish, Return
<1>2. taken \in Nat /\ Len(lengths) \in Nat
  BY DEF Typed
<1>3. Typed'
  BY <1>1, <1>2 DEF Typed, Uninitialised
<1>4. ShortReadsEndTheStream'
  BY <1>1 DEF ShortReadsEndTheStream
<1>5. OnlyTheLargestOverruns'
  <2>1. length \in 0..(Modulus - 1)
    BY <1>2, LengthsAssumption DEF Typed
  <2>2. length # Modulus - 1 => Len(buffer) = length + 1
    BY <2>1, Room
  <2>3. ASSUME overrun' PROVE length = Modulus - 1
    <3>1. length + 1 > Len(buffer)
      BY <1>1, <2>3, Zenon
    <3>2. ~(length + 1 > length + 1)
      OBVIOUS
    <3> QED
      BY <2>2, <3>1, <3>2
  <2> QED
    BY <2>3 DEF OnlyTheLargestOverruns
<1>6. RepliesAreBodies'
  <2>1. outcome'.bytes = Body(taken + 1) /\ taken' > 0
    BY <1>1, <1>2 DEF Returned
  <2>2. Body(taken)' = Body(taken + 1)
    BY <1>1 DEF Body
  <2> QED
    BY <2>1, <2>2 DEF RepliesAreBodies
<1>7. InStep'
  <2>1. NextByteExpected'
    BY <1>1, <1>2 DEF NextByteExpected
  <2>2. BodyExpected' /\ EndsWhole'
    BY <1>1, <1>2 DEF BodyExpected, EndsWhole, Size
  <2> QED
    BY <1>1, <2>1, <2>2 DEF InStep
<1> QED
  BY <1>3, <1>4, <1>5, <1>6, <1>7 DEF FramingInv

\* What holds when a read hands out bytes: it is the first of its loop.
LEMMA Reading ==
    ASSUME FramingInv, ReadsBytes, pc # "idle"
    PROVE  /\ Typed /\ InStep /\ ~overrun /\ read_bytes = 0
           /\ pipe # <<>> /\ taken + 1 \in 1..Len(lengths)
           /\ pipe[1].of = taken + 1 /\ Len(pipe) \in Nat
           /\ Size(lengths, taken + 1) = to_read + lengths[taken + 1]
           /\ lengths[taken + 1] \in 0..(Modulus - 1)
<1>1. Typed /\ InStep /\ ~overrun
  BY DEF FramingInv, ReadsBytes
<1>2. read_buf # <<>>
  BY DEF ReadsBytes
<1>3. read_bytes = 0
  <2>1. ~(read_bytes > 0)
    BY <1>2 DEF FramingInv, ShortReadsEndTheStream
  <2> QED
    BY <1>1, <2>1 DEF Typed
<1>4. /\ pipe \in Seq(AnyByte) /\ Len(pipe) = Len(read_buf) + Len(wire)
      /\ Len(read_buf) \in Nat /\ Len(wire) \in Nat
      /\ \A n \in 1..Len(lengths) : lengths[n] \in Lengths
  BY <1>1, PipeType
<1>5. pipe # <<>> /\ Len(pipe) \in Nat /\ 1 \in 1..Len(pipe)
  <2>1. Len(read_buf) > 0
    BY <1>1, <1>2 DEF Typed
  <2> QED
    BY <1>4, <2>1
<1>6. pipe[1].of = taken + 1 /\ taken + 1 \in 1..Len(lengths)
  BY <1>1, <1>5 DEF InStep, NextByteExpected, InOrder
<1>7. lengths[taken + 1] \in 0..(Modulus - 1)
  BY <1>4, <1>6, LengthsAssumption
<1> QED
  BY <1>1, <1>3, <1>5, <1>6, <1>7 DEF Size

\* A read of the header gets all of it, and then its length is that of the
\* next message, or it is the last read.
LEMMA HeaderRead ==
    ASSUME FramingInv, ReadHeader, NEW l, l = lengths[taken + 1]
    PROVE  /\ pc = "header" /\ ReadsBytes
           /\ UNCHANGED <<lengths, whole, wire, caller>>
           /\ Wanted = 3 /\ pipe[1].at = 1 /\ l \in Nat
           /\ Chunk < Wanted =>
                 /\ msg' = Stored(msg) /\ read_bytes' = Chunk
                 /\ UNCHANGED <<pc, reply_length, reply, taken, outcome, overrun>>
           /\ Chunk = Wanted =>
                 /\ reply_length' = l
                 /\ IF l = 0
                    THEN Finish(Uninitialised(Allocated(l)), l)
                    ELSE /\ pc' = "body" /\ read_bytes' = 0 /\ msg' = Stored(msg)
                         /\ reply' = Uninitialised(Allocated(l))
                         /\ UNCHANGED <<taken, outcome, overrun>>
<1>1. /\ pc = "header" /\ ReadsBytes
      /\ UNCHANGED <<lengths, whole, wire, caller>>
  BY DEF ReadHeader
<1>2. /\ Typed /\ InStep /\ ~overrun /\ read_bytes = 0
      /\ pipe # <<>> /\ taken + 1 \in 1..Len(lengths)
      /\ pipe[1].of = taken + 1 /\ Len(pipe) \in Nat
      /\ Size(lengths, taken + 1) = to_read + l /\ l \in 0..(Modulus - 1)
  BY <1>1, Reading
<1>3. pipe[1].at = 1 /\ Wanted = 3 /\ l \in Nat
  BY <1>1, <1>2, ModulusAssumption DEF InStep, NextByteExpected, Wanted, to_read
<1>4. /\ Chunk \in 0..Len(read_buf) /\ Chunk <= Wanted
      /\ pipe' \in Seq(AnyByte) /\ Len(pipe') = Len(pipe) - Chunk
      /\ \A i \in 1..Len(pipe') : pipe'[i] = pipe[i + Chunk]
      /\ read_buf' \in Seq(AnyByte)
      /\ \/ Chunk = Wanted /\ stream' = stream
         \/ /\ Chunk < Wanted /\ stream # "open"
            /\ read_buf' = <<>> /\ wire = <<>> /\ stream' = "eof"
  <2>1. Wanted \in Nat
    BY <1>3
  <2> QED
    BY <1>1, <1>2, <2>1, PipeRead
<1>5. DOMAIN msg = 1..3 /\ DOMAIN Stored(msg) = 1..3
      /\ \A k \in 1..3 : k \in 1..Chunk => Stored(msg)[k] = pipe[k]
  <2>1. DOMAIN msg = 1..3
    BY <1>2 DEF Typed, to_read
  <2> QED
    BY <1>2, <1>4, <2>1, StoredBytes
<1>6. ASSUME Chunk < Wanted
      PROVE  /\ msg' = Stored(msg) /\ read_bytes' = Chunk
             /\ UNCHANGED <<pc, reply_length, reply, taken, outcome, overrun>>
  <2>1. ~Complete(Chunk, to_read)
    BY <1>3, <1>4, <1>6 DEF Complete, to_read
  <2> QED
    BY <2>1 DEF ReadHeader
<1>7. ASSUME Chunk = Wanted
      PROVE  /\ reply_length' = l
             /\ IF l = 0
                THEN Finish(Uninitialised(Allocated(l)), l)
                ELSE /\ pc' = "body" /\ read_bytes' = 0 /\ msg' = Stored(msg)
                     /\ reply' = Uninitialised(Allocated(l))
                     /\ UNCHANGED <<taken, outcome, overrun>>
  <2>1. Chunk = 3 /\ Complete(Chunk, to_read) /\ 3 <= Len(pipe)
    <3>1. 3 <= Len(pipe)
      BY <1>2, <1>3, <1>4, <1>7, PipeType
    <3> QED
      BY <1>3, <1>4, <1>7, <3>1 DEF Complete, to_read
  <2>2. \A k \in 1..3 : Stored(msg)[k] = pipe[k] /\ pipe[k].of = taken + 1 /\ pipe[k].at = k
    <3>1. pipe \in Seq(AnyByte) /\ lengths \in Seq(Nat) /\ InOrder(pipe, lengths)
      BY <1>2, PipeType DEF InStep
    <3>2. ASSUME NEW k \in 1..3
          PROVE  Stored(msg)[k] = pipe[k] /\ pipe[k].of = taken + 1 /\ pipe[k].at = k
      <4>1. k \in 1..Len(pipe) /\ k <= Size(lengths, pipe[1].of) - pipe[1].at + 1
        BY <1>2, <1>3, <2>1 DEF to_read
      <4>2. pipe[k].of = pipe[1].of /\ pipe[k].at = pipe[1].at + k - 1
        BY <1>2, <3>1, <4>1, FirstMessage
      <4> QED
        BY <1>2, <1>3, <1>5, <2>1, <4>2
    <3> QED
      BY <3>2
  <2>3. HeaderComplete(Stored(msg))
    BY <2>1 DEF ReadHeader
  <2>4. Stored(msg)[MagicAt].at = MagicAt
    BY <2>2 DEF MagicAt
  <2>5. Stored(msg)[LengthAt].at = LengthAt /\ Stored(msg)[LengthAt].of = taken + 1
    BY <2>2 DEF LengthAt
  <2>6. HeaderLengths(Stored(msg)) = {l}
    BY <2>5 DEF HeaderLengths
  <2> QED
    BY <2>3, <2>4, <2>6 DEF HeaderComplete
<1> QED
  BY <1>1, <1>3, <1>6, <1>7

LEMMA InvHeader == ASSUME FramingInv, ReadHeader PROVE FramingInv'
<1> DEFINE l == lengths[taken + 1]
<1>1. /\ pc = "header" /\ ReadsBytes
      /\ UNCHANGED <<lengths, whole, wire, caller>>
  BY DEF ReadHeader
<1>2. /\ Typed /\ InStep /\ ~overrun /\ read_bytes = 0
      /\ pipe # <<>> /\ taken + 1 \in 1..Len(lengths)
      /\ pipe[1].of = taken + 1 /\ Len(pipe) \in Nat
      /\ Size(lengths, taken + 1) = to_read + l /\ l \in 0..(Modulus - 1)
  BY <1>1, Reading
<1>3. pipe[1].at = 1 /\ Wanted = 3 /\ l \in Nat
  BY HeaderRead
<1>4. /\ Chunk \in 0..Len(read_buf) /\ Chunk <= Wanted
      /\ pipe' \in Seq(AnyByte) /\ Len(pipe') = Len(pipe) - Chunk
      /\ \A i \in 1..Len(pipe') : pipe'[i] = pipe[i + Chunk]
      /\ read_buf' \in Seq(AnyByte)
      /\ \/ Chunk = Wanted /\ stream' = stream
         \/ /\ Chunk < Wanted /\ stream # "open"
            /\ read_buf' = <<>> /\ wire = <<>> /\ stream' = "eof"
  <2>1. Wanted \in Nat
    BY <1>3
  <2> QED
    BY <1>1, <1>2, <2>1, PipeRead
<1>5. DOMAIN msg = 1..3 /\ DOMAIN Stored(msg) = 1..3
      /\ \A k \in 1..3 : k \in 1..Chunk => Stored(msg)[k] = pipe[k]
  <2>1. DOMAIN msg = 1..3
    BY <1>2 DEF Typed, to_read
  <2> QED
    BY <1>2, <1>4, <2>1, StoredBytes
<1>6. CASE Chunk < Wanted
  <2>1. read_buf' = <<>> /\ wire' = <<>> /\ stream' = "eof"
    BY <1>1, <1>3, <1>4, <1>6
  <2>3. /\ msg' = Stored(msg) /\ read_bytes' = Chunk
        /\ UNCHANGED <<pc, reply_length, reply, taken, outcome, overrun>>
    BY <1>6, HeaderRead
  <2>4. read_bytes' \in Nat /\ DOMAIN msg' = 1..to_read
    BY <1>4, <1>5, <2>3 DEF to_read
  <2>5. reply' \in Seq(AnyByte) /\ Len(reply') = Len(reply)
    BY <1>2, <2>3 DEF Typed
  <2>6. pc # "idle"
    BY <1>1
  <2> QED
    BY <1>1, <1>2, <2>1, <2>3, <2>4, <2>5, <2>6, InvShort
<1>7. CASE Chunk = Wanted
  <2>1. stream' = stream /\ Chunk = 3 /\ 3 <= Len(pipe)
    <3>1. 3 <= Len(pipe)
      BY <1>2, <1>3, <1>4, <1>7, PipeType
    <3> QED
      BY <1>3, <1>4, <1>7, <3>1
  <2>3. /\ reply_length' = l
        /\ IF l = 0
           THEN Finish(Uninitialised(Allocated(l)), l)
           ELSE /\ pc' = "body" /\ read_bytes' = 0 /\ msg' = Stored(msg)
                /\ reply' = Uninitialised(Allocated(l))
                /\ UNCHANGED <<taken, outcome, overrun>>
    BY <1>7, HeaderRead
  <2>4. /\ InOrder(pipe', lengths')
        /\ pipe' # <<>> =>
              IF l = 0 THEN pipe'[1].of = taken + 2 /\ pipe'[1].at = 1
                       ELSE pipe'[1].of = taken + 1 /\ pipe'[1].at = 4
        /\ stream = "open" /\ pipe' = <<>> => l = 0 /\ taken + 1 = Len(lengths)
        /\ stream = "open" /\ pipe' # <<>> =>
              /\ pipe'[Len(pipe')].of = Len(lengths)
              /\ pipe'[Len(pipe')].at = Size(lengths, Len(lengths))
    <3> DEFINE left == Size(lengths, pipe[1].of) - pipe[1].at + 1
    <3>1. left = 3 + l /\ left \in Nat
      BY <1>2, <1>3 DEF to_read
    <3> HIDE DEF left
    <3>2. /\ InOrder(pipe', lengths')
          /\ pipe' # <<>> =>
                IF 3 = left THEN pipe'[1].of = pipe[1].of + 1 /\ pipe'[1].at = 1
                            ELSE pipe'[1].of = pipe[1].of /\ pipe'[1].at = pipe[1].at + 3
          /\ stream = "open" /\ pipe' = <<>> => 3 = left /\ pipe[1].of = Len(lengths)
          /\ stream = "open" /\ pipe' # <<>> =>
                /\ pipe'[Len(pipe')].of = Len(lengths)
                /\ pipe'[Len(pipe')].at = Size(lengths, Len(lengths))
      <4>1. lengths' = lengths /\ 3 <= left /\ Len(pipe') = Len(pipe) - 3
            /\ \A i \in 1..Len(pipe') : pipe'[i] = pipe[i + 3]
        BY <1>1, <1>3, <1>4, <2>1, <3>1
      <4> QED
        BY <1>2, <1>4, <2>1, <3>1, <4>1, PipeLeft DEF left
    <3>3. 3 = left <=> l = 0
      BY <1>3, <3>1
    <3>4. pipe[1].of + 1 = taken + 2 /\ pipe[1].at + 3 = 4
      BY <1>2, <1>3 DEF Typed
    <3> QED
      BY <1>2, <3>2, <3>3, <3>4, Zenon
  <2>5. CASE l = 0
    <3> DEFINE buffer == Uninitialised(Allocated(l))
    <3>1. Allocated(l) \in Nat
      BY <1>3, ModulusAssumption DEF Allocated
    <3>2. Len(buffer) = Allocated(l) /\ buffer \in Seq(AnyByte)
      BY <3>1, Fresh
    <3>3. SubSeq(buffer, 1, l) = Body(taken + 1)
      <4>1. SubSeq(buffer, 1, l) = <<>>
        BY <2>5, <3>2
      <4>2. Body(taken + 1) = <<>>
        BY <2>5 DEF Body
      <4> QED
        BY <4>1, <4>2
    <3>4. Finish(buffer, l) /\ reply_length' = l
      BY <2>3, <2>5
    <3> HIDE DEF buffer
    <3>5. taken < Len(lengths)
      BY <1>2 DEF Typed
    <3> QED
      BY <1>1, <1>2, <1>3, <1>4, <2>1, <2>4, <2>5, <3>2, <3>3, <3>4, <3>5, InvFinish
  <2>6. CASE l # 0
    <3> DEFINE room == Allocated(l)
    <3>1. /\ pc' = "body" /\ read_bytes' = 0 /\ msg' = Stored(msg)
          /\ reply' = Uninitialised(room) /\ reply_length' = l
          /\ UNCHANGED <<taken, outcome, overrun, lengths, whole, wire, stream>>
      BY <1>1, <2>1, <2>3, <2>6
    <3>2. room \in Nat
      BY <1>3, ModulusAssumption DEF Allocated
    <3>3. reply' \in Seq(AnyByte) /\ Len(reply') = room
      BY <3>1, <3>2, Fresh
    <3>4. Typed'
      BY <1>2, <1>3, <1>4, <1>5, <3>1, <3>3 DEF Typed, to_read
    <3>5. ShortReadsEndTheStream' /\ OnlyTheLargestOverruns'
      BY <1>2, <3>1 DEF ShortReadsEndTheStream, OnlyTheLargestOverruns
    <3>6. RepliesAreBodies'
      BY <1>2, <3>1, BodiesKept DEF FramingInv
    <3>7. BodyExpected'
      <4>1. taken < Len(lengths) /\ l > 0
        BY <1>2, <1>3, <2>6 DEF Typed
      <4>2. Len(reply') = Allocated(reply_length')
        BY <3>1, <3>3
      <4>3. Allocated(reply_length)' = Allocated(reply_length')
        BY DEF Allocated
      <4> QED
        BY <3>1, <4>1, <4>2, <4>3 DEF BodyExpected
    <3>8. InStep'
      BY <2>4, <2>6, <3>1, <3>7 DEF InStep, NextByteExpected, EndsWhole, Size, to_read
    <3> QED
      BY <3>1, <3>4, <3>5, <3>6, <3>8 DEF FramingInv
  <2> QED
    BY <2>5, <2>6
<1> QED
  BY <1>3, <1>4, <1>6, <1>7

LEMMA InvBody == ASSUME FramingInv, ReadBody PROVE FramingInv'
<1> DEFINE l == reply_length
<1>1. /\ pc = "body" /\ ReadsBytes
      /\ UNCHANGED <<lengths, whole, wire, caller, reply_length>>
  BY DEF ReadBody
<1>2. /\ Typed /\ InStep /\ ~overrun /\ read_bytes = 0
      /\ pipe # <<>> /\ taken + 1 \in 1..Len(lengths)
      /\ pipe[1].of = taken + 1 /\ Len(pipe) \in Nat
      /\ Size(lengths, taken + 1) = to_read + lengths[taken + 1]
      /\ lengths[taken + 1] \in 0..(Modulus - 1)
  BY <1>1, Reading
<1>3. /\ pipe[1].at = 4 /\ Wanted = l /\ l = lengths[taken + 1]
      /\ taken < Len(lengths) /\ l > 0 /\ Len(reply) = Allocated(l)
      /\ l \in Nat /\ Size(lengths, taken + 1) = 3 + l /\ l \in 0..(Modulus - 1)
  <2>1. /\ l = lengths[taken + 1] /\ taken < Len(lengths) /\ l > 0
        /\ Len(reply) = Allocated(l)
    BY <1>1, <1>2 DEF InStep, BodyExpected
  <2>2. l \in Nat
    BY <1>2 DEF Typed
  <2>3. pipe[1].at = 4 /\ Wanted = l
    BY <1>1, <1>2, <2>2 DEF InStep, NextByteExpected, Wanted, to_read
  <2> QED
    BY <1>2, <2>1, <2>2, <2>3 DEF to_read
<1>4. /\ Chunk \in 0..Len(read_buf) /\ Chunk <= Wanted
      /\ pipe' \in Seq(AnyByte) /\ Len(pipe') = Len(pipe) - Chunk
      /\ \A i \in 1..Len(pipe') : pipe'[i] = pipe[i + Chunk]
      /\ read_buf' \in Seq(AnyByte)
      /\ \/ Chunk = Wanted /\ stream' = stream
         \/ /\ Chunk < Wanted /\ stream # "open"
            /\ read_buf' = <<>> /\ wire = <<>> /\ stream' = "eof"
  <2>1. Wanted \in Nat
    BY <1>3
  <2> QED
    BY <1>1, <1>2, <2>1, PipeRead
<1>5. /\ reply \in Seq(AnyByte) /\ Stored(reply) \in Seq(AnyByte)
      /\ Len(Stored(reply)) = Len(reply) /\ Len(reply) \in Nat
      /\ \A k \in 1..Len(reply) : k \in 1..Chunk => Stored(reply)[k] = pipe[k]
  <2>1. reply \in Seq(AnyByte) /\ DOMAIN reply = 1..Len(reply) /\ Len(reply) \in Nat
    BY <1>2 DEF Typed
  <2> QED
    BY <1>2, <1>4, <2>1, StoredBytes
<1>6. CASE read_bytes + Chunk > Len(reply)
  <2>1. /\ overrun' = TRUE
        /\ UNCHANGED <<pc, read_bytes, msg, reply, taken, outcome>>
    BY <1>2, <1>4, <1>5, <1>6 DEF ReadBody
  <2>2. l = Modulus - 1
    <3>1. SUFFICES ASSUME l # Modulus - 1 PROVE FALSE
      OBVIOUS
    <3>2. Len(reply) = l + 1
      BY <1>3, <3>1, Room
    <3>3. Chunk <= l /\ Chunk > Len(reply)
      BY <1>2, <1>3, <1>4, <1>5, <1>6
    <3> QED
      BY <1>3, <1>4, <3>2, <3>3
  <2>3. Typed'
    BY <1>1, <1>2, <1>4, <2>1 DEF Typed
  <2>4. ShortReadsEndTheStream' /\ OnlyTheLargestOverruns'
    BY <1>1, <1>2, <2>1, <2>2 DEF ShortReadsEndTheStream, OnlyTheLargestOverruns
  <2>5. RepliesAreBodies'
    BY <1>1, <1>2, <2>1, BodiesKept DEF FramingInv
  <2>6. stream' = "open" => whole' = Len(lengths')
    BY <1>1, <1>4 DEF FramingInv
  <2> QED
    BY <2>1, <2>3, <2>4, <2>5, <2>6 DEF FramingInv
<1>7. CASE ~(read_bytes + Chunk > Len(reply)) /\ Chunk < Wanted
  <2>1. read_buf' = <<>> /\ wire' = <<>> /\ stream' = "eof"
    BY <1>1, <1>3, <1>4, <1>7
  <2>2. ~Complete(Chunk, reply_length)
    BY <1>3, <1>4, <1>7 DEF Complete
  <2>3. /\ reply' = Stored(reply) /\ read_bytes' = Chunk
        /\ UNCHANGED <<pc, msg, taken, outcome, overrun>>
    BY <1>7, <2>2 DEF ReadBody
  <2>4. read_bytes' \in Nat /\ reply' \in Seq(AnyByte) /\ Len(reply') = Len(reply)
    BY <1>4, <1>5, <2>3
  <2>5. pc # "idle" /\ DOMAIN msg' = 1..to_read
    BY <1>1, <1>2, <2>3 DEF Typed
  <2> QED
    BY <1>1, <1>2, <2>1, <2>3, <2>4, <2>5, InvShort
<1>8. CASE ~(read_bytes + Chunk > Len(reply)) /\ Chunk = Wanted
  <2>1. Chunk = l /\ l <= Len(reply) /\ stream' = stream
    BY <1>2, <1>3, <1>4, <1>5, <1>8
  <2>2. Finish(Stored(reply), l)
    <3>1. Complete(Chunk, reply_length)
      BY <1>3, <2>1 DEF Complete
    <3> QED
      BY <1>8, <3>1 DEF ReadBody, BodyComplete
  <2>3. /\ InOrder(pipe', lengths')
        /\ pipe' # <<>> => pipe'[1].of = taken + 2 /\ pipe'[1].at = 1
        /\ stream = "open" /\ pipe' = <<>> => taken + 1 = Len(lengths)
        /\ stream = "open" /\ pipe' # <<>> =>
              /\ pipe'[Len(pipe')].of = Len(lengths)
              /\ pipe'[Len(pipe')].at = Size(lengths, Len(lengths))
    <3> DEFINE left == Size(lengths, pipe[1].of) - pipe[1].at + 1
    <3>1. left = l /\ left \in Nat /\ pipe[1].of + 1 = taken + 2
      BY <1>2, <1>3 DEF Typed
    <3> HIDE DEF left
    <3>2. /\ lengths' = lengths /\ l <= left /\ l > 0 /\ l <= Len(pipe)
          /\ Len(pipe') = Len(pipe) - l
          /\ \A i \in 1..Len(pipe') : pipe'[i] = pipe[i + l]
      <4>1. Len(pipe) = Len(read_buf) + Len(wire) /\ Len(read_buf) \in Nat /\ Len(wire) \in Nat
        BY <1>2, PipeType
      <4> QED
        BY <1>1, <1>3, <1>4, <2>1, <3>1, <4>1
    <3>3. /\ InOrder(pipe', lengths')
          /\ pipe' # <<>> =>
                IF l = left THEN pipe'[1].of = pipe[1].of + 1 /\ pipe'[1].at = 1
                            ELSE pipe'[1].of = pipe[1].of /\ pipe'[1].at = pipe[1].at + l
          /\ stream = "open" /\ pipe' = <<>> => l = left /\ pipe[1].of = Len(lengths)
          /\ stream = "open" /\ pipe' # <<>> =>
                /\ pipe'[Len(pipe')].of = Len(lengths)
                /\ pipe'[Len(pipe')].at = Size(lengths, Len(lengths))
      BY <1>2, <1>3, <1>4, <3>1, <3>2, PipeLeft DEF left
    <3> QED
      BY <1>2, <3>1, <3>3, Zenon
  <2>4. SubSeq(Stored(reply), 1, l) = Body(taken + 1)
    <3> DEFINE got == SubSeq(Stored(reply), 1, l)
    <3>1. got = [k \in 1..l |-> Stored(reply)[k]]
      BY <1>3, <1>5, <2>1
    <3>2. pipe \in Seq(AnyByte) /\ lengths \in Seq(Nat) /\ InOrder(pipe, lengths)
          /\ l <= Len(pipe)
      <4>1. Len(pipe) = Len(read_buf) + Len(wire) /\ Len(read_buf) \in Nat /\ Len(wire) \in Nat
            /\ pipe \in Seq(AnyByte) /\ lengths \in Seq(Nat)
        BY <1>2, PipeType
      <4> QED
        BY <1>2, <1>4, <2>1, <4>1 DEF InStep
    <3>3. ASSUME NEW k \in 1..l
          PROVE  Stored(reply)[k] = [of |-> taken + 1, at |-> to_read + k]
      <4>1. k \in 1..Len(pipe) /\ k \in 1..Len(reply) /\ k \in 1..Chunk
            /\ k <= Size(lengths, pipe[1].of) - pipe[1].at + 1
        <5>1. l \in Nat /\ Len(pipe) \in Nat /\ Len(reply) \in Nat
              /\ l <= Len(pipe) /\ l <= Len(reply) /\ Chunk = l
          BY <1>2, <1>3, <1>5, <2>1, <3>2
        <5>2. Size(lengths, pipe[1].of) = 3 + l /\ pipe[1].at = 4
          BY <1>2, <1>3
        <5>3. k \in 1..Len(pipe) /\ k \in 1..Len(reply) /\ k \in 1..l /\ k <= (3 + l) - 4 + 1
          BY ONLY k \in 1..l, <5>1
        <5> QED
          BY <5>1, <5>2, <5>3
      <4>2. pipe[k].of = pipe[1].of /\ pipe[k].at = pipe[1].at + k - 1
        BY <1>2, <3>2, <4>1, FirstMessage
      <4>3. pipe[k].of = taken + 1 /\ pipe[k].at = to_read + k
        BY <1>2, <1>3, <4>2 DEF to_read
      <4>4. pipe[k] \in AnyByte
        BY <3>2, <4>1
      <4>5. pipe[k] = [of |-> taken + 1, at |-> to_read + k]
        BY <4>3, <4>4 DEF AnyByte
      <4> QED
        BY <1>5, <4>1, <4>5
    <3> QED
      BY <1>3, <3>1, <3>3 DEF Body
  <2> QED
    BY <1>1, <1>2, <1>3, <1>4, <1>5, <2>1, <2>2, <2>3, <2>4, InvFinish
<1> QED
  BY <1>4, <1>6, <1>7, <1>8

-----------------------------------------------------------------------------
(* The theorems.                                                           *)

LEMMA InvInit == Init => FramingInv /\ HeldType
<1> SUFFICES ASSUME Init PROVE FramingInv
  <2>1. ASSUME Init PROVE HeldType
    <3>1. held = 0 /\ wire = <<>>
      BY <2>1 DEF Init
    <3>2. unsent \in BOOLEAN
      BY <2>1, Zenon DEF Init
    <3>3. 0 \in 0..Len(<<>>)
      OBVIOUS
    <3>4. held \in 0..Len(wire)
      BY <3>1, <3>3, Zenon
    <3> QED
      BY <3>2, <3>4 DEF HeldType
  <2> QED
    BY <2>1
<1>1. pipe = <<>>
  BY DEF Init, pipe
<1>2. Typed
  <2>1. /\ lengths \in Seq(Lengths) /\ wire \in Seq(AnyByte)
        /\ read_buf \in Seq(AnyByte) /\ reply \in Seq(AnyByte)
    BY DEF Init
  <2>2. DOMAIN msg = 1..to_read
    BY DEF Init, Uninitialised
  <2>3. taken \in 0..Len(lengths) /\ read_bytes \in Nat /\ reply_length \in Nat
    BY DEF Init
  <2>4. stream = "open" /\ pc = "idle" /\ overrun = FALSE
    BY DEF Init
  <2> QED
    BY <2>1, <2>2, <2>3, <2>4 DEF Typed
<1>3. ShortReadsEndTheStream /\ OnlyTheLargestOverruns /\ RepliesAreBodies
  BY DEF Init, ShortReadsEndTheStream, OnlyTheLargestOverruns, RepliesAreBodies, Returned
<1>4. InOrder(pipe, lengths)
  BY <1>1 DEF InOrder
<1>5. InStep
  BY <1>1, <1>4 DEF Init, InStep, NextByteExpected, BodyExpected, EndsWhole
<1> QED
  BY <1>2, <1>3, <1>5 DEF Init, FramingInv

\* Bytes are held only at the end of wire: i3 puts them there, and the channel
\* reads none of them.
LEMMA HeldStep == FramingInv /\ HeldType /\ [Next]_vars => HeldType'
<1> SUFFICES ASSUME FramingInv, HeldType, [Next]_vars PROVE HeldType'
  OBVIOUS
<1>0. Typed /\ wire \in Seq(AnyByte) /\ Len(wire) \in Nat /\ held \in Nat /\ held <= Len(wire)
  BY DEF FramingInv, Typed, HeldType
<1>1. ASSUME NEW length \in Lengths, I3Write(length) PROVE HeldType'
  <2>1. length \in Nat
    BY LengthsAssumption, ModulusAssumption
  <2>2. /\ wire' = wire \o MessageBytes(whole', length)
        /\ held' = held + to_read + length /\ unsent' = unsent
    BY <1>1 DEF I3Write, recvVars
  <2>3. /\ MessageBytes(whole', length) \in Seq([of : {whole'}, at : Nat])
        /\ Len(MessageBytes(whole', length)) = to_read + length
    BY <2>1 DEF MessageBytes, to_read
  <2>4. Len(wire') = Len(wire) + to_read + length
    <3> HIDE DEF MessageBytes
    <3>1. wire \in Seq(AnyByte \cup [of : {whole'}, at : Nat])
      BY <1>0, SeqMonotonic
    <3>2. MessageBytes(whole', length) \in Seq(AnyByte \cup [of : {whole'}, at : Nat])
      BY <2>3, SeqMonotonic
    <3>3. Len(wire') = Len(wire) + Len(MessageBytes(whole', length))
      BY <2>2, <3>1, <3>2, ConcatProperties
    <3> QED
      BY <1>0, <2>1, <2>3, <3>3 DEF to_read
  <2> QED
    BY <1>0, <2>1, <2>2, <2>4 DEF HeldType, to_read
<1>2. CASE I3Send
  <2>1. held' \in 0..(held - 1) /\ wire' = wire /\ unsent' = unsent
    BY <1>2 DEF I3Send, recvVars
  <2> QED
    BY <1>0, <2>1 DEF HeldType
<1>3. CASE I3Exit
  <2>1. held' = 0 /\ wire' = SubSeq(wire, 1, InSocket) /\ unsent' = unsent
    BY <1>3 DEF I3Exit, recvVars
  <2>2. InSocket \in 0..Len(wire)
    BY <1>0 DEF HeldType, InSocket
  <2>3. Len(wire') \in Nat
    BY <1>0, <2>1, <2>2
  <2>4. unsent' \in BOOLEAN
    BY <2>1 DEF HeldType
  <2>5. held' \in 0..Len(wire')
    <3>1. 0 \in 0..Len(wire')
      BY <2>3
    <3>2. held' = 0
      BY <2>1, Zenon
    <3> QED
      BY <3>1, <3>2, Zenon
  <2> QED
    BY <2>4, <2>5 DEF HeldType
<1>4. CASE g_io_channel_fill_buffer
  <2>1. PICK k \in 1..BufSize : /\ k <= Len(wire) - held
                                /\ wire' = SubSeq(wire, k + 1, Len(wire))
    BY <1>0, <1>4, PartOfWire
  <2>2. held' = held /\ unsent' = unsent
    BY <1>4 DEF g_io_channel_fill_buffer, recvVars
  <2>3. k \in Nat
    BY BufSizeAssumption
  <2>4. Len(wire') = Len(wire) - k
    BY <1>0, <2>1, <2>3
  <2> QED
    BY <1>0, <2>1, <2>2, <2>3, <2>4 DEF HeldType
<1>5. ASSUME NEW who \in Callers, ipc_recv_message(who) PROVE HeldType'
  BY <1>5 DEF ipc_recv_message, i3Vars, HeldType
<1>6. CASE ReadHeader \/ ReadBody \/ ReadEnd \/ Halted \/ UNCHANGED vars
  BY <1>6 DEF ReadHeader, ReadBody, ReadEnd, Halted, vars, HeldType
<1> QED
  BY <1>1, <1>2, <1>3, <1>4, <1>5, <1>6 DEF Next

LEMMA InvStep == FramingInv /\ HeldType /\ [Next]_vars => FramingInv' /\ HeldType'
<1> SUFFICES ASSUME FramingInv, HeldType, [Next]_vars PROVE FramingInv'
  BY HeldStep
<1>1. ASSUME NEW length \in Lengths, I3Write(length) PROVE FramingInv'
  BY <1>1, InvWrite
<1>2. ASSUME I3Exit PROVE FramingInv'
  BY <1>2, InvExit
<1>3. ASSUME g_io_channel_fill_buffer PROVE FramingInv'
  BY <1>3, InvFill
<1>4. ASSUME NEW who \in Callers, ipc_recv_message(who) PROVE FramingInv'
  BY <1>4, InvCall
<1>5. ASSUME ReadHeader PROVE FramingInv'
  BY <1>5, InvHeader
<1>6. ASSUME ReadBody PROVE FramingInv'
  BY <1>6, InvBody
<1>7. ASSUME ReadEnd PROVE FramingInv'
  BY <1>7, InvEnd
<1>9. ASSUME I3Send PROVE FramingInv'
  BY <1>9, InvSend
<1>8. ASSUME UNCHANGED vars PROVE FramingInv'
  BY <1>8 DEF vars, FramingInv, Typed, ShortReadsEndTheStream, OnlyTheLargestOverruns,
              RepliesAreBodies, Body, InStep, NextByteExpected, BodyExpected, EndsWhole, pipe
<1> QED
  BY <1>1, <1>2, <1>3, <1>4, <1>5, <1>6, <1>7, <1>8, <1>9 DEF Next, Halted

LEMMA Invariant == Spec => [](FramingInv /\ HeldType)
BY InvInit, InvStep, PTL DEF Spec

\* A loop of ipc_recv_message that goes round again has nothing left to read:
\* for every size of the messages and of the channel's buffer, overwriting
\* read_bytes puts no byte in the wrong place.
THEOREM ShortReadsAreTheLast == Spec => []ShortReadsEndTheStream
<1>1. FramingInv => ShortReadsEndTheStream
  BY DEF FramingInv
<1> QED
  BY <1>1, Invariant, PTL

\* Every message that ipc_recv_message returns is, byte for byte, the next one
\* that i3 wrote.
THEOREM RepliesAreWhole == Spec => []RepliesAreBodies
<1>1. FramingInv => RepliesAreBodies
  BY DEF FramingInv
<1> QED
  BY <1>1, Invariant, PTL

\* The buffer of *reply_length + 1 bytes is too small for one length only,
\* the largest that the header can say.
THEOREM RepliesFit == Spec => []OnlyTheLargestOverruns
<1>1. FramingInv => OnlyTheLargestOverruns
  BY DEF FramingInv
<1> QED
  BY <1>1, Invariant, PTL
=============================================================================
