---------------------------- MODULE ChannelProofs ----------------------------
(***************************************************************************)
(* Framing implements MessageChannel, for every width of the length, every *)
(* set of lengths, every buffer of the channel and every number of         *)
(* messages.  The messages that the channel still holds are counted by     *)
(* their last bytes.                                                       *)
(***************************************************************************)
EXTENDS FramingProofs, FiniteSetTheorems, FunctionTheorems

\* The places in p where a message ends.
Ends(p, ls) == {i \in 1..Len(p) : p[i].at = Size(ls, p[i].of)}

\* Each message written whole and not yet returned has its last byte in the
\* pipe.  A call that overruns its buffer takes a last byte and returns nothing.
Counted ==
    /\ \A i \in 1..Len(pipe) : pipe[i].of \in 1..Len(lengths)
    /\ whole \in Nat
    /\ taken + Cardinality(Ends(pipe, lengths)) <= whole
    /\ ~overrun => whole = taken + Cardinality(Ends(pipe, lengths))

-----------------------------------------------------------------------------
(* Counting the ends of messages.                                          *)

LEMMA EndsFinite ==
    ASSUME NEW p, NEW ls, Len(p) \in Nat, NEW S, S \subseteq Ends(p, ls)
    PROVE  IsFiniteSet(S) /\ Cardinality(S) \in Nat /\ S \subseteq 1..Len(p)
<1>1. S \subseteq 1..Len(p)
  BY DEF Ends
<1>2. IsFiniteSet(S)
  <2>1. IsFiniteSet(1..Len(p))
    BY FS_Interval
  <2> QED
    BY <1>1, <2>1, FS_Subset
<1> QED
  BY <1>1, <1>2, FS_CardinalityType

\* Moving a set of places does not change their number.
LEMMA Shifted ==
    ASSUME NEW S, S \subseteq Nat, IsFiniteSet(S), NEW c \in Nat, NEW T,
           T = {i + c : i \in S}
    PROVE  Cardinality(T) = Cardinality(S)
<1> DEFINE f == [i \in S |-> i + c]
<1>1. f \in [S -> T]
  OBVIOUS
<1>2. \A a, b \in S : f[a] = f[b] => a = b
  OBVIOUS
<1>3. \A t \in T : \E s \in S : f[s] = t
  OBVIOUS
<1>4. f \in Bijection(S, T)
  BY <1>1, <1>2, <1>3, Fun_IsBij
<1>5. ExistsBijection(S, T)
  BY <1>4 DEF ExistsBijection
<1> QED
  BY <1>5, FS_Bijection

\* The ends in a stretch are those in its first c bytes and those behind.
LEMMA TwoParts ==
    ASSUME NEW p, NEW ls, Len(p) \in Nat, NEW c \in Nat
    PROVE  LET A == {j \in Ends(p, ls) : j <= c}
               B == {j \in Ends(p, ls) : j > c}
           IN  /\ Cardinality(A) \in Nat /\ Cardinality(B) \in Nat
               /\ Cardinality(Ends(p, ls)) = Cardinality(A) + Cardinality(B)
<1> DEFINE A == {j \in Ends(p, ls) : j <= c}
           B == {j \in Ends(p, ls) : j > c}
<1>1. /\ IsFiniteSet(A) /\ IsFiniteSet(B) /\ Cardinality(A) \in Nat /\ Cardinality(B) \in Nat
      /\ Ends(p, ls) \subseteq 1..Len(p)
  BY EndsFinite
<1>2. Ends(p, ls) = A \cup B /\ A \cap B = {}
  BY <1>1
<1>3. Cardinality(A \cup B) = Cardinality(A) + Cardinality(B) - Cardinality(A \cap B)
  BY <1>1, FS_Union
<1>4. Cardinality(A \cap B) = 0
  BY <1>2, FS_EmptySet
<1> HIDE DEF A, B
<1>5. Cardinality(Ends(p, ls)) = Cardinality(A) + Cardinality(B)
  BY <1>1, <1>2, <1>3, <1>4
<1> QED
  BY <1>1, <1>5 DEF A, B

\* Those behind are the ends of the rest.
LEMMA SplitEnds ==
    ASSUME NEW p \in Seq(AnyByte), NEW ls, NEW c \in 0..Len(p),
           NEW q \in Seq(AnyByte), Len(q) = Len(p) - c,
           \A i \in 1..Len(q) : q[i] = p[i + c]
    PROVE  Cardinality(Ends(p, ls))
               = Cardinality({j \in Ends(p, ls) : j <= c}) + Cardinality(Ends(q, ls))
<1> DEFINE A == {j \in Ends(p, ls) : j <= c}
           B == {j \in Ends(p, ls) : j > c}
<1>1. Len(p) \in Nat /\ Len(q) \in Nat /\ c \in Nat
  OBVIOUS
<1>4. Cardinality(Ends(p, ls)) = Cardinality(A) + Cardinality(B)
  BY <1>1, TwoParts
<1>5. B = {i + c : i \in Ends(q, ls)}
  <2>1. ASSUME NEW j \in B PROVE j \in {i + c : i \in Ends(q, ls)}
    <3>1. j \in 1..Len(p) /\ j > c /\ p[j].at = Size(ls, p[j].of)
      BY DEF Ends
    <3>2. j - c \in 1..Len(q) /\ (j - c) + c = j
      BY <1>1, <3>1
    <3>3. q[j - c] = p[j]
      BY <3>2
    <3>4. j - c \in Ends(q, ls)
      BY <3>1, <3>2, <3>3 DEF Ends
    <3> QED
      BY <3>2, <3>4
  <2>2. ASSUME NEW i \in Ends(q, ls) PROVE i + c \in B
    <3>1. i \in 1..Len(q) /\ q[i].at = Size(ls, q[i].of)
      BY DEF Ends
    <3>2. i + c \in 1..Len(p) /\ i + c > c /\ q[i] = p[i + c]
      BY <1>1, <3>1
    <3> QED
      BY <3>1, <3>2 DEF Ends
  <2> QED
    BY <2>1, <2>2
<1>6. Cardinality(B) = Cardinality(Ends(q, ls))
  <2>1. IsFiniteSet(Ends(q, ls)) /\ Ends(q, ls) \subseteq Nat
    BY <1>1, EndsFinite
  <2> QED
    BY <1>1, <1>5, <2>1, Shifted
<1> QED
  BY <1>4, <1>6

\* In what is left of the message that a stretch begins with, only the last
\* byte is an end.
LEMMA FirstEnds ==
    ASSUME NEW p \in Seq(AnyByte), NEW ls \in Seq(Nat), InOrder(p, ls), p # <<>>,
           NEW c \in 1..Len(p), NEW left \in Nat,
           left = Size(ls, p[1].of) - p[1].at + 1, c <= left
    PROVE  {j \in Ends(p, ls) : j <= c} = IF c = left THEN {c} ELSE {}
<1>1. 1 \in 1..Len(p) /\ p[1] \in AnyByte /\ p[1].of \in 1..Len(ls) /\ p[1].at \in Nat
      /\ Size(ls, p[1].of) \in Nat /\ Len(p) \in Nat
  <2>1. 1 \in 1..Len(p) /\ p[1] \in AnyByte /\ Len(p) \in Nat
    OBVIOUS
  <2>2. p[1].of \in 1..Len(ls) /\ p[1].at \in Nat
    BY <2>1 DEF InOrder, AnyByte
  <2> QED
    BY <2>1, <2>2, SizeType
<1>2. ASSUME NEW j \in 1..c PROVE j \in Ends(p, ls) <=> j = left
  <2>1. j \in 1..Len(p) /\ j <= Size(ls, p[1].of) - p[1].at + 1 /\ j \in Nat
    BY <1>1
  <2>2. p[j].of = p[1].of /\ p[j].at = p[1].at + j - 1
    BY <2>1, FirstMessage
  <2>3. j \in Ends(p, ls) <=> p[1].at + j - 1 = Size(ls, p[1].of)
    BY <2>1, <2>2 DEF Ends
  <2> QED
    BY <1>1, <2>1, <2>3
<1>3. \A j \in Ends(p, ls) : j <= c => j \in 1..c
  BY <1>1 DEF Ends
<1> QED
  BY <1>1, <1>2, <1>3

\* What a read takes from the count: the last byte of the message, if it gets
\* that far.
LEMMA ReadCounted ==
    ASSUME FramingInv, Counted, pc # "idle", ReadsBytes,
           UNCHANGED <<wire, lengths, whole>>, NEW l, l = lengths[taken + 1]
    PROVE  /\ taken \in Nat /\ l \in Nat /\ Cardinality(Ends(pipe', lengths)) \in Nat
           /\ pc = "body" => Wanted = reply_length
           /\ \A i \in 1..Len(pipe') : pipe'[i].of \in 1..Len(lengths)
           /\ \/ /\ Chunk = Wanted /\ stream' = stream /\ (pc = "body" \/ l = 0)
                 /\ whole = taken + 1 + Cardinality(Ends(pipe', lengths))
              \/ /\ Chunk = Wanted /\ stream' = stream /\ pc = "header" /\ l # 0
                 /\ whole = taken + Cardinality(Ends(pipe', lengths))
              \/ /\ Chunk < Wanted /\ stream # "open" /\ stream' = "eof"
                 /\ whole = taken /\ Cardinality(Ends(pipe', lengths)) = 0
<1> DEFINE left == Size(lengths, pipe[1].of) - pipe[1].at + 1
           n == Cardinality(Ends(pipe', lengths))
<1>1. /\ Typed /\ InStep /\ ~overrun /\ read_bytes = 0
      /\ pipe # <<>> /\ taken + 1 \in 1..Len(lengths)
      /\ pipe[1].of = taken + 1 /\ Len(pipe) \in Nat
      /\ Size(lengths, taken + 1) = to_read + l
      /\ l \in 0..(Modulus - 1)
  BY Reading
<1>2. taken \in Nat /\ l \in Nat
  BY <1>1, ModulusAssumption DEF Typed
<1>3. pc = "header" \/ pc = "body"
  BY <1>1 DEF Typed
<1>4. /\ left \in Nat /\ Wanted \in Nat /\ Wanted > 0 /\ Wanted <= left
      /\ Wanted = left <=> pc = "body" \/ l = 0
      /\ pc = "body" => Wanted = reply_length
  <2>1. CASE pc = "header"
    <3>1. Wanted = 3 /\ pipe[1].at = 1
      BY <1>1, <2>1 DEF InStep, NextByteExpected, Wanted, to_read
    <3>2. left = 3 + l
      BY <1>1, <1>2, <3>1 DEF to_read
    <3> HIDE DEF left
    <3> QED
      BY <1>2, <2>1, <3>1, <3>2
  <2>2. CASE pc = "body"
    <3>1. reply_length = l /\ l > 0
      BY <1>1, <2>2 DEF InStep, BodyExpected
    <3>2. Wanted = l /\ pipe[1].at = 4
      BY <1>1, <1>2, <2>2, <3>1 DEF InStep, NextByteExpected, Wanted, to_read
    <3>3. left = l
      BY <1>1, <1>2, <3>2 DEF to_read
    <3> HIDE DEF left
    <3> QED
      BY <1>2, <2>2, <3>1, <3>2, <3>3
  <2> QED
    BY <1>3, <2>1, <2>2
<1> HIDE DEF left
<1>5. /\ Chunk \in 0..Len(read_buf) /\ Chunk <= Wanted
      /\ pipe' \in Seq(AnyByte) /\ Len(pipe') = Len(pipe) - Chunk
      /\ \A i \in 1..Len(pipe') : pipe'[i] = pipe[i + Chunk]
      /\ \/ Chunk = Wanted /\ stream' = stream
         \/ /\ Chunk < Wanted /\ stream # "open"
            /\ read_buf' = <<>> /\ wire = <<>> /\ stream' = "eof"
  BY <1>1, <1>4, PipeRead
<1>6. /\ pipe \in Seq(AnyByte) /\ lengths \in Seq(Nat)
      /\ Len(pipe) = Len(read_buf) + Len(wire)
      /\ Len(read_buf) \in Nat /\ Len(wire) \in Nat
  BY <1>1, PipeType
<1>7. Chunk \in 1..Len(pipe) /\ Chunk <= left
  <2>1. Len(read_buf) > 0
    BY <1>1 DEF ReadsBytes, Typed
  <2>2. Chunk > 0
    BY <1>4, <1>6, <2>1 DEF Chunk
  <2> QED
    BY <1>4, <1>5, <1>6, <2>2
<1>8. n \in Nat
  BY <1>5, EndsFinite
<1>9. whole = taken + (IF Chunk = left THEN 1 ELSE 0) + n
  <2> DEFINE A == {j \in Ends(pipe, lengths) : j <= Chunk}
  <2>1. Cardinality(Ends(pipe, lengths)) = Cardinality(A) + n
    <3>1. Chunk \in 0..Len(pipe)
      BY <1>7
    <3> QED
      BY <1>5, <1>6, <3>1, SplitEnds
  <2>2. A = IF Chunk = left THEN {Chunk} ELSE {}
    BY <1>1, <1>4, <1>6, <1>7, FirstEnds DEF InStep, left
  <2>3. Cardinality(A) = IF Chunk = left THEN 1 ELSE 0
    BY <2>2, FS_EmptySet, FS_Singleton
  <2>4. whole = taken + Cardinality(Ends(pipe, lengths))
    BY <1>1 DEF Counted
  <2> HIDE DEF A, n
  <2> QED
    BY <1>2, <1>8, <2>1, <2>3, <2>4
<1>10. ASSUME NEW i \in 1..Len(pipe') PROVE pipe'[i].of \in 1..Len(lengths)
  <2>1. i + Chunk \in 1..Len(pipe) /\ pipe'[i] = pipe[i + Chunk]
    BY <1>5, <1>6
  <2> QED
    BY <2>1 DEF Counted
<1>11. read_buf' = <<>> /\ wire = <<>> => n = 0
  <2>1. read_buf' = <<>> /\ wire = <<>> => pipe' = <<>>
    BY DEF pipe
  <2>2. Ends(<<>>, lengths) = {}
    BY DEF Ends
  <2> QED
    BY <2>1, <2>2, FS_EmptySet
<1> HIDE DEF n
<1>12. CASE Chunk = Wanted /\ stream' = stream
  <2>1. CASE pc = "body" \/ l = 0
    <3>1. whole = taken + 1 + n
      BY <1>4, <1>9, <1>12, <2>1
    <3> QED
      BY <1>2, <1>4, <1>8, <1>10, <1>12, <2>1, <3>1 DEF n
  <2>2. CASE ~(pc = "body" \/ l = 0)
    <3>1. whole = taken + n
      BY <1>2, <1>4, <1>8, <1>9, <1>12, <2>2
    <3> QED
      BY <1>2, <1>3, <1>4, <1>8, <1>10, <1>12, <2>2, <3>1 DEF n
  <2> QED
    BY <2>1, <2>2
<1>13. CASE /\ Chunk < Wanted /\ stream # "open"
            /\ read_buf' = <<>> /\ wire = <<>> /\ stream' = "eof"
  <2>1. Chunk # left
    BY <1>4, <1>6, <1>5, <1>13
  <2>2. whole = taken /\ n = 0
    BY <1>2, <1>9, <1>11, <1>13, <2>1
  <2> QED
    BY <1>2, <1>4, <1>8, <1>10, <1>13, <2>2 DEF n
<1> QED
  BY <1>5, <1>12, <1>13

-----------------------------------------------------------------------------
(* Every step keeps the count, and is a step of the channel or leaves it as  *)
(* it was: one lemma for each action.                                        *)

LEMMA ChannelWrite ==
    ASSUME FramingInv, Counted, NEW length \in Lengths, I3Write(length)
    PROVE  Counted' /\ [Channel!Next]_(Channel!vars)
<1> DEFINE n == Len(lengths) + 1
           b == MessageBytes(n, length)
           N == Len(pipe')
<1>0. Typed
  BY DEF FramingInv
<1>1. /\ stream = "open" /\ whole = Len(lengths) /\ whole' = n
      /\ lengths' = Append(lengths, length) /\ wire' = wire \o b
      /\ UNCHANGED <<stream, read_buf, taken, outcome, overrun>>
  <2>1. stream = "open" /\ whole' = whole + 1 /\ lengths' = Append(lengths, length)
        /\ wire' = wire \o MessageBytes(whole', length)
    BY DEF I3Write
  <2>2. whole = Len(lengths)
    BY <2>1 DEF FramingInv
  <2>3. UNCHANGED <<stream, read_buf, taken, outcome, overrun>>
    BY DEF I3Write, recvVars
  <2> QED
    BY <2>1, <2>2, <2>3
<1>2. /\ read_buf \in Seq(AnyByte) /\ wire \in Seq(AnyByte) /\ lengths \in Seq(Nat)
      /\ pipe \in Seq(AnyByte) /\ Len(pipe) \in Nat
      /\ Len(lengths) \in Nat /\ taken \in Nat /\ length \in Nat
  <2>1. length \in Nat /\ Lengths \subseteq Nat
    BY LengthsAssumption, ModulusAssumption
  <2> QED
    BY <1>0, <2>1, PipeType DEF Typed
<1>3. /\ b \in Seq(AnyByte) /\ Len(b) = 3 + length
      /\ \A k \in 1..(3 + length) : b[k].of = n /\ b[k].at = k
  BY <1>2 DEF MessageBytes, AnyByte, to_read
<1> HIDE DEF b
<1>4. pipe' = pipe \o b
  <2>0. read_buf \in Seq(AnyByte) /\ wire \in Seq(AnyByte) /\ b \in Seq(AnyByte)
    BY <1>2, <1>3
  <2>1. (read_buf \o wire) \o b = read_buf \o (wire \o b)
    BY ONLY <2>0, ConcatAssociative
  <2> QED
    BY <1>1, <2>1 DEF pipe
<1>5. /\ N = Len(pipe) + 3 + length
      /\ \A i \in 1..Len(pipe) : pipe'[i] = pipe[i]
      /\ \A i \in (Len(pipe) + 1)..N : pipe'[i].of = n /\ pipe'[i].at = i - Len(pipe)
  <2>1. /\ Len(pipe \o b) = Len(pipe) + Len(b)
        /\ \A i \in 1..(Len(pipe) + Len(b)) :
              (pipe \o b)[i] = IF i <= Len(pipe) THEN pipe[i] ELSE b[i - Len(pipe)]
    BY <1>2, <1>3, ConcatProperties
  <2>2. N = Len(pipe) + 3 + length
    BY <1>2, <1>3, <1>4, <2>1
  <2>3. ASSUME NEW i \in 1..Len(pipe) PROVE pipe'[i] = pipe[i]
    BY <1>2, <1>3, <1>4, <2>1
  <2>4. ASSUME NEW i \in (Len(pipe) + 1)..N
        PROVE  pipe'[i].of = n /\ pipe'[i].at = i - Len(pipe)
    <3>1. i \in 1..(Len(pipe) + Len(b)) /\ ~(i <= Len(pipe)) /\ i - Len(pipe) \in 1..(3 + length)
      BY <1>2, <1>3, <2>2
    <3>2. pipe'[i] = b[i - Len(pipe)]
      BY <1>4, <2>1, <3>1
    <3> QED
      BY <1>3, <3>1, <3>2
  <2> QED
    BY <2>2, <2>3, <2>4
<1>6. /\ Len(lengths') = n /\ lengths'[n] = length
      /\ \A k \in 1..Len(lengths) : lengths'[k] = lengths[k]
  BY <1>1, <1>2
<1> HIDE DEF n, N
<1>7. \A i \in 1..N : i \in 1..Len(pipe) \/ i \in (Len(pipe) + 1)..N
  BY <1>2, <1>5
<1>8. n = Len(lengths) + 1
  BY DEF n
<1>9. ASSUME NEW i \in 1..N PROVE pipe'[i].of \in 1..n
  <2>1. CASE i \in 1..Len(pipe)
    <3>1. pipe'[i] = pipe[i] /\ pipe[i].of \in 1..Len(lengths)
      BY <1>5, <2>1 DEF Counted
    <3> QED
      BY <1>2, <1>8, <3>1
  <2>2. CASE i \in (Len(pipe) + 1)..N
    BY <1>2, <1>5, <1>8, <2>2
  <2> QED
    BY <1>7, <2>1, <2>2
<1>10. Ends(pipe', lengths') = Ends(pipe, lengths) \cup {N}
  <2>1. ASSUME NEW i \in 1..Len(pipe)
        PROVE  pipe'[i].at = Size(lengths', pipe'[i].of) <=> pipe[i].at = Size(lengths, pipe[i].of)
    <3>1. pipe'[i] = pipe[i] /\ pipe[i].of \in 1..Len(lengths)
      BY <1>5 DEF Counted
    <3> QED
      BY <1>6, <3>1 DEF Size
  <2>2. ASSUME NEW i \in (Len(pipe) + 1)..N
        PROVE  pipe'[i].at = Size(lengths', pipe'[i].of) <=> i = N
    <3>1. pipe'[i].of = n /\ pipe'[i].at = i - Len(pipe)
      BY <1>5
    <3>2. Size(lengths', n) = 3 + length
      BY <1>6 DEF Size, to_read
    <3> QED
      BY <1>2, <1>5, <3>1, <3>2
  <2>3. N \in (Len(pipe) + 1)..N /\ \A i \in 1..Len(pipe) : i \in 1..N
    BY <1>2, <1>5
  <2>4. N \in 1..N
    BY <1>2, <1>5
  <2>5. ASSUME NEW i PROVE i \in Ends(pipe', lengths') <=> i \in Ends(pipe, lengths) \/ i = N
    <3>1. i \in Ends(pipe', lengths') <=>
              i \in 1..N /\ pipe'[i].at = Size(lengths', pipe'[i].of)
      BY DEF Ends, N
    <3>2. i \in Ends(pipe, lengths) <=>
              i \in 1..Len(pipe) /\ pipe[i].at = Size(lengths, pipe[i].of)
      BY DEF Ends
    <3>3. CASE i \in 1..Len(pipe)
      <4>1. i # N /\ i \in 1..N
        BY <1>2, <1>5, <3>3
      <4> QED
        BY <2>1, <3>1, <3>2, <3>3, <4>1
    <3>4. CASE i \notin 1..Len(pipe)
      BY <1>7, <2>2, <2>3, <2>4, <3>1, <3>2, <3>4
    <3> QED
      BY <3>3, <3>4
  <2> QED
    BY <2>5
<1>11. /\ Cardinality(Ends(pipe', lengths')) = Cardinality(Ends(pipe, lengths)) + 1
       /\ Cardinality(Ends(pipe, lengths)) \in Nat
  <2>1. /\ IsFiniteSet(Ends(pipe, lengths)) /\ Cardinality(Ends(pipe, lengths)) \in Nat
        /\ Ends(pipe, lengths) \subseteq 1..Len(pipe)
    BY <1>2, EndsFinite
  <2>2. N \notin Ends(pipe, lengths)
    BY <1>2, <1>5, <2>1
  <2> QED
    BY <1>10, <2>1, <2>2, FS_AddElement
<1>12. Counted'
  <2>1. \A i \in 1..Len(pipe') : pipe'[i].of \in 1..Len(lengths')
    BY <1>6, <1>9 DEF N
  <2>2. whole' \in Nat /\ whole' = whole + 1
    BY <1>1, <1>2, <1>8 DEF n
  <2>3. taken + Cardinality(Ends(pipe, lengths)) <= whole /\ whole \in Nat
        /\ (~overrun => whole = taken + Cardinality(Ends(pipe, lengths)))
    BY DEF Counted
  <2>4. taken' = taken /\ overrun' = overrun
    BY <1>1
  <2>5. taken' + Cardinality(Ends(pipe', lengths')) <= whole'
    BY <1>2, <1>11, <2>2, <2>3, <2>4
  <2>6. ~overrun' => whole' = taken' + Cardinality(Ends(pipe', lengths'))
    BY <1>2, <1>11, <2>2, <2>3, <2>4
  <2> QED
    BY <2>1, <2>2, <2>5, <2>6 DEF Counted
<1>13. Channel!Write
  BY <1>1, <1>8 DEF Channel!Write
<1> QED
  BY <1>12, <1>13 DEF Channel!Next

\* A step that neither writes nor reads does not change the count.
LEMMA CountedKept ==
    ASSUME Counted, pipe' = pipe, UNCHANGED <<lengths, whole, taken, overrun>>
    PROVE  Counted'
BY DEF Counted

LEMMA ChannelUnchanged ==
    ASSUME UNCHANGED <<whole, stream, taken, outcome>> PROVE UNCHANGED Channel!vars
BY DEF Channel!vars

\* What i3 loses when it exits is the last part of what it wrote.
LEMMA ExitCuts ==
    ASSUME HeldType, Len(wire) \in Nat, I3Exit
    PROVE  \E k \in 0..Len(wire) :
              /\ wire' = SubSeq(wire, 1, k)
              /\ whole' = whole - Cardinality({i \in (k + 1)..Len(wire) : IsLastByte(wire[i])})
<1>1. InSocket \in 0..Len(wire)
  BY DEF HeldType, InSocket
<1>2. /\ wire' = SubSeq(wire, 1, InSocket)
      /\ whole' = whole - Cardinality({i \in (InSocket + 1)..Len(wire) : IsLastByte(wire[i])})
  BY DEF I3Exit, Sent
<1> QED
  BY <1>1, <1>2, Zenon

\* A part of a message that reaches the socket changes nothing of the channel.
LEMMA ChannelSend ==
    ASSUME Counted, I3Send PROVE Counted' /\ [Channel!Next]_(Channel!vars)
<1>1. UNCHANGED <<lengths, whole, wire, stream, read_buf, taken, outcome, overrun>>
  BY DEF I3Send, recvVars
<1> QED
  BY <1>1, CountedKept, ChannelUnchanged DEF pipe

LEMMA ChannelExit ==
    ASSUME FramingInv, HeldType, Counted, I3Exit
    PROVE  Counted' /\ [Channel!Next]_(Channel!vars)
<1> DEFINE c == Len(read_buf)
           E == Ends(pipe, lengths)
<1>0. Typed /\ Len(wire) \in Nat
  BY DEF FramingInv, Typed
<1>1. PICK k \in 0..Len(wire) :
          /\ wire' = SubSeq(wire, 1, k)
          /\ whole' = whole - Cardinality({i \in (k + 1)..Len(wire) : IsLastByte(wire[i])})
  BY <1>0, ExitCuts
<1> DEFINE kept == {j \in E : j <= c + k}
           lost == {j \in E : j > c + k}
           gone == {i \in (k + 1)..Len(wire) : IsLastByte(wire[i])}
<1>2. /\ stream = "open" /\ stream' \in {"eof", "reset"}
      /\ UNCHANGED <<lengths, read_buf, taken, outcome, overrun>>
  BY DEF I3Exit, recvVars
<1>3. /\ read_buf \in Seq(AnyByte) /\ wire \in Seq(AnyByte)
      /\ Len(wire) \in Nat /\ k \in Nat /\ k <= Len(wire) /\ c \in Nat
      /\ wire' \in Seq(AnyByte) /\ Len(wire') = k /\ \A i \in 1..k : wire'[i] = wire[i]
      /\ taken \in Nat
  BY <1>0, <1>1 DEF Typed
<1>4. /\ Len(pipe) = c + Len(wire)
      /\ \A i \in 1..(c + Len(wire)) : pipe[i] = IF i <= c THEN read_buf[i] ELSE wire[i - c]
  BY <1>3, ConcatProperties DEF pipe
<1>5. /\ Len(pipe') = c + k /\ \A i \in 1..(c + k) : pipe'[i] = pipe[i]
  <2>1. /\ Len(pipe') = c + k
        /\ \A i \in 1..(c + k) : pipe'[i] = IF i <= c THEN read_buf[i] ELSE wire'[i - c]
    BY <1>2, <1>3, ConcatProperties DEF pipe
  <2>2. ASSUME NEW i \in 1..(c + k) PROVE pipe'[i] = pipe[i]
    <3>1. i \in 1..(c + Len(wire)) /\ (~(i <= c) => i - c \in 1..k)
      BY <1>3
    <3> QED
      BY <1>3, <1>4, <2>1, <3>1
  <2> QED
    BY <2>1, <2>2
<1> HIDE DEF c, E
<1>7. /\ Cardinality(E) = Cardinality(kept) + Cardinality(lost)
      /\ Cardinality(kept) \in Nat /\ Cardinality(lost) \in Nat
  <2>1. Len(pipe) \in Nat /\ c + k \in Nat
    BY <1>3, <1>4
  <2> QED
    BY <2>1, TwoParts DEF E
<1>8. Ends(pipe', lengths') = kept
  <2>1. ASSUME NEW i PROVE i \in Ends(pipe', lengths') <=> i \in kept
    <3>1. i \in Ends(pipe', lengths') <=>
              i \in 1..(c + k) /\ pipe'[i].at = Size(lengths, pipe'[i].of)
      BY <1>2, <1>5 DEF Ends
    <3>2. i \in kept <=>
              i \in 1..Len(pipe) /\ pipe[i].at = Size(lengths, pipe[i].of) /\ i <= c + k
      BY DEF Ends, E
    <3>3. i \in 1..(c + k) <=> i \in 1..Len(pipe) /\ i <= c + k
      BY <1>3, <1>4
    <3> QED
      BY <1>5, <3>1, <3>2, <3>3
  <2> QED
    BY <2>1
<1>9. lost = {i + c : i \in gone}
  <2>1. ASSUME NEW i \in (k + 1)..Len(wire)
        PROVE  /\ i + c \in 1..Len(pipe) /\ i + c > c + k
               /\ IsLastByte(wire[i]) <=> pipe[i + c].at = Size(lengths, pipe[i + c].of)
    <3>1. i + c \in 1..(c + Len(wire)) /\ ~(i + c <= c) /\ (i + c) - c = i /\ i + c > c + k
      BY <1>3
    <3>2. pipe[i + c] = wire[i]
      BY <1>4, <3>1
    <3> QED
      BY <1>4, <3>1, <3>2 DEF IsLastByte, Size
  <2>2. ASSUME NEW j \in lost PROVE j \in {i + c : i \in gone}
    <3>1. j \in 1..Len(pipe) /\ j > c + k /\ pipe[j].at = Size(lengths, pipe[j].of)
      BY DEF Ends, E
    <3>2. j - c \in (k + 1)..Len(wire) /\ (j - c) + c = j
      BY <1>3, <1>4, <3>1
    <3>3. j - c \in gone
      BY <2>1, <3>1, <3>2
    <3> QED
      BY <3>2, <3>3
  <2>3. ASSUME NEW i \in gone PROVE i + c \in lost
    BY <2>1 DEF Ends, E
  <2> QED
    BY <2>2, <2>3
<1>10. Cardinality(lost) = Cardinality(gone)
  <2>1. gone \subseteq Nat /\ gone \subseteq (k + 1)..Len(wire)
    BY <1>3
  <2>2. IsFiniteSet((k + 1)..Len(wire))
    BY <1>3, FS_Interval
  <2>3. IsFiniteSet(gone)
    BY <2>1, <2>2, FS_Subset
  <2> HIDE DEF gone, lost
  <2> QED
    BY <1>3, <1>9, <2>1, <2>3, Shifted
<1> HIDE DEF kept, lost, gone
<1>11. whole' = whole - Cardinality(lost)
  BY <1>1, <1>10 DEF gone
<1>12. /\ whole \in Nat /\ taken + Cardinality(E) <= whole
       /\ ~overrun => whole = taken + Cardinality(E)
  BY DEF Counted, E
<1>13. /\ whole' \in taken..whole /\ whole' \in Nat
       /\ taken + Cardinality(kept) <= whole'
       /\ ~overrun => whole' = taken + Cardinality(kept)
  BY <1>3, <1>7, <1>11, <1>12
<1>14. \A i \in 1..Len(pipe') : pipe'[i].of \in 1..Len(lengths)
  <2>1. \A i \in 1..(c + k) : i \in 1..Len(pipe)
    BY <1>3, <1>4
  <2> QED
    BY <1>5, <2>1 DEF Counted
<1>15. Counted'
  BY <1>2, <1>8, <1>13, <1>14 DEF Counted
<1>16. Channel!Close
  BY <1>2, <1>13 DEF Channel!Close
<1> QED
  BY <1>15, <1>16 DEF Channel!Next

LEMMA ChannelFill ==
    ASSUME FramingInv, HeldType, Counted, g_io_channel_fill_buffer
    PROVE  Counted' /\ [Channel!Next]_(Channel!vars)
<1>1. UNCHANGED <<lengths, whole, stream, taken, outcome, overrun>>
  BY DEF g_io_channel_fill_buffer, recvVars
<1>2. pipe' = pipe
  BY PipeFilled DEF FramingInv
<1> QED
  BY <1>1, <1>2, CountedKept, ChannelUnchanged

LEMMA ChannelCall ==
    ASSUME FramingInv, Counted, NEW who \in Callers, ipc_recv_message(who)
    PROVE  Counted' /\ [Channel!Next]_(Channel!vars)
<1>1. UNCHANGED <<lengths, whole, wire, stream, read_buf, taken, overrun>>
  BY DEF ipc_recv_message, i3Vars
<1>2. Counted'
  BY <1>1, CountedKept DEF pipe
<1>3. CASE outcome' = outcome
  BY <1>1, <1>2, <1>3, ChannelUnchanged
<1>4. CASE FlushFails(who) /\ outcome' = Returned("error", "unset", <<>>)
  <2>1. stream # "open" /\ outcome'.got = "error"
    BY <1>4 DEF FlushFails, Returned
  <2>2. Channel!Refuse
    BY <1>1, <2>1 DEF Channel!Refuse, Channel!Got
  <2> QED
    BY <1>2, <2>2 DEF Channel!Next
<1> QED
  BY <1>3, <1>4 DEF ipc_recv_message

LEMMA ChannelEnd ==
    ASSUME FramingInv, Counted, ReadEnd
    PROVE  Counted' /\ [Channel!Next]_(Channel!vars)
<1>1. /\ read_buf = <<>> /\ wire = <<>> /\ stream # "open" /\ stream' = "eof" /\ ~overrun
      /\ UNCHANGED <<lengths, whole, wire, read_buf, taken, overrun>>
      /\ outcome'.got = IF stream = "reset" THEN "error" ELSE "eof"
  BY DEF ReadEnd, ReadsEnd, Drained, Return, Returned
<1>2. Counted'
  BY <1>1, CountedKept DEF pipe
<1>3. taken = whole
  <2>1. pipe = <<>> /\ taken \in Nat
    BY <1>1 DEF pipe, FramingInv, Typed
  <2>2. Ends(<<>>, lengths) = {}
    BY DEF Ends
  <2>3. Cardinality(Ends(pipe, lengths)) = 0
    BY <2>1, <2>2, FS_EmptySet
  <2> QED
    BY <1>1, <2>1, <2>3 DEF Counted
<1>4. CASE stream = "reset"
  <2>1. Channel!ReceiveError
    BY <1>1, <1>3, <1>4 DEF Channel!ReceiveError, Channel!Got
  <2> QED
    BY <1>2, <2>1 DEF Channel!Next
<1>5. CASE stream # "reset"
  <2>1. Channel!ReceiveEof
    BY <1>1, <1>3, <1>5 DEF Channel!ReceiveEof, Channel!Got
  <2> QED
    BY <1>2, <2>1 DEF Channel!Next
<1> QED
  BY <1>4, <1>5

\* The end of a call that returns a message.
LEMMA ChannelFinish ==
    ASSUME FramingInv, Counted, taken \in Nat, NEW buffer, NEW length, Finish(buffer, length),
           UNCHANGED <<lengths, whole, stream>>, Cardinality(Ends(pipe', lengths)) \in Nat,
           \A i \in 1..Len(pipe') : pipe'[i].of \in 1..Len(lengths),
           whole = taken + 1 + Cardinality(Ends(pipe', lengths))
    PROVE  Counted' /\ [Channel!Next]_(Channel!vars)
<1>1. taken' = taken + 1 /\ outcome'.got = "message" /\ taken < whole
  BY DEF Finish, Return, Returned
<1>2. Counted'
  <2>1. whole \in Nat /\ whole' = taken' + Cardinality(Ends(pipe', lengths'))
    BY <1>1 DEF Counted
  <2> QED
    BY <1>1, <2>1 DEF Counted
<1>3. Channel!Receive
  BY <1>1 DEF Channel!Receive, Channel!Got
<1> QED
  BY <1>2, <1>3 DEF Channel!Next

\* The read of a stream that ends in the middle of a message.
LEMMA ChannelCut ==
    ASSUME FramingInv, Counted, taken \in Nat, UNCHANGED <<lengths, whole, taken, outcome>>,
           \A i \in 1..Len(pipe') : pipe'[i].of \in 1..Len(lengths),
           stream # "open", stream' = "eof", whole = taken,
           Cardinality(Ends(pipe', lengths)) = 0
    PROVE  Counted' /\ [Channel!Next]_(Channel!vars)
<1>1. Counted'
  BY DEF Counted
<1>2. CASE stream = "reset"
  <2>1. Channel!Absorb
    BY <1>2 DEF Channel!Absorb
  <2> QED
    BY <1>1, <2>1 DEF Channel!Next
<1>3. CASE stream # "reset"
  <2>1. stream = "eof"
    BY <1>3 DEF FramingInv, Typed
  <2> QED
    BY <1>1, <2>1, ChannelUnchanged
<1> QED
  BY <1>2, <1>3

LEMMA ChannelHeader ==
    ASSUME FramingInv, Counted, ReadHeader
    PROVE  Counted' /\ [Channel!Next]_(Channel!vars)
<1> DEFINE l == lengths[taken + 1]
           n == Cardinality(Ends(pipe', lengths))
<1>1. /\ pc = "header" /\ ReadsBytes /\ UNCHANGED <<lengths, whole, wire>>
      /\ Chunk < Wanted => UNCHANGED <<taken, outcome, overrun>>
      /\ Chunk = Wanted => IF l = 0 THEN Finish(Uninitialised(Allocated(l)), l)
                                    ELSE UNCHANGED <<taken, outcome, overrun>>
  BY HeaderRead
<1>2. /\ taken \in Nat /\ l \in Nat /\ n \in Nat
      /\ \A i \in 1..Len(pipe') : pipe'[i].of \in 1..Len(lengths)
      /\ \/ Chunk = Wanted /\ stream' = stream /\ l = 0 /\ whole = taken + 1 + n
         \/ Chunk = Wanted /\ stream' = stream /\ l # 0 /\ whole = taken + n
         \/ /\ Chunk < Wanted /\ stream # "open" /\ stream' = "eof"
            /\ whole = taken /\ n = 0
  <2>1. pc # "idle" /\ pc # "body"
    BY <1>1
  <2> QED
    BY <1>1, <2>1, ReadCounted
<1>3. CASE Chunk = Wanted /\ stream' = stream /\ l = 0 /\ whole = taken + 1 + n
  BY <1>1, <1>2, <1>3, ChannelFinish
<1>4. CASE Chunk = Wanted /\ stream' = stream /\ l # 0 /\ whole = taken + n
  <2>1. UNCHANGED <<taken, outcome, overrun>>
    BY <1>1, <1>4
  <2>2. Counted'
    BY <1>1, <1>2, <1>4, <2>1 DEF Counted
  <2> QED
    BY <1>1, <1>4, <2>1, <2>2, ChannelUnchanged
<1>5. CASE /\ Chunk < Wanted /\ stream # "open" /\ stream' = "eof"
           /\ whole = taken /\ n = 0
  BY <1>1, <1>2, <1>5, ChannelCut
<1> QED
  BY <1>2, <1>3, <1>4, <1>5

LEMMA ChannelBody ==
    ASSUME FramingInv, Counted, ReadBody
    PROVE  Counted' /\ [Channel!Next]_(Channel!vars)
<1> DEFINE n == Cardinality(Ends(pipe', lengths))
<1>1. pc = "body" /\ ReadsBytes /\ UNCHANGED <<lengths, whole, wire>>
  BY DEF ReadBody
<1>2. /\ taken \in Nat /\ n \in Nat /\ Wanted = reply_length
      /\ \A i \in 1..Len(pipe') : pipe'[i].of \in 1..Len(lengths)
      /\ \/ Chunk = Wanted /\ stream' = stream /\ whole = taken + 1 + n
         \/ /\ Chunk < Wanted /\ stream # "open" /\ stream' = "eof"
            /\ whole = taken /\ n = 0
  <2>1. pc # "idle" /\ pc # "header"
    BY <1>1
  <2> QED
    BY <1>1, <2>1, ReadCounted
<1>3. CASE overrun' = TRUE /\ UNCHANGED <<taken, outcome>>
  <2>1. CASE Chunk = Wanted /\ stream' = stream /\ whole = taken + 1 + n
    <3>1. Counted'
      <4>1. taken + n <= whole /\ whole \in Nat
        BY <1>2, <2>1
      <4> QED
        BY <1>1, <1>2, <1>3, <4>1 DEF Counted
    <3> QED
      BY <1>1, <1>3, <2>1, <3>1, ChannelUnchanged
  <2>2. CASE /\ Chunk < Wanted /\ stream # "open" /\ stream' = "eof"
             /\ whole = taken /\ n = 0
    BY <1>1, <1>2, <1>3, <2>2, ChannelCut
  <2> QED
    BY <1>2, <2>1, <2>2
<1>4. CASE /\ ~Complete(Chunk, reply_length) /\ UNCHANGED <<taken, outcome, overrun>>
  <2>1. ~(Chunk = Wanted)
    <3>1. Wanted \in Nat
      BY <1>2 DEF FramingInv, Typed
    <3> QED
      BY <1>2, <1>4, <3>1 DEF Complete
  <2>2. /\ stream # "open" /\ stream' = "eof" /\ whole = taken /\ n = 0
    BY <1>2, <2>1
  <2> QED
    BY <1>1, <1>2, <1>4, <2>2, ChannelCut
<1>5. CASE Complete(Chunk, reply_length) /\ Finish(Stored(reply), reply_length)
  <2>1. ~(Chunk < Wanted)
    <3>1. Wanted \in Nat /\ Chunk \in Nat
      BY <1>2 DEF FramingInv, Typed, Chunk
    <3> QED
      BY <1>2, <1>5, <3>1 DEF Complete
  <2>2. stream' = stream /\ whole = taken + 1 + n
    BY <1>2, <2>1
  <2> QED
    BY <1>1, <1>2, <1>5, <2>2, ChannelFinish
<1> QED
  BY <1>3, <1>4, <1>5 DEF ReadBody, BodyComplete

-----------------------------------------------------------------------------
LEMMA ChannelInit ==
    ASSUME Init PROVE Counted /\ Channel!Init
<1>1. /\ pipe = <<>> /\ whole = 0 /\ taken = 0 /\ stream = "open"
      /\ outcome.got = "nothing"
  BY DEF Init, pipe, Returned
<1>2. Cardinality(Ends(<<>>, lengths)) = 0
  <2>1. Ends(<<>>, lengths) = {}
    BY DEF Ends
  <2> QED
    BY <2>1, FS_EmptySet
<1>3. Counted
  BY <1>1, <1>2 DEF Counted
<1>4. Channel!Init
  BY <1>1 DEF Channel!Init, Channel!Got
<1> QED
  BY <1>3, <1>4

LEMMA ChannelStep ==
    FramingInv /\ HeldType /\ Counted /\ [Next]_vars
        => Counted' /\ [Channel!Next]_(Channel!vars)
<1> SUFFICES ASSUME FramingInv, HeldType, Counted, [Next]_vars
             PROVE  Counted' /\ [Channel!Next]_(Channel!vars)
  OBVIOUS
<1>1. ASSUME NEW length \in Lengths, I3Write(length)
      PROVE  Counted' /\ [Channel!Next]_(Channel!vars)
  BY <1>1, ChannelWrite
<1>2. CASE I3Exit
  BY <1>2, ChannelExit
<1>9. CASE I3Send
  BY <1>9, ChannelSend
<1>3. CASE g_io_channel_fill_buffer
  BY <1>3, ChannelFill
<1>4. ASSUME NEW who \in Callers, ipc_recv_message(who)
      PROVE  Counted' /\ [Channel!Next]_(Channel!vars)
  BY <1>4, ChannelCall
<1>5. CASE ReadHeader
  BY <1>5, ChannelHeader
<1>6. CASE ReadBody
  BY <1>6, ChannelBody
<1>7. CASE ReadEnd
  BY <1>7, ChannelEnd
<1>8. CASE Halted \/ UNCHANGED vars
  <2>1. UNCHANGED <<lengths, whole, wire, stream, read_buf, taken, outcome, overrun>>
    BY <1>8 DEF Halted, vars
  <2> QED
    BY <2>1, CountedKept, ChannelUnchanged DEF pipe
<1> QED
  BY <1>1, <1>2, <1>3, <1>4, <1>5, <1>6, <1>7, <1>8, <1>9 DEF Next

\* ipc_recv_message gives the rest of the library what MessageChannel says:
\* every message i3 wrote whole, in order, each once, then an error or the end,
\* and never the end while a whole message is left.
THEOREM FramingImplementsChannel == Spec => ImplementsChannel
<1>1. Init => Channel!Init /\ Counted
  BY ChannelInit
<1> QED
  BY <1>1, ChannelStep, Invariant, PTL DEF Spec, ImplementsChannel, Channel!Spec

-----------------------------------------------------------------------------
(* Type correctness.                                                       *)

\* What TypeOK says beside Typed and Counted.
Bounded ==
    /\ lengths \in Seq(Lengths) /\ Len(lengths) <= MaxMessages
    /\ whole <= Len(lengths)
    /\ wire \in Seq(Byte) /\ read_buf \in Seq(Byte)
    /\ caller \in Callers
    /\ read_bytes \in 0..(Modulus + to_read)
    /\ msg \in [1..to_read -> Byte]
    /\ reply_length \in 0..(Modulus - 1) /\ reply \in Seq(Byte)
    /\ outcome.got \in {"nothing", "message", "error", "eof"}
    /\ outcome.reply \in {"unset", "string", "partial"}
    /\ outcome.bytes \in Seq(Byte)

LEMMA FreshBytes ==
    ASSUME NEW size \in Nat
    PROVE  /\ Uninitialised(size) \in Seq(Byte) /\ Len(Uninitialised(size)) = size
           /\ Uninitialised(size) \in [1..size -> Byte]
<1>1. Junk \in Byte
  BY ModulusAssumption, BoundsAssumption DEF Junk, Byte, to_read
<1>2. [k \in 1..size |-> Junk] \in Seq(Byte)
  BY <1>1, IsASeq
<1> QED
  BY <1>1, <1>2, Fresh DEF Uninitialised

LEMMA StoredIsBytes ==
    ASSUME Bounded, NEW buffer, NEW size \in Nat, buffer \in [1..size -> Byte]
    PROVE  Stored(buffer) \in [1..size -> Byte]
<1>1. Len(read_buf) \in Nat /\ read_buf \in Seq(Byte) /\ read_bytes \in Nat
      /\ Modulus \in Nat
  BY ModulusAssumption DEF Bounded, to_read
<1>2. ASSUME NEW k \in 1..size, k > read_bytes, k <= read_bytes + Chunk
      PROVE  read_buf[k - read_bytes] \in Byte
  <2>2. CASE Chunk = Len(read_buf)
    <3>1. k - read_bytes \in 1..Len(read_buf)
      BY <1>1, <1>2, <2>2
    <3> QED
      BY <1>1, <3>1
  <2>3. CASE Chunk = Wanted /\ ~(Len(read_buf) < Wanted)
    <3>1. Wanted \in Int
      BY <1>1 DEF Wanted, to_read, Bounded
    <3>2. k - read_bytes \in 1..Len(read_buf)
      BY <1>1, <1>2, <2>3, <3>1
    <3> QED
      BY <1>1, <3>2
  <2> QED
    BY <2>2, <2>3 DEF Chunk
<1> QED
  BY <1>2 DEF Stored

LEMMA BoundedWrite ==
    ASSUME FramingInv, Bounded, NEW length \in Lengths, I3Write(length) PROVE Bounded'
<1> DEFINE n == Len(lengths) + 1
           b == MessageBytes(n, length)
<1>1. /\ whole = Len(lengths) /\ whole' = n /\ Len(lengths) < MaxMessages
      /\ lengths' = Append(lengths, length) /\ wire' = wire \o b
      /\ UNCHANGED <<read_buf, pc, caller, read_bytes, msg, reply_length, reply, outcome>>
  <2>1. stream = "open" /\ whole' = whole + 1 /\ lengths' = Append(lengths, length)
        /\ wire' = wire \o MessageBytes(whole', length) /\ Len(lengths) < MaxMessages
    BY DEF I3Write
  <2>2. whole = Len(lengths)
    BY <2>1 DEF FramingInv
  <2>3. UNCHANGED <<read_buf, pc, caller, read_bytes, msg, reply_length, reply, outcome>>
    BY DEF I3Write, recvVars
  <2> QED
    BY <2>1, <2>2, <2>3
<1>2. Len(lengths) \in Nat /\ n \in 0..MaxMessages /\ length \in 0..(Modulus - 1)
      /\ Modulus \in Nat /\ MaxMessages \in Nat
  BY <1>1, LengthsAssumption, ModulusAssumption, BoundsAssumption DEF Bounded
<1>3. b \in Seq(Byte)
  <2>1. \A k \in 1..(to_read + length) : [of |-> n, at |-> k] \in Byte
    BY <1>2 DEF Byte, to_read
  <2>2. to_read + length \in Nat
    BY <1>2 DEF to_read
  <2> HIDE DEF n
  <2> QED
    BY <2>1, <2>2, IsASeq DEF MessageBytes
<1> HIDE DEF b
<1>4. wire' \in Seq(Byte)
  BY <1>1, <1>3, ConcatProperties DEF Bounded
<1>5. lengths' \in Seq(Lengths) /\ Len(lengths') = n
  BY <1>1 DEF Bounded
<1>6. Len(lengths') <= MaxMessages /\ whole' <= Len(lengths')
  BY <1>1, <1>2, <1>5
<1> HIDE DEF n
<1> QED
  BY <1>1, <1>4, <1>5, <1>6 DEF Bounded

\* The bytes go from the socket through the channel's buffer, or are lost.
LEMMA BoundedPipe ==
    ASSUME FramingInv, HeldType, Bounded, Counted, I3Exit \/ g_io_channel_fill_buffer
    PROVE  Bounded'
<1>1. wire \in Seq(Byte) /\ read_buf \in Seq(Byte) /\ Len(wire) \in Nat
  BY DEF Bounded
<1>2. UNCHANGED <<lengths, pc, caller, read_bytes, msg, reply_length, reply, outcome>>
  BY DEF I3Exit, g_io_channel_fill_buffer, recvVars
<1>3. CASE I3Exit
  <2>1. PICK k \in 0..Len(wire) :
            /\ wire' = SubSeq(wire, 1, k)
            /\ whole' = whole - Cardinality({i \in (k + 1)..Len(wire) : IsLastByte(wire[i])})
    BY <1>1, <1>3, ExitCuts
  <2>2. wire' \in Seq(Byte) /\ read_buf' = read_buf
    <3>1. read_buf' = read_buf
      BY <1>3 DEF I3Exit
    <3>2. wire' \in Seq(Byte)
      BY <1>1, <2>1
    <3> QED
      BY <3>1, <3>2
  <2>3. Cardinality({i \in (k + 1)..Len(wire) : IsLastByte(wire[i])}) \in Nat
    <3>1. IsFiniteSet((k + 1)..Len(wire))
      BY <1>1, FS_Interval
    <3> QED
      BY <3>1, FS_Subset, FS_CardinalityType
  <2>4. whole' <= Len(lengths')
    BY <1>2, <2>1, <2>3 DEF Bounded, Counted
  <2> QED
    BY <1>2, <2>2, <2>4 DEF Bounded
<1>4. CASE g_io_channel_fill_buffer
  <2>1. PICK k \in 1..BufSize : /\ k <= Len(wire)
                                /\ read_buf' = read_buf \o SubSeq(wire, 1, k)
                                /\ wire' = SubSeq(wire, k + 1, Len(wire))
    BY <1>4, PartOfWire DEF FramingInv
  <2>2. k \in Nat /\ SubSeq(wire, 1, k) \in Seq(Byte) /\ wire' \in Seq(Byte)
    BY <1>1, <2>1, BufSizeAssumption
  <2>3. read_buf' \in Seq(Byte)
    BY <1>1, <2>1, <2>2, ConcatProperties
  <2>4. whole' = whole
    BY <1>4 DEF g_io_channel_fill_buffer
  <2> QED
    BY <1>2, <2>2, <2>3, <2>4 DEF Bounded
<1> QED
  BY <1>3, <1>4

LEMMA EmptyBuffers ==
    /\ <<>> \in Seq(Byte) /\ Uninitialised(to_read) \in [1..to_read -> Byte]
    /\ Modulus \in Nat \ {0}
<1>1. to_read \in Nat
  BY DEF to_read
<1>2. Uninitialised(to_read) \in [1..to_read -> Byte]
  BY <1>1, FreshBytes
<1> QED
  BY <1>2, ModulusAssumption

LEMMA BoundedCall ==
    ASSUME Bounded, (\E who \in Callers : ipc_recv_message(who)) \/ ReadEnd PROVE Bounded'
<1>1. UNCHANGED <<lengths, whole, wire, read_buf, reply_length>>
  BY DEF ipc_recv_message, ReadEnd, i3Vars
<1>2. CASE ReadEnd
  <2>1. /\ caller' = caller /\ read_bytes' = 0 /\ msg' = Uninitialised(to_read)
        /\ reply' = <<>>
    BY <1>2 DEF ReadEnd, Return
  <2>2. /\ outcome'.got \in {"error", "eof"} /\ outcome'.reply \in {"unset", "partial"}
        /\ outcome'.bytes = <<>> \/ outcome'.bytes = reply
    BY <1>2 DEF ReadEnd, Return, Returned
  <2>3. outcome'.bytes \in Seq(Byte)
    BY <2>2, EmptyBuffers DEF Bounded
  <2>4. read_bytes' \in 0..(Modulus + to_read) /\ msg' \in [1..to_read -> Byte]
    BY <2>1, EmptyBuffers DEF to_read
  <2>5. caller' \in Callers /\ reply' \in Seq(Byte)
    BY <2>1, EmptyBuffers DEF Bounded
  <2> QED
    BY <1>1, <2>2, <2>3, <2>4, <2>5 DEF Bounded
<1>3. ASSUME NEW who \in Callers, ipc_recv_message(who) PROVE Bounded'
  <2>1. caller' = who /\ reply' = reply
    BY <1>3 DEF ipc_recv_message
  <2>2. CASE read_bytes' = 0 /\ msg' = Uninitialised(to_read) /\ outcome' = outcome
    BY <1>1, <2>1, <2>2, EmptyBuffers DEF Bounded, to_read
  <2>3. CASE outcome' = Returned("error", "unset", <<>>) /\ UNCHANGED <<read_bytes, msg>>
    BY <1>1, <2>1, <2>3, EmptyBuffers DEF Bounded, Returned
  <2> QED
    BY <1>3, <2>2, <2>3 DEF ipc_recv_message
<1> QED
  BY <1>2, <1>3

LEMMA BoundedFinish ==
    ASSUME Bounded, NEW buffer \in Seq(Byte), NEW length \in 0..(Modulus - 1),
           length <= Len(buffer), Finish(buffer, length), read_buf' \in Seq(Byte),
           reply_length' = length, UNCHANGED <<lengths, whole, wire, caller>>
    PROVE  Bounded'
<1>1. SubSeq(buffer, 1, length) \in Seq(Byte)
  BY EmptyBuffers
<1>2. /\ read_bytes' = 0 /\ msg' = Uninitialised(to_read) /\ reply' = <<>>
      /\ outcome'.got = "message" /\ outcome'.reply = "string"
      /\ outcome'.bytes = SubSeq(buffer, 1, length)
  BY DEF Finish, Return, Returned
<1> QED
  BY <1>1, <1>2, EmptyBuffers DEF Bounded, to_read

\* A read hands out bytes of the channel, and no more than were wanted.
LEMMA BoundedRead ==
    ASSUME FramingInv, Bounded, ReadsBytes, Wanted \in Nat, wire' = wire
    PROVE  read_buf' \in Seq(Byte) /\ Chunk \in Nat /\ Chunk <= Wanted
<1>1. read_buf \in Seq(Byte) /\ Len(read_buf) \in Nat
  BY DEF Bounded
<1>2. Chunk \in 0..Len(read_buf) /\ Chunk <= Wanted
  BY <1>1 DEF Chunk
<1>3. read_buf' = SubSeq(read_buf, Chunk + 1, Len(read_buf))
  BY DEF ReadsBytes
<1>4. SubSeq(read_buf, Chunk + 1, Len(read_buf)) \in Seq(Byte)
  BY <1>1, <1>2
<1> QED
  BY <1>2, <1>3, <1>4

LEMMA BoundedHeader == ASSUME FramingInv, Bounded, ReadHeader PROVE Bounded'
<1> DEFINE l == lengths[taken + 1]
<1>1. /\ pc = "header" /\ ReadsBytes /\ Wanted = 3
      /\ UNCHANGED <<lengths, whole, wire, caller>>
      /\ Chunk < Wanted => /\ msg' = Stored(msg) /\ read_bytes' = Chunk
                           /\ UNCHANGED <<reply_length, reply, outcome>>
      /\ Chunk = Wanted =>
            /\ reply_length' = l
            /\ IF l = 0
               THEN Finish(Uninitialised(Allocated(l)), l)
               ELSE /\ read_bytes' = 0 /\ msg' = Stored(msg)
                    /\ reply' = Uninitialised(Allocated(l)) /\ outcome' = outcome
  BY HeaderRead
<1>2. read_buf' \in Seq(Byte) /\ Chunk \in Nat /\ Chunk <= Wanted
  BY <1>1, BoundedRead
<1>3. l \in 0..(Modulus - 1) /\ Modulus \in Nat
  BY <1>1, Reading, EmptyBuffers
<1>4. Stored(msg) \in [1..to_read -> Byte]
  BY StoredIsBytes DEF Bounded, to_read
<1>5. Uninitialised(Allocated(l)) \in Seq(Byte) /\ Len(Uninitialised(Allocated(l))) \in Nat
  <2>1. Allocated(l) \in Nat
    BY <1>3, EmptyBuffers DEF Allocated
  <2> QED
    BY <2>1, FreshBytes
<1> HIDE DEF l
<1>6. CASE Chunk < Wanted
  BY <1>1, <1>2, <1>3, <1>4, <1>6 DEF Bounded, to_read
<1>7. CASE Chunk = Wanted /\ l = 0
  BY <1>1, <1>2, <1>3, <1>5, <1>7, BoundedFinish
<1>8. CASE Chunk = Wanted /\ l # 0
  BY <1>1, <1>2, <1>3, <1>4, <1>5, <1>8 DEF Bounded, to_read
<1> QED
  BY <1>1, <1>2, <1>6, <1>7, <1>8

LEMMA BoundedBody == ASSUME FramingInv, Bounded, ReadBody PROVE Bounded'
<1>1. /\ pc = "body" /\ ReadsBytes
      /\ UNCHANGED <<lengths, whole, wire, caller, reply_length>>
  BY DEF ReadBody
<1>2. read_bytes = 0 /\ Typed
  BY <1>1, Reading
<1>3. Wanted = reply_length /\ Wanted \in Nat /\ reply_length \in 0..(Modulus - 1)
  BY <1>1, <1>2 DEF Wanted, Typed, Bounded
<1>4. read_buf' \in Seq(Byte) /\ Chunk \in Nat /\ Chunk <= Wanted
  BY <1>1, <1>3, BoundedRead
<1>5. Stored(reply) \in Seq(Byte) /\ Len(Stored(reply)) = Len(reply) /\ Len(reply) \in Nat
  <2>1. Len(reply) \in Nat /\ reply \in [1..Len(reply) -> Byte]
    BY DEF Bounded
  <2>2. Stored(reply) \in [1..Len(reply) -> Byte]
    BY <2>1, StoredIsBytes
  <2>3. Stored(reply) = [k \in 1..Len(reply) |-> Stored(reply)[k]]
    BY <2>2
  <2>4. Stored(reply) \in Seq(Byte)
    BY <2>1, <2>2, <2>3, IsASeq
  <2>5. DOMAIN Stored(reply) = 1..Len(reply)
    BY <2>2
  <2> QED
    BY <2>1, <2>4, <2>5, LenProperties
<1>6. CASE UNCHANGED <<read_bytes, msg, reply, outcome>>
  BY <1>1, <1>4, <1>6 DEF Bounded
<1>7. CASE reply' = Stored(reply) /\ read_bytes' = Chunk /\ UNCHANGED <<msg, outcome>>
  <2>1. read_bytes' \in 0..(Modulus + to_read)
    BY <1>3, <1>4, <1>7, EmptyBuffers DEF to_read
  <2> QED
    BY <1>1, <1>4, <1>5, <1>7, <2>1 DEF Bounded
<1>8. CASE /\ read_bytes + Chunk <= Len(reply) /\ Complete(Chunk, reply_length)
           /\ Finish(Stored(reply), reply_length)
  <2>1. reply_length <= Len(Stored(reply))
    BY <1>2, <1>3, <1>4, <1>5, <1>8 DEF Complete
  <2> QED
    BY <1>1, <1>3, <1>4, <1>5, <1>8, <2>1, BoundedFinish
<1> QED
  BY <1>6, <1>7, <1>8 DEF ReadBody, BodyComplete

LEMMA BoundedInit == Init => Bounded
<1> SUFFICES ASSUME Init PROVE Bounded
  OBVIOUS
<1>1. /\ lengths = <<>> /\ whole = 0 /\ wire = <<>> /\ read_buf = <<>>
      /\ caller = "i3ipc_connection_message" /\ read_bytes = 0
      /\ msg = Uninitialised(to_read) /\ reply_length = 0 /\ reply = <<>>
      /\ outcome = Returned("nothing", "unset", <<>>)
  BY DEF Init
<1>2. <<>> \in Seq(Lengths) /\ Len(<<>>) = 0 /\ MaxMessages \in Nat
  BY BoundsAssumption
<1> QED
  BY <1>1, <1>2, EmptyBuffers DEF Bounded, Returned, Callers, to_read

LEMMA BoundedStep ==
    FramingInv /\ HeldType /\ Counted /\ Bounded /\ [Next]_vars => Bounded'
<1> SUFFICES ASSUME FramingInv, HeldType, Counted, Bounded, [Next]_vars PROVE Bounded'
  OBVIOUS
<1>1. ASSUME NEW length \in Lengths, I3Write(length) PROVE Bounded'
  BY <1>1, BoundedWrite
<1>2. CASE I3Exit \/ g_io_channel_fill_buffer
  BY <1>2, BoundedPipe
<1>3. CASE (\E who \in Callers : ipc_recv_message(who)) \/ ReadEnd
  BY <1>3, BoundedCall
<1>4. CASE ReadHeader
  BY <1>4, BoundedHeader
<1>5. CASE ReadBody
  BY <1>5, BoundedBody
<1>6. CASE I3Send \/ Halted \/ UNCHANGED vars
  BY <1>6 DEF I3Send, recvVars, Halted, vars, Bounded
<1> QED
  BY <1>1, <1>2, <1>3, <1>4, <1>5, <1>6 DEF Next

\* The bytes, buffers and counters keep their types; no more messages are
\* returned than were written whole.
THEOREM TypeCorrect == Spec => []TypeOK
<1>1. Init => FramingInv /\ HeldType /\ Counted /\ Bounded
  BY InvInit, ChannelInit, BoundedInit
<1>2. FramingInv /\ HeldType /\ Counted /\ Bounded => TypeOK
  <2> SUFFICES ASSUME FramingInv, HeldType, Counted, Bounded PROVE TypeOK
    OBVIOUS
  <2>1. Typed /\ taken \in Nat /\ Len(lengths) \in Nat
    BY DEF FramingInv, Typed
  <2>2. Cardinality(Ends(pipe, lengths)) \in Nat
    <3>1. Len(pipe) \in Nat
      BY <2>1, PipeType
    <3> QED
      BY <3>1, EndsFinite
  <2>3. taken \in 0..whole /\ whole \in 0..Len(lengths)
    BY <2>1, <2>2 DEF Counted, Bounded
  <2> QED
    BY <2>1, <2>3 DEF TypeOK, Bounded, Typed, HeldType
<1> QED
  BY <1>1, <1>2, InvStep, ChannelStep, BoundedStep, PTL DEF Spec
=============================================================================
