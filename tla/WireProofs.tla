------------------------------- MODULE WireProofs -------------------------------
(***************************************************************************)
(* Proofs about the two wire formats: messages in frames and the chunked   *)
(* encoding.                                                               *)
(***************************************************************************)
EXTENDS Frames, Chunked, SequenceTheorems, FiniteSetTheorems, WellFoundedInduction, TLAPS

--------------------------------------------------------------------------------
(* What a frame carries.                                                    *)

LEMMA SmallMod ==
    ASSUME NEW n \in Nat, NEW m \in Nat, n < m
    PROVE  n % m = n
OBVIOUS

\* The length field is decoded to what was encoded, or to a negative number.
LEMMA LengthDecoded ==
    ASSUME NEW n \in 0 .. 2 * Half - 1, NEW f, f.len = LengthField(n)
    PROVE  PayloadLen(f) = IF n < Half THEN n ELSE n - 2 * Half
<1> USE FramesAssumption
<1>1. CASE n <= 125
  BY <1>1 DEF PayloadLen, LengthField
<1>2. CASE ~(n <= 125) /\ n < Word
  <2>1. n % Word = n
    BY <1>2, SmallMod
  <2> QED
    BY <1>2, <2>1 DEF PayloadLen, LengthField
<1>3. CASE ~(n <= 125) /\ ~(n < Word)
  <2>1. n % (2 * Half) = n
    BY SmallMod
  <2> QED
    BY <1>3, <2>1 DEF PayloadLen, LengthField
<1> QED
  BY <1>1, <1>2, <1>3

LEMMA FrameFacts ==
    ASSUME NEW f \in Frames
    PROVE  /\ f.body \in Nat /\ PayloadLen(f) \in Int
           /\ PayloadLen(f) = f.body \/ (PayloadLen(f) < 0 /\ f.body = 0)
<1> USE FramesAssumption
<1>1. ASSUME NEW op, NEW n \in Lengths, f = Written(op, n)
      PROVE  f.body \in Nat /\ PayloadLen(f) = f.body
  <2>1. n \in 0 .. 2 * Half - 1 /\ n < Half /\ n \in Nat
    OBVIOUS
  <2>2. f.len = LengthField(n) /\ f.body = n
    BY <1>1 DEF Written
  <2> QED
    BY <2>1, <2>2, LengthDecoded
<1>2. ASSUME NEW fin, NEW op, NEW key, NEW n \in Foreign \cup {0},
             f.len = ForeignFrame(fin, op, key, n).len,
             f.body = ForeignFrame(fin, op, key, n).body
      PROVE  /\ f.body \in Nat /\ PayloadLen(f) \in Int
             /\ PayloadLen(f) = f.body \/ (PayloadLen(f) < 0 /\ f.body = 0)
  <2>1. n \in 0 .. 2 * Half - 1 /\ n \in Nat
    OBVIOUS
  <2>2. f.len = LengthField(n) /\ f.body = IF n < Half THEN n ELSE 0
    BY <1>2 DEF ForeignFrame
  <2>3. PayloadLen(f) = IF n < Half THEN n ELSE n - 2 * Half
    BY <2>1, <2>2, LengthDecoded
  <2> QED
    BY <2>1, <2>2, <2>3
<1>3. CASE f \in Reserved
  <2>1. /\ f.len = ForeignFrame(TRUE, TextMessage, NoKey, 0).len
        /\ f.body = ForeignFrame(TRUE, TextMessage, NoKey, 0).body
    BY <1>3 DEF Reserved, ForeignFrame
  <2> QED
    BY <1>2, <2>1
<1> DEFINE Goal == /\ f.body \in Nat /\ PayloadLen(f) \in Int
                   /\ PayloadLen(f) = f.body \/ (PayloadLen(f) < 0 /\ f.body = 0)
<1>4. ASSUME f \in WrittenFrames PROVE Goal
  <2>1. PICK op \in {TextMessage, BinaryMessage, PingMessage}, n \in Lengths : f = Written(op, n)
    BY <1>4 DEF WrittenFrames
  <2>2. f.body \in Nat /\ PayloadLen(f) = f.body
    BY <1>1, <2>1
  <2> QED
    BY <2>2
<1>5. ASSUME NEW fin, NEW op, NEW key, NEW n \in Foreign, f = ForeignFrame(fin, op, key, n)
      PROVE  Goal
  <2>1. n \in Foreign \cup {0}
    OBVIOUS
  <2> QED
    BY <1>2, <1>5, <2>1
<1>6. ASSUME f \in Fragments PROVE Goal
  <2>1. PICK fin \in BOOLEAN, op \in DataOps, key \in Keys \cup {NoKey}, n \in Foreign :
          f = ForeignFrame(fin, op, key, n)
    BY <1>6 DEF Fragments
  <2> QED
    BY <1>5, <2>1
<1>7. ASSUME f \in Controls PROVE Goal
  <2>1. \E op \in {PingMessage, PongMessage}, key \in Keys \cup {NoKey}, n \in Foreign :
          f = ForeignFrame(TRUE, op, key, n)
    BY <1>7 DEF Controls, ForeignFrame
  <2> QED
    BY <1>5, <2>1, Zenon
<1>8. ASSUME f \in Refused PROVE Goal
  <2>1. \E op \in {CloseMessage, Unknown}, n \in Foreign : f = ForeignFrame(TRUE, op, NoKey, n)
    BY <1>8 DEF Refused, ForeignFrame
  <2> QED
    BY <1>5, <2>1, Zenon
<1> QED
  BY <1>3, <1>4, <1>6, <1>7, <1>8 DEF Frames

\* The length of what frame f carries, as the reader sees it and as it was sent.
LEMMA Fits ==
    ASSUME NEW f \in Frames
    PROVE  /\ f.body = 0 <=> PayloadLen(f) <= 0
           /\ f.body # 0 => PayloadLen(f) = f.body
           /\ PayloadLen(f) <= BufSize <=> f.body <= BufSize
BY FrameFacts, FramesAssumption

\* readFrame returns what the sender put into the frame, whichever key masks it.
LEMMA PartIsSent ==
    ASSUME NEW f \in Frames, NEW h \in Seq(Frames)
    PROVE  PartPayload(f, Len(h) + 1) = Sent(Append(h, f), Len(h) + 1)
<1> DEFINE i == Len(h) + 1
           g == Append(h, f)
<1>1. g[i] = f
  OBVIOUS
<1>2. CASE f.body = 0
  BY <1>1, <1>2, Fits DEF PartPayload, Sent
<1>3. CASE f.body # 0
  <2> DEFINE seg(K) == [id |-> i, len |-> f.body, keys |-> K]
  <2>1. Sent(g, i) = <<seg({})>>
    BY <1>1, <1>3 DEF Sent, Segment
  <2>2. /\ PayloadLen(f) = f.body /\ ~(PayloadLen(f) <= 0)
    BY <1>3, Fits
  <2>3. Body(f, i, f.body) = <<seg(IF f.key = NoKey THEN {} ELSE {f.key})>>
    BY DEF Body
  <2>4. CASE f.key = NoKey
    BY <2>1, <2>2, <2>3, <2>4 DEF PartPayload
  <2>5. CASE f.key # NoKey
    <3>1. KeyAfter(f) = f.key
      BY <2>5 DEF KeyAfter
    <3>2. PartPayload(f, i) = MaskBytes(<<seg({f.key})>>, f.key)
      BY <2>2, <2>3, <2>5, <3>1 DEF PartPayload
    <3>3. MaskBytes(<<seg({f.key})>>, f.key) = <<seg({})>>
      <4> DEFINE one == <<seg({f.key})>>
      <4>1. DOMAIN one = {1} /\ one[1] = seg({f.key})
        OBVIOUS
      <4>2. {f.key} \ {f.key} = {} /\ f.key \in {f.key}
        OBVIOUS
      <4>a. [one[1] EXCEPT !.keys = IF f.key \in @ THEN @ \ {f.key} ELSE @ \cup {f.key}] = seg({})
        <5>1. (IF f.key \in {f.key} THEN {f.key} \ {f.key} ELSE {f.key} \cup {f.key}) = {}
          BY <4>2
        <5>2. seg({f.key}).keys = {f.key}
          OBVIOUS
        <5>3. \A K : [seg({f.key}) EXCEPT !.keys = K] = seg(K)
          OBVIOUS
        <5> HIDE DEF seg, one
        <5> QED
          BY <4>1, <5>1, <5>2, <5>3
      <4> HIDE DEF one, seg
      <4>3. MaskBytes(one, f.key) = [k \in {1} |-> seg({})]
        BY <4>1, <4>a, Zenon DEF MaskBytes
      <4>4. <<seg({})>> = [k \in {1} |-> seg({})]
        OBVIOUS
      <4> QED
        BY <4>3, <4>4 DEF one
    <3> QED
      BY <2>1, <3>2, <3>3
  <2> QED
    BY <2>4, <2>5
<1> QED
  BY <1>2, <1>3

--------------------------------------------------------------------------------
(* One more frame.                                                          *)

Segments == [id : Nat, len : Nat, keys : {{}}]

LEMMA Appended ==
    ASSUME NEW h \in Seq(Frames), NEW f \in Frames, NEW g, g = Append(h, f)
    PROVE  /\ g \in Seq(Frames) /\ Len(g) = Len(h) + 1 /\ Len(h) \in Nat
           /\ DOMAIN h = 1 .. Len(h) /\ DOMAIN g = 1 .. Len(h) + 1
           /\ g[Len(h) + 1] = f /\ \A i \in 1 .. Len(h) : g[i] = h[i]
OBVIOUS

LEMMA SentFacts ==
    ASSUME NEW h \in Seq(Frames), NEW f \in Frames, NEW g, g = Append(h, f)
    PROVE  /\ Sent(g, Len(h) + 1) \in Seq(Segments)
           /\ \A i \in 1 .. Len(h) : Sent(g, i) = Sent(h, i) /\ Segment(g, i) = Segment(h, i)
<1>1. Segment(g, Len(h) + 1) \in Segments
  BY Appended, FrameFacts DEF Segment, Segments
<1>2. <<>> \in Seq(Segments) /\ <<Segment(g, Len(h) + 1)>> \in Seq(Segments)
  BY <1>1
<1> QED
  BY <1>2, Appended DEF Sent, Segment

LEMMA CollectsSame ==
    ASSUME NEW h \in Seq(Frames), NEW f \in Frames, NEW g, g = Append(h, f),
           NEW p \in Seq(Segments), Collects(h, p), ~IsData(f) \/ f.body = 0
    PROVE  Collects(g, p)
<1>1. ASSUME NEW k \in DOMAIN p
      PROVE  /\ p[k].id \in DOMAIN g /\ IsData(g[p[k].id]) /\ g[p[k].id].body # 0
             /\ p[k] = Segment(g, p[k].id)
             /\ \A j \in 1 .. k - 1 : p[j].id < p[k].id
  <2>1. /\ p[k].id \in 1 .. Len(h) /\ IsData(h[p[k].id]) /\ h[p[k].id].body # 0
        /\ p[k] = Segment(h, p[k].id)
        /\ \A j \in 1 .. k - 1 : p[j].id < p[k].id
    BY Appended DEF Collects
  <2>2. \A i \in 1 .. Len(h) : g[i] = h[i] /\ i \in DOMAIN g
    BY Appended
  <2>3. \A i \in 1 .. Len(h) : Segment(g, i) = Segment(h, i)
    BY SentFacts
  <2>4. g[p[k].id] = h[p[k].id] /\ p[k].id \in DOMAIN g /\ Segment(g, p[k].id) = Segment(h, p[k].id)
    BY <2>1, <2>2, <2>3
  <2> QED
    BY <2>1, <2>4
<1>2. ASSUME NEW i \in DOMAIN g, IsData(g[i]) /\ g[i].body # 0
      PROVE  \E k \in DOMAIN p : p[k].id = i
  <2>1. i \in 1 .. Len(h) /\ g[i] = h[i] /\ i \in DOMAIN h
    BY <1>2, Appended
  <2> QED
    BY <1>2, <2>1 DEF Collects
<1> QED
  BY <1>1, <1>2 DEF Collects

\* A data frame's segment comes behind those collected before.
LEMMA CollectsMore ==
    ASSUME NEW h \in Seq(Frames), NEW f \in Frames, NEW g, g = Append(h, f),
           NEW p \in Seq(Segments), Collects(h, p), IsData(f)
    PROVE  /\ p \o Sent(g, Len(h) + 1) \in Seq(Segments)
           /\ Collects(g, p \o Sent(g, Len(h) + 1))
<1>1. CASE f.body = 0
  <2>1. Sent(g, Len(h) + 1) = <<>>
    BY <1>1, Appended DEF Sent
  <2>2. p \o <<>> = p
    BY ConcatEmptySeq
  <2> QED
    BY <1>1, <2>1, <2>2, CollectsSame
<1>2. CASE f.body # 0
  <2> DEFINE n == Len(h) + 1
             s == Segment(g, n)
             q == p \o <<s>>
  <2>0. g[n] = f /\ n \in Nat
    BY Appended
  <2>1. Sent(g, n) = <<s>> /\ s.id = n /\ n \in Nat
    <3>1. s.id = n
      BY DEF Segment
    <3>2. Sent(g, n) = <<s>>
      BY <1>2, <2>0, Zenon DEF Sent
    <3> QED
      BY <2>0, <3>1, <3>2
  <2>2. s \in Segments
    BY Appended, FrameFacts DEF Segment, Segments
  <2>3. /\ q \in Seq(Segments) /\ Len(q) = Len(p) + 1 /\ Len(p) \in Nat
        /\ DOMAIN q = 1 .. Len(p) + 1 /\ DOMAIN p = 1 .. Len(p)
        /\ q[Len(p) + 1] = s /\ \A k \in 1 .. Len(p) : q[k] = p[k]
    BY <2>2
  <2> HIDE DEF q, s, n
  <2>4. /\ n \in DOMAIN g /\ g[n] = f /\ \A i \in 1 .. Len(h) : g[i] = h[i]
        /\ DOMAIN h = 1 .. Len(h) /\ DOMAIN g = 1 .. n /\ Len(h) \in Nat /\ n = Len(h) + 1
    BY Appended DEF n
  <2>5. ASSUME NEW k \in 1 .. Len(p)
        PROVE  /\ p[k].id \in 1 .. Len(h) /\ IsData(h[p[k].id]) /\ h[p[k].id].body # 0
               /\ p[k] = Segment(g, p[k].id)
               /\ \A j \in 1 .. k - 1 : p[j].id < p[k].id
    <3>1. /\ p[k].id \in 1 .. Len(h) /\ IsData(h[p[k].id]) /\ h[p[k].id].body # 0
          /\ p[k] = Segment(h, p[k].id)
          /\ \A j \in 1 .. k - 1 : p[j].id < p[k].id
      BY <2>3, <2>4 DEF Collects
    <3>2. \A i \in 1 .. Len(h) : Segment(g, i) = Segment(h, i)
      BY SentFacts
    <3> QED
      BY <3>1, <3>2
  <2>6. ASSUME NEW k \in DOMAIN q
        PROVE  /\ q[k].id \in DOMAIN g /\ IsData(g[q[k].id]) /\ g[q[k].id].body # 0
               /\ q[k] = Segment(g, q[k].id)
               /\ \A j \in 1 .. k - 1 : q[j].id < q[k].id
    <3>1. CASE k = Len(p) + 1
      <4>1. q[k] = s /\ q[k].id = n /\ IsData(g[n]) /\ g[n].body # 0
        BY <1>2, <2>1, <2>3, <2>4, <3>1
      <4>2. ASSUME NEW j \in 1 .. k - 1 PROVE q[j].id < q[k].id
        <5>1. j \in 1 .. Len(p) /\ q[j] = p[j]
          BY <2>3, <3>1
        <5>2. p[j].id \in 1 .. Len(h)
          BY <2>5, <5>1
        <5> QED
          BY <2>4, <4>1, <5>1, <5>2
      <4> QED
        BY <2>4, <4>1, <4>2 DEF s
    <3>2. CASE k # Len(p) + 1
      <4>1. k \in 1 .. Len(p) /\ q[k] = p[k] /\ \A j \in 1 .. k - 1 : q[j] = p[j]
        BY <2>3, <3>2
      <4>2. p[k].id \in 1 .. Len(h) /\ p[k].id \in DOMAIN g /\ g[p[k].id] = h[p[k].id]
        BY <2>4, <2>5, <4>1
      <4> QED
        BY <2>5, <4>1, <4>2
    <3> QED
      BY <3>1, <3>2
  <2>7. ASSUME NEW i \in DOMAIN g, IsData(g[i]) /\ g[i].body # 0
        PROVE  \E k \in DOMAIN q : q[k].id = i
    <3>1. CASE i = n
      BY <2>1, <2>3, <3>1
    <3>2. CASE i # n
      <4>1. i \in DOMAIN h /\ g[i] = h[i]
        BY <2>4, <3>2
      <4>2. PICK k \in DOMAIN p : p[k].id = i
        BY <2>7, <4>1 DEF Collects
      <4> QED
        BY <2>3, <4>2
    <3> QED
      BY <3>1, <3>2
  <2>8. Collects(g, q)
    BY <2>6, <2>7 DEF Collects
  <2> QED
    BY <2>1, <2>3, <2>8 DEF q, n
<1> QED
  BY <1>1, <1>2

LEMMA LastTypeMore ==
    ASSUME NEW h \in Seq(Frames), NEW f \in Frames, NEW g, g = Append(h, f),
           NEW op, LastType(h, op)
    PROVE  LastType(g, IF IsTyped(f) THEN f.op ELSE op)
<1> DEFINE n == Len(h) + 1
<1>0. /\ n \in DOMAIN g /\ g[n] = f /\ \A i \in 1 .. Len(h) : g[i] = h[i]
      /\ DOMAIN h = 1 .. Len(h) /\ DOMAIN g = 1 .. n /\ Len(h) \in Nat /\ Len(g) = n
  BY Appended
<1>1. CASE IsTyped(f)
  <2>1. \A j \in n + 1 .. Len(g) : ~IsTyped(g[j])
    BY <1>0
  <2> QED
    BY <1>0, <1>1, <2>1 DEF LastType
<1>2. CASE ~IsTyped(f) /\ op = Continuation /\ \A i \in DOMAIN h : ~IsTyped(h[i])
  <2>1. \A i \in DOMAIN g : ~IsTyped(g[i])
    BY <1>0, <1>2
  <2> QED
    BY <1>2, <2>1 DEF LastType
<1>3. CASE ~IsTyped(f) /\ \E i \in DOMAIN h : /\ IsTyped(h[i]) /\ op = h[i].op
                                             /\ \A j \in i + 1 .. Len(h) : ~IsTyped(h[j])
  <2>1. PICK i \in DOMAIN h : /\ IsTyped(h[i]) /\ op = h[i].op
                              /\ \A j \in i + 1 .. Len(h) : ~IsTyped(h[j])
    BY <1>3
  <2>2. i \in DOMAIN g /\ g[i] = h[i]
    BY <1>0
  <2>3. ASSUME NEW j \in i + 1 .. Len(g) PROVE ~IsTyped(g[j])
    <3>1. CASE j = n
      BY <1>0, <1>3, <3>1
    <3>2. CASE j # n
      <4>1. j \in i + 1 .. Len(h) /\ j \in 1 .. Len(h)
        BY <1>0, <3>2
      <4> QED
        BY <1>0, <2>1, <4>1
    <3> QED
      BY <3>1, <3>2
  <2> QED
    BY <1>3, <2>1, <2>2, <2>3 DEF LastType
<1> QED
  BY <1>1, <1>2, <1>3 DEF LastType

--------------------------------------------------------------------------------
(* Pings and pongs.                                                         *)

LEMMA PingsFacts ==
    ASSUME NEW h \in Seq(Frames)
    PROVE  Pings(h) \subseteq 1 .. Len(h) /\ IsFiniteSet(Pings(h))
<1>1. Len(h) \in Nat /\ DOMAIN h = 1 .. Len(h)
  OBVIOUS
<1>2. Pings(h) \subseteq 1 .. Len(h)
  BY <1>1 DEF Pings
<1>3. IsFiniteSet(1 .. Len(h))
  BY <1>1, FS_Interval
<1> QED
  BY <1>2, <1>3, FS_Subset

LEMMA PingsMore ==
    ASSUME NEW h \in Seq(Frames), NEW f \in Frames, NEW g, g = Append(h, f)
    PROVE  /\ IsPing(f) /\ f.body <= BufSize => Pings(g) = Pings(h) \cup {Len(h) + 1}
           /\ ~(IsPing(f) /\ f.body <= BufSize) => Pings(g) = Pings(h)
           /\ Pings(g) \ {Len(h) + 1} = Pings(h)
<1> DEFINE n == Len(h) + 1
           Answered(x) == IsPing(x) /\ x.body <= BufSize
<1>1. /\ n \in DOMAIN g /\ g[n] = f /\ \A i \in 1 .. Len(h) : g[i] = h[i]
      /\ DOMAIN h = 1 .. Len(h) /\ DOMAIN g = 1 .. n /\ Len(h) \in Nat
  BY Appended
<1>2. \A i : i \in Pings(g) <=> i \in DOMAIN g /\ Answered(g[i])
  BY DEF Pings
<1>3. \A i : i \in Pings(h) <=> i \in DOMAIN h /\ Answered(h[i])
  BY DEF Pings
<1> HIDE DEF Answered
<1>4. \A i : i \in DOMAIN h => i \in Pings(g) <=> i \in Pings(h)
  BY <1>1, <1>2, <1>3
<1>5. n \in Pings(g) <=> Answered(f)
  BY <1>1, <1>2
<1>6. \A i : i \in DOMAIN g <=> i \in DOMAIN h \/ i = n
  BY <1>1
<1>7. n \notin DOMAIN h
  BY <1>1
<1> HIDE DEF n
<1>8. \A i : i \in Pings(g) <=> i \in Pings(h) \/ (i = n /\ Answered(f))
  BY <1>2, <1>3, <1>4, <1>5, <1>6, <1>7
<1>9. n \notin Pings(h)
  BY <1>3, <1>7
<1> QED
  BY <1>8, <1>9 DEF n, Answered

LEMMA AnswersSame ==
    ASSUME NEW h \in Seq(Frames), NEW f \in Frames, NEW g, g = Append(h, f),
           NEW o, Answers(h, Pings(h), o)
    PROVE  Answers(g, Pings(h), o)
<1>1. \A i \in Pings(h) : Sent(g, i) = Sent(h, i)
  BY PingsFacts, SentFacts
<1> QED
  BY <1>1 DEF Answers

\* A pong for the newest ping comes behind all others.
LEMMA AnswersMore ==
    ASSUME NEW h \in Seq(Frames), NEW f \in Frames, NEW g, g = Append(h, f),
           NEW o \in Seq(Seq(Segments)), Answers(h, Pings(h), o)
    PROVE  Answers(g, Pings(h) \cup {Len(h) + 1}, Append(o, Sent(g, Len(h) + 1)))
<1> DEFINE n == Len(h) + 1
           S == Pings(h)
           T == S \cup {n}
           q == Append(o, Sent(g, n))
<1>1. Len(h) \in Nat /\ n = Len(h) + 1 /\ S \subseteq 1 .. Len(h) /\ IsFiniteSet(S)
  BY PingsFacts
<1>2. Answers(g, S, o)
  BY AnswersSame
<1>3. Sent(g, n) \in Seq(Segments)
  BY SentFacts
<1>4. /\ Len(o) \in Nat /\ Len(q) = Len(o) + 1 /\ q[Len(o) + 1] = Sent(g, n)
      /\ \A k \in 1 .. Len(o) : q[k] = o[k]
  BY <1>3
<1> HIDE DEF n, S, q
<1>5. n \notin S /\ \A i \in S : i \in Int /\ i <= n /\ ~(n <= i)
  BY <1>1
<1>6. Cardinality(S) \in Nat /\ Cardinality(T) = Cardinality(S) + 1
  BY <1>1, <1>5, FS_AddElement, FS_CardinalityType
<1>7. Len(q) = Cardinality(T)
  BY <1>2, <1>4, <1>6 DEF Answers
<1>8. ASSUME NEW i \in T PROVE q[Cardinality({j \in T : j <= i})] = Sent(g, i)
  <2>1. CASE i = n
    <3>0. \A j \in T : j <= n
      BY <1>1, <1>5
    <3>1. {j \in T : j <= n} = T
      BY <3>0, Zenon
    <3>2. Cardinality(T) = Len(o) + 1
      BY <1>2, <1>6 DEF Answers
    <3> HIDE DEF T
    <3> QED
      BY <1>4, <2>1, <3>1, <3>2
  <2>2. CASE i # n
    <3> DEFINE U == {j \in S : j <= i}
    <3>0. i \in S
      BY <2>2
    <3>1. {j \in T : j <= i} = U
      BY <1>5, <3>0
    <3>2. U \subseteq S /\ i \in U
      BY <1>5, <3>0
    <3> HIDE DEF U
    <3>3. IsFiniteSet(U) /\ Cardinality(U) <= Cardinality(S) /\ Cardinality(U) \in Nat
      BY <1>1, <3>2, FS_Subset, FS_CardinalityType
    <3>4. Cardinality(U) # 0
      BY <3>2, <3>3, FS_EmptySet
    <3>5. Len(o) = Cardinality(S) /\ o[Cardinality(U)] = Sent(g, i)
      BY <1>2, <3>0 DEF Answers, U
    <3>6. q[Cardinality(U)] = o[Cardinality(U)]
      BY <1>4, <1>6, <3>3, <3>4, <3>5
    <3> QED
      BY <3>1, <3>5, <3>6
  <2> QED
    BY <2>1, <2>2
<1>9. Answers(g, T, q)
  BY <1>7, <1>8 DEF Answers
<1> QED
  BY <1>9 DEF n, S, q

\* A frame with reserved bits is no ping.
LEMMA ReservedFrames ==
    ASSUME NEW f \in Frames, f.rsv
    PROVE  f.op = TextMessage
<1>1. f \notin WrittenFrames
  BY DEF WrittenFrames, Written
<1>2. f \notin Fragments
  BY DEF Fragments, ForeignFrame
<1>3. f \notin Controls
  BY DEF Controls, ForeignFrame
<1>4. f \notin Refused
  BY DEF Refused, ForeignFrame
<1>5. f \in Reserved
  BY <1>1, <1>2, <1>3, <1>4 DEF Frames
<1> QED
  BY <1>5 DEF Reserved, ForeignFrame

--------------------------------------------------------------------------------
(* ReadMessage.  While a call runs, what it has collected is what the data   *)
(* frames read so far carry, and it has counted every frame.                 *)

ReadTypes == [pc : {"idle", "read"}, payload : Seq(Segments), finOp : Nat, n : Nat]

FrTypes ==
    /\ rd \in ReadTypes
    /\ hist \in Seq(Frames)
    /\ out \in Seq(Seq(Segments))

Reading ==
    rd.pc = "read" =>
        /\ ret.kind = "none"
        /\ Len(hist) = rd.n /\ rd.n <= MaxRead + 1
        /\ Collects(hist, rd.payload)
        /\ LastType(hist, rd.finOp)

FrInv ==
    /\ FrTypes /\ Reading
    /\ Reassembled /\ TypeOfMessage /\ PongPerPing /\ FrameBudget

LEMMA NothingRead == Answers(<<>>, Pings(<<>>), <<>>)
<1>1. Pings(<<>>) = {}
  BY DEF Pings
<1> QED
  BY <1>1, FS_EmptySet DEF Answers

LEMMA FramesInitially == FrInit => FrInv
<1> SUFFICES ASSUME FrInit PROVE FrInv
  OBVIOUS
<1> USE FramesAssumption DEF FrInit
<1>1. rd.pc = "idle" /\ ret.kind = "none" /\ hist = <<>> /\ out = <<>>
  BY DEF NoRet
<1>2. FrTypes
  BY DEF FrTypes, ReadTypes
<1>3. PongPerPing
  <2>1. Pings(hist) \ (IF ret.kind = "write error" THEN {Len(hist)} ELSE {}) = Pings(hist)
    BY <1>1
  <2> QED
    BY <1>1, <2>1, NothingRead DEF PongPerPing
<1> QED
  BY <1>1, <1>2, <1>3 DEF FrInv, Reading, Reassembled, TypeOfMessage, FrameBudget

\* A call ends.
LEMMA CallReturns ==
    ASSUME FrInv, rd.pc = "read", NEW kind, NEW op, NEW payload, Return(kind, op, payload),
           hist' \in Seq(Frames), Len(hist') <= MaxRead + 2, out' \in Seq(Seq(Segments)),
           kind = "data" => Collects(hist', payload) /\ TypeOfMessage',
           kind = "write error" => Answers(hist', Pings(hist') \ {Len(hist')}, out'),
           kind # "write error" => Answers(hist', Pings(hist'), out')
    PROVE  FrInv'
<1>1. rd' \in ReadTypes /\ rd'.pc = "idle"
  BY DEF Return, FrInv, FrTypes, ReadTypes
<1>2. ret'.kind = kind /\ ret'.payload = payload
  BY DEF Return
<1>3. FrTypes' /\ Reading' /\ FrameBudget'
  BY <1>1 DEF FrTypes, Reading, FrameBudget
<1>4. Reassembled'
  BY <1>2 DEF Reassembled
<1>5. TypeOfMessage'
  <2>1. CASE kind = "data"
    BY <2>1
  <2>2. CASE kind # "data"
    BY <1>2, <2>2 DEF TypeOfMessage
  <2> QED
    BY <2>1, <2>2
<1>6. PongPerPing'
  <2>1. CASE kind = "write error"
    BY <1>2, <2>1 DEF PongPerPing
  <2>2. CASE kind # "write error"
    <3>1. Pings(hist') \ {} = Pings(hist')
      OBVIOUS
    <3> QED
      BY <1>2, <2>2, <3>1 DEF PongPerPing
  <2> QED
    BY <2>1, <2>2
<1> QED
  BY <1>3, <1>4, <1>5, <1>6 DEF FrInv

LEMMA ReadEdits ==
    ASSUME NEW r \in ReadTypes, NEW m \in Nat
    PROVE  /\ [r EXCEPT !.n = m] \in ReadTypes /\ [r EXCEPT !.pc = "idle"] \in ReadTypes
           /\ [r EXCEPT !.pc = "idle"].pc = "idle"
           /\ [r EXCEPT !.n = m].n = m /\ [r EXCEPT !.n = m].payload = r.payload
           /\ [r EXCEPT !.n = m].finOp = r.finOp
BY DEF ReadTypes

\* A call goes on to the next frame, or has read too many.
LEMMA CallContinues ==
    ASSUME FrInv, rd.pc = "read", NEW r \in ReadTypes, r.pc = "read", r.n = rd.n,
           NEW op, Continue(r, op),
           hist' \in Seq(Frames), Len(hist') = rd.n + 1, out' \in Seq(Seq(Segments)),
           Collects(hist', r.payload), LastType(hist', r.finOp),
           Answers(hist', Pings(hist'), out')
    PROVE  FrInv'
<1> USE FramesAssumption
<1>0. rd.n \in Nat /\ rd.n <= MaxRead + 1 /\ ret.kind = "none"
  BY DEF FrInv, FrTypes, ReadTypes, Reading
<1>1. CASE r.n > MaxRead
  <2>1. /\ rd' \in ReadTypes /\ rd'.pc = "idle"
        /\ ret'.kind = "max read"
    <3>1. /\ rd' = [r EXCEPT !.pc = "idle"]
          /\ ret' = [kind |-> "max read", op |-> op, payload |-> r.payload]
      BY <1>1, Zenon DEF Continue
    <3>2. ret'.kind = "max read"
      BY <3>1
    <3>3. [r EXCEPT !.pc = "idle"] \in ReadTypes /\ [r EXCEPT !.pc = "idle"].pc = "idle"
      BY ReadEdits
    <3> QED
      BY <3>1, <3>2, <3>3, Zenon
  <2>a. FrTypes' /\ Reading'
    BY <2>1 DEF FrTypes, Reading
  <2>b. FrameBudget'
    BY <1>0 DEF FrameBudget
  <2>c. Reassembled' /\ TypeOfMessage'
    BY <2>1 DEF Reassembled, TypeOfMessage
  <2>2. FrTypes' /\ Reading' /\ FrameBudget' /\ Reassembled' /\ TypeOfMessage'
    BY <2>a, <2>b, <2>c
  <2>3. Pings(hist') \ {} = Pings(hist')
    OBVIOUS
  <2>4. PongPerPing'
    BY <2>1, <2>3 DEF PongPerPing
  <2> QED
    BY <2>2, <2>4 DEF FrInv
<1>2. CASE ~(r.n > MaxRead)
  <2>1. /\ rd' \in ReadTypes /\ rd'.n = rd.n + 1 /\ rd'.payload = r.payload /\ rd'.finOp = r.finOp
        /\ ret' = ret
    <3> DEFINE m == r.n + 1
    <3>1. rd' = [r EXCEPT !.n = m] /\ ret' = ret
      BY <1>2 DEF Continue
    <3>2. m \in Nat /\ m = rd.n + 1
      BY DEF ReadTypes
    <3> HIDE DEF m
    <3>3. /\ [r EXCEPT !.n = m] \in ReadTypes /\ [r EXCEPT !.n = m].n = m
          /\ [r EXCEPT !.n = m].payload = r.payload /\ [r EXCEPT !.n = m].finOp = r.finOp
      BY <3>2, ReadEdits
    <3> QED
      BY <3>1, <3>2, <3>3, Zenon
  <2>2. ret'.kind = "none" /\ rd'.n <= MaxRead + 1
    BY <1>0, <1>2, <2>1
  <2>3. FrTypes'
    BY <2>1 DEF FrTypes
  <2>a. Reading'
    BY <2>1, <2>2 DEF Reading
  <2>b. FrameBudget'
    BY <1>0 DEF FrameBudget
  <2>c. Reassembled' /\ TypeOfMessage'
    BY <2>2 DEF Reassembled, TypeOfMessage
  <2>4. Reading' /\ FrameBudget' /\ Reassembled' /\ TypeOfMessage'
    BY <2>a, <2>b, <2>c
  <2>5. Pings(hist') \ {} = Pings(hist')
    OBVIOUS
  <2>6. PongPerPing'
    BY <2>2, <2>5 DEF PongPerPing
  <2> QED
    BY <2>3, <2>4, <2>6 DEF FrInv
<1> QED
  BY <1>1, <1>2

\* What holds between frames of a running call, and what one more frame adds.
LEMMA OneMoreFrame ==
    ASSUME FrInv, NEW f \in Frames, NextFrame(f)
    PROVE  /\ rd.pc = "read" /\ rd \in ReadTypes /\ ret.kind = "none"
           /\ rd.payload \in Seq(Segments) /\ rd.finOp \in Nat
           /\ hist \in Seq(Frames) /\ hist' = Append(hist, f) /\ hist' \in Seq(Frames)
           /\ out \in Seq(Seq(Segments))
           /\ Len(hist') = Len(hist) + 1 /\ Len(hist') = rd.n + 1 /\ Len(hist') <= MaxRead + 2
           /\ hist'[Len(hist')] = f
           /\ Collects(hist, rd.payload) /\ LastType(hist, rd.finOp)
           /\ Answers(hist, Pings(hist), out)
           /\ Pings(hist') \ {Len(hist')} = Pings(hist)
           /\ Answers(hist', Pings(hist), out)
<1> USE FramesAssumption
<1>1. rd.pc = "read" /\ hist' = Append(hist, f)
  BY DEF NextFrame
<1>2. /\ rd \in ReadTypes /\ hist \in Seq(Frames) /\ out \in Seq(Seq(Segments))
      /\ ret.kind = "none" /\ Len(hist) = rd.n /\ rd.n <= MaxRead + 1
      /\ Collects(hist, rd.payload) /\ LastType(hist, rd.finOp)
  BY <1>1 DEF FrInv, FrTypes, Reading
<1>3. rd.payload \in Seq(Segments) /\ rd.finOp \in Nat /\ rd.n \in Nat
  BY <1>2 DEF ReadTypes
<1>4. /\ hist' \in Seq(Frames) /\ Len(hist') = Len(hist) + 1 /\ hist'[Len(hist')] = f
  BY <1>1, <1>2, Appended
<1>5. Len(hist') <= MaxRead + 2
  BY <1>2, <1>3, <1>4
<1>6. Answers(hist, Pings(hist), out)
  <2>1. Pings(hist) \ {} = Pings(hist)
    OBVIOUS
  <2> QED
    BY <1>2, <2>1 DEF FrInv, PongPerPing
<1>7. Pings(hist') \ {Len(hist')} = Pings(hist)
  BY <1>1, <1>2, <1>4, PingsMore
<1>8. Answers(hist', Pings(hist), out)
  BY <1>1, <1>2, <1>6, AnswersSame
<1> QED
  BY <1>1, <1>2, <1>3, <1>4, <1>5, <1>6, <1>7, <1>8

LEMMA StepReadMessage ==
    ASSUME FrInv, ReadMessage
    PROVE  FrInv'
<1> USE FramesAssumption
<1>1. rd'.pc = "read" /\ rd'.payload = <<>> /\ rd'.finOp = 0 /\ rd'.n = 0
      /\ hist' = <<>> /\ out' = <<>> /\ ret'.kind = "none"
  BY DEF ReadMessage, NoRet
<1>2. FrTypes'
  BY DEF ReadMessage, FrTypes, ReadTypes
<1>3. Collects(<<>>, <<>>) /\ LastType(<<>>, 0)
  BY DEF Collects, LastType, Continuation
<1>4. Reading'
  BY <1>1, <1>3 DEF Reading
<1>5. PongPerPing'
  <2>1. Pings(hist') \ {} = Pings(hist')
    OBVIOUS
  <2> QED
    BY <1>1, <2>1, NothingRead DEF PongPerPing
<1>6. Reassembled' /\ TypeOfMessage' /\ FrameBudget'
  BY <1>1 DEF Reassembled, TypeOfMessage, FrameBudget
<1> QED
  BY <1>2, <1>4, <1>5, <1>6 DEF FrInv

LEMMA StepReadFrameFails ==
    ASSUME FrInv, ReadFrameFails
    PROVE  FrInv'
<1>1. /\ rd.pc = "read" /\ hist' = hist /\ out' = out
      /\ Return("error", Continuation, rd.payload)
  BY DEF ReadFrameFails
<1>2. ret.kind = "none" /\ hist \in Seq(Frames) /\ out \in Seq(Seq(Segments))
      /\ Len(hist) <= MaxRead + 2
  BY <1>1 DEF FrInv, FrTypes, Reading, FrameBudget
<1>3. Answers(hist, Pings(hist), out)
  <2>1. Pings(hist) \ {} = Pings(hist)
    OBVIOUS
  <2> QED
    BY <1>2, <2>1 DEF FrInv, PongPerPing
<1>4. "error" # "data" /\ "error" # "write error"
  OBVIOUS
<1> QED
  BY <1>1, <1>2, <1>3, <1>4, CallReturns

\* A refused frame is no ping that should have been answered.
LEMMA StepRefuseFrame ==
    ASSUME FrInv, NEW f \in Frames, RefuseFrame(f)
    PROVE  FrInv'
<1>1. NextFrame(f) /\ out' = out
  BY DEF RefuseFrame
<1>2. PICK kind \in {"close", "error"} : \E op : Return(kind, op, rd.payload)
  BY DEF RefuseFrame
<1>3. ~(IsPing(f) /\ f.body <= BufSize)
  <2>1. CASE f.rsv
    BY <2>1, ReservedFrames DEF IsPing, TextMessage, PingMessage
  <2>2. CASE PayloadLen(f) > BufSize
    <3>1. ~(PayloadLen(f) <= BufSize)
      BY <2>2, FrameFacts, FramesAssumption
    <3> QED
      BY <3>1, Fits
  <2>3. CASE f.op \in {CloseMessage, Unknown}
    BY <2>3 DEF IsPing, CloseMessage, Unknown, PingMessage
  <2> QED
    BY <2>1, <2>2, <2>3 DEF RefuseFrame
<1>4. Pings(hist') = Pings(hist)
  BY <1>1, <1>3, OneMoreFrame, PingsMore
<1>5. Answers(hist', Pings(hist'), out')
  BY <1>1, <1>4, OneMoreFrame
<1>6. kind # "data" /\ kind # "write error"
  BY <1>2
<1>7. PICK op : Return(kind, op, rd.payload)
  BY <1>2
<1> QED
  BY <1>1, <1>5, <1>6, <1>7, OneMoreFrame, CallReturns

LEMMA StepPongFrame ==
    ASSUME FrInv, NEW f \in Frames, PongFrame(f)
    PROVE  FrInv'
<1>1. NextFrame(f) /\ Continue(rd, f.op) /\ out' = out
  BY DEF PongFrame
<1>2. ~IsPing(f) /\ ~IsData(f) /\ ~IsTyped(f)
  BY DEF PongFrame, IsPing, IsData, IsTyped, PongMessage, PingMessage, DataOps, Continuation,
         TextMessage, BinaryMessage
<1>3. Pings(hist') = Pings(hist)
  BY <1>1, <1>2, OneMoreFrame, PingsMore
<1>4. Collects(hist', rd.payload)
  BY <1>1, <1>2, OneMoreFrame, CollectsSame
<1>5. LastType(hist', rd.finOp)
  BY <1>1, <1>2, OneMoreFrame, LastTypeMore
<1> QED
  BY <1>1, <1>3, <1>4, <1>5, OneMoreFrame, CallContinues

LEMMA StepPingFrame ==
    ASSUME FrInv, NEW f \in Frames, PingFrame(f)
    PROVE  FrInv'
<1> DEFINE n == Len(hist) + 1
<1>1. NextFrame(f) /\ Accepted(f) /\ f.op = PingMessage
  BY DEF PingFrame
<1>2. IsPing(f) /\ ~IsData(f) /\ ~IsTyped(f)
  BY <1>1 DEF IsPing, IsData, IsTyped, PingMessage, DataOps, Continuation,
              TextMessage, BinaryMessage
<1>3. f.body <= BufSize
  BY <1>1, Fits DEF Accepted
<1>4. CASE /\ Continue(rd, f.op)
           /\ out' = Append(out, PartPayload(f, Len(hist) + 1))
  <2>1. PartPayload(f, Len(hist) + 1) = Sent(hist', n)
    BY <1>1, OneMoreFrame, PartIsSent
  <2>2. Sent(hist', n) \in Seq(Segments)
    BY <1>1, OneMoreFrame, SentFacts
  <2>3. out' \in Seq(Seq(Segments))
    BY <1>1, <1>4, <2>1, <2>2, OneMoreFrame
  <2>4. Pings(hist') = Pings(hist) \cup {n}
    BY <1>1, <1>2, <1>3, OneMoreFrame, PingsMore
  <2>5. Answers(hist', Pings(hist'), out')
    BY <1>1, <1>4, <2>1, <2>4, OneMoreFrame, AnswersMore
  <2>6. Collects(hist', rd.payload)
    BY <1>1, <1>2, OneMoreFrame, CollectsSame
  <2>7. LastType(hist', rd.finOp)
    BY <1>1, <1>2, OneMoreFrame, LastTypeMore
  <2> QED
    BY <1>1, <1>4, <2>3, <2>5, <2>6, <2>7, OneMoreFrame, CallContinues
<1>5. CASE Return("write error", f.op, rd.payload) /\ out' = out
  <2>1. Answers(hist', Pings(hist') \ {Len(hist')}, out')
    BY <1>1, <1>5, OneMoreFrame
  <2>2. "write error" # "data"
    OBVIOUS
  <2> QED
    BY <1>1, <1>5, <2>1, <2>2, OneMoreFrame, CallReturns
<1> QED
  BY <1>4, <1>5 DEF PingFrame

LEMMA StepDataFrame ==
    ASSUME FrInv, NEW f \in Frames, DataFrame(f)
    PROVE  FrInv'
<1> DEFINE part  == PartPayload(f, Len(hist) + 1)
           all   == rd.payload \o part
           finOp == IF f.op # Continuation THEN f.op ELSE rd.finOp
           r     == [rd EXCEPT !.payload = all, !.finOp = finOp]
<1>1. /\ NextFrame(f) /\ out' = out /\ IsData(f)
      /\ f.op \in DataOps
  BY DEF DataFrame, IsData
<1>2. ~IsPing(f) /\ (IsTyped(f) <=> f.op # Continuation)
  BY <1>1 DEF IsPing, IsData, IsTyped, PingMessage, DataOps, Continuation,
              TextMessage, BinaryMessage
<1>3. Answers(hist', Pings(hist'), out')
  <2>1. Pings(hist') = Pings(hist)
    BY <1>1, <1>2, OneMoreFrame, PingsMore
  <2> QED
    BY <1>1, <2>1, OneMoreFrame
<1>4. all \in Seq(Segments) /\ Collects(hist', all)
  <2>1. part = Sent(hist', Len(hist) + 1)
    BY <1>1, OneMoreFrame, PartIsSent
  <2> QED
    BY <1>1, <2>1, OneMoreFrame, CollectsMore
<1>5. LastType(hist', finOp)
  <2>1. LastType(hist', IF IsTyped(f) THEN f.op ELSE rd.finOp)
    BY <1>1, OneMoreFrame, LastTypeMore
  <2> QED
    BY <1>2, <2>1
<1>6. finOp \in Nat
  BY <1>1, OneMoreFrame DEF DataOps, Continuation, TextMessage, BinaryMessage
<1>7. CASE /\ f.fin /\ rd.payload = <<>>
           /\ Return("data", f.op, part)
  <2>1. part \in Seq(Segments)
    <3>1. part = Sent(hist', Len(hist) + 1)
      BY <1>1, OneMoreFrame, PartIsSent
    <3> QED
      BY <1>1, <3>1, OneMoreFrame, SentFacts
  <2>2. Collects(hist', part)
    <3>1. all = part
      BY <1>7, <2>1, ConcatEmptySeq
    <3> QED
      BY <1>4, <3>1
  <2>3. TypeOfMessage'
    <3>1. ret'.op = f.op
      BY <1>7 DEF Return
    <3>2. hist'[Len(hist')].op = f.op
      BY <1>1, OneMoreFrame
    <3>3. CASE f.op = Continuation
      <4>1. \A i \in 1 .. Len(hist') - 1 : IsData(hist'[i]) => hist'[i].body = 0
        <5>1. Collects(hist, <<>>)
          BY <1>1, <1>7, OneMoreFrame
        <5>2. \A i \in DOMAIN hist : IsData(hist[i]) => hist[i].body = 0
          BY <5>1 DEF Collects
        <5>3. /\ DOMAIN hist = 1 .. Len(hist) /\ \A i \in 1 .. Len(hist) : hist'[i] = hist[i]
              /\ Len(hist') - 1 = Len(hist)
          BY <1>1, OneMoreFrame, Appended
        <5> QED
          BY <5>2, <5>3
      <4> QED
        BY <3>1, <3>2, <3>3, <4>1 DEF TypeOfMessage
    <3>4. CASE f.op # Continuation
      BY <1>5, <3>1, <3>2, <3>4 DEF TypeOfMessage
    <3> QED
      BY <3>3, <3>4
  <2>4. "data" # "write error"
    OBVIOUS
  <2> QED
    BY <1>1, <1>3, <1>7, <2>2, <2>3, <2>4, OneMoreFrame, CallReturns
<1>8. CASE /\ f.fin /\ rd.payload # <<>>
           /\ Return("data", finOp, all)
  <2>1. TypeOfMessage'
    <3>1. ret'.op = finOp
      BY <1>8 DEF Return
    <3>2. rd.payload \in Seq(Segments) /\ Collects(hist, rd.payload)
      BY <1>1, OneMoreFrame
    <3>3. 1 \in DOMAIN rd.payload
      BY <1>8, <3>2
    <3>4. PICK i \in DOMAIN hist : IsData(hist[i]) /\ hist[i].body # 0
      BY <3>2, <3>3 DEF Collects
    <3>5. i \in 1 .. Len(hist') - 1 /\ hist'[i] = hist[i]
      BY <1>1, OneMoreFrame, Appended
    <3> HIDE DEF finOp
    <3> QED
      BY <1>5, <3>1, <3>4, <3>5 DEF TypeOfMessage
  <2>2. "data" # "write error"
    OBVIOUS
  <2> QED
    BY <1>1, <1>3, <1>4, <1>8, <2>1, <2>2, OneMoreFrame, CallReturns
<1>9. CASE Continue(r, f.op)
  <2>1. r \in ReadTypes /\ r.pc = "read" /\ r.n = rd.n /\ r.payload = all /\ r.finOp = finOp
    <3>1. rd \in ReadTypes /\ rd.pc = "read"
      BY <1>1, OneMoreFrame
    <3> HIDE DEF all, finOp
    <3> QED
      BY <1>4, <1>6, <3>1 DEF ReadTypes
  <2> HIDE DEF r, all, finOp
  <2> QED
    BY <1>1, <1>3, <1>4, <1>5, <1>9, <2>1, OneMoreFrame, CallContinues
<1>10. \/ /\ f.fin /\ rd.payload = <<>>
          /\ Return("data", f.op, part)
       \/ /\ f.fin /\ rd.payload # <<>>
          /\ Return("data", finOp, all)
       \/ Continue(r, f.op)
  BY Zenon DEF DataFrame
<1> QED
  BY <1>7, <1>8, <1>9, <1>10

LEMMA FramesInductive == FrInv /\ [FrNext]_frameVars => FrInv'
<1> SUFFICES ASSUME FrInv, [FrNext]_frameVars PROVE FrInv'
  OBVIOUS
<1>1. CASE ReadMessage
  BY <1>1, StepReadMessage
<1>2. CASE ReadFrameFails
  BY <1>2, StepReadFrameFails
<1>3. ASSUME NEW f \in Frames,
             RefuseFrame(f) \/ DataFrame(f) \/ PingFrame(f) \/ PongFrame(f)
      PROVE  FrInv'
  BY <1>3, StepRefuseFrame, StepDataFrame, StepPingFrame, StepPongFrame
<1>4. CASE UNCHANGED frameVars
  BY <1>4 DEF frameVars, FrInv, FrTypes, Reading, Reassembled, TypeOfMessage, PongPerPing,
              FrameBudget
<1> QED
  BY <1>1, <1>2, <1>3, <1>4 DEF FrNext

LEMMA FramesInvariant == FrSpec => []FrInv
BY FramesInitially, FramesInductive, PTL DEF FrSpec

\* ReadMessage returns the unmasked bodies of the data frames it read, whole,
\* once and in order, for every bound, buffer size, set of lengths and set of
\* mask keys: conn.go:80-110, 142-156, 206-245.
THEOREM MessagesReassembled == FrSpec => []Reassembled
BY FramesInvariant, PTL DEF FrInv

\* A message has the type its sender gave it, but for a final continuation
\* behind fragments without data: conn.go:142-156.
THEOREM MessagesTyped == FrSpec => []TypeOfMessage
BY FramesInvariant, PTL DEF FrInv

\* Every ping is answered once, in order and with its own data, unless the
\* writer failed: conn.go:157-161.
THEOREM PingsAnswered == FrSpec => []PongPerPing
BY FramesInvariant, PTL DEF FrInv

\* No call reads more than MaxRead + 2 frames, whatever the peer sends:
\* conn.go:172-176.
THEOREM CallsBounded == FrSpec => []FrameBudget
BY FramesInvariant, PTL DEF FrInv

--------------------------------------------------------------------------------
(* Sizes of chunks.                                                         *)

LEMMA SmallestNumber ==
    ASSUME NEW T, T \subseteq Nat, T # {}
    PROVE  \E x \in T : \A y \in T : x <= y
<1> DEFINE R == OpToRel(<, Nat)
<1>1. IsWellFoundedOn(R, Nat)
  BY NatLessThanWellFounded
<1>2. \A x, y \in Nat : x < y => <<x, y>> \in R
  BY DEF OpToRel
<1> HIDE DEF R
<1>3. PICK x \in T : \A y \in T : ~(<<y, x>> \in R)
  BY <1>1, WFMin
<1>4. ASSUME NEW y \in T PROVE x <= y
  <2>1. x \in Nat /\ y \in Nat /\ ~(y < x)
    BY <1>2, <1>3
  <2> QED
    BY <2>1
<1> QED
  BY <1>4

LEMMA MinFacts ==
    ASSUME NEW T, T \subseteq Nat, T # {}
    PROVE  Min(T) \in T /\ \A y \in T : Min(T) <= y
BY SmallestNumber DEF Min

LEMMA MaxFacts ==
    ASSUME NEW m \in Nat, NEW T, T \subseteq 0 .. m, T # {}
    PROVE  Max(T) \in T /\ \A y \in T : y <= Max(T)
<1> DEFINE U == {m - x : x \in T}
<1>0. \A x \in T : x \in Int /\ 0 <= x /\ x <= m
  <2>1. \A x \in T : x \in 0 .. m
    OBVIOUS
  <2> QED
    BY <2>1
<1>1. U \subseteq Nat /\ U # {}
  <2>1. \A x \in T : m - x \in Nat
    BY <1>0
  <2> QED
    BY <2>1
<1>2. PICK u \in U : \A y \in U : u <= y
  BY <1>1, SmallestNumber
<1>3. PICK x \in T : u = m - x
  BY <1>2
<1>4. \A y \in T : x >= y
  <2>1. \A y \in T : m - x <= m - y
    BY <1>2, <1>3
  <2> QED
    BY <1>0, <2>1
<1>5. Max(T) \in T /\ \A y \in T : Max(T) >= y
  BY <1>4 DEF Max
<1> QED
  BY <1>0, <1>5

\* The value of digits is a number: the recursion is well defined.
LEMMA ValueSteps ==
    ASSUME NEW ds \in Seq(Nat)
    PROVE  \E v \in [0 .. Len(ds) -> Nat] :
              /\ v[0] = 0 /\ \A i \in 1 .. Len(ds) : v[i] = v[i - 1] * Base + ds[i]
              /\ Value(ds) = v[Len(ds)]
<1> DEFINE L == Len(ds)
           Next(g, i) == IF i = 0 THEN 0 ELSE g[i - 1] * Base + ds[i]
           Good(n) == \E g \in [0 .. n -> Nat] : \A i \in 0 .. n : g[i] = Next(g, i)
           v[i \in 0 .. L] == IF i = 0 THEN 0 ELSE v[i - 1] * Base + ds[i]
<1>1. L \in Nat /\ Base \in Nat /\ \A i \in 1 .. L : ds[i] \in Nat
  BY ChunkedAssumption
<1>a. \A x, d \in Nat : x * Base + d \in Nat
  BY <1>1
<1>2. Good(L)
  <2> DEFINE T == {n \in 0 .. L : ~Good(n)}
  <2>0. L \in 0 .. L /\ T \subseteq Nat
    BY <1>1
  <2> HIDE DEF Good
  <2>1. SUFFICES ASSUME T # {} PROVE FALSE
    BY <2>0
  <2> HIDE DEF T
  <2>2. PICK x \in T : \A y \in T : x <= y
    BY <2>0, <2>1, SmallestNumber
  <2> USE DEF T
  <2>3. CASE x = 0
    <3> DEFINE g == [i \in 0 .. 0 |-> 0]
    <3>1. g \in [0 .. 0 -> Nat] /\ \A i \in 0 .. 0 : g[i] = Next(g, i)
      OBVIOUS
    <3>2. Good(0)
      BY <3>1 DEF Good
    <3> QED
      BY <2>2, <2>3, <3>2
  <2>4. CASE x # 0
    <3>1. x - 1 \in 0 .. L /\ x \in 1 .. L /\ ~(x <= x - 1)
      BY <1>1, <2>2, <2>4
    <3>2. Good(x - 1)
      BY <2>2, <3>1
    <3>3. PICK g \in [0 .. x - 1 -> Nat] : \A i \in 0 .. x - 1 : g[i] = Next(g, i)
      BY <3>2 DEF Good
    <3> DEFINE e == g[x - 1] * Base + ds[x]
               h == [i \in 0 .. x |-> IF i = x THEN e ELSE g[i]]
    <3>4. e \in Nat
      BY <1>1, <1>a, <3>1, <3>3
    <3> HIDE DEF e
    <3>5. h \in [0 .. x -> Nat]
      BY <3>1, <3>3, <3>4
    <3>6. ASSUME NEW i \in 0 .. x PROVE h[i] = Next(h, i)
      <4>1. CASE i = x
        BY <3>1, <4>1 DEF e
      <4>2. CASE i # x
        <5>1. i \in 0 .. x - 1 /\ h[i] = g[i] /\ (i # 0 => h[i - 1] = g[i - 1])
          BY <3>1, <4>2
        <5> HIDE DEF h
        <5> QED
          BY <3>3, <5>1
      <4> QED
        BY <4>1, <4>2
    <3>7. Good(x)
      BY <3>5, <3>6 DEF Good
    <3> QED
      BY <2>2, <3>7
  <2> QED
    BY <2>3, <2>4
<1>3. PICK g \in [0 .. L -> Nat] : \A i \in 0 .. L : g[i] = Next(g, i)
  BY <1>2 DEF Good
<1>4. g = [i \in 0 .. L |-> IF i = 0 THEN 0 ELSE g[i - 1] * Base + ds[i]]
  BY <1>3
<1>5. v = [i \in 0 .. L |-> IF i = 0 THEN 0 ELSE v[i - 1] * Base + ds[i]]
  BY <1>4, Zenon
<1>6. Value(ds) = v[L]
  BY Zenon DEF Value
<1> HIDE DEF v
<1>7. \A n \in 0 .. L : v[n] \in Nat
  <2> DEFINE T == {n \in 0 .. L : v[n] \notin Nat}
  <2>0. T \subseteq Nat
    BY <1>1
  <2>1. SUFFICES ASSUME T # {} PROVE FALSE
    OBVIOUS
  <2> HIDE DEF T
  <2>2. PICK x \in T : \A y \in T : x <= y
    BY <2>0, <2>1, SmallestNumber
  <2> USE DEF T
  <2>3. v[x] = IF x = 0 THEN 0 ELSE v[x - 1] * Base + ds[x]
    BY <1>5, <2>2
  <2>4. CASE x = 0
    BY <2>2, <2>3, <2>4
  <2>5. CASE x # 0
    <3>1. x - 1 \in 0 .. L /\ x \in 1 .. L /\ ~(x <= x - 1)
      BY <1>1, <2>2, <2>5
    <3>2. v[x - 1] \in Nat
      BY <2>2, <3>1
    <3> QED
      BY <1>1, <1>a, <2>2, <2>3, <2>5, <3>1, <3>2
  <2> QED
    BY <2>4, <2>5
<1>8. v \in [0 .. L -> Nat]
  <2>1. v = [i \in 0 .. L |-> v[i]]
    BY <1>5
  <2> QED
    BY <1>7, <2>1
<1>9. v[0] = 0 /\ \A i \in 1 .. L : v[i] = v[i - 1] * Base + ds[i]
  <2>1. \A i \in 0 .. L : v[i] = IF i = 0 THEN 0 ELSE v[i - 1] * Base + ds[i]
    BY <1>5
  <2>2. 0 \in 0 .. L /\ \A i \in 1 .. L : i \in 0 .. L /\ i # 0
    BY <1>1
  <2> QED
    BY <2>1, <2>2
<1> QED
  BY <1>6, <1>8, <1>9

LEMMA ValueFacts ==
    ASSUME NEW ds \in Seq(Nat)
    PROVE  Value(ds) \in Nat
<1>1. PICK v \in [0 .. Len(ds) -> Nat] : Value(ds) = v[Len(ds)]
  BY ValueSteps
<1>2. Len(ds) \in 0 .. Len(ds)
  OBVIOUS
<1> QED
  BY <1>1, <1>2

\* Digits digits fit the width of a size.
LEMMA SizesFit ==
    ASSUME NEW ds \in Seq(0 .. Base - 1), Len(ds) <= Digits
    PROVE  Value(ds) < Wide
<1> DEFINE L == Len(ds)
           D == Digits + 1
           one == [i \in 1 .. D |-> IF i = 1 THEN 1 ELSE 0]
<1>1. Base \in Nat /\ Base >= 2 /\ Digits \in Nat /\ D \in Nat /\ L \in Nat /\ L + 1 <= D
  BY ChunkedAssumption
<1>2. ds \in Seq(Nat) /\ \A i \in 1 .. L : ds[i] \in Nat /\ ds[i] < Base
  BY <1>1
<1>3. one \in Seq(Nat) /\ Len(one) = D /\ Wide = Value(one)
  BY <1>1, WidthAssumption
<1>4. PICK v \in [0 .. L -> Nat] :
        /\ v[0] = 0 /\ \A i \in 1 .. L : v[i] = v[i - 1] * Base + ds[i]
        /\ Value(ds) = v[L]
  BY <1>2, ValueSteps
<1>5. PICK u \in [0 .. D -> Nat] :
        /\ u[0] = 0 /\ \A i \in 1 .. D : u[i] = u[i - 1] * Base + one[i]
        /\ Wide = u[D]
  <2>1. PICK u \in [0 .. Len(one) -> Nat] :
        /\ u[0] = 0 /\ \A i \in 1 .. Len(one) : u[i] = u[i - 1] * Base + one[i]
        /\ Value(one) = u[Len(one)]
    BY <1>3, ValueSteps
  <2> HIDE DEF one
  <2> QED
    BY <1>3, <2>1
<1>6. u[1] = 1 /\ \A i \in 2 .. D : u[i] = u[i - 1] * Base
  <2>1. 1 \in 1 .. D /\ one[1] = 1 /\ u[1] = u[0] * Base + one[1]
    BY <1>1, <1>5
  <2>2. \A i \in 2 .. D : i \in 1 .. D /\ one[i] = 0 /\ u[i - 1] \in Nat
    <3>1. \A i \in 2 .. D : i \in 1 .. D /\ i # 1 /\ i - 1 \in 0 .. D
      BY <1>1
    <3>2. \A i \in 2 .. D : one[i] = 0
      BY <3>1
    <3> HIDE DEF one, D
    <3> QED
      BY <1>5, <3>1, <3>2
  <2> HIDE DEF one
  <2>3. \A x \in Nat : x * Base \in Nat /\ x * Base + 0 = x * Base /\ 0 * Base + 1 = 1
    BY <1>1
  <2> QED
    BY <1>5, <2>1, <2>2, <2>3
<1> HIDE DEF one, L, D
<1>7. \A a, b, d \in Nat : a < b /\ d < Base => a * Base + d < b * Base
  <2> SUFFICES ASSUME NEW a \in Nat, NEW b \in Nat, NEW d \in Nat, a < b, d < Base
               PROVE  a * Base + d < b * Base
    OBVIOUS
  <2> DEFINE c == b - a - 1
  <2>1. c \in Nat /\ b = a + 1 + c
    OBVIOUS
  <2> HIDE DEF c
  <2>2. b * Base = a * Base + Base + c * Base
    BY <1>1, <2>1
  <2>3. c * Base \in Nat /\ a * Base \in Nat
    BY <1>1, <2>1
  <2> QED
    BY <1>1, <2>2, <2>3
<1>8. \A i \in 0 .. L : v[i] < u[i + 1]
  <2> DEFINE T == {i \in 0 .. L : ~(v[i] < u[i + 1])}
  <2>0. T \subseteq Nat
    BY <1>1
  <2>1. SUFFICES ASSUME T # {} PROVE FALSE
    OBVIOUS
  <2> HIDE DEF T
  <2>2. PICK x \in T : \A y \in T : x <= y
    BY <2>0, <2>1, SmallestNumber
  <2> USE DEF T
  <2>3. x \in 0 .. L /\ ~(v[x] < u[x + 1])
    BY <2>2
  <2>4. x # 0
    BY <1>4, <1>6, <2>3
  <2>5. x - 1 \in 0 .. L /\ x \in 1 .. L /\ ~(x <= x - 1) /\ (x - 1) + 1 = x
        /\ x + 1 \in 2 .. D /\ (x + 1) - 1 = x /\ x \in 0 .. D
    BY <1>1, <2>3, <2>4
  <2>6. v[x - 1] < u[x]
    BY <2>2, <2>5
  <2>7. v[x] = v[x - 1] * Base + ds[x] /\ u[x + 1] = u[x] * Base
    BY <1>4, <1>6, <2>5
  <2>8. v[x - 1] \in Nat /\ u[x] \in Nat /\ ds[x] \in Nat /\ ds[x] < Base
    BY <1>2, <1>4, <1>5, <2>5 DEF L
  <2> QED
    BY <1>7, <2>3, <2>6, <2>7, <2>8
<1>9. \A i \in 1 .. D : u[L + 1] <= u[i] \/ i <= L
  <2> DEFINE T == {i \in 1 .. D : ~(u[L + 1] <= u[i] \/ i <= L)}
  <2>0. T \subseteq Nat
    BY <1>1
  <2>1. SUFFICES ASSUME T # {} PROVE FALSE
    OBVIOUS
  <2> HIDE DEF T
  <2>2. PICK x \in T : \A y \in T : x <= y
    BY <2>0, <2>1, SmallestNumber
  <2> USE DEF T
  <2>3. x \in 1 .. D /\ ~(u[L + 1] <= u[x]) /\ ~(x <= L)
    BY <2>2
  <2>a. L + 1 \in 0 .. D /\ u[L + 1] \in Nat
    BY <1>1, <1>5
  <2>4. x # L + 1
    BY <2>3, <2>a
  <2>5. x - 1 \in 1 .. D /\ x \in 2 .. D /\ ~(x <= x - 1) /\ ~(x - 1 <= L) /\ x - 1 \in 0 .. D
    BY <1>1, <2>3, <2>4
  <2>6. u[L + 1] <= u[x - 1]
    BY <2>2, <2>5
  <2>7. u[x] = u[x - 1] * Base /\ u[x - 1] \in Nat
    BY <1>5, <1>6, <2>5
  <2>8. \A a \in Nat : a <= a * Base /\ a * Base \in Nat
    <3> SUFFICES ASSUME NEW a \in Nat PROVE a <= a * Base /\ a * Base \in Nat
      OBVIOUS
    <3>1. a * Base = a + a * (Base - 1) /\ a * (Base - 1) \in Nat
      BY <1>1
    <3> QED
      BY <3>1
  <2>9. u[x - 1] <= u[x] /\ u[x] \in Nat
    BY <2>7, <2>8
  <2> QED
    BY <2>3, <2>a, <2>6, <2>7, <2>9
<1>10. L \in 0 .. L /\ D \in 1 .. D /\ ~(D <= L) /\ L + 1 \in 0 .. D /\ D \in 0 .. D
  BY <1>1
<1>11. Value(ds) < u[L + 1] /\ u[L + 1] <= Wide
  BY <1>4, <1>5, <1>8, <1>9, <1>10
<1>12. Value(ds) \in Nat /\ u[L + 1] \in Nat /\ Wide \in Nat
  BY <1>4, <1>5, <1>10
<1> QED
  BY <1>11, <1>12

\* "%x" gives digits, and so does a foreign size line.
LEMMA LineTypes ==
    ASSUME NEW line \in SizeLines
    PROVE  line[1] \in Seq(Nat) /\ line[2] \in Seq(Octets)
<1>1. Base \in Nat /\ 0 .. Base - 1 \subseteq Nat /\ Digits \in Nat
  BY ChunkedAssumption
<1>2. CASE line \in ForeignSizes
  <2>1. line[1] \in Seq(0 .. Base - 1) /\ line[2] \in Seq(Octets)
    BY <1>2, ChunkedAssumption
  <2> QED
    BY <1>1, <2>1
<1>3. CASE line \in Hex \X {<<>>}
  <2>1. line[1] \in Hex /\ line[2] = <<>>
    BY <1>3
  <2>2. PICK l \in 1 .. Digits : line[1] \in [1 .. l -> 0 .. Base - 1]
    BY <2>1 DEF Hex
  <2>3. line[1] \in Seq(Nat)
    BY <1>1, <2>2
  <2> QED
    BY <2>1, <2>3
<1> QED
  BY <1>2, <1>3 DEF SizeLines

LEMMA OctetTypes ==
    /\ CR \in Octets /\ LF \in Octets /\ CRLF \in Seq(Octets)
    /\ \A i \in Nat : Data(i) \in Octets /\ Digit(i) \in Octets
BY DEF CR, LF, CRLF, Data, Digit, Octets

LEMMA FunctionIsSequence ==
    ASSUME NEW n \in Nat, NEW f \in [1 .. n -> Octets]
    PROVE  f \in Seq(Octets)
OBVIOUS

LEMMA AsDigitsType ==
    ASSUME NEW ds \in Seq(Nat)
    PROVE  AsDigits(ds) \in Seq(Octets)
<1>1. Len(ds) \in Nat /\ DOMAIN ds = 1 .. Len(ds) /\ \A i \in 1 .. Len(ds) : ds[i] \in Nat
  OBVIOUS
<1>2. AsDigits(ds) \in [1 .. Len(ds) -> Octets]
  BY <1>1, OctetTypes DEF AsDigits
<1> QED
  BY <1>1, <1>2

\* What is written is bytes, whole or in part.
LEMMA EmitType ==
    ASSUME wire \in Seq(Octets), NEW bytes \in Seq(Octets), Emit(bytes)
    PROVE  wire' \in Seq(Octets)
<1>1. CASE wire' = wire \o bytes
  BY <1>1
<1>2. ASSUME NEW k \in 0 .. Len(bytes) - 1, wire' = wire \o SubSeq(bytes, 1, k)
      PROVE  wire' \in Seq(Octets)
  <2>1. SubSeq(bytes, 1, k) \in Seq(Octets)
    OBVIOUS
  <2> QED
    BY <1>2, <2>1
<1> QED
  BY <1>1, <1>2 DEF Emit

LEMMA LineFacts ==
    ASSUME NEW b \in Seq(Octets), HasLine(b)
    PROVE  /\ LineEnd(b) \in 1 .. Len(b) /\ b[LineEnd(b)] = LF
           /\ \A i \in 1 .. Len(b) : b[i] = LF => LineEnd(b) <= i
<1> DEFINE T == {i \in DOMAIN b : b[i] = LF}
<1>1. DOMAIN b = 1 .. Len(b) /\ Len(b) \in Nat
  OBVIOUS
<1>2. T \subseteq Nat
  BY <1>1
<1>3. T # {}
  BY DEF HasLine
<1>4. Min(T) \in T /\ \A y \in T : Min(T) <= y
  BY <1>2, <1>3, MinFacts
<1> QED
  BY <1>1, <1>4 DEF LineEnd

LEMMA SizeOfType ==
    ASSUME NEW line \in Seq(Octets)
    PROVE  SizeOf(line) \in Seq(Octets)
<1>1. ASSUME NEW p \in Seq(Octets) PROVE RemoveChunkExtension(p) \in Seq(Octets)
  <2> DEFINE T == {i \in DOMAIN p : p[i] = Semi}
  <2>0. DOMAIN p = 1 .. Len(p) /\ Len(p) \in Nat
    OBVIOUS
  <2>1. CASE T = {}
    BY <2>1 DEF RemoveChunkExtension
  <2>2. CASE T # {}
    <3>1. T \subseteq Nat
      BY <2>0
    <3>2. Min(T) \in T
      BY <2>2, <3>1, MinFacts
    <3>3. Min(T) \in 1 .. Len(p)
      BY <2>0, <3>2
    <3> DEFINE m == Min(T) - 1
    <3>4. m \in 0 .. Len(p)
      BY <2>0, <3>3
    <3>5. RemoveChunkExtension(p) = SubSeq(p, 1, m)
      BY <2>2 DEF RemoveChunkExtension
    <3> HIDE DEF m, T
    <3> QED
      BY <3>4, <3>5
  <2> QED
    BY <2>1, <2>2
<1>2. TrimTrailingWhitespace(line) \in Seq(Octets)
  <2> DEFINE T == {0} \cup {i \in DOMAIN line : line[i] \notin {CR, LF}}
             m == Max(T)
  <2>0. DOMAIN line = 1 .. Len(line) /\ Len(line) \in Nat
    OBVIOUS
  <2>1. T \subseteq 0 .. Len(line) /\ T # {}
    BY <2>0
  <2>2. m \in 0 .. Len(line)
    BY <2>0, <2>1, MaxFacts
  <2>3. TrimTrailingWhitespace(line) = SubSeq(line, 1, m)
    BY DEF TrimTrailingWhitespace
  <2> HIDE DEF m
  <2> QED
    BY <2>2, <2>3
<1> QED
  BY <1>1, <1>2 DEF SizeOf

LEMMA SizeType ==
    ASSUME NEW bs \in Seq(Octets)
    PROVE  ParseHexUint(bs).n \in Nat
<1>1. CASE ~(AllDigits(bs) /\ Len(bs) <= Digits)
  BY <1>1 DEF ParseHexUint
<1>2. CASE AllDigits(bs) /\ Len(bs) <= Digits
  <2>1. ParseHexUint(bs).n = ValueOf(bs) % Wide
    BY <1>2 DEF ParseHexUint
  <2> DEFINE vs == [i \in DOMAIN bs |-> bs[i].v]
  <2>2. vs \in Seq(Nat)
    <3>1. DOMAIN bs = 1 .. Len(bs) /\ Len(bs) \in Nat /\ \A i \in 1 .. Len(bs) : bs[i].v \in Nat
      <4>1. DOMAIN bs = 1 .. Len(bs) /\ Len(bs) \in Nat /\ \A i \in 1 .. Len(bs) : bs[i] \in Octets
        OBVIOUS
      <4>2. \A o \in Octets : o.v \in Nat
        BY DEF Octets
      <4> QED
        BY <4>1, <4>2
    <3> QED
      BY <3>1
  <2>3. ValueOf(bs) \in Nat
    BY <2>2, ValueFacts DEF ValueOf
  <2>4. Wide \in Nat \ {0}
    BY ChunkedAssumption
  <2> QED
    BY <2>1, <2>3, <2>4
<1> QED
  BY <1>1, <1>2

--------------------------------------------------------------------------------
(* A Read that has data in hand waits in the middle of a chunk only.        *)

WriterTypes == [step : {"idle", "data", "footer"}, left : Nat]
Errors == {"nil", "EOF", "unexpected EOF", "malformed", "line too long"}
ReaderTypes == [n : Nat, err : Errors, checkEnd : BOOLEAN]
CallTypes == [pc : {"idle", "loop", "footer", "line", "data"}, room : Nat, n : Nat]

ChTypes ==
    /\ wire \in Seq(Octets) /\ buf \in Seq(Octets)
    /\ put \in Nat
    /\ cw \in WriterTypes /\ cw.left <= put
    /\ cr \in ReaderTypes
    /\ rcall \in CallTypes

\* The step a Read with data has begun is one the buffer can serve.
Served ==
    rcall.n > 0 =>
        /\ rcall.pc = "footer" => Len(buf) >= 2
        /\ rcall.pc = "line" => HasLine(buf)

ChInv == ChTypes /\ Served

LEMMA CallEdits ==
    ASSUME NEW c \in CallTypes, NEW pc \in {"idle", "loop", "footer", "line", "data"}
    PROVE  /\ [c EXCEPT !.pc = pc] \in CallTypes
           /\ [c EXCEPT !.pc = pc].pc = pc /\ [c EXCEPT !.pc = pc].n = c.n
BY DEF CallTypes

LEMMA ReaderEdits ==
    ASSUME NEW c \in ReaderTypes
    PROVE  /\ \A e \in Errors : [c EXCEPT !.err = e] \in ReaderTypes
           /\ \A m \in Nat, e \in Errors : [c EXCEPT !.n = m, !.err = e] \in ReaderTypes
           /\ \A b \in BOOLEAN : [c EXCEPT !.checkEnd = b] \in ReaderTypes
           /\ \A m \in Nat, b \in BOOLEAN : [c EXCEPT !.n = m, !.checkEnd = b] \in ReaderTypes
<1>1. \A e \in Errors : [c EXCEPT !.err = e] \in ReaderTypes
  BY DEF ReaderTypes
<1>2. \A m \in Nat, e \in Errors : [c EXCEPT !.n = m, !.err = e] \in ReaderTypes
  BY DEF ReaderTypes
<1>3. \A b \in BOOLEAN : [c EXCEPT !.checkEnd = b] \in ReaderTypes
  BY DEF ReaderTypes
<1>4. \A m \in Nat, b \in BOOLEAN : [c EXCEPT !.n = m, !.checkEnd = b] \in ReaderTypes
  BY DEF ReaderTypes
<1> QED
  BY <1>1, <1>2, <1>3, <1>4, Zenon

\* What the types say of the parts of the state.
LEMMA Parts ==
    ASSUME ChInv
    PROVE  /\ wire \in Seq(Octets) /\ buf \in Seq(Octets) /\ Len(buf) \in Nat /\ put \in Nat
           /\ cw \in WriterTypes /\ cw.left \in Nat /\ cw.left <= put
           /\ cr \in ReaderTypes /\ cr.n \in Nat
           /\ rcall \in CallTypes /\ rcall.n \in Nat /\ rcall.room \in Nat
<1>1. /\ wire \in Seq(Octets) /\ buf \in Seq(Octets) /\ put \in Nat
      /\ cw \in WriterTypes /\ cw.left <= put /\ cr \in ReaderTypes /\ rcall \in CallTypes
  BY DEF ChInv, ChTypes
<1>2. Len(buf) \in Nat
  BY <1>1
<1>3. cw.left \in Nat
  BY <1>1 DEF WriterTypes
<1>4. cr.n \in Nat
  BY <1>1 DEF ReaderTypes
<1>5. rcall.n \in Nat /\ rcall.room \in Nat
  BY <1>1 DEF CallTypes
<1> QED
  BY <1>1, <1>2, <1>3, <1>4, <1>5

LEMMA ServedIsPrompt == ChInv => PromptRead
BY DEF ChInv, Served, PromptRead, Waiting, Ready

LEMMA ChunksInitially == ChInit => ChInv
<1> SUFFICES ASSUME ChInit PROVE ChInv
  OBVIOUS
<1>1. wire = <<>> /\ buf = <<>> /\ put = 0
  BY DEF ChInit
<1>2. cw \in WriterTypes /\ cw.left = 0
  BY DEF ChInit, WriterTypes
<1>3. cr \in ReaderTypes
  <2>1. cr = [n |-> 0, err |-> "nil", checkEnd |-> FALSE]
    BY DEF ChInit
  <2> QED
    BY <2>1 DEF ReaderTypes, Errors
<1>4. rcall \in CallTypes /\ rcall.pc = "idle"
  BY DEF ChInit, CallTypes
<1>5. <<>> \in Seq(Octets)
  OBVIOUS
<1> QED
  BY <1>1, <1>2, <1>3, <1>4, <1>5 DEF ChInv, ChTypes, Served

\* A step of the sender leaves the reader and its buffer alone.
LEMMA SenderKeeps ==
    ASSUME ChInv, buf' = buf, cr' = cr, rcall' = rcall,
           wire' \in Seq(Octets), put' \in Nat, cw' \in WriterTypes, cw'.left <= put'
    PROVE  ChInv'
BY DEF ChInv, ChTypes, Served, HasLine

LEMMA StepWriteSize ==
    ASSUME ChInv, NEW line \in SizeLines, WriteSize(line[1], line[2])
    PROVE  ChInv'
<1> DEFINE v == Value(line[1])
<1>1. line[1] \in Seq(Nat) /\ line[2] \in Seq(Octets)
  BY LineTypes
<1>2. AsDigits(line[1]) \o line[2] \o CRLF \in Seq(Octets)
  BY <1>1, AsDigitsType, OctetTypes
<1>3. wire \in Seq(Octets) /\ put \in Nat
  BY Parts
<1>4. wire' \in Seq(Octets)
  BY <1>2, <1>3, EmitType DEF WriteSize
<1>5. MaxData \in Nat
  BY ChunkedAssumption
<1>6. /\ v \in 1 .. MaxData - put /\ put' = put + v /\ cw' = [step |-> "data", left |-> v]
      /\ buf' = buf /\ cr' = cr /\ rcall' = rcall
  BY DEF WriteSize
<1> HIDE DEF v
<1>7. v \in Nat /\ put' \in Nat /\ v <= put'
  BY <1>3, <1>5, <1>6
<1>8. cw' \in WriterTypes /\ cw'.left <= put'
  BY <1>6, <1>7 DEF WriterTypes
<1> QED
  BY <1>4, <1>6, <1>7, <1>8, SenderKeeps

LEMMA StepSender ==
    ASSUME ChInv,
           \/ WriteData \/ WriteFooter \/ Hangup
           \/ \E ds \in {<< 0 >>, <<0, 0>>, <<>>} : WriteEnd(ds)
    PROVE  ChInv'
<1>1. buf' = buf /\ cr' = cr /\ rcall' = rcall /\ put' = put
  BY DEF WriteData, WriteFooter, Hangup, WriteEnd
<1>2. wire \in Seq(Octets) /\ put \in Nat /\ cw \in WriterTypes /\ cw.left \in Nat /\ cw.left <= put
  BY Parts
<1>3. cw' \in WriterTypes /\ cw'.left <= put
  <2>1. CASE cw' = cw
    BY <1>2, <2>1
  <2>2. CASE cw' = [step |-> "footer", left |-> 0]
    BY <1>2, <2>2 DEF WriterTypes
  <2>3. CASE cw' = [step |-> "idle", left |-> 0]
    BY <1>2, <2>3 DEF WriterTypes
  <2> QED
    BY <2>1, <2>2, <2>3 DEF WriteData, WriteFooter, Hangup, WriteEnd
<1>4. wire' \in Seq(Octets)
  <2>1. CASE Hangup
    BY <1>2, <2>1 DEF Hangup
  <2>2. CASE WriteData
    <3> DEFINE bs == [i \in 1 .. cw.left |-> Data(put - cw.left + i)]
    <3>1. \A i \in 1 .. cw.left : put - cw.left + i \in Nat
      BY <1>2
    <3>2. bs \in [1 .. cw.left -> Octets]
      BY <3>1, OctetTypes
    <3>4. Emit(bs)
      BY <2>2 DEF WriteData
    <3> HIDE DEF bs
    <3>3. bs \in Seq(Octets)
      BY <1>2, <3>2, FunctionIsSequence, Zenon
    <3> QED
      BY <1>2, <3>3, <3>4, EmitType
  <2>3. CASE WriteFooter
    BY <1>2, <2>3, OctetTypes, EmitType DEF WriteFooter
  <2>4. ASSUME NEW ds \in {<< 0 >>, <<0, 0>>, <<>>}, WriteEnd(ds) PROVE wire' \in Seq(Octets)
    <3>0. <<0>> \in Seq(Nat) /\ <<0, 0>> \in Seq(Nat) /\ <<>> \in Seq(Nat)
      OBVIOUS
    <3>1. ds \in Seq(Nat)
      BY <3>0, <2>4, Zenon
    <3>2. AsDigits(ds) \o CRLF \in Seq(Octets)
      BY <3>1, AsDigitsType, OctetTypes
    <3>3. Emit(AsDigits(ds) \o CRLF)
      BY <2>4 DEF WriteEnd
    <3> QED
      BY <1>2, <3>2, <3>3, EmitType
  <2> QED
    BY <2>1, <2>2, <2>3, <2>4
<1> QED
  BY <1>1, <1>2, <1>3, <1>4, SenderKeeps

\* A step of the reader.
LEMMA ReaderKeeps ==
    ASSUME ChInv, put' = put, cw' = cw, wire' \in Seq(Octets), buf' \in Seq(Octets),
           cr' \in ReaderTypes, rcall' \in CallTypes, Served'
    PROVE  ChInv'
BY DEF ChInv, ChTypes

LEMMA StepCall ==
    ASSUME ChInv, (\E room \in 0 .. MaxRoom : Read(room)) \/ ReadReturn \/ ReadLoop
    PROVE  ChInv'
<1>1. wire' = wire /\ buf' = buf /\ cr' = cr /\ put' = put /\ cw' = cw
  BY DEF Read, ReadReturn, ReadLoop
<1>2. rcall' \in CallTypes /\ Served'
  <2>1. ASSUME NEW room \in 0 .. MaxRoom, Read(room) PROVE rcall' \in CallTypes /\ Served'
    <3>1. room \in Nat
      BY ChunkedAssumption
    <3>2. rcall' = [pc |-> "loop", room |-> room, n |-> 0]
      BY <2>1 DEF Read
    <3> QED
      BY <3>1, <3>2 DEF CallTypes, Served
  <2>2. CASE ReadReturn
    <3>1. rcall' = [rcall EXCEPT !.pc = "idle"] /\ rcall \in CallTypes
      BY <2>2, Parts DEF ReadReturn
    <3>2. rcall' \in CallTypes /\ rcall'.pc = "idle"
      BY <3>1, CallEdits
    <3> QED
      BY <3>2 DEF Served
  <2>3. CASE ReadLoop
    <3> DEFINE pc == IF cr.checkEnd THEN "footer" ELSE IF cr.n = 0 THEN "line" ELSE "data"
    <3>1. ~Early /\ rcall' = [rcall EXCEPT !.pc = pc] /\ rcall \in CallTypes
      BY <2>3, Parts, Zenon DEF ReadLoop
    <3>2. pc \in {"idle", "loop", "footer", "line", "data"}
      OBVIOUS
    <3>3. /\ pc = "footer" => cr.checkEnd
          /\ pc = "line" => ~cr.checkEnd /\ cr.n = 0
      OBVIOUS
    <3> HIDE DEF pc
    <3>4. rcall' \in CallTypes /\ rcall'.pc = pc /\ rcall'.n = rcall.n
      BY <3>1, <3>2, CallEdits
    <3>5. Len(buf) \in Nat
      BY Parts
    <3>6. rcall.n > 0 /\ pc = "footer" => Len(buf) >= 2
      BY <3>1, <3>3, <3>5 DEF Early
    <3>7. rcall.n > 0 /\ pc = "line" => HasLine(buf)
      BY <3>1, <3>3 DEF Early
    <3>8. HasLine(buf) => HasLine(buf')
      BY <1>1
    <3> QED
      BY <1>1, <3>4, <3>6, <3>7, <3>8 DEF Served
  <2> QED
    BY <2>1, <2>2, <2>3
<1> QED
  BY <1>1, <1>2, Parts, ReaderKeeps

LEMMA StepFillBuffer ==
    ASSUME ChInv, FillBuffer
    PROVE  ChInv'
<1>0. wire \in Seq(Octets) /\ buf \in Seq(Octets) /\ cr \in ReaderTypes /\ rcall \in CallTypes
  BY Parts
<1>1. PICK k \in 1 .. Len(wire) : /\ buf' = buf \o SubSeq(wire, 1, k)
                                  /\ wire' = SubSeq(wire, k + 1, Len(wire))
  BY DEF FillBuffer
<1>2. SubSeq(wire, 1, k) \in Seq(Octets) /\ wire' \in Seq(Octets)
  BY <1>0, <1>1
<1>3. buf' \in Seq(Octets)
  BY <1>0, <1>1, <1>2
<1>4. cr' = cr /\ rcall' = rcall /\ Waiting /\ put' = put /\ cw' = cw
  BY DEF FillBuffer
<1>5. rcall.n > 0 => rcall.pc = "data"
  BY <1>4, ServedIsPrompt DEF PromptRead
<1>6. Served'
  BY <1>4, <1>5 DEF Served
<1> QED
  BY <1>0, <1>2, <1>3, <1>4, <1>6, ReaderKeeps

LEMMA BackToLoop ==
    ASSUME ChInv, rcall' = [rcall EXCEPT !.pc = "loop"]
    PROVE  rcall' \in CallTypes /\ Served'
<1>1. rcall' \in CallTypes /\ rcall'.pc = "loop"
  BY Parts, CallEdits
<1> QED
  BY <1>1 DEF Served

LEMMA StepBeginChunk ==
    ASSUME ChInv, BeginChunk
    PROVE  ChInv'
<1>0. wire \in Seq(Octets) /\ buf \in Seq(Octets) /\ cr \in ReaderTypes
  BY Parts
<1>1. /\ rcall' = [rcall EXCEPT !.pc = "loop"] /\ wire' = wire /\ put' = put /\ cw' = cw
      /\ buf' = IF HasLine(buf) THEN SubSeq(buf, LineEnd(buf) + 1, Len(buf)) ELSE <<>>
  BY DEF BeginChunk
<1>2. buf' \in Seq(Octets)
  <2>1. CASE HasLine(buf)
    <3>1. LineEnd(buf) \in 1 .. Len(buf)
      BY <1>0, <2>1, LineFacts
    <3> QED
      BY <1>0, <1>1, <2>1, <3>1
  <2>2. CASE ~HasLine(buf)
    BY <1>1, <2>2
  <2> QED
    BY <2>1, <2>2
<1>3. cr' \in ReaderTypes
  <2>1. CASE ~HasLine(buf) \/ LineEnd(buf) >= BufCap
    <3>1. cr' = [cr EXCEPT !.err = "line too long"]
      BY <2>1, Zenon DEF BeginChunk
    <3>2. "line too long" \in Errors
      BY DEF Errors
    <3>3. [cr EXCEPT !.err = "line too long"] \in ReaderTypes
      BY <1>0, <3>2, ReaderEdits, Zenon
    <3> QED
      BY <3>1, <3>3, Zenon
  <2>2. CASE ~(~HasLine(buf) \/ LineEnd(buf) >= BufCap)
    <3> DEFINE line == SubSeq(buf, 1, LineEnd(buf))
               size == ParseHexUint(SizeOf(line))
               m == size.n
               e == IF ~size.ok THEN "malformed" ELSE IF size.n = 0 THEN "EOF" ELSE "nil"
    <3>1. LineEnd(buf) \in 1 .. Len(buf)
      BY <1>0, <2>2, LineFacts
    <3>2. line \in Seq(Octets)
      BY <1>0, <3>1
    <3>3. m \in Nat
      BY <3>2, SizeOfType, SizeType
    <3>4. cr' = [cr EXCEPT !.n = m, !.err = e]
      BY <2>2, Zenon DEF BeginChunk
    <3>5. e \in Errors
      BY Zenon DEF Errors
    <3> HIDE DEF m, e
    <3>6. [cr EXCEPT !.n = m, !.err = e] \in ReaderTypes
      BY <1>0, <3>3, <3>5, ReaderEdits, Zenon
    <3> QED
      BY <3>4, <3>6, Zenon
  <2> QED
    BY <2>1, <2>2
<1> QED
  BY <1>0, <1>1, <1>2, <1>3, BackToLoop, ReaderKeeps

LEMMA StepReader ==
    ASSUME ChInv, EndOfInput \/ CheckFooter
    PROVE  ChInv'
<1>0. wire \in Seq(Octets) /\ buf \in Seq(Octets) /\ cr \in ReaderTypes
  BY Parts
<1>1. rcall' = [rcall EXCEPT !.pc = "loop"] /\ wire' = wire /\ put' = put /\ cw' = cw
  BY DEF EndOfInput, CheckFooter
<1>2. buf' \in Seq(Octets)
  <2>1. CASE buf' = buf
    BY <1>0, <2>1
  <2>2. CASE buf' = SubSeq(buf, 3, Len(buf))
    BY <1>0, <2>2
  <2> QED
    BY <2>1, <2>2 DEF EndOfInput, CheckFooter
<1>3. cr' \in ReaderTypes
  <2>1. /\ [cr EXCEPT !.err = "unexpected EOF"] \in ReaderTypes
        /\ [cr EXCEPT !.err = "malformed"] \in ReaderTypes
        /\ [cr EXCEPT !.checkEnd = FALSE] \in ReaderTypes
    <3>1. "unexpected EOF" \in Errors /\ "malformed" \in Errors
      BY DEF Errors
    <3>2. FALSE \in BOOLEAN
      OBVIOUS
    <3> QED
      BY <1>0, <3>1, <3>2, ReaderEdits, Zenon
  <2>2. \/ cr' = [cr EXCEPT !.err = "unexpected EOF"]
        \/ cr' = [cr EXCEPT !.err = "malformed"]
        \/ cr' = [cr EXCEPT !.checkEnd = FALSE]
    BY Zenon DEF EndOfInput, CheckFooter
  <2> QED
    BY <2>1, <2>2, Zenon
<1> QED
  BY <1>0, <1>1, <1>2, <1>3, BackToLoop, ReaderKeeps

LEMMA StepReadData ==
    ASSUME ChInv, ReadData
    PROVE  ChInv'
<1> DEFINE T == {Len(buf), rcall.room, cr.n}
           k == Min(T)
           full == cr.n = k
<1>0. /\ wire \in Seq(Octets) /\ buf \in Seq(Octets) /\ cr \in ReaderTypes
      /\ Len(buf) \in Nat /\ rcall.room \in Nat /\ cr.n \in Nat /\ rcall.n \in Nat
  BY Parts
<1>1. T \subseteq Nat /\ T # {}
  BY <1>0
<1>2. k \in T /\ \A y \in T : k <= y
  BY <1>1, MinFacts
<1>3. k \in Nat /\ k <= Len(buf) /\ k <= rcall.room /\ k <= cr.n
  BY <1>0, <1>2
<1>4. /\ buf' = SubSeq(buf, k + 1, Len(buf)) /\ wire' = wire /\ put' = put /\ cw' = cw
      /\ cr' = [cr EXCEPT !.n = cr.n - k, !.checkEnd = full]
      /\ rcall' = [pc |-> "loop", room |-> rcall.room - k, n |-> rcall.n + k]
  BY Zenon DEF ReadData
<1>5. full \in BOOLEAN
  OBVIOUS
<1> HIDE DEF k, T, full
<1>6. buf' \in Seq(Octets)
  BY <1>0, <1>3, <1>4
<1>7. rcall' \in CallTypes /\ rcall'.pc = "loop"
  <2>1. rcall.room - k \in Nat /\ rcall.n + k \in Nat
    BY <1>0, <1>3
  <2> QED
    BY <1>4, <2>1 DEF CallTypes
<1>8. cr' \in ReaderTypes
  <2> DEFINE m == cr.n - k
  <2>1. m \in Nat
    BY <1>0, <1>3
  <2>2. cr' = [cr EXCEPT !.n = m, !.checkEnd = full]
    BY <1>4
  <2> HIDE DEF m
  <2>3. [cr EXCEPT !.n = m, !.checkEnd = full] \in ReaderTypes
    BY <1>0, <1>5, <2>1, ReaderEdits, Zenon
  <2> QED
    BY <2>2, <2>3, Zenon
<1>9. Served'
  BY <1>7 DEF Served
<1> QED
  BY <1>0, <1>4, <1>6, <1>7, <1>8, <1>9, ReaderKeeps

LEMMA ChunksInductive == ChInv /\ [ChNext]_chunkVars => ChInv'
<1> SUFFICES ASSUME ChInv, [ChNext]_chunkVars PROVE ChInv'
  OBVIOUS
<1>1. CASE UNCHANGED chunkVars
  BY <1>1 DEF chunkVars, ChInv, ChTypes, Served, HasLine
<1> QED
  BY <1>1, StepWriteSize, StepSender, StepCall, StepFillBuffer, StepBeginChunk, StepReader,
     StepReadData DEF ChNext

\* A Read with data in hand never waits for a footer or a size line, for every
\* size of the buffer and of a chunk and however the bytes arrive:
\* chunked.go:73-78, 93-97.
THEOREM ReadsArePrompt == ChSpec => []PromptRead
<1>1. ChSpec => []ChInv
  BY ChunksInitially, ChunksInductive, PTL DEF ChSpec
<1> QED
  BY <1>1, ServedIsPrompt, PTL

--------------------------------------------------------------------------------
(* The stream.  It is a chain of pieces: size line, data, footer, size line,  *)
(* and so on.  The sender is at the end of the last piece, or has broken off  *)
(* in it; the reader is somewhere in the chain; and what lies between them is *)
(* in the buffer and on the wire.                                             *)

\* What a complete size line says: its only line feed is its last byte, and it
\* is refused or stands for n.
SaysSize(bs, n) ==
    /\ Len(bs) >= 1
    /\ \A i \in 1 .. Len(bs) : bs[i] = LF <=> i = Len(bs)
    /\ ParseHexUint(SizeOf(bs)).ok => ParseHexUint(SizeOf(bs)).n = n

\* A piece: its bytes, the size it announces or the number of its data bytes,
\* the data bytes before it, and all the bytes before it.
Pieces == [t : {"line", "data", "foot"}, bytes : Seq(Octets), n : Nat, at : Nat, from : Nat]

Ends(x) == x.from + Len(x.bytes)

WellFormed(x) ==
    /\ x \in Pieces
    /\ x.t = "line" => SaysSize(x.bytes, x.n)
    /\ x.t = "data" => Len(x.bytes) = x.n /\ \A i \in 1 .. x.n : x.bytes[i] = Data(x.at + i)
    /\ x.t = "foot" => x.n = 0

Follows(x, y) ==
    /\ y.from = Ends(x)
    /\ \/ x.t = "line" /\ x.n > 0 /\ y.t = "data" /\ y.n = x.n /\ y.at = x.at
       \/ x.t = "data" /\ y.t = "foot" /\ y.at = x.at + x.n /\ Len(y.bytes) = 2
       \/ x.t = "foot" /\ y.t = "line" /\ y.at = x.at

Chain(P) ==
    /\ P \in Seq(Pieces) /\ P # <<>>
    /\ \A j \in 1 .. Len(P) : WellFormed(P[j]) /\ Ends(P[j]) <= Ends(P[Len(P)])
    /\ \A j \in 1 .. Len(P) - 1 : Follows(P[j], P[j + 1])

\* After g bytes of the chain come the bytes s.
Carries(P, g, s) ==
    \A j \in 1 .. Len(P) : \A i \in 1 .. Len(P[j].bytes) :
        P[j].from + i - g \in 1 .. Len(s) => s[P[j].from + i - g] = P[j].bytes[i]

\* The sender has written m bytes.
WriterAt(P, m) ==
    LET x == P[Len(P)]
    IN  /\ \A j \in 1 .. Len(P) : P[j].at + P[j].n <= put
        /\ m <= Ends(x)
        /\ ~broken =>
              /\ m = Ends(x) /\ put = x.at + x.n
              /\ cw.step = "data" => x.t = "line" /\ x.n > 0 /\ cw.left = x.n
              /\ cw.step = "footer" => x.t = "data"
              /\ cw.step = "idle" => x.t = "foot" \/ (x.t = "line" /\ x.n = 0 /\ ended)
        /\ x.t = "line" /\ x.n = 0 /\ m = Ends(x) => ended /\ put = x.at

\* The reader has taken g bytes: up to the end of a footer, or a part of the
\* data that the size line c announced.
ReaderAt(P, c, g) ==
    LET x == P[c]
    IN  /\ c \in 1 .. Len(P) /\ g \in Nat
        /\ \/ /\ cr.n = 0 /\ ~cr.checkEnd
              /\ x.t = "foot" /\ g = Ends(x) /\ Len(got) = x.at
           \/ /\ cr.checkEnd <=> cr.n = 0
              /\ x.t = "line" /\ x.n > 0
              /\ Len(got) >= x.at /\ Len(got) + cr.n = x.at + x.n
              /\ g = Ends(x) + (Len(got) - x.at)

Way == buf \o wire

InStep ==
    cr.err = "nil" =>
        \E P, c, g : /\ Chain(P) /\ Carries(P, g, Way)
                     /\ WriterAt(P, g + Len(Way)) /\ ReaderAt(P, c, g)

\* The step of a Read that takes bytes is the one the reader's state calls for.
StepFits ==
    /\ rcall.pc \in {"footer", "line", "data"} => cr.err = "nil"
    /\ rcall.pc = "footer" => cr.checkEnd
    /\ rcall.pc = "line" => ~cr.checkEnd /\ cr.n = 0
    /\ rcall.pc = "data" => ~cr.checkEnd /\ cr.n > 0

GotTypes == got \in Seq(Octets)

StreamInv == ChInv /\ GotTypes /\ StepFits /\ InStep /\ StreamExact

\* The size lines of the sender say what they should.
LEMMA LineSays ==
    ASSUME NEW ds \in Seq(0 .. Base - 1), NEW ext \in Seq(Octets),
           \A i \in 1 .. Len(ext) : ext[i] # LF,
           ext # <<>> => ext[1].t # "digit"
    PROVE  SaysSize(AsDigits(ds) \o ext \o CRLF, Value(ds))
<1> DEFINE D == AsDigits(ds)
           l == Len(ds)
           m == Len(ext)
           bs == D \o ext \o CRLF
           B == l + m + 2
<1>0. Base \in Nat /\ Base >= 2 /\ Digits \in Nat /\ Wide \in Nat /\ Wide > 0
  BY ChunkedAssumption
<1>1. /\ ds \in Seq(Nat) /\ l \in Nat /\ m \in Nat
      /\ DOMAIN ds = 1 .. l
  BY <1>0
<1>2. /\ D \in Seq(Octets) /\ Len(D) = l /\ \A i \in 1 .. l : D[i] = Digit(ds[i])
  <2>1. D = [i \in 1 .. l |-> Digit(ds[i])]
    BY <1>1 DEF AsDigits
  <2>2. D \in Seq(Octets)
    BY <1>1, AsDigitsType
  <2> QED
    BY <1>1, <2>1, <2>2
<1>3. CRLF \in Seq(Octets) /\ Len(CRLF) = 2 /\ CRLF[1] = CR /\ CRLF[2] = LF
  BY OctetTypes DEF CRLF
<1> HIDE DEF D, l, m
<1>4. /\ bs \in Seq(Octets) /\ Len(bs) = B
      /\ \A i \in 1 .. l : bs[i] = D[i]
      /\ \A i \in 1 .. m : bs[l + i] = ext[i]
      /\ bs[l + m + 1] = CR /\ bs[l + m + 2] = LF
  <2>1. /\ D \o ext \in Seq(Octets) /\ Len(D \o ext) = l + m
        /\ \A i \in 1 .. l + m : (D \o ext)[i] = IF i <= l THEN D[i] ELSE ext[i - l]
    BY <1>2, ConcatProperties DEF m
  <2> DEFINE de == D \o ext
  <2> HIDE DEF de
  <2>2. /\ de \o CRLF \in Seq(Octets) /\ Len(de \o CRLF) = (l + m) + 2
        /\ \A i \in 1 .. (l + m) + 2 : (de \o CRLF)[i] = IF i <= l + m THEN de[i] ELSE CRLF[i - (l + m)]
    <3>1. de \in Seq(Octets) /\ Len(de) = l + m
      BY <2>1 DEF de
    <3>2. /\ de \o CRLF \in Seq(Octets) /\ Len(de \o CRLF) = Len(de) + Len(CRLF)
          /\ \A i \in 1 .. Len(de) + Len(CRLF) :
                (de \o CRLF)[i] = IF i <= Len(de) THEN de[i] ELSE CRLF[i - Len(de)]
      BY <1>3, <3>1, ConcatProperties
    <3> QED
      BY <1>3, <3>1, <3>2
  <2>3. bs = de \o CRLF
    BY DEF de
  <2> HIDE DEF bs
  <2>4. \A i \in 1 .. l : bs[i] = D[i]
    <3>1. \A i \in 1 .. l : i \in 1 .. (l + m) + 2 /\ i <= l + m /\ i \in 1 .. l + m /\ i <= l
      BY <1>1
    <3> QED
      BY <2>1, <2>2, <2>3, <3>1 DEF de
  <2>5. \A i \in 1 .. m : bs[l + i] = ext[i]
    <3>1. \A i \in 1 .. m : /\ l + i \in 1 .. (l + m) + 2 /\ l + i <= l + m /\ l + i \in 1 .. l + m
                            /\ ~(l + i <= l) /\ (l + i) - l = i
      BY <1>1
    <3> QED
      BY <2>1, <2>2, <2>3, <3>1 DEF de
  <2>6. bs[l + m + 1] = CR /\ bs[l + m + 2] = LF
    <3>1. /\ l + m + 1 \in 1 .. (l + m) + 2 /\ ~(l + m + 1 <= l + m) /\ (l + m + 1) - (l + m) = 1
          /\ l + m + 2 \in 1 .. (l + m) + 2 /\ ~(l + m + 2 <= l + m) /\ (l + m + 2) - (l + m) = 2
      BY <1>1
    <3> QED
      BY <1>3, <2>2, <2>3, <3>1
  <2> QED
    BY <2>2, <2>3, <2>4, <2>5, <2>6
<1> HIDE DEF bs
<1>5. \A i \in 1 .. l : bs[i] # LF /\ bs[i] # CR /\ bs[i] # Semi /\ bs[i].t = "digit" /\ bs[i].v = ds[i]
  BY <1>2, <1>4 DEF Digit, LF, CR, Semi
<1>6. \A i \in 1 .. B : i \in 1 .. l \/ (i - l \in 1 .. m /\ l + (i - l) = i) \/ i = l + m + 1 \/ i = l + m + 2
  BY <1>1
<1>7. ASSUME NEW i \in 1 .. B PROVE bs[i] = LF <=> i = B
  <2>1. CR # LF
    BY DEF CR, LF
  <2>2. CASE i \in 1 .. l
    BY <1>1, <1>5, <2>2
  <2>3. CASE i - l \in 1 .. m /\ l + (i - l) = i
    <3>1. bs[i] = ext[i - l] /\ i # B
      BY <1>1, <1>4, <2>3
    <3> QED
      BY <2>3, <3>1 DEF m
  <2>4. CASE i = l + m + 1
    BY <1>1, <1>4, <2>1, <2>4
  <2>5. CASE i = l + m + 2
    BY <1>4, <2>5
  <2> QED
    BY <1>6, <2>2, <2>3, <2>4, <2>5
\* Where the size ends.
<1> DEFINE T == {0} \cup {i \in DOMAIN bs : bs[i] \notin {CR, LF}}
           c == Max(T)
           p == SubSeq(bs, 1, c)
           S == {i \in DOMAIN p : p[i] = Semi}
           q == IF S = {} THEN c ELSE Min(S) - 1
<1>8. DOMAIN bs = 1 .. B /\ B \in Nat
  BY <1>1, <1>4
<1>9. c \in 0 .. B /\ l <= c
  <2>1. T \subseteq 0 .. B /\ T # {}
    BY <1>8
  <2>2. l \in T
    BY <1>1, <1>5, <1>8
  <2> HIDE DEF T
  <2>3. c \in T /\ \A y \in T : y <= c
    BY <1>8, <2>1, MaxFacts
  <2> QED
    BY <2>1, <2>2, <2>3
<1> HIDE DEF c
<1>10. p \in Seq(Octets) /\ DOMAIN p = 1 .. c /\ Len(p) = c /\ \A i \in 1 .. c : p[i] = bs[i]
  BY <1>4, <1>8, <1>9
<1>11. q \in 0 .. c /\ l <= q
  <2>1. CASE S = {}
    BY <1>8, <1>9, <2>1
  <2>2. CASE S # {}
    <3>1. S \subseteq Nat
      BY <1>8, <1>9, <1>10
    <3>2. Min(S) \in S
      BY <2>2, <3>1, MinFacts
    <3>3. Min(S) \in 1 .. c /\ bs[Min(S)] = Semi
      BY <1>10, <3>2
    <3>4. Min(S) \notin 1 .. l
      BY <1>5, <3>3
    <3>5. Min(S) \in Int /\ Min(S) >= 1 /\ Min(S) <= c /\ Min(S) > l /\ c \in Int
      <4> HIDE DEF S, p
      <4>1. \A y \in 1 .. c : y \notin 1 .. l => y \in Int /\ y >= 1 /\ y <= c /\ y > l
        BY <1>1, <1>8, <1>9
      <4> QED
        BY <1>8, <1>9, <3>3, <3>4, <4>1
    <3> HIDE DEF S
    <3> QED
      BY <1>1, <2>2, <3>5
  <2> QED
    BY <2>1, <2>2
<1>12. SizeOf(bs) = SubSeq(bs, 1, q)
  <2>1. TrimTrailingWhitespace(bs) = p
    BY DEF TrimTrailingWhitespace, c
  <2>2. RemoveChunkExtension(p) = IF S = {} THEN p ELSE SubSeq(p, 1, Min(S) - 1)
    BY DEF RemoveChunkExtension
  <2>3. SubSeq(p, 1, q) = SubSeq(bs, 1, q)
    <3> HIDE DEF q
    <3>1. q \in Nat /\ q <= c /\ c <= B
      BY <1>8, <1>9, <1>11
    <3> HIDE DEF p
    <3>2. \A i \in 1 .. q : p[i] = bs[i]
      BY <1>8, <1>9, <1>10, <3>1
    <3>3. SubSeq(p, 1, q) = [i \in 1 .. q |-> p[i]]
      BY <1>10, <3>1
    <3>4. SubSeq(bs, 1, q) = [i \in 1 .. q |-> bs[i]]
      BY <1>4, <1>8, <3>1
    <3> QED
      BY <3>2, <3>3, <3>4
  <2>4. S = {} => p = SubSeq(p, 1, q)
    BY <1>10, <1>8, <1>9
  <2> QED
    BY <2>1, <2>2, <2>3, <2>4 DEF SizeOf
<1> HIDE DEF q
<1> DEFINE z == SubSeq(bs, 1, q)
<1>13. z \in Seq(Octets) /\ Len(z) = q /\ DOMAIN z = 1 .. q /\ \A i \in 1 .. q : z[i] = bs[i]
  BY <1>4, <1>8, <1>9, <1>11
<1> HIDE DEF z
<1>14. ASSUME AllDigits(z), Len(z) <= Digits
       PROVE  ValueOf(z) % Wide = Value(ds)
  <2>1. q = l
    <3>1. SUFFICES ASSUME q > l PROVE FALSE
      BY <1>1, <1>9, <1>11
    <3>2. l + 1 \in 1 .. q /\ z[l + 1] = bs[l + 1]
      BY <1>1, <1>8, <1>9, <1>11, <1>13, <3>1
    <3>3. bs[l + 1].t = "digit"
      BY <1>13, <1>14, <3>2 DEF AllDigits
    <3>4. CASE m = 0
      <4>1. l + 1 = l + m + 1
        BY <1>1, <3>4
      <4>2. bs[l + 1] = CR
        BY <1>4, <4>1
      <4> QED
        BY <3>3, <4>2 DEF CR
    <3>5. CASE m # 0
      <4>1. 1 \in 1 .. m /\ ext # <<>>
        BY <1>1, <3>5 DEF m
      <4>2. bs[l + 1] = ext[1]
        BY <1>4, <4>1
      <4> QED
        BY <3>3, <4>1, <4>2
    <3> QED
      BY <3>4, <3>5
  <2>2. [i \in DOMAIN z |-> z[i].v] = ds
    <3>1. \A i \in 1 .. l : z[i].v = ds[i]
      BY <1>5, <1>13, <2>1
    <3>2. ds = [i \in 1 .. l |-> ds[i]]
      BY <1>1 DEF l
    <3> QED
      BY <1>13, <2>1, <3>1, <3>2
  <2>3. Value(ds) < Wide
    BY <1>13, <1>14, <2>1, SizesFit DEF l
  <2>4. Value(ds) \in Nat
    BY <1>1, ValueFacts
  <2>5. ValueOf(z) = Value(ds)
    BY <2>2 DEF ValueOf
  <2> QED
    BY <1>0, <2>3, <2>4, <2>5, SmallMod
<1>15. ParseHexUint(z).ok => ParseHexUint(z).n = Value(ds)
  BY <1>14 DEF ParseHexUint
<1>16. Len(bs) >= 1
  BY <1>1, <1>4
<1> QED
  BY <1>4, <1>7, <1>12, <1>15, <1>16 DEF SaysSize, bs, D, z

\* What a write adds to the way.
LEMMA Emitted ==
    ASSUME ChInv, ~broken, buf' = buf, NEW bytes \in Seq(Octets), Emit(bytes)
    PROVE  \E k \in 0 .. Len(bytes) :
              /\ Len(Way)' = Len(Way) + k /\ Len(Way) \in Nat
              /\ \A i \in 1 .. Len(Way) : Way'[i] = Way[i]
              /\ \A i \in 1 .. k : Way'[Len(Way) + i] = bytes[i]
              /\ \/ k = Len(bytes) /\ ~broken'
                 \/ k < Len(bytes) /\ broken'
<1>0. wire \in Seq(Octets) /\ buf \in Seq(Octets) /\ Len(bytes) \in Nat
  BY Parts
<1>1. ASSUME NEW k \in 0 .. Len(bytes), wire' = wire \o SubSeq(bytes, 1, k)
      PROVE  /\ Len(Way)' = Len(Way) + k /\ Len(Way) \in Nat
             /\ \A i \in 1 .. Len(Way) : Way'[i] = Way[i]
             /\ \A i \in 1 .. k : Way'[Len(Way) + i] = bytes[i]
  <2> DEFINE add == SubSeq(bytes, 1, k)
             b == Len(buf)
             w == Len(wire)
  <2>1. add \in Seq(Octets) /\ Len(add) = k /\ (\A i \in 1 .. k : add[i] = bytes[i]) /\ k \in Nat
    BY <1>0
  <2>2. b \in Nat /\ w \in Nat
    BY <1>0
  <2> HIDE DEF add
  <2>3. /\ Way \in Seq(Octets) /\ Len(Way) = b + w
        /\ \A i \in 1 .. b + w : Way[i] = IF i <= b THEN buf[i] ELSE wire[i - b]
    BY <1>0, ConcatProperties DEF Way
  <2>4. /\ wire' \in Seq(Octets) /\ Len(wire') = w + k
        /\ \A i \in 1 .. w + k : wire'[i] = IF i <= w THEN wire[i] ELSE add[i - w]
    <3>1. wire' = wire \o add
      BY <1>1 DEF add
    <3>2. /\ wire \o add \in Seq(Octets) /\ Len(wire \o add) = Len(wire) + Len(add)
          /\ \A i \in 1 .. Len(wire) + Len(add) :
                (wire \o add)[i] = IF i <= Len(wire) THEN wire[i] ELSE add[i - Len(wire)]
      BY <1>0, <2>1, ConcatProperties
    <3> QED
      BY <2>1, <3>1, <3>2
  <2>5. /\ Way' = buf \o wire'
        /\ Len(buf \o wire') = b + Len(wire')
        /\ \A i \in 1 .. b + Len(wire') : (buf \o wire')[i] = IF i <= b THEN buf[i] ELSE wire'[i - b]
    BY <1>0, <2>4, ConcatProperties DEF Way
  <2> HIDE DEF b, w
  <2>6. Len(Way)' = Len(Way) + k /\ Len(Way) \in Nat /\ Len(Way) = b + w
    BY <2>1, <2>2, <2>3, <2>4, <2>5
  <2>7. ASSUME NEW i \in 1 .. b + w PROVE Way'[i] = Way[i]
    <3>0. i \in 1 .. b + Len(wire')
      BY <2>1, <2>2, <2>4
    <3>1. CASE i <= b
      BY <2>3, <2>5, <3>0, <3>1
    <3>2. CASE ~(i <= b)
      <4>1. i - b \in 1 .. w + k /\ i - b <= w
        BY <2>1, <2>2, <3>2
      <4>2. Way'[i] = wire'[i - b] /\ wire'[i - b] = wire[i - b] /\ Way[i] = wire[i - b]
        BY <2>3, <2>4, <2>5, <3>0, <3>2, <4>1
      <4> QED
        BY <4>2
    <3> QED
      BY <3>1, <3>2
  <2>8. ASSUME NEW i \in 1 .. k PROVE Way'[(b + w) + i] = bytes[i]
    <3> DEFINE p == (b + w) + i
               q == w + i
    <3>1. /\ p \in 1 .. b + (w + k) /\ ~(p <= b) /\ p - b = q
          /\ q \in 1 .. w + k /\ ~(q <= w) /\ q - w = i
      BY <2>1, <2>2
    <3> HIDE DEF p, q
    <3>2. Way'[p] = wire'[p - b]
      BY <2>4, <2>5, <3>1
    <3>3. wire'[q] = add[q - w]
      BY <2>4, <3>1
    <3>4. Way'[p] = bytes[i]
      BY <2>1, <3>1, <3>2, <3>3
    <3> QED
      BY <3>4 DEF p
  <2> QED
    BY <2>6, <2>7, <2>8
<1>2. CASE wire' = wire \o bytes /\ broken' = broken
  <2>1. Len(bytes) \in 0 .. Len(bytes) /\ SubSeq(bytes, 1, Len(bytes)) = bytes
    BY <1>0
  <2> QED
    BY <1>1, <1>2, <2>1
<1>3. CASE broken' /\ \E k \in 0 .. Len(bytes) - 1 : wire' = wire \o SubSeq(bytes, 1, k)
  <2>1. PICK k \in 0 .. Len(bytes) - 1 : wire' = wire \o SubSeq(bytes, 1, k)
    BY <1>3
  <2>2. k \in 0 .. Len(bytes) /\ k < Len(bytes)
    BY <1>0
  <2> QED
    BY <1>1, <1>3, <2>1, <2>2
<1> QED
  BY <1>2, <1>3 DEF Emit

\* One more piece.
LEMMA ChainGrows ==
    ASSUME NEW P, Chain(P), NEW x, WellFormed(x), Follows(P[Len(P)], x)
    PROVE  /\ Chain(Append(P, x)) /\ Len(Append(P, x)) = Len(P) + 1 /\ Len(P) \in Nat /\ Len(P) >= 1
           /\ Append(P, x)[Len(P) + 1] = x
           /\ \A j \in 1 .. Len(P) : Append(P, x)[j] = P[j] /\ Ends(P[j]) <= Ends(P[Len(P)])
           /\ Ends(P[Len(P)]) \in Nat /\ Ends(x) \in Nat /\ Ends(P[Len(P)]) <= Ends(x)
<1> DEFINE n == Len(P)
           Q == Append(P, x)
<1>1. P \in Seq(Pieces) /\ x \in Pieces /\ n \in Nat /\ n >= 1
  BY DEF Chain, WellFormed
<1>2. /\ Q \in Seq(Pieces) /\ Q # <<>> /\ Len(Q) = n + 1
      /\ \A i \in 1 .. n : Q[i] = P[i]
      /\ Q[n + 1] = x
  BY <1>1, AppendProperties
<1>3. \A y \in Pieces : Ends(y) \in Nat /\ y.from <= Ends(y)
  <2>1. \A y \in Pieces : y.from \in Nat /\ Len(y.bytes) \in Nat
    <3>1. \A y \in Pieces : y.from \in Nat /\ y.bytes \in Seq(Octets)
      BY DEF Pieces
    <3> QED
      BY <3>1
  <2> QED
    BY <2>1 DEF Ends
<1>4. /\ \A j \in 1 .. n : WellFormed(P[j]) /\ Ends(P[j]) <= Ends(P[n])
      /\ \A j \in 1 .. n - 1 : Follows(P[j], P[j + 1])
  BY DEF Chain
<1>5. \A j \in 1 .. n : P[j] \in Pieces /\ Ends(P[j]) \in Nat
  BY <1>3, <1>4 DEF WellFormed
<1>6. n \in 1 .. n /\ Ends(P[n]) \in Nat /\ Ends(x) \in Nat
  BY <1>1, <1>3, <1>5
<1>7. Ends(P[n]) <= Ends(x)
  BY <1>1, <1>3 DEF Follows
<1> HIDE DEF Q, n
<1>8. \A j \in 1 .. n + 1 : WellFormed(Q[j]) /\ Ends(Q[j]) <= Ends(Q[n + 1])
  <2> SUFFICES ASSUME NEW j \in 1 .. n + 1 PROVE WellFormed(Q[j]) /\ Ends(Q[j]) <= Ends(Q[n + 1])
    OBVIOUS
  <2>1. CASE j \in 1 .. n
    BY <1>2, <1>4, <1>5, <1>6, <1>7, <2>1
  <2>2. CASE j = n + 1
    BY <1>2, <1>6, <2>2
  <2> QED
    BY <1>1, <2>1, <2>2
<1>9. \A j \in 1 .. (n + 1) - 1 : Follows(Q[j], Q[j + 1])
  <2> SUFFICES ASSUME NEW j \in 1 .. n PROVE Follows(Q[j], Q[j + 1])
    BY <1>1
  <2>1. CASE j \in 1 .. n - 1
    <3>1. j + 1 \in 1 .. n
      BY <1>1, <2>1
    <3> QED
      BY <1>2, <1>4, <2>1, <3>1
  <2>2. CASE j = n
    BY <1>2, <1>6, <2>2 DEF n
  <2> QED
    BY <1>1, <2>1, <2>2
<1>10. Chain(Q)
  BY <1>2, <1>8, <1>9 DEF Chain
<1> QED
  BY <1>1, <1>2, <1>4, <1>6, <1>7, <1>10 DEF Q, n

LEMMA Within ==
    ASSUME NEW f \in Nat, NEW l \in Nat, NEW i \in 1 .. l, NEW g \in Nat, NEW w \in Nat,
           NEW v \in Nat, f + l <= g + w, f + i - g \in 1 .. v
    PROVE  f + i - g \in 1 .. w
OBVIOUS

LEMMA UpTo ==
    ASSUME NEW g \in Nat, NEW w \in Nat, NEW l \in Nat, NEW k \in 0 .. l, NEW e, e = (g + w) + l
    PROVE  g + (w + k) <= e /\ (k = l <=> g + (w + k) = e)
OBVIOUS

\* A piece written, whole or in part, keeps sender and reader in step.
LEMMA SenderStep ==
    ASSUME ChInv, ~broken, buf' = buf, cr' = cr, got' = got,
           NEW P, NEW c, NEW g, NEW x,
           Chain(P), Carries(P, g, Way), WriterAt(P, g + Len(Way)), ReaderAt(P, c, g),
           WellFormed(x), Follows(P[Len(P)], x), Emit(x.bytes),
           put' = x.at + x.n, put <= put', put' \in Nat,
           ~broken' => /\ cw'.step = "data" => x.t = "line" /\ x.n > 0 /\ cw'.left = x.n
                       /\ cw'.step = "footer" => x.t = "data"
                       /\ cw'.step = "idle" => x.t = "foot" \/ (x.t = "line" /\ x.n = 0 /\ ended')
                       /\ x.t = "line" /\ x.n = 0 => ended'
    PROVE  InStep'
<1> DEFINE n == Len(P)
           Q == Append(P, x)
           w == Len(Way)
<1>1. PICK k \in 0 .. Len(x.bytes) :
              /\ Len(Way)' = w + k /\ w \in Nat
              /\ \A i \in 1 .. w : Way'[i] = Way[i]
              /\ \A i \in 1 .. k : Way'[w + i] = x.bytes[i]
              /\ \/ k = Len(x.bytes) /\ ~broken'
                 \/ k < Len(x.bytes) /\ broken'
  <2>1. x.bytes \in Seq(Octets)
    BY DEF WellFormed, Pieces
  <2> QED
    BY <2>1, Emitted
<1>2. /\ Chain(Q) /\ Len(Q) = n + 1 /\ n \in Nat /\ n >= 1
      /\ Q[n + 1] = x
      /\ \A j \in 1 .. n : Q[j] = P[j] /\ Ends(P[j]) <= Ends(P[n])
      /\ Ends(P[n]) \in Nat /\ Ends(x) \in Nat /\ Ends(P[n]) <= Ends(x)
  BY ChainGrows
<1>3. x.from \in Nat /\ Len(x.bytes) \in Nat /\ x.at \in Nat /\ x.n \in Nat /\ put \in Nat
  <2>1. x.from \in Nat /\ x.bytes \in Seq(Octets) /\ x.at \in Nat /\ x.n \in Nat
    BY DEF WellFormed, Pieces
  <2> QED
    BY <2>1, Parts
<1>4. g \in Nat /\ c \in 1 .. n
  BY DEF ReaderAt
<1>5. g + w = Ends(P[n]) /\ x.from = g + w
  BY DEF WriterAt, Follows
<1>6. \A j \in 1 .. n : /\ P[j].from \in Nat /\ Len(P[j].bytes) \in Nat
                        /\ P[j].at \in Nat /\ P[j].n \in Nat
                        /\ P[j].at + P[j].n <= put
  <2>1. \A j \in 1 .. n : /\ P[j].from \in Nat /\ P[j].bytes \in Seq(Octets)
                          /\ P[j].at \in Nat /\ P[j].n \in Nat
    BY DEF Chain, WellFormed, Pieces
  <2>2. \A j \in 1 .. n : P[j].at + P[j].n <= put
    BY DEF WriterAt
  <2> QED
    BY <2>1, <2>2
<1> HIDE DEF n, Q, w
<1>7. Carries(Q, g, Way')
  <2> SUFFICES ASSUME NEW j \in 1 .. Len(Q), NEW i \in 1 .. Len(Q[j].bytes),
                      Q[j].from + i - g \in 1 .. Len(Way')
               PROVE  Way'[Q[j].from + i - g] = Q[j].bytes[i]
    BY DEF Carries
  <2>0. Len(Way') = w + k
    BY <1>1
  <2>1. CASE j \in 1 .. n
    <3>1. Q[j] = P[j] /\ Ends(P[j]) <= g + w /\ Ends(P[j]) = P[j].from + Len(P[j].bytes)
      BY <1>2, <1>5, <2>1 DEF Ends
    <3> DEFINE p == P[j].from + i - g
    <3>2. i \in 1 .. Len(P[j].bytes) /\ p \in 1 .. w
      <4>1. /\ P[j].from \in Nat /\ Len(P[j].bytes) \in Nat /\ i \in 1 .. Len(P[j].bytes)
            /\ P[j].from + Len(P[j].bytes) <= g + w
            /\ P[j].from + i - g \in 1 .. w + k
        BY <1>6, <2>1, <2>0, <3>1
      <4>2. w + k \in Nat /\ w \in Nat
        BY <1>1, <1>3
      <4> QED
        BY <1>4, <4>1, <4>2, Within
    <3>3. Way[p] = P[j].bytes[i]
      BY <2>1, <3>2 DEF Carries, w, n
    <3> HIDE DEF p
    <3>4. Way'[p] = Way[p]
      BY <1>1, <3>2
    <3> QED
      BY <3>1, <3>3, <3>4 DEF p
  <2>2. CASE j = n + 1
    <3>1. Q[j] = x
      BY <1>2, <2>2
    <3>2. Q[j].from + i - g = w + i /\ i \in 1 .. k
      BY <1>1, <1>3, <1>4, <1>5, <2>0, <3>1
    <3> QED
      BY <1>1, <3>1, <3>2
  <2> QED
    BY <1>2, <2>1, <2>2
<1>8. ReaderAt(Q, c, g)'
  <2>1. Q[c] = P[c] /\ c \in 1 .. Len(Q)
    BY <1>2, <1>4
  <2> QED
    BY <2>1 DEF ReaderAt
<1>9. WriterAt(Q, g + Len(Way))'
  <2> DEFINE m == g + (w + k)
  <2>1. \A j \in 1 .. Len(Q) : Q[j].at + Q[j].n <= put'
    <3> SUFFICES ASSUME NEW j \in 1 .. Len(Q) PROVE Q[j].at + Q[j].n <= put'
      OBVIOUS
    <3>1. CASE j \in 1 .. n
      <4>1. /\ Q[j] = P[j] /\ P[j].at \in Nat /\ P[j].n \in Nat /\ P[j].at + P[j].n <= put
        BY <1>2, <1>6, <3>1
      <4>2. \A a, b \in Nat : a + b <= put => a + b <= put'
        BY <1>3
      <4> QED
        BY <4>1, <4>2
    <3>2. CASE j = n + 1
      BY <1>2, <1>3, <3>2
    <3> QED
      BY <1>2, <3>1, <3>2
  <2>2. m <= Ends(x) /\ (k = Len(x.bytes) <=> m = Ends(x))
    <3>1. Ends(x) = (g + w) + Len(x.bytes)
      BY <1>5 DEF Ends
    <3>2. w \in Nat
      BY <1>1
    <3> DEFINE l == Len(x.bytes)
               e == Ends(x)
    <3>3. l \in Nat /\ k \in 0 .. l /\ e = (g + w) + l
      BY <1>3, <3>1
    <3> HIDE DEF l, e
    <3>4. g + (w + k) <= e /\ (k = l <=> g + (w + k) = e)
      BY <1>4, <3>2, <3>3, UpTo
    <3> QED
      BY <3>4 DEF l, e
  <2>3. Q[Len(Q)] = x
    BY <1>2
  <2>4. (g + Len(Way))' = m
    BY <1>1
  <2>5. ~broken' <=> m = Ends(x)
    BY <1>1, <1>3, <2>2
  <2>6. x.n = 0 => put' = x.at
    BY <1>3
  <2> HIDE DEF m
  <2> QED
    BY <2>1, <2>2, <2>3, <2>4, <2>5, <2>6 DEF WriterAt
<1> QED
  BY <1>2, <1>7, <1>8, <1>9 DEF InStep

LEMMA LastPiece ==
    ASSUME NEW P, Chain(P)
    PROVE  /\ WellFormed(P[Len(P)]) /\ Ends(P[Len(P)]) \in Nat
           /\ P[Len(P)].at \in Nat /\ P[Len(P)].n \in Nat
<1>1. Len(P) \in Nat /\ Len(P) >= 1
  BY DEF Chain
<1>2. WellFormed(P[Len(P)])
  BY <1>1 DEF Chain
<1>3. /\ P[Len(P)].at \in Nat /\ P[Len(P)].n \in Nat
      /\ P[Len(P)].from \in Nat /\ P[Len(P)].bytes \in Seq(Octets)
  BY <1>2 DEF WellFormed, Pieces
<1>4. Ends(P[Len(P)]) \in Nat
  BY <1>3 DEF Ends
<1> QED
  BY <1>2, <1>3, <1>4

\* A size line is digits and what a sender may put behind them.
LEMMA SizeLineFacts ==
    ASSUME NEW line \in SizeLines
    PROVE  /\ line[1] \in Seq(0 .. Base - 1) /\ line[2] \in Seq(Octets)
           /\ \A i \in 1 .. Len(line[2]) : line[2][i] # LF
           /\ line[2] # <<>> => line[2][1].t # "digit"
<1>1. Base \in Nat /\ Digits \in Nat
  BY ChunkedAssumption
<1>2. CASE line \in ForeignSizes
  <2>1. line[1] \in Seq(0 .. Base - 1) /\ line[2] \in Seq(Octets)
    BY <1>2, ChunkedAssumption
  <2>2. /\ \A i \in DOMAIN line[2] : line[2][i] # LF
        /\ line[2] # <<>> => line[2][1].t # "digit"
    BY <1>2, ForeignAssumption
  <2> QED
    BY <2>1, <2>2
<1>3. CASE line \in Hex \X {<<>>}
  <2>1. line[1] \in Hex /\ line[2] = <<>>
    BY <1>3
  <2>2. PICK l \in 1 .. Digits : line[1] \in [1 .. l -> 0 .. Base - 1]
    BY <2>1 DEF Hex
  <2>3. line[1] \in Seq(0 .. Base - 1)
    BY <1>1, <2>2
  <2> QED
    BY <2>1, <2>3
<1> QED
  BY <1>2, <1>3 DEF SizeLines

\* A size line after a footer.
LEMMA LineWritten ==
    ASSUME ChInv, ~broken, ~ended, cw.step = "idle", buf' = buf, cr' = cr, got' = got,
           NEW P, NEW c, NEW g,
           Chain(P), Carries(P, g, Way), WriterAt(P, g + Len(Way)), ReaderAt(P, c, g),
           NEW bs \in Seq(Octets), NEW n \in Nat, SaysSize(bs, n), Emit(bs),
           put' = put + n,
           ~broken' => \/ n > 0 /\ cw'.step = "data" /\ cw'.left = n
                       \/ n = 0 /\ cw'.step = "idle" /\ ended'
    PROVE  InStep'
<1> DEFINE y == P[Len(P)]
           x == [t |-> "line", bytes |-> bs, n |-> n, at |-> put, from |-> Ends(y)]
<1>1. WellFormed(y) /\ Ends(y) \in Nat /\ y.at \in Nat /\ y.n \in Nat
  BY LastPiece
<1>2. y.t = "foot" /\ put = y.at + y.n
  BY DEF WriterAt
<1>3. y.n = 0
  BY <1>1, <1>2 DEF WellFormed
<1>4. put \in Nat /\ put = y.at
  BY <1>1, <1>2, <1>3
<1> HIDE DEF y
<1>5. x \in Pieces
  BY <1>1, <1>4 DEF Pieces
<1>6. x.t = "line" /\ x.bytes = bs /\ x.n = n /\ x.at = put /\ x.from = Ends(y)
  OBVIOUS
<1> HIDE DEF x
<1>7. WellFormed(x)
  BY <1>5, <1>6 DEF WellFormed
<1>8. Follows(y, x)
  BY <1>2, <1>4, <1>6 DEF Follows
<1>9. put' = x.at + x.n /\ put <= put' /\ put' \in Nat
  BY <1>4, <1>6
<1>10. ~broken' => /\ cw'.step = "data" => x.t = "line" /\ x.n > 0 /\ cw'.left = x.n
                   /\ cw'.step = "footer" => x.t = "data"
                   /\ cw'.step = "idle" => x.t = "foot" \/ (x.t = "line" /\ x.n = 0 /\ ended')
                   /\ x.t = "line" /\ x.n = 0 => ended'
  BY <1>6
<1>11. Emit(x.bytes)
  BY <1>6
<1> QED
  BY <1>7, <1>8, <1>9, <1>10, <1>11, SenderStep DEF y

LEMMA StreamWriteSize ==
    ASSUME ChInv, InStep, NEW line \in SizeLines, WriteSize(line[1], line[2])
    PROVE  InStep'
<1> DEFINE v == Value(line[1])
           bs == AsDigits(line[1]) \o line[2] \o CRLF
<1>1. /\ ~broken /\ ~ended /\ cw.step = "idle" /\ buf' = buf /\ cr' = cr /\ got' = got
      /\ v \in 1 .. MaxData - put /\ put' = put + v /\ Emit(bs)
      /\ cw' = [step |-> "data", left |-> v]
  BY DEF WriteSize
<1>2. /\ line[1] \in Seq(0 .. Base - 1) /\ line[2] \in Seq(Octets)
      /\ \A i \in 1 .. Len(line[2]) : line[2][i] # LF
      /\ line[2] # <<>> => line[2][1].t # "digit"
  BY SizeLineFacts
<1>3. SaysSize(bs, v)
  BY <1>2, LineSays
<1>4. bs \in Seq(Octets)
  BY LineTypes, AsDigitsType, OctetTypes
<1> HIDE DEF bs, v
<1>5. v \in Nat /\ v > 0 /\ cw'.step = "data" /\ cw'.left = v
  BY <1>1, Parts, ChunkedAssumption
<1>6. CASE cr.err # "nil"
  BY <1>1, <1>6 DEF InStep
<1>7. CASE cr.err = "nil"
  <2>1. PICK P, c, g : /\ Chain(P) /\ Carries(P, g, Way)
                       /\ WriterAt(P, g + Len(Way)) /\ ReaderAt(P, c, g)
    BY <1>7 DEF InStep
  <2> QED
    BY <1>1, <1>3, <1>4, <1>5, <2>1, LineWritten
<1> QED
  BY <1>6, <1>7

\* The final chunk announces no data.
LEMMA NoSize ==
    ASSUME NEW ds \in {<< 0 >>, <<0, 0>>, <<>>}
    PROVE  ds \in Seq(Nat) /\ ds \in Seq(0 .. Base - 1) /\ Value(ds) = 0
<1>0. Base \in Nat /\ Base >= 2 /\ 0 \in 0 .. Base - 1
  BY ChunkedAssumption
<1>1. /\ ds \in Seq(Nat) /\ ds \in Seq(0 .. Base - 1)
      /\ Len(ds) \in 0 .. 2 /\ \A i \in 1 .. Len(ds) : ds[i] = 0
  <2>1. CASE ds = <<0>>
    BY <1>0, <2>1
  <2>2. CASE ds = <<0, 0>>
    BY <1>0, <2>2
  <2>3. CASE ds = <<>>
    BY <1>0, <2>3
  <2> QED
    BY <2>1, <2>2, <2>3
<1>2. PICK v \in [0 .. Len(ds) -> Nat] :
              /\ v[0] = 0 /\ \A i \in 1 .. Len(ds) : v[i] = v[i - 1] * Base + ds[i]
              /\ Value(ds) = v[Len(ds)]
  BY <1>1, ValueSteps
<1>3. 0 * Base + 0 = 0
  BY <1>0
<1>4. Len(ds) >= 1 => v[1] = 0
  <2> SUFFICES ASSUME Len(ds) >= 1 PROVE v[1] = 0
    OBVIOUS
  <2>1. 1 \in 1 .. Len(ds) /\ 1 - 1 = 0
    BY <1>1
  <2> QED
    BY <1>1, <1>2, <1>3, <2>1
<1>5. Len(ds) = 2 => v[2] = 0
  <2> SUFFICES ASSUME Len(ds) = 2 PROVE v[2] = 0
    OBVIOUS
  <2>1. 2 \in 1 .. Len(ds) /\ 2 - 1 = 1
    BY <1>1
  <2> QED
    BY <1>1, <1>2, <1>3, <1>4, <2>1
<1>6. Len(ds) = 0 \/ Len(ds) = 1 \/ Len(ds) = 2
  BY <1>1
<1>7. Value(ds) = 0
  BY <1>2, <1>4, <1>5, <1>6
<1> QED
  BY <1>1, <1>7

LEMMA StreamWriteEnd ==
    ASSUME ChInv, InStep, NEW ds \in {<< 0 >>, <<0, 0>>, <<>>}, WriteEnd(ds)
    PROVE  InStep'
<1> DEFINE bs == AsDigits(ds) \o CRLF
<1>1. /\ ~broken /\ ~ended /\ cw.step = "idle" /\ buf' = buf /\ cr' = cr /\ got' = got
      /\ put' = put /\ Emit(bs) /\ cw' = cw /\ ended' = ~broken'
  BY DEF WriteEnd
<1>2. ds \in Seq(Nat) /\ ds \in Seq(0 .. Base - 1) /\ Value(ds) = 0
  BY NoSize
<1>3. AsDigits(ds) \in Seq(Octets) /\ bs \in Seq(Octets)
  BY <1>2, AsDigitsType, OctetTypes
<1>4. SaysSize(bs, 0)
  <2> DEFINE none == <<>>
  <2>1. /\ none \in Seq(Octets)
        /\ \A i \in 1 .. Len(none) : none[i] # LF
        /\ none # <<>> => none[1].t # "digit"
    OBVIOUS
  <2>2. AsDigits(ds) \o none = AsDigits(ds)
    BY <1>3, ConcatEmptySeq
  <2> HIDE DEF none
  <2>3. SaysSize(AsDigits(ds) \o none \o CRLF, Value(ds))
    BY <1>2, <2>1, LineSays
  <2> QED
    BY <1>2, <2>2, <2>3
<1> HIDE DEF bs
<1>5. put' = put + 0
  BY <1>1, Parts
<1>6. CASE cr.err # "nil"
  BY <1>1, <1>6 DEF InStep
<1>7. CASE cr.err = "nil"
  <2>1. PICK P, c, g : /\ Chain(P) /\ Carries(P, g, Way)
                       /\ WriterAt(P, g + Len(Way)) /\ ReaderAt(P, c, g)
    BY <1>7 DEF InStep
  <2>2. ~broken' => \/ 0 > 0 /\ cw'.step = "data" /\ cw'.left = 0
                    \/ 0 = 0 /\ cw'.step = "idle" /\ ended'
    BY <1>1
  <2>3. 0 \in Nat
    OBVIOUS
  <2> QED
    BY <1>1, <1>3, <1>4, <1>5, <2>1, <2>2, <2>3, LineWritten
<1> QED
  BY <1>6, <1>7

LEMMA StreamWriteData ==
    ASSUME ChInv, InStep, WriteData
    PROVE  InStep'
<1> DEFINE bs == [i \in 1 .. cw.left |-> Data(put - cw.left + i)]
<1>1. /\ ~broken /\ cw.step = "data" /\ buf' = buf /\ cr' = cr /\ got' = got
      /\ put' = put /\ Emit(bs) /\ cw' = [step |-> "footer", left |-> 0]
  BY DEF WriteData
<1>2. cw.left \in Nat /\ put \in Nat /\ cw.left <= put
  BY Parts
<1>3. bs \in Seq(Octets) /\ Len(bs) = cw.left /\ \A i \in 1 .. cw.left : bs[i] = Data(put - cw.left + i)
  <2>1. \A i \in 1 .. cw.left : put - cw.left + i \in Nat
    BY <1>2
  <2>2. bs \in [1 .. cw.left -> Octets]
    BY <2>1, OctetTypes
  <2>3. \A i \in 1 .. cw.left : bs[i] = Data(put - cw.left + i)
    OBVIOUS
  <2> HIDE DEF bs
  <2>4. bs \in Seq(Octets)
    BY <1>2, <2>2, FunctionIsSequence, Zenon
  <2>5. DOMAIN bs = 1 .. cw.left /\ DOMAIN bs = 1 .. Len(bs) /\ Len(bs) \in Nat
    BY <2>2, <2>4
  <2>6. Len(bs) = cw.left
    BY <1>2, <2>2, LenProperties
  <2> QED
    BY <2>3, <2>4, <2>6
<1> HIDE DEF bs
<1>6. CASE cr.err # "nil"
  BY <1>1, <1>6 DEF InStep
<1>7. CASE cr.err = "nil"
  <2>1. PICK P, c, g : /\ Chain(P) /\ Carries(P, g, Way)
                       /\ WriterAt(P, g + Len(Way)) /\ ReaderAt(P, c, g)
    BY <1>7 DEF InStep
  <2> DEFINE y == P[Len(P)]
             x == [t |-> "data", bytes |-> bs, n |-> cw.left, at |-> y.at, from |-> Ends(y)]
  <2>2. Ends(y) \in Nat /\ y.at \in Nat /\ y.n \in Nat
    BY <2>1, LastPiece
  <2>3. y.t = "line" /\ y.n > 0 /\ cw.left = y.n /\ put = y.at + y.n
    BY <1>1, <2>1 DEF WriterAt
  <2> HIDE DEF y
  <2>4. x \in Pieces
    BY <1>2, <1>3, <2>2 DEF Pieces
  <2>5. x.t = "data" /\ x.bytes = bs /\ x.n = cw.left /\ x.at = y.at /\ x.from = Ends(y)
    OBVIOUS
  <2> HIDE DEF x
  <2>6. \A i \in 1 .. x.n : x.bytes[i] = Data(x.at + i)
    <3>1. put - cw.left = y.at
      BY <1>2, <2>2, <2>3
    <3> QED
      BY <1>3, <2>5, <3>1
  <2>7. WellFormed(x)
    BY <1>3, <2>4, <2>5, <2>6 DEF WellFormed
  <2>8. Follows(y, x)
    BY <2>3, <2>5 DEF Follows
  <2>9. put' = x.at + x.n /\ put <= put' /\ put' \in Nat
    BY <1>1, <1>2, <2>3, <2>5
  <2>10. ~broken' => /\ cw'.step = "data" => x.t = "line" /\ x.n > 0 /\ cw'.left = x.n
                     /\ cw'.step = "footer" => x.t = "data"
                     /\ cw'.step = "idle" => x.t = "foot" \/ (x.t = "line" /\ x.n = 0 /\ ended')
                     /\ x.t = "line" /\ x.n = 0 => ended'
    BY <1>1, <2>5
  <2>11. Emit(x.bytes)
    BY <1>1, <2>5
  <2> QED
    BY <1>1, <2>1, <2>7, <2>8, <2>9, <2>10, <2>11, SenderStep DEF y
<1> QED
  BY <1>6, <1>7

LEMMA StreamWriteFooter ==
    ASSUME ChInv, InStep, WriteFooter
    PROVE  InStep'
<1>1. /\ ~broken /\ cw.step = "footer" /\ buf' = buf /\ cr' = cr /\ got' = got
      /\ put' = put /\ Emit(CRLF) /\ cw' = [step |-> "idle", left |-> 0]
  BY DEF WriteFooter
<1>2. put \in Nat
  BY Parts
<1>3. CRLF \in Seq(Octets) /\ Len(CRLF) = 2
  BY OctetTypes DEF CRLF
<1>6. CASE cr.err # "nil"
  BY <1>1, <1>6 DEF InStep
<1>7. CASE cr.err = "nil"
  <2>1. PICK P, c, g : /\ Chain(P) /\ Carries(P, g, Way)
                       /\ WriterAt(P, g + Len(Way)) /\ ReaderAt(P, c, g)
    BY <1>7 DEF InStep
  <2> DEFINE y == P[Len(P)]
             x == [t |-> "foot", bytes |-> CRLF, n |-> 0, at |-> put, from |-> Ends(y)]
  <2>2. Ends(y) \in Nat
    BY <2>1, LastPiece
  <2>3. y.t = "data" /\ put = y.at + y.n
    BY <1>1, <2>1 DEF WriterAt
  <2> HIDE DEF y
  <2>4. x \in Pieces
    BY <1>2, <1>3, <2>2 DEF Pieces
  <2>5. x.t = "foot" /\ x.bytes = CRLF /\ x.n = 0 /\ x.at = put /\ x.from = Ends(y)
    OBVIOUS
  <2> HIDE DEF x
  <2>7. WellFormed(x)
    BY <2>4, <2>5 DEF WellFormed
  <2>8. Follows(y, x)
    BY <1>3, <2>3, <2>5 DEF Follows
  <2>9. put' = x.at + x.n /\ put <= put' /\ put' \in Nat
    BY <1>1, <1>2, <2>5
  <2>10. ~broken' => /\ cw'.step = "data" => x.t = "line" /\ x.n > 0 /\ cw'.left = x.n
                     /\ cw'.step = "footer" => x.t = "data"
                     /\ cw'.step = "idle" => x.t = "foot" \/ (x.t = "line" /\ x.n = 0 /\ ended')
                     /\ x.t = "line" /\ x.n = 0 => ended'
    BY <1>1, <2>5
  <2>11. Emit(x.bytes)
    BY <1>1, <2>5
  <2> QED
    BY <1>1, <2>1, <2>7, <2>8, <2>9, <2>10, <2>11, SenderStep DEF y
<1> QED
  BY <1>6, <1>7

LEMMA StreamHangup ==
    ASSUME ChInv, InStep, Hangup
    PROVE  InStep'
<1>1. /\ broken' /\ wire' = wire /\ buf' = buf /\ cr' = cr /\ got' = got
      /\ put' = put /\ cw' = cw /\ ended' = ended
  BY DEF Hangup
<1>2. Way' = Way
  BY <1>1 DEF Way
<1>3. CASE cr.err # "nil"
  BY <1>1, <1>3 DEF InStep
<1>4. CASE cr.err = "nil"
  <2>1. PICK P, c, g : /\ Chain(P) /\ Carries(P, g, Way)
                       /\ WriterAt(P, g + Len(Way)) /\ ReaderAt(P, c, g)
    BY <1>4 DEF InStep
  <2>2. WriterAt(P, g + Len(Way))'
    BY <1>1, <1>2, <2>1 DEF WriterAt
  <2>3. ReaderAt(P, c, g)'
    BY <1>1, <2>1 DEF ReaderAt
  <2> QED
    BY <1>2, <2>1, <2>2, <2>3 DEF InStep
<1> QED
  BY <1>3, <1>4

--------------------------------------------------------------------------------
(* The reader keeps in step.                                                *)

\* What is taken from the buffer is the first of what is on the way.
LEMMA Taken ==
    ASSUME ChInv, wire' = wire, NEW k \in 0 .. Len(buf), buf' = SubSeq(buf, k + 1, Len(buf))
    PROVE  /\ Len(Way) \in Nat /\ Len(Way) >= Len(buf) /\ Len(Way') = Len(Way) - k
           /\ \A p \in 1 .. Len(Way) - k : Way'[p] = Way[p + k]
           /\ \A p \in 1 .. Len(buf) : Way[p] = buf[p]
<1> DEFINE a == SubSeq(buf, 1, k)
           b == SubSeq(buf, k + 1, Len(buf))
           W == b \o wire
<1>0. wire \in Seq(Octets) /\ buf \in Seq(Octets) /\ Len(buf) \in Nat /\ k \in Nat /\ Len(wire) \in Nat
  BY Parts
<1>1. a \in Seq(Octets) /\ Len(a) = k /\ b \in Seq(Octets)
  BY <1>0
<1>2. a \o b = buf
  <2>1. 1 \in 1 .. Len(buf) + 1 /\ k \in 1 - 1 .. Len(buf) /\ Len(buf) \in k .. Len(buf)
    BY <1>0
  <2>2. a \o b = SubSeq(buf, 1, Len(buf))
    BY <1>0, <2>1, ConcatAdjacentSubSeq
  <2>3. SubSeq(buf, 1, Len(buf)) = buf
    BY <1>0, SubSeqFull
  <2> QED
    BY <2>2, <2>3
<1>3. Way' = W
  BY DEF Way
<1> HIDE DEF a, b
<1>4. Way = a \o W
  <2>1. (a \o b) \o wire = a \o (b \o wire)
    <3>1. a \in Seq(Octets) /\ b \in Seq(Octets) /\ wire \in Seq(Octets)
      BY <1>0, <1>1
    <3>2. \A r, s, t \in Seq(Octets) : (r \o s) \o t = r \o (s \o t)
      BY ConcatAssociative
    <3> QED
      BY <3>1, <3>2, Zenon
  <2> QED
    BY <1>2, <2>1 DEF Way
<1>5. W \in Seq(Octets) /\ Len(W) \in Nat
  BY <1>0, <1>1
<1> HIDE DEF W
<1>6. /\ Len(a \o W) = Len(a) + Len(W)
      /\ \A i \in 1 .. Len(a) + Len(W) : (a \o W)[i] = IF i <= Len(a) THEN a[i] ELSE W[i - Len(a)]
  BY <1>1, <1>5, ConcatProperties
<1>7. /\ Len(Way) = k + Len(W)
      /\ \A i \in 1 .. k + Len(W) : Way[i] = IF i <= k THEN a[i] ELSE W[i - k]
  BY <1>1, <1>4, <1>6
<1>8. Len(Way) - k = Len(W)
  BY <1>0, <1>5, <1>7
<1>9. ASSUME NEW p \in 1 .. Len(W) PROVE W[p] = Way[p + k]
  <2> DEFINE q == p + k
  <2>1. q \in 1 .. k + Len(W) /\ ~(q <= k) /\ q - k = p
    BY <1>0, <1>5
  <2> HIDE DEF q
  <2>2. Way[q] = W[q - k]
    BY <1>7, <2>1
  <2> QED
    BY <2>1, <2>2 DEF q
<1>10. /\ Len(Way) = Len(buf) + Len(wire)
       /\ \A i \in 1 .. Len(buf) + Len(wire) : Way[i] = IF i <= Len(buf) THEN buf[i] ELSE wire[i - Len(buf)]
  BY <1>0, ConcatProperties DEF Way
<1>11. \A p \in 1 .. Len(buf) : Way[p] = buf[p]
  <2>1. \A p \in 1 .. Len(buf) : p \in 1 .. Len(buf) + Len(wire) /\ p <= Len(buf)
    BY <1>0
  <2> QED
    BY <1>10, <2>1
<1>12. Len(Way) \in Nat /\ Len(Way) >= Len(buf)
  BY <1>0, <1>10
<1> QED
  BY <1>3, <1>8, <1>9, <1>11, <1>12

LEMMA Shifted ==
    ASSUME NEW f \in Nat, NEW i \in Nat, NEW g \in Nat, NEW k \in Nat, NEW w \in Nat,
           f + i - (g + k) \in 1 .. w - k
    PROVE  (f + i - (g + k)) + k = f + i - g /\ f + i - g \in 1 .. w
OBVIOUS

\* Taking k bytes moves the reader to a place k bytes on.
LEMMA ReaderStep ==
    ASSUME ChInv, wire' = wire, NEW k \in 0 .. Len(buf), buf' = SubSeq(buf, k + 1, Len(buf)),
           put' = put, broken' = broken, cw' = cw, ended' = ended,
           NEW P, NEW c, NEW g \in Nat, NEW d, NEW h, h = g + k,
           Chain(P), Carries(P, g, Way), WriterAt(P, g + Len(Way)), ReaderAt(P, d, h)'
    PROVE  InStep'
<1> DEFINE w == Len(Way)
<1>1. /\ w \in Nat /\ w >= Len(buf) /\ Len(Way') = w - k
      /\ \A p \in 1 .. w - k : Way'[p] = Way[p + k]
  BY Taken
<1>2. k \in Nat /\ k <= w /\ w - k \in Nat
  <2>1. Len(buf) \in Nat
    BY Parts
  <2> QED
    BY <1>1, <2>1
<1> HIDE DEF w
<1>3. Carries(P, h, Way')
  <2> SUFFICES ASSUME NEW j \in 1 .. Len(P), NEW i \in 1 .. Len(P[j].bytes),
                      P[j].from + i - h \in 1 .. Len(Way')
               PROVE  Way'[P[j].from + i - h] = P[j].bytes[i]
    BY DEF Carries
  <2>1. P[j].from \in Nat /\ i \in Nat
    <3>1. P[j].from \in Nat /\ P[j].bytes \in Seq(Octets)
      BY DEF Chain, WellFormed, Pieces
    <3> QED
      BY <3>1
  <2> DEFINE f == P[j].from
             p == f + i - (g + k)
  <2>2. p \in 1 .. w - k
    BY <1>1
  <2>3. p + k = f + i - g /\ f + i - g \in 1 .. w
    BY <1>1, <1>2, <2>1, <2>2, Shifted
  <2>4. Way[f + i - g] = P[j].bytes[i]
    BY <2>3 DEF Carries, w
  <2>5. P[j].from + i - h = p
    OBVIOUS
  <2> HIDE DEF f, p
  <2>6. Way'[p] = Way[p + k]
    BY <1>1, <2>2
  <2> QED
    BY <2>3, <2>4, <2>5, <2>6
<1>4. h + Len(Way') = g + w
  <2>1. (g + k) + (w - k) = g + w
    BY <1>1, <1>2
  <2> QED
    BY <1>1, <2>1
<1>5. WriterAt(P, g + w)
  BY DEF w
<1>7. WriterAt(P, h + Len(Way))'
  BY <1>4, <1>5 DEF WriterAt
<1> QED
  BY <1>3, <1>7 DEF InStep

LEMMA SameWay ==
    ASSUME InStep, Way' = Way, cr' = cr, got' = got,
           put' = put, broken' = broken, cw' = cw, ended' = ended
    PROVE  InStep'
<1>1. CASE cr.err # "nil"
  BY <1>1 DEF InStep
<1>2. CASE cr.err = "nil"
  <2>1. PICK P, c, g : /\ Chain(P) /\ Carries(P, g, Way)
                       /\ WriterAt(P, g + Len(Way)) /\ ReaderAt(P, c, g)
    BY <1>2 DEF InStep
  <2>2. WriterAt(P, g + Len(Way))'
    BY <2>1 DEF WriterAt
  <2>3. ReaderAt(P, c, g)'
    BY <2>1 DEF ReaderAt
  <2> QED
    BY <2>1, <2>2, <2>3 DEF InStep
<1> QED
  BY <1>1, <1>2

LEMMA StreamFillBuffer ==
    ASSUME ChInv, InStep, FillBuffer
    PROVE  InStep'
<1>0. wire \in Seq(Octets) /\ buf \in Seq(Octets) /\ Len(wire) \in Nat
  BY Parts
<1>1. PICK k \in 1 .. Len(wire) : /\ buf' = buf \o SubSeq(wire, 1, k)
                                  /\ wire' = SubSeq(wire, k + 1, Len(wire))
  BY DEF FillBuffer
<1> DEFINE a == SubSeq(wire, 1, k)
           b == SubSeq(wire, k + 1, Len(wire))
<1>2. a \in Seq(Octets) /\ b \in Seq(Octets)
  BY <1>0
<1>3. a \o b = wire
  <2>1. 1 \in 1 .. Len(wire) + 1 /\ k \in 1 - 1 .. Len(wire) /\ Len(wire) \in k .. Len(wire)
    BY <1>0
  <2>2. a \o b = SubSeq(wire, 1, Len(wire))
    BY <1>0, <2>1, ConcatAdjacentSubSeq
  <2>3. SubSeq(wire, 1, Len(wire)) = wire
    BY <1>0, SubSeqFull
  <2> QED
    BY <2>2, <2>3
<1>4. Way' = (buf \o a) \o b
  BY <1>1 DEF Way
<1> HIDE DEF a, b
<1>5. (buf \o a) \o b = buf \o (a \o b)
  <2>1. \A r, s, t \in Seq(Octets) : (r \o s) \o t = r \o (s \o t)
    BY ConcatAssociative
  <2> QED
    BY <1>0, <1>2, <2>1, Zenon
<1>6. Way' = Way
  BY <1>3, <1>4, <1>5 DEF Way
<1>7. cr' = cr /\ got' = got /\ put' = put /\ broken' = broken /\ cw' = cw /\ ended' = ended
  BY DEF FillBuffer
<1> QED
  BY <1>6, <1>7, SameWay

\* A reader that has bytes before it is not at the end of the last piece.
LEMMA NextPiece ==
    ASSUME NEW P, NEW c \in 1 .. Len(P), NEW m \in Nat,
           Chain(P), WriterAt(P, m), m > Ends(P[c])
    PROVE  /\ c + 1 \in 1 .. Len(P) /\ Len(P) \in Nat
           /\ Follows(P[c], P[c + 1]) /\ WellFormed(P[c + 1]) /\ WellFormed(P[c])
<1>1. Len(P) \in Nat /\ Len(P) >= 1 /\ WellFormed(P[c])
  BY DEF Chain
<1>2. P[c].from \in Nat /\ P[c].bytes \in Seq(Octets)
  BY <1>1 DEF WellFormed, Pieces
<1>3. Ends(P[c]) \in Nat
  BY <1>2 DEF Ends
<1>4. c # Len(P)
  <2>1. m <= Ends(P[Len(P)])
    BY DEF WriterAt
  <2> QED
    BY <1>3, <2>1
<1>5. c \in 1 .. Len(P) - 1 /\ c + 1 \in 1 .. Len(P)
  BY <1>1, <1>4
<1> QED
  BY <1>1, <1>5 DEF Chain

LEMMA PieceTypes ==
    ASSUME NEW x, WellFormed(x)
    PROVE  /\ x.from \in Nat /\ x.bytes \in Seq(Octets) /\ Len(x.bytes) \in Nat
           /\ x.n \in Nat /\ x.at \in Nat /\ Ends(x) \in Nat /\ Ends(x) = x.from + Len(x.bytes)
<1>1. x.from \in Nat /\ x.bytes \in Seq(Octets) /\ x.n \in Nat /\ x.at \in Nat
  BY DEF WellFormed, Pieces
<1>2. Len(x.bytes) \in Nat
  BY <1>1
<1> QED
  BY <1>1, <1>2 DEF Ends

\* The line at the front of the buffer is the next piece.
LEMMA LineIsPiece ==
    ASSUME ChInv, HasLine(buf),
           NEW P, NEW c, NEW g \in Nat,
           Chain(P), Carries(P, g, Way), WriterAt(P, g + Len(Way)),
           c \in 1 .. Len(P), P[c].t = "foot", g = Ends(P[c])
    PROVE  /\ c + 1 \in 1 .. Len(P) /\ Len(P) \in Nat
           /\ WellFormed(P[c + 1]) /\ Follows(P[c], P[c + 1])
           /\ P[c + 1].t = "line" /\ P[c + 1].at = P[c].at
           /\ LineEnd(buf) \in 1 .. Len(buf)
           /\ Ends(P[c + 1]) = g + LineEnd(buf)
           /\ SubSeq(buf, 1, LineEnd(buf)) = P[c + 1].bytes
<1> DEFINE e == LineEnd(buf)
           y == P[c + 1]
           l == Len(y.bytes)
           w == Len(Way)
<1>0. buf \in Seq(Octets) /\ Len(buf) \in Nat
  BY Parts
<1>1. /\ e \in 1 .. Len(buf) /\ buf[e] = LF
      /\ \A i \in 1 .. Len(buf) : buf[i] = LF => e <= i
  BY <1>0, LineFacts
<1>2. w \in Nat /\ w >= Len(buf) /\ \A p \in 1 .. Len(buf) : Way[p] = buf[p]
  <2>0. wire \in Seq(Octets) /\ Len(wire) \in Nat
    BY Parts
  <2>1. /\ w = Len(buf) + Len(wire)
        /\ \A i \in 1 .. Len(buf) + Len(wire) : Way[i] = IF i <= Len(buf) THEN buf[i] ELSE wire[i - Len(buf)]
    BY <1>0, <2>0, ConcatProperties DEF Way
  <2> HIDE DEF w
  <2>2. \A p \in 1 .. Len(buf) : p \in 1 .. Len(buf) + Len(wire) /\ p <= Len(buf)
    BY <1>0, <2>0
  <2>3. \A p \in 1 .. Len(buf) : Way[p] = buf[p]
    BY <2>1, <2>2
  <2>4. w \in Nat /\ w >= Len(buf)
    BY <1>0, <2>0, <2>1
  <2> QED
    BY <2>3, <2>4
<1> HIDE DEF e
<1>3. /\ c + 1 \in 1 .. Len(P) /\ Len(P) \in Nat
      /\ Follows(P[c], y) /\ WellFormed(y)
  <2> HIDE DEF w
  <2>1. g + w \in Nat /\ g + w > Ends(P[c])
    BY <1>0, <1>1, <1>2
  <2>2. WriterAt(P, g + w)
    BY DEF w
  <2> QED
    BY <2>1, <2>2, NextPiece
<1>4. y.t = "line" /\ y.at = P[c].at /\ y.from = g
  BY <1>3 DEF Follows
<1>5. y.bytes \in Seq(Octets) /\ l \in Nat /\ Ends(y) = g + l
  BY <1>3, <1>4, PieceTypes
<1>6. l >= 1 /\ \A i \in 1 .. l : y.bytes[i] = LF <=> i = l
  BY <1>3, <1>4 DEF WellFormed, SaysSize
<1>7. \A i \in 1 .. l : i <= Len(buf) => buf[i] = y.bytes[i]
  <2> SUFFICES ASSUME NEW i \in 1 .. l, i <= Len(buf) PROVE buf[i] = y.bytes[i]
    OBVIOUS
  <2>1. y.from + i - g = i
    BY <1>4, <1>5
  <2>2. i \in 1 .. w /\ i \in 1 .. Len(buf)
    BY <1>0, <1>2, <1>5
  <2>3. y.from + i - g \in 1 .. Len(Way) => Way[y.from + i - g] = y.bytes[i]
    BY <1>3 DEF Carries
  <2> QED
    BY <1>2, <2>1, <2>2, <2>3
<1> HIDE DEF l, w
<1>8. e = l
  <2>1. ~(e < l)
    <3> SUFFICES ASSUME e < l PROVE FALSE
      OBVIOUS
    <3>1. e \in 1 .. l /\ e <= Len(buf) /\ e # l
      BY <1>0, <1>1, <1>5
    <3> QED
      BY <1>1, <1>6, <1>7, <3>1
  <2>2. ~(e > l)
    <3> SUFFICES ASSUME e > l PROVE FALSE
      OBVIOUS
    <3>1. l \in 1 .. l /\ l <= Len(buf) /\ l \in 1 .. Len(buf) /\ ~(e <= l)
      BY <1>0, <1>1, <1>5, <1>6
    <3>2. buf[l] = LF
      BY <1>6, <1>7, <3>1
    <3> QED
      BY <1>1, <3>1, <3>2
  <2> QED
    BY <1>0, <1>1, <1>5, <2>1, <2>2
<1>9. SubSeq(buf, 1, e) = y.bytes
  <2> DEFINE s == SubSeq(buf, 1, e)
  <2>1. s \in Seq(Octets) /\ Len(s) = e /\ \A i \in 1 .. e : s[i] = buf[i]
    BY <1>0, <1>1
  <2>2. \A i \in 1 .. e : buf[i] = y.bytes[i]
    <3>1. \A i \in 1 .. e : i \in 1 .. l /\ i <= Len(buf)
      BY <1>0, <1>1, <1>8
    <3> QED
      BY <1>7, <3>1
  <2> HIDE DEF s
  <2>3. Len(s) = Len(y.bytes) /\ \A i \in 1 .. Len(s) : s[i] = y.bytes[i]
    BY <1>8, <2>1, <2>2 DEF l
  <2>4. s = y.bytes
    BY <1>5, <2>1, <2>3, SeqEqual
  <2> QED
    BY <2>4 DEF s
<1> QED
  BY <1>1, <1>3, <1>4, <1>5, <1>8, <1>9 DEF e

\* A size line of 0 is the last piece; when it is read whole, the stream has ended.
LEMMA EndIsReached ==
    ASSUME NEW P, NEW d \in 1 .. Len(P), NEW m \in Nat, Len(P) \in Nat,
           Chain(P), WriterAt(P, m), P[d].t = "line", P[d].n = 0, m >= Ends(P[d])
    PROVE  ended /\ put = P[d].at
<1>1. WellFormed(P[d])
  BY DEF Chain
<1>2. Ends(P[d]) \in Nat
  BY <1>1, PieceTypes
<1>3. d = Len(P)
  <2> SUFFICES ASSUME d # Len(P) PROVE FALSE
    OBVIOUS
  <2>1. d \in 1 .. Len(P) - 1
    OBVIOUS
  <2>2. Follows(P[d], P[d + 1])
    BY <2>1 DEF Chain
  <2> QED
    BY <2>2 DEF Follows
<1>4. m <= Ends(P[d])
  BY <1>3 DEF WriterAt
<1>5. m = Ends(P[d])
  BY <1>2, <1>4
<1> QED
  BY <1>3, <1>5 DEF WriterAt

LEMMA StreamBeginChunk ==
    ASSUME ChInv, InStep, StepFits, StreamExact, BeginChunk
    PROVE  InStep' /\ StreamExact'
<1> DEFINE e == LineEnd(buf)
           size == ParseHexUint(SizeOf(SubSeq(buf, 1, e)))
           err == IF ~size.ok THEN "malformed" ELSE IF size.n = 0 THEN "EOF" ELSE "nil"
<1>0. /\ rcall.pc = "line" /\ cr \in ReaderTypes
      /\ wire' = wire /\ put' = put /\ broken' = broken /\ cw' = cw /\ ended' = ended /\ got' = got
  BY Parts DEF BeginChunk
<1>1. cr.err = "nil" /\ cr.n = 0 /\ ~cr.checkEnd
  BY <1>0 DEF StepFits
<1>2. (\A i \in DOMAIN got : got[i] = Data(i)) /\ Len(got) <= put
  BY DEF StreamExact
<1>3. CASE ~HasLine(buf) \/ e >= BufCap
  <2>1. cr' = [cr EXCEPT !.err = "line too long"]
    BY <1>3 DEF BeginChunk
  <2>2. cr'.err = "line too long"
    BY <1>0, <2>1 DEF ReaderTypes
  <2> QED
    BY <1>0, <1>2, <2>2 DEF InStep, StreamExact
<1>4. CASE HasLine(buf) /\ ~(e >= BufCap)
  <2>1. cr' = [cr EXCEPT !.n = size.n, !.err = err]
    BY <1>4 DEF BeginChunk
  <2>2. buf' = SubSeq(buf, e + 1, Len(buf))
    BY <1>4 DEF BeginChunk
  <2>3. PICK P, c, g : /\ Chain(P) /\ Carries(P, g, Way)
                       /\ WriterAt(P, g + Len(Way)) /\ ReaderAt(P, c, g)
    BY <1>1 DEF InStep
  <2>4. /\ g \in Nat /\ c \in 1 .. Len(P)
        /\ P[c].t = "foot" /\ g = Ends(P[c]) /\ Len(got) = P[c].at
    BY <1>1, <2>3 DEF ReaderAt
  <2> DEFINE d == c + 1
             y == P[d]
  <2>5. /\ d \in 1 .. Len(P) /\ Len(P) \in Nat /\ WellFormed(y)
        /\ y.t = "line" /\ y.at = P[c].at /\ e \in 1 .. Len(buf)
        /\ Ends(y) = g + e /\ SubSeq(buf, 1, e) = y.bytes
    BY <1>4, <2>3, <2>4, LineIsPiece
  <2>6. size.ok => size.n = y.n
    BY <2>5 DEF WellFormed, SaysSize
  <2>7. y.n \in Nat /\ y.at \in Nat
    BY <2>5, PieceTypes
  <2>8. cr'.n = size.n /\ cr'.err = err /\ cr'.checkEnd = cr.checkEnd
    BY <1>0, <2>1 DEF ReaderTypes
  <2>9. /\ err = "nil" => size.ok /\ size.n # 0
        /\ err = "EOF" => size.ok /\ size.n = 0
    OBVIOUS
  <2> HIDE DEF size, err, e, y, d
  <2>10. Len(buf) \in Nat
    BY Parts
  <2>11. ASSUME cr'.err = "nil" PROVE InStep'
    <3>1. y.n > 0 /\ cr'.n = y.n /\ ~cr'.checkEnd
      BY <1>1, <2>6, <2>7, <2>8, <2>9, <2>11
    <3>2. e \in Nat /\ e \in 0 .. Len(buf) /\ g + e \in Nat
      BY <2>4, <2>5, <2>10
    <3>3. PICK h \in Nat : h = g + e
      BY <3>2
    <3>4. h = Ends(y) + (Len(got) - y.at) /\ Len(got) = y.at /\ Len(got) + cr'.n = y.at + y.n
      BY <2>4, <2>5, <2>7, <3>1, <3>2, <3>3
    <3>5. Len(got') = Len(got) /\ Len(got) >= y.at
      BY <1>0, <2>7, <3>4
    <3>6. ReaderAt(P, d, h)'
      BY <2>5, <3>1, <3>3, <3>4, <3>5 DEF ReaderAt, y
    <3> QED
      BY <1>0, <2>2, <2>3, <2>4, <3>2, <3>3, <3>6, ReaderStep
  <2>12. ASSUME cr'.err = "EOF" PROVE ended' /\ Len(got') = put'
    <3> DEFINE m == g + Len(Way)
    <3>1. y.n = 0
      BY <2>6, <2>8, <2>9, <2>12
    <3>2. Len(Way) \in Nat /\ Len(Way) >= Len(buf)
      <4>1. wire \in Seq(Octets) /\ buf \in Seq(Octets) /\ Len(wire) \in Nat
        BY Parts
      <4>2. Len(Way) = Len(buf) + Len(wire)
        BY <4>1, ConcatProperties DEF Way
      <4> QED
        BY <2>10, <4>1, <4>2
    <3>3. m \in Nat /\ m >= Ends(y)
      BY <2>4, <2>5, <2>10, <3>2
    <3>4. WriterAt(P, m)
      BY <2>3
    <3> HIDE DEF m
    <3>5. ended /\ put = y.at
      BY <2>3, <2>5, <3>1, <3>3, <3>4, EndIsReached DEF y
    <3> QED
      BY <1>0, <2>4, <2>5, <3>5
  <2>13. InStep'
    BY <2>11 DEF InStep
  <2> QED
    BY <1>0, <1>2, <2>12, <2>13 DEF StreamExact
<1> QED
  BY <1>3, <1>4

LEMMA StreamCheckFooter ==
    ASSUME ChInv, InStep, StepFits, CheckFooter
    PROVE  InStep'
<1>0. /\ rcall.pc = "footer" /\ Len(buf) >= 2 /\ cr \in ReaderTypes /\ Len(buf) \in Nat
      /\ wire' = wire /\ put' = put /\ broken' = broken /\ cw' = cw /\ ended' = ended /\ got' = got
      /\ buf' = SubSeq(buf, 2 + 1, Len(buf)) /\ 2 \in 0 .. Len(buf)
  BY Parts DEF CheckFooter, Ready
<1>1. cr.err = "nil" /\ cr.checkEnd
  BY <1>0 DEF StepFits
<1>2. CASE cr' = [cr EXCEPT !.err = "malformed"]
  <2>1. cr'.err = "malformed"
    BY <1>0, <1>2 DEF ReaderTypes
  <2> QED
    BY <2>1 DEF InStep
<1>3. CASE cr' = [cr EXCEPT !.checkEnd = FALSE]
  <2>1. ~cr'.checkEnd /\ cr'.n = cr.n
    BY <1>0, <1>3 DEF ReaderTypes
  <2>2. PICK P, c, g : /\ Chain(P) /\ Carries(P, g, Way)
                       /\ WriterAt(P, g + Len(Way)) /\ ReaderAt(P, c, g)
    BY <1>1 DEF InStep
  <2> DEFINE x == P[c]
             y == P[c + 1]
             z == P[(c + 1) + 1]
             m == g + Len(Way)
  <2>3. /\ g \in Nat /\ c \in 1 .. Len(P) /\ cr.n = 0
        /\ x.t = "line" /\ x.n > 0 /\ Len(got) + cr.n = x.at + x.n
        /\ g = Ends(x) + (Len(got) - x.at)
    BY <1>1, <2>2 DEF ReaderAt
  <2>4. WellFormed(x)
    BY <2>2, <2>3 DEF Chain
  <2>5. x.n \in Nat /\ x.at \in Nat /\ Ends(x) \in Nat
    BY <2>4, PieceTypes
  <2>6. Len(Way) \in Nat /\ Len(Way) >= 2
    <3>1. wire \in Seq(Octets) /\ buf \in Seq(Octets) /\ Len(wire) \in Nat
      BY Parts
    <3>2. Len(Way) = Len(buf) + Len(wire)
      BY <3>1, ConcatProperties DEF Way
    <3> QED
      BY <1>0, <3>1, <3>2
  <2>7. Len(got) \in Nat /\ Len(got) = x.at + x.n /\ g = Ends(x) + x.n
    <3>1. \A l : l + 0 = x.at + x.n /\ l \in Nat => l = x.at + x.n
      BY <2>5
    <3> QED
      BY <2>3, <2>5, <3>1 DEF GotTypes
  <2>8. m \in Nat /\ m > Ends(x)
    BY <2>3, <2>5, <2>6, <2>7
  <2>9. WriterAt(P, m)
    BY <2>2
  <2> HIDE DEF m
  <2>10. c + 1 \in 1 .. Len(P) /\ Follows(x, y) /\ WellFormed(y)
    BY <2>2, <2>3, <2>8, <2>9, NextPiece
  <2>11. y.t = "data" /\ y.n = x.n /\ y.at = x.at /\ y.from = Ends(x)
    BY <2>3, <2>10 DEF Follows
  <2>12. Len(y.bytes) = x.n
    BY <2>10, <2>11 DEF WellFormed
  <2>13. Ends(y) = g
    BY <2>7, <2>11, <2>12 DEF Ends
  <2>14. m > Ends(y)
    BY <2>3, <2>6, <2>13 DEF m
  <2>15. (c + 1) + 1 \in 1 .. Len(P) /\ Follows(y, z)
    BY <2>2, <2>8, <2>9, <2>10, <2>14, NextPiece
  <2>16. z.t = "foot" /\ z.at = y.at + y.n /\ z.from = g /\ Len(z.bytes) = 2
    BY <2>11, <2>13, <2>15 DEF Follows
  <2> DEFINE h == g + 2
  <2>17. h = Ends(z) /\ h \in Nat /\ Len(got') = z.at
    BY <1>0, <2>3, <2>7, <2>11, <2>16 DEF Ends
  <2> HIDE DEF h
  <2>18. ReaderAt(P, (c + 1) + 1, h)'
    BY <2>1, <2>3, <2>15, <2>16, <2>17 DEF ReaderAt
  <2>19. h = g + 2
    BY DEF h
  <2> QED
    BY <1>0, <2>2, <2>3, <2>18, <2>19, ReaderStep
<1> QED
  BY <1>2, <1>3 DEF CheckFooter

LEMMA Places ==
    ASSUME NEW G \in Nat, NEW at \in Nat, NEW n \in Nat, NEW E \in Nat, NEW r \in Nat,
           NEW b \in Nat, NEW v \in Nat, NEW k \in 0 .. b, NEW g,
           k <= r, b >= 1, G >= at, G + r = at + n, g = E + (G - at)
    PROVE  /\ k \in Nat /\ G - at \in Nat
           /\ g + (b + v) \in Nat /\ g + (b + v) > E
           /\ G + k <= at + n /\ G + k >= at
           /\ (G + k) + (r - k) = at + n /\ g + k = E + ((G + k) - at) /\ g + k \in Nat
           /\ \A p \in 1 .. k : /\ (G - at) + p \in 1 .. n
                                /\ (E + ((G - at) + p)) - g = p
                                /\ at + ((G - at) + p) = G + p
                                /\ p \in 1 .. b /\ p <= b /\ p \in 1 .. b + v
<1>1. k \in Nat /\ G - at \in Nat /\ g \in Nat
  OBVIOUS
<1>2. /\ g + (b + v) \in Nat /\ g + (b + v) > E /\ G + k <= at + n /\ G + k >= at
      /\ (G + k) + (r - k) = at + n /\ g + k = E + ((G + k) - at) /\ g + k \in Nat
  BY <1>1
<1>3. \A p \in 1 .. k : /\ (G - at) + p \in 1 .. n
                        /\ (E + ((G - at) + p)) - g = p
                        /\ at + ((G - at) + p) = G + p
                        /\ p \in 1 .. b /\ p <= b /\ p \in 1 .. b + v
  BY <1>1
<1> QED
  BY <1>1, <1>2, <1>3

\* The data in the buffer are the bytes that come next.
LEMMA DataComesNext ==
    ASSUME ChInv, StepFits, GotTypes, rcall.pc = "data", buf # <<>>,
           NEW P, NEW c, NEW g, NEW k \in 0 .. Len(buf), k <= cr.n,
           Chain(P), Carries(P, g, Way), WriterAt(P, g + Len(Way)), ReaderAt(P, c, g)
    PROVE  /\ \A p \in 1 .. k : buf[p] = Data(Len(got) + p)
           /\ Len(got) + k <= put
<1> DEFINE x == P[c]
           y == P[c + 1]
           q == Len(got) - x.at
           w == Len(Way)
           G == Len(got)
<1>0. wire \in Seq(Octets) /\ buf \in Seq(Octets) /\ Len(wire) \in Nat /\ Len(buf) \in Nat /\ cr.n \in Nat
  BY Parts
<1>1. G \in Nat /\ Len(buf) >= 1 /\ ~cr.checkEnd /\ cr.n > 0
  BY <1>0 DEF StepFits, GotTypes
<1>2. /\ g \in Nat /\ c \in 1 .. Len(P)
      /\ x.t = "line" /\ x.n > 0
      /\ G >= x.at /\ G + cr.n = x.at + x.n
      /\ g = Ends(x) + (G - x.at)
  BY <1>1 DEF ReaderAt
<1>3. WellFormed(x)
  BY <1>2 DEF Chain
<1>4. x.n \in Nat /\ x.at \in Nat /\ Ends(x) \in Nat
  BY <1>3, PieceTypes
<1>5. /\ w = Len(buf) + Len(wire)
      /\ \A i \in 1 .. Len(buf) + Len(wire) : Way[i] = IF i <= Len(buf) THEN buf[i] ELSE wire[i - Len(buf)]
  BY <1>0, ConcatProperties DEF Way
<1>6. /\ g + (Len(buf) + Len(wire)) \in Nat /\ g + (Len(buf) + Len(wire)) > Ends(x)
      /\ G + k <= x.at + x.n
      /\ \A p \in 1 .. k : /\ q + p \in 1 .. x.n
                           /\ (Ends(x) + (q + p)) - g = p
                           /\ x.at + (q + p) = G + p
                           /\ p \in 1 .. Len(buf) /\ p <= Len(buf) /\ p \in 1 .. Len(buf) + Len(wire)
  <2> HIDE DEF G
  <2>1. /\ g + (Len(buf) + Len(wire)) \in Nat /\ g + (Len(buf) + Len(wire)) > Ends(x)
        /\ G + k <= x.at + x.n
        /\ \A p \in 1 .. k : /\ (G - x.at) + p \in 1 .. x.n
                             /\ (Ends(x) + ((G - x.at) + p)) - g = p
                             /\ x.at + ((G - x.at) + p) = G + p
                             /\ p \in 1 .. Len(buf) /\ p <= Len(buf) /\ p \in 1 .. Len(buf) + Len(wire)
    <3> DEFINE A == x.at
               N == x.n
               E == Ends(x)
               r == cr.n
               b == Len(buf)
               v == Len(wire)
    <3>1. /\ G \in Nat /\ A \in Nat /\ N \in Nat /\ E \in Nat /\ r \in Nat /\ b \in Nat /\ v \in Nat
          /\ k \in 0 .. b /\ k <= r /\ b >= 1 /\ G >= A /\ G + r = A + N /\ g = E + (G - A)
      BY <1>0, <1>1, <1>2, <1>4
    <3> HIDE DEF A, N, E, r, b, v
    <3>2. /\ g + (b + v) \in Nat /\ g + (b + v) > E /\ G + k <= A + N
          /\ \A p \in 1 .. k : /\ (G - A) + p \in 1 .. N
                               /\ (E + ((G - A) + p)) - g = p
                               /\ A + ((G - A) + p) = G + p
                               /\ p \in 1 .. b /\ p <= b /\ p \in 1 .. b + v
      BY <3>1, Places
    <3> QED
      BY <3>2 DEF A, N, E, r, b, v
  <2> QED
    BY <2>1 DEF G
<1> HIDE DEF w, q
<1>7. /\ c + 1 \in 1 .. Len(P) /\ Follows(x, y) /\ WellFormed(y)
  <2>1. g + w \in Nat /\ g + w > Ends(x)
    BY <1>5, <1>6
  <2>2. WriterAt(P, g + w)
    BY DEF w
  <2> QED
    BY <1>2, <2>1, <2>2, NextPiece
<1>8. y.t = "data" /\ y.n = x.n /\ y.at = x.at /\ y.from = Ends(x)
  BY <1>2, <1>7 DEF Follows
<1>9. Len(y.bytes) = x.n /\ \A i \in 1 .. x.n : y.bytes[i] = Data(x.at + i)
  BY <1>7, <1>8 DEF WellFormed
<1>12. ASSUME NEW p \in 1 .. k PROVE buf[p] = Data(G + p)
  <2> DEFINE i == q + p
  <2>1. /\ i \in 1 .. x.n /\ (Ends(x) + i) - g = p /\ p \in 1 .. w
        /\ p \in 1 .. Len(buf) + Len(wire) /\ p <= Len(buf) /\ x.at + i = G + p
    BY <1>5, <1>6
  <2> HIDE DEF i
  <2>2. \A j \in 1 .. Len(P) : \A n \in 1 .. Len(P[j].bytes) :
            P[j].from + n - g \in 1 .. Len(Way) => Way[P[j].from + n - g] = P[j].bytes[n]
    BY DEF Carries
  <2>3. i \in 1 .. Len(y.bytes) /\ y.from + i - g = p /\ p \in 1 .. Len(Way)
    <3>1. p \in 1 .. Len(Way)
      BY <2>1 DEF w
    <3>2. i \in 1 .. Len(y.bytes)
      BY <1>9, <2>1
    <3>3. y.from + i - g = p
      <4>1. y.from = Ends(x)
        BY <1>8
      <4>2. (Ends(x) + i) - g = p
        BY <2>1
      <4>3. \A a, b, d \in Int : a + b - d = (a + b) - d
        OBVIOUS
      <4>4. Ends(x) \in Int /\ i \in Int /\ g \in Int
        BY <1>2, <1>4, <2>1
      <4>5. Ends(x) + i - g = p
        BY <4>2, <4>3, <4>4
      <4> QED
        BY <4>1, <4>5
    <3> QED
      BY <3>1, <3>2, <3>3
  <2>4. Way[p] = y.bytes[i]
    BY <1>7, <2>2, <2>3
  <2>5. Way[p] = buf[p]
    BY <1>5, <2>1
  <2> QED
    BY <1>9, <2>1, <2>4, <2>5
<1>13. G + k <= put
  <2>1. x.at + x.n <= put /\ put \in Nat
    BY <1>2, Parts DEF WriterAt
  <2>2. G \in Nat /\ k \in Nat /\ x.at \in Nat /\ x.n \in Nat /\ G + k <= x.at + x.n
    BY <1>0, <1>1, <1>4, <1>6
  <2>3. \A s, t, u \in Int : s <= t /\ t <= u => s <= u
    OBVIOUS
  <2>4. G + k \in Int /\ x.at + x.n \in Int /\ put \in Int
    BY <2>1, <2>2
  <2> QED
    BY <2>1, <2>2, <2>3, <2>4
<1> QED
  BY <1>12, <1>13 DEF G

LEMMA StreamReadData ==
    ASSUME ChInv, InStep, StepFits, GotTypes, StreamExact, ReadData
    PROVE  InStep' /\ GotTypes' /\ StreamExact'
<1> DEFINE S == {Len(buf), rcall.room, cr.n}
           a == SubSeq(buf, 1, Min(S))
           G == Len(got)
<1>0. /\ rcall.pc = "data" /\ buf # <<>> /\ cr \in ReaderTypes /\ cr.n \in Nat
      /\ buf \in Seq(Octets) /\ Len(buf) \in Nat /\ rcall.room \in Nat
      /\ wire' = wire /\ put' = put /\ broken' = broken /\ cw' = cw /\ ended' = ended
  BY Parts DEF ReadData, Ready
<1>1. cr.err = "nil" /\ ~cr.checkEnd /\ cr.n > 0
  BY <1>0 DEF StepFits
<1>2. Min(S) \in S /\ \A t \in S : Min(S) <= t
  BY <1>0, MinFacts
<1>3. Min(S) \in Nat /\ Min(S) <= Len(buf) /\ Min(S) <= cr.n
  BY <1>0, <1>2
<1>4. /\ got' = got \o SubSeq(buf, 1, Min(S))
      /\ buf' = SubSeq(buf, Min(S) + 1, Len(buf))
      /\ cr' = [cr EXCEPT !.n = @ - Min(S), !.checkEnd = (cr.n = Min(S))]
  BY DEF ReadData
<1>5. PICK k \in Nat : k = Min(S)
  BY <1>3
<1>6. /\ k \in 0 .. Len(buf) /\ k <= cr.n
      /\ got' = got \o a /\ buf' = SubSeq(buf, k + 1, Len(buf)) /\ a = SubSeq(buf, 1, k)
  BY <1>0, <1>3, <1>4, <1>5
<1>7. cr'.n = cr.n - k /\ cr'.err = "nil" /\ (cr'.checkEnd <=> cr.n = k)
  BY <1>0, <1>1, <1>4, <1>5 DEF ReaderTypes
<1>8. a \in Seq(Octets) /\ Len(a) = k /\ \A p \in 1 .. k : a[p] = buf[p]
  <2>1. \A s \in Seq(Octets) : \A m \in 0 .. Len(s) :
            /\ SubSeq(s, 1, m) \in Seq(Octets) /\ Len(SubSeq(s, 1, m)) = m
            /\ \A p \in 1 .. m : SubSeq(s, 1, m)[p] = s[p]
    OBVIOUS
  <2> HIDE DEF a
  <2> QED
    BY <1>0, <1>6, <2>1
<1>9. got \in Seq(Octets) /\ G \in Nat
  BY DEF GotTypes
<1> HIDE DEF S, a
<1>10. /\ got' \in Seq(Octets) /\ Len(got') = G + k
       /\ \A i \in 1 .. G + k : got'[i] = IF i <= G THEN got[i] ELSE a[i - G]
  <2>1. /\ got \o a \in Seq(Octets) /\ Len(got \o a) = Len(got) + Len(a)
        /\ \A i \in 1 .. Len(got) + Len(a) : (got \o a)[i] = IF i <= Len(got) THEN got[i] ELSE a[i - Len(got)]
    BY <1>8, <1>9, ConcatProperties
  <2> QED
    BY <1>6, <1>8, <2>1
<1>11. PICK P, c, g : /\ Chain(P) /\ Carries(P, g, Way)
                      /\ WriterAt(P, g + Len(Way)) /\ ReaderAt(P, c, g)
  BY <1>1 DEF InStep
<1>12. /\ \A p \in 1 .. k : buf[p] = Data(G + p)
       /\ G + k <= put
  BY <1>0, <1>6, <1>11, DataComesNext
<1>13. StreamExact'
  <2>1. DOMAIN got = 1 .. G /\ DOMAIN got' = 1 .. G + k
    BY <1>9, <1>10
  <2>2. \A i \in 1 .. G : got[i] = Data(i)
    BY <2>1 DEF StreamExact
  <2> HIDE DEF G
  <2>3. ASSUME NEW i \in 1 .. G + k PROVE got'[i] = Data(i)
    <3>1. CASE i <= G
      <4>1. i \in 1 .. G
        BY <1>9, <3>1
      <4> QED
        BY <1>10, <2>2, <3>1, <4>1
    <3>2. CASE ~(i <= G)
      <4> DEFINE p == i - G
      <4>1. p \in 1 .. k /\ G + p = i
        BY <1>9, <3>2
      <4>2. got'[i] = a[p]
        BY <1>10, <3>2
      <4> HIDE DEF p
      <4>3. a[p] = Data(G + p)
        BY <1>8, <1>12, <4>1
      <4> QED
        BY <4>1, <4>2, <4>3
    <3> QED
      BY <3>1, <3>2
  <2>4. Len(got') <= put'
    BY <1>0, <1>10, <1>12
  <2>5. cr'.err # "EOF"
    BY <1>7
  <2> QED
    BY <2>1, <2>3, <2>4, <2>5 DEF StreamExact
<1>14. InStep'
  <2> DEFINE x == P[c]
  <2>1. /\ g \in Nat /\ c \in 1 .. Len(P)
        /\ x.t = "line" /\ x.n > 0
        /\ G >= x.at /\ G + cr.n = x.at + x.n
        /\ g = Ends(x) + (G - x.at)
    BY <1>1, <1>11 DEF ReaderAt
  <2>2. WellFormed(x)
    BY <1>11, <2>1 DEF Chain
  <2>3. x.n \in Nat /\ x.at \in Nat /\ Ends(x) \in Nat
    BY <2>2, PieceTypes
  <2> DEFINE h == g + k
  <2>4. /\ Len(got') >= x.at /\ Len(got') + cr'.n = x.at + x.n
        /\ h = Ends(x) + (Len(got') - x.at) /\ h \in Nat
    <3> HIDE DEF G
    <3>1. Len(buf) >= 1 /\ 0 \in Nat
      BY <1>0
    <3>2. /\ (G + k) + (cr.n - k) = x.at + x.n /\ G + k >= x.at
          /\ g + k = Ends(x) + ((G + k) - x.at) /\ g + k \in Nat
      <4> DEFINE A == x.at
                 N == x.n
                 E == Ends(x)
                 r == cr.n
                 b == Len(buf)
      <4>1. /\ G \in Nat /\ A \in Nat /\ N \in Nat /\ E \in Nat /\ r \in Nat /\ b \in Nat
            /\ k \in 0 .. b /\ k <= r /\ b >= 1 /\ G >= A /\ G + r = A + N /\ g = E + (G - A)
        BY <1>0, <1>6, <1>9, <2>1, <2>3, <3>1
      <4> HIDE DEF A, N, E, r, b
      <4>2. /\ (G + k) + (r - k) = A + N /\ G + k >= A
            /\ g + k = E + ((G + k) - A) /\ g + k \in Nat
        BY <3>1, <4>1, Places
      <4> QED
        BY <4>2 DEF A, N, E, r, b
    <3> QED
      BY <1>7, <1>10, <3>2
  <2>5. cr'.checkEnd <=> cr'.n = 0
    BY <1>0, <1>5, <1>7
  <2> HIDE DEF h
  <2>6. ReaderAt(P, c, h)'
    BY <2>1, <2>4, <2>5 DEF ReaderAt
  <2>7. h = g + k
    BY DEF h
  <2> QED
    BY <1>0, <1>6, <1>11, <2>1, <2>6, <2>7, ReaderStep
<1> QED
  BY <1>10, <1>13, <1>14 DEF GotTypes

--------------------------------------------------------------------------------
(* What the reader returns.                                                 *)

LEMMA StreamInitially == ChInit => StreamInv
<1> SUFFICES ASSUME ChInit PROVE StreamInv
  OBVIOUS
<1> DEFINE x == [t |-> "foot", bytes |-> <<>>, n |-> 0, at |-> 0, from |-> 0]
           P == <<x>>
<1>0. /\ wire = <<>> /\ buf = <<>> /\ put = 0 /\ got = <<>> /\ cw.step = "idle" /\ rcall.pc = "idle"
      /\ cr.n = 0 /\ cr.err = "nil" /\ ~cr.checkEnd
  BY DEF ChInit
<1>1. ChInv
  BY ChunksInitially
<1>2. GotTypes /\ StepFits /\ StreamExact
  <2>1. DOMAIN got = {} /\ Len(got) = 0 /\ got \in Seq(Octets)
    BY <1>0
  <2> QED
    BY <1>0, <2>1 DEF GotTypes, StepFits, StreamExact
<1>3. x \in Pieces
  BY DEF Pieces
<1>4. x.t = "foot" /\ x.n = 0 /\ x.at = 0 /\ x.from = 0 /\ Len(x.bytes) = 0
  OBVIOUS
<1>5. P \in Seq(Pieces) /\ Len(P) = 1 /\ P[1] = x /\ P # <<>>
  BY <1>3
<1> HIDE DEF x, P
<1>6. WellFormed(x) /\ Ends(x) = 0
  BY <1>3, <1>4 DEF WellFormed, Ends
<1>7. \A j \in 1 .. Len(P) : j = 1
  BY <1>5
<1>8. Chain(P)
  <2>1. \A j \in 1 .. Len(P) - 1 : FALSE
    BY <1>5
  <2>2. Ends(x) <= Ends(x)
    BY <1>6
  <2> QED
    BY <1>5, <1>6, <1>7, <2>1, <2>2 DEF Chain
<1>9. Way = <<>> /\ Len(Way) = 0
  BY <1>0 DEF Way
<1>10. Carries(P, 0, Way)
  BY <1>9 DEF Carries
<1>11. WriterAt(P, 0)
  BY <1>0, <1>4, <1>5, <1>6, <1>7 DEF WriterAt
<1>12. ReaderAt(P, 1, 0)
  <2>1. Len(got) = 0
    BY <1>0
  <2> QED
    BY <1>0, <1>4, <1>5, <1>6, <2>1 DEF ReaderAt
<1>13. InStep
  <2>1. 0 + Len(Way) = 0
    BY <1>9
  <2>2. WriterAt(P, 0 + Len(Way))
    BY <1>11, <2>1
  <2> QED
    BY <1>8, <1>10, <1>12, <2>2 DEF InStep
<1> QED
  BY <1>1, <1>2, <1>13 DEF StreamInv

\* The sender adds to the stream only while it has not ended.
LEMMA SenderExact ==
    ASSUME StreamExact, ChInv, GotTypes, got' = got, cr' = cr, put' \in Nat, put <= put',
           ended => ended' /\ put' = put
    PROVE  StreamExact'
<1>1. put \in Nat /\ Len(got) \in Nat
  BY Parts DEF GotTypes
<1>2. Len(got') <= put'
  BY <1>1 DEF StreamExact
<1> QED
  BY <1>2 DEF StreamExact

LEMMA StreamInductive == StreamInv /\ [ChNext]_chunkVars => StreamInv'
<1> SUFFICES ASSUME StreamInv, [ChNext]_chunkVars PROVE StreamInv'
  OBVIOUS
<1>0. ChInv /\ GotTypes /\ StepFits /\ InStep /\ StreamExact
  BY DEF StreamInv
<1>1. ChInv'
  BY <1>0, ChunksInductive
<1>2. put \in Nat
  BY <1>0, Parts
<1>3. ASSUME NEW line \in SizeLines, WriteSize(line[1], line[2]) PROVE StreamInv'
  <2>1. InStep'
    BY <1>0, <1>3, StreamWriteSize
  <2>2. /\ got' = got /\ cr' = cr /\ rcall' = rcall /\ put' = put + Value(line[1]) /\ ~ended
        /\ Value(line[1]) \in 1 .. MaxData - put
    BY <1>3 DEF WriteSize
  <2>3. put' \in Nat /\ put <= put'
    BY <1>2, <2>2, ChunkedAssumption
  <2>4. StreamExact'
    BY <1>0, <2>2, <2>3, SenderExact
  <2> QED
    BY <1>0, <1>1, <2>1, <2>2, <2>4 DEF StreamInv, StepFits, GotTypes
<1>4. ASSUME \/ WriteData \/ WriteFooter \/ Hangup
             \/ \E ds \in {<< 0 >>, <<0, 0>>, <<>>} : WriteEnd(ds)
      PROVE  StreamInv'
  <2>1. InStep'
    BY <1>0, <1>4, StreamWriteData, StreamWriteFooter, StreamHangup, StreamWriteEnd
  <2>2. got' = got /\ cr' = cr /\ rcall' = rcall /\ put' = put /\ (ended => ended')
    BY <1>4 DEF WriteData, WriteFooter, Hangup, WriteEnd
  <2>3. put' \in Nat /\ put <= put'
    BY <1>2, <2>2
  <2>4. StreamExact'
    BY <1>0, <2>2, <2>3, SenderExact
  <2> QED
    BY <1>0, <1>1, <2>1, <2>2, <2>4 DEF StreamInv, StepFits, GotTypes
<1>5. ASSUME (\E room \in 0 .. MaxRoom : Read(room)) \/ ReadReturn \/ ReadLoop
      PROVE  StreamInv'
  <2>1. /\ wire' = wire /\ broken' = broken /\ cw' = cw /\ put' = put /\ ended' = ended
        /\ buf' = buf /\ cr' = cr /\ got' = got
    BY <1>5 DEF Read, ReadReturn, ReadLoop
  <2>2. Way' = Way
    BY <2>1 DEF Way
  <2>3. InStep'
    BY <1>0, <2>1, <2>2, SameWay
  <2>4. StepFits'
    <3>1. ASSUME NEW room \in 0 .. MaxRoom, Read(room) PROVE rcall'.pc = "loop"
      BY <3>1 DEF Read
    <3>2. CASE ReadReturn
      <4>1. rcall'.pc = "idle"
        BY <1>0, <3>2, Parts, CallEdits DEF ReadReturn
      <4> QED
        BY <4>1 DEF StepFits
    <3>3. CASE ReadLoop
      <4> DEFINE pc == IF cr.checkEnd THEN "footer" ELSE IF cr.n = 0 THEN "line" ELSE "data"
      <4>1. ~Early /\ rcall' = [rcall EXCEPT !.pc = pc] /\ rcall \in CallTypes
        BY <1>0, <3>3, Parts, Zenon DEF ReadLoop
      <4>2. pc \in {"idle", "loop", "footer", "line", "data"}
        OBVIOUS
      <4>3. /\ pc = "footer" => cr.checkEnd
            /\ pc = "line" => ~cr.checkEnd /\ cr.n = 0
            /\ pc = "data" => ~cr.checkEnd /\ cr.n # 0
        OBVIOUS
      <4> HIDE DEF pc
      <4>4. rcall'.pc = pc
        BY <4>1, <4>2, CallEdits
      <4>5. cr.n \in Nat /\ cr.err = "nil"
        BY <1>0, <4>1, Parts DEF Early
      <4>6. cr.n # 0 => cr.n > 0
        BY <4>5
      <4> QED
        BY <2>1, <4>3, <4>4, <4>5, <4>6 DEF StepFits
    <3> QED
      BY <1>5, <3>1, <3>2, <3>3 DEF StepFits
  <2> QED
    BY <1>0, <1>1, <2>1, <2>3, <2>4 DEF StreamInv, GotTypes, StreamExact
<1>6. CASE FillBuffer
  <2>1. InStep'
    BY <1>0, <1>6, StreamFillBuffer
  <2>2. put' = put /\ ended' = ended /\ cr' = cr /\ rcall' = rcall /\ got' = got
    BY <1>6 DEF FillBuffer
  <2> QED
    BY <1>0, <1>1, <2>1, <2>2 DEF StreamInv, StepFits, GotTypes, StreamExact
<1>7. ASSUME EndOfInput \/ BeginChunk \/ CheckFooter \/ ReadData
      PROVE  StepFits'
  <2>1. rcall'.pc = "loop"
    <3>1. CASE ReadData
      BY <3>1 DEF ReadData
    <3>2. CASE rcall' = [rcall EXCEPT !.pc = "loop"]
      BY <1>0, <3>2, Parts, CallEdits
    <3> QED
      BY <1>7, <3>1, <3>2 DEF EndOfInput, BeginChunk, CheckFooter
  <2> QED
    BY <2>1 DEF StepFits
<1>8. CASE EndOfInput
  <2>1. cr'.err = "unexpected EOF"
    BY <1>0, <1>8, Parts DEF EndOfInput, ReaderTypes
  <2>2. put' = put /\ got' = got
    BY <1>8 DEF EndOfInput
  <2>3. InStep' /\ StreamExact' /\ GotTypes'
    BY <1>0, <2>1, <2>2 DEF InStep, StreamExact, GotTypes
  <2> QED
    BY <1>1, <1>7, <1>8, <2>3 DEF StreamInv
<1>9. CASE BeginChunk
  <2>1. InStep' /\ StreamExact'
    BY <1>0, <1>9, StreamBeginChunk
  <2>2. got' = got
    BY <1>9 DEF BeginChunk
  <2> QED
    BY <1>0, <1>1, <1>7, <1>9, <2>1, <2>2 DEF StreamInv, GotTypes
<1>10. CASE CheckFooter
  <2>1. InStep'
    BY <1>0, <1>10, StreamCheckFooter
  <2>2. put' = put /\ got' = got /\ ended' = ended
    BY <1>10 DEF CheckFooter
  <2>3. cr'.err # "EOF"
    <3>0. cr \in ReaderTypes /\ cr.err = "nil"
      BY <1>0, <1>10, Parts DEF CheckFooter, StepFits
    <3>1. CASE cr' = [cr EXCEPT !.checkEnd = FALSE]
      BY <3>0, <3>1 DEF ReaderTypes
    <3>2. CASE cr' = [cr EXCEPT !.err = "malformed"]
      BY <3>0, <3>2 DEF ReaderTypes
    <3> QED
      BY <1>10, <3>1, <3>2 DEF CheckFooter
  <2>4. StreamExact' /\ GotTypes'
    BY <1>0, <2>2, <2>3 DEF StreamExact, GotTypes
  <2> QED
    BY <1>1, <1>7, <1>10, <2>1, <2>4 DEF StreamInv
<1>11. CASE ReadData
  <2>1. InStep' /\ GotTypes' /\ StreamExact'
    BY <1>0, <1>11, StreamReadData
  <2> QED
    BY <1>1, <1>7, <1>11, <2>1 DEF StreamInv
<1>12. CASE UNCHANGED chunkVars
  <2>1. /\ wire' = wire /\ broken' = broken /\ cw' = cw /\ put' = put /\ ended' = ended
        /\ buf' = buf /\ cr' = cr /\ rcall' = rcall /\ got' = got
    BY <1>12 DEF chunkVars
  <2>2. Way' = Way
    BY <2>1 DEF Way
  <2>3. InStep'
    BY <1>0, <2>1, <2>2, SameWay
  <2> QED
    BY <1>0, <1>1, <2>1, <2>3 DEF StreamInv, StepFits, GotTypes, StreamExact
<1> QED
  BY <1>3, <1>4, <1>5, <1>6, <1>8, <1>9, <1>10, <1>11, <1>12 DEF ChNext

\* StreamExact for every size of the buffers, any number of data bytes, every
\* foreign size line and wherever the connection breaks: chunkedReader returns
\* the bytes chunkedWriter was given, in order, and io.EOF only behind the last
\* of them, when the final chunk has been read: chunked.go:45-149, 190-262.
THEOREM StreamsAreExact == ChSpec => []StreamExact
<1>1. StreamInv => StreamExact
  BY DEF StreamInv
<1> QED
  BY <1>1, StreamInitially, StreamInductive, PTL DEF ChSpec

================================================================================
