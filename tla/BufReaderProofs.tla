---------------------------- MODULE BufReaderProofs ----------------------------
(***************************************************************************)
(* For every buffer size, input and sequence of operations: the buffered   *)
(* reader neither loses, repeats nor reorders a byte, and never fills a    *)
(* full buffer.  And over it, for every message: ReadRequest finds the     *)
(* lines and the body that are there.                                      *)
(***************************************************************************)
EXTENDS Request, TLAPS, FiniteSetTheorems, SequenceTheorems, WellFoundedInduction, NaturalsInduction

\* Only Discard works in several turns; rem is what it has still to skip.
ProgressInv ==
    /\ op.name = "none" => op.n = 0
    /\ op.name # "discard" \/ op.n <= 0 => op.rem = op.n
    /\ op.name = "discard" /\ op.n > 0 => op.rem \in 1 .. op.n

RdInv == RdTypeOK /\ WindowExact /\ ProgressInv

LEMMA RdInitInv == RdInit => RdInv
<1> SUFFICES ASSUME RdInit PROVE RdInv
  OBVIOUS
<1>1. NoOp \in [name : OpNames, n : Int, rem : Int, filled : BOOLEAN, delim : Bytes]
  BY BytesAssumption DEF NoOp, OpNames
<1> QED
  BY <1>1, SizeAssumption, PosAssumption
     DEF RdInit, RdInv, RdTypeOK, WindowExact, ProgressInv, NoOp, NoResult, Buffered,
         Slots, Errors

\* fill: the slide keeps the unread bytes and the new ones follow them.
LEMMA FillInv ==
    ASSUME RdInv, NEW k \in 0 .. MaxPos, NEW e \in {"nil"} \cup ReadErrors, Fill(k, e)
    PROVE  RdInv'
<1> USE SizeAssumption, PosAssumption DEF RdInv
<1>1. /\ r \in 0 .. Size /\ w \in 0 .. Size /\ r <= w /\ pos \in 0 .. MaxPos
      /\ k <= Size - (w - r) /\ pos + k <= MaxPos
  BY DEF RdTypeOK, Fill, Buffered
<1>2. /\ r' = 0 /\ w' = w - r + k /\ pos' = pos + k
      /\ UNCHANGED <<stream, ret, taken>>
  BY DEF Fill, Buffered
<1>3. /\ op' \in [name : OpNames, n : Int, rem : Int, filled : BOOLEAN, delim : Bytes]
      /\ UNCHANGED <<op.name, op.n, op.rem>>
  BY DEF Fill, RdTypeOK
<1>4. err' \in {"nil"} \cup ReadErrors
  BY DEF Fill, RdTypeOK
<1>5. ASSUME NEW i \in Slots
      PROVE  buf'[i] = IF i < w - r THEN buf[r + i]
                       ELSE IF i < w - r + k THEN pos + 1 + i - (w - r) ELSE buf[i]
  BY <1>1 DEF Fill, Slid, Buffered, Slots
<1>6. buf' \in [Slots -> 0 .. MaxPos]
  <2>1. \A i \in Slots : i < w - r => buf[r + i] \in 0 .. MaxPos
    BY <1>1 DEF RdTypeOK, Slots
  <2>2. \A i \in Slots : buf'[i] \in 0 .. MaxPos
    BY <1>1, <1>5, <2>1 DEF RdTypeOK, Slots
  <2> DEFINE new(i) == IF i \in Buffered .. Buffered + k - 1
                       THEN pos + 1 + i - Buffered ELSE Slid[i]
  <2>3. buf' = [i \in Slots |-> new(i)]
    BY DEF Fill
  <2> HIDE DEF new
  <2>4. \A i \in Slots : new(i) \in 0 .. MaxPos
    BY <2>2, <2>3
  <2> QED
    BY <2>3, <2>4
<1>7. \A i \in r' .. w' - 1 : buf'[i] = pos' + 1 + i - w'
  <2> SUFFICES ASSUME NEW i \in 0 .. w - r + k - 1
               PROVE  buf'[i] = pos + k + 1 + i - (w - r + k)
    BY <1>1, <1>2
  <2>1. i \in Slots
    BY <1>1 DEF Slots
  <2>2. CASE i < w - r
    <3>1. r + i \in r .. w - 1
      BY <1>1, <2>2
    <3>2. buf[r + i] = pos + 1 + (r + i) - w
      BY <3>1 DEF WindowExact
    <3> QED
      BY <1>1, <1>5, <2>1, <2>2, <3>2
  <2>3. CASE i >= w - r
    BY <1>1, <1>5, <2>1, <2>3
  <2> QED
    BY <1>1, <2>2, <2>3
<1>8. taken' + (op.n - op.rem)' = pos' - Buffered'
  BY <1>1, <1>2, <1>3 DEF WindowExact, Buffered, RdTypeOK
<1> QED
  BY <1>1, <1>2, <1>3, <1>4, <1>6, <1>7, <1>8
     DEF RdTypeOK, WindowExact, ProgressInv

\* Advancing the read position within the window stays within the input.
LEMMA TakenBound ==
    ASSUME NEW T \in 0 .. MaxPos, NEW P \in 0 .. MaxPos, NEW R \in 0 .. Size,
           NEW W \in 0 .. Size, NEW Q \in R .. W, T = P - (W - R)
    PROVE  T + (Q - R) \in 0 .. MaxPos
BY SizeAssumption, PosAssumption

\* An operation that returns, having moved the read position over exactly the
\* bytes it reports as used.
LEMMA ReturnInv ==
    ASSUME RdInv, op.name # "discard" \/ op.n <= 0,
           op' = NoOp, ret'.err \in Errors,
           r' \in r .. w, taken' = taken + (r' - r), UNCHANGED <<input, buf, w>>,
           err' \in {"nil", err}
    PROVE  RdInv'
<1> USE SizeAssumption, PosAssumption, BytesAssumption DEF RdInv
<1>1. op' \in [name : OpNames, n : Int, rem : Int, filled : BOOLEAN, delim : Bytes]
      /\ op'.n = 0 /\ op'.rem = 0 /\ op'.name = "none"
  BY DEF NoOp, OpNames
<1>2. op.rem = op.n /\ op.n \in Int
  BY DEF ProgressInv, RdTypeOK
<1>t. /\ r \in 0 .. Size /\ w \in 0 .. Size /\ pos \in 0 .. MaxPos /\ taken \in 0 .. MaxPos
      /\ w' = w /\ pos' = pos /\ buf' = buf /\ r' \in r .. w
  BY DEF RdTypeOK, input
<1>w. taken = pos - (w - r)
  BY <1>2, <1>t DEF WindowExact, Buffered
<1>3. WindowExact'
  <2>1. \A i \in r' .. w' - 1 : buf'[i] = pos' + 1 + i - w'
    BY <1>t DEF WindowExact
  <2>2. taken' + (op'.n - op'.rem) = pos' - Buffered'
    BY <1>1, <1>t, <1>w DEF Buffered
  <2> QED
    BY <2>1, <2>2 DEF WindowExact
<1>4. taken' \in 0 .. MaxPos
  BY <1>t, <1>w, TakenBound
<1>5. RdTypeOK'
  <2>1. r' \in 0 .. Size /\ r' <= w'
    BY <1>t
  <2> QED
    BY <1>1, <1>t, <1>4, <2>1 DEF RdTypeOK, input
<1>6. ProgressInv'
  BY <1>1 DEF ProgressInv
<1> QED
  BY <1>3, <1>5, <1>6

\* The first n bytes of the window are the next n bytes of the input.
LEMMA SliceNext ==
    ASSUME RdInv, op.name # "discard" \/ op.n <= 0, NEW n \in 0 .. Buffered
    PROVE  \A i \in DOMAIN Slice(n) : Slice(n)[i] = taken + i
<1>1. op.rem = op.n /\ op.n \in Int
  BY DEF RdInv, ProgressInv, RdTypeOK
<1> SUFFICES ASSUME NEW i \in 1 .. n PROVE buf[r + i - 1] = taken + i
  BY DEF Slice
<1>2. r + i - 1 \in r .. w - 1
  BY DEF RdInv, RdTypeOK, Buffered
<1>3. buf[r + i - 1] = pos + 1 + (r + i - 1) - w
  BY <1>2 DEF RdInv, WindowExact
<1> QED
  BY <1>1, <1>3 DEF RdInv, WindowExact, RdTypeOK, Buffered

\* The error an operation returns and the error that stays pending.
LEMMA ErrorTypes ==
    ASSUME RdInv
    PROVE  err \in Errors /\ "nil" \in Errors /\ "full" \in Errors /\ "negative" \in Errors
BY DEF RdInv, RdTypeOK, Errors

LEMMA CallInv ==
    ASSUME RdInv, NEW name \in OpNames \ {"none"}, NEW n \in Int, NEW d \in Bytes,
           Call(name, n, d)
    PROVE  RdInv'
<1>1. op' = [name |-> name, n |-> n, rem |-> n, filled |-> FALSE, delim |-> d]
  BY DEF Call
<1>2. op.n = 0 /\ op.rem = 0
  BY DEF Call, NoOp
<1>3. UNCHANGED <<stream, pos, buf, r, w, err, taken>> /\ ret'.err = "nil"
  BY DEF Call, input, state, NoResult
<1>4. RdTypeOK'
  BY <1>1, <1>3, ErrorTypes DEF RdInv, RdTypeOK
<1>5. WindowExact'
  BY <1>1, <1>2, <1>3 DEF RdInv, WindowExact, RdTypeOK, Buffered
<1>6. ProgressInv'
  BY <1>1 DEF ProgressInv
<1> QED
  BY <1>4, <1>5, <1>6 DEF RdInv

\* The arithmetic of one turn of Discard: T taken so far, N asked for, M to go,
\* of which S are skipped now, leaving L.
LEMMA DiscardArithmetic ==
    ASSUME NEW T \in 0 .. MaxPos, NEW P \in 0 .. MaxPos, NEW R \in 0 .. Size,
           NEW W \in 0 .. Size, R <= W, NEW N \in Int, NEW M \in 1 .. N,
           NEW S \in 0 .. W - R, NEW L \in 0 .. N, L + S = M,
           T + (N - M) = P - (W - R)
    PROVE  /\ T + (N - L) = P - (W - (R + S))
           /\ T + (N - L) \in 0 .. MaxPos
           /\ R + S \in 0 .. Size /\ R + S <= W
BY SizeAssumption, PosAssumption

\* Discard may return after several turns, or go round again.
LEMMA DiscardInv ==
    ASSUME RdInv, DiscardSkip
    PROVE  RdInv'
<1> USE SizeAssumption, PosAssumption, BytesAssumption DEF RdInv
<1> DEFINE skip == IF Buffered > op.rem THEN op.rem ELSE Buffered
           rem  == op.rem - skip
<1>1. /\ r \in 0 .. Size /\ w \in 0 .. Size /\ r <= w /\ pos \in 0 .. MaxPos
      /\ op.n \in Int /\ op.rem \in 1 .. op.n /\ taken \in 0 .. MaxPos
      /\ op.name = "discard" /\ op.n > 0
  BY DEF DiscardSkip, RdTypeOK, ProgressInv
<1>2. /\ r' = r + skip /\ UNCHANGED <<stream, pos, buf, w>>
      /\ skip \in 0 .. w - r /\ rem \in 0 .. op.n /\ rem + skip = op.rem
  BY <1>1 DEF DiscardSkip, input, Buffered
<1>3. \A i \in r' .. w' - 1 : buf'[i] = pos' + 1 + i - w'
  BY <1>1, <1>2 DEF WindowExact
<1> HIDE DEF rem, skip
<1>4. /\ op' \in [name : OpNames, n : Int, rem : Int, filled : BOOLEAN, delim : Bytes]
      /\ ret'.err \in Errors /\ err' \in {"nil"} \cup ReadErrors
      /\ taken' + (op'.n - op'.rem) = pos' - Buffered'
      /\ taken' \in 0 .. MaxPos
      /\ ProgressInv'
  <2>0. taken + (op.n - op.rem) = pos - (w - r) /\ Buffered' = w - (r + skip)
    BY <1>2 DEF WindowExact, Buffered
  <2>a. /\ taken + (op.n - rem) = pos - (w - (r + skip))
        /\ taken + (op.n - rem) \in 0 .. MaxPos
    BY <1>1, <1>2, <2>0, DiscardArithmetic
  <2>1. CASE rem = 0 /\ Return(<<>>, op.n, "nil", FALSE) /\ UNCHANGED err
    <3>1. op' = NoOp /\ ret'.err = "nil" /\ taken' = taken + op.n
      BY <2>1 DEF Return
    <3>2. op' \in [name : OpNames, n : Int, rem : Int, filled : BOOLEAN, delim : Bytes]
          /\ op'.n = 0 /\ op'.rem = 0 /\ op'.name = "none"
      BY <3>1 DEF NoOp, OpNames
    <3>3. taken' + (op'.n - op'.rem) = pos' - Buffered' /\ taken' \in 0 .. MaxPos
      BY <1>1, <1>2, <2>0, <2>a, <2>1, <3>1, <3>2
    <3>4. err' \in {"nil"} \cup ReadErrors /\ ret'.err \in Errors
      BY <2>1, <3>1, ErrorTypes DEF RdTypeOK
    <3> QED
      BY <3>2, <3>3, <3>4 DEF ProgressInv
  <2>2. CASE rem # 0 /\ err # "nil" /\ Return(<<>>, op.n - rem, err, FALSE) /\ err' = "nil"
    <3>1. op' = NoOp /\ ret'.err = err /\ taken' = taken + (op.n - rem)
      BY <2>2 DEF Return
    <3>2. op' \in [name : OpNames, n : Int, rem : Int, filled : BOOLEAN, delim : Bytes]
          /\ op'.n = 0 /\ op'.rem = 0 /\ op'.name = "none"
      BY <3>1 DEF NoOp, OpNames
    <3>3. taken' + (op'.n - op'.rem) = pos' - Buffered' /\ taken' \in 0 .. MaxPos
      BY <1>1, <1>2, <2>0, <2>a, <2>2, <3>1, <3>2
    <3>4. err' \in {"nil"} \cup ReadErrors /\ ret'.err \in Errors
      BY <2>2, <3>1, ErrorTypes
    <3> QED
      BY <3>2, <3>3, <3>4 DEF ProgressInv
  <2>3. CASE /\ rem # 0 /\ err = "nil"
             /\ op' = [op EXCEPT !.rem = rem, !.filled = FALSE]
             /\ UNCHANGED <<err, ret, taken>>
    <3>0. op \in [name : OpNames, n : Int, rem : Int, filled : BOOLEAN, delim : Bytes]
          /\ rem \in Int
      BY <1>1, <1>2 DEF RdTypeOK
    <3>1. op' \in [name : OpNames, n : Int, rem : Int, filled : BOOLEAN, delim : Bytes]
          /\ op'.n = op.n /\ op'.rem = rem /\ op'.name = op.name
      BY <2>3, <3>0
    <3>2. taken' + (op'.n - op'.rem) = pos' - Buffered' /\ taken' \in 0 .. MaxPos
      BY <1>1, <1>2, <2>0, <2>a, <2>3, <3>1
    <3>3. err' \in {"nil"} \cup ReadErrors /\ ret'.err \in Errors
      BY <2>3 DEF RdTypeOK
    <3>4. ProgressInv'
      BY <1>1, <1>2, <2>3, <3>1 DEF ProgressInv
    <3> QED
      BY <3>1, <3>2, <3>3, <3>4
  <2> QED
    BY <2>1, <2>2, <2>3 DEF DiscardSkip, rem, skip
<1>5. r + skip \in 0 .. Size /\ r + skip <= w
  BY <1>1, <1>2
<1>6. RdTypeOK'
  BY <1>2, <1>4, <1>5 DEF RdTypeOK
<1>7. WindowExact'
  BY <1>3, <1>4 DEF WindowExact
<1> QED
  BY <1>4, <1>6, <1>7

\* One lemma per operation that returns.
LEMMA PeekInv ==
    ASSUME RdInv, PeekBad \/ PeekFull \/ PeekShort
    PROVE  RdInv' /\ InOrder'
<1> USE SizeAssumption
<1>0. /\ r \in 0 .. Size /\ w \in 0 .. Size /\ r <= w /\ op.n \in Int /\ taken \in Int
      /\ Buffered \in 0 .. Size
  BY DEF RdInv, RdTypeOK, Buffered
<1>1. CASE PeekBad
  <2>1. /\ op' = NoOp /\ ret'.err \in Errors /\ ret'.at = taken /\ ret'.data = <<>>
        /\ taken' = taken /\ r' = r /\ op.name # "discard"
        /\ UNCHANGED <<input, buf, w, err>>
    BY <1>0, <1>1, ErrorTypes DEF PeekBad, Return, state
  <2> QED
    BY <1>0, <2>1, ReturnInv DEF InOrder
<1>2. CASE PeekFull
  <2>1. /\ op' = NoOp /\ ret'.err \in Errors /\ ret'.at = taken /\ ret'.data = Slice(op.n)
        /\ r' \in r .. w /\ taken' = taken + (r' - r) /\ op.name # "discard"
        /\ op.n \in 0 .. Buffered /\ UNCHANGED <<input, buf, w, err>>
    BY <1>0, <1>2, ErrorTypes DEF PeekFull, Return, Buffered
  <2>2. \A i \in DOMAIN Slice(op.n) : Slice(op.n)[i] = taken + i
    BY <2>1, SliceNext
  <2> QED
    BY <2>1, <2>2, ReturnInv DEF InOrder
<1>3. CASE PeekShort
  <2>1. /\ op' = NoOp /\ ret'.err \in Errors /\ ret'.at = taken
        /\ ret'.data = Slice(Buffered) \/ ret'.data = <<>>
        /\ r' = r /\ taken' = taken /\ op.name # "discard" /\ err' = "nil"
        /\ UNCHANGED <<input, buf, w>>
    BY <1>0, <1>3, ErrorTypes DEF PeekShort, Return
  <2>2. \A i \in DOMAIN Slice(Buffered) : Slice(Buffered)[i] = taken + i
    BY <1>0, <2>1, SliceNext
  <2>3. \A i \in DOMAIN ret'.data : ret'.data[i] = taken + i
    BY <2>1, <2>2
  <2> QED
    BY <1>0, <2>1, <2>3, ReturnInv DEF InOrder
<1> QED
  BY <1>1, <1>2, <1>3

LEMMA ReadInv ==
    ASSUME RdInv, ReadNothing \/ ReadCopy \/ ReadByte \/ DiscardTrivial
    PROVE  RdInv' /\ InOrder'
<1> USE SizeAssumption
<1>0. /\ r \in 0 .. Size /\ w \in 0 .. Size /\ r <= w /\ op.n \in Int /\ taken \in Int
      /\ Buffered \in 0 .. Size
  BY DEF RdInv, RdTypeOK, Buffered
<1>1. CASE ReadNothing \/ DiscardTrivial
  <2>1. /\ op' = NoOp /\ ret'.err \in Errors /\ ret'.at = taken /\ ret'.data = <<>>
        /\ taken' = taken /\ r' = r /\ (op.name # "discard" \/ op.n <= 0)
        /\ err' \in {"nil", err} /\ UNCHANGED <<input, buf, w>>
    BY <1>0, <1>1, ErrorTypes DEF ReadNothing, DiscardTrivial, Return, state
  <2> QED
    BY <1>0, <2>1, ReturnInv DEF InOrder
<1>2. CASE ReadCopy
  <2>1. PICK n \in 0 .. Buffered :
            Return(Slice(n), n, "nil", FALSE) /\ r' = r + n
    <3> DEFINE m == IF op.n < Buffered THEN op.n ELSE Buffered
    <3>1. Return(Slice(m), m, "nil", FALSE) /\ r' = r + m
      BY <1>2 DEF ReadCopy
    <3>2. m \in 0 .. Buffered
      BY <1>0, <1>2 DEF ReadCopy
    <3> HIDE DEF m
    <3> QED
      BY <3>1, <3>2
  <2>2. /\ op' = NoOp /\ ret'.err \in Errors /\ ret'.at = taken /\ ret'.data = Slice(n)
        /\ r' \in r .. w /\ taken' = taken + (r' - r) /\ op.name # "discard"
        /\ UNCHANGED <<input, buf, w, err>>
    BY <1>0, <1>2, <2>1, ErrorTypes DEF ReadCopy, Return, Buffered
  <2>3. \A i \in DOMAIN Slice(n) : Slice(n)[i] = taken + i
    BY <2>2, SliceNext
  <2> QED
    BY <2>2, <2>3, ReturnInv DEF InOrder
<1>3. CASE ReadByte /\ Buffered > 0
  <2>1. /\ op' = NoOp /\ ret'.err \in Errors /\ ret'.at = taken /\ ret'.data = Slice(1)
        /\ r' \in r .. w /\ taken' = taken + (r' - r) /\ op.name # "discard"
        /\ UNCHANGED <<input, buf, w, err>>
    BY <1>0, <1>3, ErrorTypes DEF ReadByte, Return, Buffered
  <2>2. \A i \in DOMAIN Slice(1) : Slice(1)[i] = taken + i
    BY <1>0, <1>3, <2>1, SliceNext
  <2> QED
    BY <2>1, <2>2, ReturnInv DEF InOrder
<1>4. CASE ReadByte /\ Buffered = 0
  <2>1. /\ op' = NoOp /\ ret'.err \in Errors /\ ret'.at = taken /\ ret'.data = <<>>
        /\ taken' = taken /\ r' = r /\ op.name # "discard"
        /\ err' = "nil" /\ UNCHANGED <<input, buf, w>>
    BY <1>0, <1>4, ErrorTypes DEF ReadByte, Return
  <2> QED
    BY <1>0, <2>1, ReturnInv DEF InOrder
<1> QED
  BY <1>0, <1>1, <1>2, <1>3, <1>4

\* ReadSlice and ReadLine: whatever they cut off the line, they return a prefix
\* of the window and use up at most the window.
LEMMA LineInv ==
    ASSUME RdInv, ReadSlice \/ ReadLine
    PROVE  RdInv' /\ InOrder'
<1> USE SizeAssumption
<1>0. /\ r \in 0 .. Size /\ w \in 0 .. Size /\ r <= w /\ taken \in Int
      /\ Buffered = w - r /\ err \in Errors /\ "nil" \in Errors /\ "full" \in Errors
  BY ErrorTypes DEF RdInv, RdTypeOK, Buffered
<1>1. /\ op.name # "discard" /\ UNCHANGED <<input, buf, w>> /\ err' \in {"nil", err}
  BY DEF ReadSlice, ReadLine, LineFound, LineTooLong, LineEnded
<1>2. PICK n \in 0 .. Buffered, used \in 0 .. Buffered, e \in Errors, more \in BOOLEAN :
          Return(Slice(n), used, e, more) /\ r' = r + used
  <2>1. CASE ReadSlice
    <3>1. ASSUME NEW i \in Slots, FirstDelim(i), Return(Slice(i - r + 1), i - r + 1, "nil", FALSE),
                 r' = i + 1
          PROVE  /\ i - r + 1 \in 0 .. Buffered
                 /\ r' = r + (i - r + 1)
      BY <1>0, <3>1 DEF FirstDelim, Slots
    <3>2. Buffered \in 0 .. Buffered /\ (r' = w => r' = r + Buffered)
      BY <1>0
    <3> QED
      BY <1>0, <2>1, <3>1, <3>2 DEF ReadSlice
  <2>2. CASE ReadLine
    <3>1. ASSUME NEW i \in Slots, LineFound(i)
          PROVE  \E n \in 0 .. Buffered, used \in 0 .. Buffered :
                    Return(Slice(n), used, "nil", FALSE) /\ r' = r + used
      <4> DEFINE eol == IF i > r /\ ByteAt(i - 1) = CR THEN 2 ELSE 1
      <4>1. i \in r .. w - 1 /\ r' = i + 1
            /\ Return(Slice(i - r + 1 - eol), i - r + 1, "nil", FALSE)
        BY <3>1 DEF LineFound, FirstDelim
      <4>2. i - r + 1 - eol \in 0 .. Buffered /\ i - r + 1 \in 0 .. Buffered
            /\ r' = r + (i - r + 1)
        BY <1>0, <4>1
      <4> HIDE DEF eol
      <4> QED
        BY <4>1, <4>2
    <3>2. ASSUME LineTooLong
          PROVE  \E n \in 0 .. Buffered :
                    Return(Slice(n), n, "nil", TRUE) /\ r' = r + n
      <4> DEFINE back == IF ByteAt(w - 1) = CR THEN 1 ELSE 0
      <4>1. Buffered >= Size /\ r' = w - back
            /\ Return(Slice(Buffered - back), Buffered - back, "nil", TRUE)
        BY <3>2 DEF LineTooLong
      <4>2. Buffered - back \in 0 .. Buffered /\ r' = r + (Buffered - back)
        BY <1>0, <4>1
      <4> HIDE DEF back
      <4> QED
        BY <4>1, <4>2
    <3>3. ASSUME LineEnded
          PROVE  \E e \in Errors :
                    Return(Slice(Buffered), Buffered, e, FALSE) /\ r' = r + Buffered
      <4> DEFINE e == IF Buffered = 0 THEN err ELSE "nil"
      <4>1. Return(Slice(Buffered), Buffered, e, FALSE) /\ r' = w
        BY <3>3 DEF LineEnded
      <4>2. e \in Errors /\ r' = r + Buffered
        BY <1>0, <4>1
      <4> HIDE DEF e
      <4> QED
        BY <4>1, <4>2
    <3>4. Buffered \in 0 .. Buffered
      BY <1>0
    <3> QED
      <4>1. CASE \E i \in Slots : LineFound(i)
        BY <1>0, <3>1, <4>1
      <4>2. CASE LineTooLong
        BY <1>0, <3>2, <4>2
      <4>3. CASE LineEnded
        BY <3>3, <3>4, <4>3
      <4> QED
        BY <2>2, <4>1, <4>2, <4>3 DEF ReadLine
  <2> QED
    BY <2>1, <2>2
<1>3. /\ op' = NoOp /\ ret'.err \in Errors /\ ret'.at = taken /\ ret'.data = Slice(n)
      /\ taken' = taken + used
  BY <1>2 DEF Return
<1>4. r' \in r .. w /\ taken' = taken + (r' - r)
  BY <1>0, <1>2, <1>3
<1>5. \A i \in DOMAIN Slice(n) : Slice(n)[i] = taken + i
  BY <1>1, SliceNext
<1> QED
  BY <1>1, <1>3, <1>4, <1>5, ReturnInv DEF InOrder

\* A direct Read: the window is empty before and after.
LEMMA DirectInv ==
    ASSUME RdInv, NEW k \in 0 .. MaxPos, NEW e \in {"nil"} \cup ReadErrors, ReadDirect(k, e)
    PROVE  RdInv' /\ InOrder'
<1> USE SizeAssumption, PosAssumption, BytesAssumption
<1>1. /\ op' = NoOp /\ ret'.err = e /\ ret'.at = taken /\ taken' = taken + k
      /\ ret'.data = [i \in 1 .. k |-> pos + i]
      /\ pos' = pos + k /\ pos + k <= MaxPos /\ UNCHANGED <<stream, buf, r, w, err>>
      /\ w - r = 0 /\ op.name = "read"
  BY DEF ReadDirect, Return, state, Buffered
<1>2. op' \in [name : OpNames, n : Int, rem : Int, filled : BOOLEAN, delim : Bytes]
      /\ op'.n = 0 /\ op'.rem = 0 /\ op'.name = "none"
  BY <1>1 DEF NoOp, OpNames
<1>3. op.rem = op.n /\ op.n \in Int
  BY <1>1 DEF RdInv, ProgressInv, RdTypeOK
<1>4. taken = pos /\ r = w /\ pos \in Int /\ r \in Int
  BY <1>1, <1>3 DEF RdInv, WindowExact, RdTypeOK, Buffered
<1>5. WindowExact'
  BY <1>1, <1>2, <1>4 DEF WindowExact, Buffered
<1>6. RdTypeOK'
  BY <1>1, <1>2, <1>4 DEF RdInv, RdTypeOK, Errors
<1>7. ProgressInv'
  BY <1>2 DEF ProgressInv
<1>8. InOrder'
  BY <1>1, <1>4 DEF InOrder
<1> QED
  BY <1>5, <1>6, <1>7, <1>8 DEF RdInv

LEMMA RdNextInv ==
    ASSUME RdInv, InOrder, [RdNext]_rdVars
    PROVE  RdInv' /\ InOrder'
<1>1. CASE RdCall
  <2>1. PICK name \in OpNames \ {"none"}, n \in Int, d \in Bytes : Call(name, n, d)
    BY <1>1, CountsAssumption, BytesAssumption DEF RdCall, OpNames
  <2>2. ret'.data = <<>>
    BY <2>1 DEF Call, NoResult
  <2> QED
    BY <2>1, <2>2, CallInv DEF InOrder
<1>2. ASSUME NEW k \in 0 .. MaxPos, NEW e \in {"nil"} \cup ReadErrors, Fill(k, e)
      PROVE  RdInv' /\ InOrder'
  <2>1. ret' = ret
    BY <1>2 DEF Fill
  <2> QED
    BY <1>2, <2>1, FillInv DEF InOrder
<1>3. ASSUME NEW k \in 0 .. MaxPos, NEW e \in {"nil"} \cup ReadErrors, ReadDirect(k, e)
      PROVE  RdInv' /\ InOrder'
  BY <1>3, DirectInv
<1>4. CASE DiscardSkip
  <2>1. ret' = ret \/ ret'.data = <<>>
    BY <1>4 DEF DiscardSkip, Return
  <2> QED
    BY <1>4, <2>1, DiscardInv DEF InOrder
<1>5. CASE UNCHANGED rdVars
  <2>1. UNCHANGED <<stream, pos, buf, r, w, err, op, ret, taken>>
    BY <1>5 DEF rdVars, input, state
  <2> QED
    BY <2>1 DEF RdInv, RdTypeOK, WindowExact, ProgressInv, InOrder, Buffered
<1> QED
  BY <1>1, <1>2, <1>3, <1>4, <1>5, PeekInv, ReadInv, LineInv DEF RdNext, RdStep

\* RdInv and InOrder together, from which the theorems follow.
LEMMA RdInvariant == RdSpec => [](RdInv /\ InOrder)
<1>1. RdInit => RdInv /\ InOrder
  <2>1. RdInit => InOrder
    BY DEF RdInit, NoResult, InOrder
  <2> QED
    BY <2>1, RdInitInv
<1>2. RdInv /\ InOrder /\ [RdNext]_rdVars => (RdInv /\ InOrder)'
  BY RdNextInv
<1> QED
  BY <1>1, <1>2, PTL DEF RdSpec

\* The window is exact after any sequence of operations, fills and put-backs.
THEOREM WindowIsExact == RdSpec => []WindowExact
<1>1. RdInv /\ InOrder => WindowExact
  BY DEF RdInv
<1> QED
  BY <1>1, RdInvariant, PTL

\* Every operation returns the next bytes of the input, for every buffer size.
THEOREM BytesInOrder == RdSpec => []InOrder
<1>1. RdInv /\ InOrder => InOrder
  OBVIOUS
<1> QED
  BY <1>1, RdInvariant, PTL

--------------------------------------------------------------------------------
(* Lines.                                                                   *)

\* ReadLine looks for line feeds.
LineInvariant == (op.name = "line" => op.delim = NL) /\ NoLineEndLeft

\* The bytes of the window, by their offsets in the input.
LEMMA WindowBytes ==
    ASSUME RdInv, op.name # "discard", NEW j \in 0 .. Buffered - 1
    PROVE  stream[taken + 1 + j] = ByteAt(r + j) /\ buf[r + j] = taken + 1 + j
<1>1. op.rem = op.n /\ op.n \in Int
  BY DEF RdInv, ProgressInv, RdTypeOK
<1>2. /\ r \in Int /\ w \in Int /\ pos \in Int /\ taken \in Int /\ Buffered = w - r
      /\ r + j \in r .. w - 1
  BY SizeAssumption, PosAssumption DEF RdInv, RdTypeOK, Buffered
<1>3. taken = pos - (w - r) /\ buf[r + j] = pos + 1 + (r + j) - w
  BY <1>1, <1>2 DEF RdInv, WindowExact
<1>4. buf[r + j] = taken + 1 + j
  BY <1>2, <1>3
<1> QED
  BY <1>4 DEF ByteAt

\* A fragment without a line feed, whose last byte is no '\r' or whose next byte
\* is no line feed.
LEMMA FragmentLeaves ==
    ASSUME RdInv, op.name = "line", stream' = stream,
           NEW n \in 0 .. Buffered, NEW used \in Int, NEW e, NEW more,
           Return(Slice(n), used, e, more),
           \A j \in 0 .. n - 1 : ByteAt(r + j) # NL,
           \/ n = 0 \/ (~more /\ used = n)
           \/ ByteAt(r + n - 1) # CR
           \/ n < Buffered /\ ByteAt(r + n) # NL
    PROVE  NoLineEndLeft'
<1>1. /\ ret'.data = Slice(n) /\ ret'.at = taken /\ ret'.used = used /\ (ret'.prefix <=> more)
  BY DEF Return
<1>2. n \in Nat /\ Buffered \in Nat /\ taken \in Int /\ r \in Int
  BY SizeAssumption, PosAssumption DEF RdInv, RdTypeOK, Buffered
<1>3. Len(Slice(n)) = n /\ \A i \in 1 .. n : Slice(n)[i] = buf[r + i - 1]
  BY <1>2 DEF Slice
<1>4. ASSUME NEW i \in 1 .. n PROVE stream[Slice(n)[i]] = ByteAt(r + (i - 1))
  <2>1. r + i - 1 = r + (i - 1)
    BY <1>2
  <2> QED
    BY <1>3, <2>1 DEF ByteAt
<1>5. ASSUME NEW i \in 1 .. n PROVE stream[Slice(n)[i]] # NL
  <2>1. i - 1 \in 0 .. n - 1
    BY <1>2
  <2> QED
    BY <1>4, <2>1
<1>6. ASSUME n > 0, more \/ used > n, stream[Slice(n)[n]] = CR, stream[taken + n + 1] = NL
      PROVE  FALSE
  <2>1. n # 0 /\ ~(~more /\ used = n)
    BY <1>2, <1>6
  <2>2. ByteAt(r + n - 1) = CR
    <3>1. n \in 1 .. n /\ r + (n - 1) = r + n - 1
      BY <1>2, <1>6
    <3> QED
      BY <1>4, <1>6, <3>1
  <2>3. n < Buffered /\ ByteAt(r + n) # NL
    BY <2>1, <2>2
  <2>4. n \in 0 .. Buffered - 1 /\ taken + 1 + n = taken + n + 1
    BY <1>2, <2>3
  <2>5. stream[taken + 1 + n] = ByteAt(r + n)
    BY <2>4, WindowBytes
  <2> QED
    BY <1>6, <2>3, <2>4, <2>5
<1> QED
  BY <1>1, <1>3, <1>5, <1>6 DEF NoLineEndLeft

LEMMA ReadLineLeaves ==
    ASSUME RdInv, op.delim = NL, ReadLine
    PROVE  NoLineEndLeft'
<1> USE SizeAssumption
<1>0. /\ r \in 0 .. Size /\ w \in 0 .. Size /\ r <= w /\ Buffered = w - r /\ Buffered \in Nat
      /\ op.name = "line" /\ stream' = stream /\ NL # CR
  BY BytesAssumption DEF RdInv, RdTypeOK, Buffered, ReadLine, input
<1>1. ASSUME NEW i \in Slots, LineFound(i) PROVE NoLineEndLeft'
  <2> DEFINE eol == IF i > r /\ ByteAt(i - 1) = CR THEN 2 ELSE 1
             n == i - r + 1 - eol
             used == i - r + 1
  <2>1. FirstDelim(i) /\ Return(Slice(n), used, "nil", FALSE)
    BY <1>1 DEF LineFound
  <2>2. i \in r .. w - 1 /\ \A j \in r .. i - 1 : ByteAt(j) # NL
    BY <2>1 DEF FirstDelim
  <2>3. n \in 0 .. Buffered /\ used \in Int /\ n <= i - r
    BY <1>0, <2>2
  <2>4. \/ n = 0 \/ ByteAt(r + n - 1) # CR
        \/ n < Buffered /\ ByteAt(r + n) # NL
    <3>1. CASE i > r /\ ByteAt(i - 1) = CR
      <4>1. r + n = i - 1 /\ n < Buffered
        BY <1>0, <2>2, <3>1
      <4> QED
        BY <1>0, <3>1, <4>1
    <3>2. CASE i > r /\ ByteAt(i - 1) # CR
      <4>1. r + n - 1 = i - 1
        BY <1>0, <2>2, <3>2
      <4> QED
        BY <3>2, <4>1
    <3>3. CASE ~(i > r)
      BY <1>0, <2>2, <3>3
    <3> QED
      BY <3>1, <3>2, <3>3
  <2> HIDE DEF n, used, eol
  <2>5. \A j \in 0 .. n - 1 : r + j \in r .. i - 1
    BY <1>0, <2>2, <2>3
  <2>6. \A j \in 0 .. n - 1 : ByteAt(r + j) # NL
    BY <2>2, <2>5
  <2> QED
    BY <1>0, <2>1, <2>3, <2>4, <2>6, FragmentLeaves
<1>2. ASSUME LineTooLong PROVE NoLineEndLeft'
  <2> DEFINE back == IF ByteAt(w - 1) = CR THEN 1 ELSE 0
             n == Buffered - back
  <2>1. NoDelim /\ Buffered >= Size /\ Return(Slice(n), n, "nil", TRUE)
    BY <1>2 DEF LineTooLong
  <2>2. n \in 0 .. Buffered /\ n \in Int
    BY <1>0, <2>1
  <2>3. \/ n = 0 \/ ByteAt(r + n - 1) # CR
        \/ n < Buffered /\ ByteAt(r + n) # NL
    <3>1. CASE ByteAt(w - 1) = CR
      <4>1. r + n = w - 1 /\ n < Buffered
        BY <1>0, <3>1
      <4> QED
        BY <1>0, <3>1, <4>1
    <3>2. CASE ByteAt(w - 1) # CR
      <4>1. r + n - 1 = w - 1
        BY <1>0, <3>2
      <4> QED
        BY <3>2, <4>1
    <3> QED
      BY <3>1, <3>2
  <2> HIDE DEF n, back
  <2>4. \A j \in 0 .. n - 1 : r + j \in r .. w - 1
    BY <1>0, <2>2
  <2>5. \A j \in 0 .. n - 1 : ByteAt(r + j) # NL
    BY <2>1, <2>4 DEF NoDelim
  <2> QED
    BY <1>0, <2>1, <2>2, <2>3, <2>5, FragmentLeaves
<1>3. ASSUME LineEnded PROVE NoLineEndLeft'
  <2> DEFINE n == Buffered
             e == IF Buffered = 0 THEN err ELSE "nil"
  <2>1. NoDelim /\ Return(Slice(n), n, e, FALSE)
    BY <1>3 DEF LineEnded
  <2>2. n \in 0 .. Buffered /\ n \in Int /\ n = w - r
    BY <1>0
  <2> HIDE DEF e, n
  <2>3. \A j \in 0 .. n - 1 : r + j \in r .. w - 1
    BY <1>0, <2>2
  <2>4. \A j \in 0 .. n - 1 : ByteAt(r + j) # NL
    BY <2>1, <2>3 DEF NoDelim
  <2>5. ~FALSE /\ n = n
    OBVIOUS
  <2> QED
    BY <1>0, <2>1, <2>2, <2>4, <2>5, FragmentLeaves
<1> QED
  BY <1>1, <1>2, <1>3 DEF ReadLine

LEMMA LineNext ==
    ASSUME RdInv, LineInvariant, [RdNext]_rdVars
    PROVE  LineInvariant'
<1>0. stream' = stream
  BY DEF RdNext, RdCall, RdStep, Call, Fill, ReadDirect, PeekBad, PeekFull, PeekShort,
         DiscardTrivial, DiscardSkip, ReadNothing, ReadCopy, ReadByte, ReadSlice, ReadLine,
         rdVars, input
<1>1. CASE RdCall
  <2>1. ret' = NoResult /\ (op'.name = "line" => op'.delim = NL)
    BY <1>1 DEF RdCall, Call
  <2> QED
    BY <2>1 DEF LineInvariant, NoLineEndLeft, NoResult
<1>2. CASE ReadLine
  <2>1. NoLineEndLeft'
    BY <1>2, ReadLineLeaves DEF LineInvariant, ReadLine
  <2>2. op' = NoOp
    BY <1>2 DEF ReadLine, LineFound, LineTooLong, LineEnded, Return
  <2> QED
    BY <2>1, <2>2 DEF LineInvariant, NoOp
<1>3. ASSUME op' = NoOp, ret'.name # "line"
      PROVE  LineInvariant'
  BY <1>3 DEF LineInvariant, NoLineEndLeft, NoOp
<1>4. ASSUME ret' = ret, op'.name = op.name, op'.delim = op.delim
      PROVE  LineInvariant'
  BY <1>0, <1>4 DEF LineInvariant, NoLineEndLeft
<1>5. op \in [name : OpNames, n : Int, rem : Int, filled : BOOLEAN, delim : Bytes]
  BY DEF RdInv, RdTypeOK
<1>6. ASSUME NEW k, NEW e, Fill(k, e) PROVE LineInvariant'
  BY <1>4, <1>5, <1>6 DEF Fill
<1>7. ASSUME NEW k, NEW e, ReadDirect(k, e) PROVE LineInvariant'
  BY <1>3, <1>7 DEF ReadDirect, Return
<1>8. CASE DiscardSkip
  <2> DEFINE skip == IF Buffered > op.rem THEN op.rem ELSE Buffered
             rem == op.rem - skip
  <2>1. \/ Return(<<>>, op.n, "nil", FALSE)
        \/ Return(<<>>, op.n - rem, err, FALSE)
        \/ ret' = ret /\ op' = [op EXCEPT !.rem = rem, !.filled = FALSE]
    BY <1>8, Zenon DEF DiscardSkip
  <2>2. op.name = "discard"
    BY <1>8 DEF DiscardSkip
  <2> HIDE DEF rem
  <2>3. ASSUME NEW n, NEW e, Return(<<>>, n, e, FALSE) PROVE LineInvariant'
    BY <1>3, <2>2, <2>3 DEF Return
  <2>4. CASE ret' = ret /\ op' = [op EXCEPT !.rem = rem, !.filled = FALSE]
    BY <1>4, <1>5, <2>4
  <2> QED
    BY <2>1, <2>3, <2>4
<1>9. CASE PeekBad \/ PeekFull \/ PeekShort \/ DiscardTrivial \/ ReadNothing \/ ReadCopy
           \/ ReadByte \/ ReadSlice
  BY <1>3, <1>9 DEF PeekBad, PeekFull, PeekShort, DiscardTrivial, ReadNothing, ReadCopy,
                    ReadByte, ReadSlice, Return
<1>10. CASE UNCHANGED rdVars
  BY <1>4, <1>10 DEF rdVars
<1> QED
  BY <1>1, <1>2, <1>6, <1>7, <1>8, <1>9, <1>10 DEF RdNext, RdStep

\* ReadLine returns no line end and splits none, for every buffer size and
\* input, wherever "\r\n" falls in the buffer.
THEOREM LineEndsRemoved == RdSpec => []NoLineEndLeft
<1>1. RdInit => LineInvariant
  BY DEF RdInit, NoOp, NoResult, LineInvariant, NoLineEndLeft
<1>2. LineInvariant => NoLineEndLeft
  BY DEF LineInvariant
<1>3. (RdInv /\ InOrder) /\ LineInvariant /\ [RdNext]_rdVars => LineInvariant'
  BY LineNext
<1> QED
  BY <1>1, <1>2, <1>3, RdInvariant, PTL DEF RdSpec

--------------------------------------------------------------------------------
(* Errors.                                                                  *)

ErrorKept ==
    err # "nil" /\ err' # err =>
          \/ ret'.err = err /\ op' = NoOp
          \/ op.name = "line" /\ Len(ret'.data) > 0
          \/ op.name = "discard" /\ op'.filled

LEMMA ErrorNext ==
    ASSUME RdInv, [RdNext]_rdVars
    PROVE  ErrorKept
<1> SUFFICES ASSUME err # "nil", err' # err
             PROVE  \/ ret'.err = err /\ op' = NoOp
                    \/ op.name = "line" /\ Len(ret'.data) > 0
                    \/ op.name = "discard" /\ op'.filled
  BY DEF ErrorKept
<1>1. ASSUME NEW k, NEW e, Fill(k, e) PROVE op.name = "discard" /\ op'.filled
  <2>1. op.name = "discard"
    BY <1>1 DEF Fill, NeedFill
  <2>2. op' = [op EXCEPT !.filled = TRUE]
    BY <1>1 DEF Fill
  <2>3. op \in [name : OpNames, n : Int, rem : Int, filled : BOOLEAN, delim : Bytes]
    BY DEF RdInv, RdTypeOK
  <2> QED
    BY <2>1, <2>2, <2>3
<1>2. CASE op.name = "line" /\ LineEnded
  <2>1. Buffered \in Nat
    BY SizeAssumption DEF RdInv, RdTypeOK, Buffered
  <2>2. CASE Buffered = 0
    BY <1>2, <2>2 DEF LineEnded, Return
  <2>3. CASE Buffered # 0
    <3>1. ret'.data = Slice(Buffered)
      BY <1>2 DEF LineEnded, Return
    <3>2. Len(Slice(Buffered)) = Buffered
      BY <2>1 DEF Slice
    <3> QED
      BY <1>2, <2>1, <2>3, <3>1, <3>2
  <2> QED
    BY <2>2, <2>3
<1> QED
  BY <1>1, <1>2 DEF RdNext, RdCall, RdStep, Call, ReadDirect, PeekBad, PeekFull, PeekShort,
     DiscardTrivial, DiscardSkip, ReadNothing, ReadCopy, ReadByte, ReadSlice, ReadLine,
     LineFound, LineTooLong, Return, rdVars, state

\* A pending error is returned before it is dropped, but for ReadLine with data
\* and a Discard that reads on.
THEOREM ErrorsSurface == RdSpec => ErrorSurfaces
<1>1. (RdInv /\ InOrder) /\ [RdNext]_rdVars => [ErrorKept]_rdVars
  BY ErrorNext
<1>2. RdSpec => [][ErrorKept]_rdVars
  BY <1>1, RdInvariant, PTL DEF RdSpec
<1> QED
  BY <1>2 DEF ErrorSurfaces, ErrorKept

--------------------------------------------------------------------------------
(* ReadRequest.  Its lines are made of the pieces that ReadLine returned; what *)
(* the reader has consumed is where the next piece begins.                     *)

\* The bytes consumed before the result that ReadRequest has yet to look at, and
\* where the line it is reading begins.
Before == IF ret.name = "none" THEN taken ELSE ret.at
LineBegin == Before - Len(line) + 1

\* Bytes p and p + 1 are a line end.
CrLf(p) == p < MaxPos /\ stream[p] = CR /\ stream[p + 1] = NL

Reading == phase \in {"first", "header"}

\* Bytes m to n hold no b.
Without(b, m, n) == \A i \in m .. n : stream[i] # b

\* Which operation runs, and that its result is the next thing to be consumed.
OpsInv ==
    /\ op.name \in {"none", "line", "slice"}
    /\ op.name = "line" => Reading /\ op.delim = NL
    /\ op.name = "slice" => phase = "body" /\ op.delim = NUL
    /\ op.name # "none" => ret.name = "none"
    /\ ret.name \in {"none", "line", "slice"}
    /\ ret.name = "line" => Reading
    /\ ret.name = "slice" => phase = "body"

\* The end of the input is met with room in the buffer.
EndInv == err # "nil" => err = "eof" /\ pos = MaxPos /\ Buffered < Size

\* What ReadLine returned: a piece of a line, the rest of a line up to its line
\* end or to the end of the input, or the end of the input.
PieceInv ==
    ret.name = "line" =>
        LET n == Len(ret.data)
        IN  /\ ret.data \in Seq(1 .. MaxPos)
            /\ \A i \in 1 .. n : ret.data[i] = ret.at + i
            /\ ret.at \in 0 .. MaxPos /\ ret.at + n <= MaxPos
            /\ Without(NL, ret.at + 1, ret.at + n)
            /\ \/ /\ ret.err = "nil" /\ ret.prefix
                  /\ taken = ret.at + n /\ n > 0 /\ ~CrLf(taken)
               \/ /\ ret.err = "nil" /\ ~ret.prefix
                  /\ taken \in 1 .. MaxPos /\ stream[taken] = NL
                  /\ \/ taken = ret.at + n + 1 /\ (n > 0 => stream[ret.at + n] # CR)
                     \/ taken = ret.at + n + 2 /\ stream[ret.at + n + 1] = CR
               \/ /\ ret.err = "nil" /\ ~ret.prefix
                  /\ taken = MaxPos /\ taken = ret.at + n /\ n > 0
               \/ /\ ret.err = "eof" /\ ~ret.prefix
                  /\ taken = MaxPos /\ n = 0 /\ ret.at = MaxPos

\* What ReadSlice returned: the bytes up to a zero byte, to the end of the input,
\* or as many as fill the buffer.
BodyInv ==
    ret.name = "slice" =>
        LET n == Len(ret.data)
        IN  /\ ret.data \in Seq(1 .. MaxPos)
            /\ \A i \in 1 .. n : ret.data[i] = ret.at + i
            /\ ret.at \in 0 .. MaxPos /\ ret.at + n <= MaxPos
            /\ \/ /\ ret.err = "nil" /\ n \in 1 .. Size
                  /\ stream[ret.at + n] = NUL /\ Without(NUL, ret.at + 1, ret.at + n - 1)
               \/ /\ ret.err = "eof" /\ n < Size /\ ret.at + n = MaxPos
                  /\ Without(NUL, ret.at + 1, ret.at + n)
               \/ /\ ret.err = "full" /\ n >= Size
                  /\ Without(NUL, ret.at + 1, ret.at + n)

\* The line that is being read: its pieces, and the lines before it.
LinesInv ==
    Reading =>
        /\ joined \/ line = <<>>
        /\ LineBegin \in 1 .. MaxPos + 1
        /\ \A k \in 1 .. Len(line) : line[k] = LineBegin + k - 1
        /\ Without(NL, LineBegin, Before)
        /\ line # <<>> => ~CrLf(Before)
        /\ phase = "first" => LineBegin = 1 /\ header = <<>>
        /\ phase = "header" =>
              /\ LineBegin >= 2
              /\ LineBegin <= MaxPos => LineBegin \in LineStarts(Len(header) + 2)
        /\ \A j \in 2 .. LineBegin - 1 : IsStart(j) => Trim(Text(j)) # <<>>

\* Where the body begins, and that none was read before.
StartInv ==
    /\ phase \in {"first", "header", "body"} => body = <<>>
    /\ phase = "body" =>
          /\ Before < MaxPos => Before + 1 \in BodyStarts
          /\ \A b \in BodyStarts : Before < b

ReqInv ==
    /\ RdInv /\ InOrder /\ ReqTypeOK
    /\ OpsInv /\ EndInv /\ PieceInv /\ BodyInv /\ LinesInv /\ StartInv
    /\ SameLines /\ BodyLimits

\* The message does not change, nor what is said of its lines.
LEMMA SameMessage ==
    ASSUME stream' = stream
    PROVE  /\ \A s, b, p : At(s, b, p)' = At(s, b, p)
           /\ \A s : Trim(s)' = Trim(s)
           /\ \A s : SkipBlanks(s)' = SkipBlanks(s)
           /\ LineFeeds' = LineFeeds
           /\ \A i : EndOf(i)' = EndOf(i)
           /\ \A i : Text(i)' = Text(i)
           /\ \A i : IsStart(i)' <=> IsStart(i)
           /\ \A k : LineStarts(k)' = LineStarts(k)
           /\ BodyStarts' = BodyStarts
           /\ BadRequestLine' <=> BadRequestLine
           /\ \A t : BadHeader(t)' <=> BadHeader(t)
           /\ \A i : HeaderOf(i)' = HeaderOf(i)
<1>1. \A s, b, p : At(s, b, p)' = At(s, b, p)
  BY DEF At
<1>2. \A s : Trim(s)' = Trim(s)
  BY DEF Trim
<1>3. \A s : SkipBlanks(s)' = SkipBlanks(s)
  BY DEF SkipBlanks
<1>4. LineFeeds' = LineFeeds
  BY DEF LineFeeds
<1>5. \A i : EndOf(i)' = EndOf(i)
  BY <1>4 DEF EndOf
<1>6. \A i : Text(i)' = Text(i)
  BY <1>5 DEF Text
<1>7. \A i : IsStart(i)' <=> IsStart(i)
  BY <1>4 DEF IsStart
<1>8. \A k : LineStarts(k)' = LineStarts(k)
  BY <1>7 DEF LineStarts
<1>9. BodyStarts' = BodyStarts
  BY <1>2, <1>5, <1>6, <1>7 DEF BodyStarts
<1>10. BadRequestLine' <=> BadRequestLine
  BY <1>1, <1>6 DEF BadRequestLine
<1>11. \A t : BadHeader(t)' <=> BadHeader(t)
  BY <1>1 DEF BadHeader
<1>12. \A i : HeaderOf(i)' = HeaderOf(i)
  BY <1>1, <1>2, <1>3, <1>6 DEF HeaderOf
<1> QED
  BY <1>1, <1>2, <1>3, <1>4, <1>5, <1>6, <1>7, <1>8, <1>9, <1>10, <1>11, <1>12

\* A step that leaves the parser and what it has consumed alone.
LEMMA ReaderOnly ==
    ASSUME ReqInv, stream' = stream, UNCHANGED reqVars, Before' = Before
    PROVE  /\ LinesInv' /\ StartInv' /\ SameLines' /\ BodyLimits'
<1> USE SameMessage DEF ReqInv
<1>1. UNCHANGED <<phase, line, joined, uri, header, body>> /\ LineBegin' = LineBegin
  BY DEF reqVars, LineBegin
<1>2. LinesInv'
  BY <1>1 DEF LinesInv, Reading, Without, CrLf
<1>3. StartInv'
  BY <1>1 DEF StartInv
<1>4. SameLines'
  BY <1>1 DEF SameLines
<1>5. BodyLimits'
  BY <1>1 DEF BodyLimits
<1> QED
  BY <1>2, <1>3, <1>4, <1>5

\* Looking at a result changes nothing in the reader.
LEMMA ConsumeKeeps ==
    ASSUME RdInv, Consume
    PROVE  RdInv' /\ InOrder'
<1>1. /\ UNCHANGED <<stream, pos, buf, r, w, err, op, taken>>
      /\ ret'.data = <<>> /\ ret'.err = "nil"
  BY DEF Consume, input, state, NoResult
<1>2. RdTypeOK'
  BY <1>1, ErrorTypes DEF RdInv, RdTypeOK
<1> QED
  BY <1>1, <1>2 DEF RdInv, WindowExact, ProgressInv, InOrder, Buffered

\* The reader's invariant holds under the parser's steps.
LEMMA ParserKeepsReader ==
    ASSUME RdInv, InOrder, [ReqNext]_allReqVars
    PROVE  RdInv' /\ InOrder'
<1>1. CASE CallReadLine
  BY <1>1, RdNextInv DEF CallReadLine, RdNext, RdCall
<1>2. CASE CallReadBody
  BY <1>2, RdNextInv, ReqBytesAssumption DEF CallReadBody, RdNext, RdCall
<1>3. CASE StringsRead
  <2>1. PICK k \in 0 .. MaxPos, e \in {"nil"} \cup ReadErrors : Fill(k, e)
    <3>1. /\ Rest \in 0 .. MaxPos /\ Room \in Nat
      BY SizeAssumption, PosAssumption DEF RdInv, RdTypeOK, Rest, Room, Buffered
    <3>2. CASE Rest > 0 /\ Fill(IF Room < Rest THEN Room ELSE Rest, "nil")
      <4>1. (IF Room < Rest THEN Room ELSE Rest) \in 0 .. MaxPos
        BY <3>1, PosAssumption
      <4> QED
        BY <3>2, <4>1
    <3>3. CASE Fill(0, "eof")
      BY <3>3, PosAssumption DEF ReadErrors
    <3> QED
      BY <1>3, <3>2, <3>3 DEF StringsRead
  <2> QED
    BY <2>1, RdNextInv DEF RdNext, RdStep
<1>4. CASE ReadLineStep \/ ReadSliceStep
  BY <1>4, LineInv DEF ReadLineStep, ReadSliceStep
<1>5. CASE LinePrefix \/ LineError \/ RequestLine \/ HeaderLine \/ BlankLine \/ ReadBody
  BY <1>5, ConsumeKeeps DEF LinePrefix, LineError, RequestLine, HeaderLine, BlankLine,
                            ReadBody, HaveLine
<1>6. CASE UNCHANGED allReqVars
  BY <1>6, RdNextInv DEF allReqVars
<1> QED
  BY <1>1, <1>2, <1>3, <1>4, <1>5, <1>6 DEF ReqNext

\* The data of a result: the next n bytes.
LEMMA SliceData ==
    ASSUME RdInv, op.name # "discard", NEW n \in 0 .. Buffered
    PROVE  /\ Slice(n) \in Seq(1 .. MaxPos) /\ Len(Slice(n)) = n
           /\ \A i \in 1 .. n : Slice(n)[i] = taken + i
           /\ taken + n <= MaxPos
<1>1. \A i \in DOMAIN Slice(n) : Slice(n)[i] = taken + i
  BY SliceNext
<1>2. n \in Nat /\ DOMAIN Slice(n) = 1 .. n
  BY SizeAssumption DEF RdInv, RdTypeOK, Buffered, Slice
<1>3. op.rem = op.n /\ op.n \in Int
  BY DEF RdInv, ProgressInv, RdTypeOK
<1>4. taken + n <= MaxPos /\ taken \in Nat
  BY <1>2, <1>3, SizeAssumption, PosAssumption DEF RdInv, WindowExact, RdTypeOK, Buffered
<1>5. \A i \in 1 .. n : buf[r + i - 1] = taken + i
  BY <1>1, <1>2 DEF Slice
<1>6. \A i \in 1 .. n : buf[r + i - 1] \in 1 .. MaxPos
  BY <1>2, <1>4, <1>5, PosAssumption
<1> QED
  BY <1>1, <1>2, <1>4, <1>6 DEF Slice

\* A window without a byte, and the input.
LEMMA WindowWithout ==
    ASSUME RdInv, op.name # "discard", NEW n \in 0 .. Buffered, NEW b,
           \A j \in r .. r + n - 1 : ByteAt(j) # b
    PROVE  Without(b, taken + 1, taken + n)
<1> SUFFICES ASSUME NEW i \in taken + 1 .. taken + n PROVE stream[i] # b
  BY DEF Without
<1>1. n \in Nat /\ Buffered \in Nat /\ taken \in Nat /\ r \in Nat
  BY SizeAssumption, PosAssumption DEF RdInv, RdTypeOK, Buffered
<1> DEFINE j == i - taken - 1
<1>2. j \in 0 .. Buffered - 1 /\ r + j \in r .. r + n - 1 /\ taken + 1 + j = i
  BY <1>1
<1> HIDE DEF j
<1>3. stream[taken + 1 + j] = ByteAt(r + j)
  BY <1>2, WindowBytes
<1> QED
  BY <1>2, <1>3

\* Facts about the reader that the results rest on.
LEMMA ReaderFacts ==
    ASSUME RdInv, op.name # "discard"
    PROVE  /\ Size \in Nat /\ Size >= 2 /\ MaxPos \in Nat
           /\ r \in 0 .. Size /\ w \in 0 .. Size /\ r <= w /\ Buffered = w - r
           /\ Buffered \in 0 .. Size /\ taken \in 0 .. MaxPos /\ pos \in 0 .. MaxPos
           /\ taken = pos - Buffered
<1>1. op.rem = op.n /\ op.n \in Int
  BY DEF RdInv, ProgressInv, RdTypeOK
<1> QED
  BY <1>1, SizeAssumption, PosAssumption DEF RdInv, RdTypeOK, Buffered, WindowExact

\* ReadSlice(0).
LEMMA SliceResult ==
    ASSUME RdInv, EndInv, op.delim = NUL, ReadSlice
    PROVE  BodyInv'
<1>0. op.name = "slice" /\ stream' = stream
  BY DEF ReadSlice, input
<1>f. /\ Size \in Nat /\ Size >= 2 /\ MaxPos \in Nat
      /\ r \in 0 .. Size /\ w \in 0 .. Size /\ r <= w /\ Buffered = w - r
      /\ Buffered \in 0 .. Size /\ taken \in 0 .. MaxPos /\ pos \in 0 .. MaxPos
      /\ taken = pos - Buffered
  BY <1>0, ReaderFacts
<1>1. ASSUME NEW n \in 0 .. Buffered,
             ret'.data = Slice(n), ret'.at = taken,
             \/ /\ ret'.err = "nil" /\ n > 0
                /\ stream[taken + n] = NUL /\ Without(NUL, taken + 1, taken + n - 1)
             \/ /\ ret'.err = "eof" /\ n < Size /\ taken + n = MaxPos
                /\ Without(NUL, taken + 1, taken + n)
             \/ /\ ret'.err = "full" /\ n >= Size
                /\ Without(NUL, taken + 1, taken + n)
      PROVE  BodyInv'
  <2>1. /\ Slice(n) \in Seq(1 .. MaxPos) /\ Len(Slice(n)) = n
        /\ \A i \in 1 .. n : Slice(n)[i] = taken + i
        /\ taken + n <= MaxPos
    BY <1>0, SliceData
  <2> QED
    BY <1>0, <1>1, <1>f, <2>1 DEF BodyInv, Without
<1>2. ASSUME NEW i \in Slots, FirstDelim(i), Return(Slice(i - r + 1), i - r + 1, "nil", FALSE)
      PROVE  BodyInv'
  <2> DEFINE n == i - r + 1
  <2>1. i \in r .. w - 1 /\ ByteAt(i) = NUL /\ \A j \in r .. i - 1 : ByteAt(j) # NUL
    BY <1>2 DEF FirstDelim
  <2>2. n \in 1 .. Buffered /\ n - 1 \in 0 .. Buffered - 1 /\ r + (n - 1) - 1 = i - 1
        /\ r + (n - 1) = i /\ taken + 1 + (n - 1) = taken + n /\ taken + (n - 1) = taken + n - 1
    BY <1>f, <2>1
  <2>3. ret'.data = Slice(n) /\ ret'.at = taken /\ ret'.err = "nil"
    BY <1>2 DEF Return
  <2> HIDE DEF n
  <2>4. stream[taken + n] = NUL
    <3>1. stream[taken + 1 + (n - 1)] = ByteAt(r + (n - 1))
      BY <1>0, <2>2, WindowBytes
    <3> QED
      BY <2>1, <2>2, <3>1
  <2>5. Without(NUL, taken + 1, taken + n - 1)
    <3>1. n - 1 \in 0 .. Buffered /\ \A j \in r .. r + (n - 1) - 1 : ByteAt(j) # NUL
      BY <1>f, <2>1, <2>2
    <3>2. Without(NUL, taken + 1, taken + (n - 1))
      BY <1>0, <3>1, WindowWithout
    <3> QED
      BY <2>2, <3>2
  <2>6. n \in 0 .. Buffered /\ n > 0
    BY <1>f, <2>2
  <2> QED
    BY <1>1, <2>3, <2>4, <2>5, <2>6
<1>3. ASSUME NoDelim PROVE Without(NUL, taken + 1, taken + Buffered)
  <2>1. \A j \in r .. r + Buffered - 1 : ByteAt(j) # NUL
    BY <1>3, <1>f DEF NoDelim
  <2>2. Buffered \in 0 .. Buffered
    BY <1>f
  <2> QED
    BY <1>0, <2>1, <2>2, WindowWithout
<1>4. CASE NoDelim /\ err # "nil" /\ Return(Slice(Buffered), Buffered, err, FALSE)
  <2>1. err = "eof" /\ pos = MaxPos /\ Buffered < Size
    BY <1>4 DEF EndInv
  <2>2. ret'.data = Slice(Buffered) /\ ret'.at = taken /\ ret'.err = "eof"
    BY <1>4, <2>1 DEF Return
  <2>3. Buffered \in 0 .. Buffered /\ taken + Buffered = MaxPos
    BY <1>f, <2>1
  <2> QED
    BY <1>1, <1>3, <1>4, <2>1, <2>2, <2>3
<1>5. CASE NoDelim /\ Buffered >= Size /\ Return(Slice(Buffered), Buffered, "full", FALSE)
  <2>1. ret'.data = Slice(Buffered) /\ ret'.at = taken /\ ret'.err = "full"
    BY <1>5 DEF Return
  <2>2. Buffered \in 0 .. Buffered
    BY <1>f
  <2> QED
    BY <1>1, <1>3, <1>5, <2>1, <2>2
<1> QED
  BY <1>0, <1>2, <1>4, <1>5 DEF ReadSlice

\* ReadLine.
LEMMA LineResultIs ==
    ASSUME RdInv, EndInv, op.delim = NL, ReadLine
    PROVE  PieceInv'
<1>0. op.name = "line" /\ stream' = stream /\ NL # CR
  BY BytesAssumption DEF ReadLine, input
<1>f. /\ Size \in Nat /\ Size >= 2 /\ MaxPos \in Nat
      /\ r \in 0 .. Size /\ w \in 0 .. Size /\ r <= w /\ Buffered = w - r
      /\ Buffered \in 0 .. Size /\ taken \in 0 .. MaxPos /\ pos \in 0 .. MaxPos
      /\ taken = pos - Buffered
  BY <1>0, ReaderFacts
<1>1. ASSUME NEW n \in 0 .. Buffered, NEW used \in 0 .. Buffered,
             ret'.data = Slice(n), ret'.at = taken, taken' = taken + used,
             Without(NL, taken + 1, taken + n),
             \/ /\ ret'.err = "nil" /\ ret'.prefix
                /\ used = n /\ n > 0 /\ ~CrLf(taken + n)
             \/ /\ ret'.err = "nil" /\ ~ret'.prefix
                /\ used > 0 /\ stream[taken + used] = NL
                /\ \/ used = n + 1 /\ (n > 0 => stream[taken + n] # CR)
                   \/ used = n + 2 /\ stream[taken + n + 1] = CR
             \/ /\ ret'.err = "nil" /\ ~ret'.prefix
                /\ taken + n = MaxPos /\ used = n /\ n > 0
             \/ /\ ret'.err = "eof" /\ ~ret'.prefix
                /\ taken = MaxPos /\ n = 0 /\ used = 0
      PROVE  PieceInv'
  <2>1. /\ Slice(n) \in Seq(1 .. MaxPos) /\ Len(Slice(n)) = n
        /\ \A i \in 1 .. n : Slice(n)[i] = taken + i
        /\ taken + n <= MaxPos
    BY <1>0, SliceData
  <2>2. taken' \in 0 .. MaxPos
    BY <1>1, <1>f
  <2>3. Len(ret'.data) = n /\ ret'.data \in Seq(1 .. MaxPos)
    BY <1>1, <2>1
  <2>4. /\ \A i \in 1 .. n : ret'.data[i] = ret'.at + i
        /\ ret'.at \in 0 .. MaxPos /\ ret'.at + n <= MaxPos
    BY <1>1, <1>f, <2>1
  <2>5. \A i \in ret'.at + 1 .. ret'.at + n : stream'[i] # NL
    BY <1>0, <1>1 DEF Without
  <2> DEFINE Ending ==
        \/ /\ ret'.err = "nil" /\ ret'.prefix
           /\ taken' = ret'.at + n /\ n > 0 /\ ~CrLf(taken)'
        \/ /\ ret'.err = "nil" /\ ~ret'.prefix
           /\ taken' \in 1 .. MaxPos /\ stream'[taken'] = NL
           /\ \/ taken' = ret'.at + n + 1 /\ (n > 0 => stream'[ret'.at + n] # CR)
              \/ taken' = ret'.at + n + 2 /\ stream'[ret'.at + n + 1] = CR
        \/ /\ ret'.err = "nil" /\ ~ret'.prefix
           /\ taken' = MaxPos /\ taken' = ret'.at + n /\ n > 0
        \/ /\ ret'.err = "eof" /\ ~ret'.prefix
           /\ taken' = MaxPos /\ n = 0 /\ ret'.at = MaxPos
  <2>6. Ending
    <3>1. CASE ret'.err = "nil" /\ ret'.prefix /\ used = n /\ n > 0 /\ ~CrLf(taken + n)
      <4>1. taken' = ret'.at + n /\ taken' = taken + n
        BY <1>1, <3>1
      <4>2. ~CrLf(taken)'
        BY <1>0, <3>1, <4>1 DEF CrLf
      <4> QED
        BY <3>1, <4>1, <4>2
    <3>2. CASE /\ ret'.err = "nil" /\ ~ret'.prefix
               /\ used > 0 /\ stream[taken + used] = NL
               /\ \/ used = n + 1 /\ (n > 0 => stream[taken + n] # CR)
                  \/ used = n + 2 /\ stream[taken + n + 1] = CR
      <4>1. taken' \in 1 .. MaxPos /\ n \in Nat /\ used \in Nat
        BY <1>1, <1>f, <2>2, <3>2
      <4>2. stream'[taken'] = NL /\ ret'.at = taken
        BY <1>0, <1>1, <3>2
      <4>3. \/ taken' = ret'.at + n + 1 /\ (n > 0 => stream'[ret'.at + n] # CR)
            \/ taken' = ret'.at + n + 2 /\ stream'[ret'.at + n + 1] = CR
        BY <1>0, <1>1, <1>f, <3>2, <4>1
      <4> QED
        BY <3>2, <4>1, <4>2, <4>3
    <3>3. CASE ret'.err = "nil" /\ ~ret'.prefix /\ taken + n = MaxPos /\ used = n /\ n > 0
      BY <1>1, <3>3
    <3>4. CASE ret'.err = "eof" /\ ~ret'.prefix /\ taken = MaxPos /\ n = 0 /\ used = 0
      BY <1>1, <1>f, <3>4
    <3> QED
      BY <1>1, <3>1, <3>2, <3>3, <3>4
  <2>7. Without(NL, ret.at + 1, ret.at + n)'
    BY <2>5 DEF Without
  <2>8. (n = Len(ret.data))'
    BY <2>3
  <2> QED
    BY <2>3, <2>4, <2>6, <2>7, <2>8, Zenon DEF PieceInv
<1>2. ASSUME NEW i \in Slots, LineFound(i) PROVE PieceInv'
  <2> DEFINE eol == IF i > r /\ ByteAt(i - 1) = CR THEN 2 ELSE 1
             used == i - r + 1
             n == i - r + 1 - eol
  <2>0. FirstDelim(i) /\ Return(Slice(n), used, "nil", FALSE)
    BY <1>2 DEF LineFound
  <2>1. i \in r .. w - 1 /\ ByteAt(i) = NL /\ \A j \in r .. i - 1 : ByteAt(j) # NL
    BY <2>0 DEF FirstDelim
  <2>2. /\ ret'.data = Slice(n) /\ ret'.at = taken /\ taken' = taken + used
        /\ ret'.err = "nil" /\ ~ret'.prefix
    BY <2>0 DEF Return
  <2>3. /\ used \in 1 .. Buffered /\ r + (used - 1) = i /\ used - 1 \in 0 .. Buffered - 1
        /\ taken + 1 + (used - 1) = taken + used
    BY <1>f, <2>1
  <2>4. stream[taken + used] = NL
    <3>1. stream[taken + 1 + (used - 1)] = ByteAt(r + (used - 1))
      BY <1>0, <2>3, WindowBytes
    <3> QED
      BY <2>1, <2>3, <3>1
  <2>5. CASE i > r /\ ByteAt(i - 1) = CR
    <3>1. /\ n = used - 2 /\ n \in 0 .. Buffered - 1 /\ r + n = i - 1
          /\ taken + 1 + n = taken + n + 1 /\ r + n - 1 \in r - 1 .. i - 1
      BY <1>f, <2>1, <2>5
    <3>2. stream[taken + n + 1] = CR
      <4>1. stream[taken + 1 + n] = ByteAt(r + n)
        BY <1>0, <3>1, WindowBytes
      <4> QED
        BY <2>5, <3>1, <4>1
    <3>3. n \in 0 .. Buffered /\ \A j \in r .. r + n - 1 : ByteAt(j) # NL
      BY <1>f, <2>1, <3>1
    <3> HIDE DEF n, used, eol
    <3>4. Without(NL, taken + 1, taken + n)
      BY <1>0, <3>3, WindowWithout
    <3>5. used = n + 2 /\ used > 0 /\ used \in 0 .. Buffered
      BY <1>f, <2>3, <3>1
    <3> QED
      BY <1>1, <2>2, <2>4, <3>2, <3>3, <3>4, <3>5
  <2>6. CASE ~(i > r /\ ByteAt(i - 1) = CR)
    <3>1. n = used - 1 /\ n \in 0 .. Buffered - 1 /\ r + n - 1 = i - 1
      BY <1>f, <2>1, <2>6
    <3>2. ASSUME n > 0 PROVE stream[taken + n] # CR
      <4>1. /\ n - 1 \in 0 .. Buffered - 1 /\ r + (n - 1) = i - 1 /\ i > r
            /\ taken + 1 + (n - 1) = taken + n
        BY <1>f, <2>1, <3>1, <3>2
      <4>2. stream[taken + 1 + (n - 1)] = ByteAt(r + (n - 1))
        BY <1>0, <4>1, WindowBytes
      <4> QED
        BY <2>6, <4>1, <4>2
    <3>3. n \in 0 .. Buffered /\ \A j \in r .. r + n - 1 : ByteAt(j) # NL
      BY <1>f, <2>1, <3>1
    <3> HIDE DEF n, used, eol
    <3>4. Without(NL, taken + 1, taken + n)
      BY <1>0, <3>3, WindowWithout
    <3>5. used = n + 1 /\ used > 0 /\ used \in 0 .. Buffered
      BY <1>f, <2>3, <3>1
    <3> QED
      BY <1>1, <2>2, <2>4, <3>2, <3>3, <3>4, <3>5
  <2> QED
    BY <2>5, <2>6
<1>3. ASSUME NoDelim, NEW n \in 0 .. Buffered PROVE Without(NL, taken + 1, taken + n)
  <2>1. \A j \in r .. r + n - 1 : ByteAt(j) # NL
    BY <1>3, <1>f DEF NoDelim
  <2> QED
    BY <1>0, <2>1, WindowWithout
<1>4. CASE LineTooLong
  <2> DEFINE back == IF ByteAt(w - 1) = CR THEN 1 ELSE 0
             n == Buffered - back
  <2>1. NoDelim /\ Buffered >= Size /\ Return(Slice(n), n, "nil", TRUE)
    BY <1>4 DEF LineTooLong
  <2>2. /\ ret'.data = Slice(n) /\ ret'.at = taken /\ taken' = taken + n
        /\ ret'.err = "nil" /\ ret'.prefix
    BY <2>1 DEF Return
  <2>3. n \in 0 .. Buffered /\ n > 0 /\ Buffered - 1 \in 0 .. Buffered - 1 /\ Buffered >= 2
    BY <1>f, <2>1
  <2>4. Without(NL, taken + 1, taken + n) /\ Without(NL, taken + 1, taken + Buffered)
    <3>1. Buffered \in 0 .. Buffered
      BY <1>f
    <3> HIDE DEF n
    <3> QED
      BY <1>3, <2>1, <2>3, <3>1
  <2>5. ~CrLf(taken + n)
    <3>1. CASE ByteAt(w - 1) = CR
      <4>1. taken + n + 1 \in taken + 1 .. taken + Buffered
        BY <1>f, <2>3, <3>1
      <4> HIDE DEF n
      <4> QED
        BY <2>4, <4>1 DEF CrLf, Without
    <3>2. CASE ByteAt(w - 1) # CR
      <4>1. n = Buffered /\ r + (Buffered - 1) = w - 1 /\ taken + 1 + (Buffered - 1) = taken + n
        BY <1>f, <3>2
      <4>2. stream[taken + 1 + (Buffered - 1)] = ByteAt(r + (Buffered - 1))
        BY <1>0, <2>3, WindowBytes
      <4> QED
        BY <3>2, <4>1, <4>2 DEF CrLf
    <3> QED
      BY <3>1, <3>2
  <2> HIDE DEF n
  <2> QED
    BY <1>1, <2>2, <2>3, <2>4, <2>5
<1>5. CASE LineEnded
  <2>1. err = "eof" /\ pos = MaxPos /\ NoDelim
    BY <1>5 DEF EndInv, LineEnded
  <2> DEFINE e == IF Buffered = 0 THEN err ELSE "nil"
  <2>2. Return(Slice(Buffered), Buffered, e, FALSE)
    BY <1>5 DEF LineEnded
  <2>3. /\ ret'.data = Slice(Buffered) /\ ret'.at = taken /\ taken' = taken + Buffered
        /\ ret'.err = e /\ ~ret'.prefix
    BY <2>2 DEF Return
  <2>4. /\ Buffered \in 0 .. Buffered /\ taken + Buffered = MaxPos
        /\ \/ e = "eof" /\ Buffered = 0 /\ taken = MaxPos
           \/ e = "nil" /\ Buffered > 0
    BY <1>f, <2>1
  <2>5. Without(NL, taken + 1, taken + Buffered)
    BY <1>3, <2>1, <2>4
  <2> HIDE DEF e
  <2> QED
    BY <1>1, <2>3, <2>4, <2>5
<1> QED
  BY <1>2, <1>4, <1>5 DEF ReadLine

\* The steps of the reader on the parser's behalf.
LEMMA StepReader ==
    ASSUME ReqInv, CallReadLine \/ CallReadBody \/ StringsRead \/ ReadLineStep \/ ReadSliceStep
    PROVE  ReqInv'
<1>0. RdInv' /\ InOrder'
  BY ParserKeepsReader DEF ReqInv, ReqNext
<1>i. RdInv /\ OpsInv /\ EndInv /\ PieceInv /\ BodyInv
  BY DEF ReqInv
<1>u. UNCHANGED reqVars /\ UNCHANGED <<phase, line, joined, uri, header, body>>
  BY DEF CallReadLine, CallReadBody, StringsRead, ReadLineStep, ReadSliceStep, reqVars
<1>1. ReqTypeOK'
  BY <1>0, <1>u DEF ReqInv, ReqTypeOK, RdInv
<1>2. ASSUME stream' = stream, Before' = Before, OpsInv', EndInv', PieceInv', BodyInv'
      PROVE  ReqInv'
  BY <1>0, <1>1, <1>2, <1>u, ReaderOnly DEF ReqInv
<1>3. ASSUME NEW name \in {"line", "slice"}, NEW d, Call(name, 0, d), ret = NoResult,
             name = "line" => Reading /\ d = NL,
             name = "slice" => phase = "body" /\ d = NUL
      PROVE  ReqInv'
  <2>1. /\ op'.name = name /\ op'.delim = d /\ ret' = NoResult /\ ret.name = "none"
        /\ ret'.name = "none" /\ UNCHANGED <<stream, pos, buf, r, w, err, taken>>
    BY <1>3 DEF Call, NoResult, input, state
  <2>2. OpsInv'
    BY <1>3, <1>u, <2>1 DEF OpsInv, Reading
  <2>3. EndInv' /\ PieceInv' /\ BodyInv'
    BY <1>i, <2>1 DEF EndInv, Buffered, PieceInv, BodyInv
  <2>4. Before' = Before
    BY <2>1 DEF Before
  <2> QED
    BY <1>2, <2>1, <2>2, <2>3, <2>4
<1>4. CASE CallReadLine
  BY <1>3, <1>4 DEF CallReadLine, Reading
<1>5. CASE CallReadBody
  BY <1>3, <1>5 DEF CallReadBody
<1>6. CASE StringsRead
  <2>1. PICK k, e : /\ Fill(k, e)
                    /\ \/ e = "nil"
                       \/ k = 0 /\ e = "eof" /\ Rest = 0
    BY <1>6 DEF StringsRead
  <2>2. /\ UNCHANGED <<stream, ret, taken>>
        /\ op' = [op EXCEPT !.filled = TRUE]
        /\ r' = 0 /\ w' = Buffered + k /\ pos' = pos + k
        /\ err' = IF e = "nil" THEN err ELSE e
    BY <2>1 DEF Fill
  <2>3. op'.name = op.name /\ op'.delim = op.delim
    BY <1>i, <2>2 DEF RdInv, RdTypeOK
  <2>4. err = "nil" /\ Buffered < Size
    BY <1>i, <2>1 DEF Fill, NeedFill, OpsInv
  <2>5. EndInv'
    <3>1. CASE e = "nil"
      BY <2>2, <2>4, <3>1 DEF EndInv
    <3>2. CASE k = 0 /\ e = "eof" /\ Rest = 0
      <4>1. pos \in Nat /\ MaxPos \in Nat /\ Buffered \in Int
        BY <1>i, SizeAssumption, PosAssumption DEF RdInv, RdTypeOK, Buffered
      <4>2. pos' = MaxPos
        BY <2>2, <3>2, <4>1 DEF Rest
      <4>3. Buffered' = Buffered
        BY <2>2, <3>2, <4>1 DEF Buffered
      <4> QED
        BY <2>2, <2>4, <3>2, <4>2, <4>3 DEF EndInv
    <3> QED
      BY <2>1, <3>1, <3>2
  <2>6. OpsInv' /\ Before' = Before
    BY <1>i, <1>u, <2>2, <2>3 DEF OpsInv, Reading, Before
  <2>7. PieceInv' /\ BodyInv'
    BY <1>i, <2>2 DEF PieceInv, BodyInv, Without, CrLf
  <2> QED
    BY <1>2, <2>2, <2>5, <2>6, <2>7
<1>7. ASSUME op' = NoOp, ret'.name = op.name, ret'.at = taken, stream' = stream, op.name # "none",
             EndInv', PieceInv', BodyInv'
      PROVE  ReqInv'
  <2>1. OpsInv'
    BY <1>7, <1>i, <1>u DEF OpsInv, NoOp, Reading
  <2>2. Before' = Before
    BY <1>7, <1>i DEF OpsInv, Before
  <2> QED
    BY <1>2, <1>7, <2>1, <2>2
<1>8. ASSUME err' \in {"nil", err}, pos' = pos, w' = w, r' \in r .. w PROVE EndInv'
  <2>1. CASE err' = "nil"
    BY <2>1 DEF EndInv
  <2>2. CASE err' = err
    <3>1. Buffered' <= Buffered /\ Buffered \in Int /\ Buffered' \in Int /\ Size \in Int
      <4>1. r \in Int /\ w \in Int /\ Size \in Int
        BY <1>i, SizeAssumption DEF RdInv, RdTypeOK
      <4>2. r' \in Int /\ r <= r' /\ w' = w
        BY <1>8, <4>1
      <4>3. Buffered' = w - r' /\ Buffered = w - r
        BY <4>2 DEF Buffered
      <4>4. \A a, b, c \in Int : a <= b => c - b <= c - a /\ c - b \in Int /\ c - a \in Int
        OBVIOUS
      <4>5. w - r' <= w - r /\ w - r' \in Int /\ w - r \in Int
        BY <4>1, <4>2, <4>4
      <4> QED
        BY <4>1, <4>3, <4>5
    <3> QED
      BY <1>8, <1>i, <2>2, <3>1 DEF EndInv
  <2> QED
    BY <1>8, <2>1, <2>2
<1>9. ASSUME ReadLine \/ ReadSlice
      PROVE  /\ op' = NoOp /\ ret'.name = op.name /\ ret'.at = taken /\ stream' = stream
             /\ EndInv'
  <2>1. /\ r \in 0 .. Size /\ w \in 0 .. Size /\ r <= w /\ Buffered = w - r /\ Size \in Nat
        /\ Buffered \in 0 .. Size
    BY <1>i, SizeAssumption DEF RdInv, RdTypeOK, Buffered
  <2>2. op' = NoOp /\ ret'.name = op.name /\ ret'.at = taken
    BY <1>9 DEF ReadLine, ReadSlice, LineFound, LineTooLong, LineEnded, Return
  <2>3. stream' = stream /\ pos' = pos /\ w' = w /\ err' \in {"nil", err}
    BY <1>9 DEF ReadLine, ReadSlice, LineFound, LineTooLong, LineEnded, input
  <2>4. r' \in r .. w
    <3>1. ASSUME NEW i, FirstDelim(i), r' = i + 1 PROVE r' \in r .. w
      BY <2>1, <3>1 DEF FirstDelim
    <3>2. ASSUME LineTooLong PROVE r' \in r .. w
      BY <2>1, <3>2, SizeAssumption DEF LineTooLong
    <3>3. ASSUME r' = w PROVE r' \in r .. w
      BY <2>1, <3>3
    <3>4. CASE ReadLine
      BY <3>1, <3>2, <3>3, <3>4 DEF ReadLine, LineFound, LineEnded
    <3>5. CASE ReadSlice
      BY <3>1, <3>3, <3>5 DEF ReadSlice
    <3> QED
      BY <1>9, <3>4, <3>5
  <2> QED
    BY <1>8, <2>2, <2>3, <2>4
<1>10. CASE ReadLineStep
  <2>1. ReadLine /\ op.name = "line" /\ op.delim = NL
    BY <1>10, <1>i DEF ReadLineStep, ReadLine, OpsInv
  <2>2. PieceInv'
    BY <1>i, <2>1, LineResultIs
  <2>3. ret'.name = "line"
    BY <1>9, <2>1
  <2> QED
    BY <1>7, <1>9, <2>1, <2>2, <2>3 DEF BodyInv
<1>11. CASE ReadSliceStep
  <2>1. ReadSlice /\ op.name = "slice" /\ op.delim = NUL
    BY <1>11, <1>i DEF ReadSliceStep, ReadSlice, OpsInv
  <2>2. BodyInv'
    BY <1>i, <2>1, SliceResult
  <2>3. ret'.name = "slice"
    BY <1>9, <2>1
  <2> QED
    BY <1>7, <1>9, <2>1, <2>2, <2>3 DEF PieceInv
<1> QED
  BY <1>4, <1>5, <1>6, <1>10, <1>11

\* First and Last of a set of positions.
LEMMA FirstFacts ==
    ASSUME NEW T, T \subseteq Nat, T # {}
    PROVE  First(T) \in T /\ \A y \in T : First(T) <= y
<1> DEFINE R == OpToRel(<, Nat)
<1>1. IsWellFoundedOn(R, Nat)
  BY NatLessThanWellFounded
<1>2. \A x, y \in Nat : x < y => <<x, y>> \in R
  BY DEF OpToRel
<1> HIDE DEF R
<1>3. PICK x \in T : \A y \in T : ~(<<y, x>> \in R)
  BY <1>1, WFMin
<1>4. ASSUME NEW y \in T PROVE x <= y
  <2>1. x \in Nat /\ y \in Nat /\ ~(y < x)
    BY <1>2, <1>3
  <2> QED
    BY <2>1
<1> QED
  BY <1>4 DEF First

LEMMA FirstIs ==
    ASSUME NEW T, T \subseteq Nat, NEW x \in T, \A y \in T : x <= y
    PROVE  First(T) = x
<1>1. First(T) \in T /\ First(T) <= x
  BY FirstFacts
<1>2. x <= First(T) /\ x \in Nat /\ First(T) \in Nat
  BY <1>1
<1> QED
  BY <1>1, <1>2

LEMMA LastFacts ==
    ASSUME NEW m \in Nat, NEW T, T \subseteq 1 .. m, T # {}
    PROVE  Last(T) \in T /\ \A y \in T : y <= Last(T)
<1> DEFINE U == {m - x : x \in T}
<1>0. \A x \in T : x \in Int /\ 1 <= x /\ x <= m
  <2>1. \A x \in T : x \in 1 .. m
    OBVIOUS
  <2> QED
    BY <2>1
<1>1. U \subseteq Nat /\ U # {}
  <2>1. \A x \in T : m - x \in Nat
    BY <1>0
  <2> QED
    BY <2>1
<1> DEFINE u == First(U)
<1>2. u \in U /\ \A y \in U : u <= y
  BY <1>1, FirstFacts
<1> HIDE DEF u
<1>3. PICK x \in T : u = m - x
  BY <1>2
<1>4. \A y \in T : y <= x
  <2>1. \A y \in T : m - x <= m - y
    BY <1>2, <1>3
  <2> QED
    BY <1>0, <2>1
<1> QED
  BY <1>4 DEF Last

\* Parts of a sequence of offsets.
LEMMA PartType ==
    ASSUME NEW S, NEW s \in Seq(S), NEW m \in Nat, NEW n \in Nat, m >= 1, n <= Len(s)
    PROVE  SubSeq(s, m, n) \in Seq(S)
<1>1. \A i \in m .. n : s[i] \in S
  <2>1. \A i \in m .. n : i \in 1 .. Len(s)
    OBVIOUS
  <2> QED
    BY <2>1, ElementOfSeq
<1> QED
  BY <1>1, SubSeqProperties

LEMMA TrimType ==
    ASSUME NEW S, NEW s \in Seq(S)
    PROVE  Trim(s) \in Seq(S) /\ SkipBlanks(s) \in Seq(S)
<1> DEFINE text == {i \in 1 .. Len(s) : stream[s[i]] \notin Blank}
<1>1. Trim(s) = IF text = {} THEN <<>> ELSE SubSeq(s, First(text), Last(text))
  BY DEF Trim
<1>2. SkipBlanks(s) = IF text = {} THEN <<>> ELSE SubSeq(s, First(text), Len(s))
  BY DEF SkipBlanks
<1>3. text \subseteq 1 .. Len(s) /\ text \subseteq Nat /\ Len(s) \in Nat /\ <<>> \in Seq(S)
  OBVIOUS
<1> HIDE DEF text
<1>4. ASSUME text # {} PROVE First(text) \in text /\ Last(text) \in text
  BY <1>3, <1>4, FirstFacts, LastFacts
<1>5. ASSUME text # {}
      PROVE  /\ First(text) \in Nat /\ First(text) >= 1
             /\ Last(text) \in Nat /\ Last(text) <= Len(s)
  <2>1. First(text) \in 1 .. Len(s) /\ Last(text) \in 1 .. Len(s)
    BY <1>3, <1>4, <1>5
  <2>2. \A k \in 1 .. Len(s) : k \in Nat /\ k >= 1 /\ k <= Len(s)
    BY <1>3
  <2> QED
    BY <2>1, <2>2
<1> QED
  BY <1>1, <1>2, <1>3, <1>5, PartType

\* At: the positions of a byte.
LEMMA AtFacts ==
    ASSUME NEW S, NEW s \in Seq(S), NEW b, NEW p \in Nat, p >= 1
    PROVE  /\ At(s, b, p) \subseteq 1 .. Len(s) /\ At(s, b, p) \subseteq Nat
           /\ At(s, b, p) # {} => First(At(s, b, p)) \in At(s, b, p)
                                  /\ \A y \in At(s, b, p) : First(At(s, b, p)) <= y
<1>1. At(s, b, p) \subseteq 1 .. Len(s) /\ At(s, b, p) \subseteq Nat
  BY DEF At
<1> QED
  BY <1>1, FirstFacts

\* EndOf: the next line feed.
LEMMA EndIs ==
    ASSUME NEW i \in Nat, i >= 1, NEW e \in i .. MaxPos, stream[e] = NL, Without(NL, i, e - 1)
    PROVE  EndOf(i) = e
<1> DEFINE nl == {j \in LineFeeds : j >= i}
<1>1. nl \subseteq Nat /\ e \in nl
  BY PosAssumption DEF LineFeeds
<1>2. ASSUME NEW y \in nl PROVE e <= y
  <2>1. y \in 1 .. MaxPos /\ stream[y] = NL /\ y >= i
    BY DEF LineFeeds
  <2>2. y \notin i .. e - 1
    BY <2>1 DEF Without
  <2> QED
    BY <2>1, <2>2, PosAssumption
<1>3. EndOf(i) = IF nl = {} THEN MaxPos + 1 ELSE First(nl)
  BY DEF EndOf
<1> HIDE DEF nl
<1>4. First(nl) = e
  BY <1>1, <1>2, FirstIs
<1> QED
  BY <1>1, <1>3, <1>4

LEMMA EndNone ==
    ASSUME NEW i \in Nat, i >= 1, Without(NL, i, MaxPos)
    PROVE  EndOf(i) = MaxPos + 1
<1>1. {j \in LineFeeds : j >= i} = {}
  BY PosAssumption DEF LineFeeds, Without
<1> QED
  BY <1>1 DEF EndOf

LEMMA EndFacts ==
    ASSUME NEW i \in 1 .. MaxPos + 1
    PROVE  /\ EndOf(i) \in i .. MaxPos + 1
           /\ EndOf(i) <= MaxPos => stream[EndOf(i)] = NL
<1> DEFINE nl == {j \in LineFeeds : j >= i}
<1>1. nl \subseteq Nat /\ i \in Nat /\ i <= MaxPos + 1 /\ MaxPos \in Nat
  BY PosAssumption DEF LineFeeds
<1>2. \A y \in nl : y \in 1 .. MaxPos /\ y >= i /\ stream[y] = NL
  BY DEF LineFeeds
<1>3. EndOf(i) = IF nl = {} THEN MaxPos + 1 ELSE First(nl)
  BY DEF EndOf
<1> HIDE DEF nl
<1>4. CASE nl = {}
  <2>1. EndOf(i) = MaxPos + 1
    BY <1>3, <1>4
  <2> QED
    BY <1>1, <2>1
<1>5. CASE nl # {}
  <2>1. First(nl) \in nl
    BY <1>1, <1>5, FirstFacts
  <2>2. EndOf(i) \in 1 .. MaxPos /\ EndOf(i) >= i /\ stream[EndOf(i)] = NL
    BY <1>2, <1>3, <1>5, <2>1
  <2> QED
    BY <1>1, <2>2
<1> QED
  BY <1>4, <1>5

\* The line after the k-th.
LEMMA NextStart ==
    ASSUME NEW k \in Nat, NEW i \in LineStarts(k), NEW e \in i .. MaxPos - 1,
           stream[e] = NL, Without(NL, i, e - 1)
    PROVE  e + 1 \in LineStarts(k + 1)
<1> DEFINE T == {j \in 1 .. i : IsStart(j)}
           U == {j \in 1 .. e + 1 : IsStart(j)}
<1>0. /\ i \in 1 .. MaxPos /\ Cardinality(T) = k
      /\ MaxPos \in Nat /\ i \in Nat /\ e \in Nat /\ e + 1 \in 1 .. MaxPos /\ i <= e
  BY PosAssumption DEF LineStarts
<1>1. IsStart(e + 1)
  BY <1>0 DEF IsStart, LineFeeds
<1>2. U = T \cup {e + 1}
  <2>1. ASSUME NEW j \in i + 1 .. e PROVE ~IsStart(j)
    <3>1. j - 1 \in i .. e - 1 /\ j # 1
      BY <1>0
    <3> QED
      BY <3>1 DEF IsStart, LineFeeds, Without
  <2>2. \A j \in 1 .. e + 1 : j \in 1 .. i \/ j \in i + 1 .. e \/ j = e + 1
    BY <1>0
  <2>3. \A j \in 1 .. i : j \in 1 .. e + 1
    BY <1>0
  <2>4. e + 1 \in 1 .. e + 1
    BY <1>0
  <2> QED
    BY <1>1, <2>1, <2>2, <2>3, <2>4
<1>3. e + 1 \notin T
  BY <1>0
<1>4. IsFiniteSet(T)
  <2>1. IsFiniteSet(1 .. i) /\ T \in SUBSET (1 .. i)
    BY <1>0, FS_Interval
  <2> QED
    BY <2>1, FS_Subset
<1> HIDE DEF T, U
<1>5. Cardinality(U) = k + 1
  BY <1>0, <1>2, <1>3, <1>4, FS_AddElement
<1> QED
  BY <1>0, <1>1, <1>5 DEF LineStarts, U

LEMMA FirstStart ==
    ASSUME MaxPos >= 1
    PROVE  1 \in LineStarts(1)
<1>1. {j \in 1 .. 1 : IsStart(j)} = {1}
  BY DEF IsStart
<1>2. Cardinality({j \in 1 .. 1 : IsStart(j)}) = 1
  BY <1>1, FS_Singleton
<1> QED
  BY <1>2, PosAssumption DEF LineStarts, IsStart

\* The pieces of a line, put together.
LEMMA Joined ==
    ASSUME ReqInv, Reading, ret.name = "line"
    PROVE  /\ line \o ret.data \in Seq(1 .. MaxPos)
           /\ Len(line \o ret.data) = Len(line) + Len(ret.data)
           /\ \A k \in 1 .. Len(line) + Len(ret.data) : (line \o ret.data)[k] = LineBegin + k - 1
<1> DEFINE b == LineBegin
           m == Len(line)
           n == Len(ret.data)
           at == ret.at
<1>1. line \in Seq(1 .. MaxPos) /\ ret.data \in Seq(1 .. MaxPos)
  BY DEF ReqInv, ReqTypeOK, PieceInv
<1>2. m \in Nat /\ n \in Nat
  BY <1>1
<1>3. /\ \A k \in 1 .. m : line[k] = b + k - 1
      /\ \A i \in 1 .. n : ret.data[i] = at + i
  BY DEF ReqInv, LinesInv, PieceInv
<1>4. b = at - m + 1 /\ at \in 0 .. MaxPos
  BY DEF ReqInv, PieceInv, Before, LineBegin
<1>5. /\ line \o ret.data \in Seq(1 .. MaxPos) /\ Len(line \o ret.data) = m + n
      /\ \A k \in 1 .. m + n : (line \o ret.data)[k] = IF k <= m THEN line[k] ELSE ret.data[k - m]
  BY <1>1, ConcatProperties
<1> HIDE DEF b, m, n, at
<1>6. ASSUME NEW k \in 1 .. m + n PROVE (line \o ret.data)[k] = b + k - 1
  <2>1. CASE k <= m
    <3>1. k \in 1 .. m /\ (line \o ret.data)[k] = line[k]
      BY <1>2, <1>5, <2>1
    <3> QED
      BY <1>3, <3>1
  <2>2. CASE k > m
    <3>1. k - m \in 1 .. n /\ (line \o ret.data)[k] = ret.data[k - m]
      BY <1>2, <1>5, <2>2
    <3>2. ret.data[k - m] = at + (k - m)
      BY <1>3, <3>1
    <3>3. at + (k - m) = b + k - 1
      BY <1>2, <1>4, PosAssumption
    <3> QED
      BY <3>1, <3>2, <3>3
  <2>3. k <= m \/ k > m
    BY <1>2
  <2> QED
    BY <2>1, <2>2, <2>3
<1> QED
  BY <1>5, <1>6 DEF b, m, n

\* The line that readLine returns is the line of the message that begins where
\* its first piece does.
LEMMA LineDone ==
    ASSUME ReqInv, Reading, ret.name = "line", ret.err = "nil", ~ret.prefix
    PROVE  /\ LineBegin \in 1 .. MaxPos /\ taken \in LineBegin .. MaxPos
           /\ Text(LineBegin) = LineResult
           /\ LineResult \in Seq(1 .. MaxPos)
           /\ Without(NL, LineBegin, taken - 1)
           /\ \/ EndOf(LineBegin) = taken /\ stream[taken] = NL
              \/ EndOf(LineBegin) = MaxPos + 1 /\ taken = MaxPos
<1> DEFINE b == LineBegin
           m == Len(line)
           n == Len(ret.data)
<1>1. /\ Before = ret.at /\ b = ret.at - m + 1
      /\ line \in Seq(1 .. MaxPos) /\ ret.data \in Seq(1 .. MaxPos)
      /\ MaxPos \in Nat /\ NL # CR
  BY PosAssumption, BytesAssumption DEF ReqInv, ReqTypeOK, PieceInv, Before, LineBegin
<1>2. /\ b \in 1 .. MaxPos + 1 /\ \A k \in 1 .. m : line[k] = b + k - 1
      /\ joined \/ line = <<>>
      /\ Without(NL, b, ret.at)
      /\ line # <<>> => ~CrLf(ret.at)
  BY <1>1 DEF ReqInv, LinesInv
<1>3. m \in Nat /\ n \in Nat /\ (m > 0 => line # <<>>)
  BY <1>1
<1>4. /\ \A i \in 1 .. n : ret.data[i] = ret.at + i
      /\ ret.at \in 0 .. MaxPos /\ ret.at + n <= MaxPos
      /\ Without(NL, ret.at + 1, ret.at + n)
      /\ \/ /\ taken \in 1 .. MaxPos /\ stream[taken] = NL
            /\ \/ taken = ret.at + n + 1 /\ (n > 0 => stream[ret.at + n] # CR)
               \/ taken = ret.at + n + 2 /\ stream[ret.at + n + 1] = CR
         \/ taken = MaxPos /\ taken = ret.at + n /\ n > 0
  BY DEF ReqInv, PieceInv
<1> HIDE DEF b, m, n
<1>5. Without(NL, b, ret.at + n)
  BY <1>1, <1>2, <1>3, <1>4 DEF Without
<1>6. b \in Nat /\ b >= 1 /\ b \in 1 .. MaxPos /\ taken \in b .. MaxPos
  <2>1. /\ taken \in {ret.at + n + 1, ret.at + n + 2} \/ (taken = ret.at + n /\ n > 0)
        /\ taken = MaxPos \/ taken \in 1 .. MaxPos
    BY <1>4
  <2>2. b = ret.at - m + 1 /\ m \in Nat /\ n \in Nat /\ MaxPos \in Nat
    BY <1>1, <1>3
  <2>3. ret.at \in 0 .. MaxPos /\ b \in 1 .. MaxPos + 1
    BY <1>2, <1>4
  <2> DEFINE at == ret.at
  <2>4. at \in Int /\ at >= 0 /\ b \in Int /\ b >= 1 /\ taken \in Int /\ taken <= MaxPos
    BY <2>1, <2>2, <2>3
  <2>5. b = at - m + 1 /\ (taken \in {at + n + 1, at + n + 2} \/ (taken = at + n /\ n > 0))
    BY <2>1, <2>2
  <2> HIDE DEF at
  <2> QED
    BY <2>2, <2>4, <2>5
<1>7. Without(NL, b, taken - 1)
  <2>1. ASSUME NEW i \in b .. taken - 1 PROVE stream[i] # NL
    <3>1. i \in b .. ret.at + n \/ (i = ret.at + n + 1 /\ taken = ret.at + n + 2)
      <4>1. ret.at \in Int /\ n \in Int /\ b \in Int /\ taken \in Int
        BY <1>3, <1>4, <1>6
      <4>2. taken \in {ret.at + n, ret.at + n + 1, ret.at + n + 2}
        BY <1>4
      <4> QED
        BY <4>1, <4>2
    <3>2. CASE i \in b .. ret.at + n
      BY <1>5, <3>2 DEF Without
    <3>3. CASE i = ret.at + n + 1 /\ taken = ret.at + n + 2
      <4>1. taken # ret.at + n /\ taken # ret.at + n + 1
        BY <1>3, <1>4, <3>3
      <4> QED
        BY <1>1, <1>4, <3>3, <4>1
    <3> QED
      BY <3>1, <3>2, <3>3
  <2> QED
    BY <2>1 DEF Without
<1>8. \/ EndOf(b) = taken /\ stream[taken] = NL
      \/ EndOf(b) = MaxPos + 1 /\ taken = MaxPos
  <2>1. CASE stream[taken] = NL
    BY <1>6, <1>7, <2>1, EndIs
  <2>2. CASE taken = MaxPos /\ taken = ret.at + n /\ n > 0
    BY <1>5, <1>6, <2>2, EndNone
  <2> QED
    BY <1>4, <2>1, <2>2
<1>9. /\ LineResult \in Seq(1 .. MaxPos) /\ Len(LineResult) = m + n
      /\ \A k \in 1 .. m + n : LineResult[k] = b + k - 1
  <2>1. CASE joined
    <3>1. LineResult = line \o ret.data
      BY <2>1 DEF LineResult
    <3> QED
      BY <1>1, <3>1, Joined DEF m, n, b
  <2>2. CASE ~joined
    <3>1. m = 0 /\ LineResult = ret.data
      BY <1>2, <2>2 DEF LineResult, m
    <3>2. b = ret.at + 1
      BY <1>1, <1>4, <3>1
    <3> QED
      BY <1>1, <1>3, <1>4, <3>1, <3>2 DEF n
  <2> QED
    BY <2>1, <2>2
<1>10. Text(b) = LineResult
  <2> DEFINE e == EndOf(b)
             p == IF e <= MaxPos /\ e > b /\ stream[e - 1] = CR THEN e - b - 1 ELSE e - b
  <2>1. Text(b) = [k \in 1 .. p |-> b + k - 1]
    BY DEF Text
  <2>0. /\ ret.at \in Int /\ taken \in Int /\ m \in Nat /\ n \in Nat /\ b = ret.at - m + 1
        /\ MaxPos \in Nat /\ b <= taken /\ taken <= MaxPos /\ b \in Int
    BY <1>1, <1>3, <1>4, <1>6
  <2>2. p = m + n
    <3>1. CASE e = taken /\ taken = ret.at + n + 2 /\ stream[ret.at + n + 1] = CR
      <4>1. e - 1 = ret.at + n + 1 /\ e > b /\ e <= MaxPos
        BY <2>0, <3>1
      <4>2. p = e - b - 1
        BY <3>1, <4>1
      <4> QED
        BY <2>0, <3>1, <4>2
    <3>2. CASE e = taken /\ stream[taken] = NL /\ taken = ret.at + n + 1 /\ (n > 0 => stream[ret.at + n] # CR)
      <4>1. e - 1 = ret.at + n /\ e - b = m + n /\ taken <= MaxPos
        BY <2>0, <3>2
      <4>2. ASSUME n = 0, m > 0 PROVE stream[ret.at] # CR
        <5>1. taken = ret.at + 1 /\ ret.at < MaxPos
          BY <1>4, <3>2, <4>1, <4>2, <1>1
        <5> QED
          BY <1>2, <1>3, <3>2, <4>2, <5>1 DEF CrLf
      <4>3. e > b => stream[e - 1] # CR
        <5>1. e > b => n > 0 \/ (n = 0 /\ m > 0)
          BY <1>1, <1>3, <1>4, <1>6, <3>2, <4>1
        <5>2. n = 0 => ret.at + n = ret.at
          BY <1>4
        <5> QED
          BY <3>2, <4>1, <4>2, <5>1, <5>2
      <4> QED
        BY <4>1, <4>3
    <3>3. CASE e = MaxPos + 1 /\ taken = ret.at + n
      <4>1. taken = MaxPos
        BY <1>8, <2>0, <3>3
      <4>2. p = e - b
        BY <2>0, <3>3
      <4> QED
        BY <2>0, <3>3, <4>1, <4>2
    <3>4. ASSUME e = taken, taken = ret.at + n PROVE FALSE
      BY <1>1, <1>3, <1>4, <1>5, <1>6, <1>8, <3>4 DEF Without
    <3>5. ASSUME e = MaxPos + 1, taken # ret.at + n PROVE FALSE
      <4>1. stream[taken] = NL
        BY <1>4, <3>5
      <4>2. EndOf(b) = taken
        BY <1>6, <1>7, <4>1, EndIs
      <4> QED
        BY <1>1, <1>6, <3>5, <4>2
    <3> QED
      BY <1>4, <1>8, <3>1, <3>2, <3>3, <3>4, <3>5
  <2> HIDE DEF p
  <2>3. /\ Text(b) \in Seq(Int) /\ Len(Text(b)) = m + n
        /\ \A k \in 1 .. m + n : Text(b)[k] = b + k - 1
    BY <1>3, <1>6, <2>1, <2>2
  <2>4. LineResult \in Seq(Int)
    <3>1. \A k \in 1 .. Len(LineResult) : LineResult[k] \in Int
      BY <1>3, <1>6, <1>9
    <3> QED
      BY <1>9, <3>1
  <2>5. Len(LineResult) = m + n /\ \A k \in 1 .. m + n : LineResult[k] = Text(b)[k]
    BY <1>9, <2>3
  <2> HIDE DEF e
  <2> QED
    BY <2>3, <2>4, <2>5, SeqEqual
<1> QED
  BY <1>6, <1>7, <1>8, <1>9, <1>10 DEF b

\* A result is looked at.
LEMMA Consumed ==
    ASSUME ReqInv, Consume, ret.name # "none"
    PROVE  /\ RdInv' /\ InOrder' /\ OpsInv' /\ EndInv' /\ PieceInv' /\ BodyInv'
           /\ Before' = taken /\ stream' = stream /\ taken' = taken
<1>1. /\ UNCHANGED <<stream, pos, buf, r, w, err, op, taken>>
      /\ ret'.name = "none" /\ op.name = "none"
  BY DEF Consume, input, state, NoResult, ReqInv, OpsInv
<1>2. RdInv' /\ InOrder'
  BY ConsumeKeeps DEF ReqInv
<1>3. OpsInv' /\ EndInv' /\ PieceInv' /\ BodyInv' /\ Before' = taken
  BY <1>1 DEF ReqInv, OpsInv, EndInv, PieceInv, BodyInv, Before, Buffered
<1> QED
  BY <1>1, <1>2, <1>3

\* A piece of a line.
LEMMA StepPrefix ==
    ASSUME ReqInv, LinePrefix
    PROVE  ReqInv'
<1>0. /\ Reading /\ ret.name = "line" /\ ret.prefix /\ line' = line \o ret.data /\ joined'
      /\ UNCHANGED <<phase, uri, header, body>>
  BY DEF LinePrefix, Reading
<1>1. /\ RdInv' /\ InOrder' /\ OpsInv' /\ EndInv' /\ PieceInv' /\ BodyInv'
      /\ Before' = taken /\ stream' = stream
  BY Consumed DEF LinePrefix
<1> DEFINE b == LineBegin
           m == Len(line)
           n == Len(ret.data)
           at == ret.at
<1>2. /\ line' \in Seq(1 .. MaxPos) /\ Len(line') = m + n
      /\ \A k \in 1 .. m + n : line'[k] = b + k - 1
  BY <1>0, Joined
<1>3. /\ taken = at + n /\ n > 0 /\ ~CrLf(taken) /\ Without(NL, at + 1, at + n)
      /\ at \in 0 .. MaxPos
  BY <1>0 DEF ReqInv, PieceInv
<1>4. m \in Nat /\ n \in Nat
  BY <1>0 DEF ReqInv, ReqTypeOK, PieceInv
<1>5. Before = at /\ b = at - m + 1
  BY <1>0 DEF Before, LineBegin
<1>6. b \in 1 .. MaxPos + 1 /\ Without(NL, b, at)
  BY <1>0, <1>5 DEF ReqInv, LinesInv
<1>7. LineBegin' = taken - (m + n) + 1
  BY <1>1, <1>2 DEF LineBegin
<1> HIDE DEF b, m, n, at
<1>8. LineBegin' = b
  BY <1>3, <1>4, <1>5, <1>7, PosAssumption
<1>9. Without(NL, b, taken)
  <2>1. \A i \in b .. taken : i \in b .. at \/ i \in at + 1 .. at + n
    BY <1>3, <1>4, <1>6, PosAssumption
  <2> QED
    BY <1>3, <1>6, <2>1 DEF Without
<1>10. LinesInv'
  <2>1. /\ phase = "first" => b = 1 /\ header = <<>>
        /\ phase = "header" =>
              /\ b >= 2
              /\ b <= MaxPos => b \in LineStarts(Len(header) + 2)
        /\ \A j \in 2 .. b - 1 : IsStart(j) => Trim(Text(j)) # <<>>
    BY <1>0 DEF ReqInv, LinesInv, b
  <2>2. Without(NL, LineBegin, Before)' /\ ~CrLf(Before)'
    BY <1>1, <1>3, <1>8, <1>9 DEF Without, CrLf
  <2>3. \A k \in 1 .. Len(line') : line'[k] = LineBegin' + k - 1
    BY <1>2, <1>8
  <2> QED
    BY <1>0, <1>1, <1>6, <1>8, <2>1, <2>2, <2>3, SameMessage DEF LinesInv, Reading
<1>11. StartInv' /\ SameLines' /\ BodyLimits'
  BY <1>0, <1>1, SameMessage DEF ReqInv, StartInv, SameLines, BodyLimits, Reading
<1>12. ReqTypeOK'
  BY <1>0, <1>1, <1>2 DEF ReqInv, RdInv, ReqTypeOK
<1> QED
  BY <1>1, <1>10, <1>11, <1>12 DEF ReqInv

\* The types of the parser's variables after a step.
LEMMA NextTypes ==
    ASSUME RdInv', (phase \in {"first", "header", "body"} \cup Outcomes)',
           line' \in {<<>>, line}, joined' \in {FALSE, joined}, ReqTypeOK,
           uri' \in Seq(1 .. MaxPos), header' \in Seq(Seq(1 .. MaxPos) \X Seq(1 .. MaxPos)),
           body' \in Seq(1 .. MaxPos)
    PROVE  ReqTypeOK'
<1>1. RdTypeOK'
  BY DEF RdInv
<1>2. line' \in Seq(1 .. MaxPos)
  <2>1. line \in Seq(1 .. MaxPos) /\ <<>> \in Seq(1 .. MaxPos)
    BY DEF ReqTypeOK
  <2> QED
    BY <2>1
<1>3. joined' \in BOOLEAN
  BY DEF ReqTypeOK
<1> QED
  BY <1>1, <1>2, <1>3, Zenon DEF ReqTypeOK

\* Starts of lines up to the line that was read.
LEMMA NoStartWithin ==
    ASSUME NEW b \in Nat, b >= 1, NEW t \in Nat, Without(NL, b, t - 1), NEW j \in 2 .. t, IsStart(j)
    PROVE  j <= b
<1>1. SUFFICES ASSUME j > b PROVE FALSE
  OBVIOUS
<1>2. j - 1 \in b .. t - 1 /\ j # 1
  BY <1>1
<1> QED
  BY <1>2 DEF IsStart, LineFeeds, Without

\* A line that is no blank header line was read: the next one follows.
LEMMA NextLine ==
    ASSUME ReqInv, Reading, HaveLine, phase' = "header",
           NEW k \in Nat, k >= 1, LineBegin \in LineStarts(k), Len(header') = k - 1,
           LineBegin # 1 => Trim(LineResult) # <<>>
    PROVE  LinesInv'
<1> DEFINE b == LineBegin
<1>0. ret.name = "line" /\ ret.err = "nil" /\ ~ret.prefix /\ line' = <<>> /\ Consume
  BY DEF HaveLine
<1>1. Before' = taken /\ stream' = stream
  BY <1>0, Consumed
<1>2. /\ b \in 1 .. MaxPos /\ taken \in b .. MaxPos /\ Text(b) = LineResult
      /\ Without(NL, b, taken - 1)
      /\ \/ stream[taken] = NL
         \/ taken = MaxPos
  BY <1>0, LineDone
<1>3. MaxPos \in Nat /\ b \in Nat /\ b >= 1 /\ taken \in Nat /\ taken >= 1
  BY <1>2, PosAssumption
<1>4. LineBegin' = taken + 1
  BY <1>0, <1>1, <1>3 DEF LineBegin
<1>5. ASSUME taken + 1 <= MaxPos PROVE taken + 1 \in LineStarts(k + 1)
  <2>1. b \in LineStarts(k) /\ taken \in b .. MaxPos - 1 /\ stream[taken] = NL
    BY <1>2, <1>3, <1>5
  <2> QED
    BY <1>2, <2>1, NextStart
<1>6. ASSUME NEW j \in 2 .. taken, IsStart(j) PROVE Trim(Text(j)) # <<>>
  <2>1. j <= b
    BY <1>2, <1>3, <1>6, NoStartWithin
  <2>2. CASE j = b
    BY <1>2, <2>2
  <2>3. CASE j \in 2 .. b - 1
    BY <1>6, <2>3 DEF ReqInv, LinesInv
  <2> QED
    BY <1>3, <2>1, <2>2, <2>3
<1> HIDE DEF b
<1>7. Len(header') + 2 = k + 1
  OBVIOUS
<1>8. /\ LineBegin' \in 1 .. MaxPos + 1 /\ LineBegin' >= 2 /\ LineBegin' - 1 = taken
      /\ LineBegin' > taken
  BY <1>2, <1>3, <1>4
<1>9. LineBegin' <= MaxPos => LineBegin' \in LineStarts(Len(header) + 2)'
  BY <1>1, <1>4, <1>5, <1>7, SameMessage
<1>10. \A j \in 2 .. LineBegin' - 1 : IsStart(j)' => Trim(Text(j))' # <<>>
  BY <1>1, <1>6, <1>8, SameMessage
<1>11. Without(NL, LineBegin, Before)'
  BY <1>1, <1>3, <1>8 DEF Without
<1>12. \A i \in 1 .. Len(line') : line'[i] = LineBegin' + i - 1
  BY <1>0
<1> QED
  BY <1>0, <1>8, <1>9, <1>10, <1>11, <1>12, Zenon DEF LinesInv

\* The end of the input where a line should begin.
LEMMA StepLineError ==
    ASSUME ReqInv, LineError
    PROVE  ReqInv'
<1>0. /\ Reading /\ ret.name = "line" /\ ret.err # "nil" /\ Consume
      /\ line' = <<>> /\ joined' = FALSE /\ phase' = (IF phase = "first" THEN "eof" ELSE "ok")
      /\ UNCHANGED <<uri, header, body>>
  BY DEF LineError, Reading
<1>1. /\ RdInv' /\ InOrder' /\ OpsInv' /\ EndInv' /\ PieceInv' /\ BodyInv'
      /\ Before' = taken /\ stream' = stream
  BY <1>0, Consumed
<1>2. ReqTypeOK'
  <2>1. /\ uri' \in Seq(1 .. MaxPos) /\ header' \in Seq(Seq(1 .. MaxPos) \X Seq(1 .. MaxPos))
        /\ body' \in Seq(1 .. MaxPos) /\ ReqTypeOK
    BY <1>0 DEF ReqInv, ReqTypeOK
  <2>2. (phase \in {"first", "header", "body"} \cup Outcomes)'
    BY <1>0 DEF Outcomes
  <2> QED
    BY <1>0, <1>1, <2>1, <2>2, NextTypes
<1>3. LinesInv' /\ StartInv'
  BY <1>0 DEF LinesInv, StartInv, Reading
<1>4. body = <<>>
  BY <1>0 DEF ReqInv, StartInv, Reading
<1>5. SameLines'
  BY <1>0, <1>1, <1>4, SameMessage DEF ReqInv, SameLines
<1>6. CASE phase = "first"
  <2>1. BodyLimits'
    BY <1>0, <1>6 DEF BodyLimits
  <2> QED
    BY <1>1, <1>2, <1>3, <1>5, <2>1 DEF ReqInv
<1>7. CASE phase = "header"
  <2>1. Before = MaxPos
    BY <1>0 DEF ReqInv, PieceInv, Before
  <2>2. /\ LineBegin \in 1 .. MaxPos + 1 /\ Without(NL, LineBegin, MaxPos)
        /\ \A j \in 2 .. LineBegin - 1 : IsStart(j) => Trim(Text(j)) # <<>>
    BY <1>0, <2>1 DEF ReqInv, LinesInv
  <2>3. ASSUME NEW b \in BodyStarts PROVE b = MaxPos + 2 /\ b \in Nat
    <3>1. PICK j \in 2 .. MaxPos : IsStart(j) /\ Trim(Text(j)) = <<>> /\ b = EndOf(j) + 1
      BY DEF BodyStarts
    <3>2. j \in Nat /\ j >= 1 /\ j >= LineBegin
      BY <2>2, <3>1, PosAssumption
    <3>3. Without(NL, j, MaxPos)
      BY <2>2, <3>2, PosAssumption DEF Without
    <3>4. EndOf(j) = MaxPos + 1
      BY <3>2, <3>3, EndNone
    <3> QED
      BY <3>1, <3>4, PosAssumption
  <2>4. BodyStarts # {} => First(BodyStarts) > MaxPos
    <3>1. BodyStarts \subseteq Nat
      BY <2>3
    <3>2. BodyStarts # {} => First(BodyStarts) \in BodyStarts
      BY <3>1, FirstFacts
    <3> QED
      BY <2>3, <3>2, PosAssumption
  <2>5. ~(BodyStarts' # {} /\ First(BodyStarts') <= MaxPos)
    <3>1. BodyStarts' = BodyStarts
      BY <1>1, SameMessage
    <3>2. BodyStarts # {} => First(BodyStarts) \in Nat
      BY <2>3, FirstFacts
    <3> QED
      BY <2>4, <3>1, <3>2, PosAssumption
  <2>6. BodyLimits'
    BY <2>5 DEF BodyLimits
  <2> QED
    BY <1>1, <1>2, <1>3, <1>5, <2>6 DEF ReqInv
<1> QED
  BY <1>0, <1>6, <1>7 DEF Reading

\* The request line.
LEMMA StepRequestLine ==
    ASSUME ReqInv, RequestLine
    PROVE  ReqInv'
<1> DEFINE l == LineResult
           spaces == At(l, SP, 1)
           s1 == First(spaces)
           later == At(l, SP, s1 + 1)
<1>0. /\ phase = "first" /\ Reading /\ HaveLine /\ ret.name = "line" /\ ret.err = "nil"
      /\ ~ret.prefix /\ Consume /\ line' = <<>> /\ joined' = FALSE
      /\ UNCHANGED <<header, body>>
  BY DEF RequestLine, HaveLine, Reading
<1>1. /\ RdInv' /\ InOrder' /\ OpsInv' /\ EndInv' /\ PieceInv' /\ BodyInv'
      /\ Before' = taken /\ stream' = stream
  BY <1>0, Consumed
<1>2. /\ LineBegin \in 1 .. MaxPos /\ Text(LineBegin) = l /\ l \in Seq(1 .. MaxPos)
  BY <1>0, LineDone
<1>3. LineBegin = 1 /\ header = <<>> /\ body = <<>>
  BY <1>0 DEF ReqInv, LinesInv, StartInv
<1>4. \/ /\ spaces = {} \/ later = {}
         /\ phase' = "malformed" /\ uri' = uri
      \/ /\ spaces # {} /\ later # {}
         /\ phase' = "header" /\ uri' = SubSeq(l, s1 + 1, First(later) - 1)
  BY DEF RequestLine
<1>5. /\ spaces \subseteq 1 .. Len(l) /\ spaces \subseteq Nat
      /\ spaces # {} => s1 \in spaces /\ \A y \in spaces : s1 <= y
  BY <1>2, AtFacts
<1>8. /\ uri \in Seq(1 .. MaxPos) /\ header' \in Seq(Seq(1 .. MaxPos) \X Seq(1 .. MaxPos))
      /\ body' \in Seq(1 .. MaxPos) /\ ReqTypeOK
  BY <1>0 DEF ReqInv, ReqTypeOK
<1> HIDE DEF l
<1>6. CASE (spaces = {} \/ later = {}) /\ phase' = "malformed" /\ uri' = uri
  <2>1. Cardinality(spaces) < 2
    <3>1. CASE spaces = {}
      BY <3>1, FS_EmptySet
    <3>2. CASE spaces # {} /\ later = {}
      <4>1. ASSUME NEW y \in spaces PROVE y = s1
        <5>1. y \in 1 .. Len(l) /\ stream[l[y]] = SP /\ s1 <= y /\ s1 \in Nat /\ y \in Nat
          BY <1>5, <3>2 DEF At
        <5>2. y \notin s1 + 1 .. Len(l)
          BY <3>2, <5>1 DEF At
        <5> QED
          BY <1>2, <5>1, <5>2
      <4>2. spaces = {s1}
        BY <1>5, <3>2, <4>1
      <4> HIDE DEF spaces, s1
      <4>3. Cardinality({s1}) = 1
        BY FS_Singleton
      <4> QED
        BY <4>2, <4>3
    <3> QED
      BY <1>6, <3>1, <3>2
  <2>2. BadRequestLine
    BY <1>2, <1>3, <2>1 DEF BadRequestLine
  <2>3. SameLines'
    BY <1>0, <1>1, <1>6, <2>2, SameMessage DEF ReqInv, SameLines
  <2>4. LinesInv' /\ StartInv' /\ BodyLimits'
    BY <1>6 DEF LinesInv, StartInv, BodyLimits, Reading
  <2>5. ReqTypeOK'
    <3>1. (phase \in {"first", "header", "body"} \cup Outcomes)'
      BY <1>6 DEF Outcomes
    <3> QED
      BY <1>0, <1>1, <1>6, <1>8, <3>1, NextTypes
  <2> QED
    BY <1>1, <2>3, <2>4, <2>5 DEF ReqInv
<1>7. CASE /\ spaces # {} /\ later # {}
           /\ phase' = "header" /\ uri' = SubSeq(l, s1 + 1, First(later) - 1)
  <2>1. s1 \in Nat /\ s1 + 1 \in Nat /\ s1 + 1 >= 1
    BY <1>5, <1>7
  <2>2. later \subseteq 1 .. Len(l) /\ First(later) \in later
    BY <1>2, <1>7, <2>1, AtFacts
  <2> HIDE DEF later, s1, spaces
  <2>3. First(later) \in 1 .. Len(l) /\ Len(l) \in Nat
    <3>1. First(later) \in 1 .. Len(l)
      BY <2>2
    <3> QED
      BY <1>2, <3>1
  <2>4. First(later) - 1 \in Nat /\ First(later) - 1 <= Len(l)
    BY <2>3
  <2>5. uri' \in Seq(1 .. MaxPos)
    BY <1>2, <1>7, <2>1, <2>4, PartType
  <2>6. ReqTypeOK'
    <3>1. (phase \in {"first", "header", "body"} \cup Outcomes)'
      BY <1>7
    <3> QED
      BY <1>0, <1>1, <1>8, <2>5, <3>1, NextTypes
  <2>7. LineBegin \in LineStarts(1) /\ Len(header') = 1 - 1
    BY <1>0, <1>2, <1>3, FirstStart, PosAssumption
  <2>8. LinesInv'
    BY <1>0, <1>3, <1>7, <2>7, NextLine
  <2>9. StartInv' /\ BodyLimits'
    BY <1>0, <1>3, <1>7 DEF StartInv, BodyLimits
  <2>10. SameLines'
    BY <1>0, <1>1, <1>7, SameMessage DEF ReqInv, SameLines
  <2> QED
    BY <1>1, <2>6, <2>8, <2>9, <2>10 DEF ReqInv
<1> QED
  BY <1>4, <1>6, <1>7

\* A header line.
LEMMA StepHeaderLine ==
    ASSUME ReqInv, HeaderLine
    PROVE  ReqInv'
<1> DEFINE b == LineBegin
           t == Trim(LineResult)
           colons == At(t, COLON, 1)
           i == First(colons)
           pair == <<SubSeq(t, 1, i - 1), SkipBlanks(SubSeq(t, i + 1, Len(t)))>>
           P == Seq(1 .. MaxPos) \X Seq(1 .. MaxPos)
<1>0. /\ phase = "header" /\ Reading /\ HaveLine /\ ret.name = "line" /\ ret.err = "nil"
      /\ ~ret.prefix /\ Consume /\ line' = <<>> /\ joined' = FALSE /\ t # <<>>
      /\ UNCHANGED <<uri, body>>
  BY DEF HeaderLine, HaveLine, Reading
<1>1. /\ RdInv' /\ InOrder' /\ OpsInv' /\ EndInv' /\ PieceInv' /\ BodyInv'
      /\ Before' = taken /\ stream' = stream
  BY <1>0, Consumed
<1>2. b \in 1 .. MaxPos /\ t = Trim(Text(b)) /\ LineResult \in Seq(1 .. MaxPos)
  BY <1>0, LineDone
<1>3. b \in LineStarts(Len(header) + 2) /\ body = <<>>
  BY <1>0, <1>2, PosAssumption DEF ReqInv, LinesInv, StartInv
<1>4. \/ /\ colons = {} \/ i = 1
         /\ phase' = "malformed" /\ header' = header
      \/ /\ colons # {} /\ i # 1
         /\ phase' = "header" /\ header' = Append(header, pair)
  BY DEF HeaderLine
<1>5. t \in Seq(1 .. MaxPos)
  BY <1>2, TrimType
<1>6. /\ uri' \in Seq(1 .. MaxPos) /\ header \in Seq(P) /\ Len(header) \in Nat
      /\ body' \in Seq(1 .. MaxPos) /\ ReqTypeOK
  BY <1>0 DEF ReqInv, ReqTypeOK
<1>7. \A k \in DOMAIN header : \E s \in LineStarts(k + 1) : header[k] = HeaderOf(s)
  BY DEF ReqInv, SameLines
<1>8. CASE (colons = {} \/ i = 1) /\ phase' = "malformed" /\ header' = header
  <2>1. BadHeader(Trim(Text(b)))
    BY <1>2, <1>8 DEF BadHeader
  <2>2. SameLines'
    BY <1>1, <1>3, <1>7, <1>8, <2>1, SameMessage DEF SameLines
  <2>3. LinesInv' /\ StartInv' /\ BodyLimits'
    BY <1>8 DEF LinesInv, StartInv, BodyLimits, Reading
  <2>4. ReqTypeOK'
    <3>1. (phase \in {"first", "header", "body"} \cup Outcomes)'
      BY <1>8 DEF Outcomes
    <3> QED
      BY <1>0, <1>1, <1>6, <1>8, <3>1, NextTypes
  <2> QED
    BY <1>1, <2>2, <2>3, <2>4 DEF ReqInv
<1>9. CASE colons # {} /\ i # 1 /\ phase' = "header" /\ header' = Append(header, pair)
  <2>1. i \in colons /\ colons \subseteq 1 .. Len(t)
    BY <1>5, <1>9, AtFacts
  <2> HIDE DEF t, colons, i
  <2>2. i \in 1 .. Len(t) /\ Len(t) \in Nat
    <3>1. i \in 1 .. Len(t)
      BY <2>1
    <3> QED
      BY <1>5, <3>1
  <2>3. i - 1 \in Nat /\ i - 1 <= Len(t) /\ i + 1 \in Nat /\ i + 1 >= 1 /\ Len(t) <= Len(t)
    BY <2>2
  <2>4. SubSeq(t, 1, i - 1) \in Seq(1 .. MaxPos) /\ SubSeq(t, i + 1, Len(t)) \in Seq(1 .. MaxPos)
    <3>1. SubSeq(t, 1, i - 1) \in Seq(1 .. MaxPos)
      BY <1>5, <2>2, <2>3, 1 \in Nat /\ 1 >= 1, PartType
    <3>2. SubSeq(t, i + 1, Len(t)) \in Seq(1 .. MaxPos)
      BY <1>5, <2>2, <2>3, PartType
    <3> QED
      BY <3>1, <3>2
  <2>5. pair \in P
    BY <2>4, TrimType
  <2> DEFINE n == Len(header)
  <2>6. /\ header' \in Seq(P) /\ Len(header') = n + 1
        /\ \A k \in 1 .. n : header'[k] = header[k]
        /\ header'[n + 1] = pair
    <3> HIDE DEF pair, P
    <3> QED
      BY <1>6, <1>9, <2>5, AppendProperties
  <2>7. ReqTypeOK'
    <3>1. (phase \in {"first", "header", "body"} \cup Outcomes)'
      BY <1>9
    <3> QED
      BY <1>0, <1>1, <1>6, <2>6, <3>1, NextTypes
  <2>8. StartInv' /\ BodyLimits'
    BY <1>0, <1>3, <1>9 DEF StartInv, BodyLimits
  <2>9. LinesInv'
    <3>1. n + 2 \in Nat /\ n + 2 >= 1 /\ Len(header') = (n + 2) - 1
      BY <1>6, <2>6
    <3> QED
      BY <1>0, <1>3, <1>9, <3>1, NextLine DEF t
  <2>10. \A k \in DOMAIN header' : \E s \in LineStarts(k + 1) : header'[k] = HeaderOf(s)
    <3>1. DOMAIN header = 1 .. n /\ DOMAIN header' = 1 .. n + 1
      <4>1. DOMAIN header = 1 .. Len(header) /\ DOMAIN header' = 1 .. Len(header')
        BY <1>6, <2>6
      <4> QED
        BY <2>6, <4>1
    <3>2. b \in LineStarts((n + 1) + 1)
      <4>1. (n + 1) + 1 = n + 2
        BY <1>6
      <4> QED
        BY <1>3, <4>1
    <3>3. header'[n + 1] = HeaderOf(b)
      BY <1>2, <2>6 DEF i, colons, HeaderOf
    <3>4. \A k \in 1 .. n + 1 : k \in 1 .. n \/ k = n + 1
      BY <1>6
    <3> HIDE DEF n, pair
    <3> QED
      BY <1>7, <2>6, <3>1, <3>2, <3>3, <3>4
  <2>11. SameLines'
    BY <1>1, <1>9, <2>10, SameMessage DEF SameLines
  <2> QED
    BY <1>1, <2>7, <2>8, <2>9, <2>11 DEF ReqInv
<1> QED
  BY <1>4, <1>8, <1>9

\* The empty line.
LEMMA StepBlankLine ==
    ASSUME ReqInv, BlankLine
    PROVE  ReqInv'
<1> DEFINE b == LineBegin
<1>0. /\ phase = "header" /\ Reading /\ HaveLine /\ ret.name = "line" /\ ret.err = "nil"
      /\ ~ret.prefix /\ Consume /\ line' = <<>> /\ joined' = FALSE
      /\ Trim(LineResult) = <<>> /\ phase' = "body"
      /\ UNCHANGED <<uri, header, body>>
  BY DEF BlankLine, HaveLine, Reading
<1>1. /\ RdInv' /\ InOrder' /\ OpsInv' /\ EndInv' /\ PieceInv' /\ BodyInv'
      /\ Before' = taken /\ stream' = stream
  BY <1>0, Consumed
<1>2. /\ b \in 1 .. MaxPos /\ taken \in b .. MaxPos
      /\ Trim(Text(b)) = <<>> /\ Without(NL, b, taken - 1)
      /\ \/ EndOf(b) = taken
         \/ EndOf(b) = MaxPos + 1 /\ taken = MaxPos
  BY <1>0, LineDone
<1>3. /\ b \in LineStarts(Len(header) + 2) /\ b >= 2 /\ body = <<>>
      /\ \A j \in 2 .. b - 1 : IsStart(j) => Trim(Text(j)) # <<>>
  BY <1>0, <1>2, PosAssumption DEF ReqInv, LinesInv, StartInv
<1>4. b \in Nat /\ taken \in Nat /\ MaxPos \in Nat /\ b \in 2 .. MaxPos /\ IsStart(b)
  BY <1>2, <1>3, PosAssumption DEF LineStarts
<1> HIDE DEF b
<1>5. taken < MaxPos => taken + 1 \in BodyStarts
  BY <1>2, <1>4 DEF BodyStarts
<1>6. ASSUME NEW x \in BodyStarts PROVE taken < x
  <2>1. PICK j \in 2 .. MaxPos : IsStart(j) /\ Trim(Text(j)) = <<>> /\ x = EndOf(j) + 1
    BY DEF BodyStarts
  <2>2. j >= b /\ j \in Nat
    BY <1>3, <1>4, <2>1
  <2>3. EndOf(j) \in j .. MaxPos + 1
    BY <1>4, <2>1, EndFacts
  <2>4. CASE j = b
    BY <1>2, <1>4, <2>1, <2>3, <2>4
  <2>5. CASE j > b
    <3>1. j \notin 2 .. taken
      BY <1>2, <1>4, <2>1, <2>2, <2>5, NoStartWithin
    <3> QED
      BY <1>4, <2>1, <2>2, <2>3, <3>1
  <2> QED
    BY <1>4, <2>2, <2>4, <2>5
<1>7. StartInv'
  BY <1>0, <1>1, <1>3, <1>5, <1>6, SameMessage DEF StartInv
<1>8. LinesInv' /\ BodyLimits'
  BY <1>0 DEF LinesInv, BodyLimits, Reading
<1>9. SameLines'
  BY <1>0, <1>1, SameMessage DEF ReqInv, SameLines
<1>10. ReqTypeOK'
  <2>1. (phase \in {"first", "header", "body"} \cup Outcomes)'
    BY <1>0
  <2>2. /\ uri' \in Seq(1 .. MaxPos) /\ header' \in Seq(Seq(1 .. MaxPos) \X Seq(1 .. MaxPos))
        /\ body' \in Seq(1 .. MaxPos) /\ ReqTypeOK
    BY <1>0 DEF ReqInv, ReqTypeOK
  <2> QED
    BY <1>0, <1>1, <2>1, <2>2, NextTypes
<1> QED
  BY <1>1, <1>7, <1>8, <1>9, <1>10 DEF ReqInv

LEMMA StartsAreNumbers == BodyStarts \subseteq Nat
<1> SUFFICES ASSUME NEW x \in BodyStarts PROVE x \in Nat
  OBVIOUS
<1>1. PICK j \in 2 .. MaxPos : x = EndOf(j) + 1
  BY DEF BodyStarts
<1>2. EndOf(j) \in j .. MaxPos + 1
  BY <1>1, PosAssumption, EndFacts
<1> QED
  BY <1>1, <1>2, PosAssumption

\* The body.
LEMMA StepReadBody ==
    ASSUME ReqInv, ReadBody
    PROVE  ReqInv'
<1> DEFINE at == ret.at
           n == Len(ret.data)
           d == ret.data
<1>0. /\ phase = "body" /\ ret.name = "slice" /\ Consume /\ body' = d
      /\ phase' = (IF ret.err \in {"nil", "eof"} THEN "ok" ELSE "dropped")
      /\ UNCHANGED <<line, joined, uri, header>>
  BY DEF ReadBody
<1>1. /\ RdInv' /\ InOrder' /\ OpsInv' /\ EndInv' /\ PieceInv' /\ BodyInv'
      /\ stream' = stream
  BY <1>0, Consumed
<1>2. /\ d \in Seq(1 .. MaxPos) /\ \A i \in 1 .. n : d[i] = at + i
      /\ at \in 0 .. MaxPos /\ at + n <= MaxPos
      /\ \/ /\ ret.err = "nil" /\ n \in 1 .. Size
            /\ stream[at + n] = NUL /\ Without(NUL, at + 1, at + n - 1)
         \/ /\ ret.err = "eof" /\ n < Size /\ at + n = MaxPos
            /\ Without(NUL, at + 1, at + n)
         \/ /\ ret.err = "full" /\ n >= Size
            /\ Without(NUL, at + 1, at + n)
  BY <1>0 DEF ReqInv, BodyInv
<1>3. /\ at < MaxPos => at + 1 \in BodyStarts
      /\ \A b \in BodyStarts : at < b
  BY <1>0 DEF ReqInv, StartInv, Before
<1>4. /\ n \in Nat /\ at \in Nat /\ MaxPos \in Nat /\ Size \in Nat /\ d = [k \in 1 .. n |-> d[k]]
      /\ (n = 0 => d = <<>>) /\ at <= MaxPos
  BY <1>2, SizeAssumption, PosAssumption
<1>5. LinesInv' /\ StartInv'
  BY <1>0 DEF LinesInv, StartInv, Reading
<1>6. ReqTypeOK'
  <2>1. (phase \in {"first", "header", "body"} \cup Outcomes)'
    BY <1>0 DEF Outcomes
  <2>2. /\ uri' \in Seq(1 .. MaxPos) /\ header' \in Seq(Seq(1 .. MaxPos) \X Seq(1 .. MaxPos))
        /\ body' \in Seq(1 .. MaxPos) /\ ReqTypeOK
    BY <1>0, <1>2 DEF ReqInv, ReqTypeOK
  <2> QED
    BY <1>0, <1>1, <2>1, <2>2, NextTypes
<1>7. /\ \A k \in DOMAIN header : \E i \in LineStarts(k + 1) : header[k] = HeaderOf(i)
      /\ phase' # "malformed"
  BY <1>0 DEF ReqInv, SameLines
<1>8. ASSUME body' # <<>> => body'[1] = First(BodyStarts) PROVE SameLines'
  BY <1>0, <1>1, <1>7, <1>8, SameMessage DEF SameLines
<1> HIDE DEF at, n, d
<1>9. CASE at = MaxPos
  <2>1. body' = <<>>
    BY <1>0, <1>2, <1>4, <1>9
  <2>2. ~(BodyStarts' # {} /\ First(BodyStarts') <= MaxPos)
    <3>1. BodyStarts' = BodyStarts
      BY <1>1, SameMessage
    <3>2. BodyStarts # {} => First(BodyStarts) \in BodyStarts /\ First(BodyStarts) \in Nat
      BY StartsAreNumbers, FirstFacts
    <3>3. BodyStarts # {} => First(BodyStarts) > MaxPos
      BY <1>3, <1>9, <3>2, <1>4
    <3> QED
      BY <1>4, <3>1, <3>2, <3>3
  <2>3. BodyLimits'
    BY <2>2 DEF BodyLimits
  <2> QED
    BY <1>1, <1>5, <1>6, <1>8, <2>1, <2>3 DEF ReqInv
<1>10. CASE at < MaxPos
  <2> DEFINE b == at + 1
             nul == {i \in b .. MaxPos : stream[i] = NUL}
             e == IF nul = {} THEN MaxPos ELSE First(nul)
  <2>1. First(BodyStarts) = b
    <3>1. \A y \in BodyStarts : b <= y
      BY <1>3, <1>4, StartsAreNumbers
    <3>2. b \in BodyStarts
      BY <1>3, <1>10
    <3> QED
      BY <3>1, <3>2, StartsAreNumbers, FirstIs
  <2>2. body' # <<>> => body'[1] = b
    <3>1. body' # <<>> => 1 \in 1 .. n
      BY <1>0, <1>4
    <3> QED
      BY <1>0, <1>2, <3>1
  <2>3. nul \subseteq Nat /\ \A y \in nul : y \in b .. MaxPos /\ stream[y] = NUL
    BY <1>4
  <2>4. nul # {} => First(nul) \in nul
    BY <2>3, FirstFacts
  <2>5. ASSUME NEW m \in Nat, Without(NUL, b, at + m), NEW y \in nul PROVE y > at + m
    <3>1. y \in b .. MaxPos /\ y \notin b .. at + m
      BY <2>3, <2>5 DEF Without
    <3> QED
      BY <1>4, <3>1
  <2>6. /\ phase' = "dropped" <=> e - b + 1 >= Size /\ (nul = {} \/ e - b >= Size)
        /\ phase' = "ok" => e - b + 1 = n
    <3>1. CASE ret.err = "nil"
      <4>1. n \in 1 .. Size /\ stream[at + n] = NUL /\ Without(NUL, b, at + n - 1)
        BY <1>2, <3>1
      <4>2. at + n \in nul /\ n - 1 \in Nat /\ at + (n - 1) = at + n - 1
        BY <1>2, <1>4, <4>1
      <4>3. \A y \in nul : y > at + (n - 1)
        BY <2>5, <4>1, <4>2
      <4>4. \A y \in nul : at + n <= y
        BY <1>4, <2>3, <4>3
      <4> HIDE DEF nul
      <4>5. First(nul) = at + n
        BY <2>3, <4>2, <4>4, FirstIs
      <4>6. e = at + n /\ nul # {}
        BY <4>2, <4>5
      <4>7. phase' = "ok"
        BY <1>0, <3>1
      <4> HIDE DEF e
      <4> QED
        BY <1>4, <4>1, <4>6, <4>7
    <3>2. CASE ret.err = "eof"
      <4>1. n < Size /\ at + n = MaxPos /\ Without(NUL, b, at + n)
        BY <1>2, <3>2
      <4>2. nul = {}
        BY <4>1 DEF Without
      <4>3. phase' = "ok" /\ e = at + n
        BY <1>0, <3>2, <4>1, <4>2
      <4> HIDE DEF e, nul
      <4> QED
        BY <1>4, <4>1, <4>3
    <3>3. CASE ret.err = "full"
      <4>1. n >= Size /\ Without(NUL, b, at + n)
        BY <1>2, <3>3
      <4>2. \A y \in nul : y > at + n
        BY <1>4, <2>5, <4>1
      <4>3. phase' = "dropped"
        BY <1>0, <3>3
      <4> HIDE DEF nul
      <4>4. CASE nul = {}
        <5>1. e = MaxPos
          BY <4>4
        <5> HIDE DEF e
        <5> QED
          BY <1>2, <1>4, <4>1, <4>3, <4>4, <5>1
      <4>5. CASE nul # {}
        <5>1. e \in nul /\ e \in Nat /\ e > at + n
          BY <2>3, <2>4, <4>2, <4>5
        <5> HIDE DEF e
        <5> QED
          BY <1>4, <4>1, <4>3, <5>1
      <4> QED
        BY <4>4, <4>5
    <3> QED
      BY <1>2, <3>1, <3>2, <3>3
  <2>7. body' = [k \in 1 .. n |-> b + k - 1]
    <3>1. \A k \in 1 .. n : d[k] = b + k - 1
      BY <1>2, <1>4
    <3> QED
      BY <1>0, <1>4, <3>1
  <2>8. phase' = "ok" => body' = [k \in 1 .. e - b + 1 |-> b + k - 1]
    BY <2>6, <2>7
  <2>9. BodyLimits'
    <3>1. First(BodyStarts') = b
      BY <1>1, <2>1, SameMessage
    <3>2. nul = {i \in b .. MaxPos : stream'[i] = NUL}
      BY <1>1
    <3> HIDE DEF b
    <3> QED
      BY <2>6, <2>8, <3>1, <3>2, Zenon DEF BodyLimits
  <2> QED
    BY <1>1, <1>5, <1>6, <1>8, <2>1, <2>2, <2>9 DEF ReqInv
<1> QED
  BY <1>4, <1>9, <1>10

LEMMA ReqInitInv == ReqInit => ReqInv
<1> SUFFICES ASSUME ReqInit PROVE ReqInv
  OBVIOUS
<1>1. /\ RdInit /\ phase = "first" /\ line = <<>> /\ joined = FALSE
      /\ uri = <<>> /\ header = <<>> /\ body = <<>>
      /\ ret.name = "none" /\ ret.data = <<>> /\ op.name = "none" /\ err = "nil" /\ taken = 0
  BY DEF ReqInit, RdInit, NoResult, NoOp
<1>2. RdInv /\ InOrder
  BY <1>1, RdInitInv DEF InOrder
<1>3. ReqTypeOK
  <2>1. /\ line \in Seq(1 .. MaxPos) /\ uri \in Seq(1 .. MaxPos) /\ body \in Seq(1 .. MaxPos)
        /\ header \in Seq(Seq(1 .. MaxPos) \X Seq(1 .. MaxPos))
    BY <1>1
  <2>2. phase \in {"first", "header", "body"} \cup Outcomes
    BY <1>1
  <2> QED
    BY <1>1, <1>2, <2>1, <2>2 DEF RdInv, ReqTypeOK
<1>4. OpsInv /\ EndInv /\ PieceInv /\ BodyInv
  BY <1>1 DEF OpsInv, EndInv, PieceInv, BodyInv
<1>5. Before = 0 /\ LineBegin = 1
  BY <1>1 DEF Before, LineBegin
<1>6. LinesInv
  BY <1>1, <1>5, PosAssumption DEF LinesInv, Without
<1>7. StartInv /\ SameLines /\ BodyLimits
  BY <1>1 DEF StartInv, SameLines, BodyLimits
<1> QED
  BY <1>2, <1>3, <1>4, <1>6, <1>7 DEF ReqInv

LEMMA ReqInductive ==
    ASSUME ReqInv, [ReqNext]_allReqVars
    PROVE  ReqInv'
<1>1. CASE UNCHANGED allReqVars
  <2>1. /\ UNCHANGED <<stream, pos, buf, r, w, err, op, ret, taken>> /\ UNCHANGED reqVars
        /\ UNCHANGED <<phase, line, joined, uri, header, body>>
    BY <1>1 DEF allReqVars, rdVars, input, state, reqVars
  <2>2. LinesInv' /\ StartInv' /\ SameLines' /\ BodyLimits'
    BY <2>1, ReaderOnly DEF Before
  <2>3. RdInv' /\ InOrder'
    BY <1>1, ParserKeepsReader DEF ReqInv
  <2>4. ReqTypeOK'
    BY <2>1, <2>3 DEF ReqInv, RdInv, ReqTypeOK
  <2>5. OpsInv' /\ EndInv' /\ PieceInv' /\ BodyInv'
    BY <2>1 DEF ReqInv, OpsInv, EndInv, PieceInv, BodyInv, Reading, Buffered, Without, CrLf
  <2> QED
    BY <2>2, <2>3, <2>4, <2>5 DEF ReqInv
<1> QED
  BY <1>1, StepReader, StepPrefix, StepLineError, StepRequestLine, StepHeaderLine,
     StepBlankLine, StepReadBody DEF ReqNext

LEMMA ReqInvariant == ReqSpec => []ReqInv
<1>1. ReqInv /\ [ReqNext]_allReqVars => ReqInv'
  BY ReqInductive
<1> QED
  BY <1>1, ReqInitInv, PTL DEF ReqSpec

\* ReadRequest finds the lines of the message wherever they fall into the
\* buffer: for every message and every buffer size, the headers it accepts are
\* the lines in order, a malformed line is one, and the body begins after the
\* first empty line.
THEOREM LinesAreTheMessages == ReqSpec => []SameLines
<1>1. ReqInv => SameLines
  BY DEF ReqInv
<1> QED
  BY <1>1, ReqInvariant, PTL

\* ReadRequest delivers a body whole up to its first zero byte, and drops a
\* message exactly when the buffer fills with body bytes before one comes.
THEOREM BodiesAreLimited == ReqSpec => []BodyLimits
<1>1. ReqInv => BodyLimits
  BY DEF ReqInv
<1> QED
  BY <1>1, ReqInvariant, PTL

================================================================================
