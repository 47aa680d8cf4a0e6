---------------------------- MODULE BufWriterProofs ----------------------------
(***************************************************************************)
(* The buffered writer for every buffer size and every sequence of calls:  *)
(* its types, and that it loses, repeats and reorders nothing.             *)
(***************************************************************************)
EXTENDS BufWriter, TLAPS

\* What an operation in progress may still take from the caller.
OpInv ==
    /\ taken + op.left <= MaxBytes
    /\ op.name # "peek" => op.left >= 0
    /\ op.name = "peek" => op.left = op.len

\* The types of what OutputExact talks about.
DataType ==
    /\ buf \in [Slots -> 0 .. MaxBytes]
    /\ n \in 0 .. Size
    /\ out \in Seq(1 .. MaxBytes)
    /\ taken \in 0 .. MaxBytes

\* The inductive invariant: the output is exact only as long as every position
\* stays inside the buffer and the bytes an operation still owes fit the bound.
WrInv == WrTypeOK /\ OpInv /\ OutputExact

--------------------------------------------------------------------------------
(* Sequences of consecutive numbers.                                        *)

\* Appending the k numbers that follow keeps a sequence of consecutive numbers.
LEMMA AppendNext ==
    ASSUME NEW s \in Seq(1 .. MaxBytes), NEW k \in Nat, NEW t,
           \A i \in DOMAIN s : s[i] = i,
           t = s \o [i \in 1 .. k |-> Len(s) + i],
           Len(s) + k <= MaxBytes
    PROVE  /\ t \in Seq(1 .. MaxBytes)
           /\ Len(t) = Len(s) + k
           /\ \A i \in DOMAIN t : t[i] = i
<1> DEFINE u == [i \in 1 .. k |-> Len(s) + i]
<1>0. MaxBytes \in Nat /\ Len(s) \in Nat
  BY MaxBytesAssumption
<1>1. u \in Seq(1 .. MaxBytes) /\ Len(u) = k
  <2>1. \A i \in 1 .. k : Len(s) + i \in 1 .. MaxBytes
    BY <1>0
  <2>2. u \in [1 .. k -> 1 .. MaxBytes]
    BY <2>1
  <2> QED
    BY <2>2
<1>2. t \in Seq(1 .. MaxBytes) /\ Len(t) = Len(s) + k
  BY <1>1
<1>3. ASSUME NEW i \in 1 .. Len(s) + k PROVE t[i] = i
  <2>1. CASE i <= Len(s)
    BY <2>1, <1>1, <1>0
  <2>2. CASE i > Len(s)
    <3>1. i - Len(s) \in 1 .. k
      BY <2>2, <1>0
    <3>2. t[i] = u[i - Len(s)]
      BY <2>2, <1>1, <1>0
    <3> QED
      BY <3>1, <3>2, <1>0
  <2> QED
    BY <2>1, <2>2, <1>0
<1> QED
  BY <1>2, <1>3, <1>0

--------------------------------------------------------------------------------
(* What the data operations of the writer do.                               *)

\* Copying c bytes to the free end continues the numbering.
LEMMA CopiedExact ==
    ASSUME DataType, OutputExact, NEW c \in 0 .. Available, taken + c <= MaxBytes
    PROVE  /\ Copied(c) \in [Slots -> 0 .. MaxBytes]
           /\ \A i \in 0 .. n + c - 1 : Copied(c)[i] = Len(out) + 1 + i
           /\ Len(out) + n = taken
<1> USE SizeAssumption, MaxBytesAssumption
<1>1. n \in 0 .. Size /\ taken \in 0 .. MaxBytes /\ Len(out) \in Nat /\ taken = Len(out) + n
      /\ c \in Nat /\ n + c <= Size
  BY DEF DataType, OutputExact, Available
<1>2. ASSUME NEW i \in Slots
      PROVE  Copied(c)[i] = IF i \in n .. n + c - 1 THEN taken + 1 + i - n ELSE buf[i]
  BY DEF Copied
<1>3. Copied(c) \in [Slots -> 0 .. MaxBytes]
  <2>1. \A i \in Slots : (IF i \in n .. n + c - 1 THEN taken + 1 + i - n ELSE buf[i])
                          \in 0 .. MaxBytes
    BY <1>1 DEF DataType, Slots
  <2> QED
    BY <2>1 DEF Copied
<1>4. ASSUME NEW i \in 0 .. n + c - 1 PROVE Copied(c)[i] = Len(out) + 1 + i
  <2>1. i \in Slots
    BY <1>1 DEF Slots
  <2>2. i < n => buf[i] = Len(out) + 1 + i
    BY <1>1 DEF OutputExact
  <2> QED
    BY <1>1, <1>2, <2>1, <2>2
<1> QED
  BY <1>1, <1>3, <1>4

\* flush moves a prefix of the buffered bytes to the output and keeps the rest.
LEMMA FlushExact ==
    ASSUME DataType, OutputExact,
           NEW b \in [Slots -> 0 .. MaxBytes], NEW m \in 0 .. Size,
           NEW k \in Nat, NEW e \in {"nil", "io"},
           \A i \in 0 .. m - 1 : b[i] = Len(out) + 1 + i,
           Len(out) + m <= MaxBytes,
           Flush(b, m, k, e), taken' = Len(out) + m
    PROVE  DataType' /\ OutputExact' /\ err' \in Errors
<1> USE SizeAssumption, MaxBytesAssumption
<1> DEFINE failure == IF k < m /\ e = "nil" THEN "short" ELSE e
<1>1. /\ k \in 0 .. m
      /\ out' = out \o [i \in 1 .. k |-> b[i - 1]]
      /\ err' = failure
      /\ n' = IF failure = "nil" THEN 0 ELSE m - k
      /\ buf' = IF failure = "nil" THEN b
                ELSE [i \in Slots |-> IF i < m - k THEN b[i + k] ELSE b[i]]
  BY DEF Flush
<1>2. failure \in Errors /\ (failure = "nil" => k = m)
  BY <1>1 DEF Errors
<1> HIDE DEF failure
<1>3. out \in Seq(1 .. MaxBytes) /\ Len(out) \in Nat /\ (\A i \in DOMAIN out : out[i] = i)
  BY DEF DataType, OutputExact
<1>4. [i \in 1 .. k |-> b[i - 1]] = [i \in 1 .. k |-> Len(out) + i]
  <2>1. \A i \in 1 .. k : b[i - 1] = Len(out) + i
    BY <1>1, <1>3
  <2> QED
    BY <2>1
<1>5. /\ out' \in Seq(1 .. MaxBytes)
      /\ Len(out') = Len(out) + k
      /\ \A i \in DOMAIN out' : out'[i] = i
  <2>1. out' = out \o [i \in 1 .. k |-> Len(out) + i]
    BY <1>1, <1>4
  <2>2. Len(out) + k <= MaxBytes
    BY <1>1, <1>3
  <2> QED
    BY <1>3, <2>1, <2>2, AppendNext
<1>6. n' = m - k /\ n' \in 0 .. Size
  BY <1>1, <1>2
<1>7. buf' \in [Slots -> 0 .. MaxBytes]
  <2>1. \A i \in Slots : (IF i < m - k THEN b[i + k] ELSE b[i]) \in 0 .. MaxBytes
    BY <1>1 DEF Slots
  <2> QED
    BY <1>1, <2>1
<1>8. ASSUME NEW i \in 0 .. n' - 1 PROVE buf'[i] = Len(out') + 1 + i
  <2>1. failure # "nil" /\ i \in Slots /\ i < m - k /\ i + k \in 0 .. m - 1
    BY <1>1, <1>2, <1>6 DEF Slots
  <2>2. buf'[i] = b[i + k]
    BY <1>1, <2>1
  <2> QED
    BY <1>1, <1>3, <1>5, <2>1, <2>2
<1>9. taken' \in 0 .. MaxBytes /\ taken' = Len(out') + n'
  <2>1. Len(out) \in Nat /\ m \in Nat /\ k \in Nat /\ Len(out') = Len(out) + k /\ n' = m - k
    BY <1>3, <1>5, <1>6
  <2> QED
    BY <2>1
<1> QED
  BY <1>1, <1>2, <1>5, <1>6, <1>7, <1>8, <1>9 DEF DataType, OutputExact

\* A direct write of an empty buffer appends the caller's next bytes.
LEMMA DirectExact ==
    ASSUME DataType, OutputExact, n = 0, NEW k \in Nat, NEW e \in {"nil", "io"},
           op.left \in Int, taken + op.left <= MaxBytes, Direct(k, e)
    PROVE  DataType' /\ OutputExact' /\ err' \in Errors /\ taken' = taken + k /\ k <= op.left
<1> USE SizeAssumption, MaxBytesAssumption
<1>1. /\ k <= op.left /\ err' = e /\ taken' = taken + k /\ buf' = buf /\ n' = n
      /\ out' = out \o [i \in 1 .. k |-> taken + i]
  BY DEF Direct
<1>2. /\ out \in Seq(1 .. MaxBytes) /\ Len(out) \in Nat /\ (\A i \in DOMAIN out : out[i] = i)
      /\ taken = Len(out) /\ taken \in 0 .. MaxBytes
  BY DEF DataType, OutputExact
<1>3. /\ out' \in Seq(1 .. MaxBytes)
      /\ Len(out') = Len(out) + k
      /\ \A i \in DOMAIN out' : out'[i] = i
  BY <1>1, <1>2, AppendNext
<1> QED
  BY <1>1, <1>2, <1>3 DEF DataType, OutputExact, Errors

\* Copying without a flush.
LEMMA CopyExact ==
    ASSUME DataType, OutputExact, NEW c \in 0 .. Available, taken + c <= MaxBytes,
           buf' = Copied(c), n' = n + c, taken' = taken + c, out' = out
    PROVE  DataType' /\ OutputExact'
<1>1. n + c \in 0 .. Size /\ taken + c \in 0 .. MaxBytes /\ Len(out) \in Nat
  BY SizeAssumption, MaxBytesAssumption DEF DataType, Available
<1>2. /\ Copied(c) \in [Slots -> 0 .. MaxBytes]
      /\ \A i \in 0 .. n + c - 1 : Copied(c)[i] = Len(out) + 1 + i
      /\ Len(out) + n = taken
  BY CopiedExact
<1>3. taken + c = Len(out) + (n + c)
  BY <1>1, <1>2 DEF DataType
<1> QED
  BY <1>1, <1>2, <1>3 DEF DataType, OutputExact

--------------------------------------------------------------------------------
(* Control: calls, loop turns and returns.                                  *)

OpType == op \in [name : OpNames, len : Int, left : Int]
RetType == ret \in [name : OpNames, len : Int, nn : Int, err : Errors \cup {"full", "negative"}]

\* An operation that returns leaves no operation in progress.
LEMMA IdleOp ==
    ASSUME op' = NoOp, taken' \in 0 .. MaxBytes
    PROVE  OpType' /\ OpInv'
<1>1. OpType' /\ op'.left = 0 /\ op'.name = "none"
  BY DEF OpType, NoOp, OpNames
<1>2. taken' + op'.left <= MaxBytes /\ op'.left >= 0
  <2>1. ASSUME NEW T \in 0 .. MaxBytes, NEW L, L = 0 PROVE T + L <= MaxBytes /\ L >= 0
    BY <2>1, MaxBytesAssumption
  <2> QED
    BY <1>1, <2>1
<1> QED
  BY <1>1, <1>2 DEF OpInv

LEMMA ReturnOp ==
    ASSUME WrInv, taken' \in 0 .. MaxBytes, NEW nn \in Int,
           NEW e \in Errors \cup {"full", "negative"}, Return(nn, e)
    PROVE  OpType' /\ RetType' /\ OpInv'
<1>1. op' = NoOp /\ ret' = [name |-> op.name, len |-> op.len, nn |-> nn, err |-> e]
  BY DEF Return
<1>2. OpType' /\ OpInv'
  BY <1>1, IdleOp
<1>3. RetType'
  BY <1>1 DEF RetType, WrInv, WrTypeOK
<1> QED
  BY <1>2, <1>3

\* The parts of the invariant, put together in the next state.
LEMMA Assemble ==
    ASSUME DataType', OutputExact', err' \in Errors, OpType', RetType', OpInv'
    PROVE  WrInv'
BY DEF DataType, OpType, RetType, WrInv, WrTypeOK

\* And taken apart.
LEMMA Parts ==
    ASSUME WrInv
    PROVE  /\ DataType /\ OutputExact /\ err \in Errors /\ OpType /\ RetType /\ OpInv
           /\ op.left \in Int /\ op.len \in Int /\ taken \in Int /\ n \in 0 .. Size
           /\ Len(out) \in Nat /\ taken = Len(out) + n
BY DEF DataType, OpType, RetType, WrInv, WrTypeOK, OutputExact

LEMMA WrInitInv == WrInit => WrInv
<1> SUFFICES ASSUME WrInit PROVE WrInv
  OBVIOUS
<1> USE SizeAssumption, MaxBytesAssumption
<1>1. DataType /\ OutputExact /\ err \in Errors
  BY DEF WrInit, DataType, OutputExact, Slots, Errors
<1>2. OpType /\ RetType /\ OpInv
  BY DEF WrInit, OpType, RetType, OpInv, NoOp, NoResult, OpNames, Errors
<1> QED
  BY <1>1, <1>2 DEF DataType, OpType, RetType, WrInv, WrTypeOK

LEMMA CallInv ==
    ASSUME WrInv, NEW name \in OpNames, NEW len \in Int, Call(name, len),
           name # "peek" => len >= 0
    PROVE  WrInv'
<1>1. /\ op' = [name |-> name, len |-> len, left |-> len] /\ ret' = NoResult
      /\ UNCHANGED <<buf, n, err, out, taken>> /\ taken + len <= MaxBytes
  BY DEF Call, state
<1>2. DataType' /\ OutputExact' /\ err' \in Errors
  BY <1>1, Parts DEF DataType, OutputExact
<1>3. OpType' /\ RetType' /\ OpInv'
  BY <1>1 DEF OpType, RetType, OpInv, NoResult, OpNames, Errors
<1> QED
  BY <1>2, <1>3, Assemble

\* A return that leaves the data alone.
LEMMA IdleReturn ==
    ASSUME WrInv, NEW nn \in Int, NEW e \in Errors \cup {"full", "negative"},
           Return(nn, e), UNCHANGED state
    PROVE  WrInv'
<1>1. UNCHANGED <<buf, n, err, out, taken>>
  BY DEF state
<1>2. DataType' /\ OutputExact' /\ err' \in Errors /\ taken' \in 0 .. MaxBytes
  BY <1>1, Parts DEF DataType, OutputExact
<1>3. OpType' /\ RetType' /\ OpInv'
  BY <1>2, ReturnOp
<1> QED
  BY <1>2, <1>3, Assemble

\* A return after a copy of c bytes that fit.
LEMMA CopyReturn ==
    ASSUME WrInv, NEW c \in 0 .. Available, taken + c <= MaxBytes,
           buf' = Copied(c), n' = n + c, taken' = taken + c, UNCHANGED <<err, out>>,
           NEW nn \in Int, Return(nn, "nil")
    PROVE  WrInv'
<1>1. DataType' /\ OutputExact'
  BY Parts, CopyExact
<1>2. err' \in Errors /\ taken' \in 0 .. MaxBytes /\ "nil" \in Errors
  BY <1>1, Parts DEF DataType, Errors
<1>3. OpType' /\ RetType' /\ OpInv'
  BY <1>2, ReturnOp
<1> QED
  BY <1>1, <1>2, <1>3, Assemble

\* A turn of the loop that took c more bytes from the caller.
LEMMA TurnOp ==
    ASSUME WrInv, op.name # "peek", NEW c \in 0 .. op.left,
           op' = [op EXCEPT !.left = @ - c], taken' = taken + c, ret' = ret
    PROVE  OpType' /\ RetType' /\ OpInv'
<1>0. /\ op \in [name : OpNames, len : Int, left : Int]
      /\ taken \in Int /\ taken + op.left <= MaxBytes
  BY Parts DEF OpInv, OpType
<1>1. op'.name = op.name /\ op'.left = op.left - c /\ OpType'
  BY <1>0 DEF OpType
<1>2. OpInv'
  <2>1. taken' + op'.left <= MaxBytes /\ op'.left >= 0
    BY <1>0, <1>1, MaxBytesAssumption
  <2> QED
    BY <1>1, <2>1 DEF OpInv
<1> QED
  BY <1>1, <1>2 DEF WrInv, WrTypeOK, RetType

LEMMA SinkInv ==
    ASSUME WrInv, NEW k \in 0 .. MaxBytes, NEW e \in {"nil", "io"}, SinkStep(k, e)
    PROVE  WrInv'
<1> USE SizeAssumption, MaxBytesAssumption
<1>0. /\ DataType /\ OutputExact /\ OpType /\ OpInv /\ k \in Nat
      /\ op.left \in Int /\ op.len \in Int /\ taken \in Int /\ n \in 0 .. Size
      /\ Len(out) \in Nat /\ taken = Len(out) + n /\ taken + op.left <= MaxBytes
      /\ buf \in [Slots -> 0 .. MaxBytes] /\ taken <= MaxBytes
  BY Parts DEF OpInv, DataType
<1>1. CASE WriteDirect(k, e)
  <2>1. /\ n = 0 /\ Direct(k, e) /\ op' = [op EXCEPT !.left = @ - k] /\ ret' = ret
        /\ op.name # "peek"
    BY <1>1 DEF WriteDirect
  <2>2. DataType' /\ OutputExact' /\ err' \in Errors /\ taken' = taken + k /\ k <= op.left
    BY <1>0, <2>1, DirectExact
  <2>3. OpType' /\ RetType' /\ OpInv'
    BY <1>0, <2>1, <2>2, TurnOp
  <2> QED
    BY <2>2, <2>3, Assemble
<1>2. CASE WriteFill(k, e)
  <2>1. /\ Available \in 0 .. op.left /\ Flush(Copied(Available), Size, k, e)
        /\ taken' = taken + Available /\ op' = [op EXCEPT !.left = @ - Available]
        /\ ret' = ret /\ op.name # "peek"
    BY <1>0, <1>2 DEF WriteFill, TooLong, Available
  <2>2. /\ Available \in 0 .. Available /\ taken + Available <= MaxBytes
        /\ n + Available = Size
    BY <1>0, <2>1 DEF Available
  <2>3. /\ Copied(Available) \in [Slots -> 0 .. MaxBytes]
        /\ \A i \in 0 .. Size - 1 : Copied(Available)[i] = Len(out) + 1 + i
    BY <1>0, <2>2, CopiedExact
  <2>4. taken' = Len(out) + Size /\ Len(out) + Size <= MaxBytes /\ Size \in 0 .. Size
    BY <1>0, <2>1, <2>2
  <2>5. DataType' /\ OutputExact' /\ err' \in Errors
    BY <1>0, <2>1, <2>3, <2>4, FlushExact
  <2>6. OpType' /\ RetType' /\ OpInv'
    BY <2>1, TurnOp
  <2> QED
    BY <2>5, <2>6, Assemble
<1>3. CASE WriteRawDirect(k, e)
  <2>1. n = 0 /\ Direct(k, e) /\ Return(k, e)
    BY <1>3 DEF WriteRawDirect
  <2>2. DataType' /\ OutputExact' /\ err' \in Errors /\ taken' \in 0 .. MaxBytes
    BY <1>0, <2>1, DirectExact DEF DataType
  <2>3. k \in Int /\ e \in Errors \cup {"full", "negative"}
    BY DEF Errors
  <2>4. OpType' /\ RetType' /\ OpInv'
    BY <2>1, <2>2, <2>3, ReturnOp
  <2> QED
    BY <2>2, <2>4, Assemble
<1>4. ASSUME Flush(buf, n, k, e), taken' = taken
      PROVE  DataType' /\ OutputExact' /\ err' \in Errors
  <2>1. \A i \in 0 .. n - 1 : buf[i] = Len(out) + 1 + i
    BY <1>0 DEF OutputExact
  <2>2. Len(out) + n <= MaxBytes /\ taken' = Len(out) + n
    BY <1>0, <1>4
  <2> QED
    BY <1>0, <1>4, <2>1, <2>2, FlushExact
<1>5. CASE PeekFlush(k, e)
  <2>1. Flush(buf, n, k, e) /\ op' = op /\ ret' = ret /\ taken' = taken
    BY <1>5 DEF PeekFlush
  <2>2. DataType' /\ OutputExact' /\ err' \in Errors
    BY <1>4, <2>1
  <2>3. OpType' /\ RetType' /\ OpInv'
    BY <2>1, Parts DEF OpType, RetType, OpInv
  <2> QED
    BY <2>2, <2>3, Assemble
<1>6. CASE FlushBuffered(k, e)
  <2>1. Flush(buf, n, k, e) /\ Return(0, err') /\ taken' = taken
    BY <1>6 DEF FlushBuffered
  <2>2. DataType' /\ OutputExact' /\ err' \in Errors /\ taken' \in 0 .. MaxBytes
    BY <1>4, <2>1 DEF DataType
  <2>3. OpType' /\ RetType' /\ OpInv'
    <3>1. op' = NoOp /\ ret' = [name |-> op.name, len |-> op.len, nn |-> 0, err |-> err']
      BY <2>1 DEF Return
    <3>2. RetType'
      BY <1>0, <2>2, <3>1 DEF RetType, OpType
    <3>3. OpType' /\ OpInv'
      BY <2>2, <3>1, IdleOp
    <3> QED
      BY <3>2, <3>3
  <2> QED
    BY <2>2, <2>3, Assemble
<1> QED
  BY <1>1, <1>2, <1>3, <1>5, <1>6 DEF SinkStep

LEMMA WrStepInv ==
    ASSUME WrInv, [WrNext]_wrVars
    PROVE  WrInv'
<1> USE SizeAssumption, MaxBytesAssumption
<1>0. /\ DataType /\ OutputExact /\ OpType /\ OpInv /\ err \in Errors /\ "nil" \in Errors
      /\ op.left \in Int /\ op.len \in Int /\ taken \in Int /\ n \in 0 .. Size
      /\ taken + op.left <= MaxBytes
  BY Parts DEF OpInv, Errors
<1>1. CASE WrCall
  <2>1. ASSUME NEW len \in Lengths \cap Nat, NEW name \in {"write", "string", "raw"},
               Call(name, len)
        PROVE  WrInv'
    BY <2>1, CallInv DEF OpNames
  <2>2. ASSUME NEW len \in Lengths, Call("peek", len) PROVE WrInv'
    BY <2>2, CallInv, LengthsAssumption DEF OpNames
  <2>3. ASSUME Call("flush", 0) PROVE WrInv'
    BY <2>3, CallInv DEF OpNames
  <2> QED
    BY <1>1, <2>1, <2>2, <2>3 DEF WrCall
<1>2. CASE \E k \in 0 .. MaxBytes, e \in {"nil", "io"} : SinkStep(k, e)
  BY <1>2, SinkInv
<1>3. CASE WriteFailed
  BY <1>0, <1>3, IdleReturn DEF WriteFailed
<1>4. CASE WriteRest
  <2>1. op.left \in 0 .. Available
    BY <1>0, <1>4 DEF WriteRest, TooLong, Available, OpInv
  <2> QED
    BY <1>0, <1>4, <2>1, CopyReturn DEF WriteRest
<1>5. CASE WriteRawFailed
  BY <1>0, <1>5, IdleReturn DEF WriteRawFailed
<1>6. CASE WriteRawBuffered
  <2>1. /\ op' = [op EXCEPT !.name = "write"] /\ ret' = ret
        /\ UNCHANGED <<buf, n, err, out, taken>> /\ op.name = "raw"
    BY <1>6 DEF WriteRawBuffered, state
  <2>2. DataType' /\ OutputExact' /\ err' \in Errors /\ RetType'
    BY <2>1, Parts DEF DataType, OutputExact, RetType
  <2>3. OpType' /\ op'.name = "write" /\ op'.left = op.left
    BY <1>0, <2>1 DEF OpType, OpNames
  <2>4. OpInv'
    BY <1>0, <2>1, <2>3 DEF OpInv
  <2> QED
    BY <2>2, <2>3, <2>4, Assemble
<1>7. CASE PeekBad
  <2>1. ASSUME NEW e \in {"negative", "full"}, Return(0, e), UNCHANGED state PROVE WrInv'
    BY <2>1, IdleReturn
  <2> QED
    BY <1>7, <2>1 DEF PeekBad
<1>8. CASE PeekReserve
  <2>1. op.left = op.len /\ op.len \in 0 .. Size
    BY <1>8, <1>0 DEF PeekReserve, OpInv
  <2>2. CASE err = "nil"
    <3>1. op.len \in 0 .. Available /\ taken + op.len <= MaxBytes
      BY <1>0, <1>8, <2>1, <2>2 DEF PeekReserve, TooLong, Available
    <3> QED
      BY <1>0, <1>8, <2>2, <3>1, CopyReturn DEF PeekReserve
  <2>3. CASE err # "nil"
    <3>1. Return(0, err) /\ UNCHANGED state
      BY <1>8, <2>3 DEF PeekReserve, state
    <3> QED
      BY <1>0, <3>1, IdleReturn
  <2> QED
    BY <2>2, <2>3
<1>9. CASE FlushIdle
  BY <1>0, <1>9, IdleReturn DEF FlushIdle
<1>10. CASE Reset
  <2>1. /\ n' = 0 /\ err' = "nil" /\ out' = <<>> /\ taken' = 0 /\ ret' = NoResult
        /\ buf' = buf /\ op' = op /\ op = NoOp
    BY <1>10 DEF Reset
  <2>2. DataType' /\ OutputExact' /\ err' \in Errors
    BY <1>0, <2>1 DEF DataType, OutputExact
  <2>3. OpType' /\ RetType' /\ OpInv'
    BY <1>0, <2>1 DEF OpType, RetType, OpInv, NoOp, NoResult, OpNames, Errors
  <2> QED
    BY <2>2, <2>3, Assemble
<1>11. CASE UNCHANGED wrVars
  BY <1>11 DEF wrVars, state, WrInv, WrTypeOK, OpInv, OutputExact
<1> QED
  BY <1>1, <1>2, <1>3, <1>4, <1>5, <1>6, <1>7, <1>8, <1>9, <1>10, <1>11 DEF WrNext, WrStep

--------------------------------------------------------------------------------
\* The positions of the writer stay inside its buffer and its counts inside the
\* caller's data, whatever the underlying writer returns.
THEOREM WriterTypeCorrect == WrSpec => []WrTypeOK
<1>1. WrInv => WrTypeOK
  BY DEF WrInv
<1> QED
  BY <1>1, WrInitInv, WrStepInv, PTL DEF WrSpec

\* The output followed by the buffer is what the caller was told was accepted,
\* for every buffer size and every way the underlying writer may fail.
THEOREM OutputIsExact == WrSpec => []OutputExact
<1>1. WrInv => OutputExact
  BY DEF WrInv
<1> QED
  BY <1>1, WrInitInv, WrStepInv, PTL DEF WrSpec

\* After an error only Reset changes anything, and every operation returns it.
THEOREM ErrorIsSticky == WrSpec => StickyError
<1> DEFINE Sticky == err # "nil" =>
                        \/ Reset
                        \/ /\ UNCHANGED state
                           /\ ret' # NoResult => ret'.err \in {err, "negative", "full"}
<1>1. ASSUME WrNext PROVE Sticky
  <2> SUFFICES ASSUME err # "nil", ~Reset
               PROVE  UNCHANGED state /\ (ret' # NoResult => ret'.err \in {err, "negative", "full"})
    OBVIOUS
  <2>1. CASE WrCall
    BY <2>1 DEF WrCall, Call
  <2>2. ASSUME NEW k, NEW e PROVE ~SinkStep(k, e)
    BY DEF SinkStep, WriteDirect, WriteFill, WriteRawDirect, PeekFlush, FlushBuffered, TooLong
  <2>3. ~WriteRest /\ ~WriteRawBuffered
    BY DEF WriteRest, WriteRawBuffered
  <2>4. CASE WriteFailed \/ WriteRawFailed \/ FlushIdle
    BY <2>4 DEF WriteFailed, WriteRawFailed, FlushIdle, Return
  <2>5. CASE PeekBad
    BY <2>5 DEF PeekBad, Return
  <2>6. CASE PeekReserve
    BY <2>6 DEF PeekReserve, Return, state
  <2> QED
    BY <1>1, <2>1, <2>2, <2>3, <2>4, <2>5, <2>6 DEF WrNext, WrStep
<1>2. [WrNext]_wrVars => [Sticky]_wrVars
  BY <1>1
<1> QED
  BY <1>2, PTL DEF WrSpec, StickyError

================================================================================
