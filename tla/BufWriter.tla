------------------------------- MODULE BufWriter -------------------------------
(***************************************************************************)
(* The buffered writer, server/mqtt/bufio/bufio.go, over an underlying     *)
(* io.Writer that may take part of what it is given, with or without an    *)
(* error.                                                                  *)
(*                                                                         *)
(* A byte is its number in what the caller wrote since the last Reset, so  *)
(* that a byte that is lost, repeated or out of order is visible.  One     *)
(* step is one turn of an operation's loop: a copy and the flush after it, *)
(* or a direct write.  The bytes that Peek reserves are filled by the      *)
(* caller before its next call, as the header of a frame is.               *)
(***************************************************************************)
EXTENDS Integers, Sequences

CONSTANTS
    Size,      \* len(b.buf)
    MaxBytes,  \* bound: bytes the caller offers between two Resets
    Lengths    \* lengths of the arguments of Write, WriteRaw and WriteString,
               \* and the counts Peek is called with

ASSUME SizeAssumption == Size \in Nat \ {0}
ASSUME MaxBytesAssumption == MaxBytes \in Nat
ASSUME LengthsAssumption == Lengths \subseteq Int

VARIABLES
    buf,    \* the bytes in the buffer; 0: never written
    n,      \* how many of them are buffered
    err,    \* the error that ended the writing
    out,    \* what the underlying writer has taken
    op,     \* the operation in progress
    ret,    \* what the last operation returned, until the next call
    taken   \* bytes accepted from the caller, as the results tell

state == <<buf, n, err, out, taken>>
wrVars == <<state, op, ret>>

Slots == 0 .. Size - 1

Errors == {"nil", "io", "short"}

NoOp == [name |-> "none", len |-> 0, left |-> 0]
NoResult == [name |-> "none", len |-> 0, nn |-> 0, err |-> "nil"]
OpNames == {"none", "write", "string", "raw", "peek", "flush"}

Available == Size - n

WrTypeOK ==
    /\ buf \in [Slots -> 0 .. MaxBytes]
    /\ n \in 0 .. Size
    /\ err \in Errors
    /\ out \in Seq(1 .. MaxBytes)
    /\ op \in [name : OpNames, len : Int, left : Int]
    /\ ret \in [name : OpNames, len : Int, nn : Int, err : Errors \cup {"full", "negative"}]
    /\ taken \in 0 .. MaxBytes

WrInit ==
    /\ buf = [i \in Slots |-> 0]
    /\ n = 0
    /\ err = "nil"
    /\ out = <<>>
    /\ op = NoOp
    /\ ret = NoResult
    /\ taken = 0

--------------------------------------------------------------------------------
(* Calls and returns.                                                       *)

Call(name, len) ==
    /\ op = NoOp
    /\ taken + len <= MaxBytes
    /\ op' = [name |-> name, len |-> len, left |-> len]
    /\ ret' = NoResult
    /\ UNCHANGED state

Return(nn, e) ==
    /\ op' = NoOp
    /\ ret' = [name |-> op.name, len |-> op.len, nn |-> nn, err |-> e]

--------------------------------------------------------------------------------
(* Copying into the buffer, and flush.                                      *)

\* The buffer after the caller's next c bytes were copied to its free end.
Copied(c) == [i \in Slots |-> IF i \in n .. n + c - 1 THEN taken + 1 + i - n ELSE buf[i]]

\* Faulty variant: what is left after a short write is not moved to the front.
FlushNoMove(b, m, k, e) ==
    LET failure == IF k < m /\ e = "nil" THEN "short" ELSE e
    IN  /\ k <= m
        /\ out' = out \o [i \in 1 .. k |-> b[i - 1]]
        /\ err' = failure
        /\ n' = IF failure = "nil" THEN 0 ELSE m - k
        /\ buf' = b

\* flush of the m bytes of buffer b, of which the underlying writer took k.
Flush(b, m, k, e) ==
    LET failure == IF k < m /\ e = "nil" THEN "short" ELSE e
    IN  /\ k <= m
        /\ out' = out \o [i \in 1 .. k |-> b[i - 1]]
        /\ err' = failure
        /\ n' = IF failure = "nil" THEN 0 ELSE m - k
        /\ buf' = IF failure = "nil" THEN b
                  ELSE [i \in Slots |-> IF i < m - k THEN b[i + k] ELSE b[i]]

\* The underlying writer took k of the caller's next bytes directly.
Direct(k, e) ==
    /\ k <= op.left
    /\ out' = out \o [i \in 1 .. k |-> taken + i]
    /\ err' = e
    /\ taken' = taken + k
    /\ UNCHANGED <<buf, n>>

--------------------------------------------------------------------------------
(* Write, WriteString and WriteRaw.                                         *)

TooLong == op.left > Available /\ err = "nil"

\* A large Write of an empty buffer goes straight to the underlying writer,
\* which makes progress or fails.
WriteDirect(k, e) ==
    /\ op.name = "write"
    /\ TooLong
    /\ n = 0
    /\ k = 0 => e # "nil"
    /\ Direct(k, e)
    /\ op' = [op EXCEPT !.left = @ - k]
    /\ UNCHANGED ret

\* The buffer is filled up and flushed; WriteString never writes directly.
WriteFill(k, e) ==
    /\ op.name = "string" \/ (op.name = "write" /\ n > 0)
    /\ TooLong
    /\ Flush(Copied(Available), Size, k, e)
    /\ taken' = taken + Available
    /\ op' = [op EXCEPT !.left = @ - Available]
    /\ UNCHANGED ret

WriteFailed ==
    /\ op.name \in {"write", "string"}
    /\ err # "nil"
    /\ Return(op.len - op.left, err)
    /\ UNCHANGED state

\* What is left fits into the buffer.
WriteRest ==
    /\ op.name \in {"write", "string"}
    /\ ~TooLong
    /\ err = "nil"
    /\ buf' = Copied(op.left)
    /\ n' = n + op.left
    /\ taken' = taken + op.left
    /\ Return(op.len, "nil")
    /\ UNCHANGED <<err, out>>

WriteRawFailed ==
    /\ op.name = "raw"
    /\ err # "nil"
    /\ Return(0, err)
    /\ UNCHANGED state

WriteRawDirect(k, e) ==
    /\ op.name = "raw"
    /\ err = "nil"
    /\ n = 0
    /\ Direct(k, e)
    /\ Return(k, e)

\* With something in the buffer WriteRaw is Write.
WriteRawBuffered ==
    /\ op.name = "raw"
    /\ err = "nil"
    /\ n > 0
    /\ op' = [op EXCEPT !.name = "write"]
    /\ UNCHANGED <<state, ret>>

--------------------------------------------------------------------------------
(* Peek, Flush and Reset.                                                   *)

\* Faulty variant: a count beyond the buffer is not refused, and Peek flushes
\* an empty buffer for ever.
PeekBadSpins ==
    /\ op.name = "peek"
    /\ op.len < 0 \/ op.len > Size
    /\ IF op.len < 0 THEN Return(0, "negative") ELSE UNCHANGED <<op, ret>>
    /\ UNCHANGED state

PeekBad ==
    /\ op.name = "peek"
    /\ op.len < 0 \/ op.len > Size
    /\ Return(0, IF op.len < 0 THEN "negative" ELSE "full")
    /\ UNCHANGED state

PeekFlush(k, e) ==
    /\ op.name = "peek"
    /\ op.len \in 0 .. Size
    /\ TooLong
    /\ Flush(buf, n, k, e)
    /\ UNCHANGED <<op, ret, taken>>

\* Peek reserves its bytes, or returns the error.
PeekReserve ==
    /\ op.name = "peek"
    /\ op.len \in 0 .. Size
    /\ ~TooLong
    /\ IF err = "nil"
       THEN /\ buf' = Copied(op.len)
            /\ n' = n + op.len
            /\ taken' = taken + op.len
            /\ Return(op.len, "nil")
       ELSE Return(0, err) /\ UNCHANGED <<buf, n, taken>>
    /\ UNCHANGED <<err, out>>

FlushIdle ==
    /\ op.name = "flush"
    /\ err # "nil" \/ n = 0
    /\ Return(0, err)
    /\ UNCHANGED state

\* Faulty variant: Flush retries after an error.
FlushRetry(k, e) ==
    /\ op.name = "flush"
    /\ n > 0
    /\ Flush(buf, n, k, e)
    /\ Return(0, err')
    /\ UNCHANGED taken

FlushBuffered(k, e) ==
    /\ op.name = "flush"
    /\ err = "nil"
    /\ n > 0
    /\ Flush(buf, n, k, e)
    /\ Return(0, err')
    /\ UNCHANGED taken

\* Reset and ResetBuffer: a new underlying writer, hence a new numbering.
Reset ==
    /\ op = NoOp
    /\ n' = 0
    /\ err' = "nil"
    /\ out' = <<>>
    /\ taken' = 0
    /\ ret' = NoResult
    /\ UNCHANGED <<buf, op>>

--------------------------------------------------------------------------------
WrCall ==
    \/ \E len \in Lengths \cap Nat, name \in {"write", "string", "raw"} : Call(name, len)
    \/ \E len \in Lengths : Call("peek", len)
    \/ Call("flush", 0)

SinkStep(k, e) ==
    WriteDirect(k, e) \/ WriteFill(k, e) \/ WriteRawDirect(k, e)
        \/ PeekFlush(k, e) \/ FlushBuffered(k, e)

WrStep ==
    \/ \E k \in 0 .. MaxBytes, e \in {"nil", "io"} : SinkStep(k, e)
    \/ WriteFailed \/ WriteRest \/ WriteRawFailed \/ WriteRawBuffered
    \/ PeekBad \/ PeekReserve \/ FlushIdle

WrNext == WrCall \/ WrStep \/ Reset

WrSpec == WrInit /\ [][WrNext]_wrVars

\* An operation that was called runs on.
WrFairSpec == WrSpec /\ WF_wrVars(WrStep)

--------------------------------------------------------------------------------
(* Properties.                                                              *)

\* What the underlying writer took, followed by the buffer, is exactly what the
\* caller was told was accepted, in order: over fills, direct writes, short
\* writes and errors no byte is lost, repeated or overtaken.
OutputExact ==
    /\ \A i \in DOMAIN out : out[i] = i
    /\ \A i \in 0 .. n - 1 : buf[i] = Len(out) + 1 + i
    /\ taken = Len(out) + n

\* "If an error occurs writing to a Writer, no more data will be accepted and
\* all subsequent writes will return the error": until Reset the error stays,
\* the underlying writer is not called again and every operation returns it,
\* except a Peek whose count is refused anyway.
StickyError ==
    [][err # "nil" =>
          \/ Reset
          \/ /\ UNCHANGED state
             /\ ret' # NoResult => ret'.err \in {err, "negative", "full"}]_wrVars

\* Every operation returns: a loop turn makes progress or ends in an error.
WriterReturns == op # NoOp ~> op = NoOp

================================================================================
