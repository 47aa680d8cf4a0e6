------------------------------- MODULE BufReader -------------------------------
(***************************************************************************)
(* The buffered reader, server/mqtt/bufio/bufio.go, over an underlying     *)
(* io.Reader that returns as much as it likes, with or without an error.   *)
(*                                                                         *)
(* A byte is its offset in the input: stream[i] is the value of byte i.    *)
(* The slots of buf hold offsets, so that a byte that is lost, repeated,   *)
(* overwritten or out of order is visible.  An operation is a call, the    *)
(* fills it needs, and a return.                                           *)
(***************************************************************************)
EXTENDS Integers, Sequences

CONSTANTS
    Size,      \* len(b.buf)
    Bytes,     \* byte values
    NL, CR,    \* '\n' and '\r'
    MaxPos,    \* bound: length of the input
    Counts     \* the counts Peek, Pop, Discard and Read are called with

\* NewReaderSize makes buffers of at least minReadBufferSize = 16 bytes; the
\* argument needs no more than room for "\r\n".
ASSUME SizeAssumption == Size \in Nat /\ Size >= 2
ASSUME BytesAssumption == NL \in Bytes /\ CR \in Bytes /\ NL # CR
ASSUME PosAssumption == MaxPos \in Nat
ASSUME CountsAssumption == Counts \subseteq Int

VARIABLES
    stream,  \* the input
    pos,     \* bytes taken from the underlying reader
    buf,     \* the offsets in the buffer; 0: never written
    r, w,    \* read and write positions
    err,     \* the pending error
    op,      \* the operation in progress
    ret,     \* what the last operation returned, until the next call
    taken    \* ghost: bytes handed out or skipped, as the results tell

input == <<stream, pos>>
state == <<buf, r, w, err>>
rdVars == <<input, state, op, ret, taken>>

Slots == 0 .. Size - 1

\* Errors: of the underlying reader, of fill, of the caller.
ReadErrors == {"eof", "noprogress"}
Errors == {"nil", "full", "negative"} \cup ReadErrors

NoOp == [name |-> "none", n |-> 0, rem |-> 0, filled |-> FALSE, delim |-> NL]
NoResult == [name |-> "none", at |-> 0, data |-> <<>>, used |-> 0, err |-> "nil",
             prefix |-> FALSE, n |-> 0, delim |-> NL]
OpNames == {"none", "peek", "pop", "discard", "read", "byte", "slice", "line"}

Buffered == w - r

\* The bytes b.buf[r : r+n], as offsets.
Slice(n) == [i \in 1 .. n |-> buf[r + i - 1]]

ByteAt(i) == stream[buf[i]]

RdTypeOK ==
    /\ stream \in [1 .. MaxPos -> Bytes]
    /\ pos \in 0 .. MaxPos
    /\ buf \in [Slots -> 0 .. MaxPos]
    /\ r \in 0 .. Size
    /\ w \in 0 .. Size
    /\ r <= w
    /\ err \in {"nil"} \cup ReadErrors
    /\ op \in [name : OpNames, n : Int, rem : Int, filled : BOOLEAN, delim : Bytes]
    /\ ret.err \in Errors
    /\ taken \in 0 .. MaxPos

RdInit ==
    /\ stream \in [1 .. MaxPos -> Bytes]
    /\ pos = 0
    /\ buf = [i \in Slots |-> 0]
    /\ r = 0
    /\ w = 0
    /\ err = "nil"
    /\ op = NoOp
    /\ ret = NoResult
    /\ taken = 0

--------------------------------------------------------------------------------
(* Calls and returns.                                                       *)

Call(name, n, d) ==
    /\ op = NoOp
    /\ op' = [name |-> name, n |-> n, rem |-> n, filled |-> FALSE, delim |-> d]
    /\ ret' = NoResult
    /\ UNCHANGED <<input, state, taken>>

\* The operation returns data and an error, having used up used bytes.
Return(data, used, e, more) ==
    /\ op' = NoOp
    /\ ret' = [name |-> op.name, at |-> taken, data |-> data, used |-> used, err |-> e,
               prefix |-> more, n |-> op.n, delim |-> op.delim]
    /\ taken' = taken + used

--------------------------------------------------------------------------------
(* fill.                                                                    *)

\* The loop conditions under which the operations call fill, each with the tests
\* that come before the call: what cannot be met, a pending error, a full buffer.
NeedFill ==
    CASE op.name \in {"peek", "pop"} -> op.n >= 0 /\ op.n <= Size /\ Buffered < op.n /\ err = "nil"
      [] op.name = "discard" -> op.n > 0 /\ Buffered = 0 /\ ~op.filled
      [] op.name = "read" -> op.n > 0 /\ op.n < Size /\ Buffered = 0 /\ err = "nil" /\ ~op.filled
      [] op.name = "byte" -> Buffered = 0 /\ err = "nil"
      [] op.name \in {"slice", "line"} ->
            /\ \A i \in r .. w - 1 : ByteAt(i) # op.delim
            /\ err = "nil"
            /\ Buffered < Size
      [] OTHER -> FALSE

\* Faulty variant: the unread bytes stay where they are.
SlidNot == [i \in Slots |-> buf[i]]

\* The buffer after the unread bytes were moved to its beginning.
Slid == [i \in Slots |-> IF i < Buffered THEN buf[r + i] ELSE buf[i]]

\* Faulty variant: fill gives up after its empty reads without io.ErrNoProgress.
FillQuiet(k, e) ==
    /\ NeedFill
    /\ k <= Size - Buffered
    /\ pos + k <= MaxPos
    /\ e # "noprogress"
    /\ buf' = [i \in Slots |->
                 IF i \in Buffered .. Buffered + k - 1 THEN pos + 1 + i - Buffered ELSE Slid[i]]
    /\ r' = 0
    /\ w' = Buffered + k
    /\ pos' = pos + k
    /\ err' = IF e = "nil" THEN err ELSE e
    /\ op' = [op EXCEPT !.filled = TRUE]
    /\ UNCHANGED <<stream, ret, taken>>

\* The underlying reader returned k bytes and e; "noprogress" stands for
\* maxConsecutiveEmptyReads empty reads.
Fill(k, e) ==
    /\ NeedFill
    /\ k <= Size - Buffered
    /\ pos + k <= MaxPos
    /\ k = 0 => e # "nil"
    /\ e = "noprogress" => k = 0
    /\ buf' = [i \in Slots |->
                 IF i \in Buffered .. Buffered + k - 1 THEN pos + 1 + i - Buffered ELSE Slid[i]]
    /\ r' = 0
    /\ w' = Buffered + k
    /\ pos' = pos + k
    /\ err' = IF e = "nil" THEN err ELSE e
    /\ op' = [op EXCEPT !.filled = TRUE]
    /\ UNCHANGED <<stream, ret, taken>>

--------------------------------------------------------------------------------
(* The operations after their fills.                                        *)

\* Peek and Pop with a count that cannot be met: negative or beyond the buffer.
PeekBad ==
    /\ op.name \in {"peek", "pop"}
    /\ op.n < 0 \/ op.n > Size
    /\ Return(<<>>, 0, IF op.n < 0 THEN "negative" ELSE "full", FALSE)
    /\ UNCHANGED <<input, state>>

\* Faulty variant: Peek advances the reader as Pop does.
PeekAdvance ==
    /\ op.name \in {"peek", "pop"}
    /\ op.n \in 0 .. Buffered
    /\ Return(Slice(op.n), IF op.name = "pop" THEN op.n ELSE 0, "nil", FALSE)
    /\ r' = r + op.n
    /\ UNCHANGED <<input, buf, w, err>>

PeekFull ==
    /\ op.name \in {"peek", "pop"}
    /\ op.n \in 0 .. Buffered
    /\ Return(Slice(op.n), IF op.name = "pop" THEN op.n ELSE 0, "nil", FALSE)
    /\ r' = IF op.name = "pop" THEN r + op.n ELSE r
    /\ UNCHANGED <<input, buf, w, err>>

\* Fewer bytes than asked for: Peek returns them with the error, Pop drops them
\* from its result but does not consume them.
PeekShort ==
    /\ op.name \in {"peek", "pop"}
    /\ op.n \in Buffered + 1 .. Size
    /\ err # "nil"
    /\ Return(IF op.name = "peek" THEN Slice(Buffered) ELSE <<>>, 0, err, FALSE)
    /\ err' = "nil"
    /\ UNCHANGED <<input, buf, r, w>>

DiscardTrivial ==
    /\ op.name = "discard"
    /\ op.n <= 0
    /\ Return(<<>>, 0, IF op.n < 0 THEN "negative" ELSE "nil", FALSE)
    /\ UNCHANGED <<input, state>>

\* One turn of the loop of Discard, after the fill it needed.
DiscardSkip ==
    /\ op.name = "discard"
    /\ op.n > 0
    /\ Buffered > 0 \/ op.filled
    /\ LET skip == IF Buffered > op.rem THEN op.rem ELSE Buffered
           rem  == op.rem - skip
       IN  /\ r' = r + skip
           /\ \/ /\ rem = 0
                 /\ Return(<<>>, op.n, "nil", FALSE)
                 /\ UNCHANGED err
              \/ /\ rem # 0
                 /\ err # "nil"
                 /\ Return(<<>>, op.n - rem, err, FALSE)
                 /\ err' = "nil"
              \/ /\ rem # 0
                 /\ err = "nil"
                 /\ op' = [op EXCEPT !.rem = rem, !.filled = FALSE]
                 /\ UNCHANGED <<err, ret, taken>>
    /\ UNCHANGED <<input, buf, w>>

\* Faulty variant: an empty Read clears the error and returns nil.
ReadNothingQuiet ==
    /\ op.name = "read"
    /\ op.n = 0 \/ (op.n > 0 /\ Buffered = 0 /\ (err # "nil" \/ op.filled))
    /\ Return(<<>>, 0, IF op.n = 0 THEN "nil" ELSE err, FALSE)
    /\ err' = "nil"
    /\ UNCHANGED <<input, buf, r, w>>

\* Read with nothing to copy: an empty destination, a pending error, or a fill
\* that brought nothing.
ReadNothing ==
    /\ op.name = "read"
    /\ op.n = 0 \/ (op.n > 0 /\ Buffered = 0 /\ (err # "nil" \/ op.filled))
    /\ Return(<<>>, 0, err, FALSE)
    /\ err' = "nil"
    /\ UNCHANGED <<input, buf, r, w>>

\* A large Read of an empty buffer goes straight to the underlying reader.
ReadDirect(k, e) ==
    /\ op.name = "read"
    /\ op.n >= Size
    /\ Buffered = 0
    /\ err = "nil"
    /\ k <= op.n
    /\ pos + k <= MaxPos
    /\ e # "noprogress"
    /\ pos' = pos + k
    /\ Return([i \in 1 .. k |-> pos + i], k, e, FALSE)
    /\ UNCHANGED <<stream, state>>

ReadCopy ==
    /\ op.name = "read"
    /\ op.n > 0
    /\ Buffered > 0
    /\ LET n == IF op.n < Buffered THEN op.n ELSE Buffered
       IN  Return(Slice(n), n, "nil", FALSE) /\ r' = r + n
    /\ UNCHANGED <<input, buf, w, err>>

ReadByte ==
    /\ op.name = "byte"
    /\ \/ /\ Buffered > 0
          /\ Return(Slice(1), 1, "nil", FALSE)
          /\ r' = r + 1
          /\ UNCHANGED err
       \/ /\ Buffered = 0
          /\ err # "nil"
          /\ Return(<<>>, 0, err, FALSE)
          /\ err' = "nil"
          /\ UNCHANGED r
    /\ UNCHANGED <<input, buf, w>>

\* bytes.IndexByte: the first delimiter of the window is at slot i.
FirstDelim(i) ==
    /\ i \in r .. w - 1
    /\ ByteAt(i) = op.delim
    /\ \A j \in r .. i - 1 : ByteAt(j) # op.delim

NoDelim == \A i \in r .. w - 1 : ByteAt(i) # op.delim

ReadSlice ==
    /\ op.name = "slice"
    /\ \/ \E i \in Slots :
            /\ FirstDelim(i)
            /\ Return(Slice(i - r + 1), i - r + 1, "nil", FALSE)
            /\ r' = i + 1
            /\ UNCHANGED err
       \/ /\ NoDelim
          /\ err # "nil"
          /\ Return(Slice(Buffered), Buffered, err, FALSE)
          /\ r' = w
          /\ err' = "nil"
       \/ /\ NoDelim
          /\ err = "nil"
          /\ Buffered >= Size
          /\ Return(Slice(Buffered), Buffered, "full", FALSE)
          /\ r' = w
          /\ UNCHANGED err
    /\ UNCHANGED <<input, buf, w>>

\* ReadLine drops the line end, "\n" or "\r\n" ...
LineFound(i) ==
    LET eol == IF i > r /\ ByteAt(i - 1) = CR THEN 2 ELSE 1
    IN  /\ FirstDelim(i)
        /\ Return(Slice(i - r + 1 - eol), i - r + 1, "nil", FALSE)
        /\ r' = i + 1
        /\ UNCHANGED err

\* Faulty variant: a '\r' that ends a full buffer is returned with the line.
LineTooLongKeep ==
    /\ NoDelim
    /\ err = "nil"
    /\ Buffered >= Size
    /\ Return(Slice(Buffered), Buffered, "nil", TRUE)
    /\ r' = w
    /\ UNCHANGED err

\* ... and puts a '\r' that ends a full buffer back for the next call.
LineTooLong ==
    LET back == IF ByteAt(w - 1) = CR THEN 1 ELSE 0
    IN  /\ NoDelim
        /\ err = "nil"
        /\ Buffered >= Size
        /\ Return(Slice(Buffered - back), Buffered - back, "nil", TRUE)
        /\ r' = w - back
        /\ UNCHANGED err

\* The input ended: the error is returned only when there is no data.
LineEnded ==
    /\ NoDelim
    /\ err # "nil"
    /\ Return(Slice(Buffered), Buffered, IF Buffered = 0 THEN err ELSE "nil", FALSE)
    /\ r' = w
    /\ err' = "nil"

ReadLine ==
    /\ op.name = "line"
    /\ (\E i \in Slots : LineFound(i)) \/ LineTooLong \/ LineEnded
    /\ UNCHANGED <<input, buf, w>>

--------------------------------------------------------------------------------
RdCall ==
    \/ \E n \in Counts, name \in {"peek", "pop", "discard"} : Call(name, n, NL)
    \/ \E n \in Counts \cap Nat : Call("read", n, NL)
    \/ Call("byte", 0, NL)
    \/ Call("line", 0, NL)
    \/ \E d \in Bytes : Call("slice", 0, d)

RdStep ==
    \/ \E k \in 0 .. MaxPos, e \in {"nil"} \cup ReadErrors : Fill(k, e) \/ ReadDirect(k, e)
    \/ PeekBad \/ PeekFull \/ PeekShort
    \/ DiscardTrivial \/ DiscardSkip
    \/ ReadNothing \/ ReadCopy
    \/ ReadByte \/ ReadSlice \/ ReadLine

RdNext == RdCall \/ RdStep

RdSpec == RdInit /\ [][RdNext]_rdVars

--------------------------------------------------------------------------------
(* Properties.                                                              *)

\* The window b.buf[r:w] holds the last bytes taken from the underlying reader,
\* in order, and what was taken and is not in it has been handed out or skipped:
\* no sequence of partial reads, slides and put-backs loses or repeats a byte.
WindowExact ==
    /\ \A i \in r .. w - 1 : buf[i] = pos + 1 + i - w
    /\ taken + (op.n - op.rem) = pos - Buffered

\* The bytes an operation returns are the next bytes of the input.
InOrder == \A i \in DOMAIN ret.data : ret.data[i] = ret.at + i

\* "The text returned from ReadLine does not include the line end": no line
\* feed in any fragment, and no carriage return left at the end of a fragment
\* although its line feed follows, even when "\r\n" straddles the buffer.
NoLineEndLeft ==
    ret.name = "line" =>
        LET n == Len(ret.data) IN
        /\ \A i \in 1 .. n : stream[ret.data[i]] # NL
        /\ n > 0 /\ (ret.prefix \/ ret.used > n) /\ ret.at + n < MaxPos
              => ~(stream[ret.data[n]] = CR /\ stream[ret.at + n + 1] = NL)

\* A pending error disappears only by being returned.  Two exceptions: ReadLine
\* keeps quiet about it when it has data to return, and Discard reads on after
\* an error when the buffer is empty, so that a later error replaces the first.
ErrorSurfaces ==
    [][err # "nil" /\ err' # err =>
          \/ ret'.err = err /\ op' = NoOp
          \/ op.name = "line" /\ Len(ret'.data) > 0
          \/ op.name = "discard" /\ op'.filled]_rdVars

\* Every operation returns, however little the underlying reader brings at a
\* time and however often it brings nothing: the loops of Peek, Discard,
\* ReadByte and ReadSlice stop because fill brings a byte or leaves an error,
\* and each of them looks at the error before it fills again: bufio.go:88-120.
OperationReturns == op # NoOp ~> op = NoOp

================================================================================
