--------------------------------- MODULE Frames ---------------------------------
(***************************************************************************)
(* Messages in frames: server/mqtt/conn.go.  One goroutine calls           *)
(* ReadMessage again and again; the next frame on the wire is any frame a  *)
(* peer may send, written by another Conn (WriteMessage) or by a foreign   *)
(* implementation that fragments and masks.                                *)
(*                                                                         *)
(* A frame is its header and the length of the body that follows it.  What *)
(* a frame carries is a sequence of segments [id, len, keys]: the frame    *)
(* the bytes came in, how many they are, and the mask keys they are XORed  *)
(* with (XORing twice with one key removes it).  The widths of the code,   *)
(* 2^16 and 2^64, are the constants Word and 2 * Half.                     *)
(***************************************************************************)
EXTENDS Integers, Sequences, FiniteSets

CONSTANTS
    Lengths,   \* payload lengths WriteMessage is called with
    Foreign,   \* payload lengths foreign frames declare
    Keys,      \* mask keys
    MaxRead,   \* continuationFrameMaxRead
    BufSize,   \* size of the reader's buffer
    Word,      \* 2^16
    Half       \* 2^63

ASSUME FramesAssumption ==
    /\ MaxRead \in Nat
    /\ BufSize \in Nat
    /\ Word \in Nat /\ Half \in Nat /\ 127 < Word /\ Word < Half
    /\ Lengths \subseteq 0 .. Half - 1
    /\ Foreign \subseteq 0 .. 2 * Half - 1

VARIABLES
    rd,       \* the running ReadMessage: pc, payload, finOp, n
    ret,      \* what it returned: kind, op, payload
    maskKey,  \* Conn.maskKey
    out,      \* pongs written by this call
    werr,     \* the writer failed; its error is sticky
    hist      \* ghost: the frames this call has read

frameVars == <<rd, ret, maskKey, out, werr, hist>>

Continuation == 0
TextMessage == 1
BinaryMessage == 2
CloseMessage == 8
PingMessage == 9
PongMessage == 10
Unknown == 3    \* any other opcode

DataOps == {Continuation, TextMessage, BinaryMessage}
NoKey == "unmasked"
Junk == 0       \* the id of bytes that are not one frame's body
NoRet == [kind |-> "none", op |-> Continuation, payload |-> <<>>]

--------------------------------------------------------------------------------
(* Headers and bodies.                                                      *)

\* The length field: 7 bits, 126 and 16 bits, or 127 and 64 bits.
LengthField(n) ==
    IF n <= 125 THEN [len7 |-> n, ext |-> 0]
    ELSE IF n < Word THEN [len7 |-> 126, ext |-> n % Word]
    ELSE [len7 |-> 127, ext |-> n % (2 * Half)]

\* WriteHeader and WriteBody: one final, unmasked frame.
Written(op, n) ==
    [fin |-> TRUE, rsv |-> FALSE, op |-> op, key |-> NoKey,
     len |-> LengthField(n), body |-> n]

\* What readFrame makes of the length field: an int64.
PayloadLen(f) ==
    IF f.len.len7 < 126 THEN f.len.len7
    ELSE IF f.len.len7 = 126 THEN f.len.ext
    ELSE IF f.len.ext < Half THEN f.len.ext ELSE f.len.ext - 2 * Half

\* A foreign frame: its body is as long as it declares, when that is possible.
ForeignFrame(fin, op, key, n) ==
    [fin |-> fin, rsv |-> FALSE, op |-> op, key |-> key,
     len |-> LengthField(n), body |-> IF n < Half THEN n ELSE 0]

\* What a Conn writes, and what a foreign peer may send: fragments of data,
\* control frames, frames that are refused.
WrittenFrames ==
    {Written(op, n) : op \in {TextMessage, BinaryMessage, PingMessage}, n \in Lengths}
Fragments ==
    {ForeignFrame(fin, op, key, n) :
        fin \in BOOLEAN, op \in DataOps, key \in Keys \cup {NoKey}, n \in Foreign}
Controls ==
    {ForeignFrame(TRUE, op, key, n) :
        op \in {PingMessage, PongMessage}, key \in Keys \cup {NoKey}, n \in Foreign}
Refused ==
    {ForeignFrame(TRUE, op, NoKey, n) : op \in {CloseMessage, Unknown}, n \in Foreign}
Reserved == {[ForeignFrame(TRUE, TextMessage, NoKey, 0) EXCEPT !.rsv = TRUE]}

Frames == WrittenFrames \cup Fragments \cup Controls \cup Refused \cup Reserved

\* maskBytes: XOR every byte with the key.
MaskBytes(p, k) ==
    [i \in DOMAIN p |->
        [p[i] EXCEPT !.keys = IF k \in @ THEN @ \ {k} ELSE @ \cup {k}]]

\* The bytes of frame number i on the wire, when the reader pops n of them.
Body(f, i, n) ==
    <<[id |-> IF n = f.body THEN i ELSE Junk, len |-> n,
       keys |-> IF f.key = NoKey THEN {} ELSE {f.key}]>>

\* Faulty variant: the key is kept from the first masked frame on.
KeyAfterOnce(f) ==
    IF f.key = NoKey \/ maskKey # NoKey THEN maskKey ELSE f.key

\* copy(c.maskKey, maskKey), for a masked frame.
KeyAfter(f) == IF f.key = NoKey THEN maskKey ELSE f.key

\* The payload readFrame returns; a length that is not positive pops nothing.
PartPayload(f, i) ==
    LET n == PayloadLen(f) IN
        IF n <= 0 THEN <<>>
        ELSE IF f.key = NoKey THEN Body(f, i, n)
        ELSE MaskBytes(Body(f, i, n), KeyAfter(f))

--------------------------------------------------------------------------------
(* ReadMessage.                                                             *)

FrInit ==
    /\ rd = [pc |-> "idle", payload |-> <<>>, finOp |-> 0, n |-> 0]
    /\ ret = NoRet
    /\ maskKey = NoKey
    /\ out = <<>>
    /\ werr = FALSE
    /\ hist = <<>>

ReadMessage ==
    /\ rd.pc = "idle"
    /\ rd' = [pc |-> "read", payload |-> <<>>, finOp |-> 0, n |-> 0]
    /\ ret' = NoRet
    /\ out' = <<>>
    /\ hist' = <<>>
    /\ UNCHANGED <<maskKey, werr>>

Return(kind, op, payload) ==
    /\ rd' = [rd EXCEPT !.pc = "idle"]
    /\ ret' = [kind |-> kind, op |-> op, payload |-> payload]

\* The end of the loop's body for a frame of type op: the bound on frames, n++.
Continue(r, op) ==
    IF r.n > MaxRead
    THEN /\ rd' = [r EXCEPT !.pc = "idle"]
         /\ ret' = [kind |-> "max read", op |-> op, payload |-> r.payload]
    ELSE rd' = [r EXCEPT !.n = @ + 1] /\ UNCHANGED ret

NextFrame(f) ==
    /\ rd.pc = "read"
    /\ hist' = Append(hist, f)

\* ReadByte or Pop fails, before or inside a frame: end of input, or an error.
ReadFrameFails ==
    /\ rd.pc = "read"
    /\ Return("error", Continuation, rd.payload)
    /\ maskKey' \in Keys \cup {maskKey}
    /\ UNCHANGED <<out, werr, hist>>

\* Reserved bits, a body that does not fit the buffer (ErrBufferFull), a close
\* message or an unknown opcode end the call.
RefuseFrame(f) ==
    /\ NextFrame(f)
    /\ \/ f.rsv
       \/ PayloadLen(f) > BufSize
       \/ f.op \in {CloseMessage, Unknown}
    /\ Return(IF f.op = CloseMessage /\ PayloadLen(f) <= BufSize THEN "close" ELSE "error",
              IF f.rsv THEN Continuation ELSE f.op, rd.payload)
    /\ maskKey' = IF f.rsv THEN maskKey ELSE KeyAfter(f)
    /\ UNCHANGED <<out, werr>>

Accepted(f) == ~f.rsv /\ PayloadLen(f) <= BufSize

\* Faulty variant: the type of the last frame is the type of the message.
DataFrameLastOp(f) ==
    /\ Accepted(f)
    /\ f.op \in DataOps
    /\ NextFrame(f)
    /\ LET part == PartPayload(f, Len(hist) + 1)
           all  == rd.payload \o part
       IN  IF f.fin
           THEN Return("data", f.op, all)
           ELSE Continue([rd EXCEPT !.payload = all], f.op)
    /\ maskKey' = KeyAfter(f)
    /\ UNCHANGED <<out, werr>>

\* A binary, text or continuation frame.  A final frame when nothing has been
\* collected is returned as it is, with its own opcode.
DataFrame(f) ==
    /\ Accepted(f)
    /\ f.op \in DataOps
    /\ NextFrame(f)
    /\ LET part  == PartPayload(f, Len(hist) + 1)
           all   == rd.payload \o part
           finOp == IF f.op # Continuation THEN f.op ELSE rd.finOp
       IN  IF f.fin /\ rd.payload = <<>> THEN Return("data", f.op, part)
           ELSE IF f.fin THEN Return("data", finOp, all)
           ELSE Continue([rd EXCEPT !.payload = all, !.finOp = finOp], f.op)
    /\ maskKey' = KeyAfter(f)
    /\ UNCHANGED <<out, werr>>

\* Faulty variant: a control frame does not count towards the bound.
PingFrameFree(f) ==
    /\ Accepted(f)
    /\ f.op = PingMessage
    /\ Len(hist) < 2 * MaxRead + 3
    /\ NextFrame(f)
    /\ out' = Append(out, PartPayload(f, Len(hist) + 1))
    /\ maskKey' = KeyAfter(f)
    /\ UNCHANGED <<rd, ret, werr>>

\* Faulty variant: the pong is empty.
PingFrameEmpty(f) ==
    /\ Accepted(f)
    /\ f.op = PingMessage
    /\ NextFrame(f)
    /\ Continue(rd, f.op)
    /\ out' = Append(out, <<>>)
    /\ maskKey' = KeyAfter(f)
    /\ UNCHANGED werr

\* A ping is answered at once; the call ends when the pong cannot be written.
PingFrame(f) ==
    /\ Accepted(f)
    /\ f.op = PingMessage
    /\ NextFrame(f)
    /\ \/ /\ ~werr
          /\ Continue(rd, f.op)
          /\ out' = Append(out, PartPayload(f, Len(hist) + 1))
          /\ UNCHANGED werr
       \/ /\ werr' = TRUE
          /\ Return("write error", f.op, rd.payload)
          /\ UNCHANGED out
    /\ maskKey' = KeyAfter(f)

PongFrame(f) ==
    /\ Accepted(f)
    /\ f.op = PongMessage
    /\ NextFrame(f)
    /\ Continue(rd, f.op)
    /\ maskKey' = KeyAfter(f)
    /\ UNCHANGED <<out, werr>>

FrNext ==
    \/ ReadMessage
    \/ ReadFrameFails
    \/ \E f \in Frames :
           RefuseFrame(f) \/ DataFrame(f) \/ PingFrame(f) \/ PongFrame(f)

FrSpec == FrInit /\ [][FrNext]_frameVars

--------------------------------------------------------------------------------
(* Properties.                                                              *)

IsData(f) == f.op \in DataOps
IsTyped(f) == IsData(f) /\ f.op # Continuation
IsPing(f) == f.op = PingMessage

\* What the sender put into frame number i of h, as its header declares it.  A
\* length of 2^63 or more is negative for the reader: it takes nothing.
Segment(h, i) == [id |-> i, len |-> h[i].body, keys |-> {}]
Sent(h, i) == IF h[i].body = 0 THEN <<>> ELSE <<Segment(h, i)>>

\* Segments p are what the data frames of h carry: whole, once and in order.
Collects(h, p) ==
    /\ \A k \in DOMAIN p :
        /\ p[k].id \in DOMAIN h /\ IsData(h[p[k].id]) /\ h[p[k].id].body # 0
        /\ p[k] = Segment(h, p[k].id)
        /\ \A j \in 1 .. k - 1 : p[j].id < p[k].id
    /\ \A i \in DOMAIN h : IsData(h[i]) /\ h[i].body # 0 => \E k \in DOMAIN p : p[k].id = i

\* The payload ReadMessage returns is the unmasked bodies of the data frames of
\* this call, whole, once and in order, whatever control frames, empty
\* fragments and key changes came between them, for lengths on both sides of
\* each form of the length field: conn.go:80-110, 142-156, 206-245.
Reassembled == ret.kind = "data" => Collects(hist, ret.payload)

\* The opcode of the last frame of h that is not a continuation, or Continuation.
LastType(h, op) ==
    \/ op = Continuation /\ \A i \in DOMAIN h : ~IsTyped(h[i])
    \/ \E i \in DOMAIN h : /\ IsTyped(h[i]) /\ op = h[i].op
                           /\ \A j \in i + 1 .. Len(h) : ~IsTyped(h[j])

\* The message has the type its sender gave it, in its last frame that is not a
\* continuation.  A final continuation behind fragments that held no data is
\* returned as a message of type 0: conn.go:144.
TypeOfMessage ==
    ret.kind = "data" =>
        IF /\ hist[Len(hist)].op = Continuation
           /\ \A i \in 1 .. Len(hist) - 1 : IsData(hist[i]) => hist[i].body = 0
        THEN ret.op = Continuation
        ELSE LastType(hist, ret.op)

Pings(h) == {i \in DOMAIN h : IsPing(h[i]) /\ h[i].body <= BufSize}

\* Pongs o answer the pings S of h: each is at its ping's place among the pings.
Answers(h, S, o) ==
    /\ Len(o) = Cardinality(S)
    /\ \A i \in S : o[Cardinality({j \in S : j <= i})] = Sent(h, i)

\* Every ping read by a call that did not fail to write was answered, in order
\* and with its own data, and nothing else was: conn.go:157-161.
PongPerPing ==
    Answers(hist, Pings(hist) \ (IF ret.kind = "write error" THEN {Len(hist)} ELSE {}), out)

\* A call reads at most MaxRead + 2 frames, control frames included: no peer can
\* keep it busy for ever: conn.go:172-176.
FrameBudget == Len(hist) <= MaxRead + 2

================================================================================
