-------------------------------- MODULE Chunked --------------------------------
(***************************************************************************)
(* The chunked encoding: server/mqtt/internal/chunked.go.  A chunkedWriter *)
(* (or a foreign sender, which may pad a size with zeros, add an extension *)
(* or send an empty size line) writes to a connection, a chunkedReader     *)
(* reads from it through a bufio.Reader, and the connection may break at   *)
(* any byte.                                                               *)
(*                                                                         *)
(* A byte is a record: a hexadecimal digit, a data byte with its number, CR*)
(* LF, or a byte of an extension.  A size has at most Digits digits of     *)
(* base Base, 16 and 16 in the code, and fits the width Wide, 2^64.        *)
(***************************************************************************)
EXTENDS Integers, Sequences, FiniteSetsExt

CONSTANTS
    Base, Digits,  \* a size has at most Digits digits of base Base
    Wide,          \* 2^64, the width of a size
    BufCap,        \* size of the bufio.Reader, and maxLineLength
    MaxData,       \* bound: data bytes written
    MaxRoom,       \* bound: size of the slice given to Read
    ForeignSizes   \* digits of a foreign size line, and what follows them

\* A byte: what it is, and its value or number.
Octets == [t : {"digit", "cr", "lf", "semi", "data"}, v : Nat]

ASSUME ChunkedAssumption ==
    /\ Base \in Nat \ {0, 1} /\ Digits \in Nat \ {0}
    /\ Wide \in Nat \ {0}
    /\ BufCap \in Nat /\ BufCap > Digits + 3
    /\ MaxData \in Nat /\ MaxRoom \in Nat
    /\ ForeignSizes \subseteq Seq(0 .. Base - 1) \X Seq(Octets)

VARIABLES
    wire,   \* bytes under way
    broken, \* the connection has ended
    cw,     \* the writer's current chunk: data bytes still to write, or its step
    put,    \* ghost: data bytes handed to the writer
    ended,  \* ghost: the final chunk, or an empty size line, was written whole
    buf,    \* bytes in the bufio.Reader
    cr,     \* chunkedReader: n, err, checkEnd
    rcall,  \* the running Read: pc, room left in b, n
    got     \* ghost: data bytes returned or about to be

chunkVars == <<wire, broken, cw, put, ended, buf, cr, rcall, got>>

Digit(d) == [t |-> "digit", v |-> d]
CR == [t |-> "cr", v |-> 0]
LF == [t |-> "lf", v |-> 0]
Semi == [t |-> "semi", v |-> 0]
Data(i) == [t |-> "data", v |-> i]
CRLF == <<CR, LF>>

--------------------------------------------------------------------------------
(* chunkedWriter.                                                           *)

\* The value of a sequence of digits.
Value(ds) ==
    LET v[i \in 0 .. Len(ds)] == IF i = 0 THEN 0 ELSE v[i - 1] * Base + ds[i]
    IN  v[Len(ds)]

\* Base to the power Digits, the first number of Digits + 1 digits: a one and zeros.
ASSUME WidthAssumption == Wide = Value([i \in 1 .. Digits + 1 |-> IF i = 1 THEN 1 ELSE 0])

\* A line ends with its first line feed, and its digits with the first byte that is none.
ASSUME ForeignAssumption ==
    \A line \in ForeignSizes :
        /\ \A i \in DOMAIN line[2] : line[2][i] # LF
        /\ line[2] # <<>> => line[2][1].t # "digit"

\* "%x" of a positive length: its shortest sequence of digits.
Hex == {ds \in UNION {[1 .. l -> 0 .. Base - 1] : l \in 1 .. Digits} : ds[1] # 0}

ChInit ==
    /\ wire = <<>> /\ broken = FALSE
    /\ cw = [step |-> "idle", left |-> 0]
    /\ put = 0 /\ ended = FALSE
    /\ buf = <<>>
    /\ cr = [n |-> 0, err |-> "nil", checkEnd |-> FALSE]
    /\ rcall = [pc |-> "idle", room |-> 0, n |-> 0]
    /\ got = <<>>

\* The connection takes all of the bytes, or breaks after some of them.  A
\* writer that got an error or wrote too little stops.
Emit(bytes) ==
    \/ wire' = wire \o bytes /\ UNCHANGED broken
    \/ /\ broken' = TRUE
       /\ \E k \in 0 .. Len(bytes) - 1 : wire' = wire \o SubSeq(bytes, 1, k)

AsDigits(ds) == [i \in DOMAIN ds |-> Digit(ds[i])]

\* Write: a chunk is a size line, the data and a CRLF.  No data, no chunk.
WriteSize(ds, ext) ==
    /\ ~broken /\ ~ended
    /\ cw.step = "idle"
    /\ Value(ds) \in 1 .. MaxData - put
    /\ Emit(AsDigits(ds) \o ext \o CRLF)
    /\ cw' = [step |-> "data", left |-> Value(ds)]
    /\ put' = put + Value(ds)
    /\ UNCHANGED <<ended, buf, cr, rcall, got>>

WriteData ==
    /\ ~broken
    /\ cw.step = "data"
    /\ Emit([i \in 1 .. cw.left |-> Data(put - cw.left + i)])
    /\ cw' = [step |-> "footer", left |-> 0]
    /\ UNCHANGED <<put, ended, buf, cr, rcall, got>>

WriteFooter ==
    /\ ~broken
    /\ cw.step = "footer"
    /\ Emit(CRLF)
    /\ cw' = [step |-> "idle", left |-> 0]
    /\ UNCHANGED <<put, ended, buf, cr, rcall, got>>

\* Close: the final chunk; the last CRLF is the caller's business.
WriteEnd(ds) ==
    /\ ~broken /\ ~ended
    /\ cw.step = "idle"
    /\ Emit(AsDigits(ds) \o CRLF)
    /\ ended' = ~broken'
    /\ UNCHANGED <<cw, put, buf, cr, rcall, got>>

Hangup ==
    /\ ~broken
    /\ broken' = TRUE
    /\ UNCHANGED <<wire, cw, put, ended, buf, cr, rcall, got>>

--------------------------------------------------------------------------------
(* chunkedReader.                                                           *)

AllDigits(bs) == \A i \in DOMAIN bs : bs[i].t = "digit"
ValueOf(bs) == Value([i \in DOMAIN bs |-> bs[i].v])

\* parseHexUint; no digits at all are a zero, and so is the size with an error.
ParseHexUint(bs) ==
    LET ok == AllDigits(bs) /\ Len(bs) <= Digits
    IN  [ok |-> ok, n |-> IF ok THEN ValueOf(bs) % Wide ELSE 0]

HasLine(b) == \E i \in DOMAIN b : b[i] = LF
LineEnd(b) == Min({i \in DOMAIN b : b[i] = LF})

\* readChunkLine: the line without its trailing CRLF, up to the first semicolon.
TrimTrailingWhitespace(line) ==
    SubSeq(line, 1, Max({0} \cup {i \in DOMAIN line : line[i] \notin {CR, LF}}))

RemoveChunkExtension(p) ==
    LET semis == {i \in DOMAIN p : p[i] = Semi}
    IN  IF semis = {} THEN p ELSE SubSeq(p, 1, Min(semis) - 1)

SizeOf(line) == RemoveChunkExtension(TrimTrailingWhitespace(line))

Read(room) ==
    /\ rcall.pc = "idle"
    /\ rcall' = [pc |-> "loop", room |-> room, n |-> 0]
    /\ UNCHANGED <<wire, broken, cw, put, ended, buf, cr, got>>

\* Faulty variant: the footer is awaited whatever has been read.
EarlyEager ==
    \/ cr.err # "nil"
    \/ ~cr.checkEnd /\ cr.n = 0 /\ rcall.n > 0 /\ ~HasLine(buf)
    \/ ~cr.checkEnd /\ cr.n > 0 /\ rcall.room = 0

\* The loop ends: an error, or data in hand and no footer, no header or no room.
Early ==
    \/ cr.err # "nil"
    \/ cr.checkEnd /\ rcall.n > 0 /\ Len(buf) < 2
    \/ ~cr.checkEnd /\ cr.n = 0 /\ rcall.n > 0 /\ ~HasLine(buf)
    \/ ~cr.checkEnd /\ cr.n > 0 /\ rcall.room = 0

ReadReturn ==
    /\ rcall.pc = "loop"
    /\ Early
    /\ rcall' = [rcall EXCEPT !.pc = "idle"]
    /\ UNCHANGED <<wire, broken, cw, put, ended, buf, cr, got>>

ReadLoop ==
    /\ rcall.pc = "loop"
    /\ ~Early
    /\ rcall' = [rcall EXCEPT !.pc =
            IF cr.checkEnd THEN "footer" ELSE IF cr.n = 0 THEN "line" ELSE "data"]
    /\ UNCHANGED <<wire, broken, cw, put, ended, buf, cr, got>>

\* The bufio.Reader has what the current step needs.
Ready ==
    \/ rcall.pc = "footer" /\ Len(buf) >= 2
    \/ rcall.pc = "line" /\ (HasLine(buf) \/ Len(buf) = BufCap)
    \/ rcall.pc = "data" /\ buf # <<>>

Waiting == rcall.pc \in {"footer", "line", "data"} /\ ~Ready

\* The reader below delivers some bytes of what has arrived ...
FillBuffer ==
    /\ Waiting
    /\ \E k \in 1 .. Len(wire) :
        /\ k <= BufCap - Len(buf)
        /\ buf' = buf \o SubSeq(wire, 1, k)
        /\ wire' = SubSeq(wire, k + 1, Len(wire))
    /\ UNCHANGED <<broken, cw, put, ended, cr, rcall, got>>

\* Faulty variant: io.EOF is passed on as it is.
EndOfInputPlain ==
    /\ Waiting /\ wire = <<>> /\ broken
    /\ cr' = [cr EXCEPT !.err = "EOF"]
    /\ rcall' = [rcall EXCEPT !.pc = "loop"]
    /\ UNCHANGED <<wire, broken, cw, put, ended, buf, got>>

\* ... or reports the end of the connection: io.ErrUnexpectedEOF.
EndOfInput ==
    /\ Waiting /\ wire = <<>> /\ broken
    /\ cr' = [cr EXCEPT !.err = "unexpected EOF"]
    /\ rcall' = [rcall EXCEPT !.pc = "loop"]
    /\ UNCHANGED <<wire, broken, cw, put, ended, buf, got>>

\* beginChunk.
BeginChunk ==
    /\ rcall.pc = "line" /\ Ready
    /\ rcall' = [rcall EXCEPT !.pc = "loop"]
    /\ IF ~HasLine(buf) \/ LineEnd(buf) >= BufCap
       THEN cr' = [cr EXCEPT !.err = "line too long"]
       ELSE LET size == ParseHexUint(SizeOf(SubSeq(buf, 1, LineEnd(buf))))
            IN  cr' = [cr EXCEPT !.n = size.n,
                         !.err = IF ~size.ok THEN "malformed"
                                 ELSE IF size.n = 0 THEN "EOF" ELSE "nil"]
    /\ buf' = IF HasLine(buf) THEN SubSeq(buf, LineEnd(buf) + 1, Len(buf)) ELSE <<>>
    /\ UNCHANGED <<wire, broken, cw, put, ended, got>>

CheckFooter ==
    /\ rcall.pc = "footer" /\ Ready
    /\ cr' = IF SubSeq(buf, 1, 2) = CRLF THEN [cr EXCEPT !.checkEnd = FALSE]
             ELSE [cr EXCEPT !.err = "malformed"]
    /\ buf' = SubSeq(buf, 3, Len(buf))
    /\ rcall' = [rcall EXCEPT !.pc = "loop"]
    /\ UNCHANGED <<wire, broken, cw, put, ended, got>>

\* Copy what is buffered, at most to the end of the chunk and of b.
ReadData ==
    /\ rcall.pc = "data" /\ Ready
    /\ LET k == Min({Len(buf), rcall.room, cr.n})
       IN  /\ got' = got \o SubSeq(buf, 1, k)
           /\ buf' = SubSeq(buf, k + 1, Len(buf))
           /\ cr' = [cr EXCEPT !.n = @ - k, !.checkEnd = (cr.n = k)]
           /\ rcall' = [pc |-> "loop", room |-> rcall.room - k, n |-> rcall.n + k]
    /\ UNCHANGED <<wire, broken, cw, put, ended>>

\* The size lines of chunkedWriter and of foreign senders.
SizeLines == (Hex \X {<<>>}) \cup ForeignSizes

ChNext ==
    \/ \E line \in SizeLines : WriteSize(line[1], line[2])
    \/ WriteData \/ WriteFooter \/ Hangup
    \/ \E ds \in {<<0>>, <<0, 0>>, <<>>} : WriteEnd(ds)
    \/ \E room \in 0 .. MaxRoom : Read(room)
    \/ ReadReturn \/ ReadLoop
    \/ FillBuffer \/ EndOfInput
    \/ BeginChunk \/ CheckFooter \/ ReadData

ChSpec == ChInit /\ [][ChNext]_chunkVars

--------------------------------------------------------------------------------
(* Properties.                                                              *)

\* The reader returns the data bytes in order, none twice, and io.EOF only when
\* it has returned all of them and the sender ended the stream: a connection
\* that breaks anywhere, or a size too large for 64 bits, is an error, never a
\* shorter stream or a wrapped size: chunked.go:45-59, 84-89, 101-121, 128-149, 243-262.
StreamExact ==
    /\ \A i \in DOMAIN got : got[i] = Data(i)
    /\ Len(got) <= put
    /\ cr.err = "EOF" => ended /\ Len(got) = put

\* "We have some data. Return early ... instead of potentially blocking": a Read
\* that has data in hand never waits for a footer or for a size line, so the
\* last bytes of a chunk reach the caller before the next chunk is begun.  In
\* the middle of a chunk it does wait: chunked.go:73-78, 93-97.
PromptRead == Waiting /\ rcall.n > 0 => rcall.pc = "data"

================================================================================
