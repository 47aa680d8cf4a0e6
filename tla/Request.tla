-------------------------------- MODULE Request --------------------------------
(***************************************************************************)
(* ReadRequest, server/mqtt/request.go, over the buffered reader: the      *)
(* request line, the header lines, and the body that the reply and request *)
(* handlers of Rpc decode.  The message is a strings.Reader over the whole *)
(* payload: a read returns all that fits, and EOF only after the last byte.*)
(***************************************************************************)
EXTENDS BufReader, FiniteSets

CONSTANTS
    SP, COLON, NUL,  \* ' ' (or a tab), ':' and the byte 0
    Inputs           \* the messages to parse

ASSUME ReqBytesAssumption == {SP, COLON, NUL} \subseteq Bytes
ASSUME InputsAssumption == Inputs \subseteq [1 .. MaxPos -> Bytes]

VARIABLES
    phase,   \* what ReadRequest is reading, or how it returned
    line,    \* readLine's accumulated fragments
    joined,  \* readLine has appended a fragment (line is not nil)
    uri,     \* Request.RequestURI, as offsets
    header,  \* Request.Header: the key and the value of each line, as offsets
    body     \* Request.Body, as offsets

reqVars == <<phase, line, joined, uri, header, body>>
allReqVars == <<rdVars, reqVars>>

Outcomes == {"ok", "malformed", "eof", "dropped"}

Blank == {SP}

ReqTypeOK ==
    /\ RdTypeOK
    /\ phase \in {"first", "header", "body"} \cup Outcomes
    /\ line \in Seq(1 .. MaxPos)
    /\ joined \in BOOLEAN
    /\ uri \in Seq(1 .. MaxPos)
    /\ header \in Seq(Seq(1 .. MaxPos) \X Seq(1 .. MaxPos))
    /\ body \in Seq(1 .. MaxPos)

ReqInit ==
    /\ stream \in Inputs
    /\ RdInit
    /\ phase = "first"
    /\ line = <<>>
    /\ joined = FALSE
    /\ uri = <<>>
    /\ header = <<>>
    /\ body = <<>>

--------------------------------------------------------------------------------
(* Bytes of a line.                                                         *)

\* strings.Index / bytes.IndexByte: the positions of byte b in s, from p on.
At(s, b, p) == {i \in p .. Len(s) : stream[s[i]] = b}

First(S) == CHOOSE i \in S : \A j \in S : i <= j
Last(S) == CHOOSE i \in S : \A j \in S : j <= i

\* trim: without leading and trailing blanks.
Trim(s) ==
    LET text == {i \in 1 .. Len(s) : stream[s[i]] \notin Blank}
    IN  IF text = {} THEN <<>> ELSE SubSeq(s, First(text), Last(text))

\* The part of s that follows its leading blanks.
SkipBlanks(s) ==
    LET text == {i \in 1 .. Len(s) : stream[s[i]] \notin Blank}
    IN  IF text = {} THEN <<>> ELSE SubSeq(s, First(text), Len(s))

--------------------------------------------------------------------------------
(* The strings.Reader below.                                                *)

Room == Size - Buffered
Rest == MaxPos - pos

StringsRead ==
    /\ \/ Rest > 0 /\ Fill(IF Room < Rest THEN Room ELSE Rest, "nil")
       \/ Rest = 0 /\ Fill(0, "eof")
    /\ UNCHANGED reqVars

--------------------------------------------------------------------------------
(* readLine.                                                                *)

CallReadLine ==
    /\ phase \in {"first", "header"}
    /\ ret = NoResult
    /\ Call("line", 0, NL)
    /\ UNCHANGED reqVars

ReadLineStep == ReadLine /\ UNCHANGED reqVars

\* The result of ReadLine is consumed: the reader is as before the next call.
Consume == ret' = NoResult /\ UNCHANGED <<input, state, op, taken>>

\* A fragment of a line that is longer than the buffer.
LinePrefix ==
    /\ phase \in {"first", "header"}
    /\ ret.name = "line" /\ ret.err = "nil" /\ ret.prefix
    /\ line' = line \o ret.data
    /\ joined' = TRUE
    /\ Consume
    /\ UNCHANGED <<phase, uri, header, body>>

\* Faulty variant: the last fragment is taken for the line.
LastFragment == ret.data

\* The line readLine returns when the last fragment has come.
LineResult == IF joined THEN line \o ret.data ELSE ret.data

HaveLine ==
    /\ ret.name = "line" /\ ret.err = "nil" /\ ~ret.prefix
    /\ line' = <<>>
    /\ joined' = FALSE
    /\ Consume

\* Faulty variant: the end of the input among the headers is not handled.
LineErrorFirst ==
    /\ phase = "first"
    /\ ret.name = "line" /\ ret.err # "nil"
    /\ phase' = "eof"
    /\ line' = <<>>
    /\ joined' = FALSE
    /\ Consume
    /\ UNCHANGED <<uri, header, body>>

\* The input ends: an error for the request line; the end of a message
\* without a body, which is accepted, for the headers.
LineError ==
    /\ phase \in {"first", "header"}
    /\ ret.name = "line" /\ ret.err # "nil"
    /\ phase' = IF phase = "first" THEN "eof" ELSE "ok"
    /\ line' = <<>>
    /\ joined' = FALSE
    /\ Consume
    /\ UNCHANGED <<uri, header, body>>

--------------------------------------------------------------------------------
(* parseRequestLine and readMIMEHeader.                                     *)

RequestLine ==
    /\ phase = "first"
    /\ HaveLine
    /\ LET l == LineResult
           spaces == At(l, SP, 1)
           s1 == First(spaces)
           later == At(l, SP, s1 + 1)
       IN  IF spaces = {} \/ later = {}
           THEN phase' = "malformed" /\ UNCHANGED uri
           ELSE phase' = "header" /\ uri' = SubSeq(l, s1 + 1, First(later) - 1)
    /\ UNCHANGED <<header, body>>

\* A header line "key: value"; the key may not be empty.
HeaderLine ==
    /\ phase = "header"
    /\ HaveLine
    /\ Trim(LineResult) # <<>>
    /\ LET t == Trim(LineResult)
           colons == At(t, COLON, 1)
           i == First(colons)
       IN  IF colons = {} \/ i = 1
           THEN phase' = "malformed" /\ UNCHANGED header
           ELSE /\ header' = Append(header, <<SubSeq(t, 1, i - 1),
                                              SkipBlanks(SubSeq(t, i + 1, Len(t)))>>)
                /\ UNCHANGED phase
    /\ UNCHANGED <<uri, body>>

\* The empty line: the body follows.
BlankLine ==
    /\ phase = "header"
    /\ HaveLine
    /\ Trim(LineResult) = <<>>
    /\ phase' = "body"
    /\ UNCHANGED <<uri, header, body>>

\* r.Body, err = r.reader.ReadSlice(0)
CallReadBody ==
    /\ phase = "body"
    /\ ret = NoResult
    /\ Call("slice", 0, NUL)
    /\ UNCHANGED reqVars

ReadSliceStep == ReadSlice /\ UNCHANGED reqVars

\* Faulty variant: EOF counts as an error.
ReadBodyStrict ==
    /\ phase = "body"
    /\ ret.name = "slice"
    /\ body' = ret.data
    /\ phase' = IF ret.err = "nil" THEN "ok" ELSE "dropped"
    /\ Consume
    /\ UNCHANGED <<line, joined, uri, header>>

\* Any error but EOF makes the handler drop the message.
ReadBody ==
    /\ phase = "body"
    /\ ret.name = "slice"
    /\ body' = ret.data
    /\ phase' = IF ret.err \in {"nil", "eof"} THEN "ok" ELSE "dropped"
    /\ Consume
    /\ UNCHANGED <<line, joined, uri, header>>

--------------------------------------------------------------------------------
ReqNext ==
    \/ CallReadLine \/ ReadLineStep \/ StringsRead
    \/ LinePrefix \/ LineError
    \/ RequestLine \/ HeaderLine \/ BlankLine
    \/ CallReadBody \/ ReadSliceStep \/ ReadBody

ReqSpec == ReqInit /\ [][ReqNext]_allReqVars
ReqFairSpec == ReqSpec /\ WF_allReqVars(ReqNext)

--------------------------------------------------------------------------------
(* Properties.                                                              *)

\* The lines of a message, by the offsets of their line feeds; the last one may
\* be missing.
LineFeeds == {i \in 1 .. MaxPos : stream[i] = NL}
EndOf(i) == LET nl == {j \in LineFeeds : j >= i} IN IF nl = {} THEN MaxPos + 1 ELSE First(nl)
Text(i) == LET e == EndOf(i)
               n == IF e <= MaxPos /\ e > i /\ stream[e - 1] = CR THEN e - i - 1 ELSE e - i
           IN  [k \in 1 .. n |-> i + k - 1]
IsStart(i) == i = 1 \/ i - 1 \in LineFeeds

\* Where the body of the message begins: after the first line, but the first
\* one, that holds nothing but blanks.
BodyStarts ==
    {e + 1 : e \in {EndOf(i) : i \in {j \in 2 .. MaxPos : IsStart(j) /\ Trim(Text(j)) = <<>>}}}

\* The k-th line of the message, without its line end; and what is wrong with it.
LineStarts(k) == {i \in 1 .. MaxPos : IsStart(i) /\ Cardinality({j \in 1 .. i : IsStart(j)}) = k}
BadRequestLine == Cardinality(At(Text(1), SP, 1)) < 2
BadHeader(t) == LET c == At(t, COLON, 1) IN c = {} \/ First(c) = 1

\* The key and the value of the line that begins at i.
HeaderOf(i) ==
    LET t == Trim(Text(i))
        c == First(At(t, COLON, 1))
    IN  <<SubSeq(t, 1, c - 1), SkipBlanks(SubSeq(t, c + 1, Len(t)))>>

\* ReadRequest finds the same lines as a direct reading of the message, however
\* the lines fall into the buffer: the header lines it accepted are the lines
\* of the message in order, the body begins after the first empty line, and the
\* line it calls malformed is malformed in the message.
SameLines ==
    /\ phase \in {"ok", "dropped"} /\ body # <<>> => body[1] = First(BodyStarts)
    /\ \A k \in DOMAIN header : \E i \in LineStarts(k + 1) : header[k] = HeaderOf(i)
    /\ phase = "malformed" =>
          \/ BadRequestLine
          \/ \E i \in LineStarts(Len(header) + 2) : BadHeader(Trim(Text(i)))

\* What a body may be: it is delivered whole up to its first zero byte, and a
\* message is dropped exactly when the first Size bytes of its body hold none
\* and fill the buffer.
BodyLimits ==
    phase \in {"ok", "dropped"} /\ BodyStarts # {} /\ First(BodyStarts) <= MaxPos =>
        LET b == First(BodyStarts)
            nul == {i \in b .. MaxPos : stream[i] = NUL}
            e == IF nul = {} THEN MaxPos ELSE First(nul)
        IN  /\ phase = "dropped" <=> e - b + 1 >= Size /\ (nul = {} \/ e - b >= Size)
            /\ phase = "ok" => body = [k \in 1 .. e - b + 1 |-> b + k - 1]

\* ReadRequest returns on every message.
RequestReturns == <>(phase \in Outcomes)

================================================================================
