--------------------------------- MODULE Codec ---------------------------------
(***************************************************************************)
(* What one exchange does to the values: Client.Invoke encodes a request,  *)
(* the handler of RegRoute decodes it, runs the registered function and    *)
(* encodes its answer, the reply handler of Client.Send decodes that.      *)
(* Caller and server may be different processes, each with its own         *)
(* WithCodec option.  A function of the application is a mapping of        *)
(* values; Unmarshal errors are ignored on both sides, so that a value     *)
(* that could not be decoded is the zero value its binder allocated.       *)
(* The call is made by a generated stub and served by generated            *)
(* registrations (Stubs), which may go on while it is under way.           *)
(***************************************************************************)
EXTENDS Stubs, Sequences

CONSTANTS
    Values,   \* message values
    Zero,     \* the zero value
    Answer    \* the application's functions, one for each method

ASSUME ValueAssumption ==
    /\ Zero \in Values
    /\ Answer \in [Services \X Methods -> [Values -> Values]]

\* The registered codecs, and "" when the option is absent: GetCodec is nil.
Names == {"json", "proto", ""}

VARIABLES
    cliCodec,  \* srv.codec of the caller
    srvCodec,  \* srv.codec of the server
    stub,      \* the service and method whose stub is called
    in, topic, \* the arguments of the stub
    stage,     \* where the exchange is
    wire,      \* the message in transit
    ran,       \* the service and method whose function was run
    seen,      \* the request it was given
    out        \* the caller's out parameter

args == <<stub, in, topic>>
exchange == <<cliCodec, srvCodec, args>>
vars == <<stubVars, exchange, stage, wire, ran, seen, out>>

\* broker.Marshal: a nil codec means gob.  An all-default proto message is
\* encoded as no bytes at all.  Without a codec []byte and string go out as they
\* are, but a stub passes messages only.
Marshal(codec, v) ==
    [enc |-> IF codec = "" THEN "gob" ELSE codec, val |-> v,
     empty |-> codec = "proto" /\ v = Zero]

\* Unmarshal of bytes of another format fails and leaves the target alone.
Unmarshal(codec, b, target) == IF b.enc = codec THEN b.val ELSE target

\* Faulty variant: proto is what is decoded when nothing matches.
PickCodecProto(type) == IF type = <<"appcation", "json">> THEN "json" ELSE "proto"

\* The codec both handlers pick from the Content-Type header.  They compare it
\* with "appcation/proto"; the sender writes "application/" and its codec.
PickCodec(type) == IF type = <<"appcation", "proto">> THEN "proto" ELSE "json"

NoBytes == [enc |-> "gob", val |-> Zero, empty |-> TRUE]
NoMessage == [type |-> <<>>, uri |-> <<>>, body |-> NoBytes]

Init ==
    /\ StubInit
    /\ cliCodec \in Names
    /\ srvCodec \in Names
    /\ stub = None
    /\ in = Zero
    /\ topic = None
    /\ stage = "call"
    /\ wire = NoMessage
    /\ ran = None
    /\ seen = Zero
    /\ out = Zero

\* The stub calls Invoke: headers and body of the request.
Invoke(s, m, t, v) ==
    /\ stage = "call"
    /\ Builds
    /\ stub' = <<s, m>>
    /\ topic' = t
    /\ in' = v
    /\ wire' = [type |-> <<"application", cliCodec>>, uri |-> FullMethodName(s, m),
                body |-> Marshal(cliCodec, v)]
    /\ stage' = "request"
    /\ UNCHANGED <<stubVars, cliCodec, srvCodec, ran, seen, out>>

\* The topic has no subscriber, or the handler of its router drops the request:
\* no body, or a URI that is not this router's.
RequestLost ==
    /\ stage = "request"
    /\ \/ at[topic] = None
       \/ wire.body.empty
       \/ wire.uri \notin DOMAIN Routes(at[topic])
    /\ stage' = "dropped"
    /\ UNCHANGED <<stubVars, exchange, wire, ran, seen, out>>

\* The handler of RegRoute up to the call of the function bound to the URI.
HandleRequest ==
    /\ stage = "request"
    /\ at[topic] # None
    /\ ~ wire.body.empty
    /\ wire.uri \in DOMAIN Routes(at[topic])
    /\ ran' = Routes(at[topic])[wire.uri]
    /\ seen' = Unmarshal(PickCodec(wire.type), wire.body, Zero)
    /\ stage' = "serve"
    /\ UNCHANGED <<stubVars, exchange, wire, out>>

\* Its answer, or an error of the function, which is not answered.  The header
\* is built from the list of the request's Content-Type values.
WriteReply ==
    /\ stage = "serve"
    /\ wire' = [type |-> <<"application", "[]">> \o wire.type, uri |-> <<"200">>,
                body |-> Marshal(srvCodec, Answer[ran][seen])]
    /\ stage' = "reply"
    /\ UNCHANGED <<stubVars, exchange, ran, seen, out>>

FunctionFails ==
    /\ stage = "serve"
    /\ stage' = "dropped"
    /\ UNCHANGED <<stubVars, exchange, wire, ran, seen, out>>

\* The handler of Send.
HandleReply ==
    /\ stage = "reply"
    /\ IF wire.body.empty
       THEN stage' = "dropped" /\ UNCHANGED out
       ELSE /\ out' = Unmarshal(PickCodec(wire.type), wire.body, out)
            /\ stage' = "done"
    /\ UNCHANGED <<stubVars, exchange, wire, ran, seen>>

ExchangeStep ==
    \/ \E s \in Services, m \in Methods, t \in Topics, v \in Values : Invoke(s, m, t, v)
    \/ RequestLost \/ HandleRequest \/ WriteReply \/ FunctionFails \/ HandleReply

Next ==
    \/ ExchangeStep
    \/ StubNext /\ UNCHANGED <<exchange, stage, wire, ran, seen, out>>

Spec == Init /\ [][Next]_vars

--------------------------------------------------------------------------------
(* Properties.                                                              *)

\* The function is given what the caller sent if the caller encodes JSON, and
\* a call that completes between JSON processes returns the function's answer;
\* whatever else arrives is silently the zero value, never a mixture.
JsonRoundTrip ==
    /\ stage \in {"serve", "reply", "done"} =>
          seen = IF cliCodec = "json" THEN in ELSE Zero
    /\ stage = "done" => out = IF srvCodec = "json" THEN Answer[ran][seen] ELSE Zero

\* The only function a stub's request can run is the one of its own service and
\* method, however the services were registered, replaced each other on a topic
\* or share method names; a request that meets another service's router is
\* lost, never served by a method of the same name.
RightFunction == ran \in {None, stub}

\* "WithCodec set codec, support: json, proto": with the same supported codec on
\* both sides, a call that completes returns the answer to what was sent.
SupportedCodecRoundTrip ==
    stage = "done" /\ cliCodec = srvCodec /\ cliCodec \in {"json", "proto"} =>
        out = Answer[ran][in]

================================================================================
