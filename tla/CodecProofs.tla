------------------------------ MODULE CodecProofs ------------------------------
(***************************************************************************)
(* Safety of Stubs and Codec for any services, methods, topics, values and *)
(* functions of the application: which generated files build, which        *)
(* function a request runs, and what becomes of the values.                *)
(***************************************************************************)
EXTENDS Codec, TLAPS

\* The file the generator makes of the services it was given.
File == Join({genService(s) : s \in Services}
                \cup {Code({}, {Ident("SupportPackageIsVersion1")})})

\* Only services of the file are registered.
StubInv ==
    /\ kind \in [Services \X Methods -> Kinds]
    /\ require \in BOOLEAN
    /\ at \in [Topics -> Services \cup {None}]

\* The exchange: what the message in transit was made from, at each stage.
ExchangeInv ==
    /\ cliCodec \in Names /\ srvCodec \in Names
    /\ stage \in {"call", "request"} => ran = None
    /\ stage # "call" => stub \in Services \X Methods /\ topic \in Topics
    /\ stage = "request" =>
          /\ wire.uri = FullMethodName(stub[1], stub[2])
          /\ wire.type = <<"application", cliCodec>>
          /\ wire.body = Marshal(cliCodec, in)
    /\ stage = "serve" => wire.type = <<"application", cliCodec>>
    /\ stage = "reply" =>
          /\ wire.type[1] = "application"
          /\ wire.body = Marshal(srvCodec, Answer[ran][seen])
    /\ stage # "done" => out = Zero

CodecInv == StubInv /\ UnaryFilesBuild /\ ExchangeInv /\ RightFunction /\ JsonRoundTrip

--------------------------------------------------------------------------------
(* The generator.                                                           *)

LEMMA JoinFacts ==
    ASSUME NEW F
    PROVE  /\ Join(F).decls = UNION {f.decls : f \in F}
           /\ Join(F).refs = UNION {f.refs : f \in F}
BY DEF Join, Code

\* The parts of the file that are made for service s.
Parts(s) ==
    {genFullMethods(s), ClientTypes(s), ServerTypes(s), Registration(s),
     generateUnimplementedServerType(s)}
        \cup {genClientMethod(s, m) : m \in Methods}
        \cup {genServerMethod(s, m) : m \in Methods}

\* What the file declares and refers to is what its parts do.
LEMMA FileFacts ==
    /\ \A s \in Services : \A f \in Parts(s) : f.decls \subseteq File.decls
    /\ \A s \in Services : \A f \in Parts(s) : f.refs \subseteq File.refs
    /\ \A r \in File.refs : \/ \E s \in Services : \E f \in Parts(s) : r \in f.refs
                            \/ r = Ident("SupportPackageIsVersion1")
    /\ \A d \in File.decls : \E s \in Services : \E f \in Parts(s) : d \in f.decls
<1> DEFINE Heading == Code({}, {Ident("SupportPackageIsVersion1")})
           All == {genService(s) : s \in Services} \cup {Heading}
<1>1. Heading.decls = {} /\ Heading.refs = {Ident("SupportPackageIsVersion1")}
  BY DEF Code
<1>2. \A s \in Services : /\ genService(s).decls = UNION {f.decls : f \in Parts(s)}
                          /\ genService(s).refs = UNION {f.refs : f \in Parts(s)}
  BY JoinFacts DEF genService, Parts
<1>3. File.decls = UNION {f.decls : f \in All} /\ File.refs = UNION {f.refs : f \in All}
  BY JoinFacts DEF File
<1> HIDE DEF Heading
<1> QED
  BY <1>1, <1>2, <1>3

\* Everything a unary service refers to, some part of the generator declares or
\* the package server/mqtt has.
LEMMA UnaryParts ==
    ASSUME NEW s \in Services, \A m \in Methods : Unary(s, m), NEW f \in Parts(s), NEW r \in f.refs
    PROVE  r \in Runtime \/ r \in File.decls
<1>0. /\ {genFullMethods(s), ClientTypes(s), ServerTypes(s),
          generateUnimplementedServerType(s)} \subseteq Parts(s)
      /\ \A m \in Methods : genClientMethod(s, m) \in Parts(s) /\ genServerMethod(s, m) \in Parts(s)
  BY DEF Parts
<1>1. \A m \in Methods : Sym("FullMethodName", s, m) \in File.decls
  <2>1. \A m \in Methods : Sym("FullMethodName", s, m) \in genFullMethods(s).decls
    BY DEF genFullMethods, Code
  <2> QED
    BY <1>0, <2>1, FileFacts
<1>2. Sym("clientStruct", s, None) \in File.decls
  <2>1. Sym("clientStruct", s, None) \in ClientTypes(s).decls
    BY DEF ClientTypes, Code
  <2> QED
    BY <1>0, <2>1, FileFacts
<1>3. /\ Sym("ServerInterface", s, None) \in File.decls
      /\ \A m \in Methods : Sym("server.method", s, m) \in File.decls
  <2>1. /\ Sym("ServerInterface", s, None) \in ServerTypes(s).decls
        /\ \A m \in Methods : Sym("server.method", s, m) \in ServerTypes(s).decls
    BY DEF ServerTypes, Code
  <2> QED
    BY <1>0, <2>1, FileFacts
<1>4. \A m \in Methods : Sym("client.method", s, m) \in File.decls
  <2>1. \A m \in Methods : Sym("client.method", s, m) \in genClientMethod(s, m).decls
    BY DEF genClientMethod, Code
  <2> QED
    BY <1>0, <2>1, FileFacts
<1>5. \A m \in Methods : Sym("Handler/1", s, m) \in File.decls
  <2>1. \A m \in Methods : Sym("Handler/1", s, m) \in genServerMethod(s, m).decls
    BY DEF genServerMethod, Code
  <2> QED
    BY <1>0, <2>1, FileFacts
<1>6. \A m \in Methods : Sym("Unimplemented.method", s, m) \in File.decls
  <2>1. \A m \in Methods :
            Sym("Unimplemented.method", s, m) \in generateUnimplementedServerType(s).decls
    BY DEF generateUnimplementedServerType, Code
  <2> QED
    BY <1>0, <2>1, FileFacts
<1>7. require => Sym("Unimplemented.mustEmbed", s, None) \in File.decls
  <2>1. require =>
            Sym("Unimplemented.mustEmbed", s, None) \in generateUnimplementedServerType(s).decls
    BY DEF generateUnimplementedServerType, Code
  <2> QED
    BY <1>0, <2>1, FileFacts
<1>8. \A m \in Methods : clientSignature(s, m) = {Ident("CallOption")} /\ serverSignature(s, m) = {}
  BY DEF clientSignature, serverSignature
<1>9. CASE f = genFullMethods(s)
  BY <1>9 DEF genFullMethods, Code
<1>10. CASE f = ClientTypes(s)
  BY <1>10, <1>4, <1>8 DEF ClientTypes, Code, Runtime
<1>11. CASE f = ServerTypes(s)
  BY <1>11, <1>6, <1>7, <1>8 DEF ServerTypes, Code
<1>12. CASE f = Registration(s)
  BY <1>12, <1>1, <1>3, <1>5 DEF Registration, Code, Runtime
<1>13. CASE f = generateUnimplementedServerType(s)
  BY <1>13, <1>8 DEF generateUnimplementedServerType, Code
<1>14. ASSUME NEW m \in Methods, f = genClientMethod(s, m) PROVE r \in Runtime \/ r \in File.decls
  BY <1>14, <1>1, <1>2, <1>8 DEF genClientMethod, Code, Runtime
<1>15. ASSUME NEW m \in Methods, f = genServerMethod(s, m) PROVE r \in Runtime \/ r \in File.decls
  BY <1>15, <1>3 DEF genServerMethod, Code
<1> QED
  BY <1>9, <1>10, <1>11, <1>12, <1>13, <1>14, <1>15 DEF Parts

\* What the generator declares has a service, so no name of server/mqtt is among
\* it, and a stream stub asks for one that the package does not have.
LEMMA StreamStub ==
    ASSUME NEW s \in Services, NEW m \in Methods, ~Unary(s, m)
    PROVE  Ident("Client.NewStream") \in File.refs \ (File.decls \cup Runtime)
<1> DEFINE new == Ident("Client.NewStream")
<1>1. genClientMethod(s, m) \in Parts(s) /\ new \in genClientMethod(s, m).refs
  BY DEF Parts, genClientMethod, Code
<1>2. new \in File.refs
  BY <1>1, FileFacts
<1>3. \A n, t, k : new # Sym(n, t, k)
  BY DEF Sym, Ident
<1>4. new \notin Runtime
  BY DEF Ident, Runtime
<1>5. ASSUME NEW t \in Services, NEW f \in Parts(t) PROVE new \notin f.decls
  <2> HIDE DEF new
  <2>1. f \in {genFullMethods(t), ClientTypes(t), ServerTypes(t), Registration(t),
               generateUnimplementedServerType(t)} => new \notin f.decls
    BY <1>3 DEF genFullMethods, ClientTypes, ServerTypes, Registration,
                generateUnimplementedServerType, Code
  <2>2. ASSUME NEW k \in Methods, f = genClientMethod(t, k) PROVE new \notin f.decls
    BY <1>3, <2>2 DEF genClientMethod, Code
  <2>3. ASSUME NEW k \in Methods, f = genServerMethod(t, k) PROVE new \notin f.decls
    BY <1>3, <2>3 DEF genServerMethod, Code
  <2> QED
    BY <2>1, <2>2, <2>3 DEF Parts
<1> QED
  BY <1>2, <1>4, <1>5, FileFacts

\* A generated file builds exactly when all its methods are unary.
LEMMA FileBuilds ==
    File.refs \subseteq File.decls \cup Runtime <=>
        \A s \in Services, m \in Methods : Unary(s, m)
<1>1. ASSUME \A s \in Services, m \in Methods : Unary(s, m), NEW r \in File.refs
      PROVE  r \in File.decls \cup Runtime
  <2>1. CASE r = Ident("SupportPackageIsVersion1")
    BY <2>1 DEF Runtime
  <2>2. ASSUME NEW s \in Services, NEW f \in Parts(s), r \in f.refs
        PROVE  r \in File.decls \cup Runtime
    BY <1>1, <2>2, UnaryParts
  <2> QED
    BY <2>1, <2>2, FileFacts
<1>2. ASSUME NEW s \in Services, NEW m \in Methods, ~Unary(s, m)
      PROVE  ~(File.refs \subseteq File.decls \cup Runtime)
  BY <1>2, StreamStub
<1> QED
  BY <1>1, <1>2

LEMMA BuildInductive ==
    ASSUME UnaryFilesBuild, [Next]_vars
    PROVE  UnaryFilesBuild'
<1>1. ASSUME generateFile PROVE UnaryFilesBuild'
  <2>1. gen' = File /\ UNCHANGED kind
    BY <1>1 DEF generateFile, File
  <2>2. (\A s \in Services, m \in Methods : Unary(s, m))'
            <=> \A s \in Services, m \in Methods : Unary(s, m)
    BY <2>1 DEF Unary
  <2> QED
    BY <2>1, <2>2, FileBuilds DEF UnaryFilesBuild, Builds
<1>2. CASE UNCHANGED <<gen, kind>>
  BY <1>2 DEF UnaryFilesBuild, Builds, Unary
<1>3. generateFile \/ UNCHANGED <<gen, kind>>
  BY DEF Next, ExchangeStep, StubNext, Register, Invoke, RequestLost, HandleRequest,
         WriteReply, FunctionFails, HandleReply, vars, stubVars
<1> QED
  BY <1>1, <1>2, <1>3

LEMMA StubInductive ==
    ASSUME StubInv, [Next]_vars
    PROVE  StubInv'
<1>1. ASSUME NEW s \in Services, NEW t \in Topics, Register(s, t) PROVE StubInv'
  BY <1>1 DEF Register, StubInv
<1>2. CASE UNCHANGED <<kind, require, at>>
  BY <1>2 DEF StubInv
<1>3. \/ \E s \in Services, t \in Topics : Register(s, t)
      \/ UNCHANGED <<kind, require, at>>
  BY DEF Next, ExchangeStep, StubNext, generateFile, Invoke, RequestLost, HandleRequest,
         WriteReply, FunctionFails, HandleReply, vars, stubVars
<1> QED
  BY <1>1, <1>2, <1>3

--------------------------------------------------------------------------------
(* The exchange.                                                            *)

\* The path names the service and the method, so a router finds a request's
\* function only if it is its own.
LEMMA RouteFacts ==
    ASSUME NEW s, NEW m \in Methods, NEW t, FullMethodName(s, m) \in DOMAIN Routes(t)
    PROVE  Routes(t)[FullMethodName(s, m)] = <<s, m>>
<1> DEFINE u == FullMethodName(s, m)
<1>1. \A k \in Methods : FullMethodName(t, k) = u => t = s /\ k = m
  BY DEF FullMethodName
<1>2. \E k \in Methods : FullMethodName(t, k) = u
  BY DEF Routes
<1>3. t = s /\ (CHOOSE k \in Methods : FullMethodName(t, k) = u) = m
  BY <1>1, <1>2
<1> HIDE DEF u
<1> QED
  BY <1>2, <1>3 DEF Routes

\* Neither side ever finds the Content-Type it looks for.
LEMMA NeverProto ==
    ASSUME NEW type, type[1] = "application"
    PROVE  PickCodec(type) = "json"
BY DEF PickCodec

\* Bytes are decoded as JSON: they give back the value that was encoded as JSON,
\* and leave the target alone otherwise.
LEMMA DecodeJson ==
    ASSUME NEW codec \in Names, NEW v, NEW target
    PROVE  Unmarshal("json", Marshal(codec, v), target) = IF codec = "json" THEN v ELSE target
BY DEF Unmarshal, Marshal, Names

LEMMA ExchangeInductive ==
    ASSUME StubInv, ExchangeInv, RightFunction, JsonRoundTrip, [Next]_vars
    PROVE  ExchangeInv' /\ RightFunction' /\ JsonRoundTrip'
<1> DEFINE Goal == ExchangeInv' /\ RightFunction' /\ JsonRoundTrip'
<1>1. ASSUME NEW s \in Services, NEW m \in Methods, NEW t \in Topics, NEW v \in Values,
             Invoke(s, m, t, v)
      PROVE  Goal
  <2>1. /\ stage = "call" /\ stage' = "request" /\ stub' = <<s, m>> /\ topic' = t /\ in' = v
        /\ UNCHANGED <<cliCodec, srvCodec, ran, seen, out>>
    BY <1>1 DEF Invoke
  <2>2. /\ wire'.uri = FullMethodName(s, m)
        /\ wire'.type = <<"application", cliCodec>>
        /\ wire'.body = Marshal(cliCodec, v)
    BY <1>1 DEF Invoke
  <2> QED
    BY <2>1, <2>2 DEF ExchangeInv, RightFunction, JsonRoundTrip
<1>2. ASSUME RequestLost \/ FunctionFails PROVE Goal
  BY <1>2 DEF RequestLost, FunctionFails, ExchangeInv, RightFunction, JsonRoundTrip,
              exchange, args
<1>3. ASSUME HandleRequest PROVE Goal
  <2>1. /\ stage = "request" /\ stage' = "serve" /\ UNCHANGED <<exchange, wire, out>>
        /\ wire.uri \in DOMAIN Routes(at[topic])
        /\ ran' = Routes(at[topic])[wire.uri]
        /\ seen' = Unmarshal(PickCodec(wire.type), wire.body, Zero)
    BY <1>3 DEF HandleRequest
  <2>2. ran' = stub
    <3>1. PICK s \in Services, m \in Methods : stub = <<s, m>>
      BY <2>1 DEF ExchangeInv
    <3>2. wire.uri = FullMethodName(s, m)
      BY <2>1, <3>1 DEF ExchangeInv
    <3> QED
      BY <2>1, <3>1, <3>2, RouteFacts
  <2>3. seen' = IF cliCodec = "json" THEN in ELSE Zero
    <3>1. PickCodec(wire.type) = "json" /\ wire.body = Marshal(cliCodec, in) /\ cliCodec \in Names
      BY <2>1, NeverProto DEF ExchangeInv
    <3> QED
      BY <2>1, <3>1, DecodeJson
  <2> QED
    BY <2>1, <2>2, <2>3 DEF ExchangeInv, RightFunction, JsonRoundTrip, exchange, args
<1>4. ASSUME WriteReply PROVE Goal
  <2>1. /\ stage = "serve" /\ stage' = "reply" /\ UNCHANGED <<exchange, ran, seen, out>>
        /\ wire'.type = <<"application", "[]">> \o wire.type
        /\ wire'.body = Marshal(srvCodec, Answer[ran][seen])
    BY <1>4 DEF WriteReply
  <2>2. wire'.type[1] = "application"
    <3> DEFINE Word == {"application", "[]"} \cup Names
    <3>1. wire.type = <<"application", cliCodec>> /\ cliCodec \in Word
      BY <2>1 DEF ExchangeInv
    <3> HIDE DEF Word
    <3>2. "application" \in Word /\ "[]" \in Word
      BY DEF Word
    <3>3. <<"application", cliCodec>> \in Seq(Word) /\ <<"application", "[]">> \in Seq(Word)
      BY <3>1, <3>2
    <3> QED
      BY <2>1, <3>1, <3>3
  <2> QED
    BY <2>1, <2>2 DEF ExchangeInv, RightFunction, JsonRoundTrip, exchange, args
<1>5. ASSUME HandleReply PROVE Goal
  <2>1. stage = "reply" /\ UNCHANGED <<exchange, wire, ran, seen>>
    BY <1>5 DEF HandleReply
  <2>2. \/ stage' = "dropped" /\ UNCHANGED out
        \/ stage' = "done" /\ out' = Unmarshal(PickCodec(wire.type), wire.body, out)
    BY <1>5 DEF HandleReply
  <2>3. stage' = "done" => out' = IF srvCodec = "json" THEN Answer[ran][seen] ELSE Zero
    <3>1. /\ PickCodec(wire.type) = "json" /\ srvCodec \in Names /\ out = Zero
          /\ wire.body = Marshal(srvCodec, Answer[ran][seen])
      BY <2>1, NeverProto DEF ExchangeInv
    <3> QED
      BY <2>2, <3>1, DecodeJson
  <2> QED
    BY <2>1, <2>2, <2>3 DEF ExchangeInv, RightFunction, JsonRoundTrip, exchange, args
<1>6. ASSUME UNCHANGED <<exchange, stage, wire, ran, seen, out>> PROVE Goal
  BY <1>6 DEF ExchangeInv, RightFunction, JsonRoundTrip, exchange, args
<1>7. \/ \E s \in Services, m \in Methods, t \in Topics, v \in Values : Invoke(s, m, t, v)
      \/ RequestLost \/ FunctionFails \/ HandleRequest \/ WriteReply \/ HandleReply
      \/ UNCHANGED <<exchange, stage, wire, ran, seen, out>>
  BY DEF Next, ExchangeStep, vars
<1> HIDE DEF Goal
<1>8. Goal
  BY <1>1, <1>2, <1>3, <1>4, <1>5, <1>6, <1>7
<1> QED
  BY <1>8 DEF Goal

LEMMA CodecInvariant == Spec => []CodecInv
<1>1. Init => CodecInv
  <2> SUFFICES ASSUME Init PROVE CodecInv
    OBVIOUS
  <2>1. StubInv /\ UnaryFilesBuild
    BY DEF Init, StubInit, StubInv, UnaryFilesBuild
  <2>2. ExchangeInv /\ RightFunction /\ JsonRoundTrip
    BY DEF Init, ExchangeInv, RightFunction, JsonRoundTrip
  <2> QED
    BY <2>1, <2>2 DEF CodecInv
<1>2. CodecInv /\ [Next]_vars => CodecInv'
  BY StubInductive, BuildInductive, ExchangeInductive DEF CodecInv
<1> QED
  BY <1>1, <1>2, PTL DEF Spec

\* For any services, methods and kinds of methods, with and without the flag: a
\* generated file builds if and only if all its methods are unary.
THEOREM UnaryFilesBuildAlways == Spec => []UnaryFilesBuild
<1>1. CodecInv => UnaryFilesBuild
  BY DEF CodecInv
<1> QED
  BY <1>1, CodecInvariant, PTL

\* Whatever services are registered on whichever topics, in any order and while a
\* request is under way: it runs the function of its own service and method.
THEOREM RunsTheRightFunction == Spec => []RightFunction
<1>1. CodecInv => RightFunction
  BY DEF CodecInv
<1> QED
  BY <1>1, CodecInvariant, PTL

\* For any values and functions: a JSON value arrives as it was sent, in both
\* directions, and everything else arrives as the zero value.
THEOREM JsonArrives == Spec => []JsonRoundTrip
<1>1. CodecInv => JsonRoundTrip
  BY DEF CodecInv
<1> QED
  BY <1>1, CodecInvariant, PTL

================================================================================
