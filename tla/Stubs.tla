--------------------------------- MODULE Stubs ---------------------------------
(***************************************************************************)
(* The generator protoc-gen-go-mqt (cmd/protoc-gen-go-mqt/mqt.go) and the  *)
(* registration its output performs (server/mqtt/route.go).                *)
(*                                                                         *)
(* A generated file is what it declares and what it refers to: a symbol is *)
(* a name with the service and, where it has one, the method it is made    *)
(* from.  Distinct services and methods have distinct Go names.  A method  *)
(* of a type is a symbol of its own, so that a struct that must implement  *)
(* an interface refers to the methods the interface lists.  Comments,      *)
(* imports and deprecation marks are left out.                             *)
(***************************************************************************)
EXTENDS Naturals, FiniteSets

CONSTANTS
    Services,   \* the services of one .proto file
    Methods,    \* method names; every service declares all of them
    Uploads,    \* the services whose name contains "Upload"
    Topics,     \* the topic arguments of RegisterXMqtServer
    None

ASSUME StubAssumption ==
    /\ Uploads \subseteq Services
    /\ None \notin Services

Kinds == {"unary", "client", "server", "bidi"}

VARIABLES
    kind,     \* the kind of each method of the file
    require,  \* the flag require_unimplemented_servers
    gen,      \* the generated file, or None
    at        \* the service whose router handles a topic's requests, if any

stubVars == <<kind, require, gen, at>>

--------------------------------------------------------------------------------
(* The generator.                                                           *)

\* A name made from a service and a method, a name of package server/mqtt, and
\* the names that package has.
Sym(name, s, m) == <<name, s, m>>
Ident(name) == <<"mqtt", name>>
Runtime ==
    {Ident("SupportPackageIsVersion1"), Ident("CallOption"), Ident("Client"),
     Ident("Client.Invoke"), Ident("Server"), Ident("Server.Route"), Ident("REQ"),
     Ident("Router.Route"), Ident("Router.RouteUpload")}

Code(decls, refs) == [decls |-> decls, refs |-> refs]
Join(files) == Code(UNION {f.decls : f \in files}, UNION {f.refs : f \in files})

Unary(s, m) == kind[<<s, m>>] = "unary"

\* The methods of a stream type: the client and the server side of each kind.
ClientStreamOps(s, m) ==
    (IF kind[<<s, m>>] \in {"client", "bidi"} THEN {"Send"} ELSE {})
        \cup {IF kind[<<s, m>>] = "client" THEN "CloseAndRecv" ELSE "Recv"}
ServerStreamOps(s, m) ==
    (IF kind[<<s, m>>] \in {"client", "bidi"} THEN {"Recv"} ELSE {})
        \cup {IF kind[<<s, m>>] = "client" THEN "SendAndClose" ELSE "Send"}

genFullMethods(s) == Code({Sym("FullMethodName", s, m) : m \in Methods}, {})

\* A stream stub returns an interface that is generated with it.
clientSignature(s, m) ==
    {Ident("CallOption")} \cup IF Unary(s, m) THEN {} ELSE {Sym("ClientStreamType", s, m)}

serverSignature(s, m) ==
    IF Unary(s, m) THEN {} ELSE {Sym("ServerStreamType", s, m)}

\* The stub: a unary one calls Invoke; a stream one asks for what gRPC has.
genClientMethod(s, m) ==
    Code({Sym("client.method", s, m)}
            \cup (IF Unary(s, m) THEN {}
                  ELSE {Sym("ClientStreamType", s, m), Sym("clientStream", s, m)}
                          \cup {Sym(op, s, m) : op \in ClientStreamOps(s, m)}),
         {Sym("clientStruct", s, None), Sym("FullMethodName", s, m)}
            \cup clientSignature(s, m)
            \cup (IF Unary(s, m) THEN {Ident("Client.Invoke")}
                  ELSE {Ident("Client.NewStream"), Ident("ClientStream"), Sym("ServiceDesc", s, None)}))

\* The function registered for a method.  The stream form takes the stream as
\* a second argument.
genServerMethod(s, m) ==
    IF Unary(s, m)
    THEN Code({Sym("Handler/1", s, m)}, {Sym("server.method", s, m)})
    ELSE Code({Sym("Handler/2", s, m), Sym("ServerStreamType", s, m),
               Sym("serverStream", s, m)}
                 \cup {Sym(op, s, m) : op \in ServerStreamOps(s, m)},
              {Sym("server.method", s, m), Ident("ServerStream")})

\* Faulty variant: the marker method is left out.
generateUnimplementedServerTypeBare(s) ==
    Code({Sym("Unimplemented", s, None)}
            \cup {Sym("Unimplemented.method", s, m) : m \in Methods},
         UNION {serverSignature(s, m) : m \in Methods})

generateUnimplementedServerType(s) ==
    Code({Sym("Unimplemented", s, None)}
            \cup {Sym("Unimplemented.method", s, m) : m \in Methods}
            \cup (IF require THEN {Sym("Unimplemented.mustEmbed", s, None)} ELSE {}),
         UNION {serverSignature(s, m) : m \in Methods})

\* The client interface, struct and constructor, which needs the struct to have
\* every method of the interface.
ClientTypes(s) ==
    Code({Sym("ClientInterface", s, None), Sym("clientStruct", s, None),
          Sym("NewClient", s, None)},
         {Ident("Client")} \cup {Sym("client.method", s, m) : m \in Methods}
            \cup UNION {clientSignature(s, m) : m \in Methods})

\* The server interface.  An implementation embeds Unimplemented, which must
\* therefore have every method of the interface.
ServerTypes(s) ==
    Code({Sym("ServerInterface", s, None), Sym("UnsafeServer", s, None)}
            \cup {Sym("server.method", s, m) : m \in Methods},
         {Sym("Unimplemented.method", s, m) : m \in Methods}
            \cup (IF require THEN {Sym("Unimplemented.mustEmbed", s, None)} ELSE {})
            \cup UNION {serverSignature(s, m) : m \in Methods})

\* RegisterXMqtServer applies every handler to srv alone.
Registration(s) ==
    Code({Sym("Register", s, None)},
         {Ident("Server"), Ident("Server.Route"), Ident("REQ"), Sym("ServerInterface", s, None)}
            \cup {IF s \in Uploads THEN Ident("Router.RouteUpload") ELSE Ident("Router.Route")}
            \cup {Sym("FullMethodName", s, m) : m \in Methods}
            \cup {Sym("Handler/1", s, m) : m \in Methods})

genService(s) ==
    Join({genFullMethods(s), ClientTypes(s), ServerTypes(s), Registration(s),
          generateUnimplementedServerType(s)}
            \cup {genClientMethod(s, m) : m \in Methods}
            \cup {genServerMethod(s, m) : m \in Methods})

\* The whole file; a file without services is not generated.
generateFile ==
    /\ gen = None
    /\ Services # {}
    /\ gen' = Join({genService(s) : s \in Services}
                      \cup {Code({}, {Ident("SupportPackageIsVersion1")})})
    /\ UNCHANGED <<kind, require, at>>

\* The Go compiler accepts the file.
Builds == gen # None /\ gen.refs \subseteq gen.decls \cup Runtime

--------------------------------------------------------------------------------
(* What the generated code does when it runs.                               *)

\* Faulty variant: the service is not part of the path.
FullMethodNameShort(s, m) == <<"/", m>>

\* "/<full service name>/<method>", which client and server share.
FullMethodName(s, m) == <<"/", s, m>>

\* The router of one service: each URI's bound function.  Every registration
\* makes a router of its own.
Routes(s) == [u \in {FullMethodName(s, m) : m \in Methods} |->
                <<s, CHOOSE m \in Methods : FullMethodName(s, m) = u>>]

StubInit ==
    /\ kind \in [Services \X Methods -> Kinds]
    /\ require \in BOOLEAN
    /\ gen = None
    /\ at = [t \in Topics |-> None]

\* RegisterXMqtServer: the subscriber of a topic replaces the previous one.
\* RouteUpload does nothing.
Register(s, t) ==
    /\ Builds
    /\ at' = IF s \in Uploads THEN at ELSE [at EXCEPT ![t] = s]
    /\ UNCHANGED <<kind, require, gen>>

StubNext == generateFile \/ \E s \in Services, t \in Topics : Register(s, t)

--------------------------------------------------------------------------------
(* Properties.                                                              *)

\* The generated file builds against this runtime exactly when all its methods
\* are unary, with and without require_unimplemented_servers: every constant,
\* type, method and function a stub, a handler or the registration uses is one
\* that some part of the generator emitted.  A single streaming method makes
\* the file refer to NewStream, ClientStream or a ServiceDesc nobody declares.
UnaryFilesBuild ==
    gen # None =>
        (Builds <=> \A s \in Services, m \in Methods : Unary(s, m))

================================================================================
