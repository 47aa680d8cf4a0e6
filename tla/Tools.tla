--------------------------------- MODULE Tools ---------------------------------
(***************************************************************************)
(* kratos proto add, proto client, proto server and kratos upgrade:        *)
(* cmd/kratos/internal/proto, upgrade and base/install.go, run in one      *)
(* working directory, in any order and from several shells at a time, by a *)
(* user who also edits the files.  proto add and proto server look for a   *)
(* file and then write it: two steps, between which others come.           *)
(***************************************************************************)
EXTENDS Integers, Sequences, FiniteSets, SequencesExt

CONSTANTS
    Shells,     \* where proto add and proto server run
    Protos,     \* proto files, in the order filepath.Walk visits them
    Services,   \* services of the proto files, in their order
    FileOf      \* the file name of a service: its name in lower case

ASSUME ToolsAssumption ==
    /\ Protos \in Seq(ToSet(Protos)) /\ Services \in Seq(ToSet(Services))
    /\ IsInjective(Services) /\ DOMAIN FileOf = ToSet(Services)
    /\ ToSet(Protos) \cap ToSet(Services) = {}
    /\ {"absent", "edited"} \cap (ToSet(Protos) \cup ToSet(Services)) = {}

VARIABLES
    files,      \* "absent", "edited", or the service or template that wrote it
    work,       \* what each shell's command still has to write: [file, by]
    open,       \* it has found the first of these absent and will write it
    plugins,    \* tools "go install" or the user put on the PATH
    code,       \* proto files whose generated code matches them
    given,      \* ghost: plugins the user installed by hand
    late        \* ghost: files last edited after a command had looked for them

fileVars == <<files, work, open, late>>
toolVars == <<fileVars, plugins, code, given>>

\* What proto client looks for, and what upgrade installs, in its order.
Needed == {"go", "go-grpc", "go-http", "go-mqt", "go-errors", "openapi"}
Installed == <<"kratos", "go-http", "go-errors", "go", "go-grpc", "openapi">>

AllFiles == ToSet(Protos) \cup {FileOf[s] : s \in ToSet(Services)}

ToolsInit ==
    /\ files = [f \in AllFiles |-> "absent"]
    /\ work = [p \in Shells |-> <<>>]
    /\ open = [p \in Shells |-> FALSE]
    /\ given \in SUBSET {"go-mqt", "go"}
    /\ plugins = given
    /\ code = {}
    /\ late = {}

\* The kratos on the PATH is the one of this repository.
Ours == "kratos" \notin plugins

--------------------------------------------------------------------------------
(* The user.                                                                *)

Window(p, f) == open[p] /\ Head(work[p]).file = f

\* The user writes or edits a file; generated code is then out of date.
Edit(f) ==
    /\ files' = [files EXCEPT ![f] = "edited"]
    /\ code' = code \ {f}
    /\ late' = IF \E p \in Shells : Window(p, f) THEN late \cup {f} ELSE late \ {f}
    /\ UNCHANGED <<work, open, plugins, given>>

\* The user installs the kratos of this repository again.
Reinstall ==
    /\ ~Ours
    /\ plugins' = plugins \ {"kratos"}
    /\ UNCHANGED <<fileVars, code, given>>

--------------------------------------------------------------------------------
(* proto add and proto server.                                              *)

\* proto add: one template.
ProtoAdd(p, f) ==
    /\ Ours /\ work[p] = <<>>
    /\ work' = [work EXCEPT ![p] = <<[file |-> f, by |-> f]>>]
    /\ UNCHANGED <<files, open, late, plugins, code, given>>

\* Faulty variant: the services are not visited in the order of the file.
ServerWorkReversed ==
    [i \in 1 .. Len(Services) |->
        LET s == Services[Len(Services) + 1 - i] IN [file |-> FileOf[s], by |-> s]]

\* proto server: a file for each service.
ServerWork ==
    [i \in 1 .. Len(Services) |-> [file |-> FileOf[Services[i]], by |-> Services[i]]]

ProtoServer(p) ==
    /\ Ours /\ work[p] = <<>>
    /\ work' = [work EXCEPT ![p] = ServerWork]
    /\ UNCHANGED <<files, open, late, plugins, code, given>>

\* Faulty variant: a file that exists is written again.
LookOver(p) ==
    /\ work[p] # <<>> /\ ~open[p]
    /\ open' = [open EXCEPT ![p] = TRUE]
    /\ UNCHANGED <<files, work, late, plugins, code, given>>

\* os.Stat: a file that exists is passed by; proto add has no other and ends.
Look(p) ==
    /\ work[p] # <<>> /\ ~open[p]
    /\ IF files[Head(work[p]).file] = "absent"
       THEN open' = [open EXCEPT ![p] = TRUE] /\ UNCHANGED work
       ELSE work' = [work EXCEPT ![p] = Tail(@)] /\ UNCHANGED open
    /\ UNCHANGED <<files, late, plugins, code, given>>

\* os.WriteFile, whatever is there by now; when it fails the command ends, and
\* the file may have been replaced.
Write(p) ==
    /\ work[p] # <<>> /\ open[p]
    /\ \/ /\ files' = [files EXCEPT ![Head(work[p]).file] = Head(work[p]).by]
          /\ code' = code \ {Head(work[p]).file}
          /\ work' \in {[work EXCEPT ![p] = Tail(@)], [work EXCEPT ![p] = <<>>]}
       \/ work' = [work EXCEPT ![p] = <<>>] /\ UNCHANGED <<files, code>>
    /\ open' = [open EXCEPT ![p] = FALSE]
    /\ UNCHANGED <<late, plugins, given>>

--------------------------------------------------------------------------------
(* upgrade and proto client.                                                *)

\* Faulty variant: the missing plugin is installed too.
UpgradedAll(n) == plugins \cup Needed

\* upgrade: go install of each tool, up to the first that fails.  The first is
\* the kratos of the upstream repository, which takes the place of this one.
Upgraded(n) == plugins \cup {Installed[i] : i \in 1 .. n}

Upgrade(n) ==
    /\ Ours
    /\ plugins' = Upgraded(n)
    /\ UNCHANGED <<fileVars, code, given>>

\* proto client: a missing plugin makes it run upgrade, which exits with status
\* zero even when it failed.  Then protoc runs for the file that was named, or
\* for each file of a directory, numbers first to last here; a missing plugin or
\* a broken file ends the walk.
ProtoClient(n, first, last) ==
    /\ Ours
    /\ plugins' = IF Needed \subseteq plugins THEN plugins ELSE Upgraded(n)
    /\ LET there == SelectSeq(Protos, LAMBDA f : files[f] # "absent")
           done  == {there[i] : i \in (first .. last) \cap DOMAIN there}
       IN  code' = code \cup (IF Needed \subseteq plugins' THEN done ELSE {})
    /\ UNCHANGED <<fileVars, given>>

ToolsNext ==
    \/ \E f \in AllFiles : Edit(f)
    \/ Reinstall
    \/ \E p \in Shells :
        \/ \E f \in ToSet(Protos) : ProtoAdd(p, f)
        \/ ProtoServer(p) \/ Look(p) \/ Write(p)
    \/ \E n \in 0 .. Len(Installed) : Upgrade(n)
    \/ \E n \in 0 .. Len(Installed), m \in 0 .. Len(Protos) :
           ProtoClient(n, 1, m) \/ ProtoClient(n, m, m)

ToolsSpec == ToolsInit /\ [][ToolsNext]_toolVars

--------------------------------------------------------------------------------

\* An edit is lost only if it was made after a command had looked for the file
\* and found none: what was there before is never replaced, whichever commands
\* run beside each other and whatever they fail at: proto/add/proto.go:36-39,
\* proto/server/server.go:78-90.
EditsSurvive ==
    [][\A f \in AllFiles \ late : files[f] = "edited" => files'[f] = "edited"]_toolVars

\* Services whose names differ only in case share a file.  The first of them has
\* it, however often and from however many shells the command runs; the others
\* are left without an implementation: proto/server/server.go:79-83.
FirstServiceHasFile ==
    \A i, j \in DOMAIN Services :
        i < j /\ FileOf[Services[i]] = FileOf[Services[j]] =>
            files[FileOf[Services[j]]] # Services[j]

\* "update the kratos plugins" does not bring the MQTT plugin: client code is
\* generated only where the user installed protoc-gen-go-mqt by hand, however
\* often the commands run: proto/client/client.go:42-50, upgrade.go:20-32.
ClientNeedsMqt == code # {} => "go-mqt" \in given

================================================================================
