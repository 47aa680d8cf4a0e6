------------------------------- MODULE MCKratos -------------------------------
(* The commands of kratos: a behaviour exercises project creation over the   *)
(* cached layout, or the proto tools in one working directory.               *)
EXTENDS Project, Tools

VARIABLE command

MCProtos == <<"a.proto", "b.proto">>
MCServices == <<"Foo", "foo">>
MCFileOf == [s \in {"Foo", "foo"} |-> "foo.go"]

Symmetry == Permutations(Terminals) \cup Permutations(Shells)

\* Each part starts from any of its initial states, with one of the other.
Init ==
    /\ ProjectInit /\ ToolsInit
    /\ \/ command = "new" /\ given = {}
       \/ command = "proto" /\ ref = "branch"

Next ==
    \/ command = "new" /\ ProjectNext /\ UNCHANGED <<toolVars, command>>
    \/ command = "proto" /\ ToolsNext /\ UNCHANGED <<projectVars, command>>

Spec == Init /\ [][Next]_<<projectVars, toolVars, command>>

================================================================================
