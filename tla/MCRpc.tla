--------------------------------- MODULE MCRpc ---------------------------------
(* Instances of Rpc for TLC: a service this process calls, one it serves    *)
(* (the same one where s2 = s1) and another process that calls the latter.  *)
EXTENDS Rpc, TLC

CONSTANTS c1, c2, r1, p1, s1, s2, MCCalls, MCRouters, MCPeerCalls

MCServices == {s1, s2}
MCTopics == MCServices \X {"req", "resp"}
MCHandlers == MCCalls \cup MCRouters
MCTopic == [h \in MCHandlers |-> IF h \in MCCalls THEN <<s1, "resp">> ELSE <<s2, "req">>]
MCSvc == [h \in MCHandlers \cup MCPeerCalls |-> IF h \in MCCalls THEN s1 ELSE s2]

MCSymmetry == Permutations(MCCalls)

\* A smaller state space for the fair run: a second connection only while this
\* process serves nothing and nobody else has called.  Only steps that no
\* fairness asks for are left out.
MCBound ==
    links > 1 =>
        /\ \A r \in Routers : reg[r] = "idle"
        /\ \A p \in PeerCalls : Request(p) \notin net
MCFairSpec == RpcInit /\ [][RpcNext /\ MCBound']_allVars /\ RpcFairness

================================================================================
