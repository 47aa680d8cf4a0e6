------------------------------- MODULE RpcProofs -------------------------------
(***************************************************************************)
(* Safety of Rpc for any calls, routers, other processes and number of     *)
(* connections, and its refinement of CallService.                         *)
(***************************************************************************)
EXTENDS Rpc, TransportProofs, FiniteSetTheorems

\* Handler goroutines are told apart, each runs for a message that was published
\* on the topic of its handler, and only reply handlers signal.
GorInv ==
    /\ IsFiniteSet(gor)
    /\ \A g, k \in gor : g.m = k.m /\ g.n = k.n => g = k
    /\ \A g \in gor :
        /\ Topic[g.h] = TopicOf(g.m)
        /\ g.m \in net
        /\ reg[g.h] # "idle"
        /\ g.pc = "signal" => g.h \in Calls

\* What the broker holds for this session was published and has a callback.
\* Nobody answers a request that was not published.
NetInv ==
    /\ \A m \in inbox : m \in net /\ route[TopicOf(m)] # None
    /\ \A c \in AllCalls, s \in {"us", "peer"} :
            Reply(c, s) \in outbox \cup sent \cup net => Request(c) \in net

\* How far a call is, against its registration and its request.
CallInv ==
    \A c \in Calls :
        /\ call[c] = "idle" => reg[c] = "idle"
        /\ call[c] = "wait" => reg[c] = "done"
        /\ call[c] \in {"idle", "busy"} => Request(c) \notin outbox \cup sent \cup net

\* Accepted replies and what they left behind.
SignalInv ==
    /\ SignalConservation
    /\ \A c \in Calls : signals[c] > 0 => reg[c] # "idle"

RpcInv == RpcTypeOK /\ DispatchInv /\ GorInv /\ NetInv /\ CallInv /\ SignalInv

\* One copy of a request: it is in the outbox, at the broker, in one goroutine,
\* or answered.
OneCopy(c) ==
    /\ Request(c) \in inbox => \A g \in gor : g.m # Request(c)
    /\ \A g, k \in gor : g.m = Request(c) /\ k.m = Request(c) => g = k
    /\ Reply(c, "us") \in outbox \cup sent \cup net =>
            Request(c) \notin inbox /\ \A g \in gor : g.m # Request(c)

SentOnce(c) == Request(c) \in outbox => Request(c) \notin net

\* Before the first reconnection a request is sent once and has one copy.
OnceInv ==
    /\ IsConnected => links > 0
    /\ \A q \in PeerCalls : Request(q) \notin outbox \cup sent
    /\ links <= 1 /\ link = "up" => \A c \in AllCalls : SentOnce(c)
    /\ links <= 1 => \A c \in AllCalls : OneCopy(c)

--------------------------------------------------------------------------------
(* Messages.                                                                *)

LEMMA RequestFacts ==
    ASSUME NEW c \in AllCalls
    PROVE  Request(c) \in Message /\ Request(c).kind = "req" /\ Request(c).id = c
BY DEF Request, Message

LEMMA ReplyFacts ==
    ASSUME NEW c \in AllCalls, NEW s \in {"us", "peer"}
    PROVE  Reply(c, s) \in Message /\ Reply(c, s).kind = "resp" /\ Reply(c, s).id = c
BY DEF Reply, Message

\* A message is a request or a reply, and has a topic.
LEMMA MessageFacts ==
    ASSUME NEW m \in Message
    PROVE  /\ m.id \in AllCalls
           /\ TopicOf(m) \in Topics
           /\ TopicOf(m) = <<Svc[m.id], m.kind>>
           /\ m.kind \in {"req", "resp"}
           /\ m.kind = "req" => m = Request(m.id)
           /\ m.kind = "resp" => \E s \in {"us", "peer"} : m = Reply(m.id, s)
<1>1. \/ \E c \in AllCalls : m = Request(c)
      \/ \E c \in AllCalls, s \in {"us", "peer"} : m = Reply(c, s)
  BY DEF Message
<1>2. /\ m.id \in AllCalls
      /\ m.kind \in {"req", "resp"}
      /\ m.kind = "req" => m = Request(m.id)
      /\ m.kind = "resp" => \E s \in {"us", "peer"} : m = Reply(m.id, s)
  BY <1>1 DEF Request, Reply
<1>3. Svc[m.id] \in Services
  BY <1>2, CallAssumption, ServiceAssumption DEF AllCalls
<1> QED
  BY <1>2, <1>3, ServiceAssumption DEF TopicOf

\* The topic of a message that reaches a reply handler, or a request handler,
\* tells which kind of message it is and which service it is for.
LEMMA HandlerTopic ==
    ASSUME NEW m \in Message, NEW h \in Handlers, Topic[h] = TopicOf(m)
    PROVE  /\ Svc[m.id] = Svc[h]
           /\ h \in Calls => m.kind = "resp"
           /\ h \in Routers => m.kind = "req"
BY MessageFacts, CallAssumption, ServiceAssumption

--------------------------------------------------------------------------------
(* Steps.                                                                   *)

\* The steps of the processes, the broker and the transport, as cases.
LEMMA RpcCases ==
    ASSUME RpcNext, NEW P,
           \A c \in Calls : MarshalFail(c) => P,
           \A c \in Calls : Invoke(c) => P,
           \A c \in Calls : PublishRequest(c) => P,
           \A c \in Calls : Receive(c) => P,
           \A c \in Calls : Timeout(c) => P,
           \A g \in gor : RejectReply(g) => P,
           \A g \in gor : DecodeReply(g) => P,
           \A g \in gor : Signal(g) => P,
           \A g \in gor : RejectRequest(g) => P,
           \A g \in gor : Serve(g) => P,
           \A m \in outbox : SendOut(m) => P,
           \A m \in inbox : Deliver(m) => P,
           \A p \in PeerCalls : PeerRequest(p) => P,
           \A c \in AllCalls : PeerReply(c) => P,
           \A r \in Routers : RegRoute(r) => P,
           TransportStep => P, RpcLinkLost => P, RpcStop => P, RpcDisconnect => P
    PROVE  P
BY Zenon DEF RpcNext, CallStep, HandlerStep, NetStep

\* Whatever Rpc does to the transport is a step of Transport.
LEMMA TransportImplements ==
    ASSUME [RpcNext]_allVars
    PROVE  [Next]_vars
<1>1. CASE RpcNext
  <2>1. ASSUME NEW c \in Calls, Invoke(c) PROVE Next
    BY <2>1, CallAssumption, Zenon DEF Invoke, Next
  <2>2. ASSUME NEW r \in Routers, RegRoute(r) PROVE Next
    BY <2>2, CallAssumption, Zenon DEF RegRoute, Next
  <2>3. TransportStep \/ RpcLinkLost \/ RpcStop \/ RpcDisconnect => Next
    BY Zenon DEF TransportStep, RpcLinkLost, RpcStop, RpcDisconnect, Next, LinkStep, LifecycleStep
  <2>4. ASSUME NEW c \in Calls, MarshalFail(c) \/ CallStep(c) PROVE UNCHANGED vars
    BY <2>4, Zenon DEF MarshalFail, CallStep, PublishRequest, Receive, Timeout
  <2>5. ASSUME NEW g \in gor, HandlerStep(g) PROVE UNCHANGED vars
    BY <2>5, Zenon DEF HandlerStep, RejectReply, DecodeReply, Signal, RejectRequest, Serve
  <2>6. NetStep => UNCHANGED vars
    BY Zenon DEF NetStep, SendOut, Deliver, PeerRequest, PeerReply
  <2> QED
    BY <1>1, <2>1, <2>2, <2>3, <2>4, <2>5, <2>6, Zenon DEF RpcNext
<1>2. CASE UNCHANGED allVars
  BY <1>2 DEF allVars
<1> QED
  BY <1>1, <1>2

\* What a step may do to the transport's state, seen from a call or a message.
LEMMA RpcStepKeeps ==
    ASSUME TypeOK, [RpcNext]_allVars
    PROVE  /\ \A h \in Handlers : reg[h] # "idle" => reg'[h] # "idle"
           /\ \A h \in Handlers : reg[h] = "done" => reg'[h] = "done"
           /\ \A t \in Topics : route[t] # None => route'[t] # None
           /\ links' >= links
BY TransportImplements, StepKeeps

\* The number a new goroutine gets is not the number of one that runs for the
\* same message: there are more candidates than goroutines.
LEMMA FreshNumber ==
    ASSUME IsFiniteSet(gor), NEW m
    PROVE  \E k \in 0 .. Cardinality(gor) : \A g \in gor : g.m = m => g.n # k
<1> DEFINE N == 0 .. Cardinality(gor)
<1> SUFFICES ASSUME \A k \in N : \E g \in gor : g.m = m /\ g.n = k
             PROVE  FALSE
  OBVIOUS
<1> DEFINE f == [k \in N |-> CHOOSE g \in gor : g.m = m /\ g.n = k]
<1>1. Cardinality(gor) \in Nat
  BY FS_CardinalityType
<1>2. IsFiniteSet(N) /\ Cardinality(N) = Cardinality(gor) + 1
  BY <1>1, FS_Interval
<1>3. \A k \in N : f[k] \in gor /\ f[k].n = k
  OBVIOUS
<1>4. f \in [N -> gor]
  BY <1>3
<1>5. \E x, y \in N : x # y /\ f[x] = f[y]
  <2> HIDE DEF f, N
  <2> QED
    BY <1>1, <1>2, <1>4, FS_PigeonHole
<1> QED
  BY <1>3, <1>5

\* What Spawn adds, for a message that has a callback.
LEMMA SpawnFacts ==
    ASSUME RpcTypeOK, GorInv, NEW m \in inbox, route[TopicOf(m)] # None, Spawn(m)
    PROVE  \E n \in Nat :
               /\ route[TopicOf(m)] \in Handlers
               /\ \A g \in gor : g.m = m => g.n # n
               /\ gor' = gor \cup {[h |-> route[TopicOf(m)], m |-> m, n |-> n, pc |-> "run"]}
<1> DEFINE n == CHOOSE k \in 0 .. Cardinality(gor) : \A g \in gor : g.m = m => g.n # k
<1>1. n \in 0 .. Cardinality(gor) /\ \A g \in gor : g.m = m => g.n # n
  BY FreshNumber DEF GorInv
<1>2. Cardinality(gor) \in Nat
  BY FS_CardinalityType DEF GorInv
<1>3. route[TopicOf(m)] \in Handlers
  BY MessageFacts DEF RpcTypeOK, TypeOK
<1>4. gor' = gor \cup {[h |-> route[TopicOf(m)], m |-> m, n |-> n, pc |-> "run"]}
  BY DEF Spawn
<1>5. n \in Nat
  BY <1>1, <1>2
<1> HIDE DEF n
<1> QED
  BY <1>1, <1>3, <1>4, <1>5

--------------------------------------------------------------------------------
(* The inductive invariant, part by part.                                   *)

LEMMA RpcTypeInductive ==
    ASSUME RpcInv, [RpcNext]_allVars
    PROVE  RpcTypeOK'
<1>0. RpcTypeOK /\ TypeOK'
  BY TransportImplements, DispatchInductive DEF RpcInv, DispatchInv
<1> USE <1>0 DEF RpcTypeOK
<1>1. CASE RpcNext
  <2>1. ASSUME NEW c \in Calls, MarshalFail(c) PROVE RpcTypeOK'
    BY <2>1 DEF MarshalFail, Returned
  <2>2. ASSUME NEW c \in Calls, Invoke(c) PROVE RpcTypeOK'
    BY <2>2 DEF Invoke
  <2>3. ASSUME NEW c \in Calls, PublishRequest(c) PROVE RpcTypeOK'
    BY <2>3, RequestFacts DEF PublishRequest, Returned, AllCalls
  <2>4. ASSUME NEW c \in Calls, Receive(c) PROVE RpcTypeOK'
    BY <2>4 DEF Receive, Returned, ChanCap
  <2>5. ASSUME NEW c \in Calls, Timeout(c) PROVE RpcTypeOK'
    BY <2>5 DEF Timeout, Returned
  <2>6. ASSUME NEW g \in gor, RejectReply(g) \/ RejectRequest(g) PROVE RpcTypeOK'
    BY <2>6 DEF RejectReply, RejectRequest
  <2>7. ASSUME NEW g \in gor, DecodeReply(g) PROVE RpcTypeOK'
    <3>1. out' \in [Calls -> AllCalls \cup {None}]
      BY <2>7, MessageFacts DEF DecodeReply
    <3>2. gor' \subseteq [h : Handlers, m : Message, n : Nat, pc : {"run", "signal"}]
      BY <2>7 DEF DecodeReply
    <3>3. signals' \in [Calls -> Nat]
      BY <2>7 DEF DecodeReply
    <3> QED
      BY <2>7, <3>1, <3>2, <3>3 DEF DecodeReply
  <2>8. ASSUME NEW g \in gor, Signal(g) PROVE RpcTypeOK'
    <3>1. g.h \in Calls
      BY <2>8 DEF Signal, RpcInv, GorInv
    <3> QED
      BY <2>8, <3>1 DEF Signal, ChanCap
  <2>9. ASSUME NEW g \in gor, Serve(g) PROVE RpcTypeOK'
    BY <2>9, MessageFacts, ReplyFacts DEF Serve
  <2>10. ASSUME NEW m \in outbox, SendOut(m) PROVE RpcTypeOK'
    BY <2>10 DEF SendOut, Publish
  <2>11. ASSUME NEW m \in inbox, Deliver(m) PROVE RpcTypeOK'
    <3>1. gor' \subseteq [h : Handlers, m : Message, n : Nat, pc : {"run", "signal"}]
      BY <2>11, SpawnFacts DEF Deliver, RpcInv, NetInv
    <3> QED
      BY <2>11, <3>1 DEF Deliver
  <2>12. ASSUME NEW q \in PeerCalls, PeerRequest(q) PROVE RpcTypeOK'
    BY <2>12, RequestFacts DEF PeerRequest, Publish, AllCalls
  <2>13. ASSUME NEW c \in AllCalls, PeerReply(c) PROVE RpcTypeOK'
    BY <2>13, ReplyFacts DEF PeerReply, Publish
  <2>14. ASSUME NEW r \in Routers, RegRoute(r) PROVE RpcTypeOK'
    BY <2>14 DEF RegRoute, rpcVars
  <2>15. TransportStep => RpcTypeOK'
    BY DEF TransportStep, rpcVars
  <2>16. RpcLinkLost => RpcTypeOK'
    BY DEF RpcLinkLost
  <2>17. RpcStop => RpcTypeOK'
    BY DEF RpcStop, rpcVars
  <2>18. RpcDisconnect => RpcTypeOK'
    BY DEF RpcDisconnect
  <2> QED
    BY <1>1, <2>1, <2>2, <2>3, <2>4, <2>5, <2>6, <2>7, <2>8, <2>9, <2>10, <2>11, <2>12,
       <2>13, <2>14, <2>15, <2>16, <2>17, <2>18, RpcCases, Zenon
<1>2. CASE UNCHANGED allVars
  BY <1>2 DEF allVars, rpcVars
<1> QED
  BY <1>1, <1>2

\* A goroutine starts for a message that the broker held, and moves from "run"
\* to "signal" only in a reply handler.
LEMMA GorInductive ==
    ASSUME RpcInv, [RpcNext]_allVars
    PROVE  GorInv'
<1>0. RpcTypeOK /\ GorInv /\ NetInv /\ RouteInv
  BY DEF RpcInv, DispatchInv
<1>1. \A h \in Handlers : reg[h] # "idle" => reg'[h] # "idle"
  BY RpcStepKeeps DEF RpcInv, DispatchInv
<1>2. \A g \in gor : g.h \in Handlers /\ g.m \in Message
  BY <1>0 DEF RpcTypeOK
<1>3. ASSUME NEW m \in inbox, Deliver(m) PROVE GorInv'
  <2>1. route[TopicOf(m)] # None /\ m \in net /\ m \in Message
    BY <1>0 DEF NetInv, RpcTypeOK
  <2>2. PICK n \in Nat :
            /\ route[TopicOf(m)] \in Handlers
            /\ \A g \in gor : g.m = m => g.n # n
            /\ gor' = gor \cup {[h |-> route[TopicOf(m)], m |-> m, n |-> n, pc |-> "run"]}
    BY <1>0, <1>3, <2>1, SpawnFacts DEF Deliver
  <2> DEFINE new == [h |-> route[TopicOf(m)], m |-> m, n |-> n, pc |-> "run"]
  <2>3. new.h = route[TopicOf(m)] /\ new.m = m /\ new.n = n /\ new.pc = "run"
    OBVIOUS
  <2> HIDE DEF new
  <2>4. gor' = gor \cup {new}
    BY <2>2 DEF new
  <2>5. IsFiniteSet(gor')
    BY <1>0, <2>4, FS_AddElement DEF GorInv
  <2>6. \A g, k \in gor' : g.m = k.m /\ g.n = k.n => g = k
    BY <1>0, <2>2, <2>3, <2>4 DEF GorInv
  <2>7. Topic[new.h] = TopicOf(new.m) /\ new.m \in net /\ reg'[new.h] # "idle"
    BY <1>0, <1>1, <2>1, <2>2, <2>3, MessageFacts DEF RouteInv
  <2>8. UNCHANGED net
    BY <1>3 DEF Deliver
  <2> QED
    BY <1>0, <1>1, <1>2, <2>3, <2>4, <2>5, <2>6, <2>7, <2>8 DEF GorInv
<1>4. ASSUME NEW g \in gor, DecodeReply(g) PROVE GorInv'
  <2> DEFINE new == [g EXCEPT !.pc = "signal"]
  <2>1. new.h = g.h /\ new.m = g.m /\ new.n = g.n /\ new.pc = "signal"
    BY <1>0 DEF RpcTypeOK
  <2> HIDE DEF new
  <2>2. gor' = (gor \ {g}) \cup {new} /\ g.h \in Calls /\ UNCHANGED net
    BY <1>4 DEF DecodeReply, new
  <2>3. IsFiniteSet(gor')
    BY <1>0, <2>2, FS_AddElement, FS_RemoveElement DEF GorInv
  <2>4. \A j, k \in gor' : j.m = k.m /\ j.n = k.n => j = k
    BY <1>0, <2>1, <2>2 DEF GorInv
  <2> QED
    BY <1>0, <1>1, <1>2, <2>1, <2>2, <2>3, <2>4 DEF GorInv
<1>5. ASSUME NEW g \in gor, gor' = gor \ {g}, UNCHANGED net PROVE GorInv'
  <2>1. IsFiniteSet(gor')
    BY <1>0, <1>5, FS_RemoveElement DEF GorInv
  <2> QED
    BY <1>0, <1>1, <1>2, <1>5, <2>1 DEF GorInv
<1>6. CASE UNCHANGED gor /\ net \subseteq net'
  BY <1>0, <1>1, <1>2, <1>6 DEF GorInv
<1>7. \/ \E m \in inbox : Deliver(m)
      \/ \E g \in gor : DecodeReply(g)
      \/ \E g \in gor : gor' = gor \ {g} /\ UNCHANGED net
      \/ UNCHANGED gor /\ net \subseteq net'
  BY DEF RpcNext, CallStep, HandlerStep, NetStep, MarshalFail, Invoke, PublishRequest,
         Receive, Timeout, RejectReply, Signal, RejectRequest, Serve, SendOut, PeerRequest,
         PeerReply, Publish, RegRoute, TransportStep, RpcLinkLost, RpcStop, RpcDisconnect,
         allVars, rpcVars
<1> QED
  BY <1>3, <1>4, <1>5, <1>6, <1>7

\* The broker queues a message only on a topic with a callback, and a reply is
\* published only by a handler of its request or by a process that saw it.
LEMMA NetInductive ==
    ASSUME RpcInv, [RpcNext]_allVars
    PROVE  NetInv'
<1>0. RpcTypeOK /\ GorInv /\ NetInv /\ AckInv
  BY DEF RpcInv, DispatchInv
<1>1. \A t \in Topics : route[t] # None => route'[t] # None
  BY RpcStepKeeps DEF RpcInv, DispatchInv
<1>2. \A m \in Message : TopicOf(m) \in Topics
  BY MessageFacts
<1>3. ASSUME NEW m \in Message, Publish(m), UNCHANGED vars,
             outbox' \subseteq outbox, sent' \subseteq sent \cup {m},
             \A c \in AllCalls, s \in {"us", "peer"} : m = Reply(c, s) => Request(c) \in net
      PROVE  NetInv'
  <2>1. net' = net \cup {m} /\ UNCHANGED <<route, subs>>
    BY <1>3 DEF Publish, vars, clientVars
  <2>2. \A k \in inbox' : k \in inbox \/ (k = m /\ TopicOf(m) \in subs)
    BY <1>3 DEF Publish
  <2>3. \A k \in inbox' : k \in net' /\ route'[TopicOf(k)] # None
    BY <1>0, <2>1, <2>2 DEF NetInv, AckInv
  <2> QED
    BY <1>0, <1>3, <2>1, <2>3 DEF NetInv
<1>4. ASSUME NEW m \in outbox, SendOut(m) PROVE NetInv'
  <2>1. \A c \in AllCalls, s \in {"us", "peer"} : m = Reply(c, s) => Request(c) \in net
    BY <1>0 DEF NetInv
  <2> QED
    BY <1>0, <1>3, <1>4, <2>1 DEF SendOut, RpcTypeOK
<1>5. ASSUME NEW q \in PeerCalls, PeerRequest(q) PROVE NetInv'
  <2>1. \A c \in AllCalls, s \in {"us", "peer"} : Request(q) # Reply(c, s)
    BY DEF Request, Reply
  <2>2. Request(q) \in Message
    BY RequestFacts DEF AllCalls
  <2> QED
    BY <1>3, <1>5, <2>1, <2>2 DEF PeerRequest
<1>6. ASSUME NEW c \in AllCalls, PeerReply(c) PROVE NetInv'
  <2>1. \A d \in AllCalls, s \in {"us", "peer"} : Reply(c, "peer") = Reply(d, s) => d = c
    BY DEF Reply
  <2>2. Reply(c, "peer") \in Message
    BY ReplyFacts
  <2> QED
    BY <1>3, <1>6, <2>1, <2>2 DEF PeerReply
<1>7. ASSUME NEW g \in gor, Serve(g) PROVE NetInv'
  <2>1. g.m \in net /\ g.m = Request(g.m.id) /\ g.m.id \in AllCalls
    BY <1>0, <1>7, MessageFacts, HandlerTopic DEF Serve, GorInv, RpcTypeOK
  <2>2. \A d \in AllCalls, s \in {"us", "peer"} : Reply(g.m.id, "us") = Reply(d, s) => d = g.m.id
    BY DEF Reply
  <2>3. outbox' \subseteq outbox \cup {Reply(g.m.id, "us")} /\ UNCHANGED <<sent, inbox, net, route>>
    BY <1>7 DEF Serve, vars, clientVars
  <2> QED
    BY <1>0, <2>1, <2>2, <2>3 DEF NetInv
<1>8. ASSUME NEW c \in Calls, PublishRequest(c) PROVE NetInv'
  <2>1. \A d \in AllCalls, s \in {"us", "peer"} : Request(c) # Reply(d, s)
    BY DEF Request, Reply
  <2>2. outbox' \subseteq outbox \cup {Request(c)} /\ UNCHANGED <<sent, inbox, net, route>>
    BY <1>8 DEF PublishRequest, vars, clientVars
  <2> QED
    BY <1>0, <2>1, <2>2 DEF NetInv
<1>9. CASE /\ outbox' \subseteq outbox \cup sent /\ sent' \subseteq sent
           /\ inbox' \subseteq inbox /\ UNCHANGED net
  BY <1>0, <1>1, <1>2, <1>9 DEF NetInv, RpcTypeOK
<1>10. \/ \E c \in Calls : PublishRequest(c)
       \/ \E g \in gor : Serve(g)
       \/ \E m \in outbox : SendOut(m)
       \/ \E q \in PeerCalls : PeerRequest(q)
       \/ \E c \in AllCalls : PeerReply(c)
       \/ /\ outbox' \subseteq outbox \cup sent /\ sent' \subseteq sent
          /\ inbox' \subseteq inbox /\ UNCHANGED net
  BY DEF RpcNext, CallStep, HandlerStep, NetStep, MarshalFail, Invoke, Receive, Timeout,
         RejectReply, DecodeReply, Signal, RejectRequest, Deliver, RegRoute, TransportStep,
         RpcLinkLost, RpcStop, RpcDisconnect, allVars, rpcVars
<1> QED
  BY <1>4, <1>5, <1>6, <1>7, <1>8, <1>9, <1>10

\* Only Invoke begins the registration of a call's reply handler.
LEMMA OnlyInvokeRegisters ==
    ASSUME RpcInv, [RpcNext]_allVars, NEW c \in Calls, reg[c] = "idle", reg'[c] # "idle"
    PROVE  Invoke(c)
<1>0. TypeOK /\ c \in Handlers
  BY CallAssumption DEF RpcInv, DispatchInv
<1> USE <1>0 DEF TypeOK
<1>1. ASSUME NEW d \in Calls, Invoke(d) PROVE d = c
  BY <1>1 DEF Invoke, Store
<1>2. ASSUME NEW r \in Routers, RegRoute(r) PROVE FALSE
  BY <1>2, CallAssumption DEF RegRoute, Store
<1>3. ASSUME NEW h \in Handlers, RegisterStep(h) PROVE FALSE
  BY <1>3 DEF RegisterStep, CheckStarted, RegSubscribe, RegAck
<1>4. ASSUME Disconnect PROVE FALSE
  BY <1>4 DEF Disconnect
<1>5. \/ \E d \in Calls : Invoke(d)
      \/ \E r \in Routers : RegRoute(r)
      \/ \E h \in Handlers : RegisterStep(h)
      \/ Disconnect
      \/ UNCHANGED reg
  BY DEF RpcNext, CallStep, HandlerStep, NetStep, MarshalFail, PublishRequest, Receive,
         Timeout, RejectReply, DecodeReply, Signal, RejectRequest, Serve, SendOut, Deliver,
         PeerRequest, PeerReply, TransportStep, RpcLinkLost, RpcStop, RpcDisconnect,
         Reconnect, CallbackStep, RangeBegin, RangeLoad, CbSubscribe, CbAck, RangeEnd,
         LinkLost, StopCall, allVars, rpcVars, vars
<1> QED
  BY <1>1, <1>2, <1>3, <1>4, <1>5

\* A request exists only after PublishRequest, which needs the registration to
\* have ended; nothing undoes that.
LEMMA CallInductive ==
    ASSUME RpcInv, [RpcNext]_allVars
    PROVE  CallInv'
<1>0. RpcTypeOK /\ CallInv
  BY DEF RpcInv
<1> SUFFICES ASSUME NEW c \in Calls
             PROVE  /\ call'[c] = "idle" => reg'[c] = "idle"
                    /\ call'[c] = "wait" => reg'[c] = "done"
                    /\ call'[c] \in {"idle", "busy"} =>
                            Request(c) \notin outbox' \cup sent' \cup net'
  BY DEF CallInv
<1> USE <1>0 DEF RpcTypeOK
<1>1. /\ call'[c] \in {"idle", "busy"} => call[c] \in {"idle", "busy"}
      /\ call'[c] = "idle" => call[c] = "idle" /\ ~Invoke(c)
      /\ call'[c] = "wait" => call[c] = "wait" \/ reg[c] = "done"
  BY DEF RpcNext, CallStep, HandlerStep, NetStep, MarshalFail, Invoke, PublishRequest,
         Receive, Timeout, RejectReply, DecodeReply, Signal, RejectRequest, Serve, SendOut,
         Deliver, PeerRequest, PeerReply, RegRoute, TransportStep, RpcLinkLost, RpcStop,
         RpcDisconnect, allVars, rpcVars
<1>2. reg[c] = "done" => reg'[c] = "done"
  BY RpcStepKeeps, CallAssumption DEF RpcInv, DispatchInv
<1>3. ASSUME call'[c] \in {"idle", "busy"} PROVE Request(c) \notin outbox' \cup sent' \cup net'
  <2>0. Request(c) \notin outbox \cup sent \cup net
    BY <1>1, <1>3 DEF CallInv
  <2>1. ASSUME NEW d \in Calls, PublishRequest(d) PROVE Request(c) \notin outbox' \cup sent' \cup net'
    <3>1. call'[d] \notin {"idle", "busy"}
      BY <2>1 DEF PublishRequest
    <3>2. Request(c) # Request(d)
      BY <1>3, <3>1 DEF Request
    <3> QED
      BY <2>0, <2>1, <3>2 DEF PublishRequest
  <2>2. ASSUME NEW g \in gor, Serve(g) PROVE Request(c) \notin outbox' \cup sent' \cup net'
    <3>1. Request(c) # Reply(g.m.id, "us")
      BY DEF Request, Reply
    <3> QED
      BY <2>0, <2>2, <3>1 DEF Serve
  <2>3. ASSUME NEW m \in outbox, SendOut(m) PROVE Request(c) \notin outbox' \cup sent' \cup net'
    BY <2>0, <2>3 DEF SendOut, Publish
  <2>4. ASSUME NEW q \in PeerCalls, PeerRequest(q) PROVE Request(c) \notin outbox' \cup sent' \cup net'
    <3>1. Request(c) # Request(q)
      BY CallAssumption DEF Request
    <3> QED
      BY <2>0, <2>4, <3>1 DEF PeerRequest, Publish
  <2>5. ASSUME NEW d \in AllCalls, PeerReply(d) PROVE Request(c) \notin outbox' \cup sent' \cup net'
    <3>1. Request(c) # Reply(d, "peer")
      BY DEF Request, Reply
    <3> QED
      BY <2>0, <2>5, <3>1 DEF PeerReply, Publish
  <2>6. CASE outbox' \subseteq outbox \cup sent /\ sent' \subseteq sent /\ UNCHANGED net
    BY <2>0, <2>6
  <2>7. \/ \E d \in Calls : PublishRequest(d)
        \/ \E g \in gor : Serve(g)
        \/ \E m \in outbox : SendOut(m)
        \/ \E q \in PeerCalls : PeerRequest(q)
        \/ \E d \in AllCalls : PeerReply(d)
        \/ outbox' \subseteq outbox \cup sent /\ sent' \subseteq sent /\ UNCHANGED net
    BY DEF RpcNext, CallStep, HandlerStep, NetStep, MarshalFail, Invoke, Receive, Timeout,
           RejectReply, DecodeReply, Signal, RejectRequest, Deliver, RegRoute, TransportStep,
           RpcLinkLost, RpcStop, RpcDisconnect, allVars, rpcVars
  <2> QED
    BY <2>1, <2>2, <2>3, <2>4, <2>5, <2>6, <2>7
<1>4. call'[c] = "idle" => reg'[c] = "idle"
  BY <1>1, OnlyInvokeRegisters DEF CallInv
<1> QED
  BY <1>1, <1>2, <1>3, <1>4 DEF CallInv

\* The goroutines of call c that wait to signal it.
Blocked(c) == {g \in gor : g.h = c /\ g.pc = "signal"}

\* The books balance over every step: a decoded reply adds a blocked goroutine,
\* a signal moves one to the channel, a receive moves it to the call.
LEMMA SignalInductive ==
    ASSUME RpcInv, [RpcNext]_allVars
    PROVE  SignalInv'
<1>0. RpcTypeOK /\ GorInv /\ SignalInv
  BY DEF RpcInv
<1>1. \A c \in Calls : reg[c] # "idle" => reg'[c] # "idle"
  BY RpcStepKeeps, CallAssumption DEF RpcInv, DispatchInv
<1>2. \A c \in Calls : IsFiniteSet(Blocked(c)) /\ Cardinality(Blocked(c)) \in Nat
  BY <1>0, FS_Subset, FS_CardinalityType DEF GorInv, Blocked
<1> DEFINE Ok(c) == IF call[c] = "ok" THEN 1 ELSE 0
<1>3. \A c \in Calls : signals[c] = ch[c] + Ok(c) + Cardinality(Blocked(c))
  BY <1>0 DEF SignalInv, SignalConservation, Blocked
<1> SUFFICES ASSUME NEW c \in Calls
             PROVE  /\ signals'[c] = ch'[c] + Ok(c)' + Cardinality(Blocked(c)')
                    /\ signals'[c] > 0 => reg'[c] # "idle"
  BY DEF SignalInv, SignalConservation, Blocked
<1>4. ASSUME NEW g \in gor, DecodeReply(g)
      PROVE  /\ signals'[c] = ch'[c] + Ok(c)' + Cardinality(Blocked(c)')
             /\ signals'[c] > 0 => reg'[c] # "idle"
  <2> DEFINE new == [g EXCEPT !.pc = "signal"]
  <2>1. new.h = g.h /\ new.m = g.m /\ new.n = g.n /\ new.pc = "signal" /\ g.pc = "run"
    BY <1>0, <1>4 DEF RpcTypeOK, DecodeReply
  <2> HIDE DEF new
  <2>2. gor' = (gor \ {g}) \cup {new} /\ UNCHANGED <<ch, call>>
    BY <1>4 DEF DecodeReply, new
  <2>3. CASE g.h # c
    <3>1. Blocked(c)' = Blocked(c)
      BY <2>1, <2>2, <2>3 DEF Blocked
    <3>2. signals'[c] = signals[c]
      BY <1>0, <1>4, <2>3 DEF DecodeReply, RpcTypeOK
    <3> QED
      BY <1>0, <1>1, <1>3, <2>2, <3>1, <3>2 DEF SignalInv
  <2>4. CASE g.h = c
    <3>1. new \notin Blocked(c)
      BY <1>0, <2>1 DEF GorInv, Blocked
    <3>2. Blocked(c)' = Blocked(c) \cup {new}
      BY <2>1, <2>2, <2>4 DEF Blocked
    <3>3. Cardinality(Blocked(c)') = Cardinality(Blocked(c)) + 1
      BY <1>2, <3>1, <3>2, FS_AddElement
    <3>4. signals'[c] = signals[c] + 1
      BY <1>0, <1>4, <2>4 DEF DecodeReply, RpcTypeOK
    <3>5. reg'[c] # "idle"
      BY <1>0, <1>1, <2>4 DEF GorInv
    <3>6. ch[c] \in Nat /\ signals[c] \in Nat
      BY <1>0 DEF RpcTypeOK, ChanCap
    <3> QED
      BY <1>2, <1>3, <2>2, <3>3, <3>4, <3>5, <3>6
  <2> QED
    BY <2>3, <2>4
<1>5. ASSUME NEW g \in gor, Signal(g)
      PROVE  /\ signals'[c] = ch'[c] + Ok(c)' + Cardinality(Blocked(c)')
             /\ signals'[c] > 0 => reg'[c] # "idle"
  <2>1. gor' = gor \ {g} /\ g.pc = "signal" /\ UNCHANGED <<call, signals>>
    BY <1>5 DEF Signal
  <2>2. g.h \in Calls /\ ch'[c] = IF g.h = c THEN ch[c] + 1 ELSE ch[c]
    BY <1>0, <1>5 DEF Signal, GorInv, RpcTypeOK
  <2>3. CASE g.h # c
    <3>1. Blocked(c)' = Blocked(c)
      BY <2>1, <2>3 DEF Blocked
    <3> QED
      BY <1>0, <1>1, <1>3, <2>1, <2>2, <2>3, <3>1 DEF SignalInv
  <2>4. CASE g.h = c
    <3>1. g \in Blocked(c) /\ Blocked(c)' = Blocked(c) \ {g}
      BY <2>1, <2>4 DEF Blocked
    <3>2. Cardinality(Blocked(c)') = Cardinality(Blocked(c)) - 1
      BY <1>2, <3>1, FS_RemoveElement
    <3>3. ch[c] \in Nat /\ signals[c] \in Nat
      BY <1>0 DEF RpcTypeOK, ChanCap
    <3> QED
      BY <1>0, <1>1, <1>2, <1>3, <2>1, <2>2, <2>4, <3>2, <3>3 DEF SignalInv
  <2> QED
    BY <2>3, <2>4
<1>6. ASSUME NEW d \in Calls, Receive(d)
      PROVE  /\ signals'[c] = ch'[c] + Ok(c)' + Cardinality(Blocked(c)')
             /\ signals'[c] > 0 => reg'[c] # "idle"
  <2>1. Blocked(c)' = Blocked(c) /\ UNCHANGED signals
    BY <1>6 DEF Receive, Blocked
  <2>2. ch'[c] + Ok(c)' = ch[c] + Ok(c)
    BY <1>0, <1>6 DEF Receive, RpcTypeOK, ChanCap
  <2> QED
    BY <1>0, <1>1, <1>3, <2>1, <2>2 DEF SignalInv
<1>7. CASE /\ Blocked(c)' = Blocked(c)
           /\ call'[c] = "ok" <=> call[c] = "ok"
           /\ UNCHANGED <<ch, signals>>
  BY <1>0, <1>1, <1>3, <1>7 DEF SignalInv
<1>8. ASSUME NEW m \in inbox, Deliver(m) PROVE Blocked(c)' = Blocked(c)
  <2>1. route[TopicOf(m)] # None
    BY DEF RpcInv, NetInv
  <2>2. PICK n \in Nat : gor' = gor \cup {[h |-> route[TopicOf(m)], m |-> m, n |-> n, pc |-> "run"]}
    BY <1>0, <1>8, <2>1, SpawnFacts DEF Deliver
  <2> QED
    BY <2>2 DEF Blocked
<1>9. ASSUME NEW g \in gor, gor' = gor \ {g}, g.h \in Routers \/ g.pc = "run"
      PROVE  Blocked(c)' = Blocked(c)
  BY <1>9, CallAssumption DEF Blocked
<1>10. \/ \E g \in gor : DecodeReply(g) \/ Signal(g)
       \/ \E d \in Calls : Receive(d)
       \/ /\ \/ \E m \in inbox : Deliver(m)
             \/ \E g \in gor : gor' = gor \ {g} /\ (g.h \in Routers \/ g.pc = "run")
             \/ UNCHANGED gor
          /\ call'[c] = "ok" <=> call[c] = "ok"
          /\ UNCHANGED <<ch, signals>>
  BY <1>0 DEF RpcTypeOK, RpcNext, CallStep, HandlerStep, NetStep, MarshalFail, Invoke,
         PublishRequest, Timeout, RejectReply, RejectRequest, Serve, SendOut, Deliver,
         PeerRequest, PeerReply, Publish, RegRoute, TransportStep, RpcLinkLost, RpcStop,
         RpcDisconnect, allVars, rpcVars
<1>11. UNCHANGED gor => Blocked(c)' = Blocked(c)
  BY DEF Blocked
<1> QED
  BY <1>4, <1>5, <1>6, <1>7, <1>8, <1>9, <1>10, <1>11

LEMMA RpcInvInitially == RpcInit => RpcInv
<1> SUFFICES ASSUME RpcInit PROVE RpcInv
  OBVIOUS
<1>1. TypeOK
  <2>1. links \in 0 .. MaxLinks
    BY BoundAssumption, LinkAssumption DEF RpcInit
  <2>2. cb \in [Callbacks -> {"idle", "spawned"}]
    BY DEF RpcInit
  <2>3. cbTodo \in [Callbacks -> SUBSET {t \in Topics : opts[t] # None}]
    BY DEF RpcInit
  <2> QED
    BY <2>1, <2>2, <2>3 DEF RpcInit, TypeOK
<1>2. OptsInv /\ StoredInv /\ RouteInv /\ AckInv /\ DoneInv
  BY TopicAssumption DEF RpcInit, OptsInv, StoredInv, RouteInv, AckInv, DoneInv
<1>3. RpcTypeOK
  BY <1>1 DEF RpcInit, RpcTypeOK, ChanCap
<1>4. GorInv /\ NetInv /\ CallInv
  BY FS_EmptySet, CallAssumption DEF RpcInit, GorInv, NetInv, CallInv
<1>5. SignalInv
  <2>1. \A c \in Calls : {g \in gor : g.h = c /\ g.pc = "signal"} = {}
    BY DEF RpcInit
  <2> QED
    BY <2>1, FS_EmptySet DEF RpcInit, SignalInv, SignalConservation
<1> QED
  BY <1>1, <1>2, <1>3, <1>4, <1>5 DEF RpcInv, DispatchInv

LEMMA RpcInvInductive ==
    ASSUME RpcInv, [RpcNext]_allVars
    PROVE  RpcInv'
BY TransportImplements, DispatchInductive, RpcTypeInductive, GorInductive, NetInductive,
   CallInductive, SignalInductive DEF RpcInv

LEMMA RpcInvariant == RpcSpec => []RpcInv
BY RpcInvInitially, RpcInvInductive, PTL DEF RpcSpec

--------------------------------------------------------------------------------
(* What it establishes.                                                     *)

\* Types of the client, the server and the broker's queues: a channel never
\* holds more than its capacity, and a delivered message always finds a handler.
THEOREM RpcTypeCorrect == RpcSpec => []RpcTypeOK
<1>1. RpcInv => RpcTypeOK
  BY DEF RpcInv
<1> QED
  BY <1>1, RpcInvariant, PTL

\* Signals are neither lost nor invented, for any number of calls that share a
\* topic, replies per call, late replies and reconnections.
THEOREM SignalsConserved == RpcSpec => []SignalConservation
<1>1. RpcInv => SignalConservation
  BY DEF RpcInv, SignalInv
<1> QED
  BY <1>1, RpcInvariant, PTL

\* While a call waits on a live connection its reply path is there or owed by an
\* OnConnect callback, whatever other calls did to the same topic since.
THEOREM ReplyPathKept == RpcSpec => []ReplyPathReady
<1>1. RpcInv => ReplyPathReady
  BY CallAssumption DEF RpcInv, CallInv, DispatchInv, DoneInv, Served, ReplyPathReady
<1> QED
  BY <1>1, RpcInvariant, PTL

\* A handler decodes only what was published as a reply for its service.
LEMMA ProvenanceInductive ==
    ASSUME RpcInv, ReplyProvenance, [RpcNext]_allVars
    PROVE  ReplyProvenance'
<1>0. RpcTypeOK /\ GorInv /\ NetInv
  BY DEF RpcInv
<1> SUFFICES ASSUME NEW c \in Calls, out'[c] # None
             PROVE  /\ Svc[out'[c]] = Svc[c]
                    /\ Request(out'[c]) \in net'
                    /\ \E s \in {"us", "peer"} : Reply(out'[c], s) \in net'
                    /\ signals'[c] > 0
  BY DEF ReplyProvenance
<1>1. ASSUME NEW g \in gor, DecodeReply(g), g.h = c, out'[c] = g.m.id
      PROVE  /\ Svc[out'[c]] = Svc[c]
             /\ Request(out'[c]) \in net'
             /\ \E s \in {"us", "peer"} : Reply(out'[c], s) \in net'
             /\ signals'[c] > 0
  <2>1. g.m \in Message /\ g.h \in Handlers /\ Topic[g.h] = TopicOf(g.m) /\ g.m \in net
    BY <1>0 DEF RpcTypeOK, GorInv
  <2>2. g.m.kind = "resp" /\ Svc[g.m.id] = Svc[c]
    BY <1>1, <2>1, HandlerTopic
  <2>3. PICK s \in {"us", "peer"} : g.m = Reply(g.m.id, s)
    BY <2>1, <2>2, MessageFacts
  <2>4. g.m.id \in AllCalls /\ Reply(g.m.id, s) \in net
    BY <2>1, <2>3, MessageFacts
  <2>5. Request(g.m.id) \in net
    BY <1>0, <2>4 DEF NetInv
  <2>6. signals'[c] > 0 /\ UNCHANGED net
    BY <1>0, <1>1 DEF DecodeReply, RpcTypeOK
  <2> QED
    BY <1>1, <2>2, <2>4, <2>5, <2>6
<1>2. CASE out'[c] = out[c] /\ net \subseteq net' /\ signals'[c] >= signals[c]
  <2>1. signals[c] \in Nat /\ signals'[c] \in Nat
    BY <1>0, RpcTypeInductive DEF RpcTypeOK
  <2> QED
    BY <1>2, <2>1 DEF ReplyProvenance
<1>3. ASSUME NEW g \in gor, DecodeReply(g)
      PROVE  \/ g.h = c /\ out'[c] = g.m.id
             \/ out'[c] = out[c] /\ net \subseteq net' /\ signals'[c] >= signals[c]
  BY <1>0, <1>3 DEF DecodeReply, RpcTypeOK
<1>4. \/ \E g \in gor : DecodeReply(g)
      \/ out'[c] = out[c] /\ net \subseteq net' /\ signals'[c] >= signals[c]
  BY <1>0 DEF RpcTypeOK, RpcNext, CallStep, HandlerStep, NetStep, MarshalFail, Invoke,
         PublishRequest, Receive, Timeout, RejectReply, Signal, RejectRequest, Serve,
         SendOut, Deliver, PeerRequest, PeerReply, Publish, RegRoute, TransportStep,
         RpcLinkLost, RpcStop, RpcDisconnect, allVars, rpcVars
<1> QED
  BY <1>1, <1>2, <1>3, <1>4

\* Whatever a call's out parameter holds is a published reply to a published
\* request of the same service, and its handler went on to signal the call.
THEOREM RepliesTraceable == RpcSpec => []ReplyProvenance
<1>1. RpcInit => ReplyProvenance
  BY DEF RpcInit, ReplyProvenance
<1>2. RpcInv /\ ReplyProvenance /\ [RpcNext]_allVars => ReplyProvenance'
  BY ProvenanceInductive
<1> QED
  BY <1>1, <1>2, RpcInvariant, PTL DEF RpcSpec

--------------------------------------------------------------------------------
(* One answer per request on the first connection.                          *)

\* AnsweredOnce needs the whole life of a request: it is sent once, because what
\* was not acknowledged is sent again only on a later connection; it is handled
\* once; and the answer is given by the goroutine that handled it.
LEMMA OnceInductive ==
    ASSUME RpcInv, OnceInv, [RpcNext]_allVars
    PROVE  OnceInv'
<1>0. RpcTypeOK /\ GorInv /\ NetInv /\ CallInv /\ links \in Nat
  BY BoundAssumption DEF RpcInv, DispatchInv, TypeOK
<1>d. \A c, d : /\ Request(c) = Request(d) => c = d
                /\ Reply(c, "us") # Reply(d, "peer")
                /\ Reply(c, "us") = Reply(d, "us") => c = d
                /\ \A s \in {"us", "peer"} : Request(c) # Reply(d, s)
  BY DEF Request, Reply
<1>1. \/ Reconnect
      \/ /\ links' = links
         /\ IsConnected' => IsConnected
         /\ link' = "up" => link = "up"
  BY DEF RpcNext, CallStep, HandlerStep, NetStep, MarshalFail, Invoke, Store, PublishRequest,
         Receive, Timeout, RejectReply, DecodeReply, Signal, RejectRequest, Serve, SendOut,
         Deliver, PeerRequest, PeerReply, RegRoute, TransportStep, RpcLinkLost, RpcStop,
         RpcDisconnect, RegisterStep, CheckStarted, RegSubscribe, RegAck,
         CallbackStep, RangeBegin, RangeLoad, CbSubscribe, CbAck, RangeEnd, LinkLost,
         StopCall, Disconnect, IsConnected, allVars, rpcVars, vars, clientVars
<1>2. IsConnected' => links' > 0
  BY <1>0, <1>1 DEF Reconnect, Established, OnceInv
<1>3. ASSUME links' <= 1 PROVE links <= 1 /\ (link' = "up" => link = "up")
  <2>1. Reconnect => links > 0 /\ links' = links + 1
    BY DEF Reconnect, Established, OnceInv, IsConnected
  <2> QED
    BY <1>0, <1>1, <1>3, <2>1
<1>4. ASSUME NEW q \in PeerCalls PROVE Request(q) \notin outbox' \cup sent'
  <2>1. \A c \in Calls : Request(q) # Request(c)
    BY <1>d, CallAssumption
  <2> QED
    BY <1>d, <2>1 DEF OnceInv, PublishRequest, Serve, SendOut, PeerRequest, PeerReply,
         RpcNext, CallStep, HandlerStep, NetStep, MarshalFail, Invoke, Receive, Timeout,
         RejectReply, DecodeReply, Signal, RejectRequest, Deliver, RegRoute, TransportStep,
         RpcLinkLost, RpcStop, RpcDisconnect, allVars, rpcVars
<1>5. ASSUME links' <= 1, link' = "up", NEW c \in AllCalls PROVE SentOnce(c)'
  <2>0. SentOnce(c)
    BY <1>3, <1>5 DEF OnceInv
  <2>1. ASSUME NEW d \in Calls, PublishRequest(d) PROVE SentOnce(c)'
    <3>1. Request(d) \notin net /\ outbox' \subseteq outbox \cup {Request(d)} /\ UNCHANGED net
      BY <1>0, <2>1 DEF PublishRequest, CallInv
    <3> QED
      BY <2>0, <3>1 DEF SentOnce
  <2>2. ASSUME NEW g \in gor, Serve(g) PROVE SentOnce(c)'
    BY <1>d, <2>0, <2>2 DEF Serve, SentOnce
  <2>3. ASSUME NEW m \in outbox, SendOut(m) PROVE SentOnce(c)'
    BY <2>0, <2>3 DEF SendOut, Publish, SentOnce
  <2>4. ASSUME NEW q \in PeerCalls, PeerRequest(q) PROVE SentOnce(c)'
    BY <2>0, <2>4 DEF PeerRequest, Publish, SentOnce, OnceInv
  <2>5. ASSUME NEW d \in AllCalls, PeerReply(d) PROVE SentOnce(c)'
    BY <1>d, <2>0, <2>5 DEF PeerReply, Publish, SentOnce
  <2>6. CASE outbox' \subseteq outbox /\ UNCHANGED net
    BY <2>0, <2>6 DEF SentOnce
  <2>7. ~RpcLinkLost
    BY <1>5 DEF RpcLinkLost, LinkLost
  <2>8. \/ \E d \in Calls : PublishRequest(d)
        \/ \E g \in gor : Serve(g)
        \/ \E m \in outbox : SendOut(m)
        \/ \E q \in PeerCalls : PeerRequest(q)
        \/ \E d \in AllCalls : PeerReply(d)
        \/ outbox' \subseteq outbox /\ UNCHANGED net
    BY <2>7 DEF RpcNext, CallStep, HandlerStep, NetStep, MarshalFail, Invoke, Receive, Timeout,
         RejectReply, DecodeReply, Signal, RejectRequest, Deliver, RegRoute, TransportStep,
         RpcStop, RpcDisconnect, allVars, rpcVars
  <2> QED
    BY <2>1, <2>2, <2>3, <2>4, <2>5, <2>6, <2>8
<1>6. ASSUME links' <= 1, NEW c \in AllCalls PROVE OneCopy(c)'
  <2>0. OneCopy(c)
    BY <1>3, <1>6 DEF OnceInv
  \* A request that was not published before has no other copy and no answer.
  <2>1. Request(c) \notin net =>
            /\ \A g \in gor : g.m # Request(c)
            /\ Reply(c, "us") \notin outbox \cup sent \cup net
    BY <1>0 DEF GorInv, NetInv
  <2>2. ASSUME NEW m \in outbox, SendOut(m) PROVE OneCopy(c)'
    <3>1. /\ outbox' \subseteq outbox /\ sent' \subseteq sent \cup {m} /\ net' = net \cup {m}
          /\ inbox' \subseteq inbox \cup {m} /\ UNCHANGED gor
      BY <2>2 DEF SendOut, Publish
    <3>2. CASE m = Request(c)
      <4>1. m \notin net
        BY <1>3, <1>6, <2>2, <3>2 DEF SendOut, OnceInv, SentOnce
      <4> QED
        BY <1>d, <2>0, <2>1, <3>1, <3>2, <4>1 DEF OneCopy
    <3>3. CASE m # Request(c)
      BY <2>0, <3>1, <3>3 DEF OneCopy
    <3> QED
      BY <3>2, <3>3
  <2>3. ASSUME NEW q \in PeerCalls, PeerRequest(q) PROVE OneCopy(c)'
    <3>1. /\ Request(q) \notin net
          /\ net' = net \cup {Request(q)} /\ inbox' \subseteq inbox \cup {Request(q)}
          /\ UNCHANGED <<outbox, sent, gor>>
      BY <2>3 DEF PeerRequest, Publish
    <3>2. CASE c = q
      BY <1>d, <2>0, <2>1, <3>1, <3>2 DEF OneCopy
    <3>3. CASE c # q
      BY <1>d, <2>0, <3>1, <3>3 DEF OneCopy
    <3> QED
      BY <3>2, <3>3
  <2>4. ASSUME NEW d \in AllCalls, PeerReply(d) PROVE OneCopy(c)'
    BY <1>d, <2>0, <2>4 DEF PeerReply, Publish, OneCopy
  <2>5. ASSUME NEW m \in inbox, Deliver(m) PROVE OneCopy(c)'
    <3>1. PICK n \in Nat : gor' = gor \cup {[h |-> route[TopicOf(m)], m |-> m, n |-> n, pc |-> "run"]}
      BY <1>0, <2>5, SpawnFacts DEF Deliver, NetInv
    <3> DEFINE new == [h |-> route[TopicOf(m)], m |-> m, n |-> n, pc |-> "run"]
    <3>2. new.m = m
      OBVIOUS
    <3> HIDE DEF new
    <3>3. gor' = gor \cup {new}
      BY <3>1 DEF new
    <3>4. inbox' = inbox \ {m} /\ UNCHANGED <<outbox, sent, net>>
      BY <2>5 DEF Deliver
    <3> QED
      BY <2>0, <3>2, <3>3, <3>4 DEF OneCopy
  <2>6. ASSUME NEW g \in gor, DecodeReply(g) PROVE OneCopy(c)'
    <3> DEFINE new == [g EXCEPT !.pc = "signal"]
    <3>1. new.m = g.m /\ g.m \in Message /\ g.h \in Handlers
      BY <1>0 DEF RpcTypeOK
    <3> HIDE DEF new
    <3>2. gor' = (gor \ {g}) \cup {new} /\ g.h \in Calls /\ UNCHANGED <<outbox, sent, net, inbox>>
      BY <2>6 DEF DecodeReply, new
    <3>3. g.m # Request(c)
      BY <1>0, <3>1, <3>2, HandlerTopic, RequestFacts DEF GorInv
    <3> QED
      BY <2>0, <3>1, <3>2, <3>3 DEF OneCopy
  <2>7. ASSUME NEW g \in gor, Serve(g) PROVE OneCopy(c)'
    <3>1. g.m = Request(g.m.id)
      BY <1>0, <2>7, MessageFacts, HandlerTopic DEF Serve, GorInv, RpcTypeOK
    <3>2. /\ gor' = gor \ {g} /\ UNCHANGED <<sent, net, inbox>>
          /\ outbox' \subseteq outbox \cup {Reply(g.m.id, "us")}
      BY <2>7 DEF Serve
    <3> QED
      BY <1>d, <2>0, <3>1, <3>2 DEF OneCopy
  <2>8. ASSUME NEW d \in Calls, PublishRequest(d) PROVE OneCopy(c)'
    BY <1>d, <2>0, <2>8 DEF PublishRequest, OneCopy
  <2>9. CASE /\ outbox' \subseteq outbox \cup sent /\ sent' \subseteq sent
             /\ inbox' \subseteq inbox /\ gor' \subseteq gor /\ UNCHANGED net
    BY <2>0, <2>9 DEF OneCopy
  <2>10. \/ \E d \in Calls : PublishRequest(d)
         \/ \E g \in gor : Serve(g) \/ DecodeReply(g)
         \/ \E m \in outbox : SendOut(m)
         \/ \E m \in inbox : Deliver(m)
         \/ \E q \in PeerCalls : PeerRequest(q)
         \/ \E d \in AllCalls : PeerReply(d)
         \/ /\ outbox' \subseteq outbox \cup sent /\ sent' \subseteq sent
            /\ inbox' \subseteq inbox /\ gor' \subseteq gor /\ UNCHANGED net
    BY DEF RpcNext, CallStep, HandlerStep, NetStep, MarshalFail, Invoke, Receive, Timeout,
         RejectReply, Signal, RejectRequest, RegRoute, TransportStep, RpcLinkLost, RpcStop,
         RpcDisconnect, allVars, rpcVars
  <2> QED
    BY <2>2, <2>3, <2>4, <2>5, <2>6, <2>7, <2>8, <2>9, <2>10
<1> QED
  BY <1>2, <1>4, <1>5, <1>6 DEF OnceInv, SentOnce, OneCopy

\* On its first connection a process answers a request at most once, after it
\* was published, whatever is queued, reordered or still running.
THEOREM RequestsAnsweredOnce == RpcSpec => []AnsweredOnce
<1>1. RpcInit => OnceInv
  BY DEF RpcInit, OnceInv, SentOnce, OneCopy, IsConnected
<1>2. RpcInv /\ OnceInv /\ [RpcNext]_allVars => OnceInv'
  BY OnceInductive
<1>3. RpcInv /\ OnceInv => AnsweredOnce
  BY DEF RpcInv, NetInv, OnceInv, OneCopy, AnsweredOnce
<1> QED
  BY <1>1, <1>2, <1>3, RpcInvariant, PTL DEF RpcSpec

--------------------------------------------------------------------------------
(* Rpc implements CallService.                                              *)

\* Every step of the client, or of anything around it, is a step of CallService
\* or leaves its state alone.  A reply is accepted only for a call that has
\* begun, because its handler was registered; a call that receives a signal had
\* one, because signals are conserved.
LEMMA ClientStep ==
    ASSUME RpcInv, [RpcNext]_allVars
    PROVE  [Client!CallNext]_(Client!callVars)
<1>0. RpcTypeOK /\ GorInv /\ CallInv /\ SignalInv
  BY DEF RpcInv
<1> USE <1>0 DEF RpcTypeOK
<1>1. ASSUME NEW c \in Calls, MarshalFail(c) PROVE Client!ReturnError(c)
  BY <1>1 DEF MarshalFail, Client!ReturnError, Pending
<1>2. ASSUME NEW c \in Calls, Invoke(c) PROVE Client!Begin(c)
  BY <1>2 DEF Invoke, Client!Begin, Pending
<1>3. ASSUME NEW c \in Calls, PublishRequest(c)
      PROVE  Client!ReturnError(c) \/ UNCHANGED Client!callVars
  <2>1. CASE call' = [call EXCEPT ![c] = "error"]
    <3>1. Client!ReturnError(c)
      BY <1>3, <2>1 DEF PublishRequest, Client!ReturnError, Pending
    <3> QED
      BY <3>1
  <2>2. CASE call' = [call EXCEPT ![c] = "wait"]
    <3>1. UNCHANGED Client!callVars
      BY <1>3, <2>2 DEF PublishRequest, Client!callVars, Pending
    <3> QED
      BY <3>1
  <2> QED
    BY <1>3, <2>1, <2>2 DEF PublishRequest
<1>4. ASSUME NEW c \in Calls, Receive(c) PROVE Client!ReturnNil(c)
  <2>1. Cardinality({g \in gor : g.h = c /\ g.pc = "signal"}) \in Nat
    BY FS_Subset, FS_CardinalityType DEF GorInv
  <2>2. signals[c] > 0
    BY <1>4, <2>1 DEF Receive, SignalInv, SignalConservation, ChanCap
  <2> QED
    BY <1>4, <2>2 DEF Receive, Client!ReturnNil, Pending
<1>5. ASSUME NEW c \in Calls, Timeout(c) PROVE Client!ReturnError(c)
  BY <1>5 DEF Timeout, Client!ReturnError, Pending
<1>6. ASSUME NEW g \in gor, DecodeReply(g) PROVE Client!Accept(g.h)
  <2>1. g.h \in Calls /\ call[g.h] # "idle"
    BY <1>6 DEF DecodeReply, GorInv, CallInv
  <2>2. [c \in Calls |-> signals[c] > 0]' = [[c \in Calls |-> signals[c] > 0] EXCEPT ![g.h] = TRUE]
    <3>1. \A c \in Calls : (signals'[c] > 0) = IF c = g.h THEN TRUE ELSE signals[c] > 0
      <4>1. signals'[g.h] > 0 /\ \A c \in Calls : c # g.h => signals'[c] = signals[c]
        BY <1>6, <2>1 DEF DecodeReply
      <4>2. (signals'[g.h] > 0) = TRUE
        BY <4>1
      <4> QED
        BY <4>1, <4>2, Zenon
    <3> QED
      BY <2>1, <3>1, Zenon
  <2>3. \E r \in AllCalls \cup {None} : out' = [out EXCEPT ![g.h] = r]
    <3>1. g.m.id \in AllCalls /\ out[g.h] \in AllCalls \cup {None}
      BY <2>1, MessageFacts
    <3>2. out' = [out EXCEPT ![g.h] = g.m.id] \/ out' = [out EXCEPT ![g.h] = out[g.h]]
      BY <1>6 DEF DecodeReply
    <3> QED
      BY <3>1, <3>2
  <2> QED
    BY <1>6, <2>1, <2>2, <2>3 DEF DecodeReply, Client!Accept, Pending
<1>7. CASE UNCHANGED <<call, out, signals>>
  BY <1>7 DEF Client!callVars, Pending
<1>8. \/ \E c \in Calls : \/ MarshalFail(c) \/ Invoke(c) \/ PublishRequest(c)
                          \/ Receive(c) \/ Timeout(c)
      \/ \E g \in gor : DecodeReply(g)
      \/ UNCHANGED <<call, out, signals>>
  BY DEF RpcNext, CallStep, HandlerStep, NetStep, RejectReply, Signal, RejectRequest, Serve,
         SendOut, Deliver, PeerRequest, PeerReply, RegRoute, TransportStep, RpcLinkLost,
         RpcStop, RpcDisconnect, allVars, rpcVars
<1>9. \A g \in gor : DecodeReply(g) => g.h \in Calls
  BY DEF DecodeReply
<1> QED
  BY <1>1, <1>2, <1>3, <1>4, <1>5, <1>6, <1>7, <1>8, <1>9 DEF Client!CallNext

\* Invoke, Send and the reply handler implement CallService for any calls,
\* services, routers and connections: a call returns once, it returns nil only
\* after a reply was accepted, and only an accepted reply writes out.
THEOREM RpcImplementsCallService == RpcSpec => ImplementsCallService
<1>1. ASSUME RpcInit PROVE Client!CallInit
  <2>1. \A c \in Calls : (signals[c] > 0) = FALSE
    BY <1>1 DEF RpcInit
  <2>2. [c \in Calls |-> signals[c] > 0] = [c \in Calls |-> FALSE]
    BY <2>1, Zenon
  <2>3. [c \in Calls |-> IF Pending(c) THEN "pending" ELSE call[c]] = [c \in Calls |-> "idle"]
    BY <1>1 DEF RpcInit, Pending
  <2>4. out \in [Calls -> AllCalls \cup {None}]
    BY <1>1 DEF RpcInit
  <2> QED
    BY <2>2, <2>3, <2>4 DEF Client!CallInit
<1>2. RpcInv /\ [RpcNext]_allVars => [Client!CallNext]_(Client!callVars)
  BY ClientStep
<1> QED
  BY <1>1, <1>2, RpcInvariant, PTL DEF RpcSpec, ImplementsCallService, Client!CallSpec

================================================================================
