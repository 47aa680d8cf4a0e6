---------------------------------- MODULE Rpc ----------------------------------
(***************************************************************************)
(* Calls and servers over the transport: server/mqtt/client.go (Invoke and *)
(* Send), server/mqtt/server.go (RegRoute) and route.go, composed with     *)
(* Transport.  One process makes the calls of Calls and serves the routers *)
(* of Routers; all of them share the global srv, hence one connection.     *)
(* Other processes attached to the same MQTT broker may make the calls of  *)
(* PeerCalls and serve requests.                                           *)
(*                                                                         *)
(* A service is a pair of topics, <service>/req and <service>/resp.  Each  *)
(* call of Invoke registers its own reply handler for the /resp topic and  *)
(* never removes it.  A message is identified by its kind, the call it     *)
(* belongs to (its MessageId) and, for a reply, by who answered.  QoS is 2 *)
(* on both sides, so a message is delivered once per session; after a      *)
(* reconnection the client sends again what was not acknowledged, and the  *)
(* broker, which forgot the session, takes it for a new message.           *)
(***************************************************************************)
EXTENDS Transport

CONSTANTS
    Calls,      \* calls of Client.Invoke made by this process
    Routers,    \* calls of Router.Route made by this process
    PeerCalls,  \* calls made by other processes on the same broker
    Services,   \* topic prefixes
    Svc,        \* the service of every call and router
    Serial      \* TRUE: this process makes one call at a time

ASSUME CallAssumption ==
    /\ Handlers = Calls \cup Routers
    /\ Calls \cap Routers = {}
    /\ PeerCalls \cap Handlers = {}
    /\ None \notin PeerCalls
ASSUME ServiceAssumption ==
    /\ Topics = Services \X {"req", "resp"}
    /\ Svc \in [Handlers \cup PeerCalls -> Services]
    /\ \A c \in Calls : Topic[c] = <<Svc[c], "resp">>
    /\ \A r \in Routers : Topic[r] = <<Svc[r], "req">>
ASSUME SerialAssumption == Serial \in BOOLEAN
ASSUME LinkAssumption == MaxLinks > 0  \* NewServer makes the first connection

VARIABLES
    call,    \* progress of each Invoke
    ch,      \* signals in the channel of each call, of capacity 1
    out,     \* whose reply was last decoded into the call's out parameter
    outbox,  \* messages the client has accepted and not yet sent
    sent,    \* messages it has sent over this connection, if MaxLinks allows another
    inbox,   \* messages the broker holds for this session
    gor,     \* running handler goroutines
    net,     \* every message that ever reached the broker
    signals  \* ghost: how often the call's handler went on to signal it

rpcVars == <<call, ch, out, outbox, sent, inbox, gor, net, signals>>
allVars == <<vars, rpcVars>>

AllCalls == Calls \cup PeerCalls
Returned == {"ok", "timeout", "error"}
ChanCap  == 1

Request(c) == [kind |-> "req", id |-> c, by |-> "caller"]
Reply(c, server) == [kind |-> "resp", id |-> c, by |-> server]

Message == {Request(c) : c \in AllCalls}
           \cup {Reply(c, s) : c \in AllCalls, s \in {"us", "peer"}}

TopicOf(m) == <<Svc[m.id], m.kind>>

RpcTypeOK ==
    /\ TypeOK
    /\ call \in [Calls -> {"idle", "busy", "wait"} \cup Returned]
    /\ ch \in [Calls -> 0 .. ChanCap]
    /\ out \in [Calls -> AllCalls \cup {None}]
    /\ outbox \subseteq Message
    /\ sent \subseteq Message
    /\ inbox \subseteq Message
    /\ gor \subseteq [h : Handlers, m : Message, n : Nat, pc : {"run", "signal"}]
    /\ net \subseteq Message
    /\ signals \in [Calls -> Nat]

\* NewServer returns after InitServer has run Start to its end: connected,
\* started, the OnConnect goroutine not yet scheduled, nothing registered.
\* Or after a Connect that failed, with the error kept.
RpcInit ==
    /\ opts = [t \in Topics |-> None]
    /\ route = [t \in Topics |-> None]
    /\ subs = {}
    /\ reg = [h \in Handlers |-> "idle"]
    /\ cbTodo = [g \in Callbacks |-> {}]
    /\ cbTopic = [g \in Callbacks |-> None]
    /\ cbHandler = [g \in Callbacks |-> None]
    /\ start = "idle"
    /\ stop = "idle"
    /\ missed = {}
    /\ late = FALSE
    /\ \/ /\ err = FALSE /\ started = TRUE /\ link = "up" /\ links = 1
          /\ cb = [g \in Callbacks |-> IF g = 1 THEN "spawned" ELSE "idle"]
       \/ /\ err = TRUE /\ started = FALSE /\ link = "down" /\ links = 0
          /\ cb = [g \in Callbacks |-> "idle"]
    /\ call = [c \in Calls |-> "idle"]
    /\ ch = [c \in Calls |-> 0]
    /\ out = [c \in Calls |-> None]
    /\ outbox = {}
    /\ sent = {}
    /\ inbox = {}
    /\ gor = {}
    /\ net = {}
    /\ signals = [c \in Calls |-> 0]

--------------------------------------------------------------------------------
(* The MQTT broker and the other processes attached to it.                  *)

\* A published message: the broker queues it for this session if it holds a
\* subscription, and everybody else may see it.
Publish(m) ==
    /\ net' = net \cup {m}
    /\ inbox' = IF TopicOf(m) \in subs THEN inbox \cup {m} ELSE inbox

\* The client sends a message it had accepted, now or after a reconnection.
SendOut(m) ==
    /\ m \in outbox
    /\ link = "up"
    /\ outbox' = outbox \ {m}
    /\ sent' = IF links < MaxLinks THEN sent \cup {m} ELSE sent
    /\ Publish(m)
    /\ UNCHANGED <<vars, call, ch, out, gor, signals>>

\* The other processes keep their connections: they send each message once.

PeerRequest(p) ==
    /\ Request(p) \notin net
    /\ Publish(Request(p))
    /\ UNCHANGED <<vars, call, ch, out, outbox, sent, gor, signals>>

PeerReply(c) ==
    /\ Request(c) \in net
    /\ Reply(c, "peer") \notin net
    /\ Publish(Reply(c, "peer"))
    /\ UNCHANGED <<vars, call, ch, out, outbox, sent, gor, signals>>

\* A handler goroutine for message m, told apart from those that already run.
Spawn(m) ==
    LET n == CHOOSE k \in 0 .. Cardinality(gor) : \A g \in gor : g.m = m => g.n # k
    IN  gor' = gor \cup {[h |-> route[TopicOf(m)], m |-> m, n |-> n, pc |-> "run"]}

\* Faulty variant: the broker may deliver the same message again.
DeliverAgain(m) ==
    /\ m \in inbox
    /\ link = "up"
    /\ Spawn(m)
    /\ UNCHANGED <<vars, call, ch, out, outbox, sent, inbox, net, signals>>

\* A message arrives: paho calls the callback the topic has at this moment,
\* and that callback runs the handler in a goroutine of its own.
Deliver(m) ==
    /\ m \in inbox
    /\ link = "up"
    /\ inbox' = inbox \ {m}
    /\ Spawn(m)
    /\ UNCHANGED <<vars, call, ch, out, outbox, sent, net, signals>>

--------------------------------------------------------------------------------
(* Client.Invoke and Client.Send.                                           *)

\* broker.Marshal fails: nothing has been registered yet.
MarshalFail(c) ==
    /\ call[c] = "idle"
    /\ call' = [call EXCEPT ![c] = "error"]
    /\ UNCHANGED <<vars, ch, out, outbox, sent, inbox, gor, net, signals>>

\* Send begins: the reply handler is registered under <topic>/resp.
Invoke(c) ==
    /\ call[c] = "idle"
    /\ Serial => \A d \in Calls : call[d] \notin {"busy", "wait"}
    /\ Store(c)
    /\ call' = [call EXCEPT ![c] = "busy"]
    /\ UNCHANGED <<ch, out, outbox, sent, inbox, gor, net, signals>>

\* Faulty variant: the request is published while the registration runs.
PublishEarly(c) ==
    /\ call[c] = "busy"
    /\ IF IsConnected
       THEN /\ outbox' = outbox \cup {Request(c)}
            /\ call' = [call EXCEPT ![c] = "wait"]
       ELSE /\ call' = [call EXCEPT ![c] = "error"]
            /\ UNCHANGED outbox
    /\ UNCHANGED <<vars, ch, out, sent, inbox, gor, net, signals>>

\* RegisterSubscriber has returned, its error ignored; PublishRaw.  A
\* reconnecting client accepts the message.
PublishRequest(c) ==
    /\ call[c] = "busy"
    /\ reg[c] = "done"
    /\ IF IsConnected
       THEN /\ outbox' = outbox \cup {Request(c)}
            /\ call' = [call EXCEPT ![c] = "wait"]
       ELSE /\ call' = [call EXCEPT ![c] = "error"]
            /\ UNCHANGED outbox
    /\ UNCHANGED <<vars, ch, out, sent, inbox, gor, net, signals>>

\* Faulty variant: the channel is closed, and receiving never waits.
ReceiveClosed(c) ==
    /\ call[c] = "wait"
    /\ ch' = [ch EXCEPT ![c] = 0]
    /\ call' = [call EXCEPT ![c] = "ok"]
    /\ UNCHANGED <<vars, out, outbox, sent, inbox, gor, net, signals>>

\* select: <-ch ...
Receive(c) ==
    /\ call[c] = "wait"
    /\ ch[c] > 0
    /\ ch' = [ch EXCEPT ![c] = @ - 1]
    /\ call' = [call EXCEPT ![c] = "ok"]
    /\ UNCHANGED <<vars, out, outbox, sent, inbox, gor, net, signals>>

\* Faulty variant: the deadline counts only when a signal is ready anyway, as
\* with a receive outside the select.
TimeoutLate(c) ==
    /\ call[c] = "wait"
    /\ ch[c] > 0
    /\ call' = [call EXCEPT ![c] = "timeout"]
    /\ UNCHANGED <<vars, ch, out, outbox, sent, inbox, gor, net, signals>>

\* ... or <-ctx.Done(), even when a signal is ready.
Timeout(c) ==
    /\ call[c] = "wait"
    /\ call' = [call EXCEPT ![c] = "timeout"]
    /\ UNCHANGED <<vars, ch, out, outbox, sent, inbox, gor, net, signals>>

--------------------------------------------------------------------------------
(* The reply handler registered by Send, run for one message.               *)

\* Faulty variant: the message is decoded before it is found to be bad.
RejectDecoded(g) ==
    /\ g \in gor
    /\ g.h \in Calls
    /\ g.pc = "run"
    /\ out' = [out EXCEPT ![g.h] = g.m.id]
    /\ gor' = gor \ {g}
    /\ UNCHANGED <<vars, call, ch, outbox, sent, inbox, net, signals>>

\* ReadRequest fails or the body is empty: the message is dropped.
RejectReply(g) ==
    /\ g \in gor
    /\ g.h \in Calls
    /\ g.pc = "run"
    /\ gor' = gor \ {g}
    /\ UNCHANGED <<vars, call, ch, out, outbox, sent, inbox, net, signals>>

\* Unmarshal into out; its error is ignored, and so is the MessageId.
DecodeReply(g) ==
    /\ g \in gor
    /\ g.h \in Calls
    /\ g.pc = "run"
    /\ \/ out' = [out EXCEPT ![g.h] = g.m.id]
       \/ UNCHANGED out
    /\ gor' = (gor \ {g}) \cup {[g EXCEPT !.pc = "signal"]}
    /\ signals' = [signals EXCEPT ![g.h] = @ + 1]
    /\ UNCHANGED <<vars, call, ch, outbox, sent, inbox, net>>

\* Faulty variant: a send that does not block, with a default branch.
SignalOrDrop(g) ==
    /\ g \in gor
    /\ g.pc = "signal"
    /\ ch' = [ch EXCEPT ![g.h] = ChanCap]
    /\ gor' = gor \ {g}
    /\ UNCHANGED <<vars, call, out, outbox, sent, inbox, net, signals>>

\* ch <- struct{}{} blocks while the channel is full.
Signal(g) ==
    /\ g \in gor
    /\ g.pc = "signal"
    /\ ch[g.h] < ChanCap
    /\ ch' = [ch EXCEPT ![g.h] = @ + 1]
    /\ gor' = gor \ {g}
    /\ UNCHANGED <<vars, call, out, outbox, sent, inbox, net, signals>>

--------------------------------------------------------------------------------
(* The request handler registered by RegRoute, run for one message.         *)

\* Every early return: a malformed or empty request, an unknown URI, an error
\* of the handler or of Marshal, a missing MessageId (the panic is recovered).
\* The caller gets no answer.
RejectRequest(g) ==
    /\ g \in gor
    /\ g.h \in Routers
    /\ gor' = gor \ {g}
    /\ UNCHANGED <<vars, call, ch, out, outbox, sent, inbox, net, signals>>

\* The reply is published under <topic>/resp; a publish error is ignored.
Serve(g) ==
    /\ g \in gor
    /\ g.h \in Routers
    /\ gor' = gor \ {g}
    /\ outbox' = IF IsConnected THEN outbox \cup {Reply(g.m.id, "us")} ELSE outbox
    /\ UNCHANGED <<vars, call, ch, out, sent, inbox, net, signals>>

--------------------------------------------------------------------------------
(* The transport's steps seen from here.                                    *)

\* Router.Route registers the request handler.
RegRoute(r) == Store(r) /\ UNCHANGED rpcVars

\* The broker drops the session, and what it held for it, with the link.  What
\* the client sent and had no acknowledgement for will be sent again.
RpcLinkLost ==
    /\ LinkLost
    /\ inbox' = {}
    /\ sent' = {}
    /\ \E unacked \in SUBSET sent : outbox' = outbox \cup unacked
    /\ UNCHANGED <<call, ch, out, gor, net, signals>>

\* The application stops the server once, when it shuts down.
RpcStop == started /\ StopCall /\ UNCHANGED rpcVars

RpcDisconnect ==
    /\ Disconnect
    /\ inbox' = {}
    /\ outbox' = {}
    /\ sent' = {}
    /\ UNCHANGED <<call, ch, out, gor, net, signals>>

TransportStep ==
    \/ Reconnect /\ UNCHANGED rpcVars
    \/ \E h \in Handlers : RegisterStep(h) /\ UNCHANGED rpcVars
    \/ \E g \in Callbacks : CallbackStep(g) /\ UNCHANGED rpcVars

CallStep(c) == PublishRequest(c) \/ Receive(c) \/ Timeout(c)

HandlerStep(g) ==
    RejectReply(g) \/ DecodeReply(g) \/ Signal(g) \/ RejectRequest(g) \/ Serve(g)

NetStep ==
    \/ \E m \in outbox : SendOut(m)
    \/ \E m \in inbox : Deliver(m)
    \/ \E p \in PeerCalls : PeerRequest(p)
    \/ \E c \in AllCalls : PeerReply(c)

RpcNext ==
    \/ \E c \in Calls : MarshalFail(c) \/ Invoke(c) \/ CallStep(c)
    \/ \E g \in gor : HandlerStep(g)
    \/ \E r \in Routers : RegRoute(r)
    \/ NetStep
    \/ TransportStep
    \/ RpcLinkLost
    \/ RpcStop
    \/ RpcDisconnect

RpcSpec == RpcInit /\ [][RpcNext]_allVars

\* Goroutines that have begun keep running, a deadline passes, and the broker
\* answers a SUBSCRIBE on a live link.  Nobody owes a reconnection or a reply.
RpcFairness ==
    /\ \A c \in Calls : WF_allVars(CallStep(c))
    /\ \A h \in Handlers : WF_allVars(RegisterStep(h) /\ UNCHANGED rpcVars)
    /\ \A g \in Callbacks : WF_allVars(CallbackStep(g) /\ UNCHANGED rpcVars)

RpcFairSpec == RpcSpec /\ RpcFairness

--------------------------------------------------------------------------------
(* Properties.                                                              *)

\* The interface of the client, as CallService states it: a call is pending
\* from Send's registration to its return, and a reply is accepted when its
\* handler goes on to signal the call.
Pending(c) == call[c] \in {"busy", "wait"}
Client == INSTANCE CallService WITH
    Results  <- AllCalls \cup {None},
    state    <- [c \in Calls |-> IF Pending(c) THEN "pending" ELSE call[c]],
    accepted <- [c \in Calls |-> signals[c] > 0],
    result   <- out

\* Invoke, Send and the reply handler implement CallService, whatever the
\* transport, the broker and the other processes do: a call returns once, it
\* returns nil only after a reply was accepted, and nothing but an accepted
\* reply to a call that has begun writes its out parameter.
ImplementsCallService == Client!CallSpec

\* What a call's out parameter holds was decoded from a reply that somebody
\* published to a request that somebody published, for the same service, by a
\* handler that went on to signal the call.  It need not be this call's own
\* request: see OwnReply.
ReplyProvenance ==
    \A c \in Calls : out[c] # None =>
        LET d == out[c] IN
            /\ Svc[d] = Svc[c]
            /\ Request(d) \in net
            /\ \E s \in {"us", "peer"} : Reply(d, s) \in net
            /\ signals[c] > 0

\* Signals are neither lost nor invented: every reply a call's handler accepted
\* is in the channel, was received by the select, or sits in a goroutine that
\* is blocked on the full channel.  So a call returns nil only after its handler
\* accepted a reply, and every further reply leaves a blocked goroutine behind.
SignalConservation ==
    \A c \in Calls :
        signals[c] =
            ch[c] + (IF call[c] = "ok" THEN 1 ELSE 0)
                  + Cardinality({g \in gor : g.h = c /\ g.pc = "signal"})

\* QoS 2 and one goroutine per message: on its first connection this process
\* answers a request only after it was published, and once.  When the answer is
\* on its way or published, no copy of the request is queued for this process
\* and no handler works on one.  After a reconnection a request of its own that
\* was not acknowledged comes back and is executed again.
AnsweredOnce ==
    links <= 1 =>
        \A c \in AllCalls : Reply(c, "us") \in outbox \cup net =>
            /\ Request(c) \in net \ inbox
            /\ \A g \in gor : g.m # Request(c)

\* Send registers its reply handler before it publishes: while a call waits on
\* a live connection its /resp topic is subscribed, or an OnConnect callback is
\* about to subscribe it again.  The exception is a call that registered on a
\* connection whose server was being stopped.
ReplyPathReady ==
    link = "up" =>
        \A c \in Calls : call[c] = "wait" =>
            Topic[c] \in subs \/ CallbackOwes(Topic[c]) \/ c \in missed

\* Every call that began returns.  The deadline covers only the select: until
\* the reply handler is registered a call can hang for as long as the link
\* stays lost with its SUBSCRIBE unanswered.
InvokeReturns ==
    \A c \in Calls :
        call[c] = "busy" ~>
            call[c] \in Returned \/ (reg[c] = "wait" /\ link = "lost")

\* What "MQTT calls simulated as RPC calls" promises: a call that returns nil
\* holds the reply to its own request, or nothing.
OwnReply ==
    \A c \in Calls : call[c] = "ok" => out[c] \in {c, None}

================================================================================
