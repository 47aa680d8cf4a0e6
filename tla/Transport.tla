------------------------------- MODULE Transport -------------------------------
(***************************************************************************)
(* The MQTT transport: transport/mqtt/server.go over broker/mqtt/mqtt.go,  *)
(* in one process.  Goroutines that meet here: the application's Start and *)
(* Stop, one RegisterSubscriber call per handler, and one OnConnect        *)
(* callback per established connection.  None of them holds a lock (the    *)
(* mutex of Server is commented out), so every access to shared state is a *)
(* step of its own.                                                        *)
(*                                                                         *)
(* The MQTT library (paho) and the MQTT broker are external.  What the     *)
(* code relies on: IsConnected is true while connected or reconnecting     *)
(* (AutoReconnect); OnConnect runs in a new goroutine after every          *)
(* successful (re)connection; the client keeps its topic-to-callback       *)
(* routes over reconnections while the broker forgets the session's        *)
(* subscriptions (CleanSession); Subscribe fails while reconnecting; a     *)
(* Subscribe that is waiting for its SUBACK when the link is lost is sent  *)
(* again after reconnection (ResumeSubs) and fails on Disconnect.          *)
(***************************************************************************)
EXTENDS Naturals, FiniteSets

CONSTANTS
    Topics,           \* topic names
    Handlers,         \* one per call of RegisterSubscriber
    Topic,            \* the topic each handler is registered for
    OnConnectStarts,  \* TRUE: server made by NewServer; FALSE: by InitServer,
                      \* whose OnConnect callback does not set started
    MaxLinks,         \* bound: number of connections ever established
    None              \* no handler

ASSUME TopicAssumption == Topic \in [Handlers -> Topics]
ASSUME NoneAssumption == None \notin Handlers
ASSUME BoundAssumption == MaxLinks \in Nat
ASSUME KindAssumption == OnConnectStarts \in BOOLEAN

VARIABLES
    err,      \* Server.err is not nil
    started,  \* Server.started
    opts,     \* Server.subscriberOpts: the handler stored for each topic
    link,     \* status of the paho client
    route,    \* paho's router: the callback of each topic
    subs,     \* the broker's subscriptions of the current session
    reg,      \* progress of each RegisterSubscriber call
    cb,       \* progress of the OnConnect goroutine of each connection
    cbTodo,   \* keys its Range has still to visit
    cbTopic,  \* topic and handler it is re-registering: the pair was read
    cbHandler,\* from subscriberOpts, which may have changed since
    start,    \* progress of Start
    stop,     \* progress of Stop
    links,    \* connections established so far
    missed,   \* ghost: handlers that saw started = FALSE on a live connection
    late      \* ghost: started was set on a stopped or stopping server

serverVars == <<err, started, opts>>
clientVars == <<link, route, subs, links>>
cbVars     == <<cb, cbTodo, cbTopic, cbHandler>>
vars       == <<serverVars, clientVars, cbVars, reg, start, stop, missed, late>>

Callbacks == 1 .. MaxLinks

\* Types, and: the keys a Range has to visit are stored keys, so that the value
\* the callback passes to Subscribe is never nil.
TypeOK ==
    /\ err \in BOOLEAN
    /\ started \in BOOLEAN
    /\ opts \in [Topics -> Handlers \cup {None}]
    /\ link \in {"down", "connecting", "up", "lost"}
    /\ route \in [Topics -> Handlers \cup {None}]
    /\ subs \subseteq Topics
    /\ reg \in [Handlers -> {"idle", "stored", "subscribe", "wait", "done"}]
    /\ cb \in [Callbacks -> {"idle", "spawned", "range", "subscribe", "wait", "done"}]
    /\ cbTodo \in [Callbacks -> SUBSET {t \in Topics : opts[t] # None}]
    /\ cbTopic \in [Callbacks -> Topics \cup {None}]
    /\ cbHandler \in [Callbacks -> Handlers \cup {None}]
    /\ \A g \in Callbacks : cb[g] \in {"subscribe", "wait"} =>
            cbTopic[g] \in Topics /\ cbHandler[g] \in Handlers
    /\ start \in {"idle", "wait", "set"}
    /\ stop \in {"idle", "disconnect"}
    /\ links \in 0 .. MaxLinks
    /\ missed \subseteq Handlers
    /\ late \in BOOLEAN

Init ==
    /\ err = FALSE
    /\ started = FALSE
    /\ opts = [t \in Topics |-> None]
    /\ link = "down"
    /\ route = [t \in Topics |-> None]
    /\ subs = {}
    /\ reg = [h \in Handlers |-> "idle"]
    /\ cb = [g \in Callbacks |-> "idle"]
    /\ cbTodo = [g \in Callbacks |-> {}]
    /\ cbTopic = [g \in Callbacks |-> None]
    /\ cbHandler = [g \in Callbacks |-> None]
    /\ start = "idle"
    /\ stop = "idle"
    /\ links = 0
    /\ missed = {}
    /\ late = FALSE

--------------------------------------------------------------------------------
(* The MQTT client.                                                         *)

\* paho's IsConnected, which guards Connect, Disconnect, publish and Subscribe.
IsConnected == link \in {"up", "lost"}

\* Faulty variant: OnConnect runs for the first connection only.
EstablishedOnce ==
    /\ links < MaxLinks
    /\ links' = links + 1
    /\ link' = "up"
    /\ subs' = {}
    /\ cb' = IF links = 0 THEN [cb EXCEPT ![1] = "spawned"] ELSE cb
    /\ UNCHANGED <<route, cbTodo, cbTopic, cbHandler>>

\* A (re)connection: a fresh session, and a goroutine that runs OnConnect.
Established ==
    /\ links < MaxLinks
    /\ links' = links + 1
    /\ link' = "up"
    /\ subs' = {}
    /\ cb' = [cb EXCEPT ![links + 1] = "spawned"]
    /\ UNCHANGED <<route, cbTodo, cbTopic, cbHandler>>

\* The connection breaks; onConnectionLost only logs, paho will reconnect.
LinkLost ==
    /\ link = "up"
    /\ link' = "lost"
    /\ subs' = {}
    /\ missed' = {}
    /\ UNCHANGED <<serverVars, route, links, cbVars, reg, start, stop, late>>

Reconnect ==
    /\ link = "lost"
    /\ Established
    /\ UNCHANGED <<serverVars, reg, start, stop, missed, late>>

--------------------------------------------------------------------------------
(* Server.Start and Server.Stop.                                            *)

\* Faulty variant: a kept error does not stop Start.
StartCallAgain ==
    /\ start = "idle"
    /\ ~started
    /\ IF IsConnected
       THEN start' = "set" /\ UNCHANGED link
       ELSE start' = "wait" /\ link' = "connecting"
    /\ UNCHANGED <<serverVars, route, subs, links, cbVars, reg, stop, missed, late>>

\* Start up to Connect, which returns at once when the client is connected.
StartCall ==
    /\ start = "idle"
    /\ ~err
    /\ ~started
    /\ IF IsConnected
       THEN start' = "set" /\ UNCHANGED link
       ELSE start' = "wait" /\ link' = "connecting"
    /\ UNCHANGED <<serverVars, route, subs, links, cbVars, reg, stop, missed, late>>

ConnectOk ==
    /\ start = "wait"
    /\ Established
    /\ start' = "set"
    /\ UNCHANGED <<serverVars, reg, stop, missed, late>>

\* The error stays in Server.err: every later Start returns it.
ConnectFail ==
    /\ start = "wait"
    /\ err' = TRUE
    /\ link' = "down"
    /\ start' = "idle"
    /\ UNCHANGED <<started, opts, route, subs, links, cbVars, reg, stop, missed, late>>

\* started = true, by Start or by an OnConnect callback.
MarkStarted ==
    /\ started' = TRUE
    /\ late' = (late \/ ~IsConnected \/ stop = "disconnect")

StartReturn ==
    /\ start = "set"
    /\ MarkStarted
    /\ start' = "idle"
    /\ UNCHANGED <<err, opts, clientVars, cbVars, reg, stop, missed>>

\* Faulty variant: Stop forgets started = false.
StopCallKeep ==
    /\ stop = "idle"
    /\ stop' = "disconnect"
    /\ late' = FALSE
    /\ UNCHANGED <<serverVars, clientVars, cbVars, reg, start, missed>>

StopCall ==
    /\ stop = "idle"
    /\ started' = FALSE
    /\ stop' = "disconnect"
    /\ late' = FALSE
    /\ UNCHANGED <<err, opts, clientVars, cbVars, reg, start, missed>>

\* mqttBroker.Disconnect.  The subscribe tokens that are waiting fail.
Disconnect ==
    /\ stop = "disconnect"
    /\ stop' = "idle"
    /\ IF IsConnected
       THEN /\ link' = "down"
            /\ subs' = {}
            /\ missed' = {}
            /\ cb' = [g \in Callbacks |-> IF cb[g] = "wait" THEN "range" ELSE cb[g]]
            /\ reg' = [h \in Handlers |-> IF reg[h] = "wait" THEN "done" ELSE reg[h]]
       ELSE UNCHANGED <<link, subs, missed, cb, reg>>
    /\ UNCHANGED <<serverVars, route, links, cbTodo, cbTopic, cbHandler, start, late>>

--------------------------------------------------------------------------------
(* RegisterSubscriber.                                                      *)

\* subscriberOpts.Store(topic, ...)
Store(h) ==
    /\ reg[h] = "idle"
    /\ opts' = [opts EXCEPT ![Topic[h]] = h]
    /\ reg' = [reg EXCEPT ![h] = "stored"]
    /\ UNCHANGED <<err, started, clientVars, cbVars, start, stop, missed, late>>

\* if s.started: a server that is not started leaves the rest to OnConnect.
CheckStarted(h) ==
    /\ reg[h] = "stored"
    /\ reg' = [reg EXCEPT ![h] = IF started THEN "subscribe" ELSE "done"]
    /\ missed' = IF ~started /\ link = "up" THEN missed \cup {h} ELSE missed
    /\ UNCHANGED <<serverVars, clientVars, cbVars, start, stop, late>>

\* mqttBroker.Subscribe up to the token: it fails unless the link is up, and
\* the callback replaces the one the topic had.
RegSubscribe(h) ==
    /\ reg[h] = "subscribe"
    /\ IF link = "up"
       THEN /\ route' = [route EXCEPT ![Topic[h]] = h]
            /\ reg' = [reg EXCEPT ![h] = "wait"]
       ELSE /\ reg' = [reg EXCEPT ![h] = "done"]
            /\ UNCHANGED route
    /\ UNCHANGED <<serverVars, link, subs, links, cbVars, start, stop, missed, late>>

\* checkClientToken: the SUBACK arrives.
RegAck(h) ==
    /\ reg[h] = "wait"
    /\ link = "up"
    /\ subs' = subs \cup {Topic[h]}
    /\ reg' = [reg EXCEPT ![h] = "done"]
    /\ UNCHANGED <<serverVars, link, route, links, cbVars, start, stop, missed, late>>

--------------------------------------------------------------------------------
(* The OnConnect callback: doRegisterSubscriberMap, then started = true.    *)

\* sync.Map.Range visits the keys present when it begins ...
RangeBegin(g) ==
    /\ cb[g] = "spawned"
    /\ cb' = [cb EXCEPT ![g] = "range"]
    /\ cbTodo' = [cbTodo EXCEPT ![g] = {t \in Topics : opts[t] # None}]
    /\ UNCHANGED <<serverVars, clientVars, cbTopic, cbHandler, reg, start, stop, missed, late>>

\* ... and loads the value of each one when it comes to it.
RangeLoad(g, t) ==
    /\ cb[g] = "range"
    /\ t \in cbTodo[g]
    /\ cb' = [cb EXCEPT ![g] = "subscribe"]
    /\ cbTodo' = [cbTodo EXCEPT ![g] = @ \ {t}]
    /\ cbTopic' = [cbTopic EXCEPT ![g] = t]
    /\ cbHandler' = [cbHandler EXCEPT ![g] = opts[t]]
    /\ UNCHANGED <<serverVars, clientVars, reg, start, stop, missed, late>>

\* doRegisterSubscriber, whose error is ignored.
CbSubscribe(g) ==
    /\ cb[g] = "subscribe"
    /\ IF link = "up"
       THEN /\ route' = [route EXCEPT ![cbTopic[g]] = cbHandler[g]]
            /\ cb' = [cb EXCEPT ![g] = "wait"]
       ELSE /\ cb' = [cb EXCEPT ![g] = "range"]
            /\ UNCHANGED route
    /\ UNCHANGED <<serverVars, link, subs, links, cbTodo, cbTopic, cbHandler,
                   reg, start, stop, missed, late>>

CbAck(g) ==
    /\ cb[g] = "wait"
    /\ link = "up"
    /\ subs' = subs \cup {cbTopic[g]}
    /\ cb' = [cb EXCEPT ![g] = "range"]
    /\ UNCHANGED <<serverVars, link, route, links, cbTodo, cbTopic, cbHandler,
                   reg, start, stop, missed, late>>

\* Faulty variant: the callback may give up before the last key, as a Range
\* whose function returns false does.
RangeEndEarly(g) ==
    /\ cb[g] = "range"
    /\ cb' = [cb EXCEPT ![g] = "done"]
    /\ IF OnConnectStarts THEN MarkStarted ELSE UNCHANGED <<started, late>>
    /\ UNCHANGED <<err, opts, clientVars, cbTodo, cbTopic, cbHandler, reg, start, stop, missed>>

RangeEnd(g) ==
    /\ cb[g] = "range"
    /\ cbTodo[g] = {}
    /\ cb' = [cb EXCEPT ![g] = "done"]
    /\ IF OnConnectStarts THEN MarkStarted ELSE UNCHANGED <<started, late>>
    /\ UNCHANGED <<err, opts, clientVars, cbTodo, cbTopic, cbHandler, reg, start, stop, missed>>

--------------------------------------------------------------------------------
CallbackStep(g) ==
    \/ RangeBegin(g)
    \/ \E t \in Topics : RangeLoad(g, t)
    \/ CbSubscribe(g)
    \/ CbAck(g)
    \/ RangeEnd(g)

RegisterStep(h) == CheckStarted(h) \/ RegSubscribe(h) \/ RegAck(h)

LinkStep == LinkLost \/ Reconnect

LifecycleStep == StartCall \/ ConnectOk \/ ConnectFail \/ StartReturn \/ StopCall \/ Disconnect

Next ==
    \/ LifecycleStep
    \/ LinkStep
    \/ \E h \in Handlers : Store(h) \/ RegisterStep(h)
    \/ \E g \in Callbacks : CallbackStep(g)

Spec == Init /\ [][Next]_vars

\* Goroutines that have begun keep running and the broker answers a SUBSCRIBE
\* on a live link.  Nobody owes a Start, a Stop, a registration or a reconnection.
Fairness ==
    /\ \A h \in Handlers : WF_vars(RegisterStep(h))
    /\ \A g \in Callbacks : WF_vars(CallbackStep(g))
    /\ WF_vars(StartReturn)
    /\ WF_vars(Disconnect)

FairSpec == Spec /\ Fairness

--------------------------------------------------------------------------------
(* Properties.                                                              *)

\* Some OnConnect goroutine has still to subscribe to topic t.
CallbackOwes(t) ==
    \E g \in Callbacks :
        \/ cb[g] = "spawned"
        \/ cb[g] \in {"range", "subscribe", "wait"} /\ t \in cbTodo[g]
        \/ cb[g] \in {"subscribe", "wait"} /\ cbTopic[g] = t

\* On a live connection every registered topic is subscribed at the broker or
\* somebody is about to subscribe it: the goroutine of its RegisterSubscriber
\* or an OnConnect callback.  Storing the option before reading started is what
\* makes this true.  The one exception is a registration that saw started =
\* FALSE on a connection that was already up (the window between Connect and
\* started = true in Start), which nobody completes until the next connection.
NoLostSubscription ==
    link = "up" =>
        \A t \in Topics :
            \/ opts[t] = None
            \/ opts[t] \in missed
            \/ t \in subs
            \/ reg[opts[t]] \in {"stored", "subscribe", "wait"}
            \/ CallbackOwes(t)

\* While neither Start nor Stop is running, started tells whether the client
\* holds a connection, so that RegisterSubscriber subscribes exactly when it
\* can and Start connects exactly when it must.  The exception is a started =
\* true that an OnConnect callback (or a Start) executes after Stop.
StartedIffConnected ==
    start = "idle" /\ stop = "idle" /\ ~late => (started <=> IsConnected)

\* A Start whose Connect failed is final: the error is kept, so the client
\* never leaves "down" again whatever Start, Stop and callbacks do later.
FailedStartIsFinal == err => link = "down" /\ start = "idle"

\* A registered topic is eventually subscribed unless its connection ends or
\* the registration fell into the window NoLostSubscription describes.
EventuallySubscribed ==
    \A t \in Topics :
        opts[t] # None /\ link = "up" ~> t \in subs \/ link # "up" \/ opts[t] \in missed

================================================================================
