---------------------------- MODULE TransportProofs ----------------------------
(***************************************************************************)
(* Safety of Transport for any topics, handlers and number of connections: *)
(* types, the life cycle of a server, and that no registration is lost.    *)
(***************************************************************************)
EXTENDS Transport, TLAPS

\* Every step of the goroutines, as the cases of the proofs below.
LEMMA NextCases ==
    ASSUME Next, NEW P,
           StartCall => P, ConnectOk => P, ConnectFail => P, StartReturn => P,
           StopCall => P, Disconnect => P, LinkLost => P, Reconnect => P,
           \A h \in Handlers : Store(h) => P,
           \A h \in Handlers : CheckStarted(h) => P,
           \A h \in Handlers : RegSubscribe(h) => P,
           \A h \in Handlers : RegAck(h) => P,
           \A g \in Callbacks : RangeBegin(g) => P,
           \A g \in Callbacks, t \in Topics : RangeLoad(g, t) => P,
           \A g \in Callbacks : CbSubscribe(g) => P,
           \A g \in Callbacks : CbAck(g) => P,
           \A g \in Callbacks : RangeEnd(g) => P
    PROVE  P
BY Zenon DEF Next, LifecycleStep, LinkStep, RegisterStep, CallbackStep

--------------------------------------------------------------------------------
\* A callback id for the connection that Established makes.
LEMMA NextCallback ==
    ASSUME TypeOK, links < MaxLinks
    PROVE  links + 1 \in Callbacks /\ links + 1 \in 0 .. MaxLinks
BY BoundAssumption DEF TypeOK, Callbacks

\* Types are kept by every step of the goroutines.
LEMMA TypeInductive ==
    ASSUME TypeOK, [Next]_vars
    PROVE  TypeOK'
<1> USE TopicAssumption, NoneAssumption
<1>1. CASE Next
  <2>1. StartCall => TypeOK'
    BY DEF StartCall, TypeOK, serverVars, cbVars
  <2>2. ConnectOk => TypeOK'
    BY NextCallback DEF ConnectOk, Established, TypeOK, serverVars
  <2>3. ConnectFail => TypeOK'
    BY DEF ConnectFail, TypeOK, cbVars
  <2>4. StartReturn => TypeOK'
    BY DEF StartReturn, MarkStarted, IsConnected, TypeOK, clientVars, cbVars
  <2>5. StopCall => TypeOK'
    BY DEF StopCall, TypeOK, clientVars, cbVars
  <2>6. Disconnect => TypeOK'
    BY DEF Disconnect, TypeOK, serverVars
  <2>7. LinkLost => TypeOK'
    BY DEF LinkLost, TypeOK, serverVars, cbVars
  <2>8. Reconnect => TypeOK'
    BY NextCallback DEF Reconnect, Established, TypeOK, serverVars
  <2>9. ASSUME NEW h \in Handlers, Store(h) PROVE TypeOK'
    <3>1. opts' \in [Topics -> Handlers \cup {None}]
      BY <2>9 DEF Store, TypeOK
    <3>2. \A t \in Topics : opts[t] # None => opts'[t] # None
      BY <2>9 DEF Store, TypeOK
    <3>3. cbTodo' \in [Callbacks -> SUBSET {t \in Topics : opts'[t] # None}]
      BY <2>9, <3>2 DEF Store, TypeOK, cbVars
    <3> QED
      BY <2>9, <3>1, <3>3 DEF Store, TypeOK, clientVars, cbVars
  <2>10. ASSUME NEW h \in Handlers, CheckStarted(h) PROVE TypeOK'
    BY <2>10 DEF CheckStarted, TypeOK, serverVars, clientVars, cbVars
  <2>11. ASSUME NEW h \in Handlers, RegSubscribe(h) PROVE TypeOK'
    BY <2>11 DEF RegSubscribe, TypeOK, serverVars, cbVars
  <2>12. ASSUME NEW h \in Handlers, RegAck(h) PROVE TypeOK'
    BY <2>12 DEF RegAck, TypeOK, serverVars, cbVars
  <2>13. ASSUME NEW g \in Callbacks, RangeBegin(g) PROVE TypeOK'
    BY <2>13 DEF RangeBegin, TypeOK, serverVars, clientVars
  <2>14. ASSUME NEW g \in Callbacks, NEW t \in Topics, RangeLoad(g, t) PROVE TypeOK'
    <3>1. opts[t] \in Handlers
      BY <2>14 DEF RangeLoad, TypeOK
    <3> QED
      BY <2>14, <3>1 DEF RangeLoad, TypeOK, serverVars, clientVars
  <2>15. ASSUME NEW g \in Callbacks, CbSubscribe(g) PROVE TypeOK'
    BY <2>15 DEF CbSubscribe, TypeOK, serverVars
  <2>16. ASSUME NEW g \in Callbacks, CbAck(g) PROVE TypeOK'
    BY <2>16 DEF CbAck, TypeOK, serverVars
  <2>17. ASSUME NEW g \in Callbacks, RangeEnd(g) PROVE TypeOK'
    BY <2>17 DEF RangeEnd, MarkStarted, IsConnected, TypeOK, clientVars
  <2> QED
    BY <1>1, <2>1, <2>2, <2>3, <2>4, <2>5, <2>6, <2>7, <2>8, <2>9, <2>10, <2>11,
       <2>12, <2>13, <2>14, <2>15, <2>16, <2>17, NextCases, Zenon
<1>2. CASE UNCHANGED vars
  BY <1>2 DEF TypeOK, vars, serverVars, clientVars, cbVars
<1> QED
  BY <1>1, <1>2

\* Type correctness: in particular no OnConnect callback subscribes with a
\* topic or a handler it did not read from subscriberOpts.
THEOREM TypeCorrect == Spec => []TypeOK
<1>1. Init => TypeOK
  <2> SUFFICES ASSUME Init PROVE TypeOK
    OBVIOUS
  <2>1. links \in 0 .. MaxLinks
    BY BoundAssumption DEF Init
  <2>2. cbTodo \in [Callbacks -> SUBSET {t \in Topics : opts[t] # None}]
    BY DEF Init
  <2>3. \A g \in Callbacks : cb[g] = "idle"
    BY DEF Init
  <2> QED
    BY <2>1, <2>2, <2>3 DEF Init, TypeOK
<1>2. TypeOK /\ [Next]_vars => TypeOK'
  BY TypeInductive
<1> QED
  BY <1>1, <1>2, PTL DEF Spec

--------------------------------------------------------------------------------
(* The life cycle of a server.                                              *)

\* StartedIffConnected is not inductive: it says nothing while Start or Stop
\* runs.  The invariant covers these windows too.
LifecycleInv ==
    /\ link = "connecting" <=> start = "wait"
    /\ FailedStartIsFinal
    /\ started /\ ~late => IsConnected /\ stop = "idle"
    /\ IsConnected /\ ~started /\ stop = "idle" => start = "set"

LEMMA LifecycleInductive ==
    ASSUME TypeOK, LifecycleInv, [Next]_vars
    PROVE  LifecycleInv'
<1> USE DEF LifecycleInv, FailedStartIsFinal, IsConnected, TypeOK
<1>1. CASE Next
  <2>1. StartCall => LifecycleInv'
    BY DEF StartCall, serverVars
  <2>2. ConnectOk => LifecycleInv'
    BY DEF ConnectOk, Established, serverVars
  <2>3. ConnectFail => LifecycleInv'
    BY DEF ConnectFail
  <2>4. ASSUME StartReturn PROVE LifecycleInv'
    <3>1. ~late' => IsConnected /\ stop # "disconnect"
      BY <2>4 DEF StartReturn, MarkStarted
    <3>2. started' = TRUE /\ start' = "idle" /\ UNCHANGED <<err, link, stop>>
      BY <2>4 DEF StartReturn, MarkStarted, clientVars
    <3>3. ~err /\ link # "connecting"
      BY <2>4 DEF StartReturn
    <3> QED
      BY <3>1, <3>2, <3>3
  <2>5. StopCall => LifecycleInv'
    BY DEF StopCall, clientVars
  <2>6. Disconnect => LifecycleInv'
    BY DEF Disconnect, serverVars
  <2>7. LinkLost => LifecycleInv'
    BY DEF LinkLost, serverVars
  <2>8. Reconnect => LifecycleInv'
    BY DEF Reconnect, Established, serverVars
  <2>9. ASSUME NEW h \in Handlers, Store(h) PROVE LifecycleInv'
    BY <2>9 DEF Store, clientVars
  <2>10. ASSUME NEW h \in Handlers, CheckStarted(h) PROVE LifecycleInv'
    BY <2>10 DEF CheckStarted, serverVars, clientVars
  <2>11. ASSUME NEW h \in Handlers, RegSubscribe(h) PROVE LifecycleInv'
    BY <2>11 DEF RegSubscribe, serverVars
  <2>12. ASSUME NEW h \in Handlers, RegAck(h) PROVE LifecycleInv'
    BY <2>12 DEF RegAck, serverVars
  <2>13. ASSUME NEW g \in Callbacks, RangeBegin(g) PROVE LifecycleInv'
    BY <2>13 DEF RangeBegin, serverVars, clientVars
  <2>14. ASSUME NEW g \in Callbacks, NEW t \in Topics, RangeLoad(g, t) PROVE LifecycleInv'
    BY <2>14 DEF RangeLoad, serverVars, clientVars
  <2>15. ASSUME NEW g \in Callbacks, CbSubscribe(g) PROVE LifecycleInv'
    BY <2>15 DEF CbSubscribe, serverVars
  <2>16. ASSUME NEW g \in Callbacks, CbAck(g) PROVE LifecycleInv'
    BY <2>16 DEF CbAck, serverVars
  <2>17. ASSUME NEW g \in Callbacks, RangeEnd(g) PROVE LifecycleInv'
    BY <2>17 DEF RangeEnd, MarkStarted, clientVars
  <2> QED
    BY <1>1, <2>1, <2>2, <2>3, <2>4, <2>5, <2>6, <2>7, <2>8, <2>9, <2>10, <2>11,
       <2>12, <2>13, <2>14, <2>15, <2>16, <2>17, NextCases, Zenon
<1>2. CASE UNCHANGED vars
  BY <1>2 DEF vars, serverVars, clientVars
<1> QED
  BY <1>1, <1>2

LEMMA LifecycleInvariant == Spec => []LifecycleInv
<1>1. Init => LifecycleInv
  BY DEF Init, LifecycleInv, FailedStartIsFinal, IsConnected
<1>2. TypeOK /\ LifecycleInv /\ [Next]_vars => LifecycleInv'
  BY LifecycleInductive
<1> QED
  BY <1>1, <1>2, TypeCorrect, PTL DEF Spec

\* Outside Start and Stop, started agrees with the state of the connection,
\* unless it was set after Stop, for any number of reconnections and restarts.
THEOREM StartedAgrees == Spec => []StartedIffConnected
<1>1. LifecycleInv => StartedIffConnected
  BY DEF LifecycleInv, StartedIffConnected
<1> QED
  BY <1>1, LifecycleInvariant, PTL

\* A failed Start is never undone.
THEOREM FailureIsFinal == Spec => []FailedStartIsFinal
<1>1. LifecycleInv => FailedStartIsFinal
  BY DEF LifecycleInv
<1> QED
  BY <1>1, LifecycleInvariant, PTL

--------------------------------------------------------------------------------
(* No registration is lost.                                                 *)

\* A stored handler is stored under its own topic, so that its Subscribe
\* subscribes the key it stored.
OptsInv == \A t \in Topics : opts[t] # None => Topic[opts[t]] = t

SubscriptionInv == OptsInv /\ NoLostSubscription

LEMMA OptsInductive ==
    ASSUME TypeOK, OptsInv, [Next]_vars
    PROVE  OptsInv'
<1>1. ASSUME NEW h \in Handlers, Store(h) PROVE OptsInv'
  BY <1>1, TopicAssumption DEF Store, OptsInv, TypeOK
<1>2. CASE UNCHANGED opts
  BY <1>2 DEF OptsInv
<1>3. (\E h \in Handlers : Store(h)) \/ UNCHANGED opts
  BY DEF Next, LifecycleStep, LinkStep, RegisterStep, CallbackStep, vars, serverVars,
         StartCall, ConnectOk, ConnectFail, StartReturn, StopCall, Disconnect, LinkLost,
         Reconnect, CheckStarted, RegSubscribe, RegAck, RangeBegin, RangeLoad,
         CbSubscribe, CbAck, RangeEnd
<1> QED
  BY <1>1, <1>2, <1>3

\* What is owed for topic t on a live connection, for a fixed topic.
Owed(t) ==
    \/ opts[t] = None
    \/ opts[t] \in missed
    \/ t \in subs
    \/ reg[opts[t]] \in {"stored", "subscribe", "wait"}
    \/ CallbackOwes(t)

LEMMA OwedMeaning == NoLostSubscription <=> (link = "up" => \A t \in Topics : Owed(t))
BY DEF NoLostSubscription, Owed

\* A freshly spawned callback owes every topic.
LEMMA SpawnedOwes ==
    ASSUME TypeOK, Established, NEW t \in Topics
    PROVE  CallbackOwes(t)'
BY NextCallback DEF Established, CallbackOwes, TypeOK

\* A step that leaves the callbacks alone leaves what they owe alone.
LEMMA OwesUnchanged ==
    ASSUME UNCHANGED cbVars, NEW t \in Topics, CallbackOwes(t)
    PROVE  CallbackOwes(t)'
BY DEF CallbackOwes, cbVars

\* Every step keeps what is owed for a topic as long as the connection lives.
LEMMA OwedInductive ==
    ASSUME TypeOK, OptsInv, NoLostSubscription, Next, link' = "up", NEW t \in Topics
    PROVE  Owed(t)'
<1> USE TopicAssumption, NoneAssumption
<1>0. link = "up" => Owed(t)
  BY OwedMeaning
<1>1. StartCall => Owed(t)'
  BY <1>0, OwesUnchanged DEF StartCall, Owed, serverVars, IsConnected
<1>2. ConnectOk => Owed(t)'
  BY SpawnedOwes DEF ConnectOk, Owed
<1>3. ConnectFail => Owed(t)'
  BY DEF ConnectFail
<1>4. StartReturn => Owed(t)'
  BY <1>0, OwesUnchanged DEF StartReturn, Owed, clientVars
<1>5. StopCall => Owed(t)'
  BY <1>0, OwesUnchanged DEF StopCall, Owed, clientVars
<1>6. ASSUME Disconnect PROVE Owed(t)'
  <2>1. UNCHANGED <<link, subs, missed, cb, reg, opts, cbTodo, cbTopic, cbHandler>>
    BY <1>6 DEF Disconnect, serverVars
  <2> QED
    BY <1>0, <2>1, OwesUnchanged DEF Owed, cbVars
<1>7. LinkLost => Owed(t)'
  BY DEF LinkLost
<1>8. Reconnect => Owed(t)'
  BY SpawnedOwes DEF Reconnect, Owed
<1>9. ASSUME NEW h \in Handlers, Store(h) PROVE Owed(t)'
  <2>1. CASE Topic[h] = t
    BY <1>9, <2>1 DEF Store, Owed, TypeOK
  <2>2. CASE Topic[h] # t
    <3>1. opts'[t] = opts[t] /\ UNCHANGED <<link, missed, subs, cbVars>>
      BY <1>9, <2>2 DEF Store, TypeOK, clientVars
    <3>2. opts[t] # None => reg'[opts[t]] = reg[opts[t]] \/ reg'[opts[t]] = "stored"
      BY <1>9 DEF Store, TypeOK
    <3> QED
      BY <1>0, <3>1, <3>2, OwesUnchanged DEF Owed
  <2> QED
    BY <2>1, <2>2
<1>10. ASSUME NEW h \in Handlers, CheckStarted(h) PROVE Owed(t)'
  <2>1. UNCHANGED <<link, opts, subs, cbVars>>
    BY <1>10 DEF CheckStarted, serverVars, clientVars
  <2>2. CASE opts[t] = h
    BY <1>10, <2>1, <2>2 DEF CheckStarted, Owed, TypeOK
  <2>3. CASE opts[t] # h
    <3>1. missed \subseteq missed' /\ (opts[t] # None => reg'[opts[t]] = reg[opts[t]])
      BY <1>10, <2>3 DEF CheckStarted, TypeOK
    <3> QED
      BY <1>0, <2>1, <3>1, OwesUnchanged DEF Owed
  <2> QED
    BY <2>2, <2>3
<1>11. ASSUME NEW h \in Handlers, RegSubscribe(h) PROVE Owed(t)'
  <2>1. UNCHANGED <<link, opts, subs, missed, cbVars>>
    BY <1>11 DEF RegSubscribe, serverVars
  <2>2. opts[t] # None => reg'[opts[t]] = reg[opts[t]] \/ reg'[opts[t]] = "wait"
    BY <1>11, <2>1 DEF RegSubscribe, TypeOK
  <2> QED
    BY <1>0, <2>1, <2>2, OwesUnchanged DEF Owed
<1>12. ASSUME NEW h \in Handlers, RegAck(h) PROVE Owed(t)'
  <2>1. UNCHANGED <<link, opts, missed, cbVars>> /\ subs' = subs \cup {Topic[h]}
    BY <1>12 DEF RegAck, serverVars
  <2>2. CASE opts[t] = h
    BY <2>1, <2>2 DEF Owed, OptsInv
  <2>3. CASE opts[t] # h
    <3>1. opts[t] # None => reg'[opts[t]] = reg[opts[t]]
      BY <1>12, <2>3 DEF RegAck, TypeOK
    <3> QED
      BY <1>0, <2>1, <3>1, OwesUnchanged DEF Owed
  <2> QED
    BY <2>2, <2>3
<1>13. ASSUME NEW g \in Callbacks, RangeBegin(g) PROVE Owed(t)'
  <2>1. UNCHANGED <<link, opts, subs, missed, reg, cbTopic>>
    BY <1>13 DEF RangeBegin, serverVars, clientVars
  <2>2. opts[t] # None => CallbackOwes(t)'
    BY <1>13 DEF RangeBegin, CallbackOwes, TypeOK
  <2> QED
    BY <2>1, <2>2 DEF Owed
<1>14. ASSUME NEW g \in Callbacks, NEW u \in Topics, RangeLoad(g, u) PROVE Owed(t)'
  <2>1. UNCHANGED <<link, opts, subs, missed, reg>>
    BY <1>14 DEF RangeLoad, serverVars, clientVars
  <2>2. CallbackOwes(t) => CallbackOwes(t)'
    BY <1>14 DEF RangeLoad, CallbackOwes, TypeOK
  <2> QED
    BY <1>0, <2>1, <2>2 DEF Owed
<1>15. ASSUME NEW g \in Callbacks, CbSubscribe(g) PROVE Owed(t)'
  <2>1. UNCHANGED <<link, opts, subs, missed, reg>>
    BY <1>15 DEF CbSubscribe, serverVars
  <2>2. CallbackOwes(t) => CallbackOwes(t)'
    BY <1>15, <2>1 DEF CbSubscribe, CallbackOwes, TypeOK
  <2> QED
    BY <1>0, <2>1, <2>2 DEF Owed
<1>16. ASSUME NEW g \in Callbacks, CbAck(g) PROVE Owed(t)'
  <2>1. UNCHANGED <<link, opts, missed, reg>> /\ subs' = subs \cup {cbTopic[g]}
    BY <1>16 DEF CbAck, serverVars
  <2>2. CallbackOwes(t) => CallbackOwes(t)' \/ t = cbTopic[g]
    BY <1>16 DEF CbAck, CallbackOwes, TypeOK
  <2> QED
    BY <1>0, <2>1, <2>2 DEF Owed
<1>17. ASSUME NEW g \in Callbacks, RangeEnd(g) PROVE Owed(t)'
  <2>1. UNCHANGED <<link, opts, subs, missed, reg>>
    BY <1>17 DEF RangeEnd, clientVars
  <2>2. CallbackOwes(t) => CallbackOwes(t)'
    BY <1>17 DEF RangeEnd, CallbackOwes, TypeOK
  <2> QED
    BY <1>0, <2>1, <2>2 DEF Owed
<1> QED
  BY <1>1, <1>2, <1>3, <1>4, <1>5, <1>6, <1>7, <1>8, <1>9, <1>10, <1>11,
     <1>12, <1>13, <1>14, <1>15, <1>16, <1>17, NextCases, Zenon

\* For any topics, handlers, interleaving of registrations with OnConnect
\* callbacks and number of reconnections: on a live connection every stored
\* registration is subscribed or about to be, unless it was missed.
THEOREM RegistrationsSurvive == Spec => []NoLostSubscription
<1>1. Init => SubscriptionInv
  BY DEF Init, SubscriptionInv, OptsInv, NoLostSubscription
<1>2. TypeOK /\ SubscriptionInv /\ [Next]_vars => SubscriptionInv'
  <2> SUFFICES ASSUME TypeOK, SubscriptionInv, [Next]_vars PROVE SubscriptionInv'
    OBVIOUS
  <2>1. OptsInv'
    BY OptsInductive DEF SubscriptionInv
  <2>2. CASE Next
    <3>1. link' = "up" => \A t \in Topics : Owed(t)'
      BY <2>2, OwedInductive DEF SubscriptionInv
    <3> QED
      BY <2>1, <3>1 DEF SubscriptionInv, NoLostSubscription, Owed
  <2>3. CASE UNCHANGED vars
    BY <2>1, <2>3 DEF SubscriptionInv, NoLostSubscription, CallbackOwes, vars,
                      serverVars, clientVars, cbVars
  <2> QED
    BY <2>2, <2>3
<1> QED
  BY <1>1, <1>2, TypeCorrect, PTL DEF Spec, SubscriptionInv

--------------------------------------------------------------------------------
(* Messages are dispatched to a handler registered for their topic.         *)

\* A handler is stored if and only if its registration has begun.
StoredInv ==
    /\ \A h \in Handlers : reg[h] # "idle" => opts[Topic[h]] # None
    /\ \A t \in Topics : opts[t] # None => reg[opts[t]] # "idle"

\* paho's callback of a topic, and the pair an OnConnect callback has read, is
\* a handler whose registration for that very topic has begun.
RouteInv ==
    /\ \A t \in Topics : route[t] # None =>
            Topic[route[t]] = t /\ reg[route[t]] # "idle"
    /\ \A g \in Callbacks : cb[g] \in {"subscribe", "wait"} =>
            Topic[cbHandler[g]] = cbTopic[g] /\ reg[cbHandler[g]] # "idle"

\* What is subscribed, or waits for its SUBACK, has a callback.
AckInv ==
    /\ \A t \in subs : route[t] # None
    /\ \A h \in Handlers : reg[h] = "wait" => route[Topic[h]] # None
    /\ \A g \in Callbacks : cb[g] = "wait" => route[cbTopic[g]] # None

\* NoLostSubscription for every handler that RegisterSubscriber is done with,
\* also when another handler has replaced it in subscriberOpts since.
Served(h) == Topic[h] \in subs \/ CallbackOwes(Topic[h]) \/ h \in missed
DoneInv == link = "up" => \A h \in Handlers : reg[h] = "done" => Served(h)

DispatchInv == TypeOK /\ OptsInv /\ StoredInv /\ RouteInv /\ AckInv /\ DoneInv

\* What every step keeps: a registration that has begun or ended, a callback
\* that the router holds, and the number of connections.
LEMMA StepKeeps ==
    ASSUME TypeOK, [Next]_vars
    PROVE  /\ \A h \in Handlers : reg[h] # "idle" => reg'[h] # "idle"
           /\ \A h \in Handlers : reg[h] = "done" => reg'[h] = "done"
           /\ \A t \in Topics : route[t] # None => route'[t] # None
           /\ links' >= links
<1> USE NoneAssumption, TopicAssumption DEF TypeOK
<1>1. CASE Next
  <2> DEFINE P == /\ \A h \in Handlers : reg[h] # "idle" => reg'[h] # "idle"
                  /\ \A h \in Handlers : reg[h] = "done" => reg'[h] = "done"
                  /\ \A t \in Topics : route[t] # None => route'[t] # None
                  /\ links' >= links
  <2>1. StartCall => P
    BY DEF StartCall
  <2>2. ConnectOk => P
    BY DEF ConnectOk, Established
  <2>3. ConnectFail => P
    BY DEF ConnectFail
  <2>4. StartReturn => P
    BY DEF StartReturn, clientVars
  <2>5. StopCall => P
    BY DEF StopCall, clientVars
  <2>6. Disconnect => P
    BY DEF Disconnect
  <2>7. LinkLost => P
    BY DEF LinkLost
  <2>8. Reconnect => P
    BY DEF Reconnect, Established
  <2>9. ASSUME NEW h \in Handlers, Store(h) PROVE P
    BY <2>9 DEF Store, clientVars
  <2>10. ASSUME NEW h \in Handlers, CheckStarted(h) PROVE P
    BY <2>10 DEF CheckStarted, clientVars
  <2>11. ASSUME NEW h \in Handlers, RegSubscribe(h) PROVE P
    BY <2>11 DEF RegSubscribe
  <2>12. ASSUME NEW h \in Handlers, RegAck(h) PROVE P
    BY <2>12 DEF RegAck
  <2>13. ASSUME NEW g \in Callbacks, RangeBegin(g) PROVE P
    BY <2>13 DEF RangeBegin, clientVars
  <2>14. ASSUME NEW g \in Callbacks, NEW t \in Topics, RangeLoad(g, t) PROVE P
    BY <2>14 DEF RangeLoad, clientVars
  <2>15. ASSUME NEW g \in Callbacks, CbSubscribe(g) PROVE P
    BY <2>15 DEF CbSubscribe
  <2>16. ASSUME NEW g \in Callbacks, CbAck(g) PROVE P
    BY <2>16 DEF CbAck
  <2>17. ASSUME NEW g \in Callbacks, RangeEnd(g) PROVE P
    BY <2>17 DEF RangeEnd, clientVars
  <2> HIDE DEF P
  <2>18. P
    BY <1>1, <2>1, <2>2, <2>3, <2>4, <2>5, <2>6, <2>7, <2>8, <2>9, <2>10, <2>11,
       <2>12, <2>13, <2>14, <2>15, <2>16, <2>17, NextCases, Zenon
  <2> QED
    BY <2>18 DEF P
<1>2. CASE UNCHANGED vars
  BY <1>2 DEF vars, clientVars
<1> QED
  BY <1>1, <1>2

\* Store is the only step that begins a registration or writes subscriberOpts.
LEMMA StoredInductive ==
    ASSUME TypeOK, OptsInv, StoredInv, [Next]_vars
    PROVE  StoredInv'
<1> USE NoneAssumption, TopicAssumption DEF TypeOK
<1>1. ASSUME NEW h \in Handlers, Store(h) PROVE StoredInv'
  <2>1. \A k \in Handlers : reg'[k] # "idle" => reg[k] # "idle" \/ k = h
    BY <1>1 DEF Store
  <2>2. reg'[h] # "idle"
    BY <1>1 DEF Store
  <2>3. \A t \in Topics : opts'[t] = IF t = Topic[h] THEN h ELSE opts[t]
    BY <1>1 DEF Store
  <2>4. \A k \in Handlers : reg[k] # "idle" => reg'[k] # "idle"
    BY <1>1, StepKeeps
  <2> QED
    BY <2>1, <2>2, <2>3, <2>4 DEF StoredInv
<1>2. CASE UNCHANGED opts /\ \A h \in Handlers : reg'[h] = "idle" <=> reg[h] = "idle"
  BY <1>2 DEF StoredInv
<1>3. \/ \E h \in Handlers : Store(h)
      \/ UNCHANGED opts /\ \A h \in Handlers : reg'[h] = "idle" <=> reg[h] = "idle"
  <2> DEFINE Q == UNCHANGED opts /\ \A h \in Handlers : reg'[h] = "idle" <=> reg[h] = "idle"
  <2>1. CASE UNCHANGED <<opts, reg>>
    BY <2>1
  <2>2. Disconnect => Q
    BY DEF Disconnect, serverVars
  <2>3. ASSUME NEW h \in Handlers, RegisterStep(h) PROVE Q
    BY <2>3 DEF RegisterStep, CheckStarted, RegSubscribe, RegAck, serverVars
  <2>4. \/ \E h \in Handlers : Store(h) \/ RegisterStep(h)
        \/ Disconnect
        \/ UNCHANGED <<opts, reg>>
    BY DEF Next, LifecycleStep, LinkStep, CallbackStep, vars, serverVars, StartCall,
           ConnectOk, ConnectFail, StartReturn, StopCall, LinkLost, Reconnect,
           RangeBegin, RangeLoad, CbSubscribe, CbAck, RangeEnd
  <2> QED
    BY <2>1, <2>2, <2>3, <2>4
<1> QED
  BY <1>1, <1>2, <1>3

\* Subscribe routes a topic only to the handler that was registered for it.
LEMMA RouteInductive ==
    ASSUME TypeOK, OptsInv, StoredInv, RouteInv, [Next]_vars
    PROVE  RouteInv'
<1> USE NoneAssumption, TopicAssumption DEF TypeOK
<1>0. \A h \in Handlers : reg[h] # "idle" => reg'[h] # "idle"
  BY StepKeeps
<1>1. ASSUME NEW h \in Handlers, RegSubscribe(h) PROVE RouteInv'
  <2>1. \A t \in Topics : route'[t] = route[t] \/ (t = Topic[h] /\ route'[t] = h)
    BY <1>1 DEF RegSubscribe
  <2>2. reg[h] # "idle" /\ UNCHANGED <<cb, cbTopic, cbHandler>>
    BY <1>1 DEF RegSubscribe, cbVars
  <2> QED
    BY <1>0, <2>1, <2>2 DEF RouteInv
<1>2. ASSUME NEW g \in Callbacks, CbSubscribe(g) PROVE RouteInv'
  <2>1. \A t \in Topics : route'[t] = route[t] \/ (t = cbTopic[g] /\ route'[t] = cbHandler[g])
    BY <1>2 DEF CbSubscribe
  <2>2. cb[g] = "subscribe" /\ UNCHANGED <<cbTopic, cbHandler>>
    BY <1>2 DEF CbSubscribe
  <2>3. \A k \in Callbacks : cb'[k] \in {"subscribe", "wait"} => cb[k] \in {"subscribe", "wait"}
    BY <1>2 DEF CbSubscribe
  <2> QED
    BY <1>0, <2>1, <2>2, <2>3 DEF RouteInv
<1>3. ASSUME NEW g \in Callbacks, NEW t \in Topics, RangeLoad(g, t) PROVE RouteInv'
  <2>1. opts[t] # None /\ UNCHANGED route
    BY <1>3 DEF RangeLoad, clientVars
  <2>2. \A k \in Callbacks : k # g => cb'[k] = cb[k] /\ cbTopic'[k] = cbTopic[k]
                                      /\ cbHandler'[k] = cbHandler[k]
    BY <1>3 DEF RangeLoad
  <2>3. cbTopic'[g] = t /\ cbHandler'[g] = opts[t]
    BY <1>3 DEF RangeLoad
  <2>4. Topic[opts[t]] = t /\ reg[opts[t]] # "idle"
    BY <2>1 DEF OptsInv, StoredInv
  <2> QED
    BY <1>0, <2>1, <2>2, <2>3, <2>4 DEF RouteInv
<1>4. CASE /\ UNCHANGED <<route, cbTopic, cbHandler>>
           /\ \A g \in Callbacks : cb'[g] \in {"subscribe", "wait"} => cb[g] = cb'[g]
  BY <1>0, <1>4 DEF RouteInv
<1>5. \/ \E h \in Handlers : RegSubscribe(h)
      \/ \E g \in Callbacks : CbSubscribe(g) \/ \E t \in Topics : RangeLoad(g, t)
      \/ /\ UNCHANGED <<route, cbTopic, cbHandler>>
         /\ \A g \in Callbacks : cb'[g] \in {"subscribe", "wait"} => cb[g] = cb'[g]
  <2>1. CASE Next
    <3> DEFINE Q == /\ UNCHANGED <<route, cbTopic, cbHandler>>
                    /\ \A g \in Callbacks : cb'[g] \in {"subscribe", "wait"} => cb[g] = cb'[g]
    <3>1. UNCHANGED <<route, cbVars>> => Q
      BY DEF cbVars
    <3>2. Established => Q
      BY NextCallback DEF Established
    <3>3. Disconnect => Q
      BY DEF Disconnect
    <3>4. ASSUME NEW g \in Callbacks, RangeBegin(g) \/ CbAck(g) \/ RangeEnd(g) PROVE Q
      BY <3>4 DEF RangeBegin, CbAck, RangeEnd, clientVars
    <3>5. \/ Established
          \/ Disconnect
          \/ UNCHANGED <<route, cbVars>>
          \/ \E h \in Handlers : RegSubscribe(h)
          \/ \E g \in Callbacks : CallbackStep(g)
      BY <2>1 DEF Next, LifecycleStep, LinkStep, RegisterStep, clientVars, StartCall,
                  ConnectOk, ConnectFail, StartReturn, StopCall, LinkLost, Reconnect,
                  Store, CheckStarted, RegAck
    <3> QED
      BY <3>1, <3>2, <3>3, <3>4, <3>5 DEF CallbackStep
  <2>2. CASE UNCHANGED vars
    BY <2>2 DEF vars, clientVars, cbVars
  <2> QED
    BY <2>1, <2>2
<1> QED
  BY <1>1, <1>2, <1>3, <1>4, <1>5

\* A SUBACK is awaited only for a topic that was routed before.
LEMMA AckInductive ==
    ASSUME TypeOK, AckInv, [Next]_vars
    PROVE  AckInv'
<1> USE NoneAssumption, TopicAssumption DEF TypeOK
<1>0. \A t \in Topics : route[t] # None => route'[t] # None
  BY StepKeeps
<1>1. ASSUME NEW h \in Handlers, RegSubscribe(h) PROVE AckInv'
  <2>1. reg'[h] = "wait" => route'[Topic[h]] # None
    BY <1>1 DEF RegSubscribe
  <2>2. \A k \in Handlers : k # h => reg'[k] = reg[k]
    BY <1>1 DEF RegSubscribe
  <2>3. UNCHANGED <<subs, cb, cbTopic>>
    BY <1>1 DEF RegSubscribe, cbVars
  <2> QED
    BY <1>0, <2>1, <2>2, <2>3 DEF AckInv
<1>2. ASSUME NEW h \in Handlers, RegAck(h) PROVE AckInv'
  <2>1. subs' = subs \cup {Topic[h]} /\ reg[h] = "wait"
    BY <1>2 DEF RegAck
  <2>2. \A k \in Handlers : reg'[k] = "wait" => reg[k] = "wait"
    BY <1>2 DEF RegAck
  <2>3. UNCHANGED <<cb, cbTopic>>
    BY <1>2 DEF RegAck, cbVars
  <2> QED
    BY <1>0, <2>1, <2>2, <2>3 DEF AckInv
<1>3. ASSUME NEW g \in Callbacks, CbSubscribe(g) PROVE AckInv'
  <2>1. cb'[g] = "wait" => route'[cbTopic[g]] # None
    BY <1>3 DEF CbSubscribe
  <2>2. \A k \in Callbacks : k # g => cb'[k] = cb[k]
    BY <1>3 DEF CbSubscribe
  <2>3. UNCHANGED <<subs, reg, cbTopic>>
    BY <1>3 DEF CbSubscribe
  <2>4. \A k \in Callbacks : cb[k] = "wait" => cbTopic[k] \in Topics
    OBVIOUS
  <2> QED
    BY <1>0, <2>1, <2>2, <2>3, <2>4 DEF AckInv
<1>4. ASSUME NEW g \in Callbacks, CbAck(g) PROVE AckInv'
  <2>1. subs' = subs \cup {cbTopic[g]} /\ cb[g] = "wait"
    BY <1>4 DEF CbAck
  <2>2. \A k \in Callbacks : cb'[k] = "wait" => cb[k] = "wait"
    BY <1>4 DEF CbAck
  <2>3. UNCHANGED <<reg, cbTopic>>
    BY <1>4 DEF CbAck
  <2> QED
    BY <1>0, <2>1, <2>2, <2>3 DEF AckInv
<1>5. CASE /\ subs' \subseteq subs
           /\ \A h \in Handlers : reg'[h] = "wait" => reg[h] = "wait"
           /\ \A g \in Callbacks : cb'[g] = "wait" => cb[g] = "wait" /\ cbTopic'[g] = cbTopic[g]
  BY <1>0, <1>5 DEF AckInv
<1>6. \/ \E h \in Handlers : RegSubscribe(h) \/ RegAck(h)
      \/ \E g \in Callbacks : CbSubscribe(g) \/ CbAck(g)
      \/ /\ subs' \subseteq subs
         /\ \A h \in Handlers : reg'[h] = "wait" => reg[h] = "wait"
         /\ \A g \in Callbacks : cb'[g] = "wait" => cb[g] = "wait" /\ cbTopic'[g] = cbTopic[g]
  <2>1. CASE Next
    <3> DEFINE Q == /\ subs' \subseteq subs
                    /\ \A h \in Handlers : reg'[h] = "wait" => reg[h] = "wait"
                    /\ \A g \in Callbacks :
                          cb'[g] = "wait" => cb[g] = "wait" /\ cbTopic'[g] = cbTopic[g]
    <3>1. UNCHANGED <<subs, reg, cbVars>> => Q
      BY DEF cbVars
    <3>2. Established /\ UNCHANGED reg => Q
      BY NextCallback DEF Established
    <3>3. Disconnect \/ LinkLost => Q
      BY DEF Disconnect, LinkLost, cbVars
    <3>4. ASSUME NEW h \in Handlers, Store(h) \/ CheckStarted(h) PROVE Q
      BY <3>4 DEF Store, CheckStarted, clientVars, cbVars
    <3>5. ASSUME NEW g \in Callbacks, RangeBegin(g) \/ RangeEnd(g) PROVE Q
      BY <3>5 DEF RangeBegin, RangeEnd, clientVars
    <3>6. ASSUME NEW g \in Callbacks, NEW t \in Topics, RangeLoad(g, t) PROVE Q
      BY <3>6 DEF RangeLoad, clientVars
    <3>7. \/ Established /\ UNCHANGED reg
          \/ Disconnect \/ LinkLost
          \/ UNCHANGED <<subs, reg, cbVars>>
          \/ \E h \in Handlers : Store(h) \/ RegisterStep(h)
          \/ \E g \in Callbacks : CallbackStep(g)
      BY <2>1 DEF Next, LifecycleStep, LinkStep, clientVars, StartCall,
                  ConnectOk, ConnectFail, StartReturn, StopCall, Reconnect
    <3> QED
      BY <3>1, <3>2, <3>3, <3>4, <3>5, <3>6, <3>7 DEF CallbackStep, RegisterStep
  <2>2. CASE UNCHANGED vars
    BY <2>2 DEF vars, clientVars, cbVars
  <2> QED
    BY <2>1, <2>2
<1> QED
  BY <1>1, <1>2, <1>3, <1>4, <1>5, <1>6

\* Every step keeps a finished registration served as long as the connection
\* lives; a new connection spawns a callback that owes every topic.
LEMMA ServedInductive ==
    ASSUME TypeOK, StoredInv, DoneInv, Next, link' = "up", NEW h \in Handlers,
           reg'[h] = "done"
    PROVE  Served(h)'
<1> USE TopicAssumption, NoneAssumption
<1>0. link = "up" /\ reg[h] = "done" => Served(h)
  BY DEF DoneInv
<1> DEFINE t == Topic[h]
<1>t. t \in Topics
  OBVIOUS
<1>1. StartCall => Served(h)'
  BY <1>0, <1>t, OwesUnchanged DEF StartCall, Served, IsConnected
<1>2. ConnectOk => Served(h)'
  BY <1>t, SpawnedOwes DEF ConnectOk, Served
<1>3. ConnectFail => Served(h)'
  BY DEF ConnectFail
<1>4. StartReturn => Served(h)'
  BY <1>0, <1>t, OwesUnchanged DEF StartReturn, Served, clientVars
<1>5. StopCall => Served(h)'
  BY <1>0, <1>t, OwesUnchanged DEF StopCall, Served, clientVars
<1>6. ASSUME Disconnect PROVE Served(h)'
  <2>1. UNCHANGED <<link, subs, missed, cb, reg, cbTodo, cbTopic, cbHandler>>
    BY <1>6 DEF Disconnect
  <2> QED
    BY <1>0, <1>t, <2>1, OwesUnchanged DEF Served, cbVars
<1>7. LinkLost => Served(h)'
  BY DEF LinkLost
<1>8. Reconnect => Served(h)'
  BY <1>t, SpawnedOwes DEF Reconnect, Served
<1>9. ASSUME NEW k \in Handlers, Store(k) PROVE Served(h)'
  <2>1. reg[h] = "done" /\ UNCHANGED <<link, missed, subs, cbVars>>
    BY <1>9 DEF Store, TypeOK, clientVars
  <2> QED
    BY <1>0, <1>t, <2>1, OwesUnchanged DEF Served
<1>10. ASSUME NEW k \in Handlers, CheckStarted(k) PROVE Served(h)'
  <2>1. UNCHANGED <<link, subs, cbVars>> /\ missed \subseteq missed'
    BY <1>10 DEF CheckStarted, clientVars
  <2>2. reg[h] = "done" \/ h \in missed'
    BY <1>10, <2>1 DEF CheckStarted, TypeOK
  <2> QED
    BY <1>0, <1>t, <2>1, <2>2, OwesUnchanged DEF Served
<1>11. ASSUME NEW k \in Handlers, RegSubscribe(k) PROVE Served(h)'
  <2>1. UNCHANGED <<link, subs, missed, cbVars>>
    BY <1>11 DEF RegSubscribe
  <2>2. reg[h] = "done"
    BY <1>11, <2>1 DEF RegSubscribe, TypeOK
  <2> QED
    BY <1>0, <1>t, <2>1, <2>2, OwesUnchanged DEF Served
<1>12. ASSUME NEW k \in Handlers, RegAck(k) PROVE Served(h)'
  <2>1. UNCHANGED <<link, missed, cbVars>> /\ subs' = subs \cup {Topic[k]}
    BY <1>12 DEF RegAck
  <2>2. reg[h] = "done" \/ h = k
    BY <1>12 DEF RegAck, TypeOK
  <2> QED
    BY <1>0, <1>t, <2>1, <2>2, OwesUnchanged DEF Served
<1>13. ASSUME NEW g \in Callbacks, RangeBegin(g) PROVE Served(h)'
  <2>1. UNCHANGED <<reg, subs, missed>>
    BY <1>13 DEF RangeBegin, clientVars
  <2>2. opts[t] # None
    BY <2>1 DEF StoredInv
  <2>3. CallbackOwes(t)'
    BY <1>13, <1>t, <2>2 DEF RangeBegin, CallbackOwes, TypeOK
  <2> QED
    BY <2>3 DEF Served
<1>14. ASSUME NEW g \in Callbacks, NEW u \in Topics, RangeLoad(g, u) PROVE Served(h)'
  <2>1. UNCHANGED <<link, subs, missed, reg>>
    BY <1>14 DEF RangeLoad, clientVars
  <2>2. CallbackOwes(t) => CallbackOwes(t)'
    BY <1>14, <1>t DEF RangeLoad, CallbackOwes, TypeOK
  <2> QED
    BY <1>0, <2>1, <2>2 DEF Served
<1>15. ASSUME NEW g \in Callbacks, CbSubscribe(g) PROVE Served(h)'
  <2>1. UNCHANGED <<link, subs, missed, reg>>
    BY <1>15 DEF CbSubscribe
  <2>2. CallbackOwes(t) => CallbackOwes(t)'
    BY <1>15, <2>1, <1>t DEF CbSubscribe, CallbackOwes, TypeOK
  <2> QED
    BY <1>0, <2>1, <2>2 DEF Served
<1>16. ASSUME NEW g \in Callbacks, CbAck(g) PROVE Served(h)'
  <2>1. UNCHANGED <<link, missed, reg>> /\ subs' = subs \cup {cbTopic[g]}
    BY <1>16 DEF CbAck
  <2>2. CallbackOwes(t) => CallbackOwes(t)' \/ t = cbTopic[g]
    BY <1>16, <1>t DEF CbAck, CallbackOwes, TypeOK
  <2> QED
    BY <1>0, <2>1, <2>2 DEF Served
<1>17. ASSUME NEW g \in Callbacks, RangeEnd(g) PROVE Served(h)'
  <2>1. UNCHANGED <<link, subs, missed, reg>>
    BY <1>17 DEF RangeEnd, clientVars
  <2>2. CallbackOwes(t) => CallbackOwes(t)'
    BY <1>17, <1>t DEF RangeEnd, CallbackOwes, TypeOK
  <2> QED
    BY <1>0, <2>1, <2>2 DEF Served
<1> QED
  BY <1>1, <1>2, <1>3, <1>4, <1>5, <1>6, <1>7, <1>8, <1>9, <1>10, <1>11,
     <1>12, <1>13, <1>14, <1>15, <1>16, <1>17, NextCases, Zenon

\* The conjunction is inductive for the transport whatever uses it.
LEMMA DispatchInductive ==
    ASSUME DispatchInv, [Next]_vars
    PROVE  DispatchInv'
<1>1. TypeOK' /\ OptsInv' /\ StoredInv' /\ RouteInv' /\ AckInv'
  BY TypeInductive, OptsInductive, StoredInductive, RouteInductive, AckInductive
     DEF DispatchInv
<1>2. DoneInv'
  <2>1. CASE Next
    <3>1. ASSUME link' = "up", NEW h \in Handlers, reg'[h] = "done" PROVE Served(h)'
      BY <2>1, <3>1, ServedInductive DEF DispatchInv
    <3> QED
      BY <3>1 DEF DoneInv, Served
  <2>2. CASE UNCHANGED vars
    BY <2>2 DEF DispatchInv, DoneInv, Served, CallbackOwes, vars, serverVars,
                clientVars, cbVars
  <2> QED
    BY <2>1, <2>2
<1> QED
  BY <1>1, <1>2 DEF DispatchInv

================================================================================
