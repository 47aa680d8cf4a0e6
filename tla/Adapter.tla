-------------------------------- MODULE Adapter --------------------------------
(***************************************************************************)
(* The broker adapter as an object: broker/options.go, the constructor,    *)
(* Init, Connect, ConnectRetry and Disconnect of broker/mqtt/mqtt.go, and  *)
(* setAddrs and the token checks of utils.go.  The paho client is built    *)
(* once, from the options given to the constructor; Init changes the       *)
(* broker's options and addresses afterwards, never the client.            *)
(*                                                                         *)
(* An address is its scheme ("" when it names none), its port (NoPort, a   *)
(* number, or 0 for text that is none) and whether the text is empty.      *)
(***************************************************************************)
EXTENDS Integers, Sequences, SequencesExt

CONSTANTS
    Options,   \* options an application passes: records [set, to]
    MaxLoops   \* bound: retry goroutines, and attempts nobody waits for

VARIABLES
    mopts,    \* mqttBroker.opts
    maddrs,   \* mqttBroker.addrs
    client,   \* what the paho client was built with
    conn,     \* "down", "up", or "lost" while paho reconnects
    loops,    \* goroutines of ConnectRetry that still try
    pending,  \* attempts still running after their waiter gave up
    asked,    \* ghost: ConnectRetry was called and no connection came up since
    outlived  \* ghost: an attempt outlived its deadline

adapterVars == <<mopts, maddrs, client, conn, loops, pending, asked, outlived>>

NoPort == -1
Unset == "unset"

NewOptions ==
    [addrs |-> <<>>, ClientId |-> Unset, Secure |-> FALSE, TLSConfig |-> FALSE,
     OnConnect |-> FALSE, Disconnect |-> FALSE,
     Context |-> [k \in {"clientId", "cleanSession", "autoReconnect"} |-> Unset]]

\* One option function.  WithOptionContext has no effect, as the context is
\* never nil; a TLS configuration switches security on and nil leaves it.
ApplyOption(o, opt) ==
    CASE opt.set = "TLSConfig" ->
             [o EXCEPT !.TLSConfig = opt.to, !.Secure = @ \/ opt.to]
      [] opt.set \in DOMAIN o.Context -> [o EXCEPT !.Context[opt.set] = opt.to]
      [] opt.set = "OptionContext" -> o
      [] OTHER -> [o EXCEPT ![opt.set] = opt.to]

Apply(o, opts) == FoldLeft(ApplyOption, o, opts)

\* newClient: addresses as they were given, and settings from the context.
NewClient(o) ==
    [servers |-> o.addrs,
     id |-> IF o.Context["clientId"] = Unset THEN "generated" ELSE o.Context["clientId"],
     clean |-> o.Context["cleanSession"] # "off",
     auto |-> o.Context["autoReconnect"] # "off",
     tls |-> o.TLSConfig]

DefaultPort(scheme) ==
    CASE scheme = "tcp" -> 1883 [] scheme = "ssl" -> 8883 [] scheme = "ws" -> 80

Normal(a) ==
    LET scheme == IF a.scheme = "" THEN "tcp" ELSE a.scheme IN
        [empty |-> FALSE, scheme |-> scheme,
         port |-> IF a.port = NoPort THEN DefaultPort(scheme) ELSE a.port]

Usable(a) == ~a.empty /\ a.scheme \in {"", "tcp", "ssl", "ws"}

\* Faulty variant: there is no default address.
SetAddrsNoDefault(addrs) ==
    LET good == SelectSeq(addrs, Usable) IN [i \in DOMAIN good |-> Normal(good[i])]

SetAddrs(addrs) ==
    LET good == SelectSeq(addrs, Usable) IN
        IF DOMAIN good = {} THEN <<[empty |-> FALSE, scheme |-> "tcp", port |-> 1883]>>
        ELSE [i \in DOMAIN good |-> Normal(good[i])]

--------------------------------------------------------------------------------

\* newBroker: a client id in the context replaces the one in the options.
AdapterInit ==
    \E o1, o2 \in Options :
        LET o == Apply(NewOptions, <<o1, o2>>) IN
            /\ mopts = IF o.Context["clientId"] = Unset THEN o
                       ELSE [o EXCEPT !.ClientId = o.Context["clientId"]]
            /\ maddrs = o.addrs
            /\ client = NewClient(o)
            /\ conn = "down"
            /\ loops = 0 /\ pending = 0
            /\ asked = FALSE /\ outlived = FALSE

\* mqttBroker.Init fails on a connected client.
InitBroker(opt) ==
    /\ conn = "down"
    /\ mopts' = ApplyOption(mopts, opt)
    /\ maddrs' = SetAddrs(mopts'.addrs)
    /\ UNCHANGED <<client, conn, loops, pending, asked, outlived>>

\* paho: an attempt succeeds only if there is a server; a client that is
\* connected or reconnecting answers a further attempt with success.
Succeeds ==
    /\ conn # "down" \/ client.servers # <<>>
    /\ conn' = IF conn = "down" THEN "up" ELSE conn
    /\ asked' = FALSE

\* Connect waits for the token without a deadline.
Connect ==
    /\ conn = "down"
    /\ Succeeds
    /\ UNCHANGED <<mopts, maddrs, client, loops, pending, outlived>>

\* An attempt that takes longer than five seconds counts as a success:
\* checkClientTokenTimeout reports an error only of a finished attempt.
Outlives ==
    /\ client.servers # <<>>
    /\ pending < MaxLoops
    /\ pending' = pending + 1
    /\ outlived' = TRUE
    /\ UNCHANGED conn

ConnectRetry ==
    /\ conn = "down"
    /\ \/ Succeeds /\ UNCHANGED <<loops, pending, outlived>>
       \/ Outlives /\ asked' = TRUE /\ UNCHANGED loops
       \/ /\ loops < MaxLoops
          /\ loops' = loops + 1
          /\ asked' = TRUE
          /\ UNCHANGED <<conn, pending, outlived>>
    /\ UNCHANGED <<mopts, maddrs, client>>

\* Faulty variant: the goroutine ends with its first attempt.
RetryOnce ==
    /\ loops > 0
    /\ loops' = loops - 1
    /\ \/ Succeeds /\ UNCHANGED <<pending, outlived>>
       \/ UNCHANGED <<conn, pending, asked, outlived>>
    /\ UNCHANGED <<mopts, maddrs, client>>

\* The goroutine: try, sleep after an error, and end after a success.
Retry ==
    /\ loops > 0
    /\ loops' = loops - 1
    /\ \/ Succeeds /\ UNCHANGED <<pending, outlived>>
       \/ Outlives /\ UNCHANGED asked
    /\ UNCHANGED <<mopts, maddrs, client>>

\* An attempt nobody waits for succeeds or fails.
Resolve ==
    /\ pending > 0
    /\ pending' = pending - 1
    /\ \/ Succeeds
       \/ UNCHANGED <<conn, asked>>
    /\ UNCHANGED <<mopts, maddrs, client, loops, outlived>>

\* onConnectionLost reads addrs[0]; paho then reconnects if it was told to.
ConnectionLost ==
    /\ conn = "up"
    /\ conn' = IF client.auto THEN "lost" ELSE "down"
    /\ UNCHANGED <<mopts, maddrs, client, loops, pending, asked, outlived>>

Reconnected ==
    /\ conn = "lost"
    /\ conn' = "up"
    /\ UNCHANGED <<mopts, maddrs, client, loops, pending, asked, outlived>>

\* Disconnect stops no retry goroutine.
DisconnectBroker ==
    /\ conn # "down"
    /\ conn' = "down"
    /\ UNCHANGED <<mopts, maddrs, client, loops, pending, asked, outlived>>

AdapterNext ==
    \/ \E opt \in Options : InitBroker(opt)
    \/ Connect \/ ConnectRetry \/ Retry \/ Resolve
    \/ ConnectionLost \/ Reconnected \/ DisconnectBroker

AdapterSpec == AdapterInit /\ [][AdapterNext]_adapterVars

--------------------------------------------------------------------------------

\* The callback for a lost connection may read addrs[0]: the address list of a
\* broker with a connection is not empty, whichever options the constructor and
\* Init were given and however the connection came up: mqtt.go:94, 138, 286.
LostCallbackSafe == conn # "down" => maddrs # <<>>

\* After ConnectRetry a connection has come up or somebody is still trying,
\* even across a Disconnect and attempts of other callers.  The exception is an
\* attempt that outlived its deadline: it is taken for a success, and nobody
\* tries again when it fails: mqtt.go:157-179, utils.go:95-100.
RetryCovered == asked => loops > 0 \/ pending > 0 \/ outlived

================================================================================
