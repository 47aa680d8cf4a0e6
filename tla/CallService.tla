------------------------------ MODULE CallService ------------------------------
(***************************************************************************)
(* What the RPC client promises its callers, without topics, handlers,     *)
(* channels or connections: every call begins once and returns at most     *)
(* once; replies are accepted for a call only once it has begun, and only  *)
(* they write its out parameter; a call returns nil only after a reply was *)
(* accepted for it.  Replies may still be accepted, and overwrite out,     *)
(* after the call has returned.                                            *)
(***************************************************************************)
CONSTANTS
    Calls,
    Results   \* what may be found in a call's out parameter

VARIABLES
    state,     \* progress of each call
    accepted,  \* whether a reply was accepted for it
    result     \* its out parameter

callVars == <<state, accepted, result>>

CallInit ==
    /\ state = [c \in Calls |-> "idle"]
    /\ accepted = [c \in Calls |-> FALSE]
    /\ result \in [Calls -> Results]

Begin(c) ==
    /\ state[c] = "idle"
    /\ state' = [state EXCEPT ![c] = "pending"]
    /\ UNCHANGED <<accepted, result>>

\* A reply is decoded into out, or cannot be decoded and leaves it alone.
Accept(c) ==
    /\ state[c] # "idle"
    /\ accepted' = [accepted EXCEPT ![c] = TRUE]
    /\ \E r \in Results : result' = [result EXCEPT ![c] = r]
    /\ UNCHANGED state

ReturnNil(c) ==
    /\ state[c] = "pending"
    /\ accepted[c]
    /\ state' = [state EXCEPT ![c] = "ok"]
    /\ UNCHANGED <<accepted, result>>

\* The deadline passed, the transport is not connected, or, at the beginning,
\* the request cannot be encoded.
ReturnError(c) ==
    /\ state[c] \in {"idle", "pending"}
    /\ \E e \in {"timeout", "error"} : state' = [state EXCEPT ![c] = e]
    /\ UNCHANGED <<accepted, result>>

CallNext == \E c \in Calls : Begin(c) \/ Accept(c) \/ ReturnNil(c) \/ ReturnError(c)

CallSpec == CallInit /\ [][CallNext]_callVars

================================================================================
