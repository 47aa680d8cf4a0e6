--------------------------------- MODULE Cache ---------------------------------
(***************************************************************************)
(* The log filter of the broker adapter: broker/mqtt/cache.go.  Goroutines *)
(* call logFilter.Error, which logs an error unless the same key was       *)
(* logged less than timeout ago.  Get takes the read lock only, and yet    *)
(* deletes from both maps: when another reader touches the map meanwhile,  *)
(* the Go runtime may notice and end the process ("concurrent map writes").*)
(***************************************************************************)
EXTENDS Integers

CONSTANTS
    Goroutines,  \* callers of logFilter.Error
    LogKeys,        \* keys of the cache
    Timeout,     \* cache.timeout
    MaxTime      \* bound: the clock stops here

ASSUME CacheAssumption == Timeout \in Nat /\ MaxTime \in Nat

VARIABLES
    data,       \* keys of cache.data
    timestamp,  \* cache.timestamp: a function on its keys
    now,        \* time.Now()
    gpc,        \* program counter of each goroutine
    gkey,       \* the key it was called with
    fatal       \* the runtime ended the process

cacheVars == <<data, timestamp, now, gpc, gkey, fatal>>

Inside(p) == gpc[p] \in {"get", "stamp", "del data", "del stamp"}

CacheInit ==
    /\ data = {}
    /\ timestamp = [k \in {} |-> 0]
    /\ now = 0
    /\ gpc = [p \in Goroutines |-> "idle"]
    /\ gkey \in [Goroutines -> LogKeys]
    /\ fatal = FALSE

Goto(p, pc) == gpc' = [gpc EXCEPT ![p] = pc]
Without(f, k) == [x \in DOMAIN f \ {k} |-> f[x]]

\* logFilter.Error: Get begins, the read lock is taken.
Error(p, k) ==
    /\ gpc[p] = "idle"
    /\ Goto(p, "get")
    /\ gkey' = [gkey EXCEPT ![p] = k]
    /\ UNCHANGED <<data, timestamp, now, fatal>>

\* value, ok := c.data[key].
GetValue(p) ==
    /\ gpc[p] = "get"
    /\ Goto(p, IF gkey[p] \in data THEN "stamp" ELSE "set")
    /\ UNCHANGED <<data, timestamp, now, gkey, fatal>>

Expired(k) == k \notin DOMAIN timestamp \/ now - timestamp[k] > Timeout

\* Faulty variant: the lock is given up before the entry is deleted.
GetStampUnlocks(p) ==
    /\ gpc[p] = "stamp"
    /\ Goto(p, IF Expired(gkey[p]) THEN "unlocked" ELSE "idle")
    /\ UNCHANGED <<data, timestamp, now, gkey, fatal>>

\* A fresh entry: the error was logged already.  An expired one is deleted.
GetStamp(p) ==
    /\ gpc[p] = "stamp"
    /\ Goto(p, IF Expired(gkey[p]) THEN "del data" ELSE "idle")
    /\ UNCHANGED <<data, timestamp, now, gkey, fatal>>

DeleteData(p) ==
    /\ gpc[p] \in {"del data", "unlocked"}
    /\ data' = data \ {gkey[p]}
    /\ Goto(p, "del stamp")
    /\ UNCHANGED <<timestamp, now, gkey, fatal>>

DeleteStamp(p) ==
    /\ gpc[p] = "del stamp"
    /\ timestamp' = Without(timestamp, gkey[p])
    /\ Goto(p, "set")
    /\ UNCHANGED <<data, now, gkey, fatal>>

\* Set, under the write lock, then log.Error.
Set(p) ==
    /\ gpc[p] = "set"
    /\ \A q \in Goroutines : ~Inside(q)
    /\ data' = data \cup {gkey[p]}
    /\ timestamp' = [k \in DOMAIN timestamp \cup {gkey[p]} |->
                        IF k = gkey[p] THEN now ELSE timestamp[k]]
    /\ Goto(p, "idle")
    /\ UNCHANGED <<now, gkey, fatal>>

\* Two goroutines in one map, one of them deleting.
MapRace(p, q) ==
    /\ p # q
    /\ \/ gpc[p] = "del data" /\ gpc[q] \in {"get", "del data"}
       \/ gpc[p] = "del stamp" /\ gpc[q] \in {"stamp", "del stamp"}
    /\ fatal' = TRUE
    /\ UNCHANGED <<data, timestamp, now, gpc, gkey>>

Tick == now < MaxTime /\ now' = now + 1
        /\ UNCHANGED <<data, timestamp, gpc, gkey, fatal>>

CacheNext ==
    /\ ~fatal
    /\ \/ \E p \in Goroutines :
             \/ \E k \in LogKeys : Error(p, k)
             \/ GetValue(p) \/ GetStamp(p) \/ DeleteData(p) \/ DeleteStamp(p) \/ Set(p)
             \/ \E q \in Goroutines : MapRace(p, q)
       \/ Tick

CacheSpec == CacheInit /\ [][CacheNext]_cacheVars

--------------------------------------------------------------------------------

\* Whatever readers race with each other, an entry that is still fresh stays in
\* both maps, and the maps agree whenever no reader is inside: the decision to
\* delete and the two deletions happen under one hold of the read lock, which
\* keeps Set out: cache.go:40-63.
FreshEntriesStay ==
    /\ \A k \in DOMAIN timestamp : now - timestamp[k] <= Timeout => k \in data
    /\ (\A p \in Goroutines : ~Inside(p)) => data = DOMAIN timestamp

================================================================================
