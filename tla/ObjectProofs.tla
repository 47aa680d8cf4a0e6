------------------------------ MODULE ObjectProofs ------------------------------
(***************************************************************************)
(* Proofs about the small objects of the broker and of the RPC server: the *)
(* log filter's cache, the growing Writer and the broker adapter.          *)
(***************************************************************************)
EXTENDS Cache, Bytes, Adapter, SequenceTheorems, WellFoundedInduction, TLAPS

--------------------------------------------------------------------------------
(* The log filter's cache.                                                  *)

Places == {"idle", "get", "stamp", "del data", "del stamp", "set"}

CacheTypes ==
    /\ now \in Nat
    /\ \A k \in DOMAIN timestamp : timestamp[k] \in Nat
    /\ gpc \in [Goroutines -> Places]
    /\ gkey \in [Goroutines -> LogKeys]

\* Goroutine p has deleted key k from data and not yet from timestamp.
HalfDeleted(p, k) == gpc[p] = "del stamp" /\ gkey[p] = k

\* A reader deletes an expired entry only, and the maps differ in the keys that
\* such a reader has deleted from the first of them.
CacheInv ==
    /\ CacheTypes
    /\ \A p \in Goroutines : gpc[p] \in {"del data", "del stamp"} => Expired(gkey[p])
    /\ \A p \in Goroutines : gpc[p] = "del stamp" => gkey[p] \notin data
    /\ \A k \in data : k \in DOMAIN timestamp
    /\ \A k \in DOMAIN timestamp : k \in data \/ \E p \in Goroutines : HalfDeleted(p, k)

LEMMA CacheInitially == CacheInit => CacheInv
BY DEF CacheInit, CacheInv, CacheTypes, Places, HalfDeleted, Expired

\* A step that leaves the maps and the clock alone, and moves one goroutine to a
\* place where it is not about to delete.
LEMMA CacheMoves ==
    ASSUME CacheInv, NEW p \in Goroutines, NEW k \in LogKeys, NEW pc \in Places,
           Goto(p, pc), gkey' = [gkey EXCEPT ![p] = k],
           gpc[p] # "del stamp", pc # "del stamp",
           pc = "del data" => Expired(k),
           UNCHANGED <<data, timestamp, now>>
    PROVE  CacheInv'
<1> USE DEF CacheInv
<1>1. CacheTypes'
  BY DEF CacheTypes, Goto
<1>2. \A q \in Goroutines :
        /\ gpc'[q] = IF q = p THEN pc ELSE gpc[q]
        /\ gkey'[q] = IF q = p THEN k ELSE gkey[q]
  BY DEF CacheTypes, Goto
<1>3. (\A q \in Goroutines : gpc[q] \in {"del data", "del stamp"} => Expired(gkey[q]))'
  <2>1. ASSUME NEW q \in Goroutines, gpc'[q] \in {"del data", "del stamp"}
        PROVE  Expired(gkey[q])'
    <3>1. CASE q = p
      BY <1>2, <2>1, <3>1 DEF Expired
    <3>2. CASE q # p
      BY <1>2, <2>1, <3>2 DEF Expired
    <3> QED
      BY <3>1, <3>2
  <2> QED
    BY <2>1
<1>4. ASSUME NEW q \in Goroutines, gpc'[q] = "del stamp" PROVE gkey'[q] \notin data'
  <2>1. q # p
    BY <1>2, <1>4
  <2>2. gpc[q] = "del stamp" /\ gkey'[q] = gkey[q]
    BY <1>2, <1>4, <2>1
  <2>3. gkey[q] \notin data
    BY <2>2
  <2>4. data' = data
    OBVIOUS
  <2> HIDE DEF CacheInv
  <2> QED
    BY <2>2, <2>3, <2>4, Zenon
<1>5. ASSUME NEW x \in DOMAIN timestamp', x \notin data'
      PROVE  \E q \in Goroutines : HalfDeleted(q, x)'
  <2>1. PICK q \in Goroutines : HalfDeleted(q, x)
    BY <1>5
  <2>2. q # p
    BY <2>1 DEF HalfDeleted
  <2> QED
    BY <1>2, <2>1, <2>2 DEF HalfDeleted
<1> QED
  BY <1>1, <1>3, <1>4, <1>5

LEMMA CacheInductive == CacheInv /\ [CacheNext]_cacheVars => CacheInv'
<1> SUFFICES ASSUME CacheInv, [CacheNext]_cacheVars PROVE CacheInv'
  OBVIOUS
<1>t. CacheTypes
  BY DEF CacheInv
<1>same. \A p \in Goroutines : gkey = [gkey EXCEPT ![p] = gkey[p]]
  BY <1>t DEF CacheTypes
<1>1. ASSUME NEW p \in Goroutines, NEW k \in LogKeys, Error(p, k) PROVE CacheInv'
  BY <1>1, CacheMoves DEF Error, Places
<1>2. ASSUME NEW p \in Goroutines, GetValue(p) PROVE CacheInv'
  <2>1. gkey[p] \in LogKeys
    BY <1>t DEF CacheTypes
  <2> DEFINE pc == IF gkey[p] \in data THEN "stamp" ELSE "set"
  <2>2. pc \in Places /\ pc \notin {"del data", "del stamp"}
    BY DEF Places
  <2>3. Goto(p, pc) /\ gpc[p] # "del stamp" /\ UNCHANGED <<data, timestamp, now>>
    BY <1>2 DEF GetValue
  <2>4. gkey' = [gkey EXCEPT ![p] = gkey[p]]
    BY <1>2, <1>same DEF GetValue
  <2> QED
    BY <2>1, <2>2, <2>3, <2>4, CacheMoves
<1>3. ASSUME NEW p \in Goroutines, GetStamp(p) PROVE CacheInv'
  <2>1. gkey[p] \in LogKeys
    BY <1>t DEF CacheTypes
  <2> DEFINE pc == IF Expired(gkey[p]) THEN "del data" ELSE "idle"
  <2>2. pc \in Places /\ pc # "del stamp" /\ (pc = "del data" => Expired(gkey[p]))
    BY DEF Places
  <2>3. Goto(p, pc) /\ gpc[p] # "del stamp" /\ UNCHANGED <<data, timestamp, now>>
    BY <1>3 DEF GetStamp
  <2>4. gkey' = [gkey EXCEPT ![p] = gkey[p]]
    BY <1>3, <1>same DEF GetStamp
  <2> QED
    BY <2>1, <2>2, <2>3, <2>4, CacheMoves
<1>4. ASSUME NEW p \in Goroutines, DeleteData(p) PROVE CacheInv'
  <2>1. CacheTypes'
    BY <1>t, <1>4 DEF CacheTypes, DeleteData, Goto, Places
  <2>2. /\ \A q \in Goroutines : gpc'[q] = IF q = p THEN "del stamp" ELSE gpc[q]
        /\ gpc[p] = "del data"
    BY <1>t, <1>4 DEF CacheTypes, DeleteData, Goto, Places
  <2>3. (\A q \in Goroutines : gpc[q] \in {"del data", "del stamp"} => Expired(gkey[q]))'
    BY <1>4, <2>2 DEF CacheInv, DeleteData, Expired
  <2>4. ASSUME NEW x \in DOMAIN timestamp', x \notin data'
        PROVE  \E q \in Goroutines : HalfDeleted(q, x)'
    <3>1. CASE x = gkey[p]
      BY <1>4, <2>2, <3>1 DEF DeleteData, HalfDeleted
    <3>2. CASE x # gkey[p]
      BY <1>4, <2>2, <2>4, <3>2 DEF CacheInv, DeleteData, HalfDeleted
    <3> QED
      BY <3>1, <3>2
  <2> QED
    BY <1>4, <2>1, <2>2, <2>3, <2>4 DEF CacheInv, DeleteData
<1>5. ASSUME NEW p \in Goroutines, DeleteStamp(p) PROVE CacheInv'
  <2>1. /\ DOMAIN timestamp' = DOMAIN timestamp \ {gkey[p]}
        /\ \A x \in DOMAIN timestamp' : timestamp'[x] = timestamp[x]
    BY <1>5 DEF DeleteStamp, Without
  <2>2. CacheTypes'
    BY <1>t, <1>5 DEF CacheTypes, DeleteStamp, Without, Goto, Places
  <2>3. \A q \in Goroutines : gpc'[q] = IF q = p THEN "set" ELSE gpc[q]
    BY <1>t, <1>5 DEF CacheTypes, DeleteStamp, Goto
  <2>4. (\A q \in Goroutines : gpc[q] \in {"del data", "del stamp"} => Expired(gkey[q]))'
    BY <1>5, <2>1, <2>3 DEF CacheInv, DeleteStamp, Expired
  <2>5. ASSUME NEW x \in DOMAIN timestamp', x \notin data'
        PROVE  \E q \in Goroutines : HalfDeleted(q, x)'
    <3>1. PICK q \in Goroutines : HalfDeleted(q, x)
      BY <1>5, <2>1, <2>5 DEF CacheInv, DeleteStamp
    <3>2. q # p
      BY <2>1, <2>5, <3>1 DEF HalfDeleted
    <3> QED
      BY <1>5, <2>3, <3>1, <3>2 DEF DeleteStamp, HalfDeleted
  <2>6. \A x \in data' : x \in DOMAIN timestamp'
    BY <1>5, <2>1 DEF CacheInv, DeleteStamp
  <2> QED
    BY <1>5, <2>2, <2>3, <2>4, <2>5, <2>6 DEF CacheInv, DeleteStamp
<1>6. ASSUME NEW p \in Goroutines, Set(p) PROVE CacheInv'
  <2>1. /\ DOMAIN timestamp' = DOMAIN timestamp \cup {gkey[p]}
        /\ \A x \in DOMAIN timestamp' :
             timestamp'[x] = IF x = gkey[p] THEN now ELSE timestamp[x]
    BY <1>6 DEF Set
  <2>2. CacheTypes'
    BY <1>t, <1>6, <2>1 DEF CacheTypes, Set, Goto, Places
  <2>3. \A q \in Goroutines : gpc'[q] \notin {"del data", "del stamp"}
    BY <1>t, <1>6 DEF CacheTypes, Set, Goto, Inside
  <2>4. \A x \in DOMAIN timestamp' : x \in data'
    BY <1>6, <2>1 DEF CacheInv, Set, HalfDeleted, Inside
  <2>5. \A x \in data' : x \in DOMAIN timestamp'
    BY <1>6, <2>1 DEF CacheInv, Set
  <2> QED
    BY <2>2, <2>3, <2>4, <2>5 DEF CacheInv
<1>7. ASSUME NEW p \in Goroutines, NEW q \in Goroutines, MapRace(p, q) PROVE CacheInv'
  BY <1>7 DEF MapRace, CacheInv, CacheTypes, HalfDeleted, Expired
<1>8. ASSUME Tick PROVE CacheInv'
  <2>1. CacheTypes'
    BY <1>t, <1>8 DEF CacheTypes, Tick
  <2>2. \A k : Expired(k) => Expired(k)'
    BY <1>t, <1>8, CacheAssumption DEF CacheTypes, Tick, Expired
  <2> QED
    BY <1>8, <2>1, <2>2 DEF Tick, CacheInv, HalfDeleted
<1>9. ASSUME UNCHANGED cacheVars PROVE CacheInv'
  BY <1>9 DEF cacheVars, CacheInv, CacheTypes, HalfDeleted, Expired
<1> QED
  BY <1>1, <1>2, <1>3, <1>4, <1>5, <1>6, <1>7, <1>8, <1>9 DEF CacheNext

\* Whatever readers race with each other, a fresh entry of the log filter stays
\* in both maps, and the maps agree whenever no reader is inside: cache.go.
THEOREM FreshEntriesKept == CacheSpec => []FreshEntriesStay
<1>1. ASSUME CacheInv PROVE FreshEntriesStay
  <2>1. ASSUME NEW k \in DOMAIN timestamp, now - timestamp[k] <= Timeout PROVE k \in data
    <3>1. now \in Nat /\ timestamp[k] \in Nat
      BY <1>1 DEF CacheInv, CacheTypes
    <3>2. ~(now - timestamp[k] > Timeout)
      BY <2>1, <3>1, CacheAssumption
    <3>3. ~Expired(k)
      BY <3>2 DEF Expired
    <3> QED
      BY <1>1, <3>3 DEF CacheInv, HalfDeleted
  <2>2. ASSUME \A p \in Goroutines : ~Inside(p) PROVE data = DOMAIN timestamp
    BY <1>1, <2>2 DEF CacheInv, HalfDeleted, Inside
  <2> QED
    BY <2>1, <2>2 DEF FreshEntriesStay
<1> QED
  BY <1>1, CacheInitially, CacheInductive, PTL DEF CacheSpec

--------------------------------------------------------------------------------
(* The broker adapter.                                                      *)

\* A client with a server has an address list, and only such a client connects.
AddressInv ==
    /\ client.servers # <<>> => maddrs # <<>>
    /\ conn # "down" => client.servers # <<>>

LEMMA SetAddrsNotEmpty == \A addrs : SetAddrs(addrs) # <<>>
<1> SUFFICES ASSUME NEW addrs PROVE SetAddrs(addrs) # <<>>
  OBVIOUS
<1> DEFINE good == SelectSeq(addrs, Usable)
           normal == [i \in DOMAIN good |-> Normal(good[i])]
           tcp == [empty |-> FALSE, scheme |-> "tcp", port |-> 1883]
<1>1. SetAddrs(addrs) = IF DOMAIN good = {} THEN <<tcp>> ELSE normal
  BY DEF SetAddrs
<1>2. DOMAIN normal = DOMAIN good
  OBVIOUS
<1> HIDE DEF good, normal
<1>3. DOMAIN << >> = {} /\ <<tcp>> # << >>
  OBVIOUS
<1> QED
  BY <1>1, <1>2, <1>3

LEMMA AddressInductive == AddressInv /\ [AdapterNext]_adapterVars => AddressInv'
<1> SUFFICES ASSUME AddressInv, [AdapterNext]_adapterVars PROVE AddressInv'
  OBVIOUS
<1>1. ASSUME NEW opt \in Options, InitBroker(opt) PROVE AddressInv'
  BY <1>1, SetAddrsNotEmpty DEF AddressInv, InitBroker
<1>2. ASSUME Connect \/ ConnectRetry \/ Retry \/ Resolve PROVE AddressInv'
  BY <1>2 DEF AddressInv, Connect, ConnectRetry, Retry, Resolve, Succeeds, Outlives
<1>3. ASSUME ConnectionLost \/ Reconnected \/ DisconnectBroker PROVE AddressInv'
  BY <1>3 DEF AddressInv, ConnectionLost, Reconnected, DisconnectBroker
<1> QED
  BY <1>1, <1>2, <1>3 DEF AdapterNext, adapterVars, AddressInv

\* onConnectionLost may index the first address, whatever options the
\* constructor and Init were given: mqtt.go:286.
THEOREM LostCallbackIsSafe == AdapterSpec => []LostCallbackSafe
<1>1. AdapterInit => AddressInv
  <2> SUFFICES ASSUME AdapterInit PROVE AddressInv
    OBVIOUS
  <2>1. PICK o1 \in Options, o2 \in Options :
          LET o == Apply(NewOptions, <<o1, o2>>) IN
              maddrs = o.addrs /\ client = NewClient(o) /\ conn = "down"
    BY Zenon DEF AdapterInit
  <2> QED
    BY <2>1 DEF AddressInv, NewClient
<1>2. AddressInv => LostCallbackSafe
  BY DEF AddressInv, LostCallbackSafe
<1> QED
  BY <1>1, <1>2, AddressInductive, PTL DEF AdapterSpec

\* An attempt is left running only by a deadline that passed.
RetryInv ==
    /\ loops \in Nat /\ pending \in Nat
    /\ pending > 0 => outlived
    /\ asked => loops > 0 \/ outlived

LEMMA RetryInductive == RetryInv /\ [AdapterNext]_adapterVars => RetryInv'
<1> SUFFICES ASSUME RetryInv, [AdapterNext]_adapterVars PROVE RetryInv'
  OBVIOUS
<1>1. ASSUME NEW opt \in Options, InitBroker(opt) PROVE RetryInv'
  BY <1>1 DEF RetryInv, InitBroker
<1>2. ASSUME Connect PROVE RetryInv'
  BY <1>2 DEF RetryInv, Connect, Succeeds
<1>3. ASSUME ConnectRetry PROVE RetryInv'
  <2>1. CASE Succeeds /\ UNCHANGED <<loops, pending, outlived>>
    BY <2>1 DEF RetryInv, Succeeds
  <2>2. CASE Outlives /\ asked' = TRUE /\ UNCHANGED loops
    BY <2>2 DEF RetryInv, Outlives
  <2>3. CASE loops' = loops + 1 /\ asked' = TRUE /\ UNCHANGED <<conn, pending, outlived>>
    BY <2>3 DEF RetryInv
  <2> QED
    BY <1>3, <2>1, <2>2, <2>3 DEF ConnectRetry
<1>4. ASSUME Retry PROVE RetryInv'
  <2>1. CASE Succeeds /\ UNCHANGED <<pending, outlived>>
    BY <1>4, <2>1 DEF RetryInv, Retry, Succeeds
  <2>2. CASE Outlives /\ UNCHANGED asked
    BY <1>4, <2>2 DEF RetryInv, Retry, Outlives
  <2> QED
    BY <1>4, <2>1, <2>2 DEF Retry
<1>5. ASSUME Resolve PROVE RetryInv'
  BY <1>5 DEF RetryInv, Resolve, Succeeds
<1>6. ASSUME ConnectionLost \/ Reconnected \/ DisconnectBroker PROVE RetryInv'
  BY <1>6 DEF RetryInv, ConnectionLost, Reconnected, DisconnectBroker
<1> QED
  BY <1>1, <1>2, <1>3, <1>4, <1>5, <1>6 DEF AdapterNext, adapterVars, RetryInv

\* After ConnectRetry somebody is still trying or a connection has come up,
\* unless an attempt outlived its deadline: mqtt.go:157-179.
THEOREM RetryIsCovered == AdapterSpec => []RetryCovered
<1>1. AdapterInit => RetryInv
  <2> SUFFICES ASSUME AdapterInit PROVE RetryInv
    OBVIOUS
  <2>1. loops = 0 /\ pending = 0 /\ asked = FALSE /\ outlived = FALSE
    BY Zenon DEF AdapterInit
  <2> QED
    BY <2>1 DEF RetryInv
<1>2. RetryInv => RetryCovered
  BY DEF RetryInv, RetryCovered
<1> QED
  BY <1>1, <1>2, RetryInductive, PTL DEF AdapterSpec

--------------------------------------------------------------------------------
(* The growing Writer.                                                      *)

Byte == {Zero, Filled, "a", "b"}

\* The bytes below w are the wanted ones, and a region that Peek returned is a
\* range of positions.
WriterInv ==
    /\ array \in Seq(Byte) /\ want \in Seq(Byte)
    /\ w = Len(want) /\ w <= Len(array)
    /\ \A i \in 1 .. w : array[i] = want[i]
    /\ arrays \in Nat
    /\ slice \in [array : Nat, from : Nat \ {0}, to : Nat]

LEMMA ConstantSeq ==
    ASSUME NEW k \in Nat, NEW b \in Byte
    PROVE  /\ [i \in 1 .. k |-> b] \in Seq(Byte)
           /\ Len([i \in 1 .. k |-> b]) = k
           /\ \A i \in 1 .. k : [j \in 1 .. k |-> b][i] = b
<1>1. [i \in 1 .. k |-> b] \in Seq(Byte)
  BY SeqDef
<1> QED
  BY <1>1

\* What grow returns has room for k bytes and begins with the bytes in use.
LEMMA GrowFacts ==
    ASSUME WriterInv, NEW k \in Nat
    PROVE  /\ Grow(k) \in Seq(Byte)
           /\ w + k <= Len(Grow(k))
           /\ \A i \in 1 .. w : Grow(k)[i] = want[i]
<1>1. /\ array \in Seq(Byte) /\ w \in Nat /\ Len(array) \in Nat /\ w <= Len(array)
      /\ \A i \in 1 .. w : array[i] = want[i]
  BY DEF WriterInv
<1>2. CASE w + k < Len(array)
  BY <1>1, <1>2 DEF Grow
<1>3. CASE ~(w + k < Len(array))
  <2> DEFINE front == SubSeq(array, 1, w)
             m == 2 * Len(array) + k - w
  <2>1. Grow(k) = front \o Zeros(m)
    BY <1>3 DEF Grow
  <2>2. m \in Nat
    BY <1>1
  <2>3. Zeros(m) \in Seq(Byte) /\ Len(Zeros(m)) = m
    BY <2>2, ConstantSeq DEF Zeros, Byte
  <2>4. \A i \in 1 .. w : array[i] \in Byte
    BY <1>1, ElementOfSeq
  <2>5. front \in Seq(Byte) /\ Len(front) = w /\ \A i \in 1 .. w : front[i] = array[i]
    BY <1>1, <2>4, SubSeqProperties
  <2> DEFINE z == Zeros(m)
  <2> HIDE DEF front, m, z
  <2>c. /\ front \o z \in Seq(Byte) /\ Len(front \o z) = Len(front) + Len(z)
        /\ \A i \in 1 .. Len(front) + Len(z) :
             (front \o z)[i] = IF i <= Len(front) THEN front[i] ELSE z[i - Len(front)]
    BY <2>3, <2>5, ConcatProperties DEF z
  <2>6. /\ Grow(k) \in Seq(Byte) /\ Len(Grow(k)) = w + m
        /\ \A i \in 1 .. w : Grow(k)[i] = front[i]
    BY <1>1, <2>1, <2>2, <2>3, <2>5, <2>c DEF z
  <2>7. w + m >= w + k
    BY <1>1 DEF m
  <2> QED
    BY <1>1, <2>5, <2>6, <2>7
<1> QED
  BY <1>2, <1>3

\* Copying over an array changes the positions it covers and no others.
LEMMA OverFacts ==
    ASSUME NEW a \in Seq(Byte), NEW i \in Nat \ {0}, NEW bytes \in Seq(Byte)
    PROVE  /\ Over(a, i, bytes) \in Seq(Byte)
           /\ Len(Over(a, i, bytes)) = Len(a)
           /\ \A j \in 1 .. Len(a) : Over(a, i, bytes)[j] =
                 IF j \in i .. i + Len(bytes) - 1 THEN bytes[j - i + 1] ELSE a[j]
<1>1. DOMAIN a = 1 .. Len(a) /\ Len(a) \in Nat /\ Len(bytes) \in Nat
  BY LenProperties
<1>2. \A j \in 1 .. Len(a) : j \in i .. i + Len(bytes) - 1 => j - i + 1 \in 1 .. Len(bytes)
  BY <1>1
<1>3. \A j \in 1 .. Len(a) :
        (IF j \in i .. i + Len(bytes) - 1 THEN bytes[j - i + 1] ELSE a[j]) \in Byte
  BY <1>1, <1>2, ElementOfSeq
<1>4. Over(a, i, bytes) \in [1 .. Len(a) -> Byte]
  BY <1>1, <1>3 DEF Over
<1>5. Over(a, i, bytes) \in Seq(Byte)
  BY <1>1, <1>4, SeqDef
<1>6. Len(Over(a, i, bytes)) = Len(a)
  BY <1>1, <1>4, <1>5, LenProperties
<1> QED
  BY <1>1, <1>5, <1>6 DEF Over

LEMMA WriterInitially == WriterInit => WriterInv
<1> SUFFICES ASSUME WriterInit PROVE WriterInv
  OBVIOUS
<1>1. array \in Seq(Byte) /\ Len(array) = StartSize /\ StartSize \in Nat
  BY ConstantSeq, BytesAssumption DEF WriterInit, Zeros, Byte
<1>2. want = <<>> /\ Len(want) = 0 /\ want \in Seq(Byte) /\ w = 0
  BY DEF WriterInit
<1>3. arrays \in Nat /\ slice \in [array : Nat, from : Nat \ {0}, to : Nat]
  BY DEF WriterInit
<1> QED
  BY <1>1, <1>2, <1>3 DEF WriterInv

\* Write appends its bytes to what is wanted.
LEMMA WriteKeeps ==
    ASSUME WriterInv, NEW bytes \in Seq(Byte), WriterWrite(bytes)
    PROVE  WriterInv'
<1> DEFINE n == Len(bytes)
           a == Grow(n)
           b == Over(a, w + 1, bytes)
<1>0. n \in Nat /\ w \in Nat /\ want \in Seq(Byte) /\ w = Len(want) /\ arrays \in Nat
  BY DEF WriterInv
<1>1. a \in Seq(Byte) /\ w + n <= Len(a) /\ \A i \in 1 .. w : a[i] = want[i]
  BY <1>0, GrowFacts
<1>2. Len(a) \in Nat
  BY <1>1
<1>3. array' = b /\ w' = w + n /\ want' = want \o bytes
  <2>1. array' = b /\ w' = w + Small(n, Len(a) - w) /\ want' = want \o bytes
    BY DEF WriterWrite
  <2> HIDE DEF a, b, n
  <2>2. Small(n, Len(a) - w) = n
    BY <1>0, <1>1, <1>2 DEF Small
  <2> QED
    BY <2>1, <2>2
<1>4. arrays' \in Nat /\ slice' \in [array : Nat, from : Nat \ {0}, to : Nat]
  BY <1>0 DEF WriterInv, WriterWrite, Allocated
<1> HIDE DEF a, n
<1>5. /\ b \in Seq(Byte) /\ Len(b) = Len(a)
      /\ \A j \in 1 .. Len(a) :
           b[j] = IF j \in w + 1 .. w + 1 + Len(bytes) - 1 THEN bytes[j - (w + 1) + 1] ELSE a[j]
  <2>1. w + 1 \in Nat \ {0} /\ a \in Seq(Byte)
    BY <1>0, <1>1
  <2> QED
    BY ONLY <2>1, bytes \in Seq(Byte), OverFacts
<1>6. /\ want' \in Seq(Byte) /\ Len(want') = w + n
      /\ \A i \in 1 .. w + n : want'[i] = IF i <= w THEN want[i] ELSE bytes[i - w]
  <2>1. /\ want \o bytes \in Seq(Byte) /\ Len(want \o bytes) = Len(want) + Len(bytes)
        /\ \A i \in 1 .. Len(want) + Len(bytes) :
             (want \o bytes)[i] = IF i <= Len(want) THEN want[i] ELSE bytes[i - Len(want)]
    BY <1>0, ConcatProperties
  <2> QED
    BY <1>0, <1>3, <2>1 DEF n
<1> HIDE DEF b
<1>7. ASSUME NEW i \in 1 .. w + n PROVE b[i] = want'[i]
  <2>1. CASE i <= w
    BY <1>0, <1>1, <1>2, <1>5, <1>6, <2>1 DEF n
  <2>2. CASE ~(i <= w)
    <3>1. i \in w + 1 .. w + 1 + Len(bytes) - 1 /\ i - (w + 1) + 1 = i - w /\ i \in 1 .. Len(a)
      BY <1>0, <1>1, <1>2, <2>2 DEF n
    <3> QED
      BY <1>5, <1>6, <2>2, <3>1
  <2> QED
    BY <2>1, <2>2
<1> QED
  BY <1>0, <1>1, <1>2, <1>3, <1>4, <1>5, <1>6, <1>7 DEF WriterInv

\* Peek hands out the next k positions as they are.
LEMMA PeekKeeps ==
    ASSUME WriterInv, NEW k \in Nat, WriterPeek(k)
    PROVE  WriterInv'
<1> DEFINE a == Grow(k)
           t == SubSeq(a, w + 1, w + k)
<1>0. w \in Nat /\ want \in Seq(Byte) /\ w = Len(want) /\ arrays \in Nat
  BY DEF WriterInv
<1>1. a \in Seq(Byte) /\ w + k <= Len(a) /\ \A i \in 1 .. w : a[i] = want[i]
  BY GrowFacts
<1>2. Len(a) \in Nat
  BY <1>1
<1>3. array' = a /\ w' = w + k /\ want' = want \o t
  BY DEF WriterPeek
<1>4. arrays' \in Nat /\ slice' \in [array : Nat, from : Nat \ {0}, to : Nat]
  BY <1>0 DEF WriterPeek, Allocated
<1> HIDE DEF a
<1>5. t \in Seq(Byte) /\ Len(t) = k /\ \A i \in 1 .. k : t[i] = a[w + i]
  <2>1. \A i \in w + 1 .. w + k : a[i] \in Byte
    BY <1>0, <1>1, <1>2, ElementOfSeq
  <2>2. /\ t \in Seq(Byte)
        /\ Len(t) = IF w + 1 <= w + k THEN w + k - (w + 1) + 1 ELSE 0
        /\ \A i \in 1 .. w + k - (w + 1) + 1 : t[i] = a[w + 1 + i - 1]
    BY <1>0, <2>1, SubSeqProperties
  <2> HIDE DEF t
  <2>3. w + k - (w + 1) + 1 = k /\ \A i \in 1 .. k : w + 1 + i - 1 = w + i
    BY <1>0
  <2>4. Len(t) = k
    BY <1>0, <2>2
  <2> QED
    BY <2>2, <2>3, <2>4
<1> HIDE DEF t
<1>6. /\ want' \in Seq(Byte) /\ Len(want') = w + k
      /\ \A i \in 1 .. w + k : want'[i] = IF i <= w THEN want[i] ELSE t[i - w]
  <2>1. /\ want \o t \in Seq(Byte) /\ Len(want \o t) = Len(want) + Len(t)
        /\ \A i \in 1 .. Len(want) + Len(t) :
             (want \o t)[i] = IF i <= Len(want) THEN want[i] ELSE t[i - Len(want)]
    BY <1>0, <1>5, ConcatProperties
  <2> QED
    BY <1>0, <1>3, <1>5, <2>1
<1>7. ASSUME NEW i \in 1 .. w + k PROVE a[i] = want'[i]
  <2>1. CASE i <= w
    BY <1>0, <1>1, <1>6, <2>1
  <2>2. CASE ~(i <= w)
    <3>1. i - w \in 1 .. k /\ w + (i - w) = i
      BY <1>0, <2>2
    <3> QED
      BY <1>5, <1>6, <2>2, <3>1
  <2> QED
    BY <2>1, <2>2
<1> QED
  BY <1>0, <1>1, <1>2, <1>3, <1>4, <1>6, <1>7 DEF WriterInv

\* Filling a region of the current array changes both sides alike.
LEMMA FillKeeps ==
    ASSUME WriterInv, FillSlice
    PROVE  WriterInv'
<1> DEFINE n == slice.to - slice.from + 1
           bytes == [i \in 1 .. n |-> Filled]
<1>0. /\ array \in Seq(Byte) /\ want \in Seq(Byte) /\ w = Len(want) /\ w <= Len(array)
      /\ w \in Nat /\ Len(array) \in Nat /\ slice.from \in Nat \ {0} /\ slice.to \in Nat
      /\ slice \in [array : Nat, from : Nat \ {0}, to : Nat]
  BY DEF WriterInv
<1>1. n \in Nat
  <2>1. CASE n < 1
    <3>1. 1 .. n = {}
      BY <1>0, <2>1
    <3>2. bytes = <<>>
      BY <3>1
    <3> QED
      BY <3>2 DEF FillSlice
  <2> QED
    BY <1>0, <2>1
<1>2. bytes \in Seq(Byte) /\ Len(bytes) = n
  BY <1>1, ConstantSeq DEF Byte
<1>3. slice' = [slice EXCEPT !.to = slice.from - 1] /\ w' = w /\ arrays' = arrays
  BY DEF FillSlice
<1>4. slice' \in [array : Nat, from : Nat \ {0}, to : Nat]
  BY <1>0, <1>3
<1>5. CASE slice.array = arrays /\ slice.to <= w
  <2>1. array' = Over(array, slice.from, bytes) /\ want' = Over(want, slice.from, bytes)
    BY <1>5 DEF FillSlice
  <2> HIDE DEF bytes
  <2>2. /\ array' \in Seq(Byte) /\ Len(array') = Len(array)
        /\ \A j \in 1 .. Len(array) : array'[j] =
             IF j \in slice.from .. slice.from + Len(bytes) - 1
             THEN bytes[j - slice.from + 1] ELSE array[j]
    <3> DEFINE o == Over(array, slice.from, bytes)
    <3>1. /\ o \in Seq(Byte) /\ Len(o) = Len(array)
          /\ \A j \in 1 .. Len(array) : o[j] =
               IF j \in slice.from .. slice.from + Len(bytes) - 1
               THEN bytes[j - slice.from + 1] ELSE array[j]
      BY <1>0, <1>2, OverFacts
    <3> HIDE DEF o
    <3>2. array' = o
      BY <2>1 DEF o
    <3> QED
      BY <3>1, <3>2
  <2>3. /\ want' \in Seq(Byte) /\ Len(want') = Len(want)
        /\ \A j \in 1 .. Len(want) : want'[j] =
             IF j \in slice.from .. slice.from + Len(bytes) - 1
             THEN bytes[j - slice.from + 1] ELSE want[j]
    BY <1>0, <1>2, <2>1, OverFacts
  <2>4. \A j \in 1 .. w : array'[j] = want'[j]
    BY <1>0, <2>2, <2>3 DEF WriterInv
  <2> QED
    BY <1>0, <1>3, <1>4, <2>2, <2>3, <2>4 DEF WriterInv
<1>6. CASE ~(slice.array = arrays /\ slice.to <= w)
  <2>1. UNCHANGED <<array, want>>
    BY <1>6 DEF FillSlice
  <2> QED
    BY <1>0, <1>3, <1>4, <2>1 DEF WriterInv
<1> QED
  BY <1>5, <1>6

LEMMA WriterInductive == WriterInv /\ [WriterNext]_writerVars => WriterInv'
<1> SUFFICES ASSUME WriterInv, [WriterNext]_writerVars PROVE WriterInv'
  OBVIOUS
<1>1. ASSUME NEW k \in 0 .. MaxPiece, NEW b \in {"a", "b"},
             WriterWrite([i \in 1 .. k |-> b])
      PROVE  WriterInv'
  <2>1. k \in Nat /\ b \in Byte
    BY BytesAssumption DEF Byte
  <2> QED
    BY <1>1, <2>1, ConstantSeq, WriteKeeps
<1>2. ASSUME NEW k \in 0 .. MaxPiece, WriterPeek(k) PROVE WriterInv'
  BY <1>2, PeekKeeps, BytesAssumption
<1>3. ASSUME WriterReset PROVE WriterInv'
  <2>1. /\ w' = 0 /\ want' = <<>> /\ UNCHANGED <<array, arrays>>
        /\ slice' \in [array : Nat, from : Nat \ {0}, to : Nat]
    BY <1>3 DEF WriterReset, WriterInv
  <2>2. Len(want') = 0 /\ want' \in Seq(Byte)
    BY <2>1
  <2> QED
    BY <2>1, <2>2 DEF WriterInv
<1>4. ASSUME UNCHANGED writerVars PROVE WriterInv'
  BY <1>4 DEF writerVars, WriterInv
<1> QED
  BY <1>1, <1>2, <1>3, <1>4, FillKeeps DEF WriterNext

\* Buffer() is what was written and peeked, in order and complete, through every
\* growth and reset, for any start size: writer.go:29-57.
THEOREM WriterIsExact == WriterSpec => []WriterExact
<1>1. ASSUME WriterInv PROVE WriterExact
  <2>1. /\ array \in Seq(Byte) /\ want \in Seq(Byte) /\ w \in Nat /\ Len(array) \in Nat
        /\ w = Len(want) /\ w <= Len(array) /\ \A i \in 1 .. w : array[i] = want[i]
    BY <1>1 DEF WriterInv
  <2>2. \A i \in 1 .. w : array[i] \in Byte
    BY <2>1, ElementOfSeq
  <2>3. /\ SubSeq(array, 1, w) \in Seq(Byte) /\ Len(SubSeq(array, 1, w)) = w
        /\ \A i \in 1 .. w : SubSeq(array, 1, w)[i] = array[i]
    BY <2>1, <2>2, SubSeqProperties
  <2>4. SubSeq(array, 1, w) = want
    BY <2>1, <2>3, SeqEqual
  <2> QED
    BY <2>1, <2>4 DEF WriterExact
<1> QED
  BY <1>1, WriterInitially, WriterInductive, PTL DEF WriterSpec

--------------------------------------------------------------------------------
(* The buffer pool.                                                         *)

\* The free list is the n buffers s[1], ..., s[n], all different, each linked to
\* the next; they are the buffers that nobody holds.
Chain(n, s) ==
    /\ \A i, j \in 1 .. n : s[i] = s[j] => i = j
    /\ free = IF n = 0 THEN Nil ELSE s[1]
    /\ \A i \in 1 .. n : next[s[i]] = IF i = n THEN Nil ELSE s[i + 1]
    /\ \A b \in DOMAIN next : (\E i \in 1 .. n : s[i] = b) <=> \A u \in Users : b \notin held[u]

PoolInv ==
    /\ next \in Seq(Nat)
    /\ held \in [Users -> SUBSET DOMAIN next]
    /\ \A u, v \in Users : u # v => held[u] \cap held[v] = {}
    /\ \E n \in Nat : \E s \in [1 .. n -> DOMAIN next] : Chain(n, s)

LEMMA LeastNumber ==
    ASSUME NEW T, T \subseteq Nat, T # {}
    PROVE  \E x \in T : \A y \in T : x <= y
<1> DEFINE R == OpToRel(<, Nat)
<1>1. IsWellFoundedOn(R, Nat)
  BY NatLessThanWellFounded
<1>2. \A x, y \in Nat : x < y => <<x, y>> \in R
  BY DEF OpToRel
<1> HIDE DEF R
<1>3. PICK x \in T : \A y \in T : ~(<<y, x>> \in R)
  BY <1>1, WFMin
<1>4. ASSUME NEW y \in T PROVE x <= y
  <2>1. x \in Nat /\ y \in Nat /\ ~(y < x)
    BY <1>2, <1>3
  <2> QED
    BY <2>1
<1> QED
  BY <1>4

\* The least linked set is exactly the chain.
LEMMA FreeListIsChain ==
    ASSUME NEW n \in Nat, NEW s \in [1 .. n -> DOMAIN next], next \in Seq(Nat), Chain(n, s)
    PROVE  FreeList = {s[i] : i \in 1 .. n}
<1> DEFINE F == {s[i] : i \in 1 .. n}
<1>0. DOMAIN next = 1 .. Len(next) /\ Len(next) \in Nat /\ Nil = 0
  BY DEF Nil
<1>1. F \in SUBSET DOMAIN next
  OBVIOUS
<1>2. Linked(F)
  <2>1. free \in F \cup {Nil}
    BY DEF Chain
  <2>2. ASSUME NEW i \in 1 .. n PROVE next[s[i]] \in F \cup {Nil}
    <3>1. CASE i = n
      BY <3>1 DEF Chain
    <3>2. CASE i # n
      <4>1. i + 1 \in 1 .. n
        BY <3>2
      <4>2. next[s[i]] = s[i + 1]
        BY <3>2 DEF Chain
      <4> QED
        BY <4>1, <4>2
    <3> QED
      BY <3>1, <3>2
  <2> QED
    BY <2>1, <2>2 DEF Linked
<1>3. ASSUME NEW S \in SUBSET DOMAIN next, Linked(S), NEW i \in 1 .. n PROVE s[i] \in S
  <2> DEFINE T == {k \in 1 .. n : s[k] \notin S}
  <2> SUFFICES ASSUME T # {} PROVE FALSE
    OBVIOUS
  <2>1. T \subseteq Nat
    OBVIOUS
  <2>2. PICK k \in T : \A y \in T : k <= y
    BY <2>1, LeastNumber
  <2>3. k \in 1 .. n /\ s[k] \notin S /\ s[k] # Nil
    BY <1>0
  <2>4. CASE k = 1
    <3>1. free = s[1] /\ free \in S \cup {Nil}
      BY <1>3, <2>3, <2>4 DEF Chain, Linked
    <3> QED
      BY <2>3, <2>4, <3>1
  <2>5. CASE k # 1
    <3>1. k - 1 \in 1 .. n /\ k - 1 # n /\ k - 1 + 1 = k /\ ~(k <= k - 1)
      BY <2>3, <2>5
    <3>2. s[k - 1] \in S
      BY <2>2, <3>1
    <3>3. next[s[k - 1]] = s[k]
      BY <3>1 DEF Chain
    <3>4. next[s[k - 1]] \in S \cup {Nil}
      BY <1>3, <3>2 DEF Linked
    <3> QED
      BY <2>3, <3>3, <3>4
  <2> QED
    BY <2>4, <2>5
<1> QED
  BY <1>1, <1>2, <1>3 DEF FreeList

LEMMA ChainConserves == PoolInv => PoolConserves
<1> SUFFICES ASSUME PoolInv PROVE PoolConserves
  OBVIOUS
<1>1. PICK n \in Nat : \E s \in [1 .. n -> DOMAIN next] : Chain(n, s)
  BY DEF PoolInv
<1>2. PICK s \in [1 .. n -> DOMAIN next] : Chain(n, s)
  BY <1>1
<1>3. FreeList = {s[i] : i \in 1 .. n}
  BY <1>2, FreeListIsChain DEF PoolInv
<1>4. \A b \in DOMAIN next : b \in FreeList <=> \A u \in Users : b \notin held[u]
  BY <1>2, <1>3 DEF Chain
<1>5. \A u \in Users : held[u] \subseteq DOMAIN next
  BY DEF PoolInv
<1>6. FreeList \subseteq DOMAIN next
  BY DEF FreeList
<1>7. FreeList # {} => \E b \in FreeList : next[b] = Nil
  <2> SUFFICES ASSUME FreeList # {} PROVE next[s[n]] = Nil /\ n \in 1 .. n
    BY <1>3
  <2>1. n \in 1 .. n
    BY <1>3
  <2> QED
    BY <1>2, <2>1 DEF Chain
<1>8. FreeList \cap UNION {held[u] : u \in Users} = {}
  BY <1>4, <1>6
<1>9. FreeList \cup UNION {held[u] : u \in Users} = DOMAIN next
  BY <1>4, <1>5, <1>6
<1> QED
  BY <1>7, <1>8, <1>9 DEF PoolConserves, PoolInv

\* The first block is one chain.
LEMMA PoolInitially == PoolInit => PoolInv
<1> SUFFICES ASSUME PoolInit PROVE PoolInv
  OBVIOUS
<1> USE BytesAssumption DEF Nil
<1>1. next \in [1 .. Num -> Nat] /\ DOMAIN next = 1 .. Num
  BY DEF PoolInit
<1>2. next \in Seq(Nat)
  BY <1>1, SeqDef
<1>3. held = [u \in Users |-> {}] /\ free = 1
  BY DEF PoolInit
<1> DEFINE s == [i \in 1 .. Num |-> i]
<1>4. s \in [1 .. Num -> DOMAIN next]
  BY <1>1
<1>5. Chain(Num, s)
  <2>1. free = IF Num = 0 THEN Nil ELSE s[1]
    BY <1>3
  <2>2. \A i \in 1 .. Num : next[s[i]] = IF i = Num THEN Nil ELSE s[i + 1]
    BY DEF PoolInit
  <2> QED
    BY <1>1, <1>3, <2>1, <2>2 DEF Chain
<1>6. \E n \in Nat : \E t \in [1 .. n -> DOMAIN next] : Chain(n, t)
  <2> HIDE DEF s
  <2> QED
    BY <1>4, <1>5
<1> QED
  BY <1>2, <1>3, <1>6 DEF PoolInv

\* Get takes the first buffer of the chain.
LEMMA GetFirst ==
    ASSUME PoolInv, NEW u \in Users, PoolGet(u), free # Nil
    PROVE  PoolInv'
<1> USE DEF Nil
<1>0. next' = next /\ free' = next[free] /\ held' = [held EXCEPT ![u] = @ \cup {free}]
  BY DEF PoolGet
<1>1. PICK n \in Nat : \E s \in [1 .. n -> DOMAIN next] : Chain(n, s)
  BY DEF PoolInv
<1>2. PICK s \in [1 .. n -> DOMAIN next] : Chain(n, s)
  BY <1>1
<1>3. n # 0 /\ free = s[1] /\ 1 \in 1 .. n /\ n - 1 \in Nat /\ free \in DOMAIN next
  BY <1>2 DEF Chain
<1>4. \A v \in Users : held'[v] = IF v = u THEN held[u] \cup {free} ELSE held[v]
  BY <1>0 DEF PoolInv
<1>5. \A v \in Users : free \notin held[v]
  BY <1>2, <1>3 DEF Chain
<1> DEFINE t == [i \in 1 .. n - 1 |-> s[i + 1]]
<1>6. t \in [1 .. n - 1 -> DOMAIN next']
  BY <1>0
<1>7. Chain(n - 1, t)'
  <2>1. \A i, j \in 1 .. n - 1 : t[i] = t[j] => i = j
    BY <1>2 DEF Chain
  <2>2. free' = IF n - 1 = 0 THEN Nil ELSE t[1]
    BY <1>0, <1>2, <1>3 DEF Chain
  <2>3. \A i \in 1 .. n - 1 : next'[t[i]] = IF i = n - 1 THEN Nil ELSE t[i + 1]
    BY <1>0, <1>2 DEF Chain
  <2>4. ASSUME NEW b \in DOMAIN next'
        PROVE  (\E i \in 1 .. n - 1 : t[i] = b) <=> \A v \in Users : b \notin held'[v]
    <3>1. (\E i \in 1 .. n - 1 : t[i] = b) <=> (\E i \in 1 .. n : s[i] = b) /\ b # free
      <4>1. ASSUME NEW i \in 1 .. n - 1, t[i] = b PROVE i + 1 \in 1 .. n /\ s[i + 1] = b /\ b # free
        BY <1>2, <1>3, <4>1 DEF Chain
      <4>2. ASSUME NEW i \in 1 .. n, s[i] = b, b # free PROVE i - 1 \in 1 .. n - 1 /\ t[i - 1] = b
        <5>1. i # 1
          BY <1>3, <4>2
        <5> QED
          BY <4>2, <5>1
      <4> HIDE DEF t
      <4> QED
        BY <4>1, <4>2
    <3>2. (\E i \in 1 .. n : s[i] = b) <=> \A v \in Users : b \notin held[v]
      BY <1>0, <1>2 DEF Chain
    <3>3. (\A v \in Users : b \notin held'[v]) <=> (\A v \in Users : b \notin held[v]) /\ b # free
      BY <1>4
    <3> QED
      BY <3>1, <3>2, <3>3
  <2> HIDE DEF t
  <2> QED
    BY <2>1, <2>2, <2>3, <2>4 DEF Chain
<1>8. \E m \in Nat : \E r \in [1 .. m -> DOMAIN next'] : Chain(m, r)'
  <2> HIDE DEF t
  <2> QED
    BY <1>3, <1>6, <1>7
<1>9. held' \in [Users -> SUBSET DOMAIN next']
  BY <1>0, <1>3 DEF PoolInv
<1>10. \A v, x \in Users : v # x => held'[v] \cap held'[x] = {}
  BY <1>4, <1>5 DEF PoolInv
<1> QED
  BY <1>0, <1>8, <1>9, <1>10 DEF PoolInv

\* Put makes its buffer the first of the chain.
LEMMA PutFirst ==
    ASSUME PoolInv, NEW u \in Users, NEW b \in held[u], PoolPut(u, b)
    PROVE  PoolInv'
<1> USE DEF Nil
<1>0. /\ next' = [next EXCEPT ![b] = free] /\ free' = b
      /\ held' = [held EXCEPT ![u] = @ \ {b}]
  BY DEF PoolPut
<1>1. PICK n \in Nat : \E s \in [1 .. n -> DOMAIN next] : Chain(n, s)
  BY DEF PoolInv
<1>2. PICK s \in [1 .. n -> DOMAIN next] : Chain(n, s)
  BY <1>1
<1>3. /\ b \in DOMAIN next /\ next \in Seq(Nat) /\ DOMAIN next' = DOMAIN next
      /\ DOMAIN next = 1 .. Len(next) /\ Len(next) \in Nat
  BY <1>0 DEF PoolInv
<1>4. free \in Nat
  BY <1>2, <1>3 DEF Chain
<1>5. next' \in Seq(Nat)
  BY <1>0, <1>3, <1>4, ExceptSeq
<1>6. /\ \A v \in Users : held'[v] = IF v = u THEN held[u] \ {b} ELSE held[v]
      /\ \A v \in Users : b \notin held'[v]
  BY <1>0 DEF PoolInv
<1>7. \A i \in 1 .. n : s[i] # b
  BY <1>2, <1>3 DEF Chain
<1> DEFINE t == [i \in 1 .. n + 1 |-> IF i = 1 THEN b ELSE s[i - 1]]
<1>8. t \in [1 .. n + 1 -> DOMAIN next']
  BY <1>3
<1>9. Chain(n + 1, t)'
  <2>1. \A i, j \in 1 .. n + 1 : t[i] = t[j] => i = j
    BY <1>2, <1>7 DEF Chain
  <2>2. free' = IF n + 1 = 0 THEN Nil ELSE t[1]
    BY <1>0
  <2>3. ASSUME NEW i \in 1 .. n + 1
        PROVE  next'[t[i]] = IF i = n + 1 THEN Nil ELSE t[i + 1]
    <3>1. CASE i = 1
      <4>1. t[i] = b /\ next'[t[i]] = free
        BY <1>0, <1>3, <3>1
      <4>2. free = IF n = 0 THEN Nil ELSE s[1]
        BY <1>2 DEF Chain
      <4>3. n # 0 => 2 \in 1 .. n + 1 /\ t[2] = s[1]
        OBVIOUS
      <4> HIDE DEF t
      <4> QED
        BY <3>1, <4>1, <4>2, <4>3
    <3>2. CASE i # 1
      <4>1. i - 1 \in 1 .. n /\ t[i] = s[i - 1] /\ i - 1 + 1 = i
        BY <3>2
      <4>2. i # n + 1 => t[i + 1] = s[i]
        BY <3>2
      <4>3. next'[s[i - 1]] = next[s[i - 1]]
        BY <1>0, <1>3, <1>7, <4>1
      <4>4. next[s[i - 1]] = IF i - 1 = n THEN Nil ELSE s[i]
        BY <1>2, <4>1 DEF Chain
      <4> HIDE DEF t
      <4> QED
        BY <4>1, <4>2, <4>3, <4>4
    <3> QED
      BY <3>1, <3>2
  <2>4. ASSUME NEW c \in DOMAIN next'
        PROVE  (\E i \in 1 .. n + 1 : t[i] = c) <=> \A v \in Users : c \notin held'[v]
    <3>1. (\E i \in 1 .. n + 1 : t[i] = c) <=> (\E i \in 1 .. n : s[i] = c) \/ c = b
      <4>1. ASSUME NEW i \in 1 .. n + 1, t[i] = c, c # b PROVE i - 1 \in 1 .. n /\ s[i - 1] = c
        BY <4>1
      <4>2. ASSUME NEW i \in 1 .. n, s[i] = c PROVE i + 1 \in 1 .. n + 1 /\ t[i + 1] = c
        BY <4>2
      <4>3. 1 \in 1 .. n + 1 /\ t[1] = b
        OBVIOUS
      <4> HIDE DEF t
      <4> QED
        BY <4>1, <4>2, <4>3
    <3>2. (\E i \in 1 .. n : s[i] = c) <=> \A v \in Users : c \notin held[v]
      BY <1>2, <1>3 DEF Chain
    <3>3. (\A v \in Users : c \notin held'[v]) <=> (\A v \in Users : c \notin held[v]) \/ c = b
      BY <1>6
    <3> QED
      BY <3>1, <3>2, <3>3
  <2> HIDE DEF t
  <2> QED
    BY <2>1, <2>2, <2>3, <2>4 DEF Chain
<1>10. \E m \in Nat : \E r \in [1 .. m -> DOMAIN next'] : Chain(m, r)'
  <2> HIDE DEF t
  <2>1. n + 1 \in Nat
    OBVIOUS
  <2> QED
    BY <1>8, <1>9, <2>1
<1>11. held' \in [Users -> SUBSET DOMAIN next']
  BY <1>0, <1>3 DEF PoolInv
<1>12. \A v, x \in Users : v # x => held'[v] \cap held'[x] = {}
  BY <1>6 DEF PoolInv
<1> QED
  BY <1>5, <1>10, <1>11, <1>12 DEF PoolInv

\* On an empty list Get adds a block, takes its first buffer and leaves the rest.
LEMMA GetGrows ==
    ASSUME PoolInv, NEW u \in Users, PoolGet(u), free = Nil
    PROVE  PoolInv'
<1> USE BytesAssumption DEF Nil
<1>l. PICK l \in Nat : l = Len(next)
  BY DEF PoolInv
<1>0. /\ next' = Grown /\ free' = Grown[l + 1]
      /\ held' = [held EXCEPT ![u] = @ \cup {l + 1}]
  BY <1>l DEF PoolGet
<1>1. PICK n \in Nat : \E s \in [1 .. n -> DOMAIN next] : Chain(n, s)
  BY DEF PoolInv
<1>2. PICK s \in [1 .. n -> DOMAIN next] : Chain(n, s)
  BY <1>1
<1>3. l \in Nat /\ DOMAIN next = 1 .. l /\ next \in [1 .. l -> Nat]
  BY <1>l DEF PoolInv
<1>4. n = 0
  BY <1>2, <1>3 DEF Chain
<1>5. \A b \in 1 .. l : \E v \in Users : b \in held[v]
  BY <1>2, <1>3, <1>4 DEF Chain
<1>6. /\ next' \in [1 .. l + Num -> Nat] /\ DOMAIN next' = 1 .. l + Num
      /\ \A b \in 1 .. l + Num : next'[b] = IF b <= l THEN next[b]
                                           ELSE IF b < l + Num THEN b + 1 ELSE Nil
  BY <1>l, <1>0, <1>3 DEF Grown
<1>7. next' \in Seq(Nat)
  BY <1>3, <1>6, SeqDef
<1>8. free' = IF Num = 1 THEN Nil ELSE l + 2
  BY <1>0, <1>3, <1>6
<1>9. /\ held \in [Users -> SUBSET (1 .. l)] /\ l + 1 \notin 1 .. l
      /\ \A v \in Users : held'[v] = IF v = u THEN held[u] \cup {l + 1} ELSE held[v]
  BY <1>0, <1>3 DEF PoolInv
<1> DEFINE m == Num - 1
           t == [i \in 1 .. m |-> l + 1 + i]
<1>10. t \in [1 .. m -> DOMAIN next'] /\ m \in Nat
  BY <1>3, <1>6
<1>11. Chain(m, t)'
  <2>1. \A i, j \in 1 .. m : t[i] = t[j] => i = j
    BY <1>3
  <2>2. free' = IF m = 0 THEN Nil ELSE t[1]
    BY <1>3, <1>8
  <2>3. \A i \in 1 .. m : next'[t[i]] = IF i = m THEN Nil ELSE t[i + 1]
    BY <1>3, <1>6
  <2>4. ASSUME NEW b \in DOMAIN next'
        PROVE  (\E i \in 1 .. m : t[i] = b) <=> \A v \in Users : b \notin held'[v]
    <3>0. b \in 1 .. l + Num
      BY <1>6
    <3>1. (\E i \in 1 .. m : t[i] = b) <=> b > l + 1
      <4>1. ASSUME NEW i \in 1 .. m, t[i] = b PROVE b > l + 1
        BY <1>3, <4>1
      <4>2. ASSUME b > l + 1 PROVE b - l - 1 \in 1 .. m /\ t[b - l - 1] = b
        <5>1. b - l - 1 \in 1 .. m /\ l + 1 + (b - l - 1) = b
          <6>1. b \in Int /\ l \in Int /\ Num \in Int /\ b <= l + Num /\ b > l + 1
            BY <1>3, <3>0, <4>2
          <6> QED
            BY ONLY <6>1
        <5> QED
          BY <5>1
      <4> HIDE DEF t, m
      <4> QED
        BY <4>1, <4>2
    <3>2. ASSUME b > l + 1 PROVE \A v \in Users : b \notin held'[v]
      <4>1. b \notin 1 .. l /\ b # l + 1
        BY <1>3, <3>0, <3>2
      <4> QED
        BY <1>9, <4>1
    <3>3. ASSUME ~(b > l + 1) PROVE \E v \in Users : b \in held'[v]
      <4>1. CASE b = l + 1
        BY <1>9, <4>1
      <4>2. CASE b # l + 1
        <5>1. b \in 1 .. l
          BY <1>3, <3>0, <3>3, <4>2
        <5> QED
          BY <1>5, <1>9, <5>1
      <4> QED
        BY <4>1, <4>2
    <3> QED
      BY <3>1, <3>2, <3>3
  <2> HIDE DEF t, m
  <2> QED
    BY <2>1, <2>2, <2>3, <2>4 DEF Chain
<1>12. \E k \in Nat : \E r \in [1 .. k -> DOMAIN next'] : Chain(k, r)'
  <2> HIDE DEF t, m
  <2> QED
    BY <1>10, <1>11
<1>13. held' \in [Users -> SUBSET DOMAIN next']
  BY <1>0, <1>3, <1>6, <1>9
<1>14. \A v, x \in Users : v # x => held'[v] \cap held'[x] = {}
  <2>1. \A v \in Users : held[v] \subseteq 1 .. l
    BY <1>9
  <2> QED
    <3>1. \A v \in Users : l + 1 \notin held[v]
      BY <1>9, <2>1
    <3>2. \A v, x \in Users : v # x => held[v] \cap held[x] = {}
      BY DEF PoolInv
    <3> QED
      BY ONLY <1>9, <3>1, <3>2
<1> QED
  BY <1>7, <1>12, <1>13, <1>14 DEF PoolInv

\* Concurrent Get and Put, buffers put back in any order and blocks added in
\* between, for any number of users and any block size: no buffer is lost and
\* none has two owners: buffer.go:58-104.
THEOREM PoolIsConserved == PoolSpec => []PoolConserves
<1>1. PoolInv /\ [PoolNext]_poolVars => PoolInv'
  <2> SUFFICES ASSUME PoolInv, [PoolNext]_poolVars PROVE PoolInv'
    OBVIOUS
  <2>1. ASSUME NEW u \in Users, PoolGet(u) PROVE PoolInv'
    BY <2>1, GetFirst, GetGrows
  <2>2. ASSUME NEW u \in Users, NEW b \in held[u], PoolPut(u, b) PROVE PoolInv'
    BY <2>2, PutFirst
  <2>3. ASSUME UNCHANGED poolVars PROVE PoolInv'
    <3>1. next' = next /\ free' = free /\ held' = held
      BY <2>3 DEF poolVars
    <3>2. PICK n \in Nat : \E s \in [1 .. n -> DOMAIN next] : Chain(n, s)
      BY DEF PoolInv
    <3>3. PICK s \in [1 .. n -> DOMAIN next] : Chain(n, s)
      BY <3>2
    <3>4. s \in [1 .. n -> DOMAIN next'] /\ Chain(n, s)'
      BY <3>1, <3>3 DEF Chain
    <3> QED
      BY <3>1, <3>4 DEF PoolInv
  <2> QED
    BY <2>1, <2>2, <2>3 DEF PoolNext
<1> QED
  BY <1>1, PoolInitially, ChainConserves, PTL DEF PoolSpec

================================================================================
