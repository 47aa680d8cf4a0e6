------------------------------- MODULE MCLibrary -------------------------------
(* The parts of the library that stand alone: the two wire formats, the log  *)
(* filter's cache, the byte buffers and the broker object.  A behaviour      *)
(* exercises one of them and leaves the others alone.                        *)
(* Lengths lie on both sides of 125, of 2^16 and of the buffer's size; those *)
(* of foreign frames go past 2^63, here 2^20.                                *)
EXTENDS Frames, Chunked, Cache, Bytes, Adapter

VARIABLE subject

MCLengths == {0, 125, 126, Word - 1, Word, BufSize, BufSize + 1}
MCForeign == {0, 2, Half}

\* A padded size with an extension, one with a digit too many, one followed by a
\* byte that is no digit, and a line that fills the buffer.
MCForeignSizes ==
    {<<<<0, 1>>, <<Semi>>>>, <<<<1, 0, 0>>, <<>>>>, <<<<1>>, <<Data(0)>>>>,
     <<<<1>>, <<Semi, Semi, Semi>>>>}

addr(s, p) == [empty |-> FALSE, scheme |-> s, port |-> p]

MCOptions ==
    {[set |-> "addrs", to |-> <<addr("", NoPort)>>],
     [set |-> "addrs", to |-> <<addr("other", 1), addr("ssl", NoPort), addr("ws", 0)>>],
     [set |-> "addrs", to |-> <<[addr("", NoPort) EXCEPT !.empty = TRUE]>>],
     [set |-> "addrs", to |-> <<>>],
     [set |-> "autoReconnect", to |-> "off"],
     [set |-> "cleanSession", to |-> "off"],
     [set |-> "clientId", to |-> "id"],
     [set |-> "ClientId", to |-> "other id"],
     [set |-> "TLSConfig", to |-> TRUE],
     [set |-> "TLSConfig", to |-> FALSE],
     [set |-> "OptionContext", to |-> TRUE]}

\* The cache and the broker object start from any of their initial states, the
\* others need one of these.
Init ==
    /\ FrInit /\ ChInit /\ CacheInit /\ BytesInit /\ AdapterInit
    /\ subject \in {"frames", "chunked", "cache", "pool", "writer", "adapter"}
    /\ subject # "adapter" => mopts = NewOptions
    /\ subject # "cache" => \A p \in Goroutines : gkey[p] = CHOOSE k \in LogKeys : TRUE

Next ==
    /\ \/ /\ subject = "frames" /\ FrNext
          /\ UNCHANGED <<chunkVars, cacheVars, bytesVars, adapterVars>>
       \/ /\ subject = "chunked" /\ ChNext
          /\ UNCHANGED <<frameVars, cacheVars, bytesVars, adapterVars>>
       \/ /\ subject = "cache" /\ CacheNext
          /\ UNCHANGED <<frameVars, chunkVars, bytesVars, adapterVars>>
       \/ /\ subject = "pool" /\ PoolNext
          /\ UNCHANGED <<frameVars, chunkVars, cacheVars, adapterVars>>
       \/ /\ subject = "writer" /\ WriterNext
          /\ UNCHANGED <<frameVars, chunkVars, cacheVars, adapterVars>>
       \/ /\ subject = "adapter" /\ AdapterNext
          /\ UNCHANGED <<frameVars, chunkVars, cacheVars, bytesVars>>
    /\ UNCHANGED subject

Spec ==
    Init /\ [][Next]_<<frameVars, chunkVars, cacheVars, bytesVars, adapterVars, subject>>

================================================================================
