--------------------------------- MODULE Bytes ---------------------------------
(***************************************************************************)
(* Package bytes of the RPC server: the buffer pool (buffer.go), a linked  *)
(* list of free buffers under a mutex, and the growing Writer (writer.go)  *)
(* that builds every request and reply.                                    *)
(***************************************************************************)
EXTENDS Integers, Sequences, FiniteSets

CONSTANTS
    Users,       \* goroutines that use the pool
    Num,         \* buffers per block of the pool
    MaxBuffers,  \* bound: buffers ever allocated
    StartSize,   \* size of a new Writer
    MaxPiece,    \* bound: bytes per Write or Peek
    MaxBytes     \* bound: bytes held by a Writer

ASSUME BytesAssumption ==
    /\ Num \in Nat \ {0} /\ MaxBuffers \in Nat
    /\ StartSize \in Nat /\ MaxPiece \in Nat /\ MaxBytes \in Nat

Nil == 0

VARIABLES
    next,   \* Buffer.next of each allocated buffer, numbered from 1
    free,   \* Pool.free
    held,   \* buffers handed out, by user
    array,  \* Writer.buf: the values in the current array
    w,      \* Writer.n
    slice,  \* the region the last Peek returned: array it points into, from, to
    arrays, \* arrays allocated so far
    want    \* ghost: what Buffer() must hold

poolVars == <<next, free, held>>
writerVars == <<array, w, slice, arrays, want>>
bytesVars == <<poolVars, writerVars>>

--------------------------------------------------------------------------------
(* Pool.  Each operation is one critical section.                           *)

\* grow: a block of Num buffers, each linked to the one after it.
Grown ==
    [b \in 1 .. Len(next) + Num |->
        IF b <= Len(next) THEN next[b]
        ELSE IF b < Len(next) + Num THEN b + 1 ELSE Nil]

\* NewPool.  Pool.Init, which begins the list anew, and the package's own Get on
\* a pool that is never set have no callers and are left out.
PoolInit ==
    /\ next = [b \in 1 .. Num |-> IF b < Num THEN b + 1 ELSE Nil]
    /\ free = 1
    /\ held = [u \in Users |-> {}]

PoolGet(u) ==
    LET list == IF free = Nil THEN Grown ELSE next
        b    == IF free = Nil THEN Len(next) + 1 ELSE free
    IN  /\ Len(list) <= MaxBuffers
        /\ next' = list
        /\ free' = list[b]
        /\ held' = [held EXCEPT ![u] = @ \cup {b}]
        /\ UNCHANGED writerVars

\* Faulty variant: the list is taken before the buffer is linked to it.
PoolPutSwapped(u, b) ==
    /\ b \in held[u]
    /\ free' = b
    /\ next' = [next EXCEPT ![b] = b]
    /\ held' = [held EXCEPT ![u] = @ \ {b}]
    /\ UNCHANGED writerVars

\* A user puts back what it holds, once.
PoolPut(u, b) ==
    /\ b \in held[u]
    /\ next' = [next EXCEPT ![b] = free]
    /\ free' = b
    /\ held' = [held EXCEPT ![u] = @ \ {b}]
    /\ UNCHANGED writerVars

--------------------------------------------------------------------------------
(* Writer.                                                                  *)

Zero == "zero"
Filled == "bytes"
Zeros(k) == [i \in 1 .. k |-> Zero]

WriterInit ==
    /\ array = Zeros(StartSize)
    /\ w = 0
    /\ slice = [array |-> 0, from |-> 1, to |-> 0]
    /\ arrays = 1
    /\ want = <<>>

\* Faulty variant: the new array is only twice as large.
GrowDouble(k) ==
    IF w + k < Len(array) THEN array
    ELSE SubSeq(array, 1, w) \o Zeros(2 * Len(array) - w)

\* grow: the array that has room for k more bytes.
Grow(k) ==
    IF w + k < Len(array) THEN array
    ELSE SubSeq(array, 1, w) \o Zeros(2 * Len(array) + k - w)

Allocated(k) == arrays + (IF w + k < Len(array) THEN 0 ELSE 1)

\* Copy the bytes from position i on over the array, as far as it reaches.
Over(a, i, bytes) ==
    [j \in DOMAIN a |-> IF j \in i .. i + Len(bytes) - 1 THEN bytes[j - i + 1] ELSE a[j]]

Small(a, b) == IF a < b THEN a ELSE b

WriterWrite(bytes) ==
    /\ Len(want) + Len(bytes) <= MaxBytes
    /\ array' = Over(Grow(Len(bytes)), w + 1, bytes)
    /\ arrays' = Allocated(Len(bytes))
    /\ w' = w + Small(Len(bytes), Len(Grow(Len(bytes))) - w)
    /\ want' = want \o bytes
    /\ UNCHANGED <<slice, poolVars>>

\* The region is the caller's to fill; until then it holds what was there.
WriterPeek(k) ==
    /\ Len(want) + k <= MaxBytes
    /\ LET a == Grow(k) IN
        /\ array' = a
        /\ arrays' = Allocated(k)
        /\ slice' = [array |-> Allocated(k), from |-> w + 1, to |-> w + k]
        /\ w' = w + k
        /\ want' = want \o SubSeq(a, w + 1, w + k)
    /\ UNCHANGED poolVars

\* The caller fills the region Peek gave it.  If the Writer has grown since,
\* the bytes go to an array nobody reads.
FillSlice ==
    LET bytes == [i \in 1 .. slice.to - slice.from + 1 |-> Filled] IN
        /\ bytes # <<>>
        /\ slice' = [slice EXCEPT !.to = slice.from - 1]
        /\ IF slice.array = arrays /\ slice.to <= w
           THEN /\ array' = Over(array, slice.from, bytes)
                /\ want' = Over(want, slice.from, bytes)
           ELSE UNCHANGED <<array, want>>
        /\ UNCHANGED <<w, arrays, poolVars>>

WriterReset ==
    /\ w > 0
    /\ w' = 0
    /\ want' = <<>>
    /\ slice' = [slice EXCEPT !.to = slice.from - 1]
    /\ UNCHANGED <<array, arrays, poolVars>>

BytesInit == PoolInit /\ WriterInit

PoolNext ==
    \E u \in Users : PoolGet(u) \/ \E b \in held[u] : PoolPut(u, b)

WriterNext ==
    \/ \E k \in 0 .. MaxPiece : \E b \in {"a", "b"} :
           WriterWrite([i \in 1 .. k |-> b])
    \/ \E k \in 0 .. MaxPiece : WriterPeek(k)
    \/ FillSlice
    \/ WriterReset

PoolSpec == PoolInit /\ [][PoolNext]_poolVars
WriterSpec == WriterInit /\ [][WriterNext]_writerVars

--------------------------------------------------------------------------------

\* A set that has the first free buffer and, with a buffer, the one after it.
Linked(S) == {free} \cup {next[b] : b \in S} \subseteq S \cup {Nil}

\* The least such set: the buffers on the free list.
FreeList == {b \in DOMAIN next : \A S \in SUBSET DOMAIN next : Linked(S) => b \in S}

\* No buffer is lost and none has two owners: every buffer ever allocated is on
\* the free list or held by exactly one user, and the list ends.  Get never
\* clears the next of a buffer it hands out: buffer.go:58-104.
PoolConserves ==
    /\ \A u, v \in Users : u # v => held[u] \cap held[v] = {}
    /\ FreeList \cap UNION {held[u] : u \in Users} = {}
    /\ FreeList \cup UNION {held[u] : u \in Users} = DOMAIN next
    /\ FreeList # {} => \E b \in FreeList : next[b] = Nil

\* Buffer() is what was written and peeked, in order and complete, through every
\* growth and reset; a region filled after a growth is not in it:
\* writer.go:29-57.
WriterExact == w <= Len(array) /\ SubSeq(array, 1, w) = want

================================================================================
