# A TLA+ verification of kratos-transport-rpc

The repository turns MQTT publish/subscribe into remote calls: a client
publishes an HTTP-like message on `<service>/req` and waits for one on
`<service>/resp`. This directory models the parts that carry that promise,
checks them with TLC on small instances and proves nearly all the safety
properties, and the refinement, with TLAPS for every instance. Definitions keep the names of the
code; `PROJECT.json` ("map") gives the lines each definition stands for.

## 1. The system

| component | source | state it keeps | operations | interacts with |
|---|---|---|---|---|
| transport server | `transport/mqtt/server.go` | `err`, `started`, `subscriberOpts` (a `sync.Map`) | Start, Stop, RegisterSubscriber, OnConnect callback | broker adapter (calls), OnConnect (callback in a goroutine) |
| broker adapter | `broker/mqtt/mqtt.go`, `utils.go` | the paho client, addresses, options | Connect, ConnectRetry, Disconnect, Publish, Subscribe | paho; one goroutine per delivered message |
| RPC client | `server/mqtt/client.go` | per call: a channel of capacity 1, the caller's `out` | Invoke, Send, the reply handler | the global `srv`, hence one connection for all calls |
| RPC server, router | `server/mqtt/server.go`, `route.go` | the global `srv`, a route map per router | NewServer, REQ, Route, the request handler, Stop | transport server, application functions |
| encoding | `broker/encoding.go` and the codec choice in both handlers | none | Marshal, Unmarshal | |
| message parser | `server/mqtt/request.go` | the request being built | ReadRequest | buffered reader |
| buffered reader | `server/mqtt/bufio/bufio.go` | `buf`, `r`, `w`, `err` | Peek, Pop, Discard, Read, ReadByte, ReadSlice, ReadLine | an `io.Reader` |
| buffered writer | same file | `buf`, `n`, `err` | Write, WriteRaw, WriteString, Peek, Flush | an `io.Writer` |
| framing | `server/mqtt/conn.go` | fragments of a message | ReadMessage, WriteMessage, readFrame | reader, writer |
| byte buffers | `server/mqtt/bytes` | free list; a growing slice | Get, Put; Write, Peek | |
| chunked encoding | `server/mqtt/internal/chunked.go` | bytes left in the chunk, error | Read, Write, Close | |
| log filter cache | `broker/mqtt/cache.go` | two maps under one RWMutex | Set, Get, Error | |
| command line | `cmd/kratos` | files, a cached clone of the layout under `~/.kratos` that all commands share | new, upgrade, run, proto, changelog | git, go, protoc (external programs, some of which outlive their command) |
| generators | `cmd/protoc-gen-go-mqt`, `-mqtt` | the file being generated | one file per descriptor | the runtime its output is built with |

What is hard here:

* **Concurrency without locks.** The mutex of the transport's `Server` is
  commented out (line 37). Start, Stop, every RegisterSubscriber and every
  OnConnect callback read and write `started` and `subscriberOpts` while the
  others run; each read and each write is a step of its own in the model.
* **Reconnection.** The broker forgets the session (CleanSession); paho keeps its
  topic-to-callback routes; the OnConnect goroutine of the old connection may
  still be running when that of the new one starts.
* **Shared reply topic.** Every call of a service registers a handler for the
  same `/resp` topic. Replies are late, crossed, repeated by several servers,
  or refused; the deadline covers the `select` only.
* **Buffers at their limits.** A `\r\n` across the end of the buffer, an error
  delivered together with data, a body that fills the buffer; lengths at 125,
  2^16 and 2^63, a chunk size of 17 digits, a connection that ends anywhere.
* **Deadlines that give up on work in progress.** `kratos new` ends while its
  goroutine, or git, is in the middle of something, and the next command works
  with what was left; an attempt to connect that outlives its deadline counts as a
  success.
* **Looking first, acting later.** The proto commands look for a file and then
  write it; `kratos new` looks for the cached clone and then copies from it while
  others pull.

What makes each component correct:

* transport: a registered topic is subscribed on every live connection, by the
  handler registered last; `started` tells the truth;
* RPC: a call returns; its result comes from a published reply (and, as one would
  expect, to its own request); requests are answered once; no reply is waited for
  on a topic nobody subscribed;
* parser and reader: no byte lost, repeated or reordered, whatever the cuts;
  errors surface; lines and bodies are those of the message;
* encoding and stubs: the generated file builds, a call reaches the function of
  its own method, and what the function is given is what the caller sent;
* framing and chunks: the message, or stream, that comes out is the one that went
  in, with its type, and a truncated one is an error;
* pool, writer, cache: every buffer has one owner, the bytes written are the bytes
  held, no fresh entry disappears;
* command line: success means a complete and current project, edited files stay, a
  service keeps its file.

## 2. Modules

| module | models | extends |
|---|---|---|
| `Transport` | transport server over the broker adapter and paho | |
| `TransportProofs` | theorems about `Transport` | `Transport` |
| `CallService` | abstract: what the RPC client promises a caller | |
| `Rpc` | Invoke/Send and RegRoute, the MQTT broker, other processes | `Transport`, instance of `CallService` |
| `RpcProofs` | theorems about `Rpc` | `Rpc`, `TransportProofs` |
| `Stubs` | protoc-gen-go-mqt, REQ, Route | |
| `Codec` | one call from the stub to its answer, with the values it carries | `Stubs` |
| `CodecProofs` | theorems about `Stubs` and `Codec` | `Codec` |
| `BufReader` | the buffered reader over an arbitrary `io.Reader` | |
| `BufReaderProofs` | theorems about `BufReader` and `Request` | `Request` |
| `BufWriter` | the buffered writer over an arbitrary `io.Writer` | |
| `BufWriterProofs` | theorems about `BufWriter` | `BufWriter` |
| `Request` | ReadRequest over the buffered reader | `BufReader` |
| `Frames` | ReadMessage and WriteMessage | |
| `Chunked` | chunkedReader and chunkedWriter over a connection | |
| `WireProofs` | theorems about both | `Frames`, `Chunked` |
| `Cache` | the log filter and its cache | |
| `Bytes` | the buffer pool and the growing writer | |
| `Adapter` | the broker object: options, addresses, client, (re)connection | |
| `ObjectProofs` | theorems about the three | `Cache`, `Bytes`, `Adapter` |
| `Project` | kratos new and the cached layout | |
| `Tools` | kratos proto and upgrade | |
| `KratosProofs` | theorems about both | `Project`, `Tools` |
| `MC*` | constants of the instances, symmetry | one or more |

**Transport.** `err`, `started`, `opts` are the fields of `Server`; `link`,
`route`, `subs` are paho's status, paho's router and the broker's subscriptions.
Program counters: `start`, `stop`, `reg[h]` for the RegisterSubscriber call of
handler `h`, `cb[g]` for the OnConnect goroutine of connection `g`. Start is
`StartCall`, `ConnectOk`/`ConnectFail`, `StartReturn`; Stop is `StopCall`,
`Disconnect`; RegisterSubscriber is `Store`, `CheckStarted`, `RegSubscribe`,
`RegAck`; the callback is `RangeBegin`, then `RangeLoad`, `CbSubscribe`, `CbAck`
per key, then `RangeEnd`. `sync.Map.Range` visits the keys present when it begins
and loads each value when it reaches it. `OnConnectStarts` tells the two
constructors apart: the callback of `NewServer` sets `started`, the one of
`InitServer` (which the RPC server uses) does not. Two ghosts name the races the
code really has: `missed` holds the registrations that read `started = FALSE` on
a connection that was up (between Connect and `started = true` in Start, or after
Stop cleared it); `late` records that `started` was set on a stopped or stopping
server. Assumed of paho: listed at the head of the module. The broker is assumed
to grant a SUBSCRIBE.

**Rpc.** `Invoke(c)` performs `Store(c)` of the transport, then the
transport's own steps run for `c`, then `PublishRequest(c)`, then `Receive(c)` or
`Timeout(c)`. A delivered message becomes a member of `gor`, a goroutine with
the handler that the topic had at delivery. The reply handler is
`RejectReply`/`DecodeReply`/`Signal`; the request handler is
`RejectRequest`/`Serve`. `NewServer` runs Start to its end before it returns, so
`RpcInit` is either connected with nothing registered or failed for good. Other
processes may call (`PeerRequest`) and serve (`PeerReply`); their connections are
taken to be stable. When the link is lost, any of the messages sent over it may
lack its acknowledgement and is sent again on the next connection; as the broker
has forgotten the session (CleanSession), it is a new message there. The server
is stopped once, at shutdown (`RpcStop`).

**CallService** is the client without topics, handlers, channels and connections:
a call begins, replies are accepted for it, it returns nil after at least one was
accepted or returns an error. `Rpc` implements it (`ImplementsCallService`) under
the mapping of `Client`: a call is pending from the registration of its reply
handler to its return, a reply is accepted when its handler goes on to signal,
the result is the caller's `out`. That the accepted reply is the caller's own is
not part of it, because the code does not promise it (`rpc_own_reply`).

**Stubs.** The generator is a function from services, method kinds and the flag
`require_unimplemented_servers` to what the generated file declares and what it
refers to; `Builds` is the Go compiler's view, every reference declared by the
file or by package `mqtt`. A registration puts a router on a topic and replaces
the one that was there. A service whose name contains "Upload" is registered
with `RouteUpload`, which does nothing: its requests are never received.

**Codec.** One exchange: a stub of any service and method is called on any topic,
before or after any registrations, with the codec option of each side free.
`HandleRequest` looks the URI up in the router the topic has then and decodes the
body, `WriteReply` encodes the answer, `HandleReply` decodes it. A value that
cannot be decoded leaves the target alone, because the error of Unmarshal is
ignored; a proto message with only default values is encoded as no bytes, and a
message without a body is dropped.

**BufReader.** A byte is its offset in the input, so a lost, repeated or
overwritten byte is visible. An operation is a `Call`, the `Fill`s it needs and a
`Return`; the underlying reader returns any number of bytes with or without an
error. `taken` is a ghost: what the results tell the caller he has consumed.

**BufWriter.** A byte is its number among the bytes the caller wrote since the
last Reset. One step is one turn of an operation's loop (a copy and the flush
that follows it, or a direct write), since nothing else can run in between. The
underlying writer takes any part of its argument, with or without an error; a
direct write makes progress or fails.

**Request.** The reader of `BufReader` driven by readLine, parseRequestLine and
readMIMEHeader. The underlying reader is the `strings.Reader` both handlers use.

**Frames.** One goroutine reads messages; the next frame is any that WriteMessage
or a foreign peer may send. A payload is a sequence of segments (which frame, how
many bytes, under which masks), so a lost fragment, a body cut short and a wrong
mask are all visible without the bytes. `Conn.maskKey` is a variable because the
code keeps it between frames. The pong is written by the same goroutine and its
writer may fail, for good.

**Chunked.** Bytes are kinds (digit, CR, LF, separator, numbered data byte). The
writer's four writes, the reader's `Read` loop, its `bufio.Reader` and the end of
the connection interleave freely. `Base`, `Digits` and `Wide` stand for 16, the 16
digits of a chunk size and 2^64. `ParseHexUint` adds digits modulo `Wide`, refuses
a longer number, and returns 0 with its errors, as the code does.

**Cache.** `Get` is up to four steps under the read lock; `Set` needs the write
lock. Where two readers touch a map at once and one deletes, `MapRace` lets the
runtime end the process, and the other branch lets it not notice.

**Bytes.** The pool is the linked list itself (`next`, `free`). The writer's
array is replaced by growth, and a slice an earlier `Peek` returned then points
into the old one.

**Adapter.** `newBroker` from any two options in order; the client is built
once, so options given to `Init` change the broker's own fields only. An attempt
to connect succeeds, fails or outlives its deadline of five seconds; the paho
client may complete it later.

**Project.** A command is a program counter per terminal (`ppc`): `Begin`, `Name`,
`NoGoMod`, `Stat`, `Decline` or `Override`, `Clone` with `CloneBegin` or `Pull`,
`ReadMod`, `ReadDir` and `CopyFile` for each file, `CopyEnd`, `Rename`, `Finish`.
`Deadline` ends the process at any step after the name is known and leaves the
disk as it is. The clone (`head`, `tree`, `indexed`, `git`) is shared. What is
assumed of git, which is not in the repository:

* `git clone` makes the directory, fetches, sets HEAD, and then checks the files
  out; when the fetch fails it removes the directory, when the checkout fails it
  does not;
* `git pull` exits 0 at once when HEAD is the version of the remote, whether the
  files are checked out or not, and even while another git is at work; otherwise it
  replaces the files one by one (unlink, create, write) and moves HEAD last;
* one git process at a time writes files, as it takes the lock of the index; a
  process that is killed may leave the lock, and then no pull that has work to do
  succeeds any more;
* a clone whose checkout never came to its end has no index (`indexed`), so a later
  pull takes its missing files for deleted ones and does not bring them back.

At the deadline `exec.CommandContext` kills git, unless the command's process is
gone first: then git goes on beside later commands. Each file of the model lies in
a directory of its own, which copyDir reads once. Reading and writing one file in
copyFile is one step. The ghost `source` says what a command copies from: a clone
at rest that was checked out to its end ("whole"), or another one.

**Tools.** A working directory in which a user edits files and runs the commands
from several shells. proto add and proto server put files on a shell's list
(`work`); for each, `Look` is os.Stat and `Write` is os.WriteFile, and anything may
happen between the two. `upgrade` installs the kratos of the upstream repository
first, so that the commands of this one are gone until the user installs it again
(`Ours`, `Reinstall`).

## 3. Runs

| run | instance | what it shows |
|---|---|---|
| `transport` | 2 topics, one handler each, 2 connections, NewServer | `NoLostSubscription`, `StartedIffConnected`, `FailedStartIsFinal`, `EventuallySubscribed` |
| `rpc_client` | 2 calls, a remote server, 2 connections | `ReplyProvenance`, `SignalConservation`, `ReplyPathReady`, `ImplementsCallService` |
| `rpc_server` | 1 own call to one service, 1 router and 1 foreign call of another | `AnsweredOnce`, `InvokeReturns` |
| `bufreader` | buffer of 2, inputs of 4 bytes over {NL, CR, other} | `WindowExact`, `InOrder`, `NoLineEndLeft`, `ErrorSurfaces`, `OperationReturns` |
| `bufwriter` | buffer of 2, 7 bytes, arguments from -1 to 5 | `OutputExact`, `StickyError`, `WriterReturns` |
| `request` | a request line and 5 arbitrary bytes of 6 kinds, buffer of 3 | `SameLines`, `BodyLimits`, `RequestReturns` |
| `codec` | 3 services (one for uploads), 2 methods of any kind, 2 topics, 3 values, 3 codecs on each side | `UnaryFilesBuild`, `RightFunction`, `JsonRoundTrip` |
| `library` | frames: lengths around 125, 2^16, the buffer and 2^63; 3 frames per message. Chunks: 4 data bytes, base 2, sizes of 2 digits. Cache: 3 goroutines, 2 keys. Pool: 2 users, 4 buffers in blocks of 2. Writer: 4 bytes. Adapter: 11 options, 2 retry loops | `Reassembled`, `TypeOfMessage`, `PongPerPing`, `FrameBudget`, `StreamExact`, `PromptRead`, `FreshEntriesStay`, `PoolConserves`, `WriterExact`, `LostCallbackSafe`, `RetryCovered` |
| `kratos` | 2 terminals, 3 commands, 2 versions of a layout of 2 files; 2 shells, 2 proto files, 2 services that share a file | `SuccessMeansComplete`, `SuccessIsFresh`, `FirstServiceHasFile`, `ClientNeedsMqt`, `EditsSurvive` |
| `rpc_own_reply` | 2 calls | **violated**: concurrent calls swap replies |
| `codec_proto` | as `codec` | **violated**: proto bodies are decoded as JSON |
| `kratos_partial` | 1 terminal, 2 commands, 3 files, one version | **violated**: part of the layout is copied and success reported |

The three violations are disagreements with what the repository says of itself;
"findings" in `PROJECT.json` quotes the lines. In the trace of `kratos_partial` the
first command reaches its deadline while git checks the clone out; the next one
finds the directory, git pull has nothing to do and exits 0, and copyDir copies the
files that are there. `library` and `kratos` put independent modules side by side: a
behaviour exercises one of them.

Where a property of a passing run names an exception, the exception is what the
code does:

* `TypeOfMessage`: a final continuation frame behind fragments without data is
  returned as a message of type 0 (`conn.go:144`);
* `RetryCovered`: `checkClientTokenTimeout` reports no error for an attempt that
  has not finished, and ConnectRetry then stops trying;
* `SuccessMeansComplete`, `SuccessIsFresh`: a command that copies from a clone whose
  checkout was cut short, or while git replaces files, may report success for a
  project that is incomplete, mixed or old (`kratos_partial` is the first case); a
  directory the user chose to keep counts as success;
* `EditsSurvive`: an edit made between the look and the write of a command is lost;
* `FirstServiceHasFile`: the other services of the file have no implementation, and
  the command says no more than "already exists";
* `ClientNeedsMqt`: `proto client` looks for protoc-gen-go-mqt, which the
  `upgrade` it runs does not install;
* `UnaryFilesBuild`: a streaming method makes the generated file refer to
  names nobody declares;
* `FreshEntriesStay`: the maps survive racing readers, but the Go runtime may end
  the process on such a race; the adapter builds the filter with a timeout of 0;
* `BodyLimits`: a body ends after its first zero byte, and one that fills the
  4096-byte buffer is dropped, since it is read with ReadSlice(0)
  (`request.go:81`);
* `AnsweredOnce` covers the first connection: a request that is sent again after
  a reconnection is executed again.

One more race is in the model and in no property: an OnConnect callback that read
a handler subscribes it after a newer registration of the same topic
(`RangeLoad`, then `Store` and `RegSubscribe` of the other, then `CbSubscribe`),
so the older handler receives the topic until the next connection.

*Bounds.* `MaxLinks` bounds the connections: two are needed for the callback of
an old connection to overlap the new one. Two handlers of the same topic are
needed for replacement. A buffer of 2 bytes and an input of 4 is the smallest
pair in which a slide, a full buffer, a `\r\n` across the end of the buffer and a
second fill happen in one behaviour; for the writer, arguments longer than two
buffers after a part-filled one take every path of Write. A message of
at most three frames holds a ping or a pong between two fragments; lengths are taken on both sides of each threshold, and as
the arithmetic only compares and adds, 2^63 is scaled to 2^20. Four data bytes
make two chunks of which one is longer than the caller's slice, and a buffer of 6
ends in the middle of a size line, of data and of a footer. Three goroutines are
two racing readers and one writer. Three commands of two terminals are an
interrupted clone or pull, a command that finds it, and one running beside them;
with two versions a pull has something to do. Two shells are two commands between
whose steps a third party, the user, edits.

The instances are bounded only by these constants and by the finite sets of calls
and handlers; no state constraint is used. `MCFairSpec` of `rpc_server` leaves out
behaviours in which this process has a second connection and also serves or is
called: the steps it forbids are reconnections, registrations of a router and
foreign requests, which no fairness condition asks for. The theorems remove the
bounds for the properties they state.

*Deadlock* is checked in `transport`, `bufreader` and `bufwriter`, which can always go
on. It is not in the others, which end: calls, commands, the clock
and the attempts are finite in number, and a parse and an exchange have a last
step.

*Fairness.* Goroutines that have begun keep running (Go's scheduler), a deadline
passes, the broker answers a SUBSCRIBE on a live link. Nobody owes a Start, a
Stop, a registration, a reconnection or a reply. ReadRequest is one sequential
thread, and so is an operation of the reader or of the writer: weak fairness of its
next step, in which a Read or Write below returns something. `InvokeReturns` has one
exception, which is the code's: until the reply handler is registered a call
waits for its SUBACK without a deadline.

Each property has a mutant in the module it is about ("Faulty variant"): a
version of one definition with a plausible slip, under which TLC finds the
property violated.

## 4. Proofs

`TransportProofs`, for any sets of topics and handlers, any number of
connections and both kinds of server:

* `TypeCorrect`: `Spec => []TypeOK`. Not only types: the keys a Range has yet to
  visit stay stored, so the value passed to Subscribe is never nil.
* `StartedAgrees`, `FailureIsFinal`: from `LifecycleInv`, which adds how
  `start`, `stop`, `err` and `link` go together while Start or Stop is half done.
  `StartedIffConnected` alone says nothing in those states and is not
  inductive.
* `RegistrationsSurvive`: `NoLostSubscription` with `OptsInv`, that the handler
  stored for a topic was registered for that topic, without which the
  acknowledgement of its RegisterSubscriber would not settle the topic's debt.
  The interesting steps are `Established`, which clears the subscriptions and
  hands every debt to the new callback, `RangeBegin`, which takes over exactly
  the stored keys, and `CheckStarted`, where a registration either goes on to
  subscribe or joins `missed`.

`RpcProofs`, for any calls, routers, peers and number of connections:

* `RpcTypeCorrect`, `SignalsConserved`, `ReplyPathKept` from `RpcInv`. No property
  of the channel is inductive without the goroutines: `GorInv` says that handler
  goroutines are told apart, that each runs for a published message on the topic
  of its handler, and that only reply handlers signal; `NetInv` that nobody answers
  what was not published and that what the broker holds has a callback; `CallInv`
  ties the progress of a call to its registration and its request.
* `RepliesTraceable`: what `out` holds is a published reply to a published request
  of the same service. The step that matters is `DecodeReply`, with the topic of
  the goroutine's handler from `GorInv`.
* `RequestsAnsweredOnce` from `OnceInv`: until the first reconnection a request has
  one copy, in the outbox, at the broker, in one goroutine, or answered.
* `RpcImplementsCallService`: every step of `Rpc` is a step of `CallService` or
  leaves its variables alone, under the mapping `Client`.

`CodecProofs`, for any services, methods, topics, values and functions:

* `UnaryFilesBuildAlways`: in a file without streaming methods every reference of
  every service is declared; the proof goes through what `genService` refers to,
  kind by kind.
* `RunsTheRightFunction`, `JsonArrives` from `ExchangeInv`, which says at each stage
  of a call what the message in transit was made from.

`BufReaderProofs`, for every buffer size of at least two, alphabet, input length
and set of counts:

* `WindowIsExact`, `BytesInOrder`. The invariant relates the
  window to the input (`buf[i] = pos + 1 + i - w`) and the ghost `taken` to what
  a Discard in progress has already skipped (`op.n - op.rem`).
* `LineEndsRemoved`: no piece that ReadLine returns holds a line feed or ends in
  the `\r` of a `\r\n`; that the operation looks for a line feed is carried along
  by `LineInvariant`.
* `ErrorsSurface`, an action property: a pending error is cleared by the
  operation that returns it, with the code's two exceptions: ReadLine behind its
  last data, and the loop of Discard, which reads on.
* `LinesAreTheMessages`, `BodiesAreLimited`: what ReadRequest makes of the message,
  for every buffer size and every way the input arrives, from `ReqInv`. It takes
  over the reader's invariant and adds which operation may run in which phase
  (`OpsInv`), that an end of the input is met with room in the buffer (`EndInv`,
  without which a full buffer and an end could not be told apart), what ReadLine
  and ReadSlice have returned in terms of the input and not of the window
  (`PieceInv`, `BodyInv`), how the pieces joined so far lie in their line and how
  many lines lie before it (`LinesInv`), and where the body begins (`StartInv`).
  The case the invariant is for is a line longer than the buffer whose `\r` is put
  back at the end of a piece.

`BufWriterProofs`, for every buffer size, set of argument lengths and bound:

* `WriterTypeCorrect`, `OutputIsExact` from `WrInv`, which adds to the two
  properties that what an operation in progress has still to write fits the
  bound and is not negative. The lemmas follow the data: appending the next
  numbers to a run of numbers (`AppendNext`), copying (`CopiedExact`), flushing a
  prefix (`FlushExact`), writing directly (`DirectExact`).
* `ErrorIsSticky` needs no invariant: each action that changes the data tests
  the error first.

`WireProofs`, for any lengths, thresholds, bounds and sets of frames:

* `MessagesReassembled`, `MessagesTyped`, `PingsAnswered`, `CallsBounded` from
  `FrInv`. The properties speak of a call that has returned; `Reading` says the
  same of one that is running: what it has collected is what the data frames read
  so far carry, its type is that of the last fragment with data, and every frame
  was counted.
* `ReadsArePrompt` from `ChInv`: a Read that has data in hand begins a footer or a
  size line only if the buffer holds it already (`Served`). `ValueFacts` shows
  that the recursion over digits is well defined.
* `StreamsAreExact` from `StreamInv`. The state alone does not say where in the
  stream a byte belongs, so `InStep` asserts that a chain of pieces exists (size
  line, data, footer, size line, ...), each with its place in the stream and with
  the data bytes before it. The sender is at the end of the last piece or has
  broken off in it (`WriterAt`), the reader is behind a footer or in the data a size
  line announced (`ReaderAt`), and buffer and wire hold the bytes between the two
  (`Carries`). A write appends a piece to the chain (`ChainGrows`, `SenderStep`); a
  read moves the reader along it (`ReaderStep`). `LineSays` shows that the reader
  takes a size line for the size it stands for or refuses it, whatever follows the
  digits; `SizesFit` that a size of at most `Digits` digits is below 2^64, so that
  the product in parseHexUint never wraps; `EndIsReached` that a size of zero is
  read only as the last piece of a stream that was ended. Facts about all digits of
  a number are proved by the least counterexample. `InStep` quantifies over all
  chains, so TLC checks its consequence `StreamExact` and not `InStep` itself.

`ObjectProofs`, for any goroutines, keys, timeout, users, block size, options:

* `FreshEntriesKept` from `CacheInv`: a reader deletes expired entries only, and the
  two maps differ in the keys some reader has deleted from the first one. Under
  the read lock nobody refreshes an entry between the test and the deletion.
* `PoolIsConserved` from `PoolInv`: the free list is a chain of different buffers,
  namely those nobody holds. The chain is an explicit witness, rebuilt by each
  `Get`, `Put` and growth.
* `WriterIsExact` from `WriterInv`: below `w` the array holds what was written,
  whatever was copied on growth.
* `LostCallbackIsSafe` from `AddressInv`, `RetryIsCovered` from `RetryInv`: an
  attempt is left running only by a deadline that passed.

`KratosProofs`, for any terminals, files and versions, shells, proto files and services:

* `SuccessIsComplete`, `SuccessIsUpToDate` from `ProjectInv`. Neither property says
  anything before the end of a command, so `CopyInv` follows the copy: the files
  looked for and no longer to be copied have the version of HEAD, as long as the
  clone rests. `CloneInv` is what makes a successful pull enough: a clone that was
  checked out once and is not whole now has a HEAD behind the layout, so git pull
  does not call it up to date; it holds because pull moves HEAD last. `AwaitInv`
  says that at most one command waits for git, and that what git checks out is not
  older than that command. A git process that has lost its command changes the
  clone like any other; `Same` says what a step means to the commands that do not
  take it.
* `EditedFilesSurvive`, `FirstServiceKeepsFile` from `FileInv`: a command about to
  write found its file absent, and an edit made since is `late` (`Opened`); the file
  of a service behind another one of the same file is there or comes earlier on the
  shell's list (`Covered`).
* `ClientCodeNeedsMqt` from `PluginInv`: no command installs the MQTT plugin, so
  generated client code means that it was there before.

The assumptions are the named `ASSUME`s of the component modules; every one is
evaluated by TLC on the instances. Three are less obvious: `LinkAssumption` (NewServer
makes the first connection, so at least one is allowed); `WidthAssumption` (`Wide` is
a one and `Digits` zeros in base `Base`: 2^64 for the 16 hexadecimal digits that
parseHexUint accepts); and `ForeignAssumption`, which says how a foreign size line
is split: its digits end with the first byte that is none, and the line with its
first line feed.

Model-checked only:

* all liveness (`EventuallySubscribed`, `InvokeReturns`, `WriterReturns`,
  `RequestReturns`, `OperationReturns`): fairness and ENABLED are out of the prover's reach;
* the three violated properties, which are refuted and not provable.

## 5. Not modelled

* The paho client and the MQTT broker are external: what the code relies on is
  modelled, their protocol is not. Both publish and subscribe use QoS 2, so a
  message is delivered once per session. Options that change QoS, CleanSession or
  AutoReconnect are left at their defaults.
* protoc-gen-go-mqtt: text made from a template; apart from a sample beside the
  generator nothing in the repository uses its output. `genServiceDesc` of protoc-gen-go-mqt is never called.
* Generated code, examples and third-party protos: no state to speak of.
* `loopConnect` and the HTTP scaffolding of `client.go` (cancelTimerBody,
  RequestRead, RoundTripper): nothing calls them; nor `FindHeader` and
  `subscriber.Unsubscribe`.
* `kratos changelog` formats what a web service returns; `kratos run` starts
  `go run`. The text of templates is left out of `Project` and `Tools`.
* `Pool.Init` and the package-level `Get` of `server/mqtt/bytes`, whose pool is never
  set: nothing calls them.
* `Reader.Reset`; middleware (part of the application's function).

## 6. Plan

1. (done) Transport, Rpc, BufReader, Request, Codec, BufWriter and the theorems
   above; the abstract call service and the refinement; Frames, Chunked, Cache,
   Bytes, Adapter, Project, Tools, Stubs.
2. (done) Theorems for `Rpc` and the refinement; for the codec, the wire, the small
   objects and the command line; the remaining reader properties.
3. (done) `SameLines` and `BodyLimits` of `Request`, beside the theorems about the
   reader they rest on; `StreamExact` of `Chunked`. Every invariant and every
   action property of the runs is now a theorem; liveness stays with TLC.
