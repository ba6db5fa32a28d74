# Verification of capnp-deno

TLA+ modules that model capnp-deno (a Cap'n Proto RPC runtime for Deno over a WASM
peer, with its transports, its encoding runtime and its code generator), TLC
configurations that check them on small instances, and TLAPS proofs of properties
that matter most, for every value of the constants. Paths below are those of the
repository; line numbers refer to the files the definitions translate.

Contents: [the system](#the-system), [modules](#modules-and-the-code),
[runs](#runs), [fairness](#fairness), [proofs](#proofs),
[divergences](#what-the-models-showed), [what is left out](#not-modelled),
[plan](#plan).

## The system

One event loop runs everything. Code between two `await`s is atomic, so each
action of a module is one such synchronous segment, and every `await` is a place
where other segments may come in between: inbound frames, settled handlers,
timers, `close()`, aborted signals, another run of a tool.

```
 application ── service (accept loop, drain, close) ── listener
                             │ one runtime per connection
                             ▼
                      RpcServerRuntime ───────────────┐
                             │  pump, hook            │ pumpWasmHostCalls, Finish,
                             ▼                        ▼ observeBootstrapResponse
 transport ◄─ PostInboundHookTransport ◄─ RpcSession   RpcServerBridge ── handlers
     ▲  ▲                                  │ push/drain                       │
     │  └─ RpcServerCallInterceptTransport ▼                                  ▼
     │      (RpcServerOutboundClient)   WasmPeer ── WasmAbi ── heap    outbound calls
     │
 middleware ── TCP │ WebSocket │ WebTransport │ MessagePort ── connect() ── reconnect,
     ▲                      framer, frame limits                     pool, breaker
     │
 SessionRpcClientTransport ── RpcSession ── WasmPeer      (client over a WASM peer)
 RpcWireClient ── wire codec                              (client without one)
 createStreamSender ── calls in flight; generated stubs ── struct codec

 capnpc-deno: schema compiler ── request ── names, paths ── modules ── output directory
```

| component | state | operations | hard behaviour | what makes it correct |
|---|---|---|---|---|
| server bridge, `src/rpc/server/bridge.ts` | capability registry with wire references, answer holds and claims; answer table with pins, timers, retry counts; charged input bytes | Call, pipelined Call, Bootstrap, Release, Finish, answer-finished notice, handler settlement on the direct and on the WASM path, eviction timer, export/retain/release, close | Finish before, between or after settlement, eviction and close; id reuse; pipelined calls that wait on an answer which goes away; a relay the peer refuses | references and holds equal what peers and answers own; no registration is dropped early; counts of pipelined calls are exact; no bytes leak; each call gets its own Return |
| session, `src/rpc/session/session.ts`; peer queue, `src/wasm/peer.ts` | lifecycle, `#inboundChain`, drained frames, outbound queue | start, inbound frame, push, drain, send, error, close | a transport that does not wait, failing sends, close while pumping | the core contract (push one, drain all, in order); nothing waits for ever |
| server runtime, `src/rpc/server/runtime.ts` | deferred frames per inbound frame, hook chain, host-call counters, flushes | deferred send, after-inbound task, pumpHostCallsNow, flush of a settled handler, close | three users drain one queue; the bridge must know a bootstrap answer before the caller sees it; limits on calls | order of bootstrap answers; no frame twice; nothing stays in the queue |
| outbound client, `src/rpc/server/outbound.ts` | pending questions, next id | callRaw, interception of Returns, timeout, finish, close | Return, timeout and close while the send is awaited | exactly the awaited questions are registered; calls end |
| session client, `src/rpc/session/client.ts`, `harness_frame_queue.ts` | operation chain, expected/pending/queued Returns, grants of parameter capabilities, response pump | bootstrap/callRaw, callRawPipelined, finish/release, timeout/abort, pump, callback, exportCapability, close | a Return before its wait; the pump ending while a wait begins; late Returns that must still settle grants | tables agree with calls; grants settle once; operations end |
| wire client, `src/rpc/rpc_wire_client.ts` | questions, grants, reference counts of exports, lifecycle | bootstrap, call with callbacks, Return, Finish, Release, timeout, close | a Return while its Call is being written; Finish and Release racing; end of the transport | what a finished question holds is kept; references of both sides add up |
| level-3 handoff, `src/rpc/l3_handoff.ts` | registered accepts and awaits, queued events | accept, await, event, timeout, abort | the Return of an await carries no id; events drained in batches | each handoff is matched with its own Return |
| stream sender, `src/rpc/session/streaming.ts` | calls in flight, bytes in flight, drain lock, first error | send, flush, wait for capacity, cancel | nested operations from callbacks; parameters encoded under the window | the window is exact; calls are handed over in order; operations end |
| service, `src/rpc/server/service.ts`, `internal/accept.ts` | state of the handle, connections being set up and active, accept queue | accept, admit, set up with a timeout, drain, close | shutdown while a factory is pending; a transport that closes during its set-up | nothing leaks; limits count connections being set up; a drain is graceful |
| transports, `src/rpc/transports/*.ts` | connection, outbound queue, drain loop, close signal | start, send, read loop, message events, close with a timeout | close from a handler; remote end while draining; queue limits | an accepted frame is on the wire before its send resolves; closed means silent |
| listeners and `connect()`, same files | sockets, jobs, accept queue, timers | accept, upgrade, first stream, close; dial, timeout, abort, set-up | close between two steps of a job; a timeout racing a late open | every accepted connection has an owner; no timeout leaves a socket open |
| middleware, `.../middleware/rpc_middleware.ts` | frames on their way through a stack | onSend, onReceive, limits, metrics, close | several sends under way | order, limits, counts |
| reconnecting client, `.../resilience/reconnecting_client.ts`, `reconnect.ts` | lane, connection, capability maps, attempts | call with reconnect and retry, release, close | a capability of an old connection used on a new one | retries use the new connection's capabilities; no connection is lost |
| circuit breaker, `.../resilience/circuit_breaker.ts` | state, failure count, opening time, probe flag | call, success, failure, reset | overlapping calls that began in another state | threshold and single probe |
| connection pool, `.../resilience/connection_pool.ts` | idle list, active set, count of attempts, waiters, warm-ups, drain | acquire, release, abort, timeout, evict, warm-up, close | abandoned attempts, awaited health checks, close in the middle | a connection is in one place; nobody waits beside a free one; waiters are woken |
| framer and limits, `src/rpc/wire/framer.ts`, `frame_limits.ts`, `segments.ts` | buffer, its start and storage, expected length | push, pop, header parsing, validation | chunks cut anywhere; a buffer that is reused | the frames popped are those sent; three parsers agree |
| pointers and RPC codec, `src/rpc/wire/pointers.ts`, `encode.ts`, `decode.ts`, `src/encoding/runtime_message.ts` | none (functions) | follow, validate, copy, embed, encode, decode | far pointers, damaged words, shared targets, limits | readers agree with the meaning of a pointer; copies keep it; a message decodes to what was asked |
| struct codec, `src/encoding/runtime_codec.ts`, `runtime_caps.ts` | none (functions) | encode, decode, collect and remap capabilities | unions, defaults, older and newer schemas | a value survives the round trip |
| WASM ABI, `src/wasm/abi.ts`, `peer.ts`, `src/encoding/serde.ts` | wrappers, handles, blocks of the module's heap, pending events | every export call with its inputs and outputs, events, close, shutdown | allocation fails half-way; a listener re-enters | every block is accounted for; no call reaches a freed handle |
| code generator, `tools/capnpc-deno/` | snapshot of the import graph, jobs of a worker, output directory | compile, snapshot, name and place modules, publish | files edited while read; runs that share a directory; killed runs | a closed graph within its budget; imports name what is exported; the barrel stays sound |

The hazards this code is exposed to, each at its line and with the properties that
cover it, are listed in `PROJECT.json`.

## Modules and the code

### The server

**ServerBridge.** `RpcServerBridge`. An `AnswerTableEntry` object is a member of
`Entries` and is used once; a question id may be reused. `registered`, `refCount`,
`hold`, `claimed`, `nextCap` are `#dispatchByCapability` and its companions
(claims are host-held references); `answerTable`, `phase`, `parent`, `capTable`,
`held`, `finished`, `pipelineRefCount`, `timer`, `attempts`, `size`, `retained`
are the entry fields and the retained-byte account. `ReceiveCall`,
`ReceivePipelinedCall`, `RejectCall`, `ReceiveBootstrap` are the synchronous part
of `handleFrame`/`pumpWasmHostCalls` up to the first `await`; `WakePipelinedCall`
is the continuation of a pipelined call after its target settled; `CallSettles` is
the whole continuation of a settled handler (refund, Return or discard,
`#trackReturnedCapabilities`, eviction timer); `FinishFrame` is `handleFrame` with a
Finish, or on the WASM path the event and the forwarded frame
(`AnswerFinishedEvent`, then `ForwardFinish`, as two steps because the runtime
forwards the frame after the pump has run). The caller is external: it follows the
protocol, reuses an id only after it has both sent Finish and received Return, and
releases only references it has. `peerRefs`, `pregrant`, `granted`, `owner` and
`answeredBy` are ghost variables: what the caller holds and which dispatch answered
which question. Frames, methods, parameters and middleware are abstracted; a Return's
capTable is a function from `Slots` to capabilities. **MCServerBridge** adds the
symmetry of question ids and entries, for runs that check safety only.
**ServerBridgeProofs** has the theorems about the tables, and about the references the
bridge and its caller count.

**RpcSession.** `RpcSession` over the frame queue of `WasmPeer`. Inbound frames are
numbers; an outbound frame carries the inbound frame it answers (0 for an answer to
a host call) and its place in the order the peer produced it. `BeginPump` is the
synchronous part of `pumpInboundFrame` up to the first `send` (assertOpen, push,
drain); `PumpSend`, `PumpSendFails`, `PumpEnd` are the settlements of the sends;
`Fail` is `handleError` with and without an `onError`; `SkipFrame` is what happens
to a frame behind a rejected chain or a closed session, whose error goes to `onError` again;
`DefersSends` says that the session's transport is the runtime's hook, which takes a frame
whether the real one is open or not; `Close`, `CloseTransport`,
`ClosePeer` are the three segments of `close()`. How many frames the peer puts out
for one push is chosen freely (0 to `MaxReplies`).

**FramePump** is the abstract specification of a session: frames are settled one
after the other, what is handed over answers the frame in turn and keeps the order of
production, and `close()` waits for the frames it found. `RpcSession` implements it
(`Promise`, the refinement mapping; `ImplementsFramePump`); **SessionProofs** proves the safety
part of that for every instance.

**ServerRuntime** EXTENDS RpcSession: the session's `send` is
`PostInboundHookTransport.send`, which appends to the list of the frame being
processed (`cell`, `deferred`); each session action is joined with what the hook
does in the same segment. `HookObserves`/`HookRefused`/`HookClosed`,
`PumpStarts`..`PumpFlushed` and `HookSendsDeferred` are `#afterInboundFrame`,
`pumpHostCallsNow` and the sending of what was deferred. `HandlerSettles` and
`HandlerFlushes` are the background handler of `#handleWasmHostCall` and its
`onAsyncHostCallSettled` flush. What the bridge does with a call is ServerBridge's
business; here it only makes the peer produce a frame. Its theorems are in **SessionProofs**,
beside those of the session it extends. **MCRuntime** runs three
set-ups of the two modules beside each other.

**OutboundClient.** `RpcServerCallInterceptTransport` and
`RpcServerOutboundClient.callRaw`/`finish`. Registration comes before the send.
The callee is external. Theorems: **CallersProofs**.

**RpcService.** `serve()`: the accept loop, the admission that counts connections
being set up, the factory with its timeout, the handle, `drain()` with and without a
deadline, `close()` and the forced close; the queue of `internal/accept.ts`. A
connection is a record with its place in that path. Factories may never return and
transports may go at any time. Theorems: **ServingProofs**.

### Clients

**RpcClient.** `SessionRpcClientTransport` over `HarnessFrameQueue`. `chain` is
`#opChain`; `OpBegins`, `OpSends`, `SendEnds`/`SendFails`, `WaitEnds`, `FinishEnds`
are the segments of `callRaw`, `callRawPipelined`, `finish` and `release`;
`PumpReads`, `CallbackEnds`, `PumpReadFails`, `PumpEnds` those of `#pumpResponses`
and `#ensureResponsePump`. The session underneath has no `onError`. Theorems:
**RpcClientProofs**.

**WireClient.** `RpcWireClient`: questions asked side by side, the reference count of
an exported callback, grants that a Return or a Release settles, Finish with and
without the release of results, the end of the transport.

**L3Handoff.** `accept` and `await` of a level-3 handoff. The module's events are
queued and given to all listeners after a pushed frame. The module is external:
`l3Asked` is the order in which awaits were registered with it, `l3Open` what it has yet
to answer; it answers each question once and awaits in that order. An abort in Deno
reaches only the listener, so the module still answers an await that was given up.
Theorems: **CallersProofs**.

**StreamSender.** `createStreamSender`: sends, waits for capacity, flushes and a
cancel that compete for the drain lock, also from inside callbacks (`Agents` are the operations
and the calls). A call's parameters are bytes, data or encoded under the window
(`options.params`). **MCStream** gives the streams. Theorems: **StreamSenderProofs**.

**ReconnectingClient.** The operation lane of `ReconnectingRpcClientTransport` over
`connectWithReconnect`: attempts under a policy, remapping of the bootstrap
capability, one retry, aborts, close. A capability's connection is a ghost beside its
index. **CircuitBreaker** has an explicit clock (`Tick` stands for the injected
`#now`). **ConnectionPool** keeps the fields of `RpcConnectionPool` in one record,
`pool`, so that the private helpers several handlers run in one go
(`BeginConnectAttempt`, `HandoffPendingAcquire`, `ParkIdleConnection`,
`SchedulePendingCreateDrain`, `RejectPendingAcquire`) are operators from pool to pool; a
connect attempt settles in one step and its waiter's continuation is a later one,
because the code has an `await` between them. A waiter that is settled leaves `pending` at
once; the code marks it and compacts the array later. Theorems: **ServingProofs** (both
resilience wrappers), **ConnectionPoolProofs**.

### Transports

**FrameTransport.** The four transports differ in their kind (a read loop over a byte
stream, or a chain of message events) and in their options (timeouts, `onError`). The
outbound queue, its drain loop and the close signal are shared code, and shared actions. `close()` may be called by the application or by a handler that awaits it.
Theorems: **CallersProofs**.

**TransportListeners.** The TCP listener, the WebSocket listener's upgrade handler and
the WebTransport listener's loop with a job per connection, with the accept queue and a
consumer of the iterator. **TransportConnects.** `connect()` of three transports with its timers,
the attempts around it, and the bootstrap or session built on an open socket.
**TransportMiddleware.** The chains of `MiddlewareTransport`: several sends under way
resume in the order of their awaits, asynchronous middleware when it likes. The counters
of the metrics middleware are those of one object, which a stack holds at most once
(`MiddlewareAssumption`). Theorems of the three: **ServingProofs**.

### Bytes

**FrameFramer.** The buffer of `CapnpFrameFramer` with positions in bytes; only the
header words have contents. `ParseFrame` and `SegmentsFromFrame` are the two other
parsers of a segment table. **WirePointers.** A message is a sequence of segments of
words, a word what its low bits say. `Follow` with a reader's name is the far-pointer resolution
of the validator, the RPC layer, the encoding runtime and the code generator, each translated from its own file; `Walk`
is `validateFrame`'s traversal with its budget; `DeepCopyPointer`,
`DeepCopyAnyPointer` and the embedding are the copiers. `Tree` is the reference: what a
pointer means by the format's definition. **RpcFrames.** The encoder and decoder of each
RPC message, word by word. **StructCodec.** `encodeStructMessageWithCaps` and its
inverse over descriptors; `Meant` is what a reader of another schema version should see.
The output and work budgets are parameters of the operators: pointer copies are checked with
small ones, so that each budget is met, below and above; messages of the RPC layer and values
get the default ones, which no input reaches.

**WasmAbi.** Every export call is the row of its steps (allocate inputs, allocate
output cells, ask, read, give back, free), each of which may fail. Blocks of the heap
say who owns them; `lost` collects the ones the code drops (see the findings below).
Listeners of events may push, close and shut down between two calls. Cached views of the
memory and the module's error cells are not modelled: the wrapper compares the buffer before
each use and clears the error before each export. Its theorem is in
**ResourceProofs**, with those about the files of the generator and the budget of a job.

### The code generator

**SchemaCompiler.** `compile()`, `dispose()` and the snapshot of the import graph,
file by file, beside an editor. A snapshot counts the entries of its tree, directories
included (`TreeNodes`), and the dependencies it has scheduled. **GeneratedNames.** Names, aliases, imports and capability
walkers of the modules of a request. **GeneratedPaths.** Where modules go in both layouts and the
specifiers between them. **GeneratedOutput.** Staging, renaming, the merge of the barrel,
by overlapping runs that may fail or be killed.

### Composition

Components that share state are composed: runtime with session and peer queue, frames
with values and pointers, wrappers with peers, serdes and events, connect calls with
what is built on them. Those that share none are only put beside each other for a
run, with a variable `subject` that says which of them moves (**MCCallers**,
**MCServing**, **MCBytes** with **MCTools**); a behaviour has one subject, fairness is
stated for the subject's actions, and liveness properties of one component are guarded by
it. **CallersProofs** and **ServingProofs** prove that a behaviour of such a composition is one of
each of its parts.

Definitions named "Broken form" are plausible bugs of the definition that follows
them. They are in no next-state relation; each property is known to fail when a
broken form takes the place of its definition (`mutants` in `PROJECT.json`). A property
that is a conjunction has one entry there; broken forms that break its other parts are in
the modules too: `PointsPlain` (PointersMean), `ClaimantsGenerated`, `AliasOfImports`,
`CapBearingOnce` (ImportsFound), `KeepsEntry` (ToolRunsKept), `ParkAlways` (PlacesKept),
`SnapshotsEarly`, `JobForgets` (ServiceKept), `PushAnyway` (NothingAfterShutdown),
`StaysOpen`, `ResumesLast` (ConnectionsKept).

## Runs

Twelve runs: eight pass, four show a disagreement between the code and what its comments
or documents say (see [divergences](#what-the-models-showed)). Deadlock is not checked:
every module has a bounded number of calls, frames or connections and really stops when all
are over; that nothing stops *early* is what the liveness properties say.

| run | instance | distinct states | properties |
|---|---|---|---|
| `bridge_direct` | 2 ids, 3 entries, capabilities 0..1, at most 2 references each, no WASM host, self-pipelined calls, symmetry | 1.95 million | TypeOK, HoldsExact, AnswerHoldsKeepCaps, CallerMirrored, PipelineRefExact, NoGrantAfterFinish |
| `bridge_wasm` | 2 ids, 2 entries, 1 capability, frames of 1 or 2 bytes in a budget of 2, eviction with one retry, cancellation, refused relays, fair | 293 thousand | NoPrematureDrop, RetainedBytesExact, EvictionNeverCancels, CallsEnd |
| `client` | one callRaw, one pipelined call with a capability parameter and a repeated Return, one finish, one callback, limit 1, fair | 543 thousand | TablesExact, GrantsSettleOnce, OpsEnd |
| `pool` | 3 acquirers, up to 4 attempts, minimum = maximum = 1, everything may fail, fair | 292 thousand | PlacesKept, AcquiresEnd, ClosedPoolEmpties |
| `runtime` | a session alone (3 frames, a transport that does not wait, every failure); a runtime the application pumps too; a runtime where nothing fails, fair | 144 thousand | QueuesKept, SentOnceObserved, CoreContract, ImplementsFramePump, AnswersArrive |
| `callers` | outbound client (2 calls), stream (3 operations, window 2), the four transports (2 sends, queue of 1), wire client (a bootstrap, 2 calls with a callback), handoff (1 accept, 3 awaits), fair | 136 thousand | RegisteredWhileAwaited, StreamKept, SentFramesOnWire, ReferencesKept, SilentWhenClosed, EverythingEnds |
| `serving` | service (2 connections, limit 1), listeners (2 peers), connects (2 dials), middleware (3 + 2 frames, three stacks), reconnecting client (3 operations, 3 connects), breaker (4 calls), fair | 384 thousand | ServiceKept, ConnectionsKept, TripsAtThreshold, OneProbe, NothingAfterShutdown, EverythingEnds |
| `bytes` | framer, pointers, RPC frames, values, ABI, compiler, paths, output, names on bounded inputs | 1.13 million | FramedAsSent, PointersMean, DecodesAsAsked, ValuesSurvive, AbiKept, ImportsFound, ToolRunsKept |
| `canceled_return_twice` | 2 ids, 3 entries, cancellation | violation | OwnReturn |
| `stream_stall` | the streams of `callers` alone, fair | violation | EveryOpEnds |
| `double_far` | the messages of `bytes` | violation | DoubleFarAccepted |
| `nested_caps` | values with a list of lists of capabilities | violation | CapsListed |

Several properties are conjunctions of named parts, one per component, and the liveness
properties of the compositions (`EverythingEnds`, `AnswersArrive`, `CallsEnd`) number the
cases of the modules' own ones: SendsSettle, ClosureAnnounced, CloseReturns, AnswersRetired,
OpsEnd, EofRejects; ShutdownEnds, ListenerEnds, ConnectsSettle, LaneMoves, ProbeEnds;
FramesReachWire, CallsAnswered.

Why the bounds are enough for what each run is about:

- *Bridge.* An id that is reused needs two entries; a pipelined call beside it a
  third, and a second id. Two capabilities with two references each allow a
  capability that is returned twice, released once, and still held. The reference
  counts of the registry behave alike for every capability and depend on no other,
  so a third one adds no new case. `bridge_wasm` needs one capability (a root that can be
  dropped early) and one retry (reschedule, then force).
- *Session and runtime.* A third inbound frame is needed for a frame that waits behind a
  frame that waits. `DrainLimit` is out of reach; what happens beyond it is described
  below. With two frames a bootstrap answer can wait behind a call and the reverse, and a
  second pump can run in each gap. A runtime's frames are awaited, as the built-in transports
  do; the session alone is checked without that.
- *Client.* One operation of each kind: the chain orders them in every way. The limit
  on outstanding grants is reached by one.
- *Pool.* Three acquirers on one place: one holds, one waits, one abandons. A fourth
  attempt is the replacement of a failed replacement.
- *Callers.* Questions are independent but for `closed` and the references they share: two
  show a Return that meets the wrong state. Three operations on a stream are one that
  drains, one that waits for the lock and one that waits for capacity, or is made in a
  callback. A queue of one frame is full while the other send is being written. Three awaits
  and an accept show the chain of wrong answers (see the findings): one is given up, the
  second takes its Return, the third takes the second's.
- *Serving.* One connection is admitted while the other is being refused, set up or closed.
  Two peers are one in the queue and one in a job. Two dials are an attempt and
  its retry while the first is still to settle. Three sends can overtake each other
  behind one that waits. The third connect is the one after a failed reconnect. The breaker's threshold of 2
  needs two failures; the other calls are a probe and a late one from before; the theorems remove
  the bound.
- *Bytes.* Streams of 2 frames of up to 3 segments, cut into chunks of 4, 7 or 24 bytes, so
  that cuts fall into a header, a table and a body; limits of 2 words, 24 bytes and a buffer of
  36 put a frame at, below and above each. Messages of up to 7 words in up to 2 segments hold
  every kind of pointer, a far pointer with its landing pad and a double-far one, and those of up to 4 are
  also damaged in a word. Values have lists of each element kind on
both sides of a word's end, lists of up to two structs with other schema versions on either
side, and up to two capabilities, each named more than once; only an index that
is no u32 makes their encoder throw, and **ValuesSurvive** says so. Widths are scaled (`HalfRange`, `ByteBits`), not dropped: signs,
  overflow and masks happen at their small bounds. The ABI has two wrappers, two peers, six
  blocks, a listener that calls in once. `MaxDepth` 2 was checked too, outside the runs.
- *Tools.* Two jobs, two import roots, three schema names of which one is bundled, one edit; three
  disks, of which one has a tree of one entry more than the limit;
  four sources, two inputs, three source directories and both layouts; three runs of the tool
  (two of parts, one of the whole tree) and one deletion by the user; nine schema nodes in
  three files with coinciding names, 2,592 requests.

What the properties say, in short:

- **CallerMirrored** compares the registry's counts with the references the caller really
  has and says that a retired question leaves nothing in the table; **HoldsExact** compares
  the second count with the answers in the table; **RetainedBytesExact** and
  **PipelineRefExact** are the accounts that refuse calls and keep answers from eviction;
  **NoGrantAfterFinish**, **OwnReturn** and **EvictionNeverCancels** are about late settlements.
- **CoreContract** is the contract of the repository's README; **ImplementsFramePump** says
  the same of whole behaviours, `close()` included. **SentOnceObserved** is the order the
  hook exists for.
- **TablesExact**, **RegisteredWhileAwaited** and **ReferencesKept** say that timeouts,
  aborts, failures and close leave no question and no reference behind. **StreamKept** is
  the window, its bytes and the order of responses.
- **SentFramesOnWire** ties what `send()` told its caller to what is on the wire;
  **SilentWhenClosed** and **NothingAfterShutdown** are about what may not follow a close.
- **ServiceKept** and **ConnectionsKept** say that each connection has one owner, at any
  point of its set-up, and that limits hold for those that are not ready yet. **PlacesKept** says that
  a pooled connection is never shared, lost or freed twice, and that nobody waits beside an
  idle one.
- **PointersMean**, **DecodesAsAsked** and **ValuesSurvive** compare code with a reference
  definition on every input of their sets; the last also says that a message lists each
  capability it carries once, and that encoding fails exactly for indices that are no u32; **AbiKept** accounts for every block of the module's
  memory; **ImportsFound** and **ToolRunsKept** are about generated modules that would not
  load.

## Fairness

Only weak fairness is used: the event loop runs a continuation that is ready, and a
promise that the environment owes settles.

- bridge: handlers settle (`Settles(e)`), and the runtime forwards the Finish after the
  event. Nothing is assumed of the caller, of timers or of `close()`.
- session: a send settles, with success or failure, and continuations run; frames,
  remote close and `close()` may never come.
- runtime: the hook, the pump, flushes and handlers each run; liveness is stated for the
  set-up in which nothing fails.
- client: sends settle, a peer that got a call answers it, and the session's close reaches
  the transport. Neither timeouts nor aborts are assumed.
- outbound client: sends settle and the callee answers; timeouts are not assumed to fire.
- stream: calls settle and each agent's continuations run.
- transport: writes and handlers end, reads of a connection that is gone fail, and the other
  end of a socket that is being closed closes it too. Data, remote ends and timeouts of
  writes may never come.
- wire client: continuations run; the peer need not answer.
- service: continuations run, the deadline of a drain passes, and a handle that is being
  closed closes. A factory need not return.
- listeners: `close()`, the loop and jobs run; a stream need not come while the listener is
  open. connect: timers fire, and an attempt that was given up settles.
- reconnecting client: the lane runs, and what it awaits settles.
- breaker: the wrapped factory settles. pool: connect attempts and health checks settle and
  users release; neither timeouts nor aborts are assumed.
## Proofs

TLAPS checks these theorems for every value of the constants that meets the named
assumptions of the module. Those are what the code's constructors enforce (finite sets of
ids and entries, a root capability, natural limits, a positive threshold and cooldown) and
what keeps names apart (`PoolAssumption`: no acquire is called "drain"; `StreamAssumption`: no
call has the number 0, which stands for none). `MiddlewareAssumption` has the one restriction that
is about use: a stack holds one metrics middleware at most, because the model has one set of
counters. `OutputAssumption` has what the generator does: the barrel is the last file it makes.
`CompilerAssumption` says that the names which files mention are among the names of files. Bounds such as
`MaxConns`, the clock of the breaker or the ids of the outbound client are constants too,
and the theorems hold for any value of them. A hypothesis beyond the assumptions is in the
theorem's own statement; the runs meet it.

| theorem | says | argument |
|---|---|---|
| `ServerBridgeProofs!TypeCorrect` | `Spec => []TypeOK` | `TypeOK` is not inductive: a settling entry writes at its question and its parent, so these must be a question and an entry. `EntryShape` says so (an entry in use has a question; a pipelined one that has not settled has a parent with a positive count), and `TypeOK /\ EntryShape` is inductive. One lemma per action, over lemmas for the operators actions share (`Track`, `Register`, `Deliver`, `ReleaseAnswerHeldCapabilities`). |
| `ServerBridgeProofs!PipelineRefsExact` | `Spec => []PipelineRefExact` | with the above, and the library's facts on cardinality: receiving a pipelined call adds one child to one answer, settling takes one away, everything else leaves the set of children alone. |
| `ServerBridgeProofs!AnswerHoldsExact` | `Spec => []HoldsExact` | `HoldInv` (only registered capabilities carry holds, and `HoldsExact`) beside `AnswerInv`: `TypeOK`, `EntryShape`, `OwnerInv` (without a WASM host a question stays with its owner until the owner settles, so the caller makes no second entry of it meanwhile) and `BootstrapInv` (a pending Bootstrap's question is in the table as that Bootstrap or not at all: a failing bootstrap deletes whatever its question maps to). `HeldAdded` and `HeldDropped` count occurrences when an answer is retained and when it goes. |
| `ServerBridgeProofs!RetainedAnswersKeepCaps` | `Spec => []AnswerHoldsKeepCaps` | an occurrence makes the count of holds positive, and only registered capabilities have holds. |
| `ServerBridgeProofs!InputBytesExact` | `Spec => []RetainedBytesExact` | `SizeInv` (sizes are natural numbers, and an entry that was never used has none). The sum over the charged calls changes by the size of the call that is admitted or settles. |
| `ServerBridgeProofs!EvictionsCancelNothing` | `Spec => EvictionNeverCancels` | `TimerInv`: a timer runs for settled entries only, and for none that a pipelined call waits for; so the one step that evicts by time takes an entry whose call is over. |
| `ServerBridgeProofs!NoGrants` | with `~EarlyBootstrapFinish`, `Spec => NoGrantAfterFinish` | `NameBooks`: the table and the caller's books name entries by their question, a pending Bootstrap has an open question, and what is finished was asked. With an early Finish of a Bootstrap the statement is false, as said under the findings. |
| `ServerBridgeProofs!HeldCapabilitiesStay` | with `Protocol`, `Spec => []NoPrematureDrop` | the account of references: for every capability `refCount - peerRefs - pregrant - |Ungranted|` is never negative, where `Ungranted` are the occurrences an answer holds and its caller was not granted. No smaller invariant is inductive: a Finish gives back what the answer granted and keeps the rest, an eviction what nobody was granted, a Release what the caller has; each moves between two terms of the balance. |
| `ServerBridgeProofs!BooksAgree` | with `Protocol` and `Direct`, `Spec => []CallerMirrored` | the same invariant: without a host and without evictions the balance is exactly zero, and what is held was granted. |
| `SessionProofs!SessionTypeCorrect`, `SendsInOrder` | `Spec => []TypeOK`, `Spec => []SentInOrder` | `OrderInv`: what was sent, what the pump holds and what is in the peer's queue are, one after the other, the frames produced in order. |
| `SessionProofs!NothingStays`, `ContractKept` | with `DrainsAll`, `Spec => []NothingLeftBehind` and `Spec => CoreContract` | `DrainedInv`: the pump holds only answers of the frame in turn and the peer's queue only what the host put there. |
| `SessionProofs!SessionPumps` | with `DrainsAll`, `Spec => PumpsOnly` | the refinement of `FramePump` under the mapping of `Promise`, without its fairness: a state maps to a state of the abstract pump and each action to one of its steps or a stutter. `TurnInv` says which frames have an outcome, `CountInv` that production stays within what the abstract pump allows. |
| `SessionProofs!RuntimeQueuesKept` | with `DrainsAll`, `RuntimeSpec => []QueuesKept` | a step of the runtime is for its session a step of its own or a flush that drains the peer (`SessionPart`), so the session's invariants carry over; `HookInv` beside them says which of the hook's tasks and pumps are under way, and that what a flush holds belongs to a pump that flushes. |
| `SessionProofs!FramesGoOnce` | `RuntimeSpec => []NoFrameTwice` | the wire alone is not inductive. `OnceInv` speaks of every place a frame passes (`Held`: the peer, the pump, the hook's list of each frame, the drained frames of each flush, the wire) and says that no number occurs twice in all of them together. Each step is one of four moves: a head moves from one list to another, a list is dropped, a list grows by new numbers, the front of a list moves to another place. |
| `SessionProofs!BootstrapsObserved` | with `DrainsAll` and `AwaitsFrames`, `RuntimeSpec => []SentOnceObserved` | `CellInv` (the hook's cell is the frame in turn), `ListsInv` (the list of a frame holds its own answers and the host's, a flush only the host's), `TaskObserved` (a task that sends an answer to a bootstrap has observed it) and `WireObserved`. |
| `CallersProofs!QuestionsSettleOnce` | `Spec => [](RegisteredWhileAwaited /\ TakenOnce)` | strengthened with `FreshIds` (ids from `nextQuestionId` on are unused), `ReturnsOnce` (a question on its way back was asked and not taken) and `UntakenReturns`. |
| `RpcClientProofs!ClientTables`, `ClientGrants` | `Spec => []TablesExact`, `Spec => []GrantsSettleOnce` | together inductive with `Fresh` (no outcome before the send), `HoldsChain` (a raw call keeps the chain until it is done), `Heard` (the peer answers only what was sent) and `OnRecord` (grants are on record while the call is on its way). |
| `CallersProofs!SendsOnWire` | `TransportSpec => []SentFramesOnWire` | `OutInv`: the queue keeps the order of the sends, states of frames agree with queue, write and wire (`Placed`), and what is on the wire is before what is written and that before the queue (`WireFirst`). |
| `CallersProofs!ClosedIsSilent` | `TransportSpec => SilentWhenClosed` | `SilentInv`: once a `close()` of a stream transport has ended, no loop, handler or write is under way. |
| `ConnectionPoolProofs!PlacesAlwaysKept` | `Spec => []PlacesKept` | `Good(w, M, h)` holds of the pool *in the middle* of a handler, when the acquires in `M` are being decided and the connection `h` is in hand, in no place yet. Each helper (`ParkIdleConnection`, `HandoffPendingAcquire`, `BeginConnectAttempt`, ...) has a lemma that takes `Good` to `Good`; a handler is the composition of its helpers' lemmas, and between steps nothing is in hand. Needed beside the places: the waiters' queue is exact, only attempts that were seen have a place, an acquire that creates owns one attempt. |
| `StreamSenderProofs!StreamInvariant`, `StreamPropertiesHold` | `StreamSpec => []StreamInv`, `StreamSpec => [](WindowExact /\ HandedOverInOrder /\ CancelEmpties)` | Responses move along one line: delivered, ready, taken by a waiter, drained by the holder of the lock, still in the window. `LineKept` says that the line is in the order of the sends and holds no call twice; each action moves a call one place on, or takes one out. `WindowKept` counts the bytes as a *set* (`WindowBytes`, one element per byte of each charged call), so that charging a call is a union of disjoint sets and its end a difference. `TicketsKept`: with parameters encoded under the window only the first ticket is past `prepare()`, so one call at a time is uncharged. `CallsKept`, `OpsKept`, `LocksKept` tie phases to window, tickets and lock queue. |
| `CallersProofs!ReferencesAccountedHolds` | `WireSpec => [](FinishKeepsWhatIsHeld /\ ReferencesAccounted)` | `StagesKept` (how far a question is bounds its waiter and its Finish), `CapsNoted` (noted result capabilities are those given and not finished), `ReferencePlaced` (where a callback's reference is as its call proceeds) and `ReferencesCounted` (the count is the number of references held; a closed client has none). |
| `CallersProofs!HandoffsMatchedHolds` | `L3Spec => []HandoffsMatched` | `OpenUnanswered`: what the module has yet to answer has been asked and was not ended by its own event. |
| `CallersProofs!StreamsAlwaysKept`, `ReferencesAlwaysKept` | `MCSpec => []StreamKept`, `MCSpec => []ReferencesKept` of MCCallers | `PartsRun`: a behaviour of the composition is a behaviour of each part, whose theorem then applies. |
| `ServingProofs!ServiceInvariant` | `ServiceSpec => []ServiceInv` | `Sound(r)` speaks of one connection: where it is while its task runs (`Staged`) and what it holds then (`Owned`). A step that moves one connection keeps the others', and a forced close or a sweep over the active ones moves each by itself. Beside it `AcceptKept` (the queue holds each queued connection once; the accept loop has at most one in hand), `LimitKept` and `EndKept` (what `drain()` and `close()` have waited for is over). |
| `ServingProofs!DrainsGracefully` | `ServiceSpec => DrainIsGraceful` | from the invariant: of the steps that end an open handle, only those of the forced close and of `close()` touch one a drain found. |
| `ServingProofs!ListenersInvariant`, `NothingGivenLate` | `ListenersRun => []ListenerInv`, `ListenersRun => NothingTakenLate` | the accept queue holds exactly the peers that are queued (`Lists`), and per kind how far `close()` is says who may still be with a job (`TcpKept`, `WebSocketKept`, `WebTransportKept`). |
| `ServingProofs!ConnectsInvariant` | `ConnectsRun => []ConnectsInv` | a socket that is opening is the one the call waits for, or was given up and is closed when it opens. |
| `ServingProofs!ReconnectInvariant`, `NothingBehindClose` | `ReconnectSpec => []ReconnectInv`, `ReconnectSpec => ClosedForGood` | `LaneKept` (the lane holds what is started and not ended), `ConnectionKept` (every connection made is the current one or was asked to close), `CountersKept` (each counter's attempts are its successes, failures and the one in progress) and `SentKept` (the operation in turn has sent at most once, on an earlier connection, until it is sent again). |
| `ServingProofs!MiddlewareInvariant` | `MiddlewareSpec => []MiddlewareInv` | order alone is not inductive: two frames under way may stand at the same middleware. `Ahead` says that the older is further in the stack, or at the same place and earlier in the line of continuations. `FramesKept`: no frame is behind a limit it exceeds; `MetricsKept`: the counters count frames that have come to them. The next hook of a frame is the least of a set of positions, which the library's theorem on well-founded orders provides. |
| `ServingProofs!ServiceAlwaysKept`, `ConnectionsAlwaysKept`, `NothingFollowsShutdown` | `MCSpec => []ServiceKept`, `MCSpec => []ConnectionsKept`, `MCSpec => NothingAfterShutdown` of MCServing | `EachRuns`: a behaviour of the composition is a behaviour of each of its six parts. |
| `ServingProofs!BreakerTrips` | `Spec => []TripsAtThreshold` | with the type and `OpenedAtKnown`: the breaker is closed exactly when there is no opening time. |
| `ServingProofs!ProbesExclusive` | `Spec => [](OneProbe /\ ProbeFlagExact)` | the flag is exact and probes are alone as long as no reset came in the middle of one. |
| `ResourceProofs!AbiKeptHolds` | `AbiSpec => []AbiKept` | The invariant has five parts. `CellsKept`: the pointers of open wrappers are exactly the scratch blocks, each held once. `PeersKept` and `LivesKept`: the sets of peers, their records and the wrappers agree, and a wrapper that is to be closed is open for its peers only. `DrivesKept`: a drive runs for an open wrapper, the outermost first. `CallKept`: the blocks of the call under way, and the dropped ones, are all that is in use beside scratch. An export call is a row of steps, so the blocks of a call are described by the place it has in its row. |
| `ResourceProofs!OutputKeptHolds` | `OutputSpec => []OutputKept` | `Progress` and `Counted` say for each run how far it is, by its place, and which files are its own; only a fully staged run has files. `BarrelInv` holds while no two runs have overlapped: what is listed is the run's own, what it preserves or what it has still to merge. That a barrel resolves holds with overlaps too, and is proved of each rename, because the barrel is renamed last. |
| `ResourceProofs!CompilerKept` | `CompilerSpec => [](CompilerTypeOK /\ BudgetExact /\ OneJobRuns)` | bytes are counted as a set (`BytesOf`, each with its place in its file), so that a file that has been read adds a disjoint set. While a file is open its bytes are charged and it is not loaded yet (`BudgetKept`), and its entry has a place (`Fits`). A step of a snapshot is one of five kinds (`SnapshotKind`): the job fails, the walk goes on, a file is charged, one is added, or the worker gets the snapshot. |

The hypotheses. `Protocol` is `~EarlyBootstrapFinish /\ ~NoFinishReturns`: the caller waits
for a Bootstrap's answer before it finishes it, as `client.ts` does, and no handler says that
its Return needs no Finish, which `client.ts:213-215` does not honour. `Direct` is
`~WasmHost /\ ~EvictionEnabled`. `DrainsAll` is `MaxReplies + MaxHostReplies <= DrainLimit`:
what one push can produce fits one drain (`DEFAULT_MAX_DRAIN_FRAMES`); beyond it
`session.ts:280` leaves frames in the peer, and the statements are false. `AwaitsFrames` says
that the transport delivers a frame when the one before it is settled. Every transport in `src`
does (`tcp.ts:534`, `websocket.ts:268-270`, `message_port.ts:130-132`, `webtransport.ts:830`);
under one that does not, two frames would share the hook's single `#deferredOutboundFrames`.

Each inductive invariant was also checked by TLC on the instance of its run, some of them on
larger ones (the listeners with three peers). Two of them showed that a
model had to be made more exact first. The events of a level-3 handoff could be repeated and answer
what nobody had asked; the module now answers each question once, and awaits in the order they came.
The stream's bytes could not be accounted for until `Reserve` had its three branches and a
failing encoder its ticket back. The
proofs classify steps first (lemmas `Kinds` and their like) and then take one
invariant at a time, one case per kind of step.

Only model-checked:

- the liveness properties (`CallsEnd`, `OpsEnd`, `AcquiresEnd`, `ClosedPoolEmpties`,
  `AnswersArrive`, both `EverythingEnds`), and the fairness in `ImplementsFramePump`: the
  prover handles neither fairness nor ENABLED;
- `FramedAsSent`, `PointersMean`, `DecodesAsAsked`, `ValuesSurvive` and `ImportsFound`, invariants
  of `bytes`: what recursive functions and folds compute on messages, values and schemas.
  Induction over data is out of the prover's reach, and most of these modules declare
  RECURSIVE operators. Of `ToolRunsKept` the parts about the compiler (`BudgetExact`,
  `OneJobRuns`) and about the files of a run (`OutputKept`) are proved; what is left are the
  types of the pure parts.

Every other invariant and action property of the passing runs is stated by a theorem.

## Plan

All components of the inventory are modelled as far as "Not modelled" says, and checked; the
components other than the codecs and the names and paths of the generator are proved. What would extend the project,
in this order:

| # | what | of | what it needs |
|---|---|---|---|
| 1 | `CallerMirrored` with evictions, as a balance that is zero but for what an eviction took | ServerBridge | a term for what was granted by answers that are gone |
| 2 | what is left of "Not modelled" in the code generator: the plugin response | code generator | a model of its modes |


## What the models showed

With a run:

1. `canceled_return_twice`: `bridge.ts:1233-1234` says of a canceled call that "the late
   handler response is then discarded". `Return{canceled}` is sent from the
   answer-finished listener, and the settled dispatch (`bridge.ts:1644`) sends another
   terminal Return for the same id, which answers a later call that reuses it.
2. `stream_stall`: with a byte window and parameters encoded under it, a send that waits for
   the drain lock may be the oldest call of the window when it gets it, and then waits for its
   own settlement (`streaming.ts:590`). It, and every later send and flush, hangs.
3. `double_far`: the validator takes the target of a double-far landing pad for a pointer and
   looks one word further (`frame_limits.ts:243`, `409`): an object that ends with its segment
   is refused although it is within every limit.
4. `nested_caps`: the walk that builds the capability table does not look into lists of lists
   (`runtime_caps.ts:101`), which the encoder writes: the message refers to table entries that
   do not exist.

Seen while modelling, without a run of its own (a property or a flag of the module reaches
some of them; the others are outside the model, as said there):

- *Bridge.* A handler that sets `noFinishNeeded` leaves its entry until eviction
  (`bridge.ts:1393` against `client.ts:213-215`; `NoFinishReturns`). A Finish for an
  evicted answer finds no entry and releases nothing beyond what eviction did
  (`bridge.ts:1032`). A Finish for a Bootstrap that is still awaited lets the later
  answer count references nobody will release (`bridge.ts:1118`, `1191`;
  `EarlyBootstrapFinish`). When the peer refuses a prebuilt Return, its references stay
  counted (`bridge.ts:1719`; `RelayMayFail`): therefore `CallerMirrored` is checked in the
  direct mode only. The root is registered with one reference, so a Release to zero removes it
  and a second bootstrap answers with a capability that is not there. A call pipelined on its
  own question waits until that question's Finish (`SelfPipelining`).
- *Session.* A drain that reaches its limit leaves the rest in the peer (`session.ts:280`),
  against the core contract. `close()` refuses frames that were delivered but not begun
  (`session.ts:339`), while its comment speaks of a flush of them. An `onError` that awaits
  `close()` waits for itself.
- *Runtime.* Two pumps may spend the same remainder of `maxCallsTotal` (`runtime.ts:580`;
  `TotalWithinLimit` fails under `ManualPump`). A handler's flush may put its answer on the
  wire before frames that were deferred earlier (`runtime.ts:78`; `WireInOrder` fails). A
  failed hook task mutes the hook; only `flush()` reports it.
- *Outbound.* After a timeout the late Return goes to the peer that "has no knowledge of
  these calls" (`outbound.ts:100`; `ReturnsIntercepted` fails). An exception Return gets no
  Finish.
- *Session client.* The pump (`client.ts:1644`) tells an abort for want of waiters from a
  broken transport by whether anybody waits *now*: a call that began to wait meanwhile fails
  with "rpc wait aborted", and the pump stops for good (`AbortedByCaller` fails;
  `docs/troubleshooting.md:675-677`). A failing Finish discards a successful result. A call
  whose waiter is registered after the pump stopped waits for its timeout. A call made by a
  callback's handler waits for the pump that runs the handler. One call without an answer
  holds up every later operation of the chain.
- *Handoff.* An await that is aborted stays registered with the module, and the Return of an
  await names no question (`l3_handoff.ts:279-304`): the answer to the one that was given up
  ends the await registered after it, with the wrong capability; that one's answer ends the next,
  and so on for the life of the peer. An accept that fails rejects every await that listens
  (`l3_handoff.ts:282-283`). `HandoffsMatched` states what does hold.
- *Breaker.* `reset()` in the middle of a probe lets a second probe in beside it
  (`circuit_breaker.ts:251`), and any late success closes an open breaker (`262`) before
  its cooldown. `OneProbe` is therefore stated for histories without such a reset.
- *Pool.* A connection between the end of its attempt and the active set, or under a health
  check, is counted nowhere (`connection_pool.ts:560`), so the pool can exceed
  `maxConnections` (`WithinMaximum` fails). `close()` during a health check: the check that
  succeeds hands out a connection of a closed pool, the one that fails leaves its acquire in an
  emptied queue (`connection_pool.ts:377`); only its timeout ends it. `AcquiresEnd` is stated
  for an open pool.
- *Reconnecting client.* A call that starts after a reconnection with a capability of the old
  connection is sent with its old index (`ReferencesStable` fails).
- *Transports.* WebSocket and MessagePort chains hand out frames after `close()` has resolved
  (`NothingAfterClose` fails), and WebSocket frames that come before `start()` are lost. A TCP
  write that fails after part of a frame leaves the connection open. A handler that awaits
  `close()` without `closeTimeoutMs` waits for the read loop it runs in.
- *Listeners.* `close()` of a WebTransport listener ends sessions its consumer owns. An accept
  error of TCP ends the iterator and leaves the listener open. A second `close()` returns before
  the first has ended. An `onConnectionError` that awaits `close()` deadlocks, and it is still
  called after `close()`. The WebTransport loop spins when `incoming()` keeps rejecting.
- *Middleware.* An asynchronous `onSend` lets concurrent sends overtake each other; the metrics
  count frames that a later middleware refuses.
- *Service.* A handle whose `close()` rejects makes the forced close throw before it has closed
  the acceptor, while the statistics say closed (`service.ts:846`; `ClosedMeansListenerClosed`).
- *Framer and pointers.* A chunk that straddles a frame near the limit trips
  `maxBufferedBytes` although every frame is legal. An empty struct copied to the last word of
  a message becomes null (`PresenceSurvives` fails). The generator's reader puts what is behind
  a double-far pointer one word too far (`capnp_reader.ts:163`). `deepCopy` of `pointers.ts`
  has no depth limit.
- *Struct codec.* A recursive struct type makes `createDefault` and the collection of
  capabilities recurse for ever. Remapping turns an absent struct or list into a present,
  empty one. Numbers that are not finite are written as 0. The state key packs the depth into
  8 bits without a check.
- *WASM ABI.* Blocks of allocations that precede a failing one, and outputs that lie out of
  bounds, are not given back (`lost` in `StorageAccounted`). `instantiateFromResponse` reads a
  consumed body again.
- *Schema compiler.* Only another size shows as a change of a file while it is read. A FIFO
  named as a schema blocks `Deno.open`.
- *Generated names.* Values of enums and ids of methods are taken from `codeOrder`
  (`emitter_helpers.ts:180`, `emitter_rpc.ts:187`, `344`, `593`), although the wire uses list
  indices. Structs and interfaces have separate pools of names, so a struct `FooClient` meets
  the client of an interface `Foo`. A method inherited from an interface of another file ends
  the run with "unknown param struct". The walk for capabilities skips a nested struct of
  another file that is not exported.
- *Generated paths.* In the flat layout an import target that was not requested may lead to the
  module of another file at the same relative place. Relative and absolute inputs with the same
  segments are both placed under the absolute root, though the comment at `cli.ts:588-596` says
  the relative one goes first. Specifiers are replaced textually.
- *Output.* Runs that overlap lose each other's barrel entries; a killed run leaves its staging
  directory; a barrel written by hand is overwritten; runs per schema in the flat layout
  overwrite modules of the same base name.

## Not modelled

| part | reason |
|---|---|
| generated RPC schema, generated code of the examples | data; generated |
| errors, validation, observability, diagnostics, entry points | stateless helpers, logging, re-exports |
| the WASM peer's own logic | a Zig binary outside the repository; its answers are chosen freely |
| benchmarks, scripts, examples | tooling around the library |
| of the code generator: parsing of requests, of the command line and its TOML file; the text of modules; meta and wire-constants modules; the plugin response | text in, text out |
| of the WASM ABI: instantiation, validation of exports, version and feature detection | one-time checks without later effect on state |
| of the wire codec: wording of texts, generated accessors, level-3 descriptors that only carry bytes | no control |

In the modelled components, left out are: middleware hooks of the session client, tracing, the
connection factories of the runtime, the option plumbing of the `service_*` files,
`releaseExportedCapability`, and the wording of errors. What happens beyond the drain limit of a
session is described above and kept out of reach in the runs.
