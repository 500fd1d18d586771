# EmuRPC: a TLA+ model of the server inside the emulator

EmuRPC is a library that an emulator links. It opens a websocket on port 8080,
takes JSON-RPC requests to read and write guest memory, runs the emulator's
callbacks for them and sends the answers back. This directory holds a
specification of the library, the TLC runs that check it on small instances and
the theorems TLAPS proves about it for every size.

## 1. The system

### Components, their state and their operations

| component | source | state | operations |
|---|---|---|---|
| `client_emu`, `emu_client` | `src/rpc_server.h:19-21`, `externals/boost/boost/lockfree/spsc_queue.hpp` | two rings of 1024 elements: two atomic indices and the cells | `push`, `pop(U&)` (`consume_one`), `consume_all`, `pop(OutputIterator)` |
| dispatcher `EmuRPC::Impl` | `src/emurpc.cpp` | `stopped`, `blocking_emu`, `callbacks`, both queues, the server thread, the `RPCServer` | `ProcessEvents`, `HandleTiming`, `HandleRequest`, constructor and destructor |
| `Session` | `src/rpc_server.cpp:18-92` | websocket, read and write buffer, client id | `Run`, `OnAccept`, `OnRead`, `Send`, `OnWrite` |
| `Listener` | `src/rpc_server.cpp:97-153` | acceptor, `next_client_id`, map of weak session pointers | `Run`, `OnAccept`, `Send` |
| `RPCServer` | `src/rpc_server.cpp:155-178` | io context, io thread | constructor, destructor, `SendResponse` |
| `io_context` | `externals/boost/boost/asio/detail/impl/scheduler.ipp`, `epoll_reactor.ipp` | handler queue, count of outstanding work, `stopped_`, `task_interrupted_`, per descriptor the waiting operations and `try_speculative_` | `run`, `stop`, posting a completion, `start_op`, the reactor |
| JSON codec | `src/json_protocol.cpp` | none | `DeserializeRequest`, `SerializeResponse`, Base64 both ways |
| packets | `src/protocol.h`, `src/protocol.cpp` | plain data | constructors |
| C API | `src/emurpc.cpp:156-206`, `include/emurpc.h` | none | forwards to `EmuRPC` |

### Threads and how they meet

* The **io thread** runs `ioc->run()`: it accepts connections and, in
  `Session::OnRead`, decodes a message and pushes it to `client_emu`.
* The **server thread** runs `ProcessEvents`: it pops `emu_client` and gives each
  response to `RPCServer::SendResponse`; then it pops `client_emu`, calls the
  memory callback and pushes the response to `emu_client`.
* The **emu thread** belongs to the emulator. It calls `OnFrameEnd` and
  `OnMemoryAccess`, both of which run `HandleTiming`, and it finally destroys the
  instance: `~Impl` sets `stopped` and joins the server thread, `~RPCServer`
  stops the io context and joins the io thread, then the queues die.

`client_emu` therefore has one pushing thread and *two* popping threads as soon as
the emulator reports timings, and a memory callback that itself reports
`OnMemoryAccess` (as the emulator of `test/emulator.h` does) runs `HandleTiming` on
the server thread, inside `HandleRequest`.

### What is hard about it

* lock-free indices, their wrap-around, and the order of construct, publish, use
  and release;
* the second popping thread, and the reentrant one;
* results of `push` that nobody looks at, loops that end only on an empty queue;
* shutdown while clients keep sending;
* waking a thread that is about to sleep in `epoll_wait`, events that epoll reports once, and
  a count of work kept on two threads that decides when `run()` returns;
* connections and accepts that fail at once, again and again;
* undefined behaviour: an uninitialised flag, an overload that overruns a
  one-element buffer, a map that two threads use, a write buffer that two
  threads use, a websocket stream that two threads use;
* a peer that resets the connection under a write, and the close handshake, which
  reads and writes share;
* exceptions that leave the io thread and end the process.

`PROJECT.json` lists these hazards with their lines and with the properties that
cover them.

## 2. The modules

| module | what it is |
|---|---|
| `BoundedQueue` | abstract: a FIFO of bounded capacity with push, refuse, pop, release |
| `SpscQueue` | the ring of Boost, access by access, for any set of popping threads; its ownership invariant; the refinement mapping to `BoundedQueue` |
| `SpscQueueProofs` | the theorems about the ring |
| `Dispatcher` | abstract: what the sessions rely on from the dispatcher: accepted requests are answered at most once and in order, or lost |
| `EmuRPC` | the dispatcher: the three threads, both queues, shutdown; extends `SpscQueue` for `client_emu`; the refinement mapping to `Dispatcher` |
| `EmuRPCProofs`, `EmuRPCServiceProofs` | the theorems about the dispatcher: types and its use of the ring; accounting, flow control, shutdown and the refinement |
| `RpcServer` | `Listener` and all `Session`s on the io and the server thread, between the clients' sockets and an instance of `Dispatcher` |
| `RpcServerProofs`, `RpcServerSendProofs` | the theorems about the sessions: types and routing; order, integrity and the causes of undefined behaviour |
| `IoContext` | the io context below the sessions: asio's scheduler and epoll reactor, run by the io thread, used by the server thread, stopped by the emu thread |
| `IoContextProofs` | the theorems about the io context |
| `JsonProtocol` | `DeserializeRequest` field by field, and the id of the response |
| `JsonProtocolProofs` | the theorems about it |
| `Base64` | `EncodeBase64` and `DecodeBase64`: the regrouping loop of `transform_width` |
| `Base64Proofs` | the theorems about it |
| `MCEmuRPC`, `MCRpcServer`, `MCIoContext`, `MCJsonProtocol`, `MCBase64` | constants for TLC |

The modules meet at abstract specifications. The ring implements `BoundedQueue`. `EmuRPC`
keeps the whole ring (the run `dispatcher_progress` checks the ring inside it), sees the sessions only as the source of pushes and the sink of responses,
and implements `Dispatcher` while only the server thread pops (`ImplementsDispatcher` in
`dispatcher_quiet`). `RpcServer` keeps the sessions and is composed with an instance of
`Dispatcher`: `OnReadRequest` takes its `Accept` or `Refuse`, `Answer` its `Deliver`, `Drop` its
`Lose`. `RpcServer` takes from the io context that handlers run one after the other in the order
in which they became ready and that ready operations complete; `IoContext` is where that comes from.

### Dispatcher

`pending` holds what was accepted and neither answered nor lost, `current` the request whose answer
`SendResponse` got last. A request may be lost anywhere in the sequence: `HandleTiming` discards
what is still in `client_emu` while older responses wait in `emu_client`, and a full `emu_client`
discards the newest response while older ones wait. In `EmuRPC`, `Due` maps the two queues and
the request in hand to `pending`.

### SpscQueue

A step is one access another thread can see. `push` is `PushFull` (returns false)
or `PushClaim`, `PushConstruct`, `PushStore`. The three popping operations share
their steps: `LoadWriteIndex`, then `LoadReadIndexEmpty` or `LoadReadIndex`, one
`ConsumeElement` per element and `StoreReadIndex`; `LoadReadIndex(t, all)` hands out
one element for `consume_one` and everything it saw for the other two. `live` is the
set of cells with a constructed object; `ub` records a use, destruction or
construction against it. Only one thread pushes, so loading both indices in `push`
is one step: nobody else writes the write index, and a read index that advances
after the load only makes the answer conservative.

`pushed`, `popped` and `refused` are histories. `KeepHistory = FALSE` freezes them,
which makes unbounded traffic a finite-state system for the liveness run; `BoundedQueue`
has the same constant, so that the refinement means the contents and the free room with or
without them. Without histories a refused push is a stutter; that a ring with room refuses nothing is
then `FlowControl` in `dispatcher_quiet`, and the theorems.

### EmuRPC

`pc["server"]` walks through `ProcessEvents` (`check`, `responses`, `requests`,
`handle`, `respond`, `exited`), `pc["emu"]` through the emulator's side (`running`,
`join_server`, `join_io`, `destroyed`), and both may be inside `HandleTiming`
(`lookup`, `consume_all`, `check_blocking`, `pop_blocked`). `TimingReturns` says where
it returns to. `Consumers` says who pops: `{"server"}` for an emulator that reports no
timing, `{"server", "emu"}` for one that does. With `CallbackHooks` a memory
callback may or may not report an access, at each call. `blocking_emu` starts at either value, as it is never
initialised.

`callbacks` is never filled by any code, so its loop runs over empty lists; what is
left of it is the insertion of a list for a new timing, which `Lookup` keeps, with the
race on the map. Requests are records of what the dispatcher can tell apart. The
methods other than `memory_read` and `memory_write` do not pass `DeserializeRequest`.
A malformed message (`OnReadMalformed`) throws out of `ioc->run()` and ends the
process; so does a read whose length cannot be allocated (`AllocationFails`), out of the server
thread. After undefined behaviour (`ub`, `corrupt`) the process may die at any step
(`Abort`) or go on with whatever bytes the cell still holds.

`emu_client` is pushed and popped by the server thread only, so it is a sequence and
each of its operations is one step.

### RpcServer

`ready` is the handler queue of `ioc->run()`: `OnAccept`, `SessionOnAccept`, the `OnRead...` actions,
`WriteCompletes`, `WriteFails` and `OnWrite` each run the handler at its head. The reactor
(`HandshakeArrives`, `MessageArrives`, `Transmit`, `WriteBreaks`, `CloseSent`) appends to it. `OnRead` is
split by its outcome: no bytes (`OnReadError`, `OnReadEmpty`, `OnReadEof`), a request that is pushed
(`OnReadRequest`, then `DoRead`), and bytes that the codec rejects, which end the process
(`OnReadThrows`). The first part of a message whose connection broke may happen to be a request or be
rejected. The push and the `DoRead()` behind it are two steps (`io` says in whose `OnRead` the io thread
is), since the server thread may answer the request in between. `DoReadQueue` says what `DoRead()` does:
on an open stream it waits, on any other the read completes at once and its handler goes to the end of
the queue.

`Session::Send` runs on the server thread. Its accesses are steps: `Lookup` in the map, `Copy` into
`write_buffer`, `AsyncWrite` (whose data the socket takes at once, or later in `Transmit`),
`PostCompletion`. If the client has gone, the socket may refuse the data (`WriteBreaks`): `WriteFails`
then marks the stream as failed, whatever its read was doing, and later reads complete at once with
no bytes.

`wr_block` is the stream's soft mutex for writing, held by a write, by a read that answers a close frame,
or by nobody. `OnReadClose` takes it and the stream is closing until `OnReadClosed`; while a write has it
the read waits (`paused_rd`) and is resumed by the end of the write (`OnReadResume`). An `async_write`
that finds it taken is parked (`AsyncWriteParks`, `paused_wr`); the end of the read hands it the block
(`ReadReleases`) and it finds the stream closed. With assertions, a second write at the same time fails
one; without, it is parked. Both are in the model: `overlap` is recorded and the process may die.

`race` records the objects that two threads have used at once: the `write_buffer` of a session, the
`sessions` map, a stream. After a race or an overlap the process may die (`Abort`) or go on. Every handler
that uses the stream (`UsesStream`: each completion of a read or a write, each `DoRead`, the close
handshake) races with a server thread inside `ws.async_write` of the same session; `stream.hpp:80-88` calls
that unsafe. It takes no unusual client: the push comes before the `DoRead`, so that the first
response to a client that waits for it can meet it. `UndefinedHasCause` therefore names no cause for races
on the stream, only for those on the buffer and the map. `crossed` is a history of the sessions
for which a `Send` came before the `OnWrite` of the last one: what the code needs but does not ensure.

A session never dies while the server runs, as every handler of it starts the next read. A failed
accept (`OnAcceptError`) may leave the connection in the backlog, so that the next accept fails at
once too. Clients speak well-formed websocket frames. Pings are left out: the pong takes the write
block like the answer to a close frame, so that a `Send` meanwhile is parked and resumed, and its use of
the stream races with `Send` like that of every read. Handlers of a session are bound to a strand; as
only one thread runs the io context it never delays one.

### IoContext

`pc["io"]` walks through the lambda of the io thread: `start` (`Listener::Run()`), then `loop`,
the head of `do_run_one`, which takes the next operation off `op_queue`. If that is the task, the
thread is in `poll` and then in `task_cleanup`; if it is a descriptor with events, `PerformIo` runs
`perform_io`; and a performed operation goes through `complete` (its handler begins), `handler` (it
starts the operations in `todo`) and `~work_cleanup`. A channel is a descriptor and a direction.
`units` is what the kernel could deliver or take on it, `edge` the descriptors that changed since
they were last reported, `waiting` the operations queued at the descriptor, `try_speculative` and
`out_registered` the flags of the descriptor. An operation is `start_op`: `Performs` at once, or
`Waits`. `broken` channels fail every operation: a listener that could not bind or listen, a
connection that was reset; `failed` sockets belong to a websocket stream that noticed, and that
refuses at once.

Handlers appear as what they start. `OnAccept` makes a session on a new socket, or none when the
accept failed. The server thread has one write per session under way; that the code does not
ensure it is the subject of `RpcServer`. The mutexes are implicit: a step is one critical section,
and where the code keeps the scheduler's mutex from one step to the next, the model lets other
threads in. That only adds behaviours. The wait for `wakeup_event_` has no action: the first part of
`NotOverslept` is that it is never reached with one running thread.

### JsonProtocol

`todo` is the list of the `at(key)` still to come; each is one step with its conversion. The
conversions are those of nlohmann's library: an enum takes the first value of its table for
anything it does not know, a number is cut to the width of its field, a boolean passes for a
number in `id` but not in `address` and `length`. `Deserved` states the outcome without the order
of the steps: the exception for a flaw of the structure (`ByStructure`), `invalid_header` for a document
whose only flaw is a timing, sync or function that no enum knows, and otherwise a packet. `Classified`
says that the codec follows it except for `invalid_header`; `HeaderChecked`, that it does there too, is violated.

### Base64

One step is one pass of the loop in `transform_width::fill()`. A behaviour either encodes data
and decodes the text again, or decodes a text of a client. The reference is bit by bit (`Bit`):
position k of the output is position k of the input.

## 3. The runs

| run | question | bounds |
|---|---|---|
| `dispatcher_quiet` | does the dispatcher implement `Dispatcher`; order of the callbacks, accounting, flow control, and an end for every accepted request, while only the server thread pops | capacity 2, two clients with equal ids, 3 pushes: both queues overflow; callbacks that report an access discard requests in the middle; 213,518 states |
| `dispatcher_racing` | what survives two popping threads and a `HandleTiming` inside `HandleRequest`: accounting, shutdown, and that the emulator gets its thread back | capacity 2, 2 pushes, 1 reported timing: enough for a read index that moves back; 741,053 states |
| `dispatcher_progress` | is the ring a bounded FIFO for one popping thread, and its ownership invariant one; progress under unbounded traffic | capacity 2 (3 cells), no histories, reads that fit and one that does not, callbacks that report an access (so that `consume_all` and the blocking loop pop, too): the indices wrap for ever, the ring is full and empty at every offset; 112,999 states |
| `requests_discarded` | is every request answered with the test's emulator? | violated: a reported timing drops it |
| `once_runs_twice` | does a one-shot request run once? | violated: two popping threads |
| `sessions` | routing, order and integrity of responses with pipelining, closing, breaking and resetting clients; what overlapping writes, races on buffer and map and the end of the process come from; routing when `next_client_id` comes round; and: is every message read while other connections fail for ever? | 3 connections with 2 ids, of which the first sends 2 messages of every kind, the second 1 request and the last, which takes over an id, none; 2 requests inside the dispatcher: a write is under way while the next response is copied, a write fails or is parked while a close frame is answered, and the dispatcher is full; 1,058,056 states |
| `io_context` | is a wake-up or an event lost, does the work count drift, does `run()` end too early, do ready operations complete, does the join return? | an acceptor (closed, deaf or listening) and one session; up to 2 pieces of data to read, so that a read leaves one behind, 1 connection and room for 1 write, so that a write is cut; 412,230 states |
| `base64` | the regrouping loop against the bit-by-bit reference, exceptions, termination | data up to 4 bytes of 5 values (every remainder modulo 3, and a whole group before it), text up to 5 characters of 3 sextets, `=` and an invalid one (every remainder modulo 4) |
| `json_requests` | which exception a document meets and what an accepted packet holds | every combination of missing, mistyped, unknown, out-of-range and right values; 2-bit ids and 3-bit words stand for 32 and 64 bits |
| `unknown_names` | is a timing, sync or function that matches no enum value refused? | violated: it is accepted as the first of its enum |
| `writes_overlap` | is one `async_write` complete before the next starts? | violated, by a client that waits for each answer |
| `base64_padding` | is decoded data what was encoded? | violated for lengths that are no multiple of three |

The five violated runs are the findings of `PROJECT.json`; each quotes the line it
contradicts.

Other promises of the repository that the code does not keep need no run, because the code that
would keep them is missing: nothing reads `timing`, `sync` or `function` of a request
(`protocol.h:12-38`), a version mismatch ends the process instead of
the connection (`protocol.h:186-187`), and `HandleTiming`, "called by emu thread"
(`emurpc.cpp:56`), also runs on the server thread when a callback reports an access.

### Fairness

`FairSpec` assumes that a thread inside the library keeps running: weak fairness of
`ServerStep`, of the emu thread inside a call, and of the io thread inside a handler.
That is what the operating system's scheduler gives; none of these loops waits for a
lock. Nothing obliges a client to send, or the emulator to report or to destroy the
instance. The drain loop of `ProcessEvents` ends only on an empty ring, so responses
and shutdown need clients that eventually pause (`Quiet`); `RequestTaken` does not.

In `RpcServer`, `FairSpec` assumes that the io thread runs the handlers in its queue and polls
every socket it reads from (`ioc->run()` does both in turn). The server thread need not run: whether it
finishes its `Send`s does not matter to reading. Clients need not do anything. In `IoContext`, both threads keep running; the mutexes are
held for a few instructions only. Neither the kernel nor the emu thread has to do anything. After
`stop()` the kernel does nothing any more, so that `StopReturns` does not rest on an event that
happens to wake the io thread. In `Base64` the code is sequential and keeps running.

Runs of bounded traffic may stop when all clients have sent what they may (`CHECK_DEADLOCK
FALSE`): the server then waits for clients that do not come. `IoContext` is checked for deadlock:
only a joined io thread has nothing to do.

## 4. The proofs

Every invariant, every action property and every refinement that a passing run checks are also proved, for
every value of the constants: every capacity, any number of clients, sockets and ids, documents of any
shape, data of any length, any traffic. Two assumptions appear as hypotheses of theorems:
`OneConsumer` (only the server thread pops: an emulator that reports no timing from its own thread;
with two popping threads the statements are false, as `once_runs_twice` shows) and `KeepHistory` (the
histories that the statement speaks of are recorded). Neither restricts the code's steps otherwise. The
other assumptions are those on the constants (`SpscAssumption`, `EmuRPCAssumption`,
`RpcServerAssumption`, ...).

An invariant that a run checks is seldom inductive. Each proof has its own, which TLC checked on the
run's instance before the proof was written:

**The ring** (`SpscQueueProofs`).

* *Types* (`RingTypeCorrect`): whoever pops, no index leaves the storage. The invariant adds that
  a push in progress carries a value.
* *Ownership* (`RingOwnership`), for one popping thread.
  Neither "no cell is used against its lifetime" nor "values come out in order" is inductive: both
  need to know which thread owns which cell while a call is half way. `RingInv` says it: a push in
  progress owns the cell at the write index (`ProducerOwns`); the popping call's read index is
  current and it takes no more than is available (`ConsumerOwns`); the live cells are the published
  ones not handed out, plus the new one (`LiveCells`); and they hold the right values (`Contents`).
  The proof uses the distance of a cell from the read index (`Offset`), for which a few lemmas give
  the arithmetic of the wrap-around.
* *Refinement* (`RingImplementsQueue`): under `RingInv` every access of the ring is a step of
  `BoundedQueue` or a stutter. Publishing is the abstract push, handing an element out the pop, and
  storing the read index the release; the contents change in no other step.

**The dispatcher** (`EmuRPCProofs`, `EmuRPCServiceProofs`).

* *It uses the ring* (`InstanceUsesRing`): every step is a step of the ring or leaves it alone, so the
  ring's theorems carry over to `client_emu` as the instance uses it (`InstanceOwnership`,
  `InstanceImplementsQueue`).
* *Types* (`TypeCorrect`), whoever pops. The invariant adds that `req` is a request from the callback
  to the push of the response (`ReqHeld`).
* *Shutdown* (`NoUseAfterFreeCorrect`), whoever pops: `JoinInv` orders the two joins.
* *Accounting* (`PoppedAccountedCorrect`, whoever pops; `AccountedCorrect`, `ServedInOrderCorrect`).
  The counts break while a popping call is half way, so `ServiceInv` adds which labels have a call
  under way and how much it has taken (`ServerCall`), and that what was handled is what was popped
  until something is discarded (`HandledIsPopped`). With `RingInv` it gives `InstanceInv`.
* *Flow control* (`FlowControlCorrect`): what is outstanding, split into the two queues and the
  request in hand, never exceeds `peak`, a push in progress included (`PeakBounds`).
* *Refinement* (`InstanceImplementsDispatcher`): the mapping `Due` concatenates `emu_client`, the
  request in hand and the ring's contents. Answering and moving a request along leave it alone;
  a discarded request or response is a `Lose` somewhere in the middle, for which the proof names
  the place.

**Sessions and listener** (`RpcServerProofs`, `RpcServerSendProofs`).

* *Types* (`TypeCorrect`): the invariant adds that the server thread has a request and a session while
  it is inside `Send` (`SendTyped`).
* *Routing* (`RoutedCorrect`). `Routed` speaks of what clients have received; `RoutedInv` follows a
  request on its whole way: sessions got consecutive ids (`IdsInv`), the map holds accepted sessions
  under their ids (`MapInv`), a socket carries messages of its own client (`InboxInv`), and in
  `client_emu`, in the server thread's hands and in the write buffer (`QueueInv`, `SendInv`,
  `BufferInv`) a request goes with the id of its client.
* *Order* (`AnsweredInOrderCorrect`): `OrderInv` numbers a client's messages and says that what was
  answered comes before what `Send` holds, that before what is pending, and that before what is
  still in the socket.
* *What touches the writes of a session* is one definition (`Touches`), and one lemma says what all other
  steps leave alone (`KeptBy`); the next two arguments are about the touching steps only.
* *Causes of undefined behaviour* (`UndefinedHasCauseCorrect`): in a session whose `Send`s never overtook
  an `OnWrite`, nothing of the last write is left when `Send` fills the buffer, and a write in
  progress, parked or completed excludes the others (`Calm`, `CalmInv`). Hence only a crossed session has
  an overlap or a race on its buffer. For the map, the second session is inserted when a request of the
  first can be under way; for the end of the process the message that is rejected stays in the socket.
* *Integrity* (`IntactCorrect`): `InStep` says that what was received is a prefix of what was answered,
  that a write that waits for the socket carries the next response, and, while the stream can still send
  (`Well`: open, no write parked or broken), that at most one response is missing, in the buffer or
  in the write. A stream that is no longer well never becomes so again, and nothing more is sent on it.
  `LiveInv` says that only sessions whose handshake is over read, have requests under way and are
  answered, and `FreshInv` that nothing has touched the others, as long as ids have not come round: so a
  stream that opens starts in step.

**The io context** (`IoContextProofs`), for any number of sockets and any amount of data.

* `ShapeInv` is the common basis: types, where the reactor's marker is in the queue and what may stand
  before and after it (`Places`), that a peer resets both directions and a stream fails only after an error of the kernel (`Errors`), and that the
  interrupter has been used where it must (`Awake`). It gives `NotOversleptCorrect`,
  `DequeuedBeforePollCorrect` and `IoTypesCorrect`.
* `OneInFlight` says that each channel has exactly the operation its owner has started, in one
  place; with it the count of work (`WorkCounted`, and `PrivateShare` for the part that the io thread
  has not published yet) is inductive: `WorkAccountedCorrect`. `RunsUntilStoppedCorrect` follows,
  since an open acceptor always has its accept in flight.
* `NoticeInv` strengthens `EventsNoticed`: also an operation that is *about to* wait has its event
  seen if the code will not try it first (`Relies`). That is where the speculative attempt, the
  flag `try_speculative_` and the reactor race: `EventsNoticedCorrect`.

**The codec** (`JsonProtocolProofs`): `CodecInv` says that the keys still to be read are a suffix of the
method's list and that the ones before it were present and convertible. It gives
`ClassifiedCorrect`, `FaithfulCorrect` and `IdEchoedCorrect`. The first attempt failed for a good
reason: `JsonValue` contained records that no JSON value stands for (a number with a text), and for
those `Classified` was false; it is now the set of canonical records.

**Base64** (`Base64Proofs`), for data and texts of any length.

* *Counts*: `IterInv` relates the elements read and written to the bits missing and left
  (`Regroups`, `FillsUp`, `Gathers`) and bounds the output buffer by the bits found so far. It gives
  `GroupsCorrect`, `BitsConservedCorrect` and `ThrowsExactlyCorrect`.
* *Bits*: `BitsInv` says that every bit is in its place: the copied elements, the bits found of the
  next one and the bits left in the input buffer are the input's, with zeros behind its end
  (`Carried`). All groups move in twos, which leaves the shifts a dozen cases of linear arithmetic.
  From it `EncodedRightCorrect`, `DecodedRightCorrect` and, as a byte is its eight bits,
  `DataSurvivesCorrect`.

Only model-checked: the liveness properties (`SettledEventually`, `RequestTaken`, `ShutdownWhenQuiet`,
`DrainsWhenQuiet`, `EmulatorResumes`, `ReadEventually`, `ReadyOpCompletes`, `StopReturns`, `Terminates`). Liveness under
fairness and ENABLED are out of the prover's reach. The five violated runs are counterexamples and need
no proof.

## 5. Not modelled, and the plan

Not modelled:

* the directions of the codec no code of the library calls: `to_json` of a request and
  `from_json` of a response;
* floating-point numbers in requests: their conversion is undefined when they do not fit;
* `msgpack_protocol`, which is a stub, and the C API, which forwards;
* pings and pongs, and frames that break the websocket protocol;
* timers, cancellation, strands and several running threads of the io context: the server uses
  none of them, or only trivially (the strand of a session adds a second unit of work to each of its
  operations, counted up and down with the first);
* the frame format, masking and compression of the websocket stream; of the soft mutexes with which
  a stream orders its own operations `RpcServer` has the one for writing, with atomic steps: what two
  threads inside it at once could do is undefined, and is only recorded as such;
* the vendored libraries beyond the parts named above.

Start-up needs no model of its own: the constructor of `RPCServer` sets `ioc` and `listener` before
it launches the io thread, `EmuRPC::EmuRPC` sets `impl->server` before it launches the server thread,
and what the ignored errors of the listener lead to is part of `IoContext`.

Of the repository's own sources, what is left are declarations, the stub and the forwarding calls
named above. Nearly all of the tree is vendored Boost, nlohmann's JSON and Catch; of it the models
cover the parts that run inside the server and decide its behaviour between threads.

Left for the proofs: what two popping threads still guarantee beyond
`PoppedAccounted`, and the safety parts of the liveness arguments (that a step which must come stays
possible until it is taken).
