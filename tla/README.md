# A TLA+ model of the asynchronous RPC library

The repository has three parts. `common-lib` supplies promises and futures with
continuations on a thread pool, strands, timers and synchronization objects. `rpc-lib`
builds connections, connectors and endpoints on pipes (in-process, TCP, Windows).
`win-lib` wraps handles and the I/O completion port. What is hard to get right in it is
concurrent: almost every operation returns a future that one of several racing parties
(an answer, a timer, a cancellation, a disconnect) has to complete, once. This directory
models those races, checks them with TLC on small instances and proves the central
invariants with TLAPS for every instance.

## Inventory

| Component | State | Operations | What is hard | Module |
|---|---|---|---|---|
| `ipipe_endpoint` | open or closed, messages under way | read, write, invalidate | one contract for three transports | `FifoPipe` |
| `mem_buffer` | queue of messages, queue of waiting reads, two strands, timers | `write_async`, `read_async`, `invalidate` | a message and a reader that miss each other, timeout against hand-over | `MemBuffer` |
| `mem_buffers`, `mem_pipe_endpoint` | two directions, callbacks, validity flag | `invalidate`, `set_disconnect_callback` | closing in three critical sections | `MemBuffers` |
| `mem_pipe_env` | waiting ends of both sides | `create_pipe`, `open_pipe`, cancel, destruction | timeout and cancel against pairing | `MemPipeEnv` |
| `connection`, `transport`, `connection_watcher` | request map, timers, receive loop, activity flag | `start`, `request_async`, `deactivate`, watch | four completers of one request, a silent peer | `Connection` |
| `promise`, `future`, `future_controller` | outcome, queues, posted drains, waiters | settle, `then`, `catched`, `finally`, `wait` | registration against settlement, returned futures | `Future` |
| `multiple_timer` | armed and expired entries | start, cancel | cancel after expiry | inside its users |
| `periodic_timer` | period under way, counts, stops | `start`, `stop_async`, destruction | a stop while the callback runs | `PeriodicTimer`; inside `Connection` |
| `thread_pool`, `strand`, tasks | posted work, threads, guard | `post`, `stop` | stop against tasks that post and throw | `ThreadPool`; as posted work in each module |
| `event` | flag, sleeping threads | `set`, `reset`, `wait`, `wait_for` | a signal consumed by nobody or twice | `Event` |
| `ordered_lock` | mutexes held | lock, `push_back`, unlock | circular waits, an exception half way | `OrderedLock` |
| `server_connector` | run flag per start, map of handshakes, strand | `start`, `stop`, accept, handshake | continuations of an earlier run | `ServerConnector`, `ListenerEvents` |
| `server_endpoint`, `endpoint` | map of endpoints, strand per connection | new connection, disconnect, finalize | a disconnect before insertion | `ServerEndpoint` |
| `client_connector`, `client_endpoint` | one endpoint, connects under way | `connect_async`, `disconnect`, destruction | overlapping connects, half a handshake | `ClientEndpoint` |
| channel, service, controllers, `closure_guard` | calls under way | `CallMethod`, `process_request_async` | the closure runs once on each path | `RpcCall` |
| transfer message codec | none | encode, decode, limits | sizes at the limit, short buffers | `TransferMessage` |
| TCP endpoint | two queues of framed operations, socket | read, write, timeout, invalidate | timed out operations still in flight | `TcpPipeEndpoint` |
| TCP environments | queue of accepts, map of connects | create, open, cancel, destruction | who starts the next accept | `TcpPipeEnv` |
| Windows endpoint | operations, a thread per kind, completion port | read, write, timeout, invalidate | completions against timeouts | `WinPipeEndpoint` |
| Windows environments | operations, threads, instances of the pipe | create, open, cancel, destruction | a cancel against a connected client | `WinPipeEnv` |
| `win-lib`, authenticator, buffers, tuples, functions, `mpl`, example | system calls, sequential or compile time | | | not modelled |

The parts interact as follows. A `connection` reads and writes through a `transport`
that forwards to an `ipipe_endpoint`. The in-process endpoint is one side of
`mem_buffers`, which holds one `mem_buffer` per direction; `mem_pipe_env` pairs a server
end with a client end on a new `mem_buffers`. The TCP and Windows environments and
endpoints offer the same interfaces over sockets and named pipes. Connectors obtain ends
from an environment, authenticate them and make connections of them; endpoints hold
connections, and send calls through a channel that packs them into transfer messages.
Everything is chained with futures.

## Modules and how they correspond to the code

In every module a step is one critical section (or one atomic operation) together with
the posts made inside it. Settling a promise that a critical section has taken out of the
shared state touches nothing another thread can reach, and belongs to that step. Work
posted to the pool or a strand is state; the step that runs it is an action. A payload is
an identity. A timer entry is `armed` or `expired`; cancelling has an effect on an armed
entry only, because an expired one has its handler queued without an error code.

**`FifoPipe`** is the abstract specification of one direction of a pipe: messages are
accepted and delivered in order and once, closing settles what is pending, and an
operation started after the close fails.

**`MemBuffer`** (`mem-buffer.cpp`). `WriteAsync`, `ReadAsync` and `Invalidate` are the
public calls. `WriteImpl` and `ResolveReadPromise` are the two critical sections of a
write task, `ReadImpl` is that of a read task, `TimerExpires` and `TimeoutCallback` are
the life of a read timeout. `ImplementsFifoPipe` maps `m_is_valid` to `open` and
`m_buffer` to `chan`; a read started after the invalidate is `late` until its task runs.

**`MemBuffers`** (`mem-buffers.cpp`, `mem-pipe-endpoint.cpp`) composes two `FifoPipe`
instances. `InvalidateEndpoint(side)` begins `invalidate_impl`; its three critical sections are
`CloseClientToServer`, `CloseServerToClient` and `RunInvalidateCallbacks`. Because
`MemBuffer` implements `FifoPipe`, including its fairness, the composition needs none of
the buffer's internals.

**`Connection`** (`connection.cpp`, `connection-watcher.cpp`, `transport.cpp`) is one side
of a connection over a pipe endpoint. The constant `CloseOrder` says in which order the
endpoint's directions and its connected flag go down: at once for a pipe that closes
under one lock, writes first on the client end of the in-process pipe, reads first on its
server end. The last two are what `MemBuffers!CloseOrder` establishes. `RequestAsync`,
`AddRequestToMap` and `SendRequest` are the parts of `request_async`, which holds `m_mtx`
but neither the map nor the pipe in between. A write that fails may have reached the peer
(`WriteCompletes`), so that a response can race the failure. `CompleteRequest` and
`ProcessRequestSent` are the operations on the map,
`CompleteReceiveRoutine` sweeps it, `ProcessWatchEvent` is the watcher. The peer is
arbitrary: it answers, pings, sends requests or malformed messages, or does nothing.

**`MemPipeEnv`** (`mem-pipe-env.cpp`). `CreateNewPipeEnd` either waits or meets the front
of the other side's container; `RemovePromiseByTimeout`, the cancellations and the
destructor (clients first, then servers) take waiting ends out.

**`Future`** (`promise.h`, `future-controller.h`, `future-impl.h`). A controller belongs
to a promise or to the future that `then`, `catched` or `finally` returned. Claiming the
completion right, settling, registering, draining a queue and calling a continuation are
steps of different threads. A value or exception is abstracted to the controller where it
was first set, so that the model shows where an outcome comes from. A callback may return,
throw, or return the future of a promise; `then` then uses a second, flattening,
controller, `catched` and `finally` register on the returned future.

**`TcpPipeEndpoint`** (`tcp-pipe-endpoint.cpp`) is both ends of a connection over a byte
stream. `queue` is the set of the operations of an end and kind, which their numbers
order; the socket works on the oldest, and `flight` says whether its header or its payload
is under way. A byte is its position in the stream: `place` is where an operation begins,
`moved` how far an end has written or read, and at most `Window` bytes are under way.
`BytesWritten` and `BytesRead` move any number of bytes; `Continue` is what
`on_header_operation` and `on_payload_operation` do with them. A timed out operation in
flight keeps its place without a promise (`AfterTimeout`): its bytes are still sent, or
received and dropped, so that the next operation begins at a frame. `CompleteAll` and
`InvalidateUnsafe` are the way down.

**`TcpPipeEnv`** (`tcp-pipe-server-env.cpp`, `tcp-pipe-client-env.cpp`). `list` is
`m_create_operations`, of which the back one has the accept; `OnCompleted`, which starts
the next, runs as a continuation of the settled promise (`after`). `opening` is the map
of connects. The acceptor's backlog and the outcome of a connect are external.

**`WinPipeEndpoint`** (`win-pipe-endpoint.cpp`, `win-pipe-iocp-owner.cpp`, read and write
operations). `thread` is the queue of the owner's thread for a kind, `io` what the kernel
has of an operation, `res` its `m_result`, `value` and `stage` the promise and its
continuation. `RunStart`, `RunRest` and `RunCancel` are tasks of the thread,
`KernelCompletes` is the kernel, `WorkerTakes` the completion loop. A read takes chunks
until its message is whole (`StartIo`, bound `MaxChunks`). Like the code, the model takes
it that a read that returns `ERROR_MORE_DATA` at once brings no completion packet.

**`WinPipeEnv`** (both environments, create and open operations). A create operation
makes an instance and connects it; an open operation has a thread of its own that tries,
waits a while for a cancel, and tries again. `CreateOutcome` keeps the success of a client
that connected before the cancellation took effect.

**`PipeOperations`** declares the operations that the users of an endpoint may call, and
the sizes that bound them. **`PipeEnvironments`** puts the state of the TCP and of the
Windows environments beside that of `MemPipeEnv`. **`Pipes`** adds the endpoints, states
what is promised of all of them, and is what `MCPipes` instantiates.

**`ServerConnector`** (`server-connector.cpp`). A run is one `start()`, with its own
`is_running_sp`; `run[c]` and `stage[c]` say to which run the wait for a pipe with number
`c` belongs and how far it got. `StartPipeConnect` is shared by `Start` and by the
continuation `OnPipe`; `StopImpl` by `EndStop` and `OnPipeFailure`. `strand` holds the
posted notifications; `told`, `opened` and `given` record what the callbacks were called
with, and no action reads them. **`ListenerEvents`** is the abstract specification of what
the user is told: runs start and stop in turn, none is skipped, and a connection is reported
once, in the run that accepted it.

**`ServerEndpoint`** (`server-endpoint.h`) extends `ServerConnector`: its notifications
call `ProcessNewConnection`, and destruction finalizes the endpoints and then stops the
connector. `seen` is what `on_connection_change` was called with.

**`ClientEndpoint`** (`client-endpoint.h`, `client-connector.cpp`) is a client with
several `connect_async` calls under way, each in a handshake with the server's
`establish_connection`; either half may time out by itself. `EstablishEndpoint` installs
the connection over an earlier one, `Drop` is the destruction of a connection.

**`TransferMessage`** (`transfer-message.cpp`) has the functions of the codec as operators
over sequences of bytes. **`RpcCall`** (`channel.cpp`, `service.h`, the controllers,
`closure-guard.cpp`) is a call from `make_request` to its future and its processing at a
peer that may be of another version. It sees the connection through what `Connection`
establishes: each request completes once, with the response of its number or a failure.
The buffer of the response travels with the answer, and is matched by number only.

**`Event`**, **`OrderedLock`**, **`PeriodicTimer`** and **`ThreadPool`** model the classes
of these names. Of asio's context the pool uses outstanding work, `run`, `stop` and
`stopped`, which `ThreadPool` treats as external. A lock of `OrderedLock` is a pair of sets
of mutexes: the order in which they are named does not outlast `sort_tuple2`.
**`Library`** puts these four and `ClientEndpoint` side by side, with names of their own
for their constants and variables.

`MemBufferProofs` (for `MemBuffer` and `MemBuffers`), `FutureProofs`, `ServerProofs`,
`LibraryProofs` (for `Library` and `Connection`), `TcpPipeEndpointProofs`,
`WinPipeEndpointProofs`, `PipeEnvProofs` (for `PipeEnvironments`) and `PipesProofs` hold
the theorems. The `MC` modules instantiate the
components for TLC, with symmetry sets where only safety is checked. `MCPipes` and
`MCLibrary` check several components that share no state in one run: the variable
`component`, chosen in the initial state, says which of them steps, and the others stay as
they were constructed. Every behaviour of a component is a behaviour of the run and every
property is about each component by itself, so nothing is lost by putting them side by
side. Where components do interact (`MemBuffers`, `Connection`, `ServerEndpoint`,
`ClientEndpoint`, `RpcCall`) a module of its own composes them. Definitions named as
mutants are faulty variants of a definition, kept to show that a property notices the
fault.

## What the runs check

| Run | Instance | Shows |
|---|---|---|
| `mem_buffer` | 2 reads, 2 writes | no lost wakeup; every pending read has one owner; messages are conserved; the buffer implements `FifoPipe` and keeps its fairness; timed reads complete; a message and a waiting read meet |
| `mem_buffers` | 1 read and 1 write per side, 1 callback | directions close in one order; a callback runs once; reads name the closer; after an invalidate everything completes |
| `mem_buffers_peer_loss` | the same | violation, see below |
| `connection_client` | 2 requests, writes close first, symmetry | each pending request has a completer and settles once; stopping completes what was sent |
| `connection_together` | 1 request, 1 request of the peer, a service | a stopped connection completes its requests without waiting for `recv_timeout`; a silent peer is dropped |
| `connection_live` | the same, reads close first | every request completes, by its timer at the latest |
| `connection_server` | 1 request, reads close first | violation, see below |
| `future` | 1 promise, 2 links, symmetry | one driver per link; no lost drain; outcomes propagate; no lost notification; outcomes are final |
| `future_returned` | 2 promises, 2 links, symmetry | one driver per link, and propagation of outcomes, when callbacks return futures of another promise |
| `future_live` | 1 promise, 2 links | futures settle and waiting threads return |
| `pipes` | `MemPipeEnv`: 2 server ends, 1 client end, 2 callers; TCP: 2 writes and 2 reads, one message too large, headers of 2 bytes; TCP environments: 2 creates by either of 2 clients, 1 open; Windows: 1 write, 2 reads of 2 chunks; its environments: 1 create, 2 opens | see below |
| `library` | server: 3 connections, 2 runs, a stopping user and the destructor; client: 2 connects; 2 calls; event: 2 waiting and 2 setting threads; lock: 2 threads, 3 mutexes; timer: 2 periods, 2 starts, 2 stops; pool: 2 threads, 3 tasks, 2 stops; all buffers up to 7 bytes of 2 bits | see below |

**`pipes`.** Two sides of the in-process environment never wait for each other
(`NoTwoSidesWait`), a pipe has two ends and an end waits exactly while its promise is
pending (`PipesPairWaitingEnds`), first come, first served. `PipeOperationsAreDriven`: a
list of TCP operations always has its oldest one in flight; the head of a Windows list is
in exactly one place, the task queue, the kernel or a continuation, so that a cancel never
hits another operation; no promise is resolved twice or without a result.
`TcpReadsGetWholeMessages`: a read never has bytes of two messages and messages arrive
whole and in order, wherever the stream is cut and whatever times out.
`EnvironmentWaitsAreDriven`: there is one accept at most, of the oldest wait, and the next
has been neither started nor canceled; a pipe that was handed out is not closed by a late
cancel; a create that failed leaves no instance behind. `ResultsTellWhatHappened`: TCP
operations that a close ends say who closed, and a client whose connection ended a Windows
create is served. `PipeWaitsEnd`: operations that are timed, canceled, on a closed pipe or
that have a partner complete.

**`library`.** A running connector has one wait for a pipe (`OneWaitPerRun`), the number of
pending connections is that of the open run (`PendingCountIsExact`), and what the user is
told follows the listener contract (`ImplementsListener`). `ConnectionsAreReported`:
requests reach a connection exactly between its two notifications, and an endpoint whose
pipe is down is about to leave the map. `ClientHasOneConnection`: a connected client was
let in and its server accepted or closed; replaced connections are closed.
`CallsTellTheTruth`: the closure of a call runs once and the caller's result is what
happened at the peer, for its own call. `MessagesAreReadable`: a buffer that passes for
valid has its fields inside, as has one that only `get_serialized_proto_message` accepts,
and what is written is what is read. `SignalsAreKept`: no
signal is lost or handed out twice. `LocksAreOrdered`: no two threads wait for each other.
`StopsAreFinal`: no periodic call after the stop callback, and every task posted before
`stop()` has run when it returns. `EverythingEnds`: reports, connects, calls, sleeps, locks
and stops that are due come to an end.

In these two runs liveness is stated through a set `Due` per component, the obligations
of the present state: `[]<>(Due = {})` says that they are all met again and again, which,
as each identity is used once, means that each is met.

**Why these bounds are enough to be interesting.** Two reads allow one to
wait or time out while the task of the other runs inside the window of a write; two
messages show any change of order. Two requests make the completers of one interleave
with the sweep that handles both. Two ends of one side let an end leave the container
from behind another. Two runs of a server leave continuations of the first in the second,
and three connections let one be in its handshake while the next is awaited. Two connects
of a client replace each other. Frames of three and five bytes, in a stream that holds
three, are cut in every place. Most of the safety properties are also proved for every
size, see below. Two links
give chains (a link of a link) and forks (two links of one source); a flattening `then`
uses both. Operations are one-shot: an identity is used once, so the number of identities
bounds the length of a behaviour. The other bounds are `MaxConnections`, `MaxRuns`,
`MaxPeriods`, `MaxStarts`, `MaxSets`, `MaxChunks` and `Window`. The codec uses a smaller
base and narrower fields than the code; its arithmetic depends on neither. Deadlock checking is off
where every operation may have completed and nothing is left to do.

**The two violations** are disagreements between the code and its documentation.
- `ipipe-endpoint.h:16` requires pending operations to complete with `failed` when the
  connection is lost. A write that is still in the strand when the *peer* invalidates the
  in-process pipe completes with `canceled` (`mem-buffer.cpp:122`).
- `docs/rpc-architecture.md:128` says that the connection completes pending operations
  when the transport stops. On the server end of the in-process pipe reads fail first; a
  request made between the sweep and the close of the write direction is sent and then
  waits for its `recv_timeout` (`connection.cpp:151`). `connection_live` shows that this
  timer does complete it.

## Fairness

The pool runs what is posted to it and a strand runs its tasks in turn, so each posted
step is weakly fair. A call that is under way runs to its end. Timers that are armed
expire; `PatientSpec` leaves out the `recv_timeout` of requests, so that what it shows does
not depend on it. Users need not call anything, and the peer need not do anything.
`Future` assumes that a promise is destroyed some day; its steps cannot go on for ever,
which is why one weak fairness condition on all of them says the same as one for each.
No strong fairness is used. `thread_pool::stop`, after which posted work never runs, is
outside these assumptions; `RpcCall` allows for it by dropping continuations, and
`ThreadPool` shows what `stop` guarantees. The network and the kernel owe less: a stream
notices an error or a close at its end, bytes need not arrive; a connection in the backlog
is accepted; an I/O of a Windows pipe that is canceled or closed brings its completion, one
that waits for data need not. Pipes need not connect, and no peer has to answer. Holders of
an `ordered_lock` unlock, and a periodic callback returns.

## What is proved

TLAPS proves, for arbitrary sets of reads, writes, requests, ends, promises and children:

- **`MemBufferProofs`**: `TypeCorrect`, `NoLostWakeupHolds`, `OwnershipHolds`,
  `ConservationHolds`, and `Refinement` (the safety part of `FifoPipe`). The inductive
  invariant adds `Bookkeeping`: the head of the write strand is the task that runs, an
  invalid buffer is empty, and only a read that came too late remembers it. Without the
  first, a `ResolveReadPromise` could run for a write that is not there; without the last,
  the mapping of a late read would not be a step of the contract.
  For `MemBuffers`, `ClosesOnceHolds` and `ReadResultNamesTheCloserHolds`, for any overlap
  of calls of `invalidate`. The strengthening says where the calls are: one that is past a
  direction of the pipe has left it closed, whoever closed it, and whoever is inside
  `invalidate_impl`, or closed a direction, is counted as an invalidator.
- **`LibraryProofs`**, for `Connection`: `CompleterExists` and `RequestsSettleOnce` for every
  `CloseOrder`, `StopCompletes` for the orders other than reads first. `RequestLifecycle`
  is the strengthening: a request has a live timer until the sweep marks it, a marked
  request is unsent, and an unsent one has its send ahead. `NothingSentAfterSweep` adds
  that when reads fail writes are refused already, which is exactly what the server end of
  the in-process pipe lacks.
- **`TcpPipeEndpointProofs`**: `TcpInvariance`. `ListInv` says that the oldest operation of
  a list is the one that has begun and is in the phase of the socket operation in flight,
  and that calls come in the order of their numbers. `StreamInv` says where operations are
  in their stream: they follow each other without a gap, one that is not whole is the last,
  and a read that has begun lies on the frame of one write of the other end, with the size
  that its header carried. Without the places one could not tell that a read after a
  timed out one begins at a frame. `CallbacksPosted` (a closed endpoint keeps no disconnect
  callback) is what `NamesTheCloser` needs besides.
- **`WinPipeEndpointProofs`**: `WinInvariance`. `WinOperation` says that only the oldest
  operation of a kind is in the kernel or resolved, that something works on it, and that
  whoever is resolved has a result; `WinTask` that a task that works on an operation is the
  only one, and that a cancel is for the oldest operation or comes before the start of the
  oldest. The last is why a late cancel stops no other operation.
- **`PipeEnvProofs`**, for the in-process environment: `NoTwoSidesWaitHolds`,
  `PipesPairWaitingEndsHolds` and `FirstComeFirstServedHolds`; the strengthening is that
  the promise ids of waiting ends are unique and below the next one. For the others, that
  every step preserves `TcpEnvInv` (creates are numbered as they are listed, the first of
  the list has the accept until its promise is set, the others are untouched; a connect's
  socket is open until a cancellation closes it) and `WinEnvInv` (a create is in one place,
  a task, the kernel or its set promise; a client that ended its wait has the instance).
  The steps need that sets of numbers have a least one and that a set of creates, which
  a cancellation takes in any order, can be counted (`LeastNumbers`, `CreatesCount`); both are proved at the end of the module
  from the library's theorems.
- **`PipesProofs`**, for `PipesSpec`, from the invariants above: `PipeOperationsAreDrivenHolds`,
  `TcpReadsGetWholeMessagesHolds`, `EnvironmentWaitsAreDrivenHolds` and
  `ResultsTellWhatHappenedHolds`.
- **`FutureProofs`**: `TypeCorrect`, `NoLostDrainHolds` and `NoLostNotificationHolds`; the
  strengthening says that threads block only where they may wait and that a link has a
  source. `OneDriverHolds` and `OutcomeIsFinalHolds` come from one invariant,
  `DriverInv`, because each needs the other: a second driver would settle a child twice,
  and a second outcome would let both queues of a controller fire. It says that the two
  queues of a controller hold the same continuations until it settles, in one way only;
  that the completion right of a promise is free, taken or used, and unsettled until it is
  used; that a posted call matches the outcome it was posted for; and that each child has
  exactly the drivers its state allows, a continuation in a queue or a posted call but
  never both. `OutcomesPropagateHolds` and `ReturnedOutcomesPropagateHolds` add
  `OutcomeInv`: the first driver of a child is at its source and the child has no returned
  future yet, a second driver is at the future that the callback returned and the source
  is settled as it must be for that, and a settled child is explained by controllers that
  are themselves settled. The last is what makes it inductive: a settled controller stays
  as it is, and so does the future its callback returned.
- **`ServerProofs`**, for `Spec` of `ServerEndpoint`, with any number of runs, connections
  and stopping threads: `PendingCountIsExactHolds` and `OneWaitPerRunHolds`. The
  strengthening `ConnectorInv` says that at most one run, the latest, is open, that numbers
  of connections below the next one and no others are in use, and that the wait of an open
  run is a single connection; the last is what makes the cardinality of `OneWaitPerRun`
  inductive. `ListenerRefinement` shows that the connector implements `ListenerEvents`.
  The user hears of everything late, from the strand, so its invariant `StrandInv` says
  what the strand must still hold: the tasks of a run together and in order (start,
  connections, stop), no task of a run whose end was told, the start of every run that was
  not announced, the stop of every closed run the user believes open or does not know of,
  and no stop of the open run. `HeadIsAllowed` draws from it that the first task is always
  a step the contract permits. That `notify_on_new_connection` tests the flag of its own
  run, under the mutex `stop_impl` holds when it posts, is what keeps a connection before
  its "stopped".
  `ConnectionsAreReportedHolds` adds to `ConnectorInv` what the endpoint knows: a
  connection is in the map exactly between its two notifications, and a lost one that is
  in the map, or on its way into it, has the task or the promise that will take it out.
- **`LibraryProofs`**, for each other component of `Library` by itself. `SignalsAreKeptHolds`: the
  property of the event is inductive as it stands. `LocksAreOrderedHolds`: a thread holds a
  lower part of what it named, so whatever it still wants is above all it holds.
  `StopsAreFinalHolds`: for the timer, a stop belongs to an activation that has begun, and
  no call outlives it; for the pool, the promised tasks are done once the context has
  stopped, a thread has left only then, and a stopper returns only after the join found
  all threads gone. `ClientHasOneConnectionHolds`: what has become of both halves of the
  connection at each stage of a connect, and which connect the endpoint holds.

The assumptions are those of the modules: identities of different kinds are distinct, a
placeholder (`NoMsg`, `NoEnd`, `None`) is none of them, and `CloseOrder` is one of its
three values; the destructor is one of the stopping parties, and the bounds of the server
and of the timer are natural numbers; the pool has a thread (one that is constructed with
none runs nothing). For the pipes: operations are numbered (`TcpNames`, `WinNames`),
messages and headers have bytes, a read begins with one chunk, and the calls of servers
and clients differ and those of Windows servers are finitely many (`WaitNames`).

Only model-checked: the liveness properties `OperationsMakeProgress`,
`InvalidateCompletesEverything`, `OverMeansOver`, `RequestsComplete`, `FuturesComplete`,
`PipeWaitsEnd` and `EverythingEnds` (temporal reasoning under fairness is out of the
prover's reach), and `CallsTellTheTruth` and `MessagesAreReadable`, which compute with
folded sequences of bytes: what these return for every buffer would need induction over
data.

## What is left out

- The lifetime of controllers (`m_children`, dependents, value sources): weak pointers
  that the code asserts to be alive are taken to be alive.
- Access to stored values, tuples of futures, logging, and the text of exceptions.
- Allocation failures, and the wrap-around of 64-bit identifiers.
- Real time: a deadline is passed or not, whenever an expiry is possible.

## Not modelled

- `win-lib` (handles, completion port) and the sockets and acceptors of asio: system calls
  and library code, external to the models that use them.
- `strand`, `thread_pool_task`, `spinlock`, `value_locker` and `multiple_timer` have no
  modules of their own. What they guarantee (tasks in turn, mutual exclusion, an expired
  entry cannot be canceled) is built into the steps of their users.
- Future values and tuples, `value-proxy.h`, `function.h`, `unique-ptr2.h`, `mpl` and the
  buffers: sequential or compile-time code without interleavings; a model would repeat it
  line by line.
- The authenticator compares constants; the handshakes take its answer as an input.
- The example application.
